----------------------------- MODULE ModemProofs -----------------------------
(* The modem as a network connection, and as a set of sockets.                *)
(*                                                                             *)
(* Cellular: whatever the modem, PPP and the event loop do, a stop takes down  *)
(* the UART, the interface and its tasks; and as long as every PPP closed in   *)
(* time, an attempt never fails for what an earlier one left behind, and       *)
(* commands reach a modem that takes them.  The invariant says, for each place *)
(* of the network switch's task, which of the parts of a connection exist.     *)
(*                                                                             *)
(* AtSocket: the types hold however late answers are.  While no answer was     *)
(* late or cut, a task's link is what its place needs, and the bytes on their  *)
(* way to it are the next ones of its connection.                              *)
EXTENDS Cellular, AtSocket, SequenceTheorems, TLAPS

\* Places before PPP is set up or after it is gone.
Without == {"idle", "uart_init", "ready", "baud", "sim", "register", "connect",
            "fallback", "uart_off", "failed", "escape"}
\* Places at which the interface exists.
With == {"dial", "rx_task", "wait", "refused", "timeout", "close", "closing"}

(* What holds always: which parts of a connection exist at a place of the task. *)

\* The interface, its handlers and PPP come and go together, and the receive
\* task is between them.
Parts ==
  /\ cell.netif = cell.handlers
  /\ cell.netif \/ (~cell.running /\ ~rx /\ link = "off")
  /\ pc \in Without => ~cell.netif
  /\ pc \in With => cell.netif
  /\ pc \in {"up", "deinit"} => cell.running = cell.netif
  /\ pc \in {"dial", "close", "closing"} => ~cell.running
  /\ pc \in {"rx_task", "wait"} => cell.running
  /\ pc \in {"dial", "rx_task", "closing"} => ~rx
  /\ pc \in {"dial", "rx_task"} => link = "off"

\* A driver that is off has no UART.
Places ==
  /\ pc = "idle" => ~cell.uart
  /\ cell.state = "OFF" => ~cell.uart /\ ~cell.netif /\ pc \in {"idle", "failed", "deinit"}

\* Where a stop goes on.
Returns ==
  /\ pc \in {"ppp_stop", "close", "closing", "escape"} => to \in {"fallback", "idle"}
  /\ pc \in {"deinit", "uart_off"} => to \in {"failed", "idle"}
  /\ pc = "deinit" /\ to = "failed" => ~cell.netif

(* What holds as long as every PPP closed in time: events are those of the      *)
(* interface that exists, and the state and the modem fit the place.            *)

\* The bridge exists only while it is the connection.
Bridged == cell.bridge => pc = "up" /\ cell.state = "DATA_CONNECTED" /\ ~cell.netif

\* PPP's word that it has closed is about the close that is under way, and the
\* last it says.
HasClosed == "CLOSED" \in cell.bits \/ \E i \in 1..Len(posted) : posted[i] = "CLOSED"
Closing ==
  /\ link = "closing" => pc = "closing"
  /\ HasClosed => pc = "closing" /\ link = "off"
  /\ \A i \in 1..Len(posted) : posted[i] = "CLOSED" => i = Len(posted)
  /\ "CLOSED" \in cell.bits => posted = <<>>
  /\ posted # <<>> => cell.handlers
  /\ ~ghost

\* Places of an attempt to connect, and those at which PPP is not set up.
Attempt ==
  \/ pc \in {"connect", "dial", "rx_task", "wait", "refused", "timeout", "fallback"}
  \/ pc \in {"ppp_stop", "close", "closing", "escape"} /\ to = "fallback"
Unset == pc \in {"connect", "fallback"} \/ (pc = "ppp_stop" /\ ~cell.netif)
Known ==
  /\ pc = "idle" => cell.state = "OFF"
  /\ Unset => cell.state = "REGISTERED" /\ modem = "cmd"
  /\ Attempt => cell.registered

\* The modem takes commands, at the rate of the UART.
Commands ==
  /\ pc \in {"baud", "sim", "register", "dial"} => modem = "cmd"
  /\ able /\ pc \notin {"idle", "uart_init", "ready"} => bauds \in {{}, {"modem", "uart"}}
  /\ pc = "failed" \/ (pc \in {"deinit", "uart_off"} /\ to = "failed") => ~able

Tidy == Bridged /\ Closing /\ Known /\ Commands
IInv == TypeOK /\ Parts /\ Places /\ Returns /\ (overdue \/ Tidy)
-----------------------------------------------------------------------------
(* One lemma for each action; only PPP and the event loop touch the events.    *)

LEMMA Begins == Init => IInv
  <1> SUFFICES ASSUME Init PROVE IInv OBVIOUS
  <1>1. cell \in Cells BY DEF Init, Reset, Cells, States
  <1>2. posted \in Seq(Events) /\ Len(posted) = 0 BY DEF Init
  <1>3. TypeOK
    <2>1. bauds \in SUBSET {"modem", "uart"} BY DEF Init
    <2>2. Len(posted) <= MaxPosted BY <1>2, CellularAssumption
    <2> QED BY <1>1, <1>2, <2>1, <2>2 DEF Init, TypeOK, Reset, Rests
  <1>4. Parts /\ Places /\ Returns BY DEF Init, Reset, Parts, Places, Returns, Without, With
  <1>5. Closing BY <1>2 DEF Init, Reset, Closing, HasClosed
  <1>6. Bridged /\ Known /\ Commands
        BY DEF Init, Reset, Bridged, Known, Attempt, Unset, Commands
  <1> QED BY <1>3, <1>4, <1>5, <1>6 DEF IInv, Tidy

LEMMA StartStep == IInv /\ Start => IInv'
  <1> SUFFICES ASSUME IInv, Start PROVE IInv' OBVIOUS
  <1> USE DEF IInv, Start, Set, Goto, Calls, ppp, orphan, Fails
  <1>1. cell' \in Cells BY ZenonT(40) DEF TypeOK, Cells, States
  <1>2. Parts' BY ZenonT(40) DEF TypeOK, Cells, Parts, Without, With
  <1>3. TypeOK' BY <1>1, <1>2 DEF TypeOK, Rests, Parts
  <1>4. Places' BY DEF TypeOK, Cells, Places, Parts, Without, With, Returns
  <1>5. Returns' BY DEF TypeOK, Cells, Returns, Parts, Without, With
  <1>6. ASSUME ~overdue PROVE overdue' \/ Tidy'
    <2> USE <1>6 DEF Tidy
    <2>1. Bridged' BY DEF TypeOK, Cells, Parts, Without, With, Bridged
    <2>2. Closing' BY DEF TypeOK, Cells, Closing, HasClosed, Parts, Without, With
    <2>3. Known' BY DEF TypeOK, Cells, Known, Attempt, Unset, Parts, Without, With, Bridged, Places, Returns
    <2>4. Commands' BY DEF TypeOK, Cells, Commands, Known, Unset, Parts, Without, With, Bridged, Returns, Places
    <2> QED BY <2>1, <2>2, <2>3, <2>4
  <1> QED BY <1>2, <1>3, <1>4, <1>5, <1>6

LEMMA UartInitStep == IInv /\ UartInit => IInv'
  <1> SUFFICES ASSUME IInv, UartInit PROVE IInv' OBVIOUS
  <1> USE DEF IInv, UartInit, Set, Goto, Calls, ppp, orphan, Fails
  <1>1. cell' \in Cells BY DEF TypeOK, Cells, States
  <1>2. Parts' BY DEF TypeOK, Cells, Parts, Without, With
  <1>3. TypeOK' BY <1>1, <1>2 DEF TypeOK, Rests, Parts
  <1>4. Places' BY DEF TypeOK, Cells, Places, Parts, Without, With, Returns
  <1>5. Returns' BY DEF TypeOK, Cells, Returns, Parts, Without, With
  <1>6. ASSUME ~overdue PROVE overdue' \/ Tidy'
    <2> USE <1>6 DEF Tidy
    <2>1. Bridged' BY DEF TypeOK, Cells, Parts, Without, With, Bridged
    <2>2. Closing' BY DEF TypeOK, Cells, Closing, HasClosed, Parts, Without, With
    <2>3. Known' BY DEF TypeOK, Cells, Known, Attempt, Unset, Parts, Without, With, Bridged, Places, Returns
    <2>4. Commands' BY DEF TypeOK, Cells, Commands, Known, Unset, Parts, Without, With, Bridged, Returns, Places
    <2> QED BY <2>1, <2>2, <2>3, <2>4
  <1> QED BY <1>2, <1>3, <1>4, <1>5, <1>6

LEMMA ReadyStep == IInv /\ Ready => IInv'
  <1> SUFFICES ASSUME IInv, Ready PROVE IInv' OBVIOUS
  <1> USE DEF IInv, Ready, Set, Goto, Calls, ppp, orphan, Fails
  <1>1. cell' \in Cells BY DEF TypeOK, Cells, States
  <1>2. Parts' BY DEF TypeOK, Cells, Parts, Without, With
  <1>3. TypeOK' BY <1>1, <1>2 DEF TypeOK, Rests, Parts
  <1>4. Places' BY DEF TypeOK, Cells, Places, Parts, Without, With, Returns
  <1>5. Returns' BY DEF TypeOK, Cells, Returns, Parts, Without, With
  <1>6. ASSUME ~overdue PROVE overdue' \/ Tidy'
    <2> USE <1>6 DEF Tidy
    <2>1. Bridged' BY DEF TypeOK, Cells, Parts, Without, With, Bridged
    <2>2. Closing' BY DEF TypeOK, Cells, Closing, HasClosed, Parts, Without, With
    <2>3. Known' BY DEF TypeOK, Cells, Known, Attempt, Unset, Parts, Without, With, Bridged, Places, Returns
    <2>4. Commands' BY DEF TypeOK, Cells, Commands, Known, Unset, Parts, Without, With, Bridged, Returns, Places
    <2> QED BY <2>1, <2>2, <2>3, <2>4
  <1> QED BY <1>2, <1>3, <1>4, <1>5, <1>6

LEMMA BaudStep == IInv /\ Baud => IInv'
  <1> SUFFICES ASSUME IInv, Baud PROVE IInv' OBVIOUS
  <1> USE DEF IInv, Baud, Set, Goto, Calls, ppp, orphan
  <1>1. cell' \in Cells BY DEF TypeOK, Cells, States
  <1>2. Parts' BY DEF TypeOK, Cells, Parts, Without, With
  <1>3. TypeOK' BY <1>1, <1>2 DEF TypeOK, Rests, Parts
  <1>4. Places' BY DEF TypeOK, Cells, Places, Parts, Without, With, Returns
  <1>5. Returns' BY DEF TypeOK, Cells, Returns, Parts, Without, With
  <1>6. ASSUME ~overdue PROVE overdue' \/ Tidy'
    <2> USE <1>6 DEF Tidy
    <2>1. Bridged' BY DEF TypeOK, Cells, Parts, Without, With, Bridged
    <2>2. Closing' BY DEF TypeOK, Cells, Closing, HasClosed, Parts, Without, With
    <2>3. Known' BY DEF TypeOK, Cells, Known, Attempt, Unset, Parts, Without, With, Bridged, Places, Returns
    <2>4. Commands'
      <3>1. modem = "cmd" /\ (able => bauds \in {{}, {"modem", "uart"}}) BY DEF Commands
      <3>2. able' => bauds' \in {{}, {"modem", "uart"}} BY <3>1
      <3> QED BY <3>1, <3>2 DEF Commands
    <2> QED BY <2>1, <2>2, <2>3, <2>4
  <1> QED BY <1>2, <1>3, <1>4, <1>5, <1>6

LEMMA SimStep == IInv /\ Sim => IInv'
  <1> SUFFICES ASSUME IInv, Sim PROVE IInv' OBVIOUS
  <1> USE DEF IInv, Sim, Set, Goto, Calls, ppp, orphan, Answered
  <1>1. cell' \in Cells BY DEF TypeOK, Cells, States
  <1>2. Parts' BY DEF TypeOK, Cells, Parts, Without, With
  <1>3. TypeOK' BY <1>1, <1>2 DEF TypeOK, Rests, Parts
  <1>4. Places' BY DEF TypeOK, Cells, Places, Parts, Without, With, Returns
  <1>5. Returns' BY DEF TypeOK, Cells, Returns, Parts, Without, With
  <1>6. ASSUME ~overdue PROVE overdue' \/ Tidy'
    <2> USE <1>6 DEF Tidy
    <2>1. Bridged' BY DEF TypeOK, Cells, Parts, Without, With, Bridged
    <2>2. Closing' BY DEF TypeOK, Cells, Closing, HasClosed, Parts, Without, With
    <2>3. Known' BY DEF TypeOK, Cells, Known, Attempt, Unset, Parts, Without, With, Bridged, Places, Returns
    <2>4. Commands' BY DEF TypeOK, Cells, Commands, Known, Unset, Parts, Without, With, Bridged, Returns, Places
    <2> QED BY <2>1, <2>2, <2>3, <2>4
  <1> QED BY <1>2, <1>3, <1>4, <1>5, <1>6

LEMMA RegisterStep == IInv /\ Register => IInv'
  <1> SUFFICES ASSUME IInv, Register PROVE IInv' OBVIOUS
  <1> USE DEF IInv, Register, Set, Goto, Calls, ppp, orphan, Answered
  <1>1. cell' \in Cells BY ZenonT(40) DEF TypeOK, Cells, States
  <1>2. Parts' BY DEF TypeOK, Cells, Parts, Without, With
  <1>3. TypeOK' BY <1>1, <1>2 DEF TypeOK, Rests, Parts
  <1>4. Places' BY DEF TypeOK, Cells, Places, Parts, Without, With, Returns
  <1>5. Returns' BY DEF TypeOK, Cells, Returns, Parts, Without, With
  <1>6. ASSUME ~overdue PROVE overdue' \/ Tidy'
    <2> USE <1>6 DEF Tidy
    <2>1. Bridged' BY DEF TypeOK, Cells, Parts, Without, With, Bridged
    <2>2. Closing' BY DEF TypeOK, Cells, Closing, HasClosed, Parts, Without, With
    <2>3. Known' BY DEF TypeOK, Cells, Known, Attempt, Unset, Parts, Without, With, Bridged, Places, Returns
    <2>4. Commands' BY DEF TypeOK, Cells, Commands, Known, Unset, Parts, Without, With, Bridged, Returns, Places
    <2> QED BY <2>1, <2>2, <2>3, <2>4
  <1> QED BY <1>2, <1>3, <1>4, <1>5, <1>6

LEMMA PppSetupStep == IInv /\ PppSetup => IInv'
  <1> SUFFICES ASSUME IInv, PppSetup PROVE IInv' OBVIOUS
  <1> USE DEF IInv
  <1>1. /\ pc = "connect" /\ ~cell.netif /\ ~cell.handlers /\ ~cell.running /\ ~rx
        /\ link = "off" /\ cell.state # "OFF" /\ cell \in Cells
        BY DEF PppSetup, Parts, Without, Places, TypeOK, Cells
  <1>2. UNCHANGED <<rx, modem, bauds, link, posted, ghost, overdue, able>>
        BY DEF PppSetup, ppp, orphan
  <1>3. CASE pc' = "dial"
    <2>1. /\ cell.state = "REGISTERED" /\ to' = to
          /\ cell' = [cell EXCEPT !.state = "PPP_CONNECTING", !.netif = TRUE, !.events = TRUE,
                                  !.handlers = TRUE, !.bits = {}]
          BY <1>3 DEF PppSetup, Set, Goto, Calls
    <2>2. /\ cell'.netif /\ cell'.handlers /\ cell'.bits = {} /\ cell'.state = "PPP_CONNECTING"
          /\ cell'.running = cell.running /\ cell'.bridge = cell.bridge
          /\ cell'.uart = cell.uart /\ cell'.registered = cell.registered /\ cell' \in Cells
      <3>1. cell' \in Cells BY <1>1, <2>1, ZenonT(40) DEF Cells, States
      <3> QED BY <1>1, <2>1, <3>1 DEF Cells
    <2>3. TypeOK' BY <1>2, <1>3, <2>1, <2>2 DEF TypeOK
    <2>4. Parts' BY <1>1, <1>2, <1>3, <2>2 DEF Parts, Without, With
    <2>5. Places' /\ Returns' BY <1>3, <2>2 DEF Places, Returns
    <2>6. ASSUME ~overdue PROVE Tidy'
      <3>1. Bridged' BY <1>1, <2>2, <2>6 DEF Tidy, Bridged
      <3>2. Closing' BY <1>1, <1>2, <1>3, <2>2, <2>6 DEF Tidy, Closing, HasClosed
      <3>3. Known' /\ Commands'
            BY <1>1, <1>2, <1>3, <2>2, <2>6 DEF Tidy, Known, Unset, Attempt, Commands
      <3> QED BY <3>1, <3>2, <3>3 DEF Tidy
    <2> QED BY <1>2, <2>3, <2>4, <2>5, <2>6
  <1>4. CASE pc' # "dial"
    <2>1. /\ pc' = "ppp_stop" /\ to' = "fallback"
          /\ \/ UNCHANGED cell /\ cell.state # "REGISTERED"
             \/ \E kept \in {{}, {"events"}, {"events", "handler"}} :
                  cell' = [cell EXCEPT !.events = "events" \in kept, !.bits = {},
                                       !.left = @ \cup kept]
          BY <1>4 DEF PppSetup, Set, Goto, Calls
    <2>2. PICK kept \in SUBSET {"events", "handler", "mutex"},
               bits \in SUBSET Events, events \in BOOLEAN :
            /\ cell' = [cell EXCEPT !.events = events, !.bits = bits, !.left = @ \cup kept]
            /\ cell.state = "REGISTERED" => bits = {}
      <3>1. CASE UNCHANGED cell /\ cell.state # "REGISTERED"
        <4>1. cell = [cell EXCEPT !.events = cell.events, !.bits = cell.bits, !.left = @ \cup {}]
              BY <1>1 DEF Cells
        <4>2. cell.bits \in SUBSET Events /\ cell.events \in BOOLEAN BY <1>1 DEF Cells
        <4> QED BY <3>1, <4>1, <4>2
      <3>2. CASE \E kept \in {{}, {"events"}, {"events", "handler"}} :
                   cell' = [cell EXCEPT !.events = "events" \in kept, !.bits = {},
                                        !.left = @ \cup kept]
        <4>1. PICK kept \in {{}, {"events"}, {"events", "handler"}} :
                cell' = [cell EXCEPT !.events = "events" \in kept, !.bits = {},
                                     !.left = @ \cup kept]
              BY <3>2
        <4>2. kept \in SUBSET {"events", "handler", "mutex"} OBVIOUS
        <4>3. ("events" \in kept) \in BOOLEAN OBVIOUS
        <4> QED BY <4>1, <4>2, <4>3
      <3> QED BY <2>1, <3>1, <3>2
    <2>3. /\ cell'.netif = cell.netif /\ cell'.handlers = cell.handlers
          /\ cell'.running = cell.running /\ cell'.bridge = cell.bridge
          /\ cell'.uart = cell.uart /\ cell'.registered = cell.registered
          /\ cell'.state = cell.state /\ cell' \in Cells /\ cell'.bits = bits
      <3>1. cell.left \cup kept \in SUBSET {"events", "handler", "mutex"} BY <1>1 DEF Cells
      <3> QED BY <1>1, <2>2, <3>1 DEF Cells
    <2>4. TypeOK' BY <1>2, <2>1, <2>3 DEF TypeOK
    <2>5. Parts' BY <1>1, <1>2, <2>1, <2>3 DEF Parts, Without, With
    <2>6. Places' /\ Returns' BY <1>1, <2>1, <2>3 DEF Places, Returns
    <2>7. ASSUME ~overdue PROVE Tidy'
      <3>1. cell.state = "REGISTERED" /\ modem = "cmd" /\ cell.registered /\ bits = {}
            BY <1>1, <2>2, <2>7 DEF Tidy, Known, Unset, Attempt
      <3>2. Bridged' BY <1>1, <2>3, <2>7 DEF Tidy, Bridged
      <3>3. Closing' BY <1>1, <1>2, <2>1, <2>3, <2>7, <3>1 DEF Tidy, Closing, HasClosed
      <3>4. Known' BY <1>2, <2>1, <2>3, <3>1 DEF Known, Unset, Attempt
      <3>5. Commands' BY <1>1, <1>2, <2>1, <2>7 DEF Tidy, Commands
      <3> QED BY <3>2, <3>3, <3>4, <3>5 DEF Tidy
    <2> QED BY <1>2, <2>4, <2>5, <2>6, <2>7
  <1> QED BY <1>3, <1>4

LEMMA DialStep == IInv /\ Dial => IInv'
  <1> SUFFICES ASSUME IInv, Dial PROVE IInv' OBVIOUS
  <1> USE DEF IInv, Dial, Set, Goto, Calls, ppp, orphan, Answered
  <1>1. cell' \in Cells BY ZenonT(40) DEF TypeOK, Cells, States
  <1>2. Parts' BY DEF TypeOK, Cells, Parts, Without, With
  <1>3. TypeOK' BY <1>1, <1>2 DEF TypeOK, Rests, Parts
  <1>4. Places' BY DEF TypeOK, Cells, Places, Parts, Without, With, Returns
  <1>5. Returns' BY DEF TypeOK, Cells, Returns, Parts, Without, With
  <1>6. ASSUME ~overdue PROVE overdue' \/ Tidy'
    <2> USE <1>6 DEF Tidy
    <2>1. Bridged' BY DEF TypeOK, Cells, Parts, Without, With, Bridged
    <2>2. Closing' BY DEF TypeOK, Cells, Closing, HasClosed, Parts, Without, With
    <2>3. Known' BY DEF TypeOK, Cells, Known, Attempt, Unset, Parts, Without, With, Bridged, Places, Returns
    <2>4. Commands' BY DEF TypeOK, Cells, Commands, Known, Unset, Parts, Without, With, Bridged, Returns, Places
    <2> QED BY <2>1, <2>2, <2>3, <2>4
  <1> QED BY <1>2, <1>3, <1>4, <1>5, <1>6

LEMMA RxTaskStep == IInv /\ RxTask => IInv'
  <1> SUFFICES ASSUME IInv, RxTask PROVE IInv' OBVIOUS
  <1> USE DEF IInv, RxTask, Set, Goto, Calls, ppp, orphan
  <1>1. cell' \in Cells
    <2>1. cell \in Cells BY DEF TypeOK
    <2>2. CASE cell' = [cell EXCEPT !.running = FALSE, !.state = "ERROR"]
          BY <2>1, <2>2 DEF Cells, States
    <2>3. CASE cell' = cell BY <2>1, <2>3
    <2> QED BY <2>2, <2>3
  <1>2. Parts' BY DEF TypeOK, Cells, Parts, Without, With
  <1>3. TypeOK' BY <1>1, <1>2 DEF TypeOK, Rests, Parts
  <1>4. Places' BY DEF TypeOK, Cells, Places, Parts, Without, With, Returns
  <1>5. Returns' BY DEF TypeOK, Cells, Returns, Parts, Without, With
  <1>6. ASSUME ~overdue PROVE overdue' \/ Tidy'
    <2> USE <1>6 DEF Tidy
    <2>1. Bridged' BY DEF TypeOK, Cells, Parts, Without, With, Bridged
    <2>2. Closing' BY DEF TypeOK, Cells, Closing, HasClosed, Parts, Without, With
    <2>3. Known' BY DEF TypeOK, Cells, Known, Attempt, Unset, Parts, Without, With, Bridged, Places, Returns
    <2>4. Commands' BY DEF TypeOK, Cells, Commands, Known, Unset, Parts, Without, With, Bridged, Returns, Places
    <2> QED BY <2>1, <2>2, <2>3, <2>4
  <1> QED BY <1>2, <1>3, <1>4, <1>5, <1>6

LEMMA WaitStep == IInv /\ Wait => IInv'
  <1> SUFFICES ASSUME IInv, Wait PROVE IInv' OBVIOUS
  <1> USE DEF IInv, Wait, Set, Goto, Calls, ppp, orphan
  <1>1. cell' \in Cells
    <2>1. cell \in Cells BY DEF TypeOK
    <2>2. CASE cell' = [cell EXCEPT !.running = FALSE] BY <2>1, <2>2 DEF Cells
    <2>3. CASE cell' = [cell EXCEPT !.mode = "PPP"] BY <2>1, <2>3 DEF Cells
    <2> QED BY <2>2, <2>3
  <1>2. Parts'
    <2>1. cell.netif /\ cell.handlers BY DEF Parts, With
    <2>2. cell'.netif /\ cell'.handlers BY <2>1 DEF TypeOK, Cells
    <2>3. CASE pc' = "up"
      <3>1. cell'.running = cell.running BY <2>3 DEF TypeOK, Cells
      <3> QED BY <2>1, <2>2, <2>3, <3>1 DEF Parts, Without, With
    <2>4. CASE pc' \in {"refused", "timeout"} BY <2>2, <2>4 DEF Parts, Without, With
    <2> QED BY <2>3, <2>4
  <1>3. TypeOK' BY <1>1, <1>2 DEF TypeOK, Rests, Parts
  <1>4. Places' BY DEF TypeOK, Cells, Places, Parts, Without, With, Returns
  <1>5. Returns' BY DEF TypeOK, Cells, Returns, Parts, Without, With
  <1>6. ASSUME ~overdue PROVE overdue' \/ Tidy'
    <2> USE <1>6 DEF Tidy
    <2>1. Bridged' BY DEF TypeOK, Cells, Parts, Without, With, Bridged
    <2>2. Closing' BY DEF TypeOK, Cells, Closing, HasClosed, Parts, Without, With
    <2>3. Known' BY DEF TypeOK, Cells, Known, Attempt, Unset, Parts, Without, With, Bridged, Places, Returns
    <2>4. Commands' BY DEF TypeOK, Cells, Commands, Known, Unset, Parts, Without, With, Bridged, Returns, Places
    <2> QED BY <2>1, <2>2, <2>3, <2>4
  <1> QED BY <1>2, <1>3, <1>4, <1>5, <1>6

LEMMA GiveUpStep == IInv /\ GiveUp => IInv'
  <1> SUFFICES ASSUME IInv, GiveUp PROVE IInv' OBVIOUS
  <1> USE DEF IInv, GiveUp, Set, Goto, Calls, ppp, orphan
  <1>1. cell' \in Cells BY DEF TypeOK, Cells, States
  <1>2. Parts' BY DEF TypeOK, Cells, Parts, Without, With
  <1>3. TypeOK' BY <1>1, <1>2 DEF TypeOK, Rests, Parts
  <1>4. Places' BY DEF TypeOK, Cells, Places, Parts, Without, With, Returns
  <1>5. Returns' BY DEF TypeOK, Cells, Returns, Parts, Without, With
  <1>6. ASSUME ~overdue PROVE overdue' \/ Tidy'
    <2> USE <1>6 DEF Tidy
    <2>1. Bridged' BY DEF TypeOK, Cells, Parts, Without, With, Bridged
    <2>2. Closing' BY DEF TypeOK, Cells, Closing, HasClosed, Parts, Without, With
    <2>3. Known' BY DEF TypeOK, Cells, Known, Attempt, Unset, Parts, Without, With, Bridged, Places, Returns
    <2>4. Commands' BY DEF TypeOK, Cells, Commands, Known, Unset, Parts, Without, With, Bridged, Returns, Places
    <2> QED BY <2>1, <2>2, <2>3, <2>4
  <1> QED BY <1>2, <1>3, <1>4, <1>5, <1>6

LEMMA DataStartStep == IInv /\ DataStart => IInv'
  <1> SUFFICES ASSUME IInv, DataStart PROVE IInv' OBVIOUS
  <1> USE DEF IInv
  <1>1. /\ pc = "fallback" /\ cell.netif = FALSE /\ cell.handlers = FALSE
        /\ cell.running = FALSE /\ ~rx
        /\ link = "off" /\ cell.state # "OFF" /\ cell \in Cells
        BY DEF DataStart, Parts, Without, Places, TypeOK, Cells
  <1>2. UNCHANGED <<rx, modem, bauds, link, posted, ghost, overdue>>
        BY DEF DataStart, ppp, orphan
  <1>3. CASE pc' = "up"
    <2>1. /\ to' = to /\ able' = able
          /\ cell' = [cell EXCEPT !.bridge = TRUE, !.state = "DATA_CONNECTED", !.mode = "AT_SOCKET"]
          BY <1>3 DEF DataStart, Set, Goto, Calls
    <2>2. /\ cell'.netif = cell.netif /\ cell'.handlers = cell.handlers
          /\ cell'.bits = cell.bits /\ cell'.running = cell.running
          /\ cell'.state = "DATA_CONNECTED" /\ cell' \in Cells
      <3>1. cell' \in Cells BY <1>1, <2>1, ZenonT(40) DEF Cells, States
      <3> QED BY <1>1, <2>1, <3>1 DEF Cells
    <2>3. TypeOK' BY <1>1, <1>2, <1>3, <2>1, <2>2 DEF TypeOK, Rests
    <2>4. Parts' BY <1>1, <1>2, <1>3, <2>2 DEF Parts, Without, With
    <2>5. Places' /\ Returns' BY <1>3, <2>2 DEF Places, Returns
    <2>6. ASSUME ~overdue PROVE Tidy'
      <3>1. Bridged' BY <1>1, <1>3, <2>2 DEF Bridged
      <3>2. Closing' BY <1>1, <1>2, <1>3, <2>2, <2>6 DEF Tidy, Closing, HasClosed
      <3>3. Known' BY <1>3 DEF Known, Unset, Attempt
      <3>4. Commands' BY <1>1, <1>2, <1>3, <2>1, <2>6 DEF Tidy, Commands
      <3> QED BY <3>1, <3>2, <3>3, <3>4 DEF Tidy
    <2> QED BY <1>2, <2>3, <2>4, <2>5, <2>6
  <1>4. CASE pc' # "up"
    <2> DEFINE tried == Registered /\ ~cell.running
    <2>1. PICK kept \in SUBSET {"events", "handler", "mutex"} :
            cell' = [cell EXCEPT !.state = IF tried THEN "ERROR" ELSE @, !.mode = "NONE",
                                 !.left = @ \cup kept]
      <3>1. PICK kept \in IF tried /\ ~cell.bridge THEN {{}, {"mutex"}} ELSE {{}} :
              cell' = [cell EXCEPT !.state = IF tried THEN "ERROR" ELSE @, !.mode = "NONE",
                                   !.left = @ \cup kept]
            BY <1>4 DEF DataStart, Set, Goto
      <3> HIDE DEF tried
      <3>2. kept \in {{}, {"mutex"}} OBVIOUS
      <3> QED BY <3>1, <3>2
    <2>2. /\ pc' = "deinit" /\ to' = "failed"
          /\ able' = (able /\ ~(tried /\ ~cell.bridge /\ Answered))
          BY <1>4 DEF DataStart, Goto, Calls
    <2>3. /\ cell'.netif = cell.netif /\ cell'.handlers = cell.handlers
          /\ cell'.bits = cell.bits /\ cell'.running = cell.running /\ cell'.uart = cell.uart
          /\ cell'.bridge = cell.bridge /\ cell'.state \in {"ERROR", cell.state}
          /\ cell' \in Cells
      <3>1. cell.left \cup kept \in SUBSET {"events", "handler", "mutex"} BY <1>1 DEF Cells
      <3>2. (IF tried THEN "ERROR" ELSE cell.state) \in States \cap {"ERROR", cell.state}
            BY <1>1 DEF Cells, States
      <3> HIDE DEF tried
      <3> QED BY <1>1, <2>1, <3>1, <3>2 DEF Cells
    <2>4. TypeOK' BY <1>1, <1>2, <2>2, <2>3 DEF TypeOK
    <2>5. Parts' BY <1>1, <1>2, <2>2, <2>3 DEF Parts, Without, With
    <2>6. Places' /\ Returns' BY <1>1, <2>2, <2>3 DEF Places, Returns
    <2>7. ASSUME ~overdue PROVE Tidy'
      <3>1. ~cell.bridge /\ cell.state = "REGISTERED" /\ modem = "cmd"
            BY <1>1, <2>7 DEF Tidy, Bridged, Known, Unset
      <3>2. ~able'
        <4>1. able => Answered BY <1>1, <2>7, <3>1 DEF Tidy, Commands, Answered
        <4>2. tried BY <1>1, <3>1 DEF Registered
        <4> QED BY <2>2, <3>1, <4>1, <4>2
      <3>3. Bridged' BY <2>3, <3>1 DEF Bridged
      <3>4. Closing' BY <1>1, <1>2, <2>2, <2>3, <2>7 DEF Tidy, Closing, HasClosed
      <3>5. Known' BY <2>2 DEF Known, Unset, Attempt
      <3>6. Commands' BY <2>2, <3>2 DEF Commands
      <3> QED BY <3>3, <3>4, <3>5, <3>6 DEF Tidy
    <2> QED BY <1>2, <2>4, <2>5, <2>6, <2>7
  <1> QED BY <1>3, <1>4

LEMMA PppStopStep == IInv /\ PppStop => IInv'
  <1> SUFFICES ASSUME IInv, PppStop PROVE IInv' OBVIOUS
  <1> USE DEF IInv, PppStop, Set, Goto, Calls, ppp, orphan, Return
  <1>1. cell' \in Cells
    <2>1. cell \in Cells BY DEF TypeOK
    <2>2. CASE cell' = [cell EXCEPT !.running = FALSE] BY <2>1, <2>2 DEF Cells
    <2>3. CASE cell' = cell BY <2>1, <2>3
    <2> QED BY <2>2, <2>3
  <1>2. Parts' BY DEF TypeOK, Cells, Parts, Without, With
  <1>3. TypeOK' BY <1>1, <1>2 DEF TypeOK, Rests, Parts
  <1>4. Places' BY DEF TypeOK, Cells, Places, Parts, Without, With, Returns
  <1>5. Returns' BY DEF TypeOK, Cells, Returns, Parts, Without, With
  <1>6. ASSUME ~overdue PROVE overdue' \/ Tidy'
    <2> USE <1>6 DEF Tidy
    <2>1. Bridged' BY DEF TypeOK, Cells, Parts, Without, With, Bridged
    <2>2. Closing' BY DEF TypeOK, Cells, Closing, HasClosed, Parts, Without, With
    <2>3. Known' BY DEF TypeOK, Cells, Known, Attempt, Unset, Parts, Without, With, Bridged, Places, Returns
    <2>4. Commands' BY DEF TypeOK, Cells, Commands, Known, Unset, Parts, Without, With, Bridged, Returns, Places
    <2> QED BY <2>1, <2>2, <2>3, <2>4
  <1> QED BY <1>2, <1>3, <1>4, <1>5, <1>6

LEMMA PppCloseStep == IInv /\ PppClose => IInv'
  <1> SUFFICES ASSUME IInv, PppClose PROVE IInv' OBVIOUS
  <1> USE DEF IInv, PppClose, Set, Goto, Calls, ppp, orphan
  <1>1. cell' \in Cells BY DEF TypeOK, Cells, States
  <1>2. Parts'
    <2>1. cell'.netif = cell.netif /\ cell'.handlers = cell.handlers /\ cell'.running = cell.running
          BY DEF TypeOK, Cells
    <2> QED BY <2>1 DEF Parts, Without, With
  <1>3. TypeOK' BY <1>1, <1>2 DEF TypeOK, Rests, Parts
  <1>4. Places' BY DEF TypeOK, Cells, Places, Parts, Without, With, Returns
  <1>5. Returns' BY DEF TypeOK, Cells, Returns, Parts, Without, With
  <1>6. ASSUME ~overdue PROVE overdue' \/ Tidy'
    <2> USE <1>6 DEF Tidy
    <2>1. Bridged' BY DEF TypeOK, Cells, Parts, Without, With, Bridged
    <2>2. Closing' BY DEF TypeOK, Cells, Closing, HasClosed, Parts, Without, With
    <2>3. Known' BY DEF TypeOK, Cells, Known, Attempt, Unset, Parts, Without, With, Bridged, Places, Returns
    <2>4. Commands' BY DEF TypeOK, Cells, Commands, Known, Unset, Parts, Without, With, Bridged, Returns, Places
    <2> QED BY <2>1, <2>2, <2>3, <2>4
  <1> QED BY <1>2, <1>3, <1>4, <1>5, <1>6

LEMMA PppDestroyStep == IInv /\ PppDestroy => IInv'
  <1> SUFFICES ASSUME IInv, PppDestroy PROVE IInv' OBVIOUS
  <1> USE DEF IInv
  <1>1. /\ pc = "closing" /\ ~cell.running /\ ~rx /\ cell \in Cells /\ cell.state # "OFF"
        BY DEF PppDestroy, Parts, Places, TypeOK
  <1>2. /\ pc' = "escape" /\ to' = to /\ link' = "off"
        /\ UNCHANGED <<rx, modem, bauds, posted, able>>
        /\ cell' = [cell EXCEPT !.handlers = FALSE, !.netif = FALSE, !.events = FALSE, !.bits = {}]
        /\ ghost' = (ghost \/ link # "off")
        /\ overdue' = (overdue \/ ("CLOSED" \notin cell.bits /\ link # "off"))
        /\ "CLOSED" \in cell.bits \/ posted = <<>>
        BY DEF PppDestroy, Destroys, Set, Goto
  <1>3. /\ ~cell'.netif /\ ~cell'.handlers /\ cell'.bits = {} /\ cell'.running = cell.running
        /\ cell'.state = cell.state /\ cell'.bridge = cell.bridge
        /\ cell'.uart = cell.uart /\ cell'.registered = cell.registered /\ cell' \in Cells
        BY <1>1, <1>2 DEF Cells
  <1>4. TypeOK'
    <2>1. ghost' \in BOOLEAN /\ overdue' \in BOOLEAN BY <1>2 DEF TypeOK
    <2> QED BY <1>1, <1>2, <1>3, <2>1 DEF TypeOK
  <1>5. Parts' BY <1>1, <1>2, <1>3 DEF Parts, Without, With
  <1>6. Places' /\ Returns' BY <1>1, <1>2, <1>3 DEF Places, Returns
  <1>7. ASSUME ~overdue' PROVE Tidy'
    <2>1. Tidy BY <1>2, <1>7
    <2>2. link = "off" /\ posted = <<>> BY <1>2, <1>7, <2>1 DEF Tidy, Closing, HasClosed
    <2>3. Bridged' BY <1>1, <1>3, <2>1 DEF Tidy, Bridged
    <2>4. Closing'
      <3>1. posted' = <<>> BY <1>2, <2>2
      <3>2. 1..Len(posted') = {} BY <3>1
      <3>3. ~ghost BY <2>1 DEF Tidy, Closing
      <3>4. ~ghost' BY <1>2, <2>2, <3>3
      <3> QED BY <1>2, <1>3, <3>1, <3>2, <3>4 DEF Closing, HasClosed
    <2>5. Known' BY <1>1, <1>2, <1>3, <2>1 DEF Tidy, Known, Unset, Attempt
    <2>6. Commands' BY <1>1, <1>2, <2>1 DEF Tidy, Commands
    <2> QED BY <2>3, <2>4, <2>5, <2>6 DEF Tidy
  <1> QED BY <1>4, <1>5, <1>6, <1>7

LEMMA EscapeStep == IInv /\ Escape => IInv'
  <1> SUFFICES ASSUME IInv, Escape PROVE IInv' OBVIOUS
  <1> USE DEF IInv, Escape, Set, Goto, Calls, ppp, orphan, Return
  <1>1. cell' \in Cells BY DEF TypeOK, Cells, States
  <1>2. Parts' BY DEF TypeOK, Cells, Parts, Without, With
  <1>3. TypeOK' BY <1>1, <1>2 DEF TypeOK, Rests, Parts
  <1>4. Places' BY DEF TypeOK, Cells, Places, Parts, Without, With, Returns
  <1>5. Returns' BY DEF TypeOK, Cells, Returns, Parts, Without, With
  <1>6. ASSUME ~overdue PROVE overdue' \/ Tidy'
    <2> USE <1>6 DEF Tidy
    <2>1. Bridged' BY DEF TypeOK, Cells, Parts, Without, With, Bridged
    <2>2. Closing' BY DEF TypeOK, Cells, Closing, HasClosed, Parts, Without, With
    <2>3. Known'
      <3>1. modem' = "cmd" /\ pc' \in {"fallback", "uart_off"} BY DEF Closing
      <3>2. CASE to = "fallback"
        <4>1. cell.registered BY <3>2 DEF Known, Attempt
        <4>2. cell' = [cell EXCEPT !.state = "REGISTERED"] BY <4>1
        <4>3. cell'.state = "REGISTERED" /\ cell'.registered BY <4>1, <4>2 DEF TypeOK, Cells
        <4> QED BY <3>1, <4>3 DEF Known, Attempt, Unset
      <3>3. CASE to # "fallback" BY <3>1, <3>3 DEF Known, Attempt, Unset
      <3> QED BY <3>2, <3>3
    <2>4. Commands' BY DEF TypeOK, Cells, Commands, Known, Unset, Parts, Without, With, Bridged, Returns, Places
    <2> QED BY <2>1, <2>2, <2>3, <2>4
  <1> QED BY <1>2, <1>3, <1>4, <1>5, <1>6

LEMMA StopStep == IInv /\ Stop => IInv'
  <1> SUFFICES ASSUME IInv, Stop PROVE IInv' OBVIOUS
  <1> USE DEF IInv, Stop, Set, Goto, Calls, ppp, orphan
  <1>1. cell' \in Cells BY ZenonT(40) DEF TypeOK, Cells, States
  <1>2. Parts' BY DEF TypeOK, Cells, Parts, Without, With
  <1>3. TypeOK' BY <1>1, <1>2 DEF TypeOK, Rests, Parts
  <1>4. Places' BY DEF TypeOK, Cells, Places, Parts, Without, With, Returns
  <1>5. Returns' BY DEF TypeOK, Cells, Returns, Parts, Without, With
  <1>6. ASSUME ~overdue PROVE overdue' \/ Tidy'
    <2> USE <1>6 DEF Tidy
    <2>1. Bridged' BY DEF TypeOK, Cells, Parts, Without, With, Bridged
    <2>2. Closing' BY DEF TypeOK, Cells, Closing, HasClosed, Parts, Without, With
    <2>3. Known' BY DEF TypeOK, Cells, Known, Attempt, Unset, Parts, Without, With, Bridged, Places, Returns
    <2>4. Commands' BY DEF TypeOK, Cells, Commands, Known, Unset, Parts, Without, With, Bridged, Returns, Places
    <2> QED BY <2>1, <2>2, <2>3, <2>4
  <1> QED BY <1>2, <1>3, <1>4, <1>5, <1>6

LEMMA DeinitStep == IInv /\ Deinit => IInv'
  <1> SUFFICES ASSUME IInv, Deinit PROVE IInv' OBVIOUS
  <1> USE DEF IInv, Deinit, Set, Goto, Calls, ppp, orphan
  <1>1. cell' \in Cells BY DEF TypeOK, Cells, States
  <1>2. Parts'
    <2>1. CASE cell.state = "OFF"
      <3>1. ~cell.netif BY <2>1 DEF Places
      <3>2. pc' \in {"failed", "idle"} BY <2>1 DEF Returns
      <3> QED BY <3>1, <3>2 DEF Parts, Without, With
    <2>2. CASE cell.state # "OFF" /\ cell.running BY <2>2 DEF Parts, Without, With
    <2>3. CASE cell.state # "OFF" /\ ~cell.running BY <2>3 DEF Parts, Without, With
    <2> QED BY <2>1, <2>2, <2>3 DEF TypeOK, Cells
  <1>3. TypeOK' BY <1>1, <1>2 DEF TypeOK, Rests, Parts
  <1>4. Places' BY DEF TypeOK, Cells, Places, Parts, Without, With, Returns
  <1>5. Returns' BY DEF TypeOK, Cells, Returns, Parts, Without, With
  <1>6. ASSUME ~overdue PROVE overdue' \/ Tidy'
    <2> USE <1>6 DEF Tidy
    <2>1. Bridged' BY DEF TypeOK, Cells, Parts, Without, With, Bridged
    <2>2. Closing' BY DEF TypeOK, Cells, Closing, HasClosed, Parts, Without, With
    <2>3. Known' BY DEF TypeOK, Cells, Known, Attempt, Unset, Parts, Without, With, Bridged, Places, Returns
    <2>4. Commands' BY DEF TypeOK, Cells, Commands, Known, Unset, Parts, Without, With, Bridged, Returns, Places
    <2> QED BY <2>1, <2>2, <2>3, <2>4
  <1> QED BY <1>2, <1>3, <1>4, <1>5, <1>6

LEMMA UartOffStep == IInv /\ UartOff => IInv'
  <1> SUFFICES ASSUME IInv, UartOff PROVE IInv' OBVIOUS
  <1> USE DEF IInv, UartOff, Set, Goto, Calls, ppp, orphan
  <1>1. cell' \in Cells BY DEF TypeOK, Cells, States
  <1>2. Parts' BY DEF TypeOK, Cells, Parts, Without, With
  <1>3. TypeOK' BY <1>1, <1>2 DEF TypeOK, Rests, Parts
  <1>4. Places' BY DEF TypeOK, Cells, Places, Parts, Without, With, Returns
  <1>5. Returns' BY DEF TypeOK, Cells, Returns, Parts, Without, With
  <1>6. ASSUME ~overdue PROVE overdue' \/ Tidy'
    <2> USE <1>6 DEF Tidy
    <2>1. Bridged' BY DEF TypeOK, Cells, Parts, Without, With, Bridged
    <2>2. Closing' BY DEF TypeOK, Cells, Closing, HasClosed, Parts, Without, With
    <2>3. Known' BY DEF TypeOK, Cells, Known, Attempt, Unset, Parts, Without, With, Bridged, Places, Returns
    <2>4. Commands' BY DEF TypeOK, Cells, Commands, Known, Unset, Parts, Without, With, Bridged, Returns, Places
    <2> QED BY <2>1, <2>2, <2>3, <2>4
  <1> QED BY <1>2, <1>3, <1>4, <1>5, <1>6

LEMMA RxExitsStep == IInv /\ RxExits => IInv'
  <1> SUFFICES ASSUME IInv, RxExits PROVE IInv' OBVIOUS
  <1> USE DEF IInv, RxExits, Set, Goto, Calls, ppp, orphan
  <1>1. cell' \in Cells BY DEF TypeOK, Cells, States
  <1>2. Parts' BY DEF TypeOK, Cells, Parts, Without, With
  <1>3. TypeOK' BY <1>1, <1>2, ZenonT(40) DEF TypeOK, Rests, Parts
  <1>4. Places' BY DEF TypeOK, Cells, Places, Parts, Without, With, Returns
  <1>5. Returns' BY DEF TypeOK, Cells, Returns, Parts, Without, With
  <1>6. ASSUME ~overdue PROVE overdue' \/ Tidy'
    <2> USE <1>6 DEF Tidy
    <2>1. Bridged' BY DEF TypeOK, Cells, Parts, Without, With, Bridged
    <2>2. Closing' BY DEF TypeOK, Cells, Closing, HasClosed, Parts, Without, With
    <2>3. Known' BY DEF TypeOK, Cells, Known, Attempt, Unset, Parts, Without, With, Bridged, Places, Returns
    <2>4. Commands' BY DEF TypeOK, Cells, Commands, Known, Unset, Parts, Without, With, Bridged, Returns, Places
    <2> QED BY <2>1, <2>2, <2>3, <2>4
  <1> QED BY <1>2, <1>3, <1>4, <1>5, <1>6

-----------------------------------------------------------------------------
LEMMA Posted ==
  ASSUME posted \in Seq(Events), NEW e \in Seq(Events), Posts(e)
  PROVE  /\ posted' \in Seq(Events) /\ Len(posted') = Len(posted) + Len(e)
         /\ Len(posted') <= MaxPosted
         /\ \A i \in 1..Len(posted') :
              posted'[i] = IF i <= Len(posted) THEN posted[i] ELSE e[i - Len(posted)]
  BY ConcatProperties DEF Posts

\* What PPP posts: that it has closed only at the end, and only when told to.
LEMMA PppPosts ==
  ASSUME Ppp
  PROVE  \E e \in Seq(Events) :
           /\ Posts(e)
           /\ \A j \in 1..Len(e) : e[j] = "CLOSED" => j = Len(e) /\ link = "closing"
  <1>1. CASE Posts(<<"GOT_IP">>)
    <2>1. <<"GOT_IP">> \in Seq(Events) BY DEF Events
    <2>2. \A j \in 1..Len(<<"GOT_IP">>) : <<"GOT_IP">>[j] # "CLOSED" OBVIOUS
    <2> QED BY <1>1, <2>1, <2>2
  <1>2. CASE Posts(<<"CHAP_FAIL">>)
    <2>1. <<"CHAP_FAIL">> \in Seq(Events) BY DEF Events
    <2>2. \A j \in 1..Len(<<"CHAP_FAIL">>) : <<"CHAP_FAIL">>[j] # "CLOSED" OBVIOUS
    <2> QED BY <1>2, <2>1, <2>2
  <1>3. CASE Posts(<<"CONNECT_FAIL">>)
    <2>1. <<"CONNECT_FAIL">> \in Seq(Events) BY DEF Events
    <2>2. \A j \in 1..Len(<<"CONNECT_FAIL">>) : <<"CONNECT_FAIL">>[j] # "CLOSED" OBVIOUS
    <2> QED BY <1>3, <2>1, <2>2
  <1>4. CASE Posts(<<"LOST_IP", "CONNECT_FAIL">>)
    <2>1. <<"LOST_IP", "CONNECT_FAIL">> \in Seq(Events) BY DEF Events
    <2>2. \A j \in 1..Len(<<"LOST_IP", "CONNECT_FAIL">>) :
            <<"LOST_IP", "CONNECT_FAIL">>[j] # "CLOSED" OBVIOUS
    <2> QED BY <1>4, <2>1, <2>2
  <1>5. CASE link = "closing" /\ Posts(<<>> \o <<"CLOSED">>)
    <2>1. <<>> \o <<"CLOSED">> = <<"CLOSED">> OBVIOUS
    <2>2. <<"CLOSED">> \in Seq(Events) BY DEF Events
    <2>3. \A j \in 1..Len(<<"CLOSED">>) : j = Len(<<"CLOSED">>) OBVIOUS
    <2> QED BY <1>5, <2>1, <2>2, <2>3
  <1>6. CASE link = "closing" /\ Posts(<<"LOST_IP">> \o <<"CLOSED">>)
    <2>1. <<"LOST_IP">> \o <<"CLOSED">> = <<"LOST_IP", "CLOSED">>
      <3>1. <<"LOST_IP">> \in Seq(Events) /\ <<"CLOSED">> \in Seq(Events) BY DEF Events
      <3> HIDE DEF Events
      <3> DEFINE c == <<"LOST_IP">> \o <<"CLOSED">>
      <3>2. c \in Seq(Events) /\ Len(c) = 2 /\ c[1] = "LOST_IP" /\ c[2] = "CLOSED"
            BY <3>1, ConcatProperties
      <3> HIDE DEF c
      <3>3. c = <<"LOST_IP", "CLOSED">> BY <3>2
      <3> QED BY <3>3 DEF c
    <2>2. <<"LOST_IP", "CLOSED">> \in Seq(Events) BY DEF Events
    <2>3. \A j \in 1..Len(<<"LOST_IP", "CLOSED">>) :
            <<"LOST_IP", "CLOSED">>[j] = "CLOSED" => j = Len(<<"LOST_IP", "CLOSED">>) OBVIOUS
    <2> QED BY <1>6, <2>1, <2>2, <2>3
  <1> QED BY <1>1, <1>2, <1>3, <1>4, <1>5, <1>6 DEF Ppp

LEMMA PppStep == IInv /\ Ppp => IInv'
  <1> SUFFICES ASSUME IInv, Ppp PROVE IInv' OBVIOUS
  <1> USE DEF IInv
  <1>1. PICK e \in Seq(Events) :
          /\ Posts(e)
          /\ \A j \in 1..Len(e) : e[j] = "CLOSED" => j = Len(e) /\ link = "closing"
        BY PppPosts
  <1>2. posted \in Seq(Events) /\ Len(posted) \in Nat /\ Len(e) \in Nat
        BY LenProperties DEF TypeOK
  <1>3. /\ posted' \in Seq(Events) /\ Len(posted') = Len(posted) + Len(e)
        /\ Len(posted') <= MaxPosted
        /\ \A i \in 1..Len(posted') :
             posted'[i] = IF i <= Len(posted) THEN posted[i] ELSE e[i - Len(posted)]
        BY <1>1, <1>2, Posted
  <1>4. link # "off" /\ link' \in {"off", "up"} /\ (link = "closing" => link' = "off")
        /\ UNCHANGED <<pc, to, cell, rx, modem, bauds, able, ghost, overdue>>
        BY DEF Ppp, orphan
  <1>5. TypeOK' BY <1>3, <1>4 DEF TypeOK
  <1>6. Parts' BY <1>4 DEF Parts, Without, With
  <1>7. Places' /\ Returns' BY <1>4 DEF Places, Returns
  <1>8. ASSUME ~overdue PROVE Tidy'
    <2>1. Bridged' BY <1>4, <1>8 DEF Tidy, Bridged
    <2>2. Known' BY <1>4, <1>8 DEF Tidy, Known, Unset, Attempt
    <2>3. Commands' BY <1>4, <1>8 DEF Tidy, Commands
    <2>4. ~HasClosed /\ cell.handlers BY <1>4, <1>8 DEF Tidy, Closing, Parts
    <2>5. ASSUME NEW i \in 1..Len(posted'), posted'[i] = "CLOSED"
          PROVE  i = Len(posted') /\ link = "closing"
      <3>1. ~(i <= Len(posted)) BY <1>2, <1>3, <2>4, <2>5 DEF HasClosed
      <3>2. i - Len(posted) \in 1..Len(e) /\ e[i - Len(posted)] = "CLOSED"
            BY <1>2, <1>3, <2>5, <3>1
      <3>3. i - Len(posted) = Len(e) /\ link = "closing" BY <1>1, <3>2
      <3> QED BY <1>2, <1>3, <3>3
    <2>6. Closing' BY <1>4, <1>8, <2>4, <2>5 DEF Tidy, Closing, HasClosed
    <2> QED BY <2>1, <2>2, <2>3, <2>6 DEF Tidy
  <1> QED BY <1>4, <1>5, <1>6, <1>7, <1>8

\* A start of the device is a beginning.
LEMMA CrashStep == IInv /\ Crash => IInv'
  <1> SUFFICES ASSUME IInv, Crash PROVE IInv' OBVIOUS
  <1>1. cell' \in Cells BY DEF Crash, Reset, Cells, States
  <1>2. posted' \in Seq(Events) /\ Len(posted') = 0 BY DEF Crash
  <1>3. TypeOK'
    <2>1. modem' \in {"cmd", "data"} /\ bauds' \in SUBSET {"modem", "uart"}
          BY DEF Crash, IInv, TypeOK
    <2>2. Len(posted') <= MaxPosted BY <1>2, CellularAssumption
    <2> QED BY <1>1, <1>2, <2>1, <2>2 DEF Crash, TypeOK, Reset, Rests
  <1>4. Parts' /\ Places' /\ Returns'
        BY DEF Crash, Reset, Parts, Places, Returns, Without, With
  <1>5. Closing' BY <1>2 DEF Crash, Reset, Closing, HasClosed
  <1>6. Bridged' /\ Known' /\ Commands'
        BY DEF Crash, Reset, Bridged, Known, Attempt, Unset, Commands
  <1> QED BY <1>3, <1>4, <1>5, <1>6 DEF IInv, Tidy

LEMMA GhostStep == IInv /\ Ghost => IInv'
  <1> SUFFICES ASSUME IInv, Ghost PROVE IInv' OBVIOUS
  <1>1. CASE Crash BY <1>1, CrashStep
  <1>2. CASE ~Crash
    <2>1. overdue BY DEF IInv, Tidy, Closing, Ghost
    <2>2. /\ ghost' = FALSE
          /\ UNCHANGED <<pc, to, cell, rx, modem, bauds, link, overdue, able>>
          BY <1>2 DEF Ghost
    <2>3. PICK e \in {<<>>, <<"CLOSED">>, <<"LOST_IP", "CLOSED">>} : Posts(e)
          BY <1>2 DEF Ghost
    <2>4. e \in Seq(Events)
      <3>1. <<>> \in Seq(Events) /\ <<"CLOSED">> \in Seq(Events)
            /\ <<"LOST_IP", "CLOSED">> \in Seq(Events)
            BY DEF Events
      <3> QED BY <2>3, <3>1
    <2>5. posted' \in Seq(Events) /\ Len(posted') <= MaxPosted
          BY <2>3, <2>4, Posted DEF IInv, TypeOK
    <2>6. TypeOK'
      <3>1. ghost' \in BOOLEAN BY <2>2
      <3>2. TypeOK BY DEF IInv
      <3>3. pc' = pc /\ to' = to /\ cell' = cell /\ rx' = rx /\ modem' = modem /\ bauds' = bauds
            /\ link' = link /\ overdue' = overdue /\ able' = able
            BY <2>2
      <3> QED BY <2>5, <3>1, <3>2, <3>3 DEF TypeOK
    <2>7. Parts' BY <2>2 DEF IInv, Parts, Without, With
    <2>8. Places' /\ Returns' BY <2>2 DEF IInv, Places, Returns
    <2> QED BY <2>1, <2>2, <2>6, <2>7, <2>8 DEF IInv
  <1> QED BY <1>1, <1>2

LEMMA HandleStep == IInv /\ Handle => IInv'
  <1> SUFFICES ASSUME IInv, Handle, ~Crash PROVE IInv' BY CrashStep
  <1> USE DEF IInv
  <1> DEFINE e == Head(posted)
  <1>1. posted \in Seq(Events) /\ posted # <<>> BY DEF TypeOK, Handle
  <1>2. Len(posted) \in Nat \ {0} /\ e \in Events /\ e = posted[1]
        BY <1>1, HeadTailProperties, EmptySeq, LenProperties
  <1>3. posted' = Tail(posted) /\ UNCHANGED <<pc, to, rx, modem, bauds, link, ghost, overdue, able>>
        BY DEF Handle, orphan
  <1>4. /\ posted' \in Seq(Events) /\ Len(posted') = Len(posted) - 1
        /\ \A i \in 1..Len(posted') : posted'[i] = posted[i + 1]
        BY <1>1, <1>3, HeadTailProperties
  <1>5. e = "CLOSED" \/ (\E i \in 1..Len(posted') : posted'[i] = "CLOSED")
          => \E i \in 1..Len(posted) : posted[i] = "CLOSED"
        BY <1>2, <1>4
  <1>6. PICK s \in States, b \in SUBSET Events :
          /\ s # "OFF" \/ s = cell.state
          /\ s = cell.state \/ cell.handlers \/ e = "LOST_IP"
          /\ b \subseteq cell.bits \cup {e}
          /\ cell' = [cell EXCEPT !.bits = b, !.state = s]
    <2>1. CASE UNCHANGED cell
      <3>1. cell = [cell EXCEPT !.bits = cell.bits, !.state = cell.state] BY DEF TypeOK, Cells
      <3>2. cell.state \in States /\ cell.bits \in SUBSET Events BY DEF TypeOK, Cells
      <3> QED BY <2>1, <3>1, <3>2
    <2>2. CASE ~UNCHANGED cell
      <3> DEFINE b == cell.bits \cup {e}
      <3>1. b \in SUBSET Events /\ cell.state \in States BY <1>2 DEF TypeOK, Cells
      <3>2. CASE e = "GOT_IP"
        <4>1. cell.handlers /\ cell' = [cell EXCEPT !.bits = b, !.state = "PPP_CONNECTED"]
              BY <2>2, <3>2 DEF Handle, Set
        <4> QED BY <3>1, <4>1 DEF States
      <3>3. CASE e = "LOST_IP"
        <4>1. cell' = [cell EXCEPT !.bits = b, !.state = "REGISTERED"]
              BY <2>2, <3>3 DEF Handle, Set
        <4> QED BY <3>1, <3>3, <4>1 DEF States
      <3>4. CASE e \notin {"GOT_IP", "LOST_IP"}
        <4>1. cell' = [cell EXCEPT !.bits = b, !.state = cell.state]
              BY <2>2, <3>4 DEF Handle, Set
        <4> QED BY <3>1, <4>1
      <3> QED BY <3>2, <3>3, <3>4
    <2> QED BY <2>1, <2>2
  <1>7. /\ cell' \in Cells
        /\ cell'.bits = b /\ cell'.state = s /\ cell'.netif = cell.netif
        /\ cell'.handlers = cell.handlers /\ cell'.running = cell.running
        /\ cell'.bridge = cell.bridge /\ cell'.uart = cell.uart
        /\ cell'.registered = cell.registered
        BY <1>6 DEF TypeOK, Cells
  <1>8. TypeOK' BY <1>2, <1>3, <1>4, <1>7, CellularAssumption DEF TypeOK
  <1>9. Parts' BY <1>3, <1>7 DEF Parts
  <1>10. Places' /\ Returns' BY <1>3, <1>6, <1>7 DEF Places, Returns
  <1>11. ASSUME ~overdue PROVE Tidy'
    <2>1. cell.handlers /\ cell.netif /\ ~cell.bridge /\ pc \notin Without
          BY <1>1, <1>11 DEF Tidy, Closing, Bridged, Parts
    <2>2. Bridged' BY <1>7, <2>1 DEF Bridged
    <2>3. ASSUME NEW i \in 1..Len(posted'), posted'[i] = "CLOSED" PROVE i = Len(posted')
      <3>1. i + 1 \in 1..Len(posted) /\ posted[i + 1] = "CLOSED" BY <1>2, <1>4, <2>3
      <3>2. i + 1 = Len(posted) BY <1>11, <3>1 DEF Tidy, Closing
      <3> QED BY <1>2, <1>4, <3>2
    <2>4. "CLOSED" \in b => posted' = <<>>
      <3>1. SUFFICES ASSUME "CLOSED" \in b PROVE posted' = <<>> OBVIOUS
      <3>2. "CLOSED" \notin cell.bits BY <1>1, <1>11 DEF Tidy, Closing
      <3>3. e = "CLOSED" BY <1>6, <3>1, <3>2
      <3>4. Len(posted) = 1
        <4>1. 1 \in 1..Len(posted) /\ posted[1] = "CLOSED" BY <1>2, <3>3
        <4> QED BY <1>11, <4>1 DEF Tidy, Closing
      <3> QED BY <1>4, <3>4, EmptySeq
    <2>5. HasClosed' => HasClosed BY <1>5, <1>6, <1>7 DEF HasClosed
    <2>6. Closing' BY <1>3, <1>7, <1>11, <2>1, <2>3, <2>4, <2>5 DEF Tidy, Closing
    <2>7. Known' BY <1>3, <1>6, <1>7, <1>11, <2>1 DEF Tidy, Known, Unset, Attempt, Without
    <2>8. Commands' BY <1>3, <1>11 DEF Tidy, Commands
    <2> QED BY <2>2, <2>6, <2>7, <2>8 DEF Tidy
  <1> QED BY <1>3, <1>8, <1>9, <1>10, <1>11
-----------------------------------------------------------------------------
LEMMA Stutters == IInv /\ UNCHANGED vars => IInv'
  <1> SUFFICES ASSUME IInv, UNCHANGED vars PROVE IInv' OBVIOUS
  <1> USE DEF IInv, vars
  <1>1. TypeOK' /\ Parts' BY DEF TypeOK, Parts
  <1>2. Places' /\ Returns' BY DEF Places, Returns
  <1>3. ASSUME Tidy PROVE Tidy'
    <2>1. Bridged' /\ Closing' BY <1>3 DEF Tidy, Bridged, Closing, HasClosed
    <2>2. Known' /\ Commands' BY <1>3 DEF Tidy, Known, Unset, Attempt, Commands
    <2> QED BY <2>1, <2>2 DEF Tidy
  <1> QED BY <1>1, <1>2, <1>3

\* The inductive invariant: at each place of the task the parts of a connection
\* that exist fit together, and, as long as every PPP closed in time, so do its
\* events and the state of the modem.
THEOREM Invariance == Spec => []IInv
  <1>1. IInv /\ [Next]_vars => IInv'
    <2> SUFFICES ASSUME IInv, [Next]_vars PROVE IInv' OBVIOUS
    <2>1. CASE Starting BY <2>1, StartStep, UartInitStep, ReadyStep, BaudStep, SimStep, RegisterStep DEF Starting
    <2>2. CASE Connecting BY <2>2, PppSetupStep, DialStep, RxTaskStep, WaitStep, GiveUpStep, DataStartStep DEF Connecting
    <2>3. CASE Stopping BY <2>3, PppStopStep, PppCloseStep, PppDestroyStep, EscapeStep, DeinitStep, UartOffStep DEF Stopping
    <2>4. CASE Stop \/ RxExits \/ Ppp BY <2>4, StopStep, RxExitsStep, PppStep
    <2>5. CASE Ghost \/ Handle BY <2>5, GhostStep, HandleStep
    <2>6. CASE UNCHANGED vars BY <2>6, Stutters
    <2> QED BY <2>1, <2>2, <2>3, <2>4, <2>5, <2>6 DEF Next
  <1> QED BY Begins, <1>1, PTL DEF Spec

\* The fields of s_cell have their types, and ppp_running is set, and
\* ppp_rx_task runs, only while the interface exists (ml_cellular.c).
THEOREM TypeCorrect == Spec => []TypeOK
  <1>1. IInv => TypeOK BY DEF IInv
  <1> QED BY Invariance, <1>1, PTL

\* When cellular_stop returns there is no UART, interface, handler in use, receive
\* task or bridge; and the interface is destroyed under PPP only by a stop that
\* waited 15 s for its close in vain.
THEOREM ReleasedCorrect == Spec => []Released
  <1>1. IInv => Released
    <2> SUFFICES ASSUME IInv PROVE Released OBVIOUS
    <2> USE DEF IInv
    <2>1. ghost => overdue BY DEF Tidy, Closing
    <2>2. ASSUME pc = "idle"
          PROVE  /\ ~cell.uart /\ ~cell.netif /\ ~cell.handlers /\ ~cell.running /\ ~rx
                 /\ overdue \/ (cell.state = "OFF" /\ ~cell.bridge)
      <3>1. ~cell.uart BY <2>2 DEF Places
      <3>2. ~cell.netif /\ ~cell.handlers /\ ~cell.running /\ ~rx
            BY <2>2 DEF Parts, Without, TypeOK, Cells
      <3>3. overdue \/ (cell.state = "OFF" /\ ~cell.bridge)
            BY <2>2 DEF Tidy, Known, Bridged
      <3> QED BY <3>1, <3>2, <3>3
    <2> QED BY <2>1, <2>2 DEF Released
  <1> QED BY Invariance, <1>1, PTL

\* As long as every PPP closed in time, cellular_start fails only when the modem
\* failed to do what it was asked.
THEOREM StartsCorrect == Spec => []StartSucceeds
  <1>1. IInv => StartSucceeds BY DEF IInv, Tidy, Commands, StartSucceeds
  <1> QED BY Invariance, <1>1, PTL

\* No answer to a command is taken by ppp_rx_task, and as long as every PPP closed
\* in time no command is sent into a call.
THEOREM CommandsCorrect == Spec => []CommandsReach
  <1>1. IInv => CommandsReach
    <2> SUFFICES ASSUME IInv, pc \in {"sim", "register", "dial", "fallback"}
                 PROVE  (modem = "cmd" \/ overdue) /\ ~rx
          BY DEF CommandsReach
    <2>1. ~rx BY DEF IInv, Parts, Without
    <2>2. modem = "cmd" \/ overdue BY DEF IInv, Tidy, Commands, Known, Unset
    <2> QED BY <2>1, <2>2
  <1> QED BY Invariance, <1>1, PTL
-----------------------------------------------------------------------------
(* The sockets over the modem (AtSocket).  What holds however late answers     *)
(* are: the types, and that a read is asked for only after an answer was read, *)
(* so that the modem is never more than MaxLate commands behind that.          *)

Kinds == {"dns", "open", "udp", "query", "send", "close", "read"}
Commanded == [k : Kinds, l : Links, n : Nat]
Answers == {"ok", "error", "pending", "cdnsgip", "data"}

Socks == {s \in [used : BOOLEAN, connected : BOOLEAN, closed : BOOLEAN,
                 ok : BOOLEAN, ring : Seq(1..MaxBytes)] : Len(s.ring) <= Ring}
Conns == {m \in [state : {"closed", "opening", "open", "udp", "lost"},
                 sent : 0..MaxBytes, held : Seq(1..MaxBytes)] : Len(m.held) <= m.sent}
Users == [pc : Kinds \cup {"named", "fresh", "up"}, fd : Links,
          type : {"TCP", "UDP"}, got : 0..MaxBytes]

AtTyped ==
  /\ sock \in [Links -> Socks] /\ conn \in [Links -> Conns] /\ task \in [Tasks -> Users]
  /\ holder \in Tasks \cup {None} /\ late \in 0..MaxLate
  /\ uart \in Seq(Urcs) /\ cmds \in Seq(Commanded)

Behind ==
  /\ Len(cmds) <= 1 + MaxLate
  /\ (\E i \in DOMAIN uart : uart[i].k \in {"pending", "data"}) => Len(cmds) <= MaxLate

(* What holds while no answer was late: a command and its answer belong to the *)
(* task that holds the mutex (Aligned); a slot belongs to one task, a free one *)
(* has no link, and only the holder's link is being opened or closed (Apart);  *)
(* and each task's link is what its place needs, an end of file is that of its *)
(* connection, and the bytes on their way are the next ones (Sound).           *)

Owning(t) == task[t].pc \in {"fresh", "open", "udp", "up", "query", "read", "send", "close"}
Serving(t) == Owning(t) /\ ~At(t, "close")

Commanding(t) ==
  /\ task[t].pc \in Kinds
  /\ cmds # <<>> =>
       /\ Len(cmds) = 1 /\ cmds[1].k = task[t].pc /\ cmds[1].l = task[t].fd
       /\ \A i \in DOMAIN uart : uart[i].k \notin Answers \cup {"cipopen"}
       /\ At(t, "read") => cmds[1].n <= Space(task[t].fd)
  /\ \A i \in DOMAIN uart : uart[i].k = "data" =>
       At(t, "read") /\ Len(uart[i].bytes) <= Space(task[t].fd)

Aligned ==
  /\ holder = None => cmds = <<>> /\ uart = <<>>
  /\ holder # None => Commanding(holder)
  /\ \A t \in Tasks : At(t, "read") => holder = t

Apart ==
  /\ \A t, u \in Tasks : Owning(t) /\ Owning(u) /\ task[t].fd = task[u].fd => t = u
  /\ \A l \in Links : ~sock[l].used => conn[l] = Closed
  /\ \A l \in Links : conn[l].state = "opening" =>
       /\ holder # None /\ At(holder, "open") /\ task[holder].fd = l /\ cmds = <<>>
       /\ \A i \in DOMAIN uart : uart[i].k \notin {"cipopen", "error"}
  /\ \A i \in DOMAIN uart : uart[i].k = "ipclose" =>
       \/ conn[uart[i].l].state = "lost"
       \/ At(holder, "close") /\ task[holder].fd = uart[i].l

Unasked(t) ==
  \/ At(t, "fresh")
  \/ task[t].pc \in {"open", "udp"} /\ (holder # t \/ cmds # <<>>)
  \/ At(t, "close") /\ holder = t /\ cmds = <<>>

\* The numbers of the bytes after the a-th, up to the b-th.
Up(a, b) == [i \in 1..(b - a) |-> a + i]

Numbered(t) ==
  /\ task[t].got <= conn[task[t].fd].sent
  /\ OnTheWay(t) = Up(task[t].got, conn[task[t].fd].sent)

Sound(t) ==
  /\ IF Owning(t) THEN sock[task[t].fd].used ELSE task[t].got = 0
  /\ Unasked(t) => conn[task[t].fd] = Closed
  /\ Serving(t) => /\ sock[task[t].fd].closed => conn[task[t].fd].state = "lost"
                   /\ Numbered(t)

InTime == Aligned /\ Apart /\ \A t \in Tasks : Sound(t)
-----------------------------------------------------------------------------
(* The pieces: reports, what a task has read, sequences.                       *)

\* Only the kinds that have a field have it.
LEMMA UrcIs ==
  ASSUME NEW u \in Urcs
  PROVE  /\ u.k = "pending" => u.left \in 0..MaxBytes
         /\ u.k = "cipopen" => u.l \in Links /\ u.ok \in BOOLEAN
         /\ u.k = "ipclose" => u.l \in Links
         /\ u.k = "data" => u.bytes \in Seq(1..MaxBytes) /\ u.left \in 0..MaxBytes
BY DEF Urcs

\* at_cmd() returns what has come so far, up to a final answer at least.
LEMMA ReadsIs ==
  ASSUME uart \in Seq(Urcs), NEW kinds, NEW r \in Reads(kinds)
  PROVE  /\ r \in Seq(Urcs) /\ Len(r) <= Len(uart)
         /\ \A i \in DOMAIN r : i \in DOMAIN uart /\ r[i] = uart[i]
         /\ \E i \in DOMAIN r : r[i].k \in kinds
<1>1. PICK n \in {k \in DOMAIN uart : \E i \in 1..k : uart[i].k \in kinds} : r = SubSeq(uart, 1, n)
  BY DEF Reads
<1>2. n \in 1..Len(uart) /\ Len(uart) \in Nat
  BY <1>1
<1>3. /\ r \in Seq(Urcs) /\ Len(r) = n
      /\ \A i \in 1..n : r[i] = uart[i]
  BY <1>1, <1>2, SubSeqProperties
<1>4. DOMAIN r = 1..n /\ DOMAIN uart = 1..Len(uart)
  BY <1>3
<1>5. PICK j \in 1..n : uart[j].k \in kinds
  BY <1>1
<1>6. r[j].k \in kinds
  BY <1>3, <1>5
<1>7. \A i \in 1..n : i \in 1..Len(uart)
  BY <1>2
<1> QED
  BY <1>2, <1>3, <1>4, <1>6, <1>7

LEMMA Joined ==
  ASSUME NEW S, NEW a \in Seq(S), NEW b \in Seq(S), NEW q \in Seq(S),
         Len(q) = Len(a) + Len(b),
         \A i \in 1..Len(a) : a[i] = q[i], \A i \in 1..Len(b) : b[i] = q[Len(a) + i]
  PROVE  a \o b = q
<1>1. Len(a) \in Nat /\ Len(b) \in Nat
  OBVIOUS
<1>2. /\ a \o b \in Seq(S) /\ Len(a \o b) = Len(q)
      /\ \A i \in 1..Len(q) : (a \o b)[i] = IF i <= Len(a) THEN a[i] ELSE b[i - Len(a)]
  BY ConcatProperties
<1>3. ASSUME NEW i \in 1..Len(q) PROVE (a \o b)[i] = q[i]
  <2>1. CASE i <= Len(a)
    BY <1>1, <1>2, <2>1
  <2>2. CASE i > Len(a)
    <3>1. i - Len(a) \in 1..Len(b) /\ Len(a) + (i - Len(a)) = i
      BY <1>1, <2>2
    <3>2. b[i - Len(a)] = q[i]
      BY <3>1
    <3> QED
      BY <1>1, <1>2, <2>2, <3>2
  <2> QED
    BY <1>1, <2>1, <2>2
<1> QED
  BY <1>2, <1>3, SeqEqual

\* The first n elements and the rest.
LEMMA Split ==
  ASSUME NEW S, NEW q \in Seq(S), NEW n \in 0..Len(q)
  PROVE  /\ SubSeq(q, 1, n) \in Seq(S) /\ Len(SubSeq(q, 1, n)) = n
         /\ SubSeq(q, n + 1, Len(q)) \in Seq(S) /\ Len(SubSeq(q, n + 1, Len(q))) = Len(q) - n
         /\ SubSeq(q, 1, n) \o SubSeq(q, n + 1, Len(q)) = q
<1>1. Len(q) \in Nat /\ n \in Nat
  OBVIOUS
<1>2. SubSeq(q, 1, n) \in Seq(S) /\ Len(SubSeq(q, 1, n)) = n
      /\ \A i \in 1..n : SubSeq(q, 1, n)[i] = q[i]
  BY <1>1, SubSeqProperties
<1>3. SubSeq(q, n + 1, Len(q)) \in Seq(S) /\ Len(SubSeq(q, n + 1, Len(q))) = Len(q) - n
      /\ \A i \in 1..Len(q) - n : SubSeq(q, n + 1, Len(q))[i] = q[n + i]
  BY <1>1, SubSeqProperties
<1>4. SubSeq(q, 1, n) \o SubSeq(q, n + 1, Len(q)) = q
  <2> DEFINE a == SubSeq(q, 1, n)
             b == SubSeq(q, n + 1, Len(q))
  <2>1. a \in Seq(S) /\ Len(a) = n /\ \A i \in 1..n : a[i] = q[i]
    BY <1>2
  <2>2. b \in Seq(S) /\ Len(b) = Len(q) - n /\ \A i \in 1..Len(q) - n : b[i] = q[n + i]
    BY <1>3
  <2> HIDE DEF a, b
  <2>3. Len(q) = Len(a) + Len(b)
    BY <1>1, <2>1, <2>2
  <2>4. \A i \in 1..Len(a) : a[i] = q[i]
    BY <2>1
  <2>5. \A i \in 1..Len(b) : b[i] = q[Len(a) + i]
    BY <2>1, <2>2
  <2>6. a \o b = q
    BY <2>1, <2>2, <2>3, <2>4, <2>5, Joined
  <2> QED
    BY <2>6 DEF a, b
<1> QED
  BY <1>2, <1>3, <1>4

LEMMA LesserIs ==
  ASSUME NEW a \in Nat, NEW b \in Nat
  PROVE  Lesser(a, b) \in Nat /\ Lesser(a, b) <= a /\ Lesser(a, b) <= b
BY DEF Lesser

\* Processing what was read keeps each slot's use and its ring.
LEMMA DispatchIs ==
  ASSUME AtTyped, NEW r \in Seq(Urcs)
  PROVE  /\ Dispatch(r) \in [Links -> Socks]
         /\ \A l \in Links :
              /\ Dispatch(r)[l].used = sock[l].used /\ Dispatch(r)[l].ring = sock[l].ring
              /\ Dispatch(r)[l].closed =
                   (sock[l].closed \/ \E i \in DOMAIN r : r[i].k = "ipclose" /\ r[i].l = l)
<1> SUFFICES ASSUME NEW l \in Links
             PROVE  /\ Dispatch(r)[l] \in Socks
                    /\ Dispatch(r)[l].used = sock[l].used /\ Dispatch(r)[l].ring = sock[l].ring
                    /\ Dispatch(r)[l].closed =
                         (sock[l].closed \/ \E i \in DOMAIN r : r[i].k = "ipclose" /\ r[i].l = l)
  BY DEF Dispatch
<1>1. sock[l] \in Socks
  BY DEF AtTyped
<1>2. Confirmed(r, l) \in BOOLEAN
  <2>1. \A i \in DOMAIN r : r[i] \in Urcs
    OBVIOUS
  <2>2. \A i \in Opens(r, l) : r[i].ok \in BOOLEAN
    BY <2>1, UrcIs DEF Opens
  <2> QED
    BY <1>1, <2>2 DEF Confirmed, Socks
<1>3. DEFINE c == \E i \in DOMAIN r : r[i].k = "ipclose" /\ r[i].l = l
             o == \E i \in Opens(r, l) : r[i].ok
             f == Confirmed(r, l)
<1>4. Dispatch(r)[l] = [sock[l] EXCEPT !.closed = @ \/ c, !.ok = f, !.connected = @ \/ o]
  BY DEF Dispatch
<1>5. c \in BOOLEAN /\ o \in BOOLEAN /\ f \in BOOLEAN
  <2>1. c \in BOOLEAN
    OBVIOUS
  <2>2. o \in BOOLEAN
    OBVIOUS
  <2> QED
    BY <1>2, <2>1, <2>2
<1> HIDE DEF c, o, f
<1>6. Dispatch(r)[l] \in Socks /\ Dispatch(r)[l].used = sock[l].used
      /\ Dispatch(r)[l].ring = sock[l].ring /\ Dispatch(r)[l].closed = (sock[l].closed \/ c)
  BY <1>1, <1>4, <1>5 DEF Socks
<1> QED
  BY <1>6 DEF c

-----------------------------------------------------------------------------
(* Types, however late answers are.                                            *)

LEMMA TypedInit == AtInit => AtTyped /\ Behind
<1> SUFFICES ASSUME AtInit PROVE AtTyped /\ Behind
  OBVIOUS
<1> USE AtSocketAssumption
<1>1. Blank \in Socks /\ Closed \in Conns /\ Unused \in Users
  BY DEF Blank, Socks, Closed, Conns, Unused, Users, Kinds
<1> QED
  BY <1>1 DEF AtInit, AtTyped, Behind

\* A command is issued behind at most MaxLate others.
LEMMA IssueTyped ==
  ASSUME AtTyped, Len(cmds) <= MaxLate,
         NEW k \in Kinds, NEW l \in Links, NEW n \in Nat, Issue(k, l, n)
  PROVE  uart' \in Seq(Urcs) /\ cmds' \in Seq(Commanded) /\ Behind'
<1>1. [k |-> k, l |-> l, n |-> n] \in Commanded
  BY DEF Commanded
<1>2. cmds' \in Seq(Commanded) /\ Len(cmds') = Len(cmds) + 1
  BY <1>1 DEF Issue, AtTyped
<1> QED
  BY <1>2, AtSocketAssumption DEF Issue, Behind, AtTyped

\* Many steps only move tasks and sockets.
LEMMA MoveTyped ==
  ASSUME AtTyped, Behind, sock' \in [Links -> Socks], task' \in [Tasks -> Users],
         holder' \in Tasks \cup {None}, uart' = <<>> \/ uart' = uart, cmds' = cmds,
         conn' = conn, late' \in 0..MaxLate
  PROVE  AtTyped' /\ Behind'
<1>1. uart' \in Seq(Urcs) /\ (uart' # <<>> => uart' = uart)
  <2>1. <<>> \in Seq(Urcs) /\ uart \in Seq(Urcs)
    BY DEF AtTyped
  <2> QED
    BY <2>1
<1>2. AtTyped'
  BY <1>1 DEF AtTyped
<1>3. ASSUME NEW i \in DOMAIN uart' PROVE uart' = uart
  BY <1>1
<1>4. Behind'
  BY <1>3 DEF Behind
<1> QED
  BY <1>2, <1>4

LEMMA PutsTyped ==
  ASSUME AtTyped, NEW us \in Seq(Urcs), Puts(us)
  PROVE  /\ uart' \in Seq(Urcs)
         /\ \A i \in DOMAIN uart' : \/ i \in DOMAIN uart /\ uart'[i] = uart[i]
                                   \/ \E j \in DOMAIN us : uart'[i] = us[j]
<1>1. CASE holder = None
  BY <1>1 DEF Puts, AtTyped
<1>2. CASE holder # None
  <2>1. uart' = uart \o us /\ uart \in Seq(Urcs)
    BY <1>2 DEF Puts, AtTyped
  <2>2. /\ uart' \in Seq(Urcs) /\ Len(uart') = Len(uart) + Len(us)
        /\ \A i \in 1..Len(uart') : uart'[i] = IF i <= Len(uart) THEN uart[i] ELSE us[i - Len(uart)]
    BY <2>1, ConcatProperties
  <2>3. ASSUME NEW i \in DOMAIN uart', i > Len(uart) PROVE i - Len(uart) \in DOMAIN us
    BY <2>1, <2>2, <2>3
  <2> QED
    BY <2>1, <2>2, <2>3
<1> QED
  BY <1>1, <1>2

Stages == Kinds \cup {"named", "fresh", "up"}

LEMMA GoesTyped ==
  ASSUME AtTyped, NEW t \in Tasks, NEW p \in Stages, Goes(t, p)
  PROVE  task' \in [Tasks -> Users]
BY DEF AtTyped, Goes, Users, Stages

LEMMA SockTyped ==
  ASSUME AtTyped, NEW l \in Links
  PROVE  /\ sock[l] \in Socks /\ sock[l].ring \in Seq(1..MaxBytes) /\ Len(sock[l].ring) <= Ring
         /\ conn[l] \in Conns /\ conn[l].held \in Seq(1..MaxBytes)
         /\ conn[l].sent \in 0..MaxBytes /\ Len(conn[l].held) <= conn[l].sent
         /\ Space(l) \in Nat
<1>1. sock[l] \in Socks /\ conn[l] \in Conns
  BY DEF AtTyped
<1> QED
  BY <1>1, AtSocketAssumption DEF Socks, Conns, Space

LEMMA TaskIs ==
  ASSUME AtTyped, NEW t \in Tasks
  PROVE  task[t] \in Users /\ task[t].fd \in Links /\ task[t].got \in 0..MaxBytes
         /\ task[t].pc \in Stages
BY DEF AtTyped, Users, Stages

LEMMA EmptyRing == <<>> \in Seq(1..MaxBytes) /\ Len(<<>>) <= Ring /\ Len(<<>>) = 0
BY AtSocketAssumption

\* A task at one of the operations, and what it does to the sockets.
LEMMA OperationsTyped ==
  ASSUME AtTyped, Behind, NEW t \in Tasks,
         \/ Resolved(t) \/ Socket(t) \/ Connect(t) \/ Opened(t) \/ OpenedUdp(t)
         \/ Send(t) \/ Sent(t) \/ Close(t) \/ CloseEnd(t) \/ Deliver(t) \/ Eof(t) \/ Poll(t)
         \/ Timeout(t)
  PROVE  AtTyped' /\ Behind'
<1> DEFINE l == task[t].fd
<1>0. l \in Links
  BY TaskIs
<1>s. \A m \in Links : sock[m] \in Socks
  BY DEF AtTyped
<1>p. /\ {"dns", "named", "fresh", "udp", "open", "up", "close", "send", "query"} \subseteq Stages
      /\ late \in 0..MaxLate /\ holder \in Tasks \cup {None}
  BY DEF Stages, Kinds, AtTyped
<1>r. ASSUME NEW kinds, NEW r \in Reads(kinds) PROVE r \in Seq(Urcs)
  BY ReadsIs DEF AtTyped
<1>1. CASE Resolved(t)
  <2>1. PICK r \in Reads({"cdnsgip", "error"}) : sock' = Dispatch(r)
    BY <1>1 DEF Resolved
  <2>2. sock' \in [Links -> Socks]
    BY <1>r, <2>1, DispatchIs
  <2>3. \E p \in Stages : Goes(t, p)
    BY <1>1, <1>p DEF Resolved
  <2> QED
    BY <1>1, <1>p, <2>2, <2>3, GoesTyped, MoveTyped DEF Resolved, Release
<1>2. CASE Socket(t)
  <2>1. PICK m \in Links, ty \in Types(t) :
          /\ Claim(m) /\ task' = [task EXCEPT ![t] = [@ EXCEPT !.pc = "fresh", !.fd = m, !.type = ty]]
    BY <1>2 DEF Socket
  <2>2. [Blank EXCEPT !.used = TRUE] \in Socks
    BY EmptyRing DEF Blank, Socks
  <2>3. sock' \in [Links -> Socks]
    BY <2>1, <2>2 DEF Claim, AtTyped
  <2>4. ty \in {"TCP", "UDP"}
    BY DEF Types
  <2>5. task' \in [Tasks -> Users]
    BY <2>1, <2>4 DEF AtTyped, Users
  <2> QED
    BY <1>2, <1>p, <2>3, <2>5, MoveTyped DEF Socket
<1>3. CASE Connect(t)
  <2>1. sock' \in [Links -> Socks]
    BY <1>0, <1>3, ZenonT(40) DEF Connect, AtTyped, Socks
  <2>2. \E p \in Stages : Goes(t, p)
    BY <1>3, <1>p DEF Connect
  <2> QED
    BY <1>3, <1>p, <2>1, <2>2, GoesTyped, MoveTyped DEF Connect
<1>4. CASE Opened(t)
  <2>1. PICK r \in Reads({"cipopen", "error"}) :
          sock' = [Dispatch(r) EXCEPT ![l].connected = @ \/ LooksOpen(r), ![l].ok = FALSE]
    BY <1>4 DEF Opened
  <2>2. Dispatch(r) \in [Links -> Socks]
    BY <1>r, <2>1, DispatchIs
  <2>3. LooksOpen(r) \in BOOLEAN
    BY DEF LooksOpen
  <2>4. sock' \in [Links -> Socks]
    BY <1>0, <2>1, <2>2, <2>3, SMTT(30) DEF Socks
  <2>5. \E p \in Stages : Goes(t, p)
    BY <1>4, <1>p DEF Opened
  <2> QED
    BY <1>4, <1>p, <2>4, <2>5, GoesTyped, MoveTyped DEF Opened, Release
<1>5. CASE OpenedUdp(t)
  <2>1. PICK r \in Reads(Final), o \in BOOLEAN :
          sock' = [Dispatch(r) EXCEPT ![l].connected = @ \/ o]
    BY <1>5 DEF OpenedUdp
  <2>2. Dispatch(r) \in [Links -> Socks]
    BY <1>r, <2>1, DispatchIs
  <2>4. sock' \in [Links -> Socks]
    BY <1>0, <2>1, <2>2, ZenonT(40) DEF Socks
  <2>5. \E p \in Stages : Goes(t, p)
    BY <1>5, <1>p DEF OpenedUdp
  <2> QED
    BY <1>5, <1>p, <2>4, <2>5, GoesTyped, MoveTyped DEF OpenedUdp, Release
<1>6. CASE Send(t) \/ Sent(t) \/ Close(t) \/ Eof(t) \/ Poll(t)
  <2>1. sock' \in [Links -> Socks] /\ cmds' = cmds /\ conn' = conn /\ late' = late
        /\ (uart' = <<>> \/ uart' = uart) /\ holder' \in Tasks \cup {None}
    BY <1>6, <1>p DEF Send, Sent, Close, Eof, Poll, Release, AtTyped
  <2>2. \E p \in Stages : Goes(t, p)
    BY <1>6, <1>p DEF Send, Sent, Close, Eof, Poll
  <2> QED
    BY <1>p, <2>1, <2>2, GoesTyped, MoveTyped
<1>7. CASE CloseEnd(t)
  <2>1. PICK r \in Reads(Final) :
          sock' = [Dispatch(r) EXCEPT ![l].used = FALSE, ![l].connected = FALSE,
                     ![l].closed = FALSE, ![l].ring = <<>>]
    BY <1>7 DEF CloseEnd
  <2>2. Dispatch(r) \in [Links -> Socks]
    BY <1>r, <2>1, DispatchIs
  <2>3. PICK q : q = <<>> /\ q \in Seq(1..MaxBytes) /\ Len(q) <= Ring
    BY EmptyRing
  <2>4. sock' \in [Links -> Socks]
    <3>1. sock' = [Dispatch(r) EXCEPT ![l] = [Dispatch(r)[l] EXCEPT !.used = FALSE,
                     !.connected = FALSE, !.closed = FALSE, !.ring = q]]
      BY <1>0, <2>1, <2>2, <2>3
    <3>2. Dispatch(r)[l] \in Socks
      BY <1>0, <2>2
    <3>3. [Dispatch(r)[l] EXCEPT !.used = FALSE, !.connected = FALSE, !.closed = FALSE,
             !.ring = q] \in Socks
      BY <2>3, <3>2 DEF Socks
    <3> QED
      BY <2>2, <3>1, <3>3
  <2>5. Unused \in Users
    BY AtSocketAssumption DEF Unused, Users, Kinds
  <2>6. task' \in [Tasks -> Users]
    BY <1>7, <2>5 DEF CloseEnd, AtTyped
  <2> QED
    BY <1>7, <1>p, <2>4, <2>6, MoveTyped DEF CloseEnd, Release
<1>8. CASE Deliver(t)
  <2>1. PICK n \in DOMAIN sock[l].ring :
          /\ task' = [task EXCEPT ![t].got = sock[l].ring[n]]
          /\ sock' = [sock EXCEPT ![l].ring = SubSeq(@, n + 1, Len(@))]
    BY <1>8 DEF Deliver
  <2>2. PICK b \in Seq(1..MaxBytes) : b = sock[l].ring /\ Len(b) <= Ring
    BY <1>0, SockTyped
  <2>3. n \in 1..Len(b) /\ n \in 0..Len(b) /\ b[n] \in 0..MaxBytes
    <3>1. n \in DOMAIN b
      BY <2>2
    <3>2. DOMAIN b = 1..Len(b) /\ Len(b) \in Nat
      OBVIOUS
    <3>3. b[n] \in 1..MaxBytes
      BY <2>2, <3>1, <3>2, ElementOfSeq
    <3> QED
      BY <3>1, <3>2, <3>3, AtSocketAssumption
  <2>4. PICK q \in Seq(1..MaxBytes) : q = SubSeq(b, n + 1, Len(b)) /\ Len(q) = Len(b) - n
    <3> DEFINE S == 1..MaxBytes
    <3>1. b \in Seq(S)
      OBVIOUS
    <3> HIDE DEF S
    <3>2. SubSeq(b, n + 1, Len(b)) \in Seq(S) /\ Len(SubSeq(b, n + 1, Len(b))) = Len(b) - n
      BY <2>3, <3>1, Split
    <3> QED
      BY <3>2 DEF S
  <2>5. Len(q) <= Ring
    <3>1. Len(b) \in Nat
      BY <2>2
    <3> QED
      BY <2>2, <2>3, <2>4, <3>1, AtSocketAssumption, SMTT(30)
  <2>6. sock' = [sock EXCEPT ![l].ring = q]
    BY <2>1, <2>2, <2>4
  <2>7. sock' \in [Links -> Socks]
    BY <1>0, <1>s, <2>5, <2>6 DEF Socks, AtTyped
  <2>8. task' \in [Tasks -> Users]
    BY <2>1, <2>2, <2>3 DEF AtTyped, Users
  <2> QED
    BY <1>8, <1>p, <2>7, <2>8, MoveTyped DEF Deliver
<1>9. CASE Timeout(t)
  <2>1. sock' \in [Links -> Socks]
    BY <1>9, DispatchIs DEF Timeout, AtTyped
  <2>2. late' \in 0..MaxLate
    BY <1>9, <1>p, AtSocketAssumption DEF Timeout
  <2>3. Goes(t, "up") /\ "up" \in Stages
    BY <1>9, <1>p DEF Timeout
  <2> QED
    BY <1>9, <2>1, <2>2, <2>3, GoesTyped, MoveTyped DEF Timeout, Release
<1> QED
  BY <1>1, <1>2, <1>3, <1>4, <1>5, <1>6, <1>7, <1>8, <1>9

LEMMA BeginTyped ==
  ASSUME AtTyped, Behind, NEW t \in Tasks, Begin(t)
  PROVE  AtTyped' /\ Behind'
<1>1. task[t].pc \in Kinds /\ task[t].fd \in Links /\ 0 \in Nat
  BY TaskIs DEF Begin, Kinds
<1>2. uart' \in Seq(Urcs) /\ cmds' \in Seq(Commanded) /\ Behind'
  BY <1>1, IssueTyped DEF Begin
<1> QED
  BY <1>2 DEF Begin, AtTyped

LEMMA PendingTyped ==
  ASSUME AtTyped, Behind, NEW t \in Tasks, Pending(t)
  PROVE  AtTyped' /\ Behind'
<1> DEFINE l == task[t].fd
<1>1. PICK r \in Reads(Final) :
        LET some == {i \in FirstOf(r, "pending") : r[i].left > 0} IN
        /\ sock' = Dispatch(r)
        /\ \/ \E i \in some :
                /\ Goes(t, "read") /\ UNCHANGED holder
                /\ Issue("read", l, Lesser(r[i].left, Space(l)))
           \/ some = {} /\ Goes(t, "up") /\ Release /\ UNCHANGED cmds
  BY DEF Pending
<1>2. r \in Seq(Urcs) /\ \A i \in DOMAIN r : i \in DOMAIN uart /\ r[i] = uart[i]
  BY ReadsIs DEF AtTyped
<1>3. sock' \in [Links -> Socks] /\ l \in Links /\ Space(l) \in Nat /\ conn' = conn /\ late' = late
  BY <1>1, <1>2, DispatchIs, TaskIs, SockTyped DEF Pending
<1>4. "read" \in Stages /\ "up" \in Stages /\ "read" \in Kinds
  BY DEF Stages, Kinds
<1>5. ASSUME NEW i \in FirstOf(r, "pending"), Goes(t, "read"), UNCHANGED holder,
             Issue("read", l, Lesser(r[i].left, Space(l)))
      PROVE  AtTyped' /\ Behind'
  <2>1. i \in DOMAIN r /\ r[i].k = "pending"
    BY DEF FirstOf
  <2>2. i \in DOMAIN uart /\ uart[i].k = "pending" /\ r[i] \in Urcs
    BY <1>2, <2>1
  <2>3. Len(cmds) <= MaxLate
    BY <2>2 DEF Behind
  <2>4. r[i].left \in Nat
    BY <2>1, <2>2, UrcIs, AtSocketAssumption
  <2>5. Lesser(r[i].left, Space(l)) \in Nat
    BY <1>3, <2>4, LesserIs
  <2>6. uart' \in Seq(Urcs) /\ cmds' \in Seq(Commanded) /\ Behind'
    BY <1>3, <1>4, <1>5, <2>3, <2>5, IssueTyped
  <2>7. task' \in [Tasks -> Users]
    BY <1>4, <1>5, GoesTyped
  <2> QED
    BY <1>3, <1>5, <2>6, <2>7 DEF AtTyped
<1>6. ASSUME Goes(t, "up"), Release, UNCHANGED cmds
      PROVE  AtTyped' /\ Behind'
  <2>1. late \in 0..MaxLate
    BY DEF AtTyped
  <2> QED
    BY <1>3, <1>4, <1>6, <2>1, GoesTyped, MoveTyped DEF Release
<1> QED
  BY <1>1, <1>5, <1>6

\* What fits of a chunk is appended to the ring.
LEMMA Stored ==
  ASSUME AtTyped, NEW l \in Links, NEW bytes \in Seq(1..MaxBytes),
         NEW new, new = SubSeq(bytes, 1, Lesser(Len(bytes), Space(l)))
  PROVE  /\ new \in Seq(1..MaxBytes) /\ sock[l].ring \o new \in Seq(1..MaxBytes)
         /\ Len(new) <= Space(l) /\ Len(sock[l].ring \o new) <= Ring
         /\ Len(bytes) <= Space(l) => new = bytes
<1> DEFINE n == Lesser(Len(bytes), Space(l))
<1>1. Space(l) \in Nat /\ Len(bytes) \in Nat /\ sock[l] \in Socks
  BY SockTyped
<1>2. n \in Nat /\ n <= Len(bytes) /\ n <= Space(l)
  BY <1>1, LesserIs
<1>3. n \in 0..Len(bytes)
  BY <1>1, <1>2
<1> HIDE DEF n
<1>4. new \in Seq(1..MaxBytes) /\ Len(new) = n
  <2> DEFINE S == 1..MaxBytes
  <2>1. bytes \in Seq(S)
    OBVIOUS
  <2>2. new = SubSeq(bytes, 1, n)
    BY DEF n
  <2> HIDE DEF S
  <2>3. SubSeq(bytes, 1, n) \in Seq(S) /\ Len(SubSeq(bytes, 1, n)) = n
    BY <1>3, <2>1, Split
  <2> QED
    BY <2>2, <2>3 DEF S
<1>5. PICK q \in Seq(1..MaxBytes) : q = sock[l].ring /\ Len(q) <= Ring /\ Space(l) = Ring - Len(q)
  BY SockTyped DEF Space
<1>6. q \o new \in Seq(1..MaxBytes) /\ Len(q \o new) = Len(q) + Len(new)
  BY <1>4, <1>5, ConcatProperties
<1>7. Len(q) \in Nat /\ Len(new) <= Space(l)
  BY <1>2, <1>4, <1>5
<1>8. Len(q \o new) <= Ring
  BY <1>1, <1>2, <1>4, <1>5, <1>6, <1>7, AtSocketAssumption
<1>9. ASSUME Len(bytes) <= Space(l) PROVE new = bytes
  <2>1. n = Len(bytes)
    BY <1>1, <1>9 DEF n, Lesser
  <2>2. SubSeq(bytes, 1, Len(bytes)) = bytes
    BY SubSeqFull
  <2> QED
    BY <2>1, <2>2 DEF n
<1> QED
  BY <1>4, <1>5, <1>6, <1>7, <1>8, <1>9

LEMMA ChunkTyped ==
  ASSUME AtTyped, Behind, NEW t \in Tasks, NEW bytes \in Seq(1..MaxBytes), NEW left \in Nat,
         Chunk(t, bytes, left), Len(cmds) <= MaxLate, conn' = conn, late' \in 0..MaxLate
  PROVE  AtTyped' /\ Behind'
<1>0. PICK l \in Links : l = task[t].fd
  BY TaskIs
<1>5. l \in Links /\ Space(l) \in Nat
  BY <1>0, SockTyped
<1>6. PICK new, v :
        /\ new = SubSeq(bytes, 1, Lesser(Len(bytes), Space(l))) /\ Len(new) <= Space(l)
        /\ new \in Seq(1..MaxBytes)
        /\ v = sock[l].ring \o new /\ v \in Seq(1..MaxBytes) /\ Len(v) <= Ring
  <2>1. PICK new : new = SubSeq(bytes, 1, Lesser(Len(bytes), Space(l)))
    OBVIOUS
  <2>2. /\ new \in Seq(1..MaxBytes) /\ sock[l].ring \o new \in Seq(1..MaxBytes)
        /\ Len(new) <= Space(l) /\ Len(sock[l].ring \o new) <= Ring
    BY ONLY AtTyped, l \in Links, bytes \in Seq(1..MaxBytes), <2>1, Stored, ZenonT(40)
  <2> QED
    BY <2>1, <2>2
<1>7. sock' \in [Links -> Socks]
  <2>1. sock' = [sock EXCEPT ![l].ring = v]
    BY <1>0, <1>6 DEF Chunk
  <2> QED
    BY <1>6, <2>1 DEF Socks, AtTyped
<1>8. \/ Issue("read", l, Lesser(left, Space(l) - Len(new))) /\ UNCHANGED <<task, holder>>
      \/ Goes(t, "up") /\ Release /\ UNCHANGED cmds
  BY <1>0, <1>6 DEF Chunk
<1>9. CASE Issue("read", l, Lesser(left, Space(l) - Len(new))) /\ UNCHANGED <<task, holder>>
  <2>1. Space(l) - Len(new) \in Nat
    BY <1>5, <1>6
  <2>2. Lesser(left, Space(l) - Len(new)) \in Nat /\ "read" \in Kinds
    BY <2>1, LesserIs DEF Kinds
  <2>3. uart' \in Seq(Urcs) /\ cmds' \in Seq(Commanded) /\ Behind'
    BY <1>5, <1>9, <2>2, IssueTyped
  <2> QED
    BY <1>5, <1>7, <1>9, <2>3 DEF AtTyped
<1>10. CASE Goes(t, "up") /\ Release /\ UNCHANGED cmds
  <2>1. "up" \in Stages
    BY DEF Stages
  <2> QED
    BY <1>5, <1>7, <1>10, <2>1, GoesTyped, MoveTyped DEF Release
<1> QED
  BY <1>8, <1>9, <1>10

\* A read is asked for only once the answer before was read.
LEMMA DataIs ==
  ASSUME AtTyped, Behind, NEW i \in FirstOf(uart, "data")
  PROVE  /\ uart[i].bytes \in Seq(1..MaxBytes) /\ uart[i].left \in Nat
         /\ Len(cmds) <= MaxLate
<1>1. i \in DOMAIN uart /\ uart[i].k = "data" /\ uart[i] \in Urcs
  BY DEF FirstOf, AtTyped
<1>2. Len(cmds) <= MaxLate
  BY <1>1 DEF Behind
<1> QED
  BY <1>1, <1>2, UrcIs, AtSocketAssumption

LEMMA ReadTyped ==
  ASSUME AtTyped, Behind, NEW t \in Tasks, ReadChunk(t) \/ ReadLate(t) \/ ReadCut(t)
  PROVE  AtTyped' /\ Behind'
<1>0. late \in 0..MaxLate /\ (late < MaxLate => late + 1 \in 0..MaxLate)
  BY AtSocketAssumption DEF AtTyped
<1>1. CASE ReadChunk(t)
  <2>1. PICK i \in FirstOf(uart, "data") : Chunk(t, uart[i].bytes, uart[i].left)
    BY <1>1 DEF ReadChunk
  <2> QED
    BY <1>0, <1>1, <2>1, DataIs, ChunkTyped DEF ReadChunk
<1>2. CASE ReadLate(t)
  <2>1. "up" \in Stages /\ sock \in [Links -> Socks]
    BY DEF Stages, AtTyped
  <2>2. task' \in [Tasks -> Users]
    BY <1>2, <2>1, GoesTyped DEF ReadLate
  <2> QED
    BY <1>0, <1>2, <2>1, <2>2, MoveTyped DEF ReadLate, Release
<1>3. CASE ReadCut(t)
  <2>0. PICK i \in FirstOf(uart, "data") :
          \E n \in 0..Len(uart[i].bytes) : Chunk(t, SubSeq(uart[i].bytes, 1, n), uart[i].left)
    BY <1>3 DEF ReadCut
  <2>1. PICK n \in 0..Len(uart[i].bytes) : Chunk(t, SubSeq(uart[i].bytes, 1, n), uart[i].left)
    BY <2>0
  <2>2. SubSeq(uart[i].bytes, 1, n) \in Seq(1..MaxBytes)
    <3> DEFINE S == 1..MaxBytes
    <3>1. PICK q \in Seq(S) : q = uart[i].bytes
      BY DataIs
    <3> HIDE DEF S
    <3>2. SubSeq(q, 1, n) \in Seq(S)
      BY <3>1, Split
    <3> QED
      BY <3>1, <3>2 DEF S
  <2> QED
    BY <1>0, <1>3, <2>1, <2>2, DataIs, ChunkTyped DEF ReadCut
<1> QED
  BY <1>1, <1>2, <1>3

\* One report on its way, or none.
LEMMA PutsOne ==
  ASSUME AtTyped, NEW u \in Urcs, Puts(<<u>>)
  PROVE  /\ uart' \in Seq(Urcs)
         /\ \A i \in DOMAIN uart' : (i \in DOMAIN uart /\ uart'[i] = uart[i]) \/ uart'[i] = u
         /\ holder = None => uart' = uart
         /\ holder # None => uart' = Append(uart, u)
<1>1. <<u>> \in Seq(Urcs) /\ DOMAIN <<u>> = {1} /\ <<u>>[1] = u
  OBVIOUS
<1>2. /\ uart' \in Seq(Urcs)
      /\ \A i \in DOMAIN uart' : \/ i \in DOMAIN uart /\ uart'[i] = uart[i]
                                \/ \E j \in DOMAIN <<u>> : uart'[i] = <<u>>[j]
  BY <1>1, PutsTyped
<1>3. holder # None => uart' = uart \o <<u>>
  BY DEF Puts
<1>4. uart \o <<u>> = Append(uart, u)
  BY AppendIsConcat DEF AtTyped
<1> QED
  BY <1>1, <1>2, <1>3, <1>4 DEF Puts

LEMMA ConnIs ==
  ASSUME NEW m \in Conns, NEW s \in 0..MaxBytes, NEW q \in Seq(1..MaxBytes), Len(q) <= s
  PROVE  [m EXCEPT !.sent = s, !.held = q] \in Conns
BY DEF Conns

\* What the modem does with a command: the link it leaves and what it answers.
LEMMA ExecutesIs ==
  ASSUME AtTyped, NEW c \in Commanded, Executes(c)
  PROVE  \E x \in Conns, u \in Urcs :
           /\ conn' = [conn EXCEPT ![c.l] = x] /\ Puts(<<u>>)
           /\ u.k \in Answers
           /\ c.k \in {"dns", "query", "send"} => x = conn[c.l]
           /\ c.k = "open" /\ conn[c.l].state = "closed" =>
                x = [Closed EXCEPT !.state = "opening"] /\ u.k = "ok"
           /\ c.k = "open" /\ conn[c.l].state # "closed" => x = conn[c.l]
           /\ c.k = "udp" => x = [Closed EXCEPT !.state = "udp"] \/ x = conn[c.l]
           /\ c.k = "close" => x = Closed
           /\ c.k = "read" =>
                /\ u.k = "data" /\ x.state = conn[c.l].state /\ x.sent = conn[c.l].sent
                /\ u.bytes \in Seq(1..MaxBytes) /\ Len(u.bytes) <= c.n
                /\ u.bytes \o x.held = conn[c.l].held
           /\ c.k # "read" => u.k # "data"
<1>0. c.l \in Links /\ c.n \in Nat /\ c.k \in Kinds
  BY DEF Commanded
<1>1. PICK m \in Conns : m = conn[c.l]
  BY <1>0, SockTyped
<1>2. Closed \in Conns /\ [Closed EXCEPT !.state = "opening"] \in Conns
      /\ [Closed EXCEPT !.state = "udp"] \in Conns
  <2>1. PICK e : e = <<>> /\ e \in Seq(1..MaxBytes) /\ Len(e) = 0
    BY EmptyRing
  <2>2. ASSUME NEW s \in {"closed", "opening", "udp"}
        PROVE  [state |-> s, sent |-> 0, held |-> e] \in Conns
    BY <2>1, AtSocketAssumption DEF Conns
  <2>3. /\ Closed = [state |-> "closed", sent |-> 0, held |-> e]
        /\ [Closed EXCEPT !.state = "opening"] = [state |-> "opening", sent |-> 0, held |-> e]
        /\ [Closed EXCEPT !.state = "udp"] = [state |-> "udp", sent |-> 0, held |-> e]
    BY <2>1 DEF Closed
  <2> QED
    BY <2>2, <2>3
<1>u. /\ [k |-> "ok"] \in Urcs /\ [k |-> "error"] \in Urcs /\ [k |-> "cdnsgip"] \in Urcs
      /\ \A n \in 0..MaxBytes : [k |-> "pending", l |-> c.l, left |-> n] \in Urcs
      /\ \A b \in Seq(1..MaxBytes), n \in 0..MaxBytes :
           [k |-> "data", l |-> c.l, bytes |-> b, left |-> n] \in Urcs
  BY <1>0 DEF Urcs
<1>h. m.held \in Seq(1..MaxBytes) /\ Len(m.held) \in 0..MaxBytes /\ m.sent \in 0..MaxBytes
      /\ Len(m.held) <= m.sent
  <2>1. m.held \in Seq(1..MaxBytes) /\ m.sent \in 0..MaxBytes /\ Len(m.held) <= m.sent
    BY DEF Conns
  <2>2. Len(m.held) \in Nat
    BY <2>1
  <2> QED
    BY <2>1, <2>2, AtSocketAssumption
<1> USE DEF Answers
<1>3. CASE c.k = "dns"
  <2>1. PICK k \in {"cdnsgip", "error"} :
          conn' = [conn EXCEPT ![c.l] = m] /\ Puts(<<[k |-> k]>>)
    BY <1>1, <1>3 DEF Executes
  <2>2. PICK u \in Urcs : u = [k |-> k]
    BY <1>u
  <2> QED
    BY <1>1, <1>3, <2>1, <2>2
<1>4. CASE c.k = "open"
  <2>1. CASE m.state # "closed"
    <3>1. conn' = [conn EXCEPT ![c.l] = m] /\ Puts(<<[k |-> "error"]>>)
      BY <1>1, <1>4, <2>1 DEF Executes
    <3> QED
      BY <1>1, <1>4, <1>u, <2>1, <3>1
  <2>2. CASE m.state = "closed"
    <3>1. conn' = [conn EXCEPT ![c.l] = [Closed EXCEPT !.state = "opening"]]
          /\ Puts(<<[k |-> "ok"]>>)
      BY <1>1, <1>4, <2>2 DEF Executes
    <3> QED
      BY <1>1, <1>2, <1>4, <1>u, <2>2, <3>1
  <2> QED
    BY <2>1, <2>2
<1>5. CASE c.k = "udp"
  <2>1. \/ conn' = [conn EXCEPT ![c.l] = [Closed EXCEPT !.state = "udp"]] /\ Puts(<<[k |-> "ok"]>>)
        \/ conn' = [conn EXCEPT ![c.l] = m] /\ Puts(<<[k |-> "error"]>>)
    BY <1>1, <1>5 DEF Executes
  <2> QED
    BY <1>1, <1>2, <1>5, <1>u, <2>1
<1>6. CASE c.k = "query"
  <2>1. conn' = [conn EXCEPT ![c.l] = m] /\ Puts(<<[k |-> "pending", l |-> c.l, left |-> Len(m.held)]>>)
    BY <1>1, <1>6 DEF Executes
  <2>2. PICK u \in Urcs : u = [k |-> "pending", l |-> c.l, left |-> Len(m.held)]
    BY <1>u, <1>h
  <2> QED
    BY <1>1, <1>6, <2>1, <2>2
<1>7. CASE c.k = "read"
  <2>1. PICK n : n = Lesser(c.n, Len(m.held))
    OBVIOUS
  <2>2. /\ conn' = [conn EXCEPT ![c.l] = [m EXCEPT !.held = SubSeq(@, n + 1, Len(@))]]
        /\ Puts(<<[k |-> "data", l |-> c.l, bytes |-> SubSeq(m.held, 1, n),
                   left |-> Len(m.held) - n]>>)
    BY <1>1, <1>7, <2>1 DEF Executes
  <2>3. n \in Nat /\ n <= c.n /\ n <= Len(m.held) /\ n \in 0..Len(m.held)
        /\ Len(m.held) - n \in 0..MaxBytes
    <3>1. Len(m.held) \in Nat
      BY <1>h
    <3>2. n \in Nat /\ n <= c.n /\ n <= Len(m.held)
      BY <1>0, <2>1, <3>1, LesserIs
    <3> QED
      BY <1>h, <3>1, <3>2, AtSocketAssumption
  <2>4. PICK a, b :
          /\ a = SubSeq(m.held, 1, n) /\ b = SubSeq(m.held, n + 1, Len(m.held))
          /\ a \in Seq(1..MaxBytes) /\ b \in Seq(1..MaxBytes)
          /\ Len(a) = n /\ Len(b) = Len(m.held) - n /\ a \o b = m.held
    <3> DEFINE S == 1..MaxBytes
               a == SubSeq(m.held, 1, n)
               b == SubSeq(m.held, n + 1, Len(m.held))
    <3>1. m.held \in Seq(S)
      BY <1>h
    <3> HIDE DEF S
    <3>2. /\ a \in Seq(S) /\ Len(a) = n
          /\ b \in Seq(S) /\ Len(b) = Len(m.held) - n /\ a \o b = m.held
      BY <2>3, <3>1, Split
    <3> HIDE DEF a, b
    <3>3. a \in Seq(1..MaxBytes) /\ b \in Seq(1..MaxBytes)
      BY <3>2 DEF S
    <3>4. a = SubSeq(m.held, 1, n) /\ b = SubSeq(m.held, n + 1, Len(m.held))
      BY DEF a, b
    <3> QED
      BY <3>2, <3>3, <3>4
  <2>5. PICK x \in Conns : x = [m EXCEPT !.sent = m.sent, !.held = b]
    <3>1. Len(b) <= m.sent
      BY <1>h, <2>3, <2>4, AtSocketAssumption, SMTT(30)
    <3> QED
      BY <1>h, <2>4, <3>1, ConnIs
  <2>6. PICK u \in Urcs : u = [k |-> "data", l |-> c.l, bytes |-> a, left |-> Len(m.held) - n]
    BY <1>u, <2>3, <2>4
  <2>7. x.state = m.state /\ x.sent = m.sent /\ x.held = b
    BY <2>5 DEF Conns
  <2>8. conn' = [conn EXCEPT ![c.l] = x] /\ Puts(<<u>>)
    <3>1. x = [m EXCEPT !.held = b]
      BY <2>5 DEF Conns
    <3> QED
      BY <2>2, <2>4, <2>6, <3>1
  <2>9. u.k = "data" /\ u.bytes = a
    BY <2>6
  <2> QED
    BY <1>1, <1>7, <2>3, <2>4, <2>7, <2>8, <2>9
<1>8. CASE c.k = "send"
  <2>1. PICK k \in {"ok", "error"} : conn' = [conn EXCEPT ![c.l] = m] /\ Puts(<<[k |-> k]>>)
    BY <1>1, <1>8 DEF Executes
  <2>2. PICK u \in Urcs : u = [k |-> k]
    BY <1>u
  <2> QED
    BY <1>1, <1>8, <2>1, <2>2
<1>9. CASE c.k = "close"
  <2>1. conn' = [conn EXCEPT ![c.l] = Closed] /\ Puts(<<[k |-> "ok"]>>)
    BY <1>1, <1>9 DEF Executes
  <2> QED
    BY <1>1, <1>2, <1>9, <1>u, <2>1
<1> QED
  BY <1>0, <1>3, <1>4, <1>5, <1>6, <1>7, <1>8, <1>9 DEF Kinds

LEMMA ModemTyped ==
  ASSUME AtTyped, Behind, Modem
  PROVE  AtTyped' /\ Behind'
<1>1. cmds \in Seq(Commanded) /\ cmds # <<>>
  BY DEF AtTyped, Modem
<1>2. PICK c \in Commanded : c = Head(cmds)
  BY <1>1
<1>3. PICK x \in Conns, u \in Urcs : conn' = [conn EXCEPT ![c.l] = x] /\ Puts(<<u>>)
  BY <1>2, ExecutesIs DEF Modem
<1>4. cmds' \in Seq(Commanded) /\ Len(cmds') = Len(cmds) - 1
  BY <1>1 DEF Modem
<1>5. conn' \in [Links -> Conns] /\ uart' \in Seq(Urcs)
  BY <1>3, PutsOne DEF AtTyped, Commanded
<1>6. Len(cmds) \in Nat
  BY <1>1
<1>7. Behind'
  BY <1>4, <1>6, AtSocketAssumption DEF Behind
<1> QED
  BY <1>4, <1>5, <1>7 DEF Modem, AtTyped

\* What the network does to a link, and what the modem says of it.
LEMMA NetworkIs ==
  ASSUME AtTyped, NEW l \in Links, Connected(l) \/ Arrives(l) \/ PeerCloses(l)
  PROVE  \E x \in Conns :
           /\ conn' = [conn EXCEPT ![l] = x]
           /\ \/ uart' = uart
              \/ \E u \in Urcs : Puts(<<u>>) /\ u.k \in {"cipopen", "notify", "ipclose"}
                                 /\ (u.k = "cipopen" => conn[l].state = "opening" /\ u.l = l)
                                 /\ (u.k = "ipclose" => x.state = "lost" /\ u.l = l)
           /\ conn[l].state = "opening" => (\E u \in Urcs : Puts(<<u>>) /\ u.k = "cipopen")
           /\ x.state # "opening"
           /\ conn[l].state = "lost" => x.state = "lost"
           /\ \/ x.sent = conn[l].sent /\ x.held = conn[l].held
              \/ x.sent = conn[l].sent + 1 /\ x.held = Append(conn[l].held, x.sent)
           /\ conn[l].state \notin {"closed", "lost"}
<1>1. PICK m \in Conns : m = conn[l]
  BY SockTyped
<1>2. CASE Connected(l)
  <2>1. PICK ok \in BOOLEAN :
          /\ conn' = [conn EXCEPT ![l].state = IF ok THEN "open" ELSE "closed"]
          /\ Puts(<<[k |-> "cipopen", l |-> l, ok |-> ok]>>)
    BY <1>2 DEF Connected
  <2>2. PICK u \in Urcs : u = [k |-> "cipopen", l |-> l, ok |-> ok]
    BY DEF Urcs
  <2>3. PICK x \in Conns : x = [m EXCEPT !.state = IF ok THEN "open" ELSE "closed"]
    BY DEF Conns
  <2>4. x.state \in {"open", "closed"} /\ x.sent = m.sent /\ x.held = m.held
    BY <2>3 DEF Conns
  <2>5. conn' = [conn EXCEPT ![l] = x] /\ Puts(<<u>>) /\ u.k = "cipopen" /\ u.l = l
    BY <1>1, <2>1, <2>2, <2>3
  <2> QED
    BY <1>1, <1>2, <2>4, <2>5 DEF Connected
<1>3. CASE Arrives(l)
  <2>1. m.held \in Seq(1..MaxBytes) /\ m.sent \in 0..MaxBytes /\ Len(m.held) <= m.sent
        /\ m.sent < MaxBytes /\ m.state \in {"open", "udp"}
    BY <1>1, <1>3 DEF Conns, Arrives
  <2>2. PICK q : q = Append(m.held, m.sent + 1)
    OBVIOUS
  <2>3. m.sent + 1 \in 1..MaxBytes
    BY <2>1, AtSocketAssumption
  <2>4. q \in Seq(1..MaxBytes) /\ Len(q) = Len(m.held) + 1 /\ Len(m.held) \in Nat
    BY <2>1, <2>2, <2>3
  <2>5. PICK x \in Conns : x = [m EXCEPT !.sent = m.sent + 1, !.held = q]
    <3>1. m.sent + 1 \in 0..MaxBytes /\ Len(q) <= m.sent + 1
      BY <2>1, <2>3, <2>4, AtSocketAssumption
    <3> QED
      BY <2>4, <3>1, ConnIs
  <2>6. x.state = m.state /\ x.sent = m.sent + 1 /\ x.held = q
    BY <2>5 DEF Conns
  <2>7. conn' = [conn EXCEPT ![l] = x]
    BY <1>1, <1>3, <2>2, <2>5 DEF Arrives
  <2>8. uart' = uart \/ Puts(<<[k |-> "notify"]>>)
    <3>1. Puts(<<[k |-> "notify"]>>) \/ Puts(<<>>)
      BY <1>3 DEF Arrives
    <3>2. uart \o <<>> = uart
      BY ConcatEmptySeq DEF AtTyped
    <3> QED
      BY <3>1, <3>2 DEF Puts
  <2>9. PICK u \in Urcs : u = [k |-> "notify"]
    BY DEF Urcs
  <2>10. u.k = "notify"
    BY <2>9
  <2> QED
    BY <1>1, <2>1, <2>2, <2>6, <2>7, <2>8, <2>9, <2>10
<1>4. CASE PeerCloses(l)
  <2>1. PICK u \in Urcs : u = [k |-> "ipclose", l |-> l]
    BY DEF Urcs
  <2>2. PICK x \in Conns : x = [m EXCEPT !.state = "lost"]
    BY DEF Conns
  <2>3. x.state = "lost" /\ x.sent = m.sent /\ x.held = m.held /\ u.k = "ipclose" /\ u.l = l
    BY <2>1, <2>2 DEF Conns
  <2>4. conn' = [conn EXCEPT ![l] = x] /\ Puts(<<u>>) /\ m.state = "open"
    BY <1>1, <1>4, <2>1, <2>2 DEF PeerCloses
  <2> QED
    BY <1>1, <2>3, <2>4
<1> QED
  BY <1>2, <1>3, <1>4

LEMMA NetworkTyped ==
  ASSUME AtTyped, Behind, NEW l \in Links, Connected(l) \/ Arrives(l) \/ PeerCloses(l)
  PROVE  AtTyped' /\ Behind'
<1>1. PICK x \in Conns :
        /\ conn' = [conn EXCEPT ![l] = x]
        /\ \/ uart' = uart
           \/ \E u \in Urcs : Puts(<<u>>) /\ u.k \in {"cipopen", "notify", "ipclose"}
  BY NetworkIs
<1>2. UNCHANGED <<sock, task, holder, cmds, late>>
  BY DEF Connected, Arrives, PeerCloses
<1>3. /\ uart' \in Seq(Urcs)
      /\ \A i \in DOMAIN uart' : \/ i \in DOMAIN uart /\ uart'[i] = uart[i]
                                \/ uart'[i].k \in {"cipopen", "notify", "ipclose"}
  <2>1. CASE uart' = uart
    BY <2>1 DEF AtTyped
  <2>2. CASE \E u \in Urcs : Puts(<<u>>) /\ u.k \in {"cipopen", "notify", "ipclose"}
    BY <2>2, PutsOne
  <2> QED
    BY <1>1, <2>1, <2>2
<1>4. Behind'
  BY <1>2, <1>3 DEF Behind
<1> QED
  BY <1>1, <1>2, <1>3, <1>4 DEF AtTyped

LEMMA LateEndTyped ==
  ASSUME AtTyped, Behind, LateEnd
  PROVE  AtTyped' /\ Behind'
<1>1. PICK u \in Urcs : u = [k |-> "ok"]
  BY DEF Urcs
<1>2. /\ uart' \in Seq(Urcs)
      /\ \A i \in DOMAIN uart' : (i \in DOMAIN uart /\ uart'[i] = uart[i]) \/ uart'[i].k = "ok"
  BY <1>1, PutsOne DEF LateEnd
<1>3. Behind'
  BY <1>2 DEF LateEnd, Behind
<1> QED
  BY <1>2, <1>3 DEF LateEnd, AtTyped

LEMMA TypedStep == AtTyped /\ Behind /\ [AtNext]_atVars => AtTyped' /\ Behind'
<1> SUFFICES ASSUME AtTyped, Behind, [AtNext]_atVars PROVE AtTyped' /\ Behind'
  OBVIOUS
<1>1. CASE UNCHANGED atVars
  BY <1>1 DEF atVars, AtTyped, Behind
<1> QED
  BY <1>1, ModemTyped, NetworkTyped, OperationsTyped, BeginTyped, PendingTyped, ReadTyped,
     LateEndTyped
     DEF AtNext

\* While no answer was late none was cut short.
Whole == cut \in {"none", "coming", "lost"} /\ (late = 0 => cut = "none")

LEMMA WholeStep == AtTyped /\ Whole /\ [AtNext]_atVars => Whole'
<1> SUFFICES ASSUME AtTyped, Whole, [AtNext]_atVars PROVE Whole'
  OBVIOUS
<1>0. late \in Nat
  BY AtSocketAssumption DEF AtTyped
<1>1. CASE UNCHANGED <<late, cut>>
  BY <1>1 DEF Whole
<1>2. CASE LateEnd
  BY <1>2 DEF LateEnd, Whole
<1>3. CASE \E t \in Tasks : ReadLate(t) \/ ReadCut(t) \/ Timeout(t)
  BY <1>0, <1>3 DEF ReadLate, ReadCut, Timeout, Whole
<1> QED
  BY <1>1, <1>2, <1>3 DEF AtNext, atVars, Modem, Connected, Arrives, PeerCloses, Begin, Resolved,
     Socket, Connect, Opened, OpenedUdp, Send, Sent, Close, CloseEnd, Deliver, Eof, Poll,
     Pending, ReadChunk

THEOREM AtInvariance == AtSpec => [](AtTyped /\ Behind /\ Whole)
<1>1. AtInit => Whole
  BY DEF AtInit, Whole
<1> QED
  BY <1>1, TypedInit, TypedStep, WholeStep, PTL DEF AtSpec

\* A slot, the modem's end of a link, a task and all that is under way stay what
\* they are declared to be, a ring within RX_RING_SIZE, for any numbers of tasks,
\* links, bytes and late answers (ring_write, at_read_data_chunk).
THEOREM AtTypeCorrect == AtSpec => []AtTypeOK
<1>1. AtTyped /\ Behind /\ Whole => AtTypeOK
  <2> SUFFICES ASSUME AtTyped, Behind, Whole PROVE AtTypeOK
    OBVIOUS
  <2>1. \A i \in DOMAIN uart : uart[i] \in Urcs
    BY DEF AtTyped
  <2>2. \A l \in Links :
          /\ sock[l] \in [used : BOOLEAN, connected : BOOLEAN, closed : BOOLEAN,
                          ok : BOOLEAN, ring : Seq(1..MaxBytes)]
          /\ Len(sock[l].ring) <= Ring
          /\ conn[l] \in [state : {"closed", "opening", "open", "udp", "lost"},
                          sent : 0..MaxBytes, held : Seq(1..MaxBytes)]
    BY DEF AtTyped, Socks, Conns
  <2>3. Users = [pc : {"dns", "named", "fresh", "open", "udp", "up",
                       "query", "read", "send", "close"},
                 fd : Links, type : {"TCP", "UDP"}, got : 0..MaxBytes]
    BY DEF Users, Kinds
  <2> QED
    BY <2>1, <2>2, <2>3 DEF AtTyped, Behind, Whole, AtTypeOK
<1> QED
  BY AtInvariance, <1>1, PTL
-----------------------------------------------------------------------------
(* While no answer was late: frames.                                           *)

LEMMA LateGrows ==
  AtTyped /\ [AtNext]_atVars /\ late' = 0 =>
    late = 0 /\ \A t \in Tasks : ~Timeout(t) /\ ~ReadLate(t) /\ ~ReadCut(t)
<1> SUFFICES ASSUME AtTyped, [AtNext]_atVars, late' = 0
             PROVE  late = 0 /\ \A t \in Tasks : ~Timeout(t) /\ ~ReadLate(t) /\ ~ReadCut(t)
  OBVIOUS
<1>1. late \in Nat
  BY AtSocketAssumption DEF AtTyped
<1>2. \A t \in Tasks : ~Timeout(t) /\ ~ReadLate(t) /\ ~ReadCut(t)
  BY <1>1 DEF Timeout, ReadLate, ReadCut
<1>3. late' = late
  BY <1>2 DEF AtNext, atVars, Modem, LateEnd, Connected, Arrives, PeerCloses, Begin, Resolved,
     Socket, Connect, Opened, OpenedUdp, Send, Sent, Close, CloseEnd, Deliver, Eof, Poll,
     Pending, ReadChunk
<1> QED
  BY <1>2, <1>3

LEMMA FirstUnique ==
  ASSUME NEW r \in Seq(Urcs), NEW k, NEW i \in FirstOf(r, k), NEW j \in FirstOf(r, k)
  PROVE  i = j
<1>1. i \in 1..Len(r) /\ j \in 1..Len(r) /\ Len(r) \in Nat
  BY DEF FirstOf
<1>2. ~(i < j) /\ ~(j < i)
  BY <1>1 DEF FirstOf
<1> QED
  BY <1>1, <1>2

LEMMA NothingComing ==
  ASSUME NEW t \in Tasks, ~At(t, "read") \/ \A i \in DOMAIN uart : uart[i].k # "data"
  PROVE  Coming(t) = <<>>
BY DEF Coming, FirstOf

LEMMA ComingIs ==
  ASSUME AtTyped, NEW t \in Tasks, At(t, "read"), NEW i \in FirstOf(uart, "data")
  PROVE  Coming(t) = uart[i].bytes
<1>1. uart \in Seq(Urcs)
  BY DEF AtTyped
<1>2. \A j \in FirstOf(uart, "data") : j = i
  BY <1>1, FirstUnique
<1>3. (CHOOSE j \in FirstOf(uart, "data") : TRUE) = i
  BY <1>2
<1> QED
  BY <1>3 DEF Coming

LEMMA ComingTyped ==
  ASSUME AtTyped, NEW t \in Tasks
  PROVE  Coming(t) \in Seq(1..MaxBytes)
<1>1. CASE At(t, "read") /\ FirstOf(uart, "data") # {}
  <2>1. PICK i \in FirstOf(uart, "data") : TRUE
    BY <1>1
  <2>2. uart[i] \in Urcs /\ uart[i].k = "data"
    BY DEF FirstOf, AtTyped
  <2> QED
    BY <1>1, <2>1, <2>2, ComingIs, UrcIs
<1>2. CASE ~(At(t, "read") /\ FirstOf(uart, "data") # {})
  BY <1>2, EmptyRing DEF Coming
<1> QED
  BY <1>1, <1>2

\* Reports that are no data bring nothing.
LEMMA ComingKept ==
  ASSUME AtTyped, NEW t \in Tasks, task'[t] = task[t],
         \/ uart' = uart
         \/ \E u \in Urcs : uart' = Append(uart, u) /\ u.k # "data"
  PROVE  Coming(t)' = Coming(t)
<1>1. CASE uart' = uart
  BY <1>1 DEF Coming, At, FirstOf
<1>2. CASE \E u \in Urcs : uart' = Append(uart, u) /\ u.k # "data"
  <2>1. PICK u \in Urcs : uart' = Append(uart, u) /\ u.k # "data"
    BY <1>2
  <2>2. /\ uart' \in Seq(Urcs) /\ Len(uart') = Len(uart) + 1 /\ Len(uart) \in Nat
        /\ \A i \in 1..Len(uart) : uart'[i] = uart[i]
        /\ uart'[Len(uart) + 1] = u
    BY <2>1, AppendProperties DEF AtTyped
  <2>3. DOMAIN uart = 1..Len(uart) /\ DOMAIN uart' = 1..Len(uart) + 1
    BY <2>2 DEF AtTyped
  <2>4. ASSUME NEW i PROVE i \in FirstOf(uart, "data")' <=> i \in FirstOf(uart, "data")
    <3>1. ASSUME i \in FirstOf(uart, "data")' PROVE i \in FirstOf(uart, "data")
      <4>1. i \in 1..Len(uart) + 1 /\ uart'[i].k = "data" /\ \A j \in 1..i-1 : uart'[j].k # "data"
        BY <2>3, <3>1 DEF FirstOf
      <4>2. i \in 1..Len(uart)
        BY <2>1, <2>2, <4>1
      <4>3. \A j \in 1..i-1 : j \in 1..Len(uart)
        BY <2>2, <4>2
      <4> QED
        BY <2>2, <2>3, <4>1, <4>2, <4>3 DEF FirstOf
    <3>2. ASSUME i \in FirstOf(uart, "data") PROVE i \in FirstOf(uart, "data")'
      <4>1. i \in 1..Len(uart) /\ uart[i].k = "data" /\ \A j \in 1..i-1 : uart[j].k # "data"
        BY <2>3, <3>2 DEF FirstOf
      <4>2. i \in 1..Len(uart) + 1 /\ \A j \in 1..i-1 : j \in 1..Len(uart)
        BY <2>2, <4>1
      <4> QED
        BY <2>2, <2>3, <4>1, <4>2 DEF FirstOf
    <3> QED
      BY <3>1, <3>2
  <2>5. FirstOf(uart, "data")' = FirstOf(uart, "data")
    BY <2>4
  <2>6. CASE At(t, "read") /\ FirstOf(uart, "data") # {}
    <3>1. PICK i : i = CHOOSE j \in FirstOf(uart, "data") : TRUE
      OBVIOUS
    <3>2. i \in FirstOf(uart, "data")
      BY <2>6, <3>1
    <3>3. uart'[i] = uart[i]
      BY <2>2, <2>3, <3>2 DEF FirstOf
    <3>4. Coming(t) = uart[i].bytes
      BY <2>6, <3>1 DEF Coming
    <3>5. Coming(t)' = uart'[i].bytes
      BY <2>5, <2>6, <3>1 DEF Coming, At
    <3> QED
      BY <3>3, <3>4, <3>5
  <2>7. CASE ~(At(t, "read") /\ FirstOf(uart, "data") # {})
    BY <2>5, <2>7 DEF Coming, At
  <2> QED
    BY <2>6, <2>7
<1> QED
  BY <1>1, <1>2

\* Nothing that concerns the task has changed.
LEMMA SoundKept ==
  ASSUME NEW u \in Tasks, Sound(u), task'[u] = task[u],
         Owning(u) => /\ sock'[task[u].fd].used = sock[task[u].fd].used
                      /\ sock'[task[u].fd].ring = sock[task[u].fd].ring
                      /\ conn'[task[u].fd] = conn[task[u].fd],
         Serving(u) /\ sock'[task[u].fd].closed => conn[task[u].fd].state = "lost",
         Coming(u)' = Coming(u),
         Unasked(u)' => Unasked(u) /\ Owning(u)
  PROVE  Sound(u)'
<1>1. At(u, "close")' = At(u, "close") /\ Owning(u)' = Owning(u) /\ Serving(u)' = Serving(u)
  BY DEF At, Owning, Serving
<1>2. CASE ~Owning(u)
  BY <1>1, <1>2 DEF Sound, Serving
<1>3. CASE Owning(u)
  <2>1. OnTheWay(u)' = OnTheWay(u)
    BY <1>3 DEF OnTheWay
  <2>2. Numbered(u)' = Numbered(u)
    BY <1>3, <2>1 DEF Numbered
  <2> QED
    BY <1>1, <1>3, <2>2 DEF Sound
<1> QED
  BY <1>2, <1>3

LEMMA UnaskedOwns == \A t \in Tasks : Unasked(t) => Owning(t)
BY DEF Unasked, Owning, At

\* A task that leaves the mutex alone.
LEMMA OutsideKept ==
  ASSUME AtTyped, InTime, NEW t \in Tasks, task[t].pc \in {"named", "fresh", "up"},
         NEW x, x.pc # "read", task' = [task EXCEPT ![t] = x],
         UNCHANGED <<holder, cmds, uart, conn>>,
         \A u \in Tasks \ {t} : Owning(u) => sock'[task[u].fd] = sock[task[u].fd]
  PROVE  /\ Aligned' /\ holder # t /\ \A u \in Tasks \ {t} : Sound(u)'
         /\ holder # None => holder \in Tasks /\ task'[holder] = task[holder]
<1>1. holder # t
  BY AtSocketAssumption DEF InTime, Aligned, Commanding, Kinds
<1>2. \A u \in Tasks \ {t} : task'[u] = task[u]
  BY DEF AtTyped
<1>3. holder # None => holder \in Tasks /\ task'[holder] = task[holder]
  BY <1>1, <1>2 DEF AtTyped
<1>4. ASSUME NEW u \in Tasks \ {t} PROVE Sound(u)'
  <2>1. Sound(u) /\ Coming(u)' = Coming(u)
    BY <1>2, ComingKept DEF InTime
  <2>2. Unasked(u)' => Unasked(u)
    BY <1>2 DEF Unasked, At
  <2>3. Serving(u) => Owning(u)
    BY DEF Serving
  <2>4. Serving(u) /\ sock'[task[u].fd].closed => conn[task[u].fd].state = "lost"
    BY <2>1, <2>3 DEF Sound
  <2> QED
    BY <1>2, <2>1, <2>2, <2>4, UnaskedOwns, SoundKept
<1>5. ASSUME holder # None PROVE Commanding(holder)'
  <2>1. Commanding(holder) /\ holder \in Tasks \ {t} /\ task'[holder] = task[holder]
    BY <1>1, <1>3, <1>5 DEF InTime, Aligned
  <2>2. At(holder, "read")' = At(holder, "read")
    BY <2>1 DEF At
  <2>3. At(holder, "read") => Space(task[holder].fd)' = Space(task[holder].fd)
    BY <2>1 DEF At, Owning, Space
  <2> QED
    BY <2>1, <2>2, <2>3 DEF Commanding
<1>6. ASSUME NEW u \in Tasks, At(u, "read")' PROVE holder' = u
  <2>1. u # t
    BY <1>6 DEF At, AtTyped
  <2> QED
    BY <1>2, <1>6, <2>1 DEF At, InTime, Aligned
<1> QED
  BY <1>1, <1>3, <1>4, <1>5, <1>6 DEF InTime, Aligned

\* The same for what sets the slots apart, when no slot changes hands.
LEMMA OutsideApart ==
  ASSUME AtTyped, InTime, UNCHANGED <<holder, cmds, uart, conn>>,
         holder # None => holder \in Tasks /\ task'[holder] = task[holder],
         \A u \in Tasks : Owning(u)' => Owning(u) /\ task'[u].fd = task[u].fd,
         \A l \in Links : sock'[l].used = sock[l].used
  PROVE  Apart'
<1>1. \A u, v \in Tasks : (Owning(u) /\ Owning(v) /\ task[u].fd = task[v].fd)' => u = v
  BY DEF InTime, Apart
<1>2. \A l \in Links : (~sock[l].used)' => conn'[l] = Closed
  BY DEF InTime, Apart
<1>3. ASSUME NEW l \in Links, conn'[l].state = "opening"
      PROVE  /\ holder # None /\ At(holder, "open")' /\ task'[holder].fd = l /\ cmds' = <<>>
             /\ \A i \in DOMAIN uart : uart[i].k \notin {"cipopen", "error"}
  BY <1>3 DEF InTime, Apart, At
<1>4. ASSUME NEW i \in DOMAIN uart, uart[i].k = "ipclose"
      PROVE  \/ conn[uart[i].l].state = "lost"
             \/ At(holder, "close")' /\ task'[holder].fd = uart[i].l
  <2>1. holder # None
    BY DEF InTime, Aligned, AtTyped
  <2> QED
    BY <1>4, <2>1 DEF InTime, Apart, At
<1> QED
  BY <1>1, <1>2, <1>3, <1>4 DEF Apart

\* Connect, send, close, end of file and poll: the task goes on to another place.
LEMMA GoesInTime ==
  ASSUME AtTyped, InTime, NEW t \in Tasks,
         Connect(t) \/ Send(t) \/ Close(t) \/ Eof(t) \/ Poll(t)
  PROVE  InTime'
<1>1. PICK p \in {"open", "udp", "send", "close", "query"} :
        Goes(t, p) /\ (p \in {"open", "udp"} => At(t, "fresh"))
  BY DEF Connect, Send, Close, Eof, Poll
<1>2. UNCHANGED <<holder, cmds, uart, conn>> /\ task[t].pc \in {"fresh", "up"}
  BY DEF Connect, Send, Close, Eof, Poll, At
<1>3. PICK x : x = [task[t] EXCEPT !.pc = p]
  OBVIOUS
<1>4. task' = [task EXCEPT ![t] = x] /\ x.pc = p /\ x.fd = task[t].fd /\ x.got = task[t].got
  BY <1>1, <1>3, TaskIs DEF Goes, Users
<1>5. \A l \in Links : sock'[l].used = sock[l].used /\ sock'[l].ring = sock[l].ring
                       /\ sock'[l].closed = sock[l].closed
  <2>1. CASE sock' = sock
    BY <2>1
  <2>2. CASE sock' # sock
    <3>1. sock' = [sock EXCEPT ![task[t].fd].ok = FALSE]
      BY <2>2 DEF Connect, Send, Close, Eof, Poll
    <3>2. \A l \in Links : sock[l] \in Socks
      BY DEF AtTyped
    <3> QED
      BY <3>1, <3>2 DEF AtTyped, Socks
  <2> QED
    BY <2>1, <2>2
<1>6. \A u \in Tasks \ {t} : Owning(u) => sock'[task[u].fd] = sock[task[u].fd]
  <2> SUFFICES ASSUME NEW u \in Tasks \ {t}, Owning(u) PROVE sock'[task[u].fd] = sock[task[u].fd]
    OBVIOUS
  <2>1. task[u].fd # task[t].fd
    BY <1>2 DEF InTime, Apart, Owning
  <2>2. sock' = sock \/ sock' = [sock EXCEPT ![task[t].fd].ok = FALSE]
    BY DEF Connect, Send, Close, Eof, Poll
  <2> QED
    BY <2>1, <2>2, TaskIs DEF AtTyped
<1>7. /\ Aligned' /\ holder # t /\ \A u \in Tasks \ {t} : Sound(u)'
      /\ holder # None => holder \in Tasks /\ task'[holder] = task[holder]
  BY <1>2, <1>4, <1>6, OutsideKept
<1>8. task'[t] = x /\ \A u \in Tasks \ {t} : task'[u] = task[u]
  BY <1>4 DEF AtTyped
<1>9. Apart'
  <2>1. \A u \in Tasks : Owning(u)' => Owning(u) /\ task'[u].fd = task[u].fd
    BY <1>2, <1>4, <1>8 DEF Owning
  <2> QED
    BY <1>2, <1>5, <1>7, <2>1, OutsideApart
<1>10. Sound(t)'
  <2>1. Sound(t) /\ Owning(t) /\ Serving(t) /\ Owning(t)'
    BY <1>2, <1>4, <1>8 DEF InTime, Owning, Serving, At
  <2>2. Coming(t) = <<>> /\ Coming(t)' = <<>>
    <3>1. ~At(t, "read") /\ ~At(t, "read")'
      BY <1>2, <1>4, <1>8 DEF At
    <3> QED
      BY <3>1 DEF Coming
  <2>3. PICK l \in Links : l = task[t].fd
    BY TaskIs
  <2>4. OnTheWay(t)' = OnTheWay(t) /\ Numbered(t)' = Numbered(t)
    <3>1. task'[t].fd = l /\ task'[t].got = task[t].got /\ sock'[l].ring = sock[l].ring
      BY <1>4, <1>5, <1>8, <2>3
    <3>2. OnTheWay(t)' = OnTheWay(t)
      BY <1>2, <2>2, <2>3, <3>1 DEF OnTheWay
    <3> QED
      BY <1>2, <2>3, <3>1, <3>2 DEF Numbered
  <2>5. Unasked(t)' => conn[l] = Closed
    <3>1. Unasked(t)' => At(t, "fresh")
      BY <1>1, <1>2, <1>4, <1>7, <1>8 DEF Unasked, At
    <3> QED
      BY <2>1, <2>3, <3>1 DEF Sound, Unasked
  <2> QED
    BY <1>2, <1>4, <1>5, <1>8, <2>1, <2>3, <2>4, <2>5 DEF Sound
<1> QED
  BY <1>7, <1>9, <1>10 DEF InTime

\* An empty ring before an empty link.
LEMMA EmptyNumbered == <<>> \o <<>> \o <<>> = Up(0, 0)
<1>1. <<>> \o <<>> \o <<>> = <<>>
  OBVIOUS
<1>2. Up(0, 0) = <<>>
  BY DEF Up
<1> QED
  BY <1>1, <1>2

\* A number sequence is that one by one.
LEMMA UpIs ==
  ASSUME NEW S, NEW q \in Seq(S), NEW a \in Nat, NEW b \in Nat, a <= b
  PROVE  q = Up(a, b)
           <=> Len(q) = b - a /\ \A i \in 1..Len(q) : q[i] = a + i
<1>1. DOMAIN q = 1..Len(q) /\ Len(q) \in Nat
  OBVIOUS
<1>2. ASSUME q = Up(a, b)
      PROVE  Len(q) = b - a /\ \A i \in 1..Len(q) : q[i] = a + i
  <2>1. b - a \in Nat /\ DOMAIN q = 1..(b - a)
    BY <1>2 DEF Up
  <2>2. Len(q) = b - a
    BY <1>1, <2>1
  <2> QED
    BY <1>2, <2>2 DEF Up
<1>3. ASSUME Len(q) = b - a, \A i \in 1..Len(q) : q[i] = a + i
      PROVE  q = Up(a, b)
  BY <1>1, <1>3 DEF Up
<1> QED
  BY <1>2, <1>3

\* Under names of their own, for the provers.
Join(a, b) == a \o b
Rest(q, n) == SubSeq(q, n + 1, Len(q))

\* How long they are, and which number stands where.
LEMMA UpLen ==
  ASSUME NEW a \in Nat, NEW b \in Nat, a <= b
  PROVE  /\ DOMAIN Up(a, b) = 1..(b - a) /\ Len(Up(a, b)) = b - a
         /\ \A i \in 1..(b - a) : Up(a, b)[i] = a + i
<1>1. b - a \in Nat
  OBVIOUS
<1>2. Up(a, b) \in Seq(Nat)
  BY <1>1 DEF Up
<1> QED
  BY <1>1, <1>2 DEF Up

\* Taking n elements off the front of it.
LEMMA Shift ==
  ASSUME NEW S, NEW b \in Seq(S), NEW h \in Seq(S), NEW g \in Nat, NEW s \in Nat, g <= s,
         Join(b, h) = Up(g, s), NEW n \in 1..Len(b)
  PROVE  /\ b[n] = g + n /\ g + n <= s
         /\ Join(Rest(b, n), h) = Up(g + n, s)
<1>1. Len(b) \in Nat /\ Len(h) \in Nat /\ n \in 0..Len(b)
  OBVIOUS
<1>2. /\ b \o h \in Seq(S) /\ Len(b \o h) = Len(b) + Len(h)
      /\ \A i \in 1..Len(b) + Len(h) : (b \o h)[i] = IF i <= Len(b) THEN b[i] ELSE h[i - Len(b)]
  BY ConcatProperties
<1>2q. PICK q \in Seq(S) : q = b \o h
  BY <1>2
<1>2v. /\ Len(q) = Len(b) + Len(h)
      /\ \A i \in 1..Len(q) : q[i] = IF i <= Len(b) THEN b[i] ELSE h[i - Len(b)]
  BY <1>2, <1>2q
<1>3. Len(q) = s - g /\ \A i \in 1..Len(q) : q[i] = g + i
  <2>1. q = Up(g, s) => Len(q) = s - g /\ \A i \in 1..Len(q) : q[i] = g + i
    BY ONLY q \in Seq(S), g \in Nat, s \in Nat, g <= s, UpIs
  <2> QED
    BY <1>2q, <2>1 DEF Join
<1>4. b[n] = g + n /\ g + n <= s
  <2>1. n \in 1..Len(q) /\ n <= Len(b)
    BY <1>1, <1>2v
  <2>2. q[n] = b[n]
    BY <1>2v, <2>1
  <2> QED
    BY <1>1, <1>2v, <1>3, <2>1, <2>2
<1>5a. /\ SubSeq(b, n + 1, Len(b)) \in Seq(S) /\ Len(SubSeq(b, n + 1, Len(b))) = Len(b) - n
       /\ \A i \in 1..Len(b) - n : SubSeq(b, n + 1, Len(b))[i] = b[n + i]
  BY <1>1, SubSeqProperties
<1>5b. PICK c \in Seq(S) : c = SubSeq(b, n + 1, Len(b))
  BY <1>5a
<1>5. Len(c) = Len(b) - n /\ (\A i \in 1..Len(b) - n : c[i] = b[n + i]) /\ Len(c) \in Nat
  BY <1>1, <1>5a, <1>5b, SMTT(30)
<1>6a. /\ c \o h \in Seq(S) /\ Len(c \o h) = Len(c) + Len(h)
       /\ \A i \in 1..Len(c) + Len(h) : (c \o h)[i] = IF i <= Len(c) THEN c[i] ELSE h[i - Len(c)]
  BY ConcatProperties
<1>6b. PICK r \in Seq(S) : r = c \o h
  BY <1>6a
<1>6. Len(r) = Len(c) + Len(h) /\ Len(r) \in Nat
      /\ \A i \in 1..Len(r) : r[i] = IF i <= Len(c) THEN c[i] ELSE h[i - Len(c)]
  BY <1>6a, <1>6b, <1>1, <1>5, SMTT(30)
<1>7. Len(r) = s - (g + n)
  <2>1. Len(r) = (Len(b) - n) + Len(h) /\ Len(b) + Len(h) = s - g
    BY <1>3, <1>5, <1>6, <1>2v
  <2> QED
    BY <1>1, <2>1
<1>8. ASSUME NEW i \in 1..Len(r) PROVE r[i] = (g + n) + i
  <2>1. n + i \in 1..Len(q) /\ Len(r) \in Nat /\ i \in Nat
    BY <1>1, <1>2v, <1>5, <1>6
  <2>2. q[n + i] = g + (n + i)
    BY <1>3, <2>1
  <2>3. CASE i <= Len(c)
    <3>1. i \in 1..Len(b) - n /\ n + i <= Len(b)
      BY <1>1, <1>5, <2>1, <2>3
    <3>2. r[i] = b[n + i] /\ q[n + i] = b[n + i]
      BY <1>2v, <1>5, <1>6, <2>1, <2>3, <3>1
    <3>3. g + (n + i) = (g + n) + i
      BY <1>1, <2>1
    <3> QED
      BY <2>2, <3>2, <3>3
  <2>4. CASE i > Len(c)
    <3>1. ~(n + i <= Len(b)) /\ ~(i <= Len(c)) /\ (n + i) - Len(b) = i - Len(c)
      BY <1>1, <1>5, <2>1, <2>4
    <3>2. r[i] = h[i - Len(c)] /\ q[n + i] = h[(n + i) - Len(b)]
      BY <1>2v, <1>6, <2>1, <3>1
    <3>3. g + (n + i) = (g + n) + i
      BY <1>1, <2>1
    <3> QED
      BY <2>2, <3>1, <3>2, <3>3
  <2>5. Len(c) \in Nat
    BY <1>5
  <2> QED
    BY <2>1, <2>3, <2>4, <2>5
<1>9. g + n \in Nat /\ g + n <= s
  BY <1>1, <1>4
<1>10. r = Up(g + n, s)
  <2>1. PICK a \in Nat : a = g + n
    BY <1>9
  <2>2. Len(r) = s - a /\ \A i \in 1..Len(r) : r[i] = a + i
    BY <1>7, <1>8, <2>1
  <2>3. a <= s
    BY <1>9, <2>1
  <2>4. r = Up(a, s)
    BY ONLY r \in Seq(S), a \in Nat, s \in Nat, <2>2, <2>3, UpIs
  <2> QED
    BY <2>1, <2>4
<1> QED
  BY <1>4, <1>5b, <1>6b, <1>10 DEF Join, Rest

\* A new socket gets a slot that nobody has, and whose link is closed.
LEMMA SocketInTime ==
  ASSUME AtTyped, InTime, NEW t \in Tasks, Socket(t)
  PROVE  InTime'
<1>1. PICK m \in Links, ty \in Types(t), x \in Users :
        /\ Slot(m) /\ Claim(m)
        /\ x = [task[t] EXCEPT !.pc = "fresh", !.fd = m, !.type = ty]
        /\ task' = [task EXCEPT ![t] = x]
  <2>1. \A m \in Links, ty \in Types(t) :
          [task[t] EXCEPT !.pc = "fresh", !.fd = m, !.type = ty] \in Users
    BY TaskIs DEF Users, Types
  <2> QED
    BY <2>1 DEF Socket
<1>2. UNCHANGED <<holder, cmds, uart, conn>> /\ task[t].pc = "named"
  BY DEF Socket, At
<1>3. x.pc = "fresh" /\ x.fd = m /\ x.got = task[t].got /\ x.type = ty
  BY <1>1, TaskIs DEF Users
<1>4. ~Owning(t) /\ task[t].got = 0
  BY <1>2 DEF Owning, InTime, Sound
<1>5. /\ sock'[m] = [Blank EXCEPT !.used = TRUE]
      /\ \A l \in Links \ {m} : sock'[l] = sock[l]
  BY <1>1 DEF Claim, AtTyped
<1>6. sock'[m].used /\ ~sock'[m].closed /\ sock'[m].ring = <<>>
  BY <1>5 DEF Blank
<1>7. ~sock[m].used /\ conn[m] = Closed
  BY <1>1 DEF Slot, InTime, Apart
<1>8. \A u \in Tasks : Owning(u) => task[u].fd # m /\ task[u].fd \in Links
  BY <1>7, TaskIs DEF InTime, Sound
<1>9. \A u \in Tasks \ {t} : Owning(u) => sock'[task[u].fd] = sock[task[u].fd]
  BY <1>5, <1>8
<1>10. /\ Aligned' /\ holder # t /\ \A u \in Tasks \ {t} : Sound(u)'
       /\ holder # None => holder \in Tasks /\ task'[holder] = task[holder]
  BY <1>1, <1>2, <1>3, <1>9, OutsideKept
<1>11. task'[t] = x /\ \A u \in Tasks \ {t} : task'[u] = task[u]
  BY <1>1 DEF AtTyped
<1>12. Apart'
  <2>1. \A u \in Tasks \ {t} : Owning(u)' = Owning(u)
    BY <1>11 DEF Owning
  <2>2. ASSUME NEW u \in Tasks, NEW v \in Tasks,
               (Owning(u) /\ Owning(v) /\ task[u].fd = task[v].fd)'
        PROVE  u = v
    <3>1. CASE u = t \/ v = t
      BY <1>3, <1>8, <1>11, <2>1, <2>2, <3>1
    <3>2. CASE u # t /\ v # t
      BY <1>11, <2>1, <2>2, <3>2 DEF InTime, Apart
    <3> QED
      BY <3>1, <3>2
  <2>3. \A l \in Links : ~sock'[l].used => conn'[l] = Closed
    BY <1>2, <1>5, <1>6 DEF InTime, Apart
  <2>4. ASSUME NEW l \in Links, conn'[l].state = "opening"
        PROVE  /\ holder # None /\ At(holder, "open")' /\ task'[holder].fd = l /\ cmds' = <<>>
               /\ \A i \in DOMAIN uart : uart[i].k \notin {"cipopen", "error"}
    BY <1>2, <1>10, <2>4 DEF InTime, Apart, At
  <2>5. ASSUME NEW i \in DOMAIN uart, uart[i].k = "ipclose"
        PROVE  \/ conn[uart[i].l].state = "lost"
               \/ At(holder, "close")' /\ task'[holder].fd = uart[i].l
    <3>1. holder # None /\ task'[holder] = task[holder]
      BY <1>10, <2>5 DEF InTime, Aligned, AtTyped
    <3>2. \/ conn[uart[i].l].state = "lost"
          \/ At(holder, "close") /\ task[holder].fd = uart[i].l
      BY <2>5 DEF InTime, Apart
    <3> QED
      BY <1>2, <3>1, <3>2 DEF At
  <2> QED
    BY <1>2, <2>2, <2>3, <2>4, <2>5 DEF Apart
<1>13. Sound(t)'
  <2>1. Coming(t)' = <<>>
    BY <1>3, <1>11 DEF Coming, At
  <2>2. Closed.sent = 0 /\ Closed.held = <<>>
    BY DEF Closed
  <2>3. Numbered(t)'
    <3>1. task'[t].fd = m /\ task'[t].got = 0 /\ conn'[m].sent = 0 /\ conn'[m].held = <<>>
      BY <1>2, <1>3, <1>4, <1>7, <1>11, <2>2
    <3>2. OnTheWay(t)' = <<>> \o <<>> \o <<>>
      BY <1>6, <2>1, <3>1 DEF OnTheWay
    <3> QED
      BY <3>1, <3>2, EmptyNumbered DEF Numbered
  <2>4. Owning(t)' /\ task'[t].fd = m /\ conn'[m] = Closed
    BY <1>2, <1>3, <1>7, <1>11 DEF Owning
  <2> QED
    BY <1>6, <2>3, <2>4 DEF Sound
<1> QED
  BY <1>10, <1>12, <1>13 DEF InTime

\* ml_at_recv hands out the front of the ring.
LEMMA DeliverInTime ==
  ASSUME AtTyped, InTime, NEW t \in Tasks, Deliver(t)
  PROVE  InTime'
<1>0. PICK l \in Links : l = task[t].fd
  BY TaskIs
<1>1. PICK b \in Seq(1..MaxBytes), h \in Seq(1..MaxBytes), s \in Nat, g \in Nat :
        b = sock[l].ring /\ h = conn[l].held /\ s = conn[l].sent /\ g = task[t].got
  <2>1. sock[l].ring \in Seq(1..MaxBytes) /\ conn[l].held \in Seq(1..MaxBytes)
    BY SockTyped
  <2>2. conn[l].sent \in Nat /\ task[t].got \in Nat
    BY SockTyped, TaskIs, AtSocketAssumption
  <2> QED
    BY <2>1, <2>2
<1>2. PICK n \in DOMAIN b :
        /\ task' = [task EXCEPT ![t].got = b[n]]
        /\ sock' = [sock EXCEPT ![l].ring = SubSeq(b, n + 1, Len(b))]
  BY <1>0, <1>1 DEF Deliver
<1>3. UNCHANGED <<holder, cmds, uart, conn>> /\ task[t].pc = "up"
  BY DEF Deliver, At
<1>4. PICK x : x = [task[t] EXCEPT !.got = b[n]]
  OBVIOUS
<1>5. task' = [task EXCEPT ![t] = x] /\ x.pc = "up" /\ x.fd = l /\ x.got = b[n]
  BY <1>0, <1>2, <1>3, <1>4, TaskIs DEF Users
<1>6. /\ \A m \in Links \ {l} : sock'[m] = sock[m]
      /\ sock'[l].used = sock[l].used /\ sock'[l].closed = sock[l].closed
      /\ sock'[l].ring = SubSeq(b, n + 1, Len(b))
  BY <1>2 DEF AtTyped, Socks
<1>7. \A u \in Tasks \ {t} : Owning(u) => sock'[task[u].fd] = sock[task[u].fd]
  <2> SUFFICES ASSUME NEW u \in Tasks \ {t}, Owning(u) PROVE sock'[task[u].fd] = sock[task[u].fd]
    OBVIOUS
  <2>1. task[u].fd # l /\ task[u].fd \in Links
    BY <1>0, <1>3, TaskIs DEF InTime, Apart, Owning
  <2> QED
    BY <1>6, <2>1
<1>8. /\ Aligned' /\ holder # t /\ \A u \in Tasks \ {t} : Sound(u)'
      /\ holder # None => holder \in Tasks /\ task'[holder] = task[holder]
  BY <1>3, <1>5, <1>7, OutsideKept
<1>9. task'[t] = x /\ \A u \in Tasks \ {t} : task'[u] = task[u]
  BY <1>5 DEF AtTyped
<1>10. Apart'
  <2>1. \A u \in Tasks : Owning(u)' => Owning(u) /\ task'[u].fd = task[u].fd
    BY <1>0, <1>3, <1>5, <1>9 DEF Owning
  <2>2. \A m \in Links : sock'[m].used = sock[m].used
    BY <1>6
  <2> QED
    BY <1>3, <1>8, <2>1, <2>2, OutsideApart
<1>11. Sound(t)'
  <2>1. Sound(t) /\ Owning(t) /\ Serving(t) /\ Owning(t)' /\ Serving(t)' /\ ~Unasked(t)'
    BY <1>3, <1>5, <1>9 DEF InTime, Owning, Serving, At, Unasked
  <2>2. Coming(t) = <<>> /\ Coming(t)' = <<>>
    BY <1>3, <1>5, <1>9 DEF Coming, At
  <2>3. b \o <<>> = b
    BY ConcatEmptySeq
  <2>4. g <= s /\ Join(b, h) = Up(g, s)
    BY <1>0, <1>1, <2>1, <2>2, <2>3 DEF Sound, Numbered, OnTheWay, Join
  <2>5. n \in 1..Len(b)
    BY <1>1
  <2>6. PICK c \in Seq(1..MaxBytes) : c = SubSeq(b, n + 1, Len(b))
    <3>1. n \in 0..Len(b)
      BY <2>5
    <3> QED
      BY <3>1, Split
  <2>7. b[n] = g + n /\ g + n <= s /\ c \o h = Up(g + n, s)
    <3>1. b[n] = g + n /\ g + n <= s /\ Join(Rest(b, n), h) = Up(g + n, s)
      BY <2>4, <2>5, Shift
    <3> QED
      BY <2>6, <3>1 DEF Join, Rest
  <2>8. c \o <<>> = c
    BY <2>6, ConcatEmptySeq
  <2>9. task'[t].fd = l /\ task'[t].got = g + n /\ conn'[l].sent = s /\ conn'[l].held = h
        /\ sock'[l].ring = c
    BY <1>1, <1>3, <1>5, <1>6, <1>9, <2>6, <2>7
  <2>10. OnTheWay(t)' = c \o h
    BY <2>2, <2>8, <2>9 DEF OnTheWay
  <2>11. Numbered(t)'
    BY <2>7, <2>9, <2>10 DEF Numbered
  <2> QED
    BY <1>0, <1>3, <1>6, <2>1, <2>9, <2>11 DEF Sound
<1> QED
  BY <1>8, <1>10, <1>11 DEF InTime
-----------------------------------------------------------------------------
(* While no answer was late: a task that has read its answer gives the mutex   *)
(* back.                                                                       *)

\* What tells a task that its connection is closed is about its connection.
Heard(l) == \E i \in DOMAIN uart : uart[i].k = "ipclose" /\ uart[i].l = l

LEMMA HeardIs ==
  ASSUME AtTyped, InTime, NEW u \in Tasks, Serving(u), Heard(task[u].fd)
  PROVE  conn[task[u].fd].state = "lost"
<1>1. PICK i \in DOMAIN uart : uart[i].k = "ipclose" /\ uart[i].l = task[u].fd
  BY DEF Heard
<1>2. holder \in Tasks
  BY <1>1 DEF InTime, Aligned, AtTyped
<1>3. \/ conn[uart[i].l].state = "lost"
      \/ At(holder, "close") /\ task[holder].fd = uart[i].l
  BY <1>1 DEF InTime, Apart
<1>4. CASE At(holder, "close") /\ task[holder].fd = uart[i].l
  <2>1. Owning(holder) /\ Owning(u)
    BY <1>4 DEF Owning, Serving, At
  <2>2. holder = u
    BY <1>1, <1>2, <1>4, <2>1 DEF InTime, Apart
  <2> QED
    BY <1>4, <2>2 DEF Serving
<1> QED
  BY <1>1, <1>3, <1>4

\* A command that was answered is executed.
LEMMA Executed ==
  ASSUME AtTyped, InTime, NEW t \in Tasks, holder = t,
         NEW i \in DOMAIN uart, uart[i].k \in Answers \cup {"cipopen"},
         At(t, "open") => uart[i].k \in {"cipopen", "error"}
  PROVE  cmds = <<>> /\ \A l \in Links : conn[l].state # "opening"
<1>1. Commanding(t)
  BY AtSocketAssumption DEF InTime, Aligned
<1>2. cmds = <<>>
  BY <1>1 DEF Commanding
<1>3. ASSUME NEW l \in Links, conn[l].state = "opening" PROVE FALSE
  BY <1>3 DEF InTime, Apart
<1> QED
  BY <1>2, <1>3

LEMMA ReleaseKeeps ==
  ASSUME AtTyped, InTime, NEW t \in Tasks, holder = t, cmds = <<>>,
         \A l \in Links : conn[l].state # "opening",
         Release, UNCHANGED <<cmds, conn>>,
         NEW x, task' = [task EXCEPT ![t] = x], x.pc # "read",
         Owning(t)' => Owning(t) /\ x.fd = task[t].fd,
         \A l \in Links : ~sock'[l].used => conn[l] = Closed,
         \A l \in Links : (Owning(t) => l # task[t].fd) =>
           /\ sock'[l].used = sock[l].used /\ sock'[l].ring = sock[l].ring
           /\ sock'[l].closed => sock[l].closed \/ Heard(l)
  PROVE  Aligned' /\ Apart' /\ \A u \in Tasks \ {t} : Sound(u)'
<1>1. holder' = None /\ uart' = <<>> /\ cmds' = <<>> /\ conn' = conn
  BY DEF Release
<1>2. task'[t] = x /\ \A u \in Tasks \ {t} : task'[u] = task[u]
  BY DEF AtTyped
<1>3. \A u \in Tasks \ {t} : ~At(u, "read") /\ u # None /\ holder # u
  BY AtSocketAssumption DEF InTime, Aligned
<1>4. Aligned'
  <2>1. \A u \in Tasks : ~At(u, "read")'
    BY <1>2, <1>3 DEF At
  <2> QED
    BY <1>1, <2>1 DEF Aligned
<1>5. \A u \in Tasks : Owning(u)' => Owning(u) /\ task'[u].fd = task[u].fd
  BY <1>2 DEF Owning
<1>6. Apart'
  <2>1. \A u, v \in Tasks : (Owning(u) /\ Owning(v) /\ task[u].fd = task[v].fd)' => u = v
    BY <1>5 DEF InTime, Apart
  <2>2. DOMAIN uart' = {}
    BY <1>1
  <2> QED
    BY <1>1, <2>1, <2>2 DEF Apart
<1>7. ASSUME NEW u \in Tasks \ {t} PROVE Sound(u)'
  <2>1. Sound(u) /\ task'[u] = task[u] /\ task[u].fd \in Links
    BY <1>2, TaskIs DEF InTime
  <2>2. Coming(u)' = Coming(u)
    BY <1>2, <1>3 DEF Coming, At
  <2>3. Unasked(u)' => Unasked(u)
    BY <1>1, <1>3, <2>1 DEF Unasked, At
  <2>4. Owning(u) => (Owning(t) => task[u].fd # task[t].fd)
    BY DEF InTime, Apart
  <2>5. Serving(u) => Owning(u)
    BY DEF Serving
  <2>6. Serving(u) /\ sock'[task[u].fd].closed => conn[task[u].fd].state = "lost"
    BY <2>1, <2>4, <2>5, HeardIs DEF Sound
  <2> QED
    BY <1>1, <2>1, <2>2, <2>3, <2>4, <2>6, UnaskedOwns, SoundKept
<1> QED
  BY <1>4, <1>6, <1>7

\* Its own socket, when it goes on with it.
LEMMA AnsweredSound ==
  ASSUME AtTyped, InTime, NEW t \in Tasks, Serving(t), ~At(t, "read"),
         NEW x, task' = [task EXCEPT ![t] = x], x.pc # "read",
         x.fd = task[t].fd, x.got = task[t].got, conn' = conn, Owning(t)', ~Unasked(t)',
         sock'[task[t].fd].used = sock[task[t].fd].used,
         sock'[task[t].fd].ring = sock[task[t].fd].ring,
         sock'[task[t].fd].closed => sock[task[t].fd].closed \/ Heard(task[t].fd)
  PROVE  Sound(t)'
<1>1. task'[t] = x
  BY DEF AtTyped
<1>2. Sound(t) /\ Owning(t)
  BY DEF InTime, Serving
<1>3. Coming(t) = <<>> /\ Coming(t)' = <<>>
  BY <1>1 DEF Coming, At
<1>4. OnTheWay(t)' = OnTheWay(t)
  BY <1>1, <1>3 DEF OnTheWay
<1>5. Numbered(t)' = Numbered(t)
  BY <1>1, <1>4 DEF Numbered
<1>6. sock'[task[t].fd].closed => conn[task[t].fd].state = "lost"
  BY <1>2, HeardIs DEF Sound
<1> QED
  BY <1>1, <1>2, <1>5, <1>6 DEF Sound

\* What was read is in the receive queue.
LEMMA ReadHeard ==
  ASSUME AtTyped, NEW kinds, NEW r \in Reads(kinds)
  PROVE  /\ r \in Seq(Urcs) /\ \E i \in DOMAIN uart : uart[i].k \in kinds
         /\ \A l \in Links : /\ Dispatch(r)[l].used = sock[l].used
                             /\ Dispatch(r)[l].ring = sock[l].ring
                             /\ Dispatch(r)[l].closed => sock[l].closed \/ Heard(l)
<1>1. /\ r \in Seq(Urcs) /\ \A i \in DOMAIN r : i \in DOMAIN uart /\ r[i] = uart[i]
      /\ \E i \in DOMAIN r : r[i].k \in kinds
  BY ReadsIs DEF AtTyped
<1>2. \E i \in DOMAIN uart : uart[i].k \in kinds
  BY <1>1
<1>3. ASSUME NEW l \in Links, Dispatch(r)[l].closed PROVE sock[l].closed \/ Heard(l)
  <2>1. sock[l].closed \/ \E i \in DOMAIN r : r[i].k = "ipclose" /\ r[i].l = l
    BY <1>1, <1>3, DispatchIs
  <2> QED
    BY <1>1, <2>1 DEF Heard
<1> QED
  BY <1>1, <1>2, <1>3, DispatchIs

\* A step that keeps the slots' use and rings, and goes on to another place.
LEMMA GoesOn ==
  ASSUME AtTyped, InTime, NEW t \in Tasks, holder = t, Serving(t), ~At(t, "read"),
         cmds = <<>>, \A l \in Links : conn[l].state # "opening",
         Release, UNCHANGED <<cmds, conn>>,
         NEW p, Goes(t, p), p \in {"up", "send", "close"},
         \A l \in Links : /\ sock'[l].used = sock[l].used /\ sock'[l].ring = sock[l].ring
                          /\ sock'[l].closed => sock[l].closed \/ Heard(l)
  PROVE  InTime'
<1>1. PICK x : x = [task[t] EXCEPT !.pc = p]
  OBVIOUS
<1>2. task' = [task EXCEPT ![t] = x] /\ x.pc = p /\ x.fd = task[t].fd /\ x.got = task[t].got
  BY <1>1, TaskIs DEF Goes, Users
<1>3. task'[t] = x /\ task[t].fd \in Links /\ holder' = None /\ conn' = conn
  BY <1>2, TaskIs DEF AtTyped, Release
<1>4. Owning(t) /\ Owning(t)' /\ ~Unasked(t)'
  BY <1>2, <1>3, AtSocketAssumption DEF Owning, Serving, Unasked, At
<1>5. Aligned' /\ Apart' /\ \A u \in Tasks \ {t} : Sound(u)'
  <2>1. \A l \in Links : ~sock'[l].used => conn[l] = Closed
    BY DEF InTime, Apart
  <2>2. x.pc # "read"
    BY <1>2
  <2> QED
    BY <1>2, <1>4, <2>1, <2>2, ReleaseKeeps
<1>6. Sound(t)'
  BY <1>2, <1>3, <1>4, AnsweredSound
<1> QED
  BY <1>5, <1>6 DEF InTime

LEMMA OpenedInTime ==
  ASSUME AtTyped, InTime, NEW t \in Tasks, Opened(t)
  PROVE  InTime'
<1>0. PICK l \in Links : l = task[t].fd
  BY TaskIs
<1>1. PICK r \in Reads({"cipopen", "error"}) :
        LET s == Dispatch(r)
            up == LooksOpen(r) \/ s[l].ok IN
        /\ sock' = [s EXCEPT ![l].connected = @ \/ LooksOpen(r), ![l].ok = FALSE]
        /\ Goes(t, IF up THEN "up" ELSE "close")
  BY <1>0 DEF Opened
<1>2. PICK p \in {"up", "close"} : Goes(t, p)
  BY <1>1
<1>3. At(t, "open") /\ holder = t /\ Release /\ UNCHANGED <<cmds, conn>>
  BY DEF Opened
<1>4. cmds = <<>> /\ \A m \in Links : conn[m].state # "opening"
  <2>1. PICK i \in DOMAIN uart : uart[i].k \in {"cipopen", "error"}
    BY ReadHeard
  <2> QED
    BY <1>3, <2>1, Executed DEF Answers
<1>5. \A m \in Links : /\ sock'[m].used = Dispatch(r)[m].used /\ sock'[m].ring = Dispatch(r)[m].ring
                       /\ sock'[m].closed = Dispatch(r)[m].closed
  <2>1. PICK s \in [Links -> Socks] : s = Dispatch(r)
    BY ReadHeard, DispatchIs
  <2>2. sock' = [s EXCEPT ![l].connected = @ \/ LooksOpen(r), ![l].ok = FALSE]
    BY <1>1, <2>1
  <2>3. \A m \in Links : sock'[m].used = s[m].used /\ sock'[m].ring = s[m].ring
                         /\ sock'[m].closed = s[m].closed
    BY <2>2 DEF Socks
  <2> QED
    BY <2>1, <2>3
<1>6. \A m \in Links : /\ sock'[m].used = sock[m].used /\ sock'[m].ring = sock[m].ring
                       /\ sock'[m].closed => sock[m].closed \/ Heard(m)
  BY <1>5, ReadHeard
<1>7. Serving(t) /\ ~At(t, "read")
  BY <1>3 DEF Serving, Owning, At
<1> QED
  BY <1>2, <1>3, <1>4, <1>6, <1>7, GoesOn

LEMMA OpenedUdpInTime ==
  ASSUME AtTyped, InTime, NEW t \in Tasks, OpenedUdp(t)
  PROVE  InTime'
<1>0. PICK l \in Links : l = task[t].fd
  BY TaskIs
<1>1. PICK r \in Reads(Final), ok \in BOOLEAN :
        /\ sock' = [Dispatch(r) EXCEPT ![l].connected = @ \/ ok]
        /\ Goes(t, IF ok THEN "send" ELSE "close")
  BY <1>0 DEF OpenedUdp
<1>2. PICK p \in {"send", "close"} : Goes(t, p)
  BY <1>1
<1>3. At(t, "udp") /\ holder = t /\ Release /\ UNCHANGED <<cmds, conn>>
  BY DEF OpenedUdp
<1>4. cmds = <<>> /\ \A m \in Links : conn[m].state # "opening"
  <2>1. PICK i \in DOMAIN uart : uart[i].k \in Final
    BY ReadHeard
  <2> QED
    BY <1>3, <2>1, Executed DEF Answers, Final, At
<1>5. \A m \in Links : /\ sock'[m].used = Dispatch(r)[m].used /\ sock'[m].ring = Dispatch(r)[m].ring
                       /\ sock'[m].closed = Dispatch(r)[m].closed
  <2>1. PICK s \in [Links -> Socks] : s = Dispatch(r)
    BY ReadHeard, DispatchIs
  <2>2. sock' = [s EXCEPT ![l].connected = @ \/ ok]
    BY <1>1, <2>1
  <2>3. \A m \in Links : sock'[m].used = s[m].used /\ sock'[m].ring = s[m].ring
                         /\ sock'[m].closed = s[m].closed
    BY <2>2 DEF Socks
  <2> QED
    BY <2>1, <2>3
<1>6. \A m \in Links : /\ sock'[m].used = sock[m].used /\ sock'[m].ring = sock[m].ring
                       /\ sock'[m].closed => sock[m].closed \/ Heard(m)
  BY <1>5, ReadHeard
<1>7. Serving(t) /\ ~At(t, "read")
  BY <1>3 DEF Serving, Owning, At
<1> QED
  BY <1>2, <1>3, <1>4, <1>6, <1>7, GoesOn

LEMMA SentInTime ==
  ASSUME AtTyped, InTime, NEW t \in Tasks, Sent(t)
  PROVE  InTime'
<1>1. PICK p \in {"up", "close"} : Goes(t, p)
  BY DEF Sent
<1>2. /\ At(t, "send") /\ holder = t /\ Release /\ UNCHANGED <<sock, cmds, conn>>
      /\ Reads({"ok", "error", "data"}) # {}
  BY DEF Sent
<1>3. cmds = <<>> /\ \A m \in Links : conn[m].state # "opening"
  <2>1. PICK i \in DOMAIN uart : uart[i].k \in {"ok", "error", "data"}
    BY <1>2, ReadHeard
  <2> QED
    BY <1>2, <2>1, Executed DEF Answers, At
<1>4. Serving(t) /\ ~At(t, "read")
  BY <1>2 DEF Serving, Owning, At
<1> QED
  BY <1>1, <1>2, <1>3, <1>4, GoesOn

\* A query that found nothing.
LEMMA NothingInTime ==
  ASSUME AtTyped, InTime, NEW t \in Tasks, At(t, "query"), holder = t,
         NEW r \in Reads(Final), sock' = Dispatch(r), Goes(t, "up"), Release,
         UNCHANGED <<cmds, conn>>
  PROVE  InTime'
<1>1. cmds = <<>> /\ \A m \in Links : conn[m].state # "opening"
  <2>1. PICK i \in DOMAIN uart : uart[i].k \in Final
    BY ReadHeard
  <2> QED
    BY <2>1, Executed DEF Answers, Final, At
<1>2. Serving(t) /\ ~At(t, "read")
  BY DEF Serving, Owning, At
<1>3. \A m \in Links : /\ sock'[m].used = sock[m].used /\ sock'[m].ring = sock[m].ring
                       /\ sock'[m].closed => sock[m].closed \/ Heard(m)
  BY ReadHeard
<1> QED
  BY <1>1, <1>2, <1>3, GoesOn

LEMMA ResolvedInTime ==
  ASSUME AtTyped, InTime, NEW t \in Tasks, Resolved(t)
  PROVE  InTime'
<1>1. PICK r \in Reads({"cdnsgip", "error"}), p \in {"named", "dns"} :
        sock' = Dispatch(r) /\ Goes(t, p)
  BY DEF Resolved
<1>2. At(t, "dns") /\ holder = t /\ Release /\ UNCHANGED <<cmds, conn>>
  BY DEF Resolved
<1>3. cmds = <<>> /\ \A m \in Links : conn[m].state # "opening"
  <2>1. PICK i \in DOMAIN uart : uart[i].k \in {"cdnsgip", "error"}
    BY ReadHeard
  <2> QED
    BY <1>2, <2>1, Executed DEF Answers, At
<1>4. PICK x : x = [task[t] EXCEPT !.pc = p]
  OBVIOUS
<1>5. task' = [task EXCEPT ![t] = x] /\ x.pc = p /\ x.fd = task[t].fd /\ x.got = task[t].got
  BY <1>1, <1>4, TaskIs DEF Goes, Users
<1>6. task'[t] = x /\ ~Owning(t) /\ ~Owning(t)'
  BY <1>2, <1>5 DEF AtTyped, Owning, At
<1>7. \A m \in Links : /\ sock'[m].used = sock[m].used /\ sock'[m].ring = sock[m].ring
                       /\ sock'[m].closed => sock[m].closed \/ Heard(m)
  BY <1>1, ReadHeard
<1>8. Aligned' /\ Apart' /\ \A u \in Tasks \ {t} : Sound(u)'
  <2>1. \A l \in Links : ~sock'[l].used => conn[l] = Closed
    BY <1>7 DEF InTime, Apart
  <2>2. x.pc # "read"
    BY <1>5
  <2> QED
    BY <1>2, <1>3, <1>5, <1>6, <1>7, <2>1, <2>2, ReleaseKeeps
<1>9. Sound(t)'
  <2>1. task[t].got = 0
    BY <1>6 DEF InTime, Sound
  <2>2. ~Unasked(t)' /\ ~Serving(t)'
    BY <1>5, <1>6 DEF Unasked, Serving, At
  <2> QED
    BY <1>5, <1>6, <2>1, <2>2 DEF Sound
<1> QED
  BY <1>8, <1>9 DEF InTime

LEMMA CloseEndInTime ==
  ASSUME AtTyped, InTime, NEW t \in Tasks, CloseEnd(t)
  PROVE  InTime'
<1>0. PICK l \in Links : l = task[t].fd
  BY TaskIs
<1>1. PICK r \in Reads(Final) :
        sock' = [Dispatch(r) EXCEPT ![l].used = FALSE, ![l].connected = FALSE,
                   ![l].closed = FALSE, ![l].ring = <<>>]
  BY <1>0 DEF CloseEnd
<1>2. At(t, "close") /\ holder = t /\ Release /\ UNCHANGED <<cmds, conn>>
      /\ task' = [task EXCEPT ![t] = Unused]
  BY DEF CloseEnd
<1>3. cmds = <<>> /\ \A m \in Links : conn[m].state # "opening"
  <2>1. PICK i \in DOMAIN uart : uart[i].k \in Final
    BY ReadHeard
  <2> QED
    BY <1>2, <2>1, Executed DEF Answers, Final, At
<1>4. task'[t] = Unused /\ Owning(t) /\ ~Owning(t)'
  BY <1>2 DEF AtTyped, Owning, Unused, At
<1>5. \A m \in Links \ {l} : sock'[m] = Dispatch(r)[m]
  BY <1>1, ReadHeard, DispatchIs
<1>6. \A m \in Links \ {l} : /\ sock'[m].used = sock[m].used /\ sock'[m].ring = sock[m].ring
                             /\ sock'[m].closed => sock[m].closed \/ Heard(m)
  BY <1>5, ReadHeard
<1>7. conn[l] = Closed
  BY <1>0, <1>2, <1>3 DEF InTime, Sound, Unasked
<1>8. Aligned' /\ Apart' /\ \A u \in Tasks \ {t} : Sound(u)'
  <2>1. \A m \in Links : ~sock'[m].used => conn[m] = Closed
    BY <1>6, <1>7 DEF InTime, Apart
  <2>2. PICK x : x = Unused
    OBVIOUS
  <2>3. task' = [task EXCEPT ![t] = x] /\ x.pc # "read"
    BY <1>2, <2>2 DEF Unused
  <2> QED
    BY <1>0, <1>2, <1>3, <1>4, <1>6, <2>1, <2>3, ReleaseKeeps
<1>9. Sound(t)'
  <2>1. ~Unasked(t)' /\ ~Serving(t)' /\ task'[t].got = 0
    BY <1>4 DEF Unasked, Serving, At, Unused
  <2> QED
    BY <1>4, <2>1 DEF Sound
<1> QED
  BY <1>8, <1>9 DEF InTime

\* A task that has the mutex, or takes it, writes the command of its place.
LEMMA IssueKeeps ==
  ASSUME AtTyped, InTime, NEW t \in Tasks, holder \in {t, None}, cmds = <<>>,
         \A l \in Links : conn[l].state # "opening",
         NEW x, x \in Users, task' = [task EXCEPT ![t] = x], x.pc \in Kinds,
         NEW n \in Nat, Issue(x.pc, x.fd, n), holder' = t, conn' = conn,
         x.pc = "read" => n <= Space(x.fd)',
         Owning(t)' => Owning(t) /\ x.fd = task[t].fd,
         \A l \in Links : sock'[l].used = sock[l].used,
         \A l \in Links : (Owning(t) => l # task[t].fd) =>
           /\ sock'[l].ring = sock[l].ring
           /\ sock'[l].closed => sock[l].closed \/ Heard(l)
  PROVE  Aligned' /\ Apart' /\ \A u \in Tasks \ {t} : Sound(u)'
<1>1. uart' = <<>> /\ DOMAIN uart' = {} /\ conn' = conn
  BY DEF Issue
<1>2. PICK c : c = [k |-> x.pc, l |-> x.fd, n |-> n]
  OBVIOUS
<1>3. cmds' = <<c>> /\ Len(cmds') = 1 /\ cmds'[1] = c /\ cmds' # <<>>
  BY <1>2 DEF Issue
<1>4. task'[t] = x /\ \A u \in Tasks \ {t} : task'[u] = task[u]
  BY DEF AtTyped
<1>5. \A u \in Tasks \ {t} : ~At(u, "read") /\ u # None /\ holder # u
  BY AtSocketAssumption DEF InTime, Aligned
<1>6. Aligned'
  <2>1. \A u \in Tasks : At(u, "read")' => u = t
    BY <1>4, <1>5 DEF At
  <2>2. Commanding(t)'
    BY <1>1, <1>2, <1>3, <1>4 DEF Commanding, At
  <2> QED
    BY <2>1, <2>2, AtSocketAssumption DEF Aligned
<1>7. \A u \in Tasks : Owning(u)' => Owning(u) /\ task'[u].fd = task[u].fd
  BY <1>4 DEF Owning
<1>8. Apart'
  <2>1. \A u, v \in Tasks : (Owning(u) /\ Owning(v) /\ task[u].fd = task[v].fd)' => u = v
    BY <1>7 DEF InTime, Apart
  <2>2. \A l \in Links : ~sock'[l].used => conn[l] = Closed
    BY DEF InTime, Apart
  <2> QED
    BY <1>1, <2>1, <2>2 DEF Apart
<1>9. ASSUME NEW u \in Tasks \ {t} PROVE Sound(u)'
  <2>1. Sound(u) /\ task'[u] = task[u] /\ task[u].fd \in Links
    BY <1>4, TaskIs DEF InTime
  <2>2. Coming(u)' = Coming(u)
    BY <1>4, <1>5 DEF Coming, At
  <2>3. Unasked(u)' => Unasked(u)
    BY <1>3, <1>5, <2>1 DEF Unasked, At
  <2>4. Owning(u) => (Owning(t) => task[u].fd # task[t].fd)
    BY DEF InTime, Apart
  <2>5. Serving(u) => Owning(u)
    BY DEF Serving
  <2>6. Serving(u) /\ sock'[task[u].fd].closed => conn[task[u].fd].state = "lost"
    BY <2>1, <2>4, <2>5, HeardIs DEF Sound
  <2> QED
    BY <1>1, <2>1, <2>2, <2>3, <2>4, <2>6, UnaskedOwns, SoundKept
<1> QED
  BY <1>6, <1>8, <1>9

LEMMA BeginInTime ==
  ASSUME AtTyped, InTime, NEW t \in Tasks, Begin(t)
  PROVE  InTime'
<1>1. /\ holder = None /\ holder' = t /\ UNCHANGED <<sock, task, conn>>
      /\ task[t].pc \in {"dns", "open", "udp", "query", "send", "close"}
      /\ Issue(task[t].pc, task[t].fd, 0)
  BY DEF Begin
<1>2. cmds = <<>> /\ \A l \in Links : conn[l].state # "opening"
  BY <1>1 DEF InTime, Aligned, Apart
<1>3. PICK x : x = task[t]
  OBVIOUS
<1>4. task' = [task EXCEPT ![t] = x] /\ x \in Users /\ x.pc \in Kinds /\ x.pc # "read"
  BY <1>1, <1>3, TaskIs DEF AtTyped, Kinds
<1>5. Owning(t)' = Owning(t)
  BY <1>1 DEF Owning
<1>6. Aligned' /\ Apart' /\ \A u \in Tasks \ {t} : Sound(u)'
  <2>1. 0 \in Nat /\ Issue(x.pc, x.fd, 0) /\ holder \in {t, None}
    BY <1>1, <1>3
  <2> QED
    BY <1>1, <1>2, <1>3, <1>4, <1>5, <2>1, IssueKeeps
<1>7. Sound(t)'
  <2>1. Sound(t) /\ task'[t] = task[t] /\ t # None
    BY <1>1, AtSocketAssumption DEF InTime
  <2>2. Coming(t)' = Coming(t)
    BY <1>1, <1>3, <1>4 DEF Coming, At
  <2>3. cmds' # <<>>
    BY <1>1, <1>2 DEF Issue
  <2>4. Unasked(t)' => Unasked(t)
    BY <1>1, <2>1, <2>3 DEF Unasked, At
  <2>5. Serving(t) => Owning(t)
    BY DEF Serving
  <2>6. Serving(t) /\ sock'[task[t].fd].closed => conn[task[t].fd].state = "lost"
    BY <1>1, <2>1, <2>5 DEF Sound
  <2> QED
    BY <1>1, <2>1, <2>2, <2>4, <2>6, UnaskedOwns, SoundKept
<1> QED
  BY <1>6, <1>7 DEF InTime

LEMMA PendingInTime ==
  ASSUME AtTyped, InTime, NEW t \in Tasks, Pending(t)
  PROVE  InTime'
<1>0. PICK l \in Links : l = task[t].fd
  BY TaskIs
<1>1. PICK r \in Reads(Final) :
        LET some == {i \in FirstOf(r, "pending") : r[i].left > 0} IN
        /\ sock' = Dispatch(r)
        /\ \/ \E i \in some :
                /\ Goes(t, "read") /\ UNCHANGED holder
                /\ Issue("read", l, Lesser(r[i].left, Space(l)))
           \/ some = {} /\ Goes(t, "up") /\ Release /\ UNCHANGED cmds
  BY <1>0 DEF Pending
<1>2. At(t, "query") /\ holder = t /\ conn' = conn /\ sock' = Dispatch(r)
  BY <1>1 DEF Pending
<1>3. CASE Goes(t, "up") /\ Release /\ UNCHANGED cmds
  BY <1>2, <1>3, NothingInTime
<1>4. ASSUME NEW i \in FirstOf(r, "pending"), Goes(t, "read"), UNCHANGED holder,
             Issue("read", l, Lesser(r[i].left, Space(l)))
      PROVE  InTime'
  <2>1. cmds = <<>> /\ \A m \in Links : conn[m].state # "opening"
    <3>1. PICK j \in DOMAIN uart : uart[j].k \in Final
      BY ReadHeard
    <3> QED
      BY <1>2, <3>1, Executed DEF Answers, Final, At
  <2>2. Space(l) \in Nat /\ r[i].left \in Nat
    <3>1. r \in Seq(Urcs)
      BY ReadHeard
    <3>2. r[i] \in Urcs /\ r[i].k = "pending"
      BY <3>1 DEF FirstOf
    <3> QED
      BY <3>2, UrcIs, SockTyped, AtSocketAssumption
  <2>3. PICK n \in Nat : n = Lesser(r[i].left, Space(l)) /\ n <= Space(l)
    BY <2>2, LesserIs
  <2>4. \A m \in Links : /\ sock'[m].used = sock[m].used /\ sock'[m].ring = sock[m].ring
                         /\ sock'[m].closed => sock[m].closed \/ Heard(m)
    BY <1>2, ReadHeard
  <2>5. PICK x : x = [task[t] EXCEPT !.pc = "read"]
    OBVIOUS
  <2>6. /\ task' = [task EXCEPT ![t] = x] /\ x \in Users /\ x.pc = "read"
        /\ x.fd = l /\ x.got = task[t].got
    BY <1>0, <1>4, <2>5, TaskIs DEF Goes, Users, Kinds
  <2>7. task'[t] = x /\ Owning(t) /\ Owning(t)' /\ Serving(t) /\ ~Unasked(t)'
    BY <1>2, <2>6 DEF AtTyped, Owning, Serving, Unasked, At
  <2>8. Space(l)' = Space(l)
    BY <2>4 DEF Space
  <2>9. Aligned' /\ Apart' /\ \A u \in Tasks \ {t} : Sound(u)'
    <3>1. Issue(x.pc, x.fd, n) /\ x.pc \in Kinds /\ holder \in {t, None} /\ holder' = t
      BY <1>2, <1>4, <2>3, <2>6 DEF Kinds
    <3>2. n <= Space(x.fd)'
      BY <2>3, <2>6, <2>8
    <3> QED
      BY <1>0, <1>2, <2>1, <2>4, <2>6, <2>7, <3>1, <3>2, IssueKeeps
  <2>10. Sound(t)'
    <3>1. Coming(t) = <<>> /\ Coming(t)' = <<>>
      <4>1. ~At(t, "read") /\ uart' = <<>>
        BY <1>2, <1>4 DEF At, Issue
      <4> QED
        BY <4>1 DEF Coming, FirstOf
    <3>2. OnTheWay(t)' = OnTheWay(t)
      BY <1>0, <1>2, <2>4, <2>6, <2>7, <3>1 DEF OnTheWay
    <3>3. Numbered(t)' = Numbered(t)
      BY <1>0, <1>2, <2>6, <2>7, <3>2 DEF Numbered
    <3>4. sock'[l].closed => conn[l].state = "lost"
      BY <1>0, <2>4, <2>7, HeardIs DEF InTime, Sound
    <3> QED
      BY <1>0, <1>2, <2>4, <2>6, <2>7, <3>3, <3>4 DEF InTime, Sound
  <2> QED
    BY <2>9, <2>10 DEF InTime
<1> QED
  BY <1>1, <1>3, <1>4

LEMMA ReadChunkInTime ==
  ASSUME AtTyped, Behind, InTime, NEW t \in Tasks, ReadChunk(t)
  PROVE  InTime'
<1>0. PICK l \in Links : l = task[t].fd
  BY TaskIs
<1>1. PICK i \in FirstOf(uart, "data") : Chunk(t, uart[i].bytes, uart[i].left)
  BY DEF ReadChunk
<1>2. At(t, "read") /\ holder = t /\ conn' = conn
  BY DEF ReadChunk
<1>3. i \in DOMAIN uart /\ uart[i].k = "data" /\ uart[i] \in Urcs
  BY <1>1 DEF FirstOf, AtTyped
<1>4. PICK bytes \in Seq(1..MaxBytes), left \in Nat : bytes = uart[i].bytes /\ left = uart[i].left
  BY <1>3, UrcIs, AtSocketAssumption
<1>5. cmds = <<>> /\ \A m \in Links : conn[m].state # "opening"
  BY <1>2, <1>3, Executed DEF Answers, At
<1>6. Len(bytes) <= Space(l) /\ Space(l) \in Nat
  <2>1. Commanding(t)
    BY <1>2, AtSocketAssumption DEF InTime, Aligned
  <2> QED
    BY <1>0, <1>3, <1>4, <2>1, SockTyped DEF Commanding
<1>7. PICK new, a : /\ new = SubSeq(bytes, 1, Lesser(Len(bytes), Space(l)))
                    /\ a = sock[l].ring \o new
  OBVIOUS
<1>8. /\ new = bytes /\ a = sock[l].ring \o bytes /\ a \in Seq(1..MaxBytes)
  BY <1>6, <1>7, Stored
<1>9. sock' = [sock EXCEPT ![l].ring = a]
  <2>1. sock' = [sock EXCEPT ![l].ring = sock[l].ring \o new]
    BY <1>0, <1>1, <1>4, <1>7 DEF Chunk
  <2> QED
    BY <1>7, <2>1
<1>10. /\ \A m \in Links \ {l} : sock'[m] = sock[m]
       /\ sock'[l].used = sock[l].used /\ sock'[l].closed = sock[l].closed /\ sock'[l].ring = a
  BY <1>9, SockTyped DEF AtTyped, Socks
<1>11. Space(l)' = Space(l) - Len(new) /\ Space(l)' \in Nat
  <2>1. Len(a) = Len(sock[l].ring) + Len(new) /\ Len(sock[l].ring) \in Nat /\ Len(new) \in Nat
    BY <1>7, <1>8, SockTyped
  <2> QED
    BY <1>6, <1>8, <1>10, <2>1, AtSocketAssumption DEF Space
<1>12. Owning(t) /\ Serving(t) /\ Sound(t)
  BY <1>2 DEF Owning, Serving, At, InTime
<1>13. ASSUME Coming(t)' = <<>>, Owning(t)', ~Unasked(t)', task'[t].fd = l, task'[t].got = task[t].got
       PROVE  Sound(t)'
  <2>1. Coming(t) = bytes
    BY <1>1, <1>2, <1>4, ComingIs
  <2>2. a \o <<>> = a
    BY <1>8, ConcatEmptySeq
  <2>3. OnTheWay(t)' = OnTheWay(t)
    BY <1>0, <1>2, <1>8, <1>10, <1>13, <2>1, <2>2 DEF OnTheWay
  <2>4. Numbered(t)' = Numbered(t)
    BY <1>0, <1>2, <1>13, <2>3 DEF Numbered
  <2> QED
    BY <1>0, <1>2, <1>10, <1>12, <1>13, <2>4 DEF Sound
<1>14. \A m \in Links : ~sock'[m].used => conn[m] = Closed
  BY <1>10 DEF InTime, Apart
<1>15. CASE Goes(t, "up") /\ Release /\ UNCHANGED cmds
  <2>1. PICK x : x = [task[t] EXCEPT !.pc = "up"]
    OBVIOUS
  <2>2. task' = [task EXCEPT ![t] = x] /\ x.pc = "up" /\ x.fd = l /\ x.got = task[t].got
    BY <1>0, <1>15, <2>1, TaskIs DEF Goes, Users
  <2>3. task'[t] = x /\ Owning(t)' /\ ~Unasked(t)' /\ ~At(t, "read")'
    BY <2>2 DEF AtTyped, Owning, Unasked, At
  <2>4. Coming(t)' = <<>>
    BY <2>3 DEF Coming
  <2>5. Aligned' /\ Apart' /\ \A u \in Tasks \ {t} : Sound(u)'
    BY <1>0, <1>2, <1>5, <1>10, <1>12, <1>14, <1>15, <2>2, <2>3, ReleaseKeeps
  <2> QED
    BY <1>13, <2>2, <2>3, <2>4, <2>5 DEF InTime
<1>16. ASSUME Issue("read", l, Lesser(left, Space(l) - Len(new))), UNCHANGED <<task, holder>>
       PROVE  InTime'
  <2>1. PICK n \in Nat : n = Lesser(left, Space(l) - Len(new)) /\ n <= Space(l)'
    BY <1>11, LesserIs
  <2>2. PICK x : x = task[t]
    OBVIOUS
  <2>3. task' = [task EXCEPT ![t] = x] /\ x.pc = "read" /\ x.fd = l /\ x \in Users /\ task'[t] = x
    BY <1>0, <1>2, <1>16, <2>2, TaskIs DEF AtTyped, At
  <2>4. Owning(t)' /\ ~Unasked(t)' /\ uart' = <<>>
    BY <1>16, <2>3 DEF Owning, Unasked, At, Issue
  <2>5. Coming(t)' = <<>>
    BY <2>4 DEF Coming, FirstOf
  <2>6. Aligned' /\ Apart' /\ \A u \in Tasks \ {t} : Sound(u)'
    <3>1. Issue(x.pc, x.fd, n) /\ x.pc \in Kinds /\ holder \in {t, None} /\ holder' = t
      BY <1>2, <1>16, <2>1, <2>3 DEF Kinds
    <3>2. n <= Space(x.fd)'
      BY <2>1, <2>3
    <3>3. \A m \in Links : sock'[m].used = sock[m].used
      BY <1>10
    <3> QED
      BY <1>0, <1>2, <1>5, <1>10, <1>12, <2>3, <3>1, <3>2, <3>3, IssueKeeps
  <2> QED
    BY <1>13, <2>2, <2>3, <2>4, <2>5, <2>6 DEF InTime
<1> QED
  BY <1>0, <1>1, <1>4, <1>7, <1>15, <1>16 DEF Chunk
-----------------------------------------------------------------------------
(* While no answer was late: the modem and the network.                        *)

\* One more number at the end.
LEMMA OneMore ==
  ASSUME NEW S, NEW b \in Seq(S), NEW h \in Seq(S), NEW g \in Nat, NEW s \in Nat, g <= s,
         Join(b, h) = Up(g, s), s + 1 \in S
  PROVE  Join(b, Append(h, s + 1)) = Up(g, s + 1)
<1>1. /\ b \o h \in Seq(S) /\ Len(b \o h) = Len(b) + Len(h)
      /\ \A i \in 1..Len(b) + Len(h) : (b \o h)[i] = IF i <= Len(b) THEN b[i] ELSE h[i - Len(b)]
  BY ConcatProperties
<1>2. PICK q \in Seq(S) : q = b \o h
  BY <1>1
<1>3. Len(q) = s - g /\ \A i \in 1..Len(q) : q[i] = g + i
  <2>1. q = Up(g, s) => Len(q) = s - g /\ \A i \in 1..Len(q) : q[i] = g + i
    BY ONLY q \in Seq(S), g \in Nat, s \in Nat, g <= s, UpIs
  <2> QED
    BY <1>2, <2>1 DEF Join
<1>4. PICK k \in Seq(S) : k = Append(h, s + 1)
  BY AppendProperties
<1>5. Len(k) = Len(h) + 1 /\ k[Len(h) + 1] = s + 1 /\ \A i \in 1..Len(h) : k[i] = h[i]
  BY <1>4, AppendProperties
<1>6. /\ b \o k \in Seq(S) /\ Len(b \o k) = Len(b) + Len(k)
      /\ \A i \in 1..Len(b) + Len(k) : (b \o k)[i] = IF i <= Len(b) THEN b[i] ELSE k[i - Len(b)]
  BY ConcatProperties
<1>7. PICK r \in Seq(S) : r = b \o k
  BY <1>6
<1>8. Len(b) \in Nat /\ Len(h) \in Nat /\ Len(b) + Len(h) = s - g /\ s + 1 \in Nat /\ g <= s + 1
  BY <1>1, <1>2, <1>3
<1>9. Len(r) = (s + 1) - g
  BY <1>5, <1>6, <1>7, <1>8
<1>10. ASSUME NEW i \in 1..Len(r) PROVE r[i] = g + i
  <2>1. i \in 1..Len(b) + Len(h) + 1 /\ i \in Nat
    BY <1>8, <1>9
  <2>2. r[i] = IF i <= Len(b) THEN b[i] ELSE k[i - Len(b)]
    BY <1>6, <1>7
  <2>3. CASE i <= Len(b)
    <3>1. i \in 1..Len(b) + Len(h) /\ i \in 1..Len(q)
      BY <1>3, <1>8, <2>1, <2>3
    <3> QED
      BY <1>1, <1>2, <1>3, <2>2, <2>3, <3>1
  <2>4. CASE i > Len(b) /\ i # Len(b) + Len(h) + 1
    <3>1. i \in 1..Len(b) + Len(h) /\ i \in 1..Len(q) /\ i - Len(b) \in 1..Len(h) /\ ~(i <= Len(b))
      BY <1>3, <1>8, <2>1, <2>4
    <3>2. q[i] = h[i - Len(b)]
      BY <1>1, <1>2, <3>1
    <3> QED
      BY <1>3, <1>5, <2>2, <3>1, <3>2
  <2>5. CASE i = Len(b) + Len(h) + 1
    <3>1. i - Len(b) = Len(h) + 1 /\ ~(i <= Len(b)) /\ g + i = s + 1
      BY <1>8, <2>5
    <3> QED
      BY <1>5, <2>2, <3>1
  <2> QED
    BY <1>8, <2>1, <2>3, <2>4, <2>5
<1>11. r = Up(g, s + 1)
  <2>1. PICK e \in Nat : e = s + 1
    BY <1>8
  <2>2. Len(r) = e - g /\ (\A i \in 1..Len(r) : r[i] = g + i) /\ g <= e
    BY <1>8, <1>9, <1>10, <2>1
  <2>3. r = Up(g, e)
    BY ONLY r \in Seq(S), g \in Nat, e \in Nat, <2>2, UpIs
  <2> QED
    BY <2>1, <2>3
<1> QED
  BY <1>4, <1>7, <1>11 DEF Join

\* A link does what its modem and its peer do, and the task's socket is told.
LEMMA NetworkInTime ==
  ASSUME AtTyped, InTime, NEW l \in Links, Connected(l) \/ Arrives(l) \/ PeerCloses(l)
  PROVE  InTime'
<1>1. PICK x \in Conns :
        /\ conn' = [conn EXCEPT ![l] = x]
        /\ \/ uart' = uart
           \/ \E u \in Urcs : Puts(<<u>>) /\ u.k \in {"cipopen", "notify", "ipclose"}
                              /\ (u.k = "cipopen" => conn[l].state = "opening" /\ u.l = l)
                              /\ (u.k = "ipclose" => x.state = "lost" /\ u.l = l)
        /\ x.state # "opening"
        /\ \/ x.sent = conn[l].sent /\ x.held = conn[l].held
           \/ x.sent = conn[l].sent + 1 /\ x.held = Append(conn[l].held, x.sent)
        /\ conn[l].state \notin {"closed", "lost"}
  BY NetworkIs
<1>2. UNCHANGED <<sock, task, holder, cmds>>
  BY DEF Connected, Arrives, PeerCloses
<1>3. conn'[l] = x /\ \A m \in Links \ {l} : conn'[m] = conn[m]
  BY <1>1 DEF AtTyped
<1>4. \/ uart' = uart
      \/ /\ holder # None
         /\ \E u \in Urcs : /\ uart' = Append(uart, u) /\ u.k \in {"cipopen", "notify", "ipclose"}
                            /\ (u.k = "cipopen" => conn[l].state = "opening" /\ u.l = l)
                            /\ (u.k = "ipclose" => x.state = "lost" /\ u.l = l)
  BY <1>1, PutsOne
<1>5. ASSUME NEW i \in DOMAIN uart'
      PROVE  \/ i \in DOMAIN uart /\ uart'[i] = uart[i]
             \/ /\ holder # None /\ uart'[i].k \in {"cipopen", "notify", "ipclose"}
                /\ (uart'[i].k = "cipopen" => conn[l].state = "opening" /\ uart'[i].l = l)
                /\ (uart'[i].k = "ipclose" => x.state = "lost" /\ uart'[i].l = l)
  <2>1. CASE uart' = uart
    BY <2>1
  <2>2. CASE uart' # uart
    <3>1. PICK u \in Urcs : /\ holder # None /\ uart' = Append(uart, u)
                            /\ u.k \in {"cipopen", "notify", "ipclose"}
                            /\ (u.k = "cipopen" => conn[l].state = "opening" /\ u.l = l)
                            /\ (u.k = "ipclose" => x.state = "lost" /\ u.l = l)
      BY <1>4, <2>2
    <3>2. /\ Len(uart') = Len(uart) + 1 /\ uart' \in Seq(Urcs) /\ Len(uart) \in Nat
          /\ \A j \in 1..Len(uart) : uart'[j] = uart[j]
          /\ uart'[Len(uart) + 1] = u
      BY <3>1, AppendProperties DEF AtTyped
    <3>3. i \in 1..Len(uart) + 1
      BY <3>2
    <3>4. CASE i \in 1..Len(uart)
      BY <3>2, <3>4 DEF AtTyped
    <3>5. CASE i = Len(uart) + 1
      BY <3>1, <3>2, <3>5
    <3> QED
      BY <3>2, <3>3, <3>4, <3>5
  <2> QED
    BY <2>1, <2>2
<1>6. conn[l].state = "opening" => cmds = <<>> /\ At(holder, "open") /\ task[holder].fd = l
  BY DEF InTime, Apart
<1>7. Aligned'
  <2>1. holder = None => cmds' = <<>> /\ uart' = <<>>
    BY <1>2, <1>4 DEF InTime, Aligned
  <2>2. ASSUME holder # None PROVE Commanding(holder)'
    <3>1. Commanding(holder)
      BY <2>2 DEF InTime, Aligned
    <3>2. ASSUME cmds # <<>>, NEW i \in DOMAIN uart'
          PROVE  uart'[i].k \notin Answers \cup {"cipopen"}
      BY <1>5, <1>6, <3>1, <3>2 DEF Commanding, Answers
    <3>3. ASSUME NEW i \in DOMAIN uart', uart'[i].k = "data"
          PROVE  At(holder, "read") /\ Len(uart'[i].bytes) <= Space(task[holder].fd)
      BY <1>5, <3>1, <3>3 DEF Commanding
    <3> QED
      BY <1>2, <3>1, <3>2, <3>3 DEF Commanding, At, Space
  <2> QED
    BY <1>2, <2>1, <2>2 DEF InTime, Aligned, At
<1>8. Apart'
  <2>1. \A u, v \in Tasks : (Owning(u) /\ Owning(v) /\ task[u].fd = task[v].fd)' => u = v
    BY <1>2 DEF InTime, Apart, Owning
  <2>2. \A m \in Links : ~sock'[m].used => conn'[m] = Closed
    <3>1. Closed.state = "closed"
      BY DEF Closed
    <3> QED
      BY <1>1, <1>2, <1>3, <3>1 DEF InTime, Apart
  <2>3. ASSUME NEW m \in Links, conn'[m].state = "opening"
        PROVE  /\ holder' # None /\ At(holder, "open")' /\ task'[holder'].fd = m /\ cmds' = <<>>
               /\ \A i \in DOMAIN uart' : uart'[i].k \notin {"cipopen", "error"}
    <3>1. m # l /\ conn[m].state = "opening"
      BY <1>1, <1>3, <2>3
    <3>2. /\ holder # None /\ At(holder, "open") /\ task[holder].fd = m /\ cmds = <<>>
          /\ \A i \in DOMAIN uart : uart[i].k \notin {"cipopen", "error"}
      BY <3>1 DEF InTime, Apart
    <3>3. conn[l].state # "opening"
      BY <1>6, <3>1, <3>2
    <3> QED
      BY <1>2, <1>5, <3>2, <3>3 DEF At
  <2>4. ASSUME NEW i \in DOMAIN uart', uart'[i].k = "ipclose"
        PROVE  \/ conn'[uart'[i].l].state = "lost"
               \/ At(holder, "close")' /\ task'[holder'].fd = uart'[i].l
    <3>1. CASE i \in DOMAIN uart /\ uart'[i] = uart[i]
      <4>1. uart[i] \in Urcs
        BY <3>1 DEF AtTyped
      <4>2. uart[i].l \in Links
        BY <2>4, <3>1, <4>1, UrcIs
      <4>3. conn[uart[i].l].state = "lost" => conn'[uart[i].l].state = "lost"
        BY <1>1, <1>3, <4>2
      <4>4. \/ conn[uart[i].l].state = "lost"
            \/ At(holder, "close") /\ task[holder].fd = uart[i].l
        BY <2>4, <3>1 DEF InTime, Apart
      <4> QED
        BY <1>2, <3>1, <4>3, <4>4 DEF At
    <3>2. CASE x.state = "lost" /\ uart'[i].l = l
      BY <1>3, <3>2
    <3> QED
      BY <1>5, <2>4, <3>1, <3>2
  <2> QED
    BY <2>1, <2>2, <2>3, <2>4 DEF Apart
<1>9. ASSUME NEW u \in Tasks PROVE Sound(u)'
  <2>1. Sound(u) /\ task'[u] = task[u] /\ task[u].fd \in Links
    BY <1>2, TaskIs DEF InTime
  <2>2. Coming(u)' = Coming(u)
    BY <1>4, <2>1, ComingKept
  <2>3. Unasked(u)' => Unasked(u)
    BY <1>2 DEF Unasked, At
  <2>4. Serving(u) => Owning(u)
    BY DEF Serving
  <2>5. CASE ~(Owning(u) /\ task[u].fd = l)
    <3>1. Owning(u) => conn'[task[u].fd] = conn[task[u].fd]
      BY <1>3, <2>1, <2>5
    <3>2. Serving(u) /\ sock'[task[u].fd].closed => conn[task[u].fd].state = "lost"
      BY <1>2, <2>1 DEF Sound
    <3> QED
      BY <1>2, <2>1, <2>2, <2>3, <3>1, <3>2, UnaskedOwns, SoundKept
  <2>6. CASE Owning(u) /\ task[u].fd = l
    <3>1. ~Unasked(u)
      BY <1>1, <2>1, <2>6 DEF Sound, Closed
    <3>2. Serving(u) => ~sock[l].closed
      BY <1>1, <2>1, <2>6 DEF Sound
    <3>3. ASSUME Serving(u) PROVE Numbered(u)'
      <4>1. Numbered(u)
        BY <2>1, <3>3 DEF Sound
      <4>2. CASE x.sent = conn[l].sent /\ x.held = conn[l].held
        <5>1. OnTheWay(u)' = OnTheWay(u)
          BY <1>2, <1>3, <2>1, <2>2, <2>6, <4>2 DEF OnTheWay
        <5> QED
          BY <1>3, <2>1, <2>6, <4>1, <4>2, <5>1 DEF Numbered
      <4>3. CASE x.sent = conn[l].sent + 1 /\ x.held = Append(conn[l].held, x.sent)
        <5>1. PICK h, g, s, a, c : /\ h = conn[l].held /\ g = task[u].got /\ s = conn[l].sent
                                   /\ a = sock[l].ring /\ c = Coming(u)
          OBVIOUS
        <5>2. /\ h \in Seq(1..MaxBytes) /\ a \in Seq(1..MaxBytes) /\ c \in Seq(1..MaxBytes)
              /\ g \in Nat /\ s \in Nat /\ s + 1 \in 1..MaxBytes
          <6>1. x.sent \in 0..MaxBytes
            BY DEF Conns
          <6>2. s \in Nat /\ s + 1 \in 0..MaxBytes
            BY <4>3, <5>1, <6>1, SockTyped, AtSocketAssumption
          <6> QED
            BY <5>1, <6>2, SockTyped, TaskIs, ComingTyped, AtSocketAssumption, SMTT(30)
        <5>3. PICK b : b = a \o c
          OBVIOUS
        <5>4. b \in Seq(1..MaxBytes)
          BY <5>2, <5>3, ConcatProperties
        <5>5. g <= s /\ Join(b, h) = Up(g, s)
          BY <2>6, <4>1, <5>1, <5>3 DEF Numbered, OnTheWay, Join
        <5>6. Join(b, Append(h, s + 1)) = Up(g, s + 1)
          BY <5>2, <5>4, <5>5, OneMore
        <5>7. /\ conn'[l].held = Append(h, s + 1) /\ conn'[l].sent = s + 1
              /\ sock'[l].ring = a /\ task'[u].got = g /\ task'[u].fd = l
          BY <1>2, <1>3, <2>6, <4>3, <5>1
        <5>8. OnTheWay(u)' = Join(b, Append(h, s + 1))
          BY <2>2, <5>1, <5>3, <5>7 DEF OnTheWay, Join
        <5> QED
          BY <5>2, <5>5, <5>6, <5>7, <5>8 DEF Numbered
      <4> QED
        BY <1>1, <4>2, <4>3
    <3>4. Serving(u)' = Serving(u) /\ Owning(u)' = Owning(u)
      BY <1>2 DEF Serving, Owning, At
    <3> QED
      BY <1>2, <2>1, <2>3, <2>6, <3>1, <3>2, <3>3, <3>4 DEF Sound
  <2> QED
    BY <2>5, <2>6
<1> QED
  BY <1>2, <1>7, <1>8, <1>9 DEF InTime

\* The modem executes the command of the task that has the mutex.
LEMMA ModemInTime ==
  ASSUME AtTyped, InTime, Modem
  PROVE  InTime'
<1>1. PICK h \in Tasks : h = holder
  BY DEF Modem, InTime, Aligned, AtTyped
<1>2. /\ Commanding(h) /\ h # None /\ cmds # <<>> /\ Len(cmds) = 1
      /\ cmds[1].k = task[h].pc /\ cmds[1].l = task[h].fd
      /\ \A i \in DOMAIN uart : uart[i].k \notin Answers \cup {"cipopen"}
      /\ At(h, "read") => cmds[1].n <= Space(task[h].fd)
  BY <1>1, AtSocketAssumption DEF Modem, InTime, Aligned, Commanding
<1>3. PICK c \in Commanded : c = Head(cmds) /\ c = cmds[1]
  BY <1>2 DEF AtTyped
<1>4. PICK l \in Links : l = c.l /\ l = task[h].fd
  BY <1>2, <1>3, TaskIs
<1>5. cmds' = <<>> /\ Executes(c) /\ UNCHANGED <<sock, task, holder>>
  <2>1. Tail(cmds) = <<>>
    <3>1. PICK q \in Seq(Commanded) : q = cmds
      BY DEF AtTyped
    <3>2. q # <<>> /\ Len(q) = 1
      BY <1>2, <3>1
    <3>3. Tail(q) \in Seq(Commanded) /\ Len(Tail(q)) = 0
      BY <3>2, HeadTailProperties
    <3>4. Tail(q) = <<>>
      BY <3>3, EmptySeq
    <3> QED
      BY <3>1, <3>4
  <2> QED
    BY <1>3, <2>1 DEF Modem
<1>6. PICK x \in Conns, u \in Urcs :
        /\ conn' = [conn EXCEPT ![c.l] = x] /\ Puts(<<u>>)
        /\ u.k \in Answers
        /\ c.k \in {"dns", "query", "send"} => x = conn[c.l]
        /\ c.k = "open" /\ conn[c.l].state = "closed" =>
             x = [Closed EXCEPT !.state = "opening"] /\ u.k = "ok"
        /\ c.k = "open" /\ conn[c.l].state # "closed" => x = conn[c.l]
        /\ c.k = "udp" => x = [Closed EXCEPT !.state = "udp"] \/ x = conn[c.l]
        /\ c.k = "close" => x = Closed
        /\ c.k = "read" =>
             /\ u.k = "data" /\ x.state = conn[c.l].state /\ x.sent = conn[c.l].sent
             /\ u.bytes \in Seq(1..MaxBytes) /\ Len(u.bytes) <= c.n
             /\ u.bytes \o x.held = conn[c.l].held
        /\ c.k # "read" => u.k # "data"
  BY <1>5, ExecutesIs
<1>7. conn'[l] = x /\ \A m \in Links \ {l} : conn'[m] = conn[m]
  BY <1>4, <1>6 DEF AtTyped
<1>8. uart' = Append(uart, u)
  BY <1>1, <1>2, <1>6, PutsOne
<1>9. /\ Len(uart') = Len(uart) + 1 /\ uart' \in Seq(Urcs) /\ Len(uart) \in Nat
      /\ DOMAIN uart = 1..Len(uart) /\ DOMAIN uart' = 1..Len(uart) + 1
      /\ \A j \in 1..Len(uart) : uart'[j] = uart[j]
      /\ uart'[Len(uart) + 1] = u
  <2>1. /\ Len(uart') = Len(uart) + 1 /\ uart' \in Seq(Urcs) /\ Len(uart) \in Nat
        /\ \A j \in 1..Len(uart) : uart'[j] = uart[j]
        /\ uart'[Len(uart) + 1] = u
    BY <1>8, AppendProperties DEF AtTyped
  <2> QED
    BY <2>1 DEF AtTyped
<1>10. \A i \in DOMAIN uart' : \/ i \in DOMAIN uart /\ uart'[i] = uart[i]
                               \/ i = Len(uart) + 1 /\ uart'[i] = u
  <2> SUFFICES ASSUME NEW i \in DOMAIN uart'
               PROVE  \/ i \in DOMAIN uart /\ uart'[i] = uart[i]
                      \/ i = Len(uart) + 1 /\ uart'[i] = u
    OBVIOUS
  <2>1. i \in 1..Len(uart) \/ i = Len(uart) + 1
    BY <1>9
  <2> QED
    BY <1>9, <2>1
<1>11. /\ \A m \in Links : conn[m].state # "opening"
       /\ task[h].pc \in Kinds /\ c.k = task[h].pc
  BY <1>2, <1>3 DEF InTime, Apart, Commanding
<1>12. c.k # "dns" => Owning(h) /\ sock[l].used
  <2>1. Sound(h)
    BY DEF InTime
  <2>2. c.k # "dns" => Owning(h)
    BY <1>11 DEF Owning, Kinds
  <2> QED
    BY <1>4, <2>1, <2>2 DEF Sound
<1>13. c.k \in {"open", "udp"} => conn[l] = Closed /\ conn[l].state = "closed"
  <2>1. c.k \in {"open", "udp"} => Unasked(h)
    BY <1>2, <1>11 DEF Unasked
  <2> QED
    BY <1>4, <2>1 DEF InTime, Sound, Closed
<1>14. c.k = "dns" => x = conn[l] /\ conn' = conn
  BY <1>4, <1>6 DEF AtTyped
<1>15. Aligned'
  <2>1. Commanding(h)'
    <3>1. ASSUME NEW i \in DOMAIN uart', uart'[i].k = "data"
          PROVE  At(h, "read")' /\ Len(uart'[i].bytes) <= Space(l)'
      <4>1. uart'[i] = u
        BY <1>2, <1>10, <3>1 DEF Answers
      <4>2. c.k = "read"
        BY <1>6, <3>1, <4>1
      <4>3. Len(u.bytes) <= c.n /\ c.n <= Space(l) /\ Len(u.bytes) \in Nat /\ c.n \in Nat
        <5>1. At(h, "read")
          BY <1>11, <4>2 DEF At
        <5>2. c.n <= Space(l)
          BY <1>2, <1>3, <1>4, <5>1
        <5>3. c.n \in Nat
          BY DEF Commanded
        <5>4. u.bytes \in Seq(1..MaxBytes) /\ Len(u.bytes) <= c.n
          BY <1>6, <4>2
        <5>5. Len(u.bytes) \in Nat
          BY <5>4
        <5> QED
          BY <5>2, <5>3, <5>4, <5>5
      <4>4. Len(u.bytes) <= Space(l) /\ Space(l)' = Space(l)
        <5>1. Space(l) \in Nat
          BY SockTyped
        <5> QED
          BY <1>5, <4>3, <5>1 DEF Space
      <4> QED
        BY <1>5, <1>11, <4>1, <4>2, <4>4 DEF At
    <3> QED
      BY <1>4, <1>5, <1>11, <3>1 DEF Commanding
  <2> QED
    BY <1>1, <1>2, <1>5, <2>1 DEF InTime, Aligned, At
<1>16. Apart'
  <2>1. \A v, w \in Tasks : (Owning(v) /\ Owning(w) /\ task[v].fd = task[w].fd)' => v = w
    BY <1>5 DEF InTime, Apart, Owning
  <2>2. ASSUME NEW m \in Links, ~sock'[m].used PROVE conn'[m] = Closed
    <3>1. conn[m] = Closed
      BY <1>5, <2>2 DEF InTime, Apart
    <3>2. c.k = "dns" \/ m # l
      BY <1>5, <1>12, <2>2
    <3> QED
      BY <1>7, <1>14, <3>1, <3>2
  <2>3. ASSUME NEW m \in Links, conn'[m].state = "opening"
        PROVE  /\ holder' # None /\ At(holder, "open")' /\ task'[holder'].fd = m /\ cmds' = <<>>
               /\ \A i \in DOMAIN uart' : uart'[i].k \notin {"cipopen", "error"}
    <3>1. m = l /\ x.state = "opening"
      BY <1>7, <1>11, <2>3
    <3>2. c.k = "open" /\ u.k = "ok"
      <4>1. x # conn[l] /\ conn[l].state # "opening"
        BY <1>11, <3>1
      <4>2. x # Closed /\ x # [Closed EXCEPT !.state = "udp"]
        BY <3>1 DEF Closed
      <4> QED
        BY <1>4, <1>6, <1>11, <1>13, <3>1, <4>1, <4>2 DEF Kinds
    <3>3. \A i \in DOMAIN uart' : uart'[i].k \notin {"cipopen", "error"}
      BY <1>2, <1>10, <3>2 DEF Answers
    <3> QED
      BY <1>1, <1>2, <1>4, <1>5, <1>11, <3>1, <3>2, <3>3 DEF At
  <2>4. ASSUME NEW i \in DOMAIN uart', uart'[i].k = "ipclose"
        PROVE  \/ conn'[uart'[i].l].state = "lost"
               \/ At(holder, "close")' /\ task'[holder'].fd = uart'[i].l
    <3>1. i \in DOMAIN uart /\ uart'[i] = uart[i]
      BY <1>6, <1>10, <2>4 DEF Answers
    <3>2. PICK m \in Links : m = uart[i].l
      <4>1. uart[i] \in Urcs
        BY <3>1 DEF AtTyped
      <4> QED
        BY <2>4, <3>1, <4>1, UrcIs
    <3>3. conn[m].state = "lost" \/ (At(holder, "close") /\ task[holder].fd = m)
      BY <2>4, <3>1, <3>2 DEF InTime, Apart
    <3>4. ASSUME conn[m].state = "lost", m = l, c.k # "close" PROVE x.state = "lost"
      <4>1. c.k \notin {"open", "udp"}
        BY <1>13, <3>4
      <4> QED
        BY <1>4, <1>6, <1>11, <3>4, <4>1 DEF Kinds
    <3>5. m = l /\ c.k = "close" => At(holder, "close") /\ task[holder].fd = m
      BY <1>1, <1>4, <1>11 DEF At
    <3>6. conn[m].state = "lost" /\ ~(m = l /\ c.k = "close") => conn'[m].state = "lost"
      BY <1>7, <3>4
    <3> QED
      BY <1>5, <3>1, <3>2, <3>3, <3>5, <3>6 DEF At
  <2> QED
    BY <2>1, <2>2, <2>3, <2>4 DEF Apart
<1>17. ASSUME NEW v \in Tasks \ {h} PROVE Sound(v)'
  <2>1. Sound(v) /\ task'[v] = task[v] /\ task[v].fd \in Links /\ ~At(v, "read") /\ holder # v
    BY <1>1, <1>5, TaskIs DEF InTime, Aligned
  <2>2. Coming(v)' = Coming(v)
    BY <2>1 DEF Coming, At
  <2>3. Unasked(v)' => Unasked(v)
    BY <1>5, <2>1 DEF Unasked, At
  <2>4. Owning(v) => conn'[task[v].fd] = conn[task[v].fd]
    <3>1. Owning(v) /\ Owning(h) => task[v].fd # l
      BY <1>4 DEF InTime, Apart
    <3> QED
      BY <1>7, <1>12, <1>14, <2>1, <3>1
  <2>5. Serving(v) => Owning(v)
    BY DEF Serving
  <2>6. Serving(v) /\ sock'[task[v].fd].closed => conn[task[v].fd].state = "lost"
    BY <1>5, <2>1, <2>5 DEF Sound
  <2> QED
    BY <1>5, <2>1, <2>2, <2>3, <2>4, <2>6, UnaskedOwns, SoundKept
<1>18. Sound(h)'
  <2>1. /\ Sound(h) /\ task'[h] = task[h] /\ sock' = sock
        /\ Owning(h)' = Owning(h) /\ Serving(h)' = Serving(h) /\ At(h, "close")' = At(h, "close")
    BY <1>5 DEF InTime, Owning, Serving, At
  <2>2. Unasked(h)' => conn'[l] = Closed
    <3>1. Unasked(h)' => c.k = "close"
      BY <1>1, <1>5, <1>11 DEF Unasked, At, Kinds
    <3> QED
      BY <1>6, <1>7, <3>1
  <2>3. ASSUME Serving(h), sock[l].closed PROVE x.state = "lost"
    <3>1. conn[l].state = "lost"
      BY <1>4, <2>1, <2>3 DEF Sound
    <3>2. c.k \notin {"open", "udp", "close"}
      BY <1>11, <1>13, <2>3, <3>1 DEF Serving, At
    <3> QED
      BY <1>4, <1>6, <1>11, <3>1, <3>2 DEF Kinds
  <2>4. ASSUME Serving(h) PROVE Numbered(h)'
    <3>1. Numbered(h) /\ Coming(h) = <<>>
      <4>1. \A i \in DOMAIN uart : uart[i].k # "data"
        BY <1>2 DEF Answers
      <4> QED
        BY <2>1, <2>4, <4>1, NothingComing DEF Sound
    <3>2. CASE c.k = "read"
      <4>1. FirstOf(uart, "data")' = {Len(uart) + 1}
        <5>1. \A i \in DOMAIN uart' : uart'[i].k = "data" <=> i = Len(uart) + 1
          BY <1>2, <1>6, <1>9, <1>10, <3>2 DEF Answers
        <5>2. \A j \in 1..(Len(uart) + 1) - 1 : uart'[j].k # "data"
          <6> SUFFICES ASSUME NEW j \in 1..(Len(uart) + 1) - 1 PROVE uart'[j].k # "data"
            OBVIOUS
          <6>1. j \in 1..Len(uart) + 1 /\ j # Len(uart) + 1
            BY <1>9
          <6> QED
            BY <1>9, <5>1, <6>1
        <5>3. Len(uart) + 1 \in DOMAIN uart'
          BY <1>9
        <5>4. \A i \in FirstOf(uart, "data")' : i = Len(uart) + 1
          BY <5>1 DEF FirstOf
        <5>5. Len(uart) + 1 \in FirstOf(uart, "data")'
          BY <5>1, <5>2, <5>3 DEF FirstOf
        <5> QED
          BY <5>4, <5>5
      <4>2. Coming(h)' = u.bytes
        <5>1. At(h, "read")'
          BY <1>5, <1>11, <3>2 DEF At
        <5>2. PICK k : k = Len(uart) + 1
          OBVIOUS
        <5>3. (CHOOSE i \in {k} : TRUE) = k
          OBVIOUS
        <5> QED
          BY <1>9, <4>1, <5>1, <5>2, <5>3 DEF Coming
      <4>3. PICK a, b, y : a = sock[l].ring /\ b = u.bytes /\ y = x.held
        OBVIOUS
      <4>4. a \in Seq(1..MaxBytes) /\ b \in Seq(1..MaxBytes) /\ y \in Seq(1..MaxBytes)
        BY <1>4, <1>6, <3>2, <4>3, SockTyped DEF Conns
      <4>5. (a \o b) \o y = (a \o <<>>) \o (b \o y)
        <5>1. (a \o b) \o y = a \o (b \o y)
          BY <4>4, ConcatAssociative, SMTT(30)
        <5>2. a \o <<>> = a
          BY <4>4, ConcatEmptySeq
        <5> QED
          BY <5>1, <5>2
      <4>6. OnTheWay(h) = (a \o <<>>) \o (b \o y)
        <5>1. conn[l].held = b \o y
          BY <1>4, <1>6, <3>2, <4>3
        <5> QED
          BY <1>4, <3>1, <4>3, <5>1 DEF OnTheWay
      <4>7. OnTheWay(h)' = (a \o b) \o y
        BY <1>4, <1>7, <2>1, <4>2, <4>3 DEF OnTheWay
      <4>8. OnTheWay(h)' = OnTheWay(h)
        BY <4>5, <4>6, <4>7
      <4>9. conn'[l].sent = conn[l].sent
        BY <1>4, <1>6, <1>7, <3>2
      <4> QED
        BY <1>4, <2>1, <3>1, <4>8, <4>9 DEF Numbered
    <3>3. CASE c.k # "read"
      <4>1. x.sent = conn[l].sent /\ x.held = conn[l].held
        <5>1. c.k # "close"
          BY <1>11, <2>4 DEF Serving, At
        <5>2. CASE c.k \in {"open", "udp"}
          BY <1>4, <1>6, <1>13, <5>2 DEF Closed
        <5>3. CASE c.k \in {"dns", "query", "send"}
          BY <1>4, <1>6, <5>3
        <5> QED
          BY <1>11, <3>3, <5>1, <5>2, <5>3 DEF Kinds
      <4>2. Coming(h)' = <<>>
        BY <1>5, <1>11, <3>3 DEF Coming, At
      <4>3. OnTheWay(h)' = OnTheWay(h)
        BY <1>4, <1>7, <2>1, <3>1, <4>1, <4>2 DEF OnTheWay
      <4> QED
        BY <1>4, <1>7, <2>1, <3>1, <4>1, <4>3 DEF Numbered
    <3> QED
      BY <3>2, <3>3
  <2> QED
    BY <1>4, <1>7, <2>1, <2>2, <2>3, <2>4 DEF Sound
<1> QED
  BY <1>15, <1>16, <1>17, <1>18 DEF InTime
-----------------------------------------------------------------------------
LEMMA InTimeInit == AtInit => InTime
<1> SUFFICES ASSUME AtInit PROVE InTime
  OBVIOUS
<1>1. \A t \in Tasks : task[t] = Unused /\ ~Owning(t) /\ ~Unasked(t) /\ ~At(t, "read")
  BY DEF AtInit, Unused, Owning, Unasked, At
<1>2. \A l \in Links : conn[l] = Closed /\ conn[l].state = "closed"
  BY DEF AtInit, Closed
<1>3. holder = None /\ cmds = <<>> /\ uart = <<>> /\ DOMAIN uart = {}
  BY DEF AtInit
<1>4. Aligned
  BY <1>1, <1>3 DEF Aligned
<1>5. Apart
  BY <1>1, <1>2, <1>3 DEF Apart
<1>6. \A t \in Tasks : Sound(t)
  <2>1. \A t \in Tasks : task[t].got = 0 /\ ~Serving(t)
    <3>1. Unused.got = 0
      BY DEF Unused
    <3> QED
      BY <1>1, <3>1 DEF Serving
  <2> QED
    BY <1>1, <2>1 DEF Sound
<1> QED
  BY <1>4, <1>5, <1>6 DEF InTime

LEMMA InTimeStep ==
  AtTyped /\ Behind /\ Whole /\ (late = 0 => InTime) /\ [AtNext]_atVars
    => (late' = 0 => InTime')
<1> SUFFICES ASSUME AtTyped, Behind, Whole, late = 0 => InTime, [AtNext]_atVars, late' = 0
             PROVE  InTime'
  OBVIOUS
<1>1. late = 0 /\ InTime /\ \A t \in Tasks : ~Timeout(t) /\ ~ReadLate(t) /\ ~ReadCut(t)
  BY LateGrows
<1>0. ~LateEnd
  BY <1>1 DEF LateEnd, Whole
<1>2. CASE UNCHANGED atVars
  <2>1. UNCHANGED <<sock, task, holder, cmds, uart, conn>>
    BY <1>2 DEF atVars
  <2>2. Aligned'
    BY <1>1, <2>1 DEF InTime, Aligned, Commanding, At, Space
  <2>3. Apart'
    BY <1>1, <2>1 DEF InTime, Apart, Owning, At
  <2>4. ASSUME NEW t \in Tasks PROVE Sound(t)'
    <3>1. Owning(t)' = Owning(t) /\ Serving(t)' = Serving(t) /\ Unasked(t)' = Unasked(t)
      BY <2>1 DEF Owning, Serving, Unasked, At
    <3>2. Coming(t)' = Coming(t)
      BY <2>1 DEF Coming, FirstOf, At
    <3>3. Numbered(t)' = Numbered(t)
      BY <2>1, <3>2 DEF Numbered, OnTheWay
    <3> QED
      BY <1>1, <2>1, <3>1, <3>3 DEF InTime, Sound
  <2> QED
    BY <2>2, <2>3, <2>4 DEF InTime
<1>3. CASE Modem
  BY <1>1, <1>3, ModemInTime
<1>4. ASSUME NEW l \in Links, Connected(l) \/ Arrives(l) \/ PeerCloses(l) PROVE InTime'
  BY <1>1, <1>4, NetworkInTime
<1>5. ASSUME NEW t \in Tasks, Begin(t) \/ Resolved(t) \/ Socket(t) \/ Opened(t) \/ OpenedUdp(t)
      PROVE  InTime'
  BY <1>1, <1>5, BeginInTime, ResolvedInTime, SocketInTime, OpenedInTime, OpenedUdpInTime
<1>6. ASSUME NEW t \in Tasks, Connect(t) \/ Send(t) \/ Close(t) \/ Eof(t) \/ Poll(t)
      PROVE  InTime'
  BY <1>1, <1>6, GoesInTime
<1>7. ASSUME NEW t \in Tasks,
             Sent(t) \/ CloseEnd(t) \/ Deliver(t) \/ Pending(t) \/ ReadChunk(t)
      PROVE  InTime'
  BY <1>1, <1>7, SentInTime, CloseEndInTime, DeliverInTime, PendingInTime, ReadChunkInTime
<1> QED
  BY <1>0, <1>1, <1>2, <1>3, <1>4, <1>5, <1>6, <1>7 DEF AtNext

\* A task that has a link gets its bytes in order.
LEMMA InTimeOrders == AtTyped /\ InTime => InOrder
<1> SUFFICES ASSUME AtTyped, InTime, NEW t \in Tasks, Holds(t)
             PROVE  LET w == OnTheWay(t)
                        m == conn[task[t].fd] IN
                    /\ \A i \in DOMAIN w : /\ w[i] \in task[t].got + 1 .. m.sent
                                           /\ \A j \in 1..i - 1 : w[j] < w[i]
                    /\ Len(w) = m.sent - task[t].got
  BY DEF InOrder
<1>1. Serving(t)
  BY DEF Holds, Serving, Owning, At
<1>2. PICK a \in Nat, b \in Nat : a = task[t].got /\ b = conn[task[t].fd].sent /\ a <= b
  <2>1. task[t].fd \in Links /\ task[t].got \in Nat
    BY TaskIs, AtSocketAssumption
  <2>2. \A l \in Links : conn[l].sent \in Nat
    <3>1. SUFFICES ASSUME NEW l \in Links PROVE conn[l].sent \in Nat
      OBVIOUS
    <3>2. conn[l].sent \in 0..MaxBytes
      BY SockTyped
    <3> QED
      BY <3>2, AtSocketAssumption
  <2>3. task[t].got <= conn[task[t].fd].sent
    BY <1>1 DEF InTime, Sound, Numbered
  <2> QED
    BY <2>1, <2>2, <2>3
<1>3. OnTheWay(t) = Up(a, b)
  BY <1>1, <1>2 DEF InTime, Sound, Numbered
<1>4. /\ DOMAIN Up(a, b) = 1..(b - a) /\ Len(Up(a, b)) = b - a
      /\ \A i \in 1..(b - a) : Up(a, b)[i] = a + i
  BY <1>2, UpLen
<1>5. ASSUME NEW i \in 1..(b - a)
      PROVE  /\ Up(a, b)[i] \in a + 1 .. b
             /\ \A j \in 1..i - 1 : Up(a, b)[j] < Up(a, b)[i]
  <2>1. Up(a, b)[i] = a + i
    BY <1>4
  <2>2. ASSUME NEW j \in 1..i - 1 PROVE Up(a, b)[j] = a + j
    <3>1. j \in 1..(b - a)
      BY <1>2
    <3> QED
      BY <1>4, <3>1
  <2> QED
    BY <1>2, <2>1, <2>2
<1> QED
  BY <1>2, <1>3, <1>4, <1>5

THEOREM InTimeInvariance == AtSpec => [](AtTyped /\ (late = 0 => InTime))
<1>1. AtInit => (late = 0 => InTime)
  BY InTimeInit
<1>2. AtTyped /\ Behind /\ Whole /\ (late = 0 => InTime) /\ [AtNext]_atVars
        => (late = 0 => InTime)'
  BY InTimeStep
<1> QED
  BY <1>1, <1>2, AtInvariance, PTL DEF AtSpec

\* While every answer was in time and read whole, every byte the peer sent reaches
\* the task once and in order, for any numbers of tasks and links, any ring and
\* any stream
\* (at_read_data_chunk, ring_write, ml_at_recv).
THEOREM InOrderCorrect == AtSpec => [](late = 0 => InOrder)
<1>1. AtTyped /\ (late = 0 => InTime) => (late = 0 => InOrder)
  BY InTimeOrders
<1> QED
  BY <1>1, InTimeInvariance, PTL

\* While every answer was in time and read whole, an end of file is that of the
\* task's own connection, and comes behind all that was received
\* (process_urc_line, ml_at_recv, ml_at_close).
THEOREM EofCorrect == AtSpec => EofIsReal
<1>1. AtTyped /\ (late = 0 => InTime) =>
        \A t \in Tasks : Eof(t) /\ late = 0 =>
          conn[task[t].fd].state = "lost" /\ sock[task[t].fd].ring = <<>>
  <2> SUFFICES ASSUME AtTyped, InTime, NEW t \in Tasks, Eof(t)
               PROVE  conn[task[t].fd].state = "lost" /\ sock[task[t].fd].ring = <<>>
    OBVIOUS
  <2>1. Serving(t)
    BY DEF Eof, Serving, Owning, At
  <2> QED
    BY <2>1 DEF Eof, InTime, Sound
<1> QED
  BY <1>1, InTimeInvariance, PTL DEF EofIsReal
=============================================================================
