------------------------------ MODULE Cellular ------------------------------
(* The SIM7600 modem driver (ml_cellular.c), as the network switch drives it:  *)
(* cellular_start brings the modem up and connects, over PPP or else over the  *)
(* AT socket bridge, and cellular_stop takes it down.  The modem has one UART  *)
(* for commands and PPP frames, read by one task at a time; PPP runs on lwIP's *)
(* thread and reports through the event loop's task.  A close of PPP that takes *)
(* longer than ml_cellular_ppp_stop waits leaves PPP behind without interface.  *)
EXTENDS Naturals, Sequences

CONSTANTS FastBaud,   \* the board raises the UART to 921600 baud
          MaxPosted   \* bound: PPP events the event loop has not handled

ASSUME CellularAssumption == FastBaud \in BOOLEAN /\ MaxPosted \in Nat \ {0}

VARIABLES
  pc,      \* where the network switch's task is
  to,      \* where it goes on after ml_cellular_ppp_stop and ml_cellular_deinit
  cell,    \* s_cell, and s_at.initialized of the socket bridge
  rx,      \* ppp_rx_task exists
  modem,   \* "data" while the modem takes bytes for PPP frames, else "cmd"
  bauds,   \* who is at 921600 baud, of "modem" and "uart"
  link,    \* PPP on lwIP's thread
  posted,  \* events posted and not handled, oldest first
  ghost,   \* PPP goes on although its interface was destroyed
  overdue, \* since the device started a close of PPP was not over in 15 s
  able     \* since cellular_start nothing the modem was asked failed
vars == <<pc, to, cell, rx, modem, bauds, link, posted, ghost, overdue, able>>

Reset ==
  [state |-> "OFF", uart |-> FALSE, registered |-> FALSE, mode |-> "NONE",
   netif |-> FALSE,     \* ppp_netif
   events |-> FALSE,    \* ppp_events
   handlers |-> FALSE,  \* ip_event_handler and ppp_status_handler
   bits |-> {},         \* the bits set in ppp_events
   running |-> FALSE,   \* ppp_running
   bridge |-> FALSE,
   left |-> {}]         \* what a call that failed did not release

\* The modem may be found in a call left by a program that crashed.
Init ==
  /\ pc = "idle" /\ to = "idle" /\ cell = Reset /\ rx = FALSE
  /\ modem \in {"cmd", "data"}
  /\ bauds \in IF FastBaud THEN {{}, {"modem"}} ELSE {{}}
  /\ link = "off" /\ posted = <<>> /\ able = TRUE
  /\ ghost = FALSE /\ overdue = FALSE

Set(r) == cell' = r
Goto(p) == pc' = p /\ UNCHANGED to
Calls(p, q) == pc' = p /\ to' = q
Return == Goto(IF to = "fallback" THEN "fallback" ELSE "uart_off")
Fails(p) == Goto(p) /\ able' = FALSE
orphan == <<ghost, overdue>>
ppp == <<link, posted, orphan>>

\* A command is understood and its answer not taken by ppp_rx_task.
Answered == modem = "cmd" /\ bauds \in {{}, {"modem", "uart"}} /\ ~rx
-----------------------------------------------------------------------------
(* ml_cellular_init *)

Start ==
  /\ pc = "idle" /\ able' = TRUE
  /\ IF cell.state # "OFF" THEN Goto("failed") /\ UNCHANGED <<cell, bauds>>
     ELSE /\ Goto("uart_init")
          /\ Set([cell EXCEPT !.state = "INIT", !.registered = FALSE])
          /\ bauds' = bauds \ {"uart"}
  /\ UNCHANGED <<rx, modem, ppp>>

\* uart_init
UartInit ==
  /\ pc = "uart_init"
  /\ \/ Set([cell EXCEPT !.uart = TRUE]) /\ Goto("ready") /\ UNCHANGED able
     \/ Fails("failed") /\ UNCHANGED cell
  /\ UNCHANGED <<rx, modem, bauds, ppp>>

\* modem_wait_ready: "+++" ends a call, and the other rates are tried.
Ready ==
  /\ pc = "ready"
  /\ \/ /\ modem' = "cmd"
        /\ bauds' = IF "modem" \in bauds THEN {"modem", "uart"} ELSE {}
        /\ Set([cell EXCEPT !.state = "AT_OK"])
        /\ Goto("baud") /\ UNCHANGED able
     \/ Fails("failed") /\ Set([cell EXCEPT !.state = "ERROR"]) /\ UNCHANGED <<modem, bauds>>
  /\ UNCHANGED <<rx, ppp>>

\* AT+IPR, the UART's own rate, and a command to see that both agree.  When it
\* is not answered the UART goes back, and cannot tell the modem to.
Baud ==
  /\ pc = "baud" /\ Goto("sim")
  /\ \/ bauds' = bauds /\ able' = able
     \/ /\ FastBaud /\ bauds = {}
        /\ \/ bauds' = {"modem", "uart"} /\ able' = able
           \/ bauds' = {"modem"} /\ able' = FALSE
  /\ UNCHANGED <<cell, rx, modem, ppp>>

\* sim_setup
Sim ==
  /\ pc = "sim"
  /\ \/ Answered /\ Set([cell EXCEPT !.state = "SIM_READY"]) /\ Goto("register") /\ UNCHANGED able
     \/ /\ Set([cell EXCEPT !.state = "ERROR"]) /\ Goto("failed")
        /\ able' = (able /\ ~Answered)
  /\ UNCHANGED <<rx, modem, bauds, ppp>>

\* network_register
Register ==
  /\ pc = "register"
  /\ \/ /\ Answered /\ Set([cell EXCEPT !.state = "REGISTERED", !.registered = TRUE])
        /\ Goto("connect") /\ UNCHANGED able
     \/ /\ Set([cell EXCEPT !.state = "ERROR"]) /\ Goto("failed")
        /\ able' = (able /\ ~Answered)
  /\ UNCHANGED <<rx, modem, bauds, ppp>>
-----------------------------------------------------------------------------
(* ml_cellular_connect *)

\* ppp_setup_and_dial, until the call: events, handlers and the interface.  When
\* one of the three is not to be had the ones before it stay.
PppSetup ==
  /\ pc = "connect"
  /\ IF cell.state = "REGISTERED"
     THEN \/ /\ Set([cell EXCEPT !.state = "PPP_CONNECTING", !.netif = TRUE, !.events = TRUE,
                                 !.handlers = TRUE, !.bits = {}])
             /\ Goto("dial")
          \/ /\ \E kept \in {{}, {"events"}, {"events", "handler"}} :
                  Set([cell EXCEPT !.events = "events" \in kept, !.bits = {},
                                   !.left = @ \cup kept])
             /\ Calls("ppp_stop", "fallback")
     ELSE Calls("ppp_stop", "fallback") /\ UNCHANGED cell
  /\ UNCHANGED <<rx, modem, bauds, ppp, able>>

\* ATD*99***1#, four times at most.  The CONNECT to the last may come later than
\* the 15 s it is given.
Dial ==
  /\ pc = "dial"
  /\ \/ /\ Answered
        /\ modem' = "data" /\ Set([cell EXCEPT !.running = TRUE]) /\ Goto("rx_task")
     \/ /\ Set([cell EXCEPT !.state = "ERROR"])
        /\ modem' \in IF Answered THEN {"cmd", "data"} ELSE {modem}
        /\ Calls("ppp_stop", "fallback")
  /\ UNCHANGED <<rx, bauds, ppp, able>>

\* The receive task, and then PPP's first frame.
RxTask ==
  /\ pc = "rx_task"
  /\ \/ rx' = TRUE /\ link' = "trying" /\ Goto("wait") /\ UNCHANGED cell
     \/ /\ Set([cell EXCEPT !.running = FALSE, !.state = "ERROR"])
        /\ Calls("ppp_stop", "fallback") /\ UNCHANGED <<rx, link>>
  /\ UNCHANGED <<modem, bauds, posted, orphan, able>>

\* An address, a refusal, or 30 s without either.
Wait ==
  /\ pc = "wait"
  /\ IF "GOT_IP" \in cell.bits THEN Goto("up") /\ Set([cell EXCEPT !.mode = "PPP"])
     ELSE /\ Set([cell EXCEPT !.running = FALSE])
          /\ Goto(IF "CHAP_FAIL" \in cell.bits THEN "refused" ELSE "timeout")
  /\ UNCHANGED <<rx, modem, bauds, ppp, able>>

\* 200 ms later.
GiveUp ==
  /\ pc \in {"refused", "timeout"}
  /\ Set([cell EXCEPT !.state = IF pc = "refused" THEN "REGISTERED" ELSE "ERROR"])
  /\ Calls("ppp_stop", "fallback")
  /\ UNCHANGED <<rx, modem, bauds, ppp, able>>

\* ml_cellular_data_start looks at the state; ERROR is above REGISTERED.
Registered == cell.state \notin {"OFF", "INIT", "AT_OK", "SIM_READY"}

\* ml_cellular_data_start with ml_at_socket_init, and what cellular_start does
\* when both ways fail.  A mutex made before AT+NETOPEN failed stays.
DataStart ==
  /\ pc = "fallback"
  /\ \/ /\ Registered /\ ~cell.running /\ ~cell.bridge /\ Answered
        /\ Set([cell EXCEPT !.bridge = TRUE, !.state = "DATA_CONNECTED", !.mode = "AT_SOCKET"])
        /\ Goto("up") /\ UNCHANGED able
     \/ LET tried == Registered /\ ~cell.running IN
        /\ \E kept \in IF tried /\ ~cell.bridge THEN {{}, {"mutex"}} ELSE {{}} :
             Set([cell EXCEPT !.state = IF tried THEN "ERROR" ELSE @, !.mode = "NONE",
                              !.left = @ \cup kept])
        /\ Calls("deinit", "failed")
        /\ able' = (able /\ ~(tried /\ ~cell.bridge /\ Answered))
  /\ UNCHANGED <<rx, modem, bauds, ppp>>
-----------------------------------------------------------------------------
(* ml_cellular_ppp_stop, for the fall-back and for ml_cellular_deinit *)

\* Mutant of PppStop: ppp_running stays set.
MutPppStop ==
  /\ pc = "ppp_stop"
  /\ IF cell.running \/ cell.netif THEN Goto("close") ELSE Return
  /\ UNCHANGED <<cell, rx, modem, bauds, ppp, able>>

\* The receive task is told to stop.
PppStop ==
  /\ pc = "ppp_stop"
  /\ IF cell.running \/ cell.netif THEN Set([cell EXCEPT !.running = FALSE]) /\ Goto("close")
     ELSE Return /\ UNCHANGED cell
  /\ UNCHANGED <<rx, modem, bauds, ppp, able>>

\* Its 500 ms are enough; then PPP is told to close.
PppClose ==
  /\ pc = "close" /\ ~rx
  /\ Set([cell EXCEPT !.bits = @ \ {"CLOSED"}])
  /\ link' = IF link = "off" THEN "off" ELSE "closing"
  /\ Goto("closing")
  /\ UNCHANGED <<rx, modem, bauds, posted, orphan, able>>

\* Handlers and interface go; PPP, if it is not done, goes on without.
Destroys ==
  /\ Set([cell EXCEPT !.handlers = FALSE, !.netif = FALSE, !.events = FALSE, !.bits = {}])
  /\ ghost' = (ghost \/ link # "off") /\ link' = "off"
  /\ Goto("escape")
  /\ UNCHANGED <<rx, modem, bauds, posted, able>>

\* Mutant of PppDestroy: it does not wait for PPP's thread.
MutPppDestroy == pc = "closing" /\ Destroys /\ UNCHANGED overdue

\* PPP has closed, or 15 s are over, in which the event loop has caught up.
PppDestroy ==
  /\ pc = "closing" /\ ("CLOSED" \in cell.bits \/ posted = <<>>)
  /\ overdue' = (overdue \/ ("CLOSED" \notin cell.bits /\ link # "off"))
  /\ Destroys

\* Mutant of Escape: without "+++" the commands go into the call.
MutEscape ==
  /\ pc = "escape" /\ posted = <<>>
  /\ Set([cell EXCEPT !.state = IF cell.registered THEN "REGISTERED" ELSE "AT_OK"])
  /\ Return
  /\ UNCHANGED <<rx, modem, bauds, ppp, able>>

\* "+++" and ATH; the event loop has caught up in its 2.2 s of guard time, which
\* the frames of a PPP left behind may spoil.
Escape ==
  /\ pc = "escape" /\ posted = <<>>
  /\ modem' \in IF ghost THEN {"cmd", modem} ELSE {"cmd"}
  /\ Set([cell EXCEPT !.state = IF cell.registered THEN "REGISTERED" ELSE "AT_OK"])
  /\ Return
  /\ UNCHANGED <<rx, bauds, ppp, able>>
-----------------------------------------------------------------------------
(* cellular_stop: ml_cellular_data_stop, then ml_cellular_deinit *)

\* Mutant of Stop: the bridge is left to ml_cellular_deinit.
MutStop ==
  /\ pc \in {"up", "failed"}
  /\ Calls("deinit", "idle")
  /\ UNCHANGED <<cell, rx, modem, bauds, ppp, able>>

Stop ==
  /\ pc \in {"up", "failed"}
  /\ IF cell.state = "DATA_CONNECTED"
     THEN Set([cell EXCEPT !.bridge = FALSE,
                 !.state = IF cell.registered THEN "REGISTERED" ELSE "AT_OK"])
     ELSE UNCHANGED cell
  /\ Calls("deinit", "idle")
  /\ UNCHANGED <<rx, modem, bauds, ppp, able>>

Deinit ==
  /\ pc = "deinit"
  /\ Goto(IF cell.state = "OFF" THEN to ELSE IF cell.running THEN "ppp_stop" ELSE "uart_off")
  /\ UNCHANGED <<cell, rx, modem, bauds, ppp, able>>

UartOff ==
  /\ pc = "uart_off"
  /\ Set([cell EXCEPT !.uart = FALSE, !.registered = FALSE, !.state = "OFF"])
  /\ Goto(to)
  /\ UNCHANGED <<rx, modem, bauds, ppp, able>>
-----------------------------------------------------------------------------
(* The receive task, PPP on lwIP's thread, and the event loop *)

\* ppp_rx_task leaves its loop.
RxExits ==
  /\ rx /\ ~cell.running /\ rx' = FALSE
  /\ UNCHANGED <<pc, to, cell, modem, bauds, ppp, able>>

Posts(events) ==
  /\ Len(posted) + Len(events) <= MaxPosted
  /\ posted' = posted \o events

\* PPP gets an address, is refused, breaks down or has closed.
Ppp ==
  /\ \/ link = "trying" /\ link' = "up" /\ Posts(<<"GOT_IP">>)
     \/ link = "trying" /\ link' = "off" /\ Posts(<<"CHAP_FAIL">>)
     \/ link = "trying" /\ link' = "off" /\ Posts(<<"CONNECT_FAIL">>)
     \/ link = "up" /\ link' = "off" /\ Posts(<<"LOST_IP", "CONNECT_FAIL">>)
     \/ /\ link = "closing" /\ link' = "off"
        /\ \E lost \in {<<>>, <<"LOST_IP">>} : Posts(lost \o <<"CLOSED">>)
  /\ UNCHANGED <<pc, to, cell, rx, modem, bauds, orphan, able>>

\* The device starts again; the modem does not.
Crash ==
  /\ pc' = "idle" /\ to' = "idle" /\ cell' = Reset /\ rx' = FALSE /\ UNCHANGED modem
  /\ bauds' = bauds \ {"uart"} /\ link' = "off" /\ posted' = <<>> /\ able' = TRUE
  /\ ghost' = FALSE /\ overdue' = FALSE

\* PPP on memory that was freed: it ends, with its events or without, or takes
\* the device down.
Ghost ==
  /\ ghost
  /\ \/ /\ \E e \in {<<>>, <<"CLOSED">>, <<"LOST_IP", "CLOSED">>} : Posts(e)
        /\ ghost' = FALSE
        /\ UNCHANGED <<pc, to, cell, rx, modem, bauds, link, overdue, able>>
     \/ Crash

\* Mutant of Handle: a lost address leaves the state.
MutHandle ==
  /\ posted # <<>> /\ posted' = Tail(posted)
  /\ IF ~cell.handlers THEN UNCHANGED cell
     ELSE Set([cell EXCEPT !.bits = @ \cup {Head(posted)},
                 !.state = IF Head(posted) = "GOT_IP" THEN "PPP_CONNECTED" ELSE @])
  /\ UNCHANGED <<pc, to, rx, modem, bauds, link, orphan, able>>

\* ppp_ip_event_handler and ppp_status_event_handler, while they are registered.
\* The first, if a set-up left it, hears of a lost address for ever, and sets its
\* bit in an event group that may be gone.
Handle ==
  LET e == Head(posted)
      stale == ~cell.handlers /\ "handler" \in cell.left /\ e = "LOST_IP" IN
  /\ posted # <<>>
  /\ IF stale /\ ~cell.events THEN Crash
     ELSE /\ posted' = Tail(posted)
          /\ IF cell.handlers \/ stale
             THEN Set([cell EXCEPT !.bits = @ \cup {e},
                         !.state = CASE e = "GOT_IP" -> "PPP_CONNECTED"
                                     [] e = "LOST_IP" -> "REGISTERED"
                                     [] OTHER -> @])
             ELSE UNCHANGED cell
          /\ UNCHANGED <<pc, to, rx, modem, bauds, link, orphan, able>>
-----------------------------------------------------------------------------
Starting == Start \/ UartInit \/ Ready \/ Baud \/ Sim \/ Register
Connecting == PppSetup \/ Dial \/ RxTask \/ Wait \/ GiveUp \/ DataStart
Stopping == PppStop \/ PppClose \/ PppDestroy \/ Escape \/ Deinit \/ UartOff

Next == Starting \/ Connecting \/ Stopping \/ Stop \/ RxExits \/ Ppp \/ Ghost \/ Handle

Spec == Init /\ [][Next]_vars

\* The task's calls have time limits, the receive task reads with one of 100 ms,
\* lwIP's FSM gives up after its retransmissions, and the event loop runs.
FairSpec ==
  Spec /\ WF_vars(Starting \/ Connecting \/ Stopping) /\ WF_vars(RxExits)
       /\ WF_vars(Ppp) /\ WF_vars(Handle)
-----------------------------------------------------------------------------
States == {"OFF", "INIT", "AT_OK", "SIM_READY", "REGISTERED", "PPP_CONNECTING",
           "PPP_CONNECTED", "DATA_CONNECTED", "ERROR"}
Events == {"GOT_IP", "LOST_IP", "CONNECT_FAIL", "CHAP_FAIL", "CLOSED"}
Rests == {"idle", "up", "failed"}
Cells ==
  [state : States, uart : BOOLEAN, registered : BOOLEAN,
   mode : {"NONE", "PPP", "AT_SOCKET"}, netif : BOOLEAN, events : BOOLEAN,
   handlers : BOOLEAN, left : SUBSET {"events", "handler", "mutex"},
   bits : SUBSET Events, running : BOOLEAN, bridge : BOOLEAN]

\* The fields have their types; ppp_running is set, and the receive
\* task feeds PPP, only while the interface exists.
TypeOK ==
  /\ pc \in Rests \cup {"uart_init", "ready", "baud", "sim", "register", "connect", "dial",
       "rx_task", "wait", "refused", "timeout", "fallback", "ppp_stop", "close",
       "closing", "escape", "deinit", "uart_off"}
  /\ to \in {"fallback", "failed", "idle"}
  /\ cell \in Cells
  /\ rx \in BOOLEAN /\ modem \in {"cmd", "data"} /\ bauds \in SUBSET {"modem", "uart"}
  /\ link \in {"off", "trying", "up", "closing"} /\ able \in BOOLEAN
  /\ ghost \in BOOLEAN /\ overdue \in BOOLEAN
  /\ posted \in Seq(Events) /\ Len(posted) <= MaxPosted
  /\ cell.running \/ rx => cell.netif

\* When cellular_stop returns there is no UART, interface, handler in use, receive
\* task or bridge, however starts failed and whatever PPP does; and the interface
\* is not destroyed under PPP on lwIP's thread, unless its close was overdue
\* (ml_cellular_deinit, ml_cellular_ppp_stop).  A set-up or a fall-back that failed
\* half way is not undone: see cell.left.
Released ==
  /\ pc = "idle" => /\ ~cell.uart /\ ~cell.netif /\ ~cell.handlers /\ ~cell.running /\ ~rx
                    /\ overdue \/ (cell.state = "OFF" /\ ~cell.bridge)
  /\ ghost => overdue

\* No earlier attempt, however it ended, makes a later one fail, as long as every
\* PPP closed in time: cellular_start fails only when the modem failed to do
\* something it was asked since it began (the state checks of ml_cellular_init,
\* ppp_start, data_start and ml_at_socket_init, and the UART rates).
StartSucceeds == pc = "failed" => ~able \/ overdue

\* Commands go to a modem that takes commands, unless a PPP left behind is in the
\* way, and their answers are not taken by the PPP receive task
\* (ppp_setup_and_dial, ml_cellular_ppp_stop, ml_at_socket_init).
CommandsReach ==
  pc \in {"sim", "register", "dial", "fallback"} => (modem = "cmd" \/ overdue) /\ ~rx

\* As long as every PPP closed in time, no late event of the PPP attempt before
\* changes the state while the bridge is used, and PPP counts as connected only
\* while it has an address (ppp_ip_event_handler).
UpIsReal ==
  pc = "up" /\ posted = <<>> /\ ~overdue =>
    /\ cell.mode = "AT_SOCKET" => cell.state = "DATA_CONNECTED" /\ cell.bridge
    /\ cell.mode = "PPP" /\ cell.state = "PPP_CONNECTED" => link = "up"

\* ml_cellular.c:936: "We MUST wait for that callback before destroying the
\* netif, otherwise the TCPIP thread accesses freed memory and crashes."
ClosedFirst == ~ghost

\* ml_cellular.h:137 of ml_cellular_data_stop: "Sends AT+NETCLOSE and
\* deinitializes the AT socket bridge."
BridgeGone == pc = "idle" => "mutex" \notin cell.left

\* Every start and stop comes to an end (the waits of ml_cellular_ppp_stop).
Ends == pc \notin Rests ~> pc \in Rests

\* A call ends, and what it says of the connection is true then.
Concludes == Ends /\ []UpIsReal
=============================================================================
