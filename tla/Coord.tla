------------------------------- MODULE Coord -------------------------------
(* The coordinator client (ml_coord.c): the task that connects to the control *)
(* server, registers, reads the netmap and then follows the map stream; its   *)
(* commands (microlink.c) and the WireGuard manager that takes the tailnet    *)
(* address from it (ml_wg_mgr.c).  The stream is a sequence of frames that    *)
(* can only be read from where the last one ended.  One unit of time is the   *)
(* interval of the task's PINGs.                                              *)
EXTENDS Naturals, Sequences

CONSTANTS Addrs,      \* the tailnet addresses the server may assign
          Depth,      \* ML_COORD_CMD_QUEUE_DEPTH
          Watchdog,   \* ML_CTRL_WATCHDOG_MS
          Stale,      \* ML_CTRL_STREAM_STALE_MS
          Alive,      \* the server sends something on the stream this often
          Room,       \* what the server may send on the stream without credit
          MaxFaults,  \* bound: things that go wrong on the way
          MaxMoves,   \* bound: changes of the address
          MaxRebinds, \* bound: calls of microlink_rebind
          Stoppable   \* the node may be stopped

ASSUME CoordAssumption ==
  /\ Depth \in Nat \ {0} /\ Watchdog \in Nat /\ Stale \in Nat /\ Alive \in Nat
  /\ Alive < Stale /\ Room \in Nat \ {0} /\ Stoppable \in BOOLEAN

None == "none"                  \* no address: vpn_ip is 0
Temp == "temp"                  \* 100.64.0.1, an interface made too early

VARIABLES
  at,        \* where the task is: "wifi", the "top" of its loop, its "body", the
             \* wait for the relay ("derp"), a payload ("recv"), "backoff", "gone"
  state,     \* coord_state_t
  status,    \* ml->state
  cmds, shutdown, registered,      \* coord_cmd_queue and two event bits
  conn,      \* coord_sock or coord_tls holds a connection
  open,      \* connections to the server that exist
  keyed,     \* ctrl_noise_pubkey_valid
  aligned,   \* the reader stands at a frame's start and the nonces agree
  vpn_ip, netif,                   \* netif: the interface's address, None without
  age, idle, \* since ctrl_stream_rx_ms and since last_activity_ms
  pinged,    \* the PING of this unit is sent
  up,        \* the server can be reached
  far,       \* the other end: "none", "open", "silent" or "closed"
  sess,      \* the server's map session for this connection
  wire,      \* frames on their way; a cut one has lost its rest for now
  room,      \* what is left of the stream's window
  streamed,  \* the server sends netmaps on the stream only (Headscale 0.26)
  address,   \* the address the server assigns
  used

task == <<at, state, status>>
link == <<conn, open, aligned, far, sess, wire, room>>
clock == <<age, idle, pinged>>
ours == <<cmds, shutdown, registered, keyed, vpn_ip, netif>>
env == <<up, streamed, address, used>>
vars == <<task, link, clock, ours, env>>

Init ==
  /\ at = "wifi" /\ state = "IDLE" /\ status = "WIFI_WAIT"
  /\ cmds = <<>> /\ shutdown = FALSE /\ registered = FALSE
  /\ conn = FALSE /\ open = 0 /\ keyed = FALSE /\ aligned = TRUE
  /\ vpn_ip = None /\ netif = None
  /\ age = 0 /\ idle = 0 /\ pinged = FALSE
  /\ up \in BOOLEAN /\ far = "none" /\ sess = FALSE /\ wire = <<>> /\ room = Room
  /\ streamed \in BOOLEAN /\ address \in Addrs
  /\ used = [starts |-> 0, faults |-> 0, moves |-> 0, rebinds |-> 0]

Spend(what, max) == used[what] < max /\ used' = [used EXCEPT ![what] = @ + 1]
Fault == Spend("faults", MaxFaults)

\* The other end reads what is sent and its answers arrive.
Answers == up /\ far = "open" /\ aligned
Streaming == Answers /\ sess /\ room > 0
Live == state = "LONG_POLL" /\ Streaming

-----------------------------------------------------------------------------
(* The connection.                                                           *)

\* ml_conn_close: whatever is held is closed, and with it goes the stream.
Close ==
  /\ conn' = FALSE /\ open' = IF conn THEN open - 1 ELSE open
  /\ far' = "none" /\ sess' = FALSE /\ wire' = <<>> /\ room' = Room /\ aligned' = TRUE

\* do_tcp_connect stores the new connection over the old one.
Open ==
  /\ conn' = TRUE /\ open' = open + 1
  /\ far' = "open" /\ sess' = FALSE /\ wire' = <<>> /\ room' = Room /\ aligned' = TRUE

SendFails == far = "closed"           \* coord_send, noise_send

\* A step of the connection's set-up ends in s, or gives it up.
Goto(s) == at' = "top" /\ state' = s
Retry == Goto("RECONNECTING")
GiveUp == Retry /\ Close

-----------------------------------------------------------------------------
(* The loop.                                                                 *)

Wifi ==
  /\ at = "wifi"
  /\ at' = IF shutdown THEN "gone" ELSE "top"
  /\ UNCHANGED <<state, status, link, clock, ours, env>>

\* Mutant of Stopping: only the wait for the network looks at the bit.
MutStopping == FALSE

\* The bit is looked at once in every turn of the loop.
Stopping == shutdown

\* The cleanup behind the loop.
Exit == at' = "gone" /\ Close /\ UNCHANGED <<state, status, cmds>>

\* One command is taken at the top of the loop.
Command(c) ==
  CASE c = "connect" ->
         /\ state' = IF state = "IDLE" THEN "STUN_PROBE" ELSE state
         /\ status' = IF state = "IDLE" THEN "CONNECTING" ELSE status
         /\ UNCHANGED link
    [] c = "disconnect" -> Close /\ state' = "IDLE" /\ status' = "IDLE"
    [] c = "force" -> state' = "RECONNECTING" /\ UNCHANGED <<status, link>>

Top ==
  /\ at = "top"
  /\ \/ Stopping /\ Exit
     \/ /\ ~Stopping /\ cmds = <<>> /\ at' = "body"
        /\ UNCHANGED <<state, status, link, cmds>>
     \/ /\ ~Stopping /\ cmds # <<>> /\ at' = "body" /\ cmds' = Tail(cmds)
        /\ Command(Head(cmds))
  /\ UNCHANGED <<clock, shutdown, registered, keyed, vpn_ip, netif, env>>

In(s) == at = "body" /\ state = s

Idle == In("IDLE") /\ Goto("IDLE") /\ UNCHANGED <<status, link, clock, ours, env>>

StunProbe ==
  In("STUN_PROBE") /\ Goto("TCP_CONNECT") /\ UNCHANGED <<status, link, clock, ours, env>>

TcpConnect ==
  /\ In("TCP_CONNECT")
  /\ \/ up /\ Open /\ Goto("NOISE_HANDSHAKE")
     \/ ~up /\ Retry /\ UNCHANGED link
  /\ UNCHANGED <<status, clock, ours, env>>

\* fetch_server_pubkey: a server of one's own is asked for its key, once, over
\* a connection that is closed again.
KeyKnown == keyed \/ ~streamed \/ up

\* The handshake; the frames the server sends unasked are read in one call, and
\* if that call ends within a frame the rest of it is never skipped.
NoiseHandshake ==
  /\ In("NOISE_HANDSHAKE") /\ status' = "REGISTERING"
  /\ keyed' = (keyed \/ (streamed /\ up))
  /\ \/ /\ KeyKnown /\ Answers /\ Goto("H2_PREFACE")
        /\ \/ UNCHANGED <<link, used>>
           \/ /\ Fault /\ aligned' = FALSE
              /\ UNCHANGED <<conn, open, far, sess, wire, room>>
     \/ ~(KeyKnown /\ Answers) /\ GiveUp /\ UNCHANGED used
  /\ UNCHANGED <<clock, cmds, shutdown, registered, vpn_ip, netif, up, streamed, address>>

\* The preface is sent; that the server answers is not waited for.
H2Preface ==
  /\ In("H2_PREFACE")
  /\ IF SendFails THEN GiveUp ELSE Goto("REGISTER") /\ UNCHANGED link
  /\ UNCHANGED <<status, clock, ours, env>>

\* RegisterRequest; without an answer, or with one that cannot be read, the
\* task goes on.  An answer may name the node's address.
Register ==
  /\ In("REGISTER")
  /\ IF SendFails THEN GiveUp /\ UNCHANGED vpn_ip
     ELSE /\ Goto("FETCH_PEERS") /\ UNCHANGED link
          /\ \/ UNCHANGED vpn_ip
             \/ Answers /\ vpn_ip' = address
  /\ UNCHANGED <<status, clock, cmds, shutdown, registered, keyed, netif, env>>

\* The node's address in a netmap counts only while there is none.
FromNetmap == vpn_ip' = IF vpn_ip = None THEN address ELSE vpn_ip

\* do_map_exchange, a MapRequest of its own: a server that streams netmaps, and
\* one that does not answer, both look empty.
FetchedNow == Answers /\ ~streamed /\ FromNetmap /\ UNCHANGED link

\* do_start_long_poll and do_map_exchange on the stream: the first netmap, for
\* which the stream's window is not credited; that it comes is not required.
FromStream ==
  \/ /\ Answers /\ streamed /\ FromNetmap
     /\ sess' = TRUE /\ room' = room - 1 /\ wire' = <<>>
     /\ UNCHANGED <<conn, open, far, aligned, used>>
  \/ /\ Answers /\ streamed /\ Fault
     /\ sess' = TRUE /\ room' = room - 1
     /\ wire' = <<[kind |-> "map", addr |-> address, cut |-> FALSE]>>
     /\ UNCHANGED <<conn, open, far, aligned, vpn_ip>>
  \/ ~Answers /\ UNCHANGED <<link, vpn_ip, used>>

\* The event is set whatever was read, then the relay is waited for.
FetchPeers ==
  /\ In("FETCH_PEERS")
  /\ \/ /\ SendFails /\ GiveUp /\ UNCHANGED <<registered, vpn_ip, used>>
     \/ /\ ~SendFails /\ at' = "derp" /\ UNCHANGED state /\ registered' = TRUE
        /\ \/ FetchedNow /\ UNCHANGED used
           \/ FromStream
     \/ /\ ~SendFails /\ Fault /\ GiveUp /\ UNCHANGED <<registered, vpn_ip>>
  /\ UNCHANGED <<status, clock, cmds, shutdown, keyed, netif, up, streamed, address>>

\* The relay is connected, or not, after 15 s.  The classic stream starts now,
\* its failure is not fatal; CONNECTED is reported to the application.
Connected ==
  /\ at = "derp" /\ Goto("LONG_POLL") /\ status' = "CONNECTED"
  /\ age' = 0 /\ idle' = 0
  /\ IF Answers /\ ~streamed
     THEN /\ sess' = TRUE /\ room' = room - 1
          /\ wire' = <<[kind |-> "map", addr |-> address, cut |-> FALSE]>>
     ELSE UNCHANGED <<sess, room, wire>>
  /\ UNCHANGED <<conn, open, aligned, far, pinged, ours, env>>

-----------------------------------------------------------------------------
(* The map stream.                                                           *)

\* Mutant of StreamSilent: the map stream has no watchdog of its own.
MutStreamSilent == FALSE
StreamSilent == age > Stale

Abandons == idle > Watchdog \/ StreamSilent

\* The PING; sending it counts as activity.
Ping == pinged' = TRUE /\ idle' = 0

\* Mutant of Credit: the connection's update is sent for the stream as well.
MutCredit == room + 2

\* The WINDOW_UPDATE after a frame of the stream.
Credit == room + 1

\* What a frame that was read whole does; a frame too long for one read is
\* dropped and what it took of the window is not given back.
Take(m) ==
  /\ at' = "top"
  /\ IF m.kind = "long" THEN UNCHANGED <<age, room>>
     ELSE age' = 0 /\ room' = Credit
  /\ vpn_ip' = IF m.kind = "map" THEN m.addr ELSE vpn_ip
  /\ wire' = Tail(wire)
  /\ UNCHANGED <<state, aligned>>

\* A read fails: the error is told from "no data yet" by an errno that may be
\* left over from an earlier call.
Misread == at' = "top" /\ state' \in {"LONG_POLL", "RECONNECTING"}

\* poll_map_update.
Poll ==
  \/ /\ wire = <<>> /\ far # "closed" /\ at' = "top"
     /\ UNCHANGED <<state, age, room, vpn_ip, wire, aligned>>
  \/ /\ wire = <<>> /\ far = "closed" /\ Misread
     /\ UNCHANGED <<age, room, vpn_ip, wire, aligned>>
  \/ wire # <<>> /\ aligned /\ ~Head(wire).cut /\ Take(Head(wire))
  \/ /\ wire # <<>> /\ aligned /\ Head(wire).cut /\ at' = "recv"
     /\ UNCHANGED <<state, age, room, vpn_ip, wire, aligned>>
  \/ /\ wire # <<>> /\ ~aligned /\ Misread /\ wire' = Tail(wire)
     /\ UNCHANGED <<age, room, vpn_ip, aligned>>

\* A netmap said that the key has expired, and there is an auth key to register
\* with; the check is made once a minute.
KeyExpired == Fault

LongPoll ==
  /\ In("LONG_POLL")
  /\ \/ /\ Abandons \/ (~pinged /\ SendFails)
        /\ Retry /\ UNCHANGED <<clock, wire, room, aligned, vpn_ip, used>>
     \/ ~Abandons /\ KeyExpired /\ Retry /\ UNCHANGED <<clock, wire, room, aligned, vpn_ip>>
     \/ /\ ~Abandons /\ (pinged \/ ~SendFails)
        /\ IF pinged THEN UNCHANGED <<pinged, idle>> ELSE Ping
        /\ Poll /\ UNCHANGED used
  /\ UNCHANGED <<status, conn, open, far, sess, cmds, shutdown, registered, keyed, netif,
                 up, streamed, address>>

\* noise_recv's payload.  It arrives; or in pieces too far apart, and what was
\* read of it is forgotten; or the connection fails; or nothing comes for so
\* long that the frame is given up as if it had not begun.
Recv ==
  /\ at = "recv"
  /\ \/ Answers /\ Take(Head(wire)) /\ UNCHANGED used
     \/ /\ Answers /\ Fault /\ aligned' = FALSE /\ at' = "top"
        /\ UNCHANGED <<state, age, room, vpn_ip, wire>>
     \/ /\ far = "closed" /\ Retry /\ UNCHANGED <<age, room, vpn_ip, wire, aligned, used>>
     \/ /\ ~Answers /\ far # "closed" /\ at' = "top" /\ aligned' = FALSE /\ wire' = Tail(wire)
        /\ UNCHANGED <<state, age, room, vpn_ip, used>>
  /\ UNCHANGED <<status, conn, open, far, sess, idle, pinged, cmds, shutdown, registered,
                 keyed, netif, up, streamed, address>>

Reconnecting ==
  /\ In("RECONNECTING") /\ at' = "backoff" /\ status' = "RECONNECTING"
  /\ UNCHANGED <<state, link, clock, ours, env>>

\* Mutant of Renew: the old connection is left for do_tcp_connect to replace.
MutRenew == UNCHANGED link
Renew == Close

\* The backoff ends, early if a command comes; "disconnect" leaves the
\* connection to the exit.
Backoff ==
  /\ at = "backoff"
  /\ cmds' = IF cmds = <<>> THEN cmds ELSE Tail(cmds)
  /\ IF cmds # <<>> /\ Head(cmds) = "disconnect"
     THEN Goto("IDLE") /\ status' = "IDLE" /\ UNCHANGED link
     ELSE Goto("STUN_PROBE") /\ Renew /\ UNCHANGED status
  /\ UNCHANGED <<clock, shutdown, registered, keyed, vpn_ip, netif, env>>

-----------------------------------------------------------------------------
(* The other tasks and the application.                                      *)

\* The WireGuard manager makes the interface when it sees the event.
WgInit ==
  /\ netif = None /\ registered /\ ~shutdown
  /\ netif' = IF vpn_ip = None THEN Temp ELSE vpn_ip
  /\ UNCHANGED <<task, link, clock, cmds, shutdown, registered, keyed, vpn_ip, env>>

\* Mutant of Outdated: no look at the address every 10 s.
MutOutdated == FALSE
Outdated == netif # None /\ vpn_ip # None /\ netif # vpn_ip

SelfHeal ==
  /\ Outdated /\ netif' = vpn_ip
  /\ UNCHANGED <<task, link, clock, cmds, shutdown, registered, keyed, vpn_ip, env>>

Posted(c) == cmds' = IF Len(cmds) < Depth THEN Append(cmds, c) ELSE cmds

\* microlink_start has made the tasks; the command comes after them.
Connect ==
  /\ Spend("starts", 1) /\ Posted("connect")
  /\ UNCHANGED <<task, link, clock, shutdown, registered, keyed, vpn_ip, netif, up, streamed,
                 address>>

\* The application has the handle when microlink_start has returned.
Started == used.starts = 1

Rebind ==
  /\ Started /\ status # "IDLE" /\ ~shutdown /\ Spend("rebinds", MaxRebinds)
  /\ registered' = FALSE /\ Posted("force")
  /\ UNCHANGED <<task, link, clock, shutdown, keyed, vpn_ip, netif, up, streamed, address>>

\* microlink_stop: the bit, the connection shut down, the task woken.
Stop ==
  /\ Started /\ Stoppable /\ ~shutdown /\ shutdown' = TRUE /\ Posted("disconnect")
  /\ far' = IF conn THEN "closed" ELSE far
  /\ UNCHANGED <<task, conn, open, aligned, sess, wire, room, clock, registered, keyed,
                 vpn_ip, netif, env>>

-----------------------------------------------------------------------------
(* The network and the server.                                               *)

Network ==
  /\ \/ up' = ~up /\ (up => Fault) /\ (~up => UNCHANGED used) /\ UNCHANGED <<far, sess, wire>>
     \/ /\ Fault /\ far = "open" /\ far' \in {"silent", "closed"} /\ UNCHANGED <<up, sess>>
        /\ wire' \in (IF at = "recv" THEN {wire} ELSE {wire, <<>>})
     \/ Fault /\ sess /\ sess' = FALSE /\ UNCHANGED <<up, far, wire>>
     \/ /\ Fault /\ at # "recv" /\ wire # <<>> /\ ~Head(wire).cut
        /\ wire' = [wire EXCEPT ![1].cut = TRUE] /\ UNCHANGED <<up, far, sess>>
  /\ UNCHANGED <<task, conn, open, aligned, room, clock, ours, streamed, address>>

Send(kind) ==
  /\ Live /\ room' = room - 1
  /\ wire' = Append(wire, [kind |-> kind, addr |-> address', cut |-> FALSE])

Server ==
  /\ wire = <<>>
  /\ \/ age = Alive /\ UNCHANGED <<address, used>> /\ Send("alive")
     \/ Fault /\ UNCHANGED address /\ Send("long")
     \/ /\ Spend("moves", MaxMoves) /\ address' \in Addrs \ {address}
        /\ (Send("map") \/ (~Live /\ UNCHANGED <<wire, room>>))
  /\ UNCHANGED <<task, conn, open, aligned, far, sess, clock, ours, up, streamed>>

\* Time passes while the task has nothing to do, or waits for a payload; a
\* server that is well sends something before Alive is over.
Older(a, limit) == IF a > limit THEN a ELSE a + 1
Tick ==
  /\ \/ /\ state = "LONG_POLL" /\ at \in {"top", "body"} /\ pinged /\ (wire = <<>> \/ ~aligned)
        /\ (Streaming => age < Alive)
     \/ at = "recv"
  /\ age' = Older(age, Stale) /\ idle' = Older(idle, Watchdog) /\ pinged' = FALSE
  /\ UNCHANGED <<task, link, ours, env>>

Done == at = "gone" /\ UNCHANGED vars

Task == \/ Wifi \/ Top \/ Idle \/ StunProbe \/ TcpConnect \/ NoiseHandshake \/ H2Preface
        \/ Register \/ FetchPeers \/ Connected \/ LongPoll \/ Recv \/ Reconnecting \/ Backoff
Next == \/ Task \/ WgInit \/ SelfHeal \/ Connect \/ Rebind \/ Stop \/ Network \/ Server \/ Tick \/ Done

\* The tasks run, time passes, a server that is well keeps its promise.
Fairness == WF_vars(Task) /\ WF_vars(WgInit) /\ WF_vars(SelfHeal) /\ WF_vars(Connect)
            /\ WF_vars(Tick) /\ WF_vars(Server)
Spec == Init /\ [][Next]_vars /\ Fairness

-----------------------------------------------------------------------------
(* Properties.                                                               *)

TypeOK ==
  /\ at \in {"wifi", "top", "body", "derp", "recv", "backoff", "gone"}
  /\ state \in {"IDLE", "STUN_PROBE", "TCP_CONNECT", "NOISE_HANDSHAKE", "H2_PREFACE",
                "REGISTER", "FETCH_PEERS", "LONG_POLL", "RECONNECTING"}
  /\ status \in {"WIFI_WAIT", "IDLE", "CONNECTING", "REGISTERING", "CONNECTED", "RECONNECTING"}
  /\ Len(cmds) <= Depth /\ open \in Nat /\ room \in 0 .. Room
  /\ age \in 0 .. Stale + 1 /\ idle \in 0 .. Watchdog + 1
  /\ vpn_ip \in Addrs \cup {None} /\ netif \in Addrs \cup {None, Temp}
  /\ at = "recv" => wire # <<>>

\* The task never holds more than the connection it knows: none is replaced
\* without being closed, through failed steps, forced reconnections, commands
\* that cut the backoff short and a stop, and none is left when it has ended.
NoneLost == open = (IF conn THEN 1 ELSE 0) /\ (at = "gone" => open = 0)

\* If the server can be reached from some time on, the task ends on a map
\* stream that lives: a session the server has dropped, a stream that can no
\* longer be read, one without credit and one that is silent are all given up,
\* although the task's own PINGs keep the transport's watchdog content.
Followed == state = "LONG_POLL" /\ Answers /\ sess /\ (room > 0 \/ wire # <<>>)
Recovers == <>[]up => <>[](Followed \/ shutdown)

\* The interface's address is in the end the one the control server's last
\* message gave, however early the interface was made.
AddressFollows == \A a \in Addrs : <>[](vpn_ip = a /\ netif # None) => <>[](netif = a)

\* Where the control connection and the interface end when the faults are over
\* (ml_coord_task, the self-heal of ml_wg_mgr_task).
Converges == Recovers /\ AddressFollows

\* The comment at the self-heal: it keeps the interface's address "in sync with
\* the control plane's VPN-IP assignment".
AddressCurrent ==
  \A a \in Addrs : <>[](up /\ address = a /\ ~shutdown) => <>[](netif = a)

\* Once told to stop the task ends.
Stops == shutdown ~> at = "gone"
=============================================================================
