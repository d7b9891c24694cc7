---------------------------- MODULE CoordProofs ----------------------------
(***************************************************************************)
(* Proofs about Coord, for any addresses, limits and faults: the types,    *)
(* the window of the map stream, and that no connection is lost. The       *)
(* connection may be held in a state that opens a new one only after a     *)
(* stop, which the loop sees before it goes on; and a frame that is taken  *)
(* has cost the credit it gives back.                                      *)
(***************************************************************************)
EXTENDS Coord, TLAPS

Places   == {"wifi", "top", "body", "derp", "recv", "backoff", "gone"}
SetUp    == {"NOISE_HANDSHAKE", "H2_PREFACE", "REGISTER", "FETCH_PEERS"}
Apart    == {"IDLE", "STUN_PROBE", "TCP_CONNECT"}
States   == SetUp \cup Apart \cup {"LONG_POLL", "RECONNECTING"}
Statuses == {"WIFI_WAIT", "IDLE", "CONNECTING", "REGISTERING", "CONNECTED", "RECONNECTING"}
Frames   == [kind : {"map", "alive", "long"}, addr : Addrs, cut : BOOLEAN]
Commands == {"connect", "disconnect", "force"}

(* The task: only a stop asks it to disconnect, and what it waits for says *)
(* how far the connection has come.                                        *)
TaskInv(a, s, t, c, x) ==
  /\ a \in Places /\ s \in States /\ t \in Statuses
  /\ c \in Seq(Commands) /\ Len(c) <= Depth
  /\ \A i \in 1..Len(c) : c[i] = "disconnect" => x
  /\ a = "wifi" => s = "IDLE"
  /\ a = "derp" => s = "FETCH_PEERS"
  /\ a = "recv" => s = "LONG_POLL"
  /\ a = "backoff" => s = "RECONNECTING"

(* The connection: open in the states before it is set up only after a     *)
(* stop, when the loop is about to end.                                    *)
ConnInv(a, s, x, c, o) ==
  /\ o = IF c THEN 1 ELSE 0
  /\ a \in {"wifi", "gone"} => ~c
  /\ s \in Apart /\ c => a = "top" /\ x

(* The stream: a frame on its way has cost a credit.                       *)
StreamInv(a, s, w, r, d) ==
  /\ w = <<>> \/ \E f \in Frames : w = <<f>>
  /\ r \in 0..Room
  /\ w # <<>> => r < Room
  /\ s \in SetUp /\ (a = "derp" => ~d) => w = <<>> /\ r = Room
  /\ a = "recv" => w # <<>>

ClockInv(g, i, v, n) ==
  /\ g \in 0..Stale + 1 /\ i \in 0..Watchdog + 1
  /\ v \in Addrs \cup {None} /\ n \in Addrs \cup {None, Temp}

IInv ==
  /\ TaskInv(at, state, status, cmds, shutdown)
  /\ ConnInv(at, state, shutdown, conn, open)
  /\ StreamInv(at, state, wire, room, streamed)
  /\ ClockInv(age, idle, vpn_ip, netif)
  /\ address \in Addrs

-----------------------------------------------------------------------------
LEMMA Bounds ==
  /\ Depth \in Nat \ {0} /\ Watchdog \in Nat /\ Stale \in Nat /\ Alive \in Nat
  /\ Room \in Nat \ {0}
  BY CoordAssumption

(* The commands that are left when one is taken or one is posted.          *)
LEMMA TailCommands ==
  ASSUME NEW c \in Seq(Commands), Len(c) <= Depth, c # <<>>, NEW x,
         \A i \in 1..Len(c) : c[i] = "disconnect" => x
  PROVE  /\ Tail(c) \in Seq(Commands) /\ Len(Tail(c)) <= Depth
         /\ \A i \in 1..Len(Tail(c)) : Tail(c)[i] = "disconnect" => x
         /\ Head(c) \in Commands /\ (Head(c) = "disconnect" => x)
  BY Bounds

LEMMA PostedCommands ==
  ASSUME NEW c \in Seq(Commands), Len(c) <= Depth, NEW x, NEW n \in Commands,
         n = "disconnect" => x,
         \A i \in 1..Len(c) : c[i] = "disconnect" => x,
         NEW d, d = IF Len(c) < Depth THEN Append(c, n) ELSE c
  PROVE  /\ d \in Seq(Commands) /\ Len(d) <= Depth
         /\ \A i \in 1..Len(d) : d[i] = "disconnect" => x
<1>1. CASE Len(c) < Depth
  <2>1. d = Append(c, n)
    BY <1>1
  <2>2. d \in Seq(Commands) /\ Len(d) = Len(c) + 1
    BY <2>1
  <2>3. \A i \in 1..Len(d) : d[i] = IF i = Len(d) THEN n ELSE c[i]
    BY <2>1
  <2>4. \A i \in 1..Len(d) : i = Len(d) \/ i \in 1..Len(c)
    BY <2>2
  <2> QED  BY <1>1, <2>2, <2>3, <2>4, Bounds
<1>2. CASE ~(Len(c) < Depth)
  BY <1>2
<1> QED  BY <1>1, <1>2

(* The stream holds one frame at most.                                     *)
LEMMA OneFrame ==
  ASSUME NEW w, w # <<>>, w = <<>> \/ \E f \in Frames : w = <<f>>
  PROVE  /\ Tail(w) = <<>> /\ Head(w) \in Frames
         /\ \E f \in Frames : [w EXCEPT ![1].cut = TRUE] = <<f>>
<1>1. PICK f \in Frames : w = <<f>>
  OBVIOUS
<1> DEFINE g == [f EXCEPT !.cut = TRUE]
<1>2. g \in Frames
  BY DEF Frames
<1>3. [w EXCEPT ![1].cut = TRUE] = [<<f>> EXCEPT ![1] = g]
  BY <1>1
<1> HIDE DEF g
<1>4. [<<f>> EXCEPT ![1] = g] = <<g>>
  OBVIOUS
<1> QED  BY <1>1, <1>2, <1>3, <1>4

LEMMA InitInv == Init => IInv
<1> SUFFICES ASSUME Init PROVE IInv
  OBVIOUS
<1>1. TaskInv(at, state, status, cmds, shutdown)
  BY Bounds DEF Init, TaskInv, Places, States, Apart, Statuses
<1>2. ConnInv(at, state, shutdown, conn, open)
  BY DEF Init, ConnInv
<1>3. StreamInv(at, state, wire, room, streamed)
  BY Bounds DEF Init, StreamInv, SetUp
<1>4. ClockInv(age, idle, vpn_ip, netif) /\ address \in Addrs
  BY Bounds DEF Init, ClockInv
<1> QED  BY <1>1, <1>2, <1>3, <1>4 DEF IInv

(* Closing leaves no connection, and a stream as good as new.              *)
LEMMA CloseInv ==
  ASSUME IInv, Close, NEW a, NEW s, NEW x, NEW d, a # "recv"
  PROVE  ConnInv(a, s, x, conn', open') /\ StreamInv(a, s, wire', room', d)
<1>1. open' = 0 /\ ~conn'
  BY DEF IInv, ConnInv, Close
<1>2. ConnInv(a, s, x, conn', open')
  BY <1>1 DEF ConnInv
<1>3. StreamInv(a, s, wire', room', d)
  BY Bounds DEF Close, StreamInv
<1> QED  BY <1>2, <1>3

(* A step that leaves the connection and the stream alone.                 *)
LEMMA LinkSame ==
  ASSUME IInv, UNCHANGED <<conn, open, wire, room, streamed>>, NEW a, NEW s, NEW x,
         shutdown => x,
         conn => a \notin {"wifi", "gone"},
         s \in Apart /\ conn => a = "top" /\ x,
         s \in SetUp /\ (a = "derp" => ~streamed)
           => \/ state \in SetUp /\ (at = "derp" => ~streamed)
              \/ wire = <<>> /\ room = Room,
         a = "recv" => wire # <<>>
  PROVE  ConnInv(a, s, x, conn', open') /\ StreamInv(a, s, wire', room', streamed')
<1>1. ConnInv(a, s, x, conn', open')
  BY DEF IInv, ConnInv
<1>2. StreamInv(a, s, wire', room', streamed')
  BY DEF IInv, StreamInv
<1> QED  BY <1>1, <1>2

-----------------------------------------------------------------------------
(* The steps of the task.                                                  *)

LEMMA TopStep == IInv /\ (Wifi \/ Top) => IInv'
<1> SUFFICES ASSUME IInv, Wifi \/ Top PROVE IInv'
  OBVIOUS
<1>1. UNCHANGED <<shutdown, age, idle, vpn_ip, netif, streamed, address>>
  BY DEF Wifi, Top, Exit, Stopping, clock, env, ours
<1>2. ClockInv(age, idle, vpn_ip, netif)' /\ address' \in Addrs
  BY <1>1 DEF IInv, ClockInv
<1>3. CASE Wifi
  <2>1. TaskInv(at, state, status, cmds, shutdown)'
    BY <1>3 DEF IInv, TaskInv, Wifi, ours, Places
  <2>2. /\ UNCHANGED <<conn, open, wire, room, streamed, state>>
        /\ at = "wifi" /\ ~conn /\ state = "IDLE" /\ at' \in {"top", "gone"}
    BY <1>3 DEF IInv, Wifi, link, ConnInv, TaskInv, env
  <2>3. ConnInv(at, state, shutdown, conn, open)' /\ StreamInv(at, state, wire, room, streamed)'
    BY <1>1, <2>2, LinkSame DEF SetUp
  <2> QED  BY <1>2, <2>1, <2>3 DEF IInv
<1>4. CASE Top /\ Stopping /\ Exit
  <2>1. TaskInv(at, state, status, cmds, shutdown)'
    BY <1>1, <1>4 DEF IInv, TaskInv, Exit, Places
  <2>2. Close /\ at' = "gone"
    BY <1>4 DEF Exit
  <2>3. ConnInv(at, state, shutdown, conn, open)' /\ StreamInv(at, state, wire, room, streamed)'
    BY <2>2, CloseInv
  <2> QED  BY <1>2, <2>1, <2>3 DEF IInv
<1>5. CASE Top /\ ~Stopping
  <2>1. /\ at = "top" /\ at' = "body" /\ ~shutdown
        /\ \/ UNCHANGED <<state, status, link, cmds>>
           \/ cmds # <<>> /\ cmds' = Tail(cmds) /\ Command(Head(cmds))
    BY <1>5 DEF Top, Stopping
  <2>2. conn => state \notin Apart
    BY <2>1 DEF IInv, ConnInv
  <2>3. CASE UNCHANGED <<state, status, link, cmds>>
    <3>1. TaskInv(at, state, status, cmds, shutdown)'
      BY <1>1, <2>1, <2>3 DEF IInv, TaskInv, Places
    <3>2. ConnInv(at, state, shutdown, conn, open)' /\ StreamInv(at, state, wire, room, streamed)'
      BY <1>1, <2>1, <2>2, <2>3, LinkSame DEF link
    <3> QED  BY <1>2, <3>1, <3>2 DEF IInv
  <2>4. CASE cmds # <<>> /\ cmds' = Tail(cmds) /\ Command(Head(cmds))
    <3>1. /\ cmds' \in Seq(Commands) /\ Len(cmds') <= Depth
          /\ \A i \in 1..Len(cmds') : cmds'[i] = "disconnect" => shutdown
          /\ Head(cmds) \in Commands /\ Head(cmds) # "disconnect"
      BY <2>1, <2>4, TailCommands DEF IInv, TaskInv
    <3>2. /\ UNCHANGED link
          /\ state' = state \/ state' = "RECONNECTING"
             \/ (state = "IDLE" /\ state' = "STUN_PROBE")
          /\ status' \in {status, "CONNECTING"}
      BY <2>4, <3>1 DEF Command, Commands
    <3>3. TaskInv(at, state, status, cmds, shutdown)'
      BY <1>1, <2>1, <3>1, <3>2 DEF IInv, TaskInv, Places, States, Statuses, Apart
    <3>4. ConnInv(at, state, shutdown, conn, open)' /\ StreamInv(at, state, wire, room, streamed)'
      BY <1>1, <2>1, <2>2, <3>2, LinkSame DEF link, SetUp, Apart
    <3> QED  BY <1>2, <3>3, <3>4 DEF IInv
  <2> QED  BY <2>1, <2>3, <2>4
<1> QED  BY <1>3, <1>4, <1>5 DEF Top
(* What the set-up of a connection leaves alone, and where it goes on.     *)
LEMMA SetUpInv ==
  ASSUME IInv, at = "body", at' = "top", state' \in States, status' \in Statuses,
         UNCHANGED <<cmds, shutdown, streamed, age, idle, netif, address>>,
         vpn_ip' \in Addrs \cup {None},
         ConnInv(at, state, shutdown, conn, open)',
         StreamInv(at, state, wire, room, streamed)'
  PROVE  IInv'
<1>1. TaskInv(at, state, status, cmds, shutdown)'
  BY DEF IInv, TaskInv, Places
<1>2. ClockInv(age, idle, vpn_ip, netif)' /\ address' \in Addrs
  BY DEF IInv, ClockInv
<1> QED  BY <1>1, <1>2 DEF IInv

(* On the way up there is no stream yet.                                   *)
LEMMA NoStream ==
  ASSUME IInv, state \in SetUp, at = "derp" => ~streamed
  PROVE  wire = <<>> /\ room = Room
  BY DEF IInv, StreamInv

(* Before that there is no connection in the loop's body.                  *)
LEMMA NoConnection ==
  ASSUME IInv, state \in Apart, at = "body"
  PROVE  ~conn
  BY DEF IInv, ConnInv

LEMMA ConnectStep == IInv /\ (Idle \/ StunProbe \/ TcpConnect) => IInv'
<1> SUFFICES ASSUME IInv, Idle \/ StunProbe \/ TcpConnect PROVE IInv'
  OBVIOUS
<1>1. /\ at = "body" /\ at' = "top" /\ state \in Apart /\ status' \in Statuses
      /\ UNCHANGED <<cmds, shutdown, streamed, age, idle, netif, address, vpn_ip>>
      /\ vpn_ip' \in Addrs \cup {None}
      /\ state' \in Apart \cup {"NOISE_HANDSHAKE", "RECONNECTING"}
  BY DEF Idle, StunProbe, TcpConnect, In, Goto, Retry, IInv, TaskInv, ClockInv, Apart,
         clock, ours, env
<1>2. ~conn /\ open = 0
  BY <1>1, NoConnection DEF IInv, ConnInv
<1>3. CASE UNCHANGED link /\ state' # "NOISE_HANDSHAKE"
  <2>1. ConnInv(at, state, shutdown, conn, open)' /\ StreamInv(at, state, wire, room, streamed)'
    BY <1>1, <1>2, <1>3, LinkSame DEF link, SetUp, Apart
  <2> QED  BY <1>1, <2>1, SetUpInv DEF States, SetUp
<1>4. CASE Open /\ state' = "NOISE_HANDSHAKE"
  <2>1. ConnInv(at, state, shutdown, conn, open)'
    BY <1>1, <1>2, <1>4 DEF ConnInv, Open, Apart
  <2>2. StreamInv(at, state, wire, room, streamed)'
    BY <1>1, <1>4, Bounds DEF StreamInv, Open
  <2> QED  BY <1>1, <2>1, <2>2, SetUpInv DEF States, SetUp
<1> QED  BY <1>3, <1>4 DEF Idle, StunProbe, TcpConnect, Goto, Retry

LEMMA HandshakeStep == IInv /\ (NoiseHandshake \/ H2Preface \/ Register) => IInv'
<1> SUFFICES ASSUME IInv, NoiseHandshake \/ H2Preface \/ Register PROVE IInv'
  OBVIOUS
<1>1. /\ at = "body" /\ at' = "top" /\ status' \in Statuses
      /\ state \in SetUp
      /\ UNCHANGED <<cmds, shutdown, streamed, age, idle, netif, address>>
  BY DEF NoiseHandshake, H2Preface, Register, In, Goto, GiveUp, Retry, IInv, TaskInv,
         SetUp, Statuses, clock, ours, env
<1>2. vpn_ip' \in Addrs \cup {None}
  BY DEF NoiseHandshake, H2Preface, Register, IInv, ClockInv, ours
<1>3. \/ GiveUp
      \/ /\ UNCHANGED <<conn, open, wire, room>>
         /\ state' \in {"H2_PREFACE", "REGISTER", "FETCH_PEERS"}
  BY DEF NoiseHandshake, H2Preface, Register, Goto, link
<1>4. CASE GiveUp
  <2>1. ConnInv(at, state, shutdown, conn, open)' /\ StreamInv(at, state, wire, room, streamed)'
    BY <1>1, <1>4, CloseInv DEF GiveUp
  <2>2. state' \in States
    BY <1>4 DEF GiveUp, Retry, Goto, States
  <2> QED  BY <1>1, <1>2, <2>1, <2>2, SetUpInv
<1>5. CASE /\ UNCHANGED <<conn, open, wire, room>>
           /\ state' \in {"H2_PREFACE", "REGISTER", "FETCH_PEERS"}
  <2>1. wire = <<>> /\ room = Room
    BY <1>1, NoStream
  <2>2. ConnInv(at, state, shutdown, conn, open)' /\ StreamInv(at, state, wire, room, streamed)'
    BY <1>1, <1>5, <2>1, LinkSame DEF Apart
  <2> QED  BY <1>1, <1>2, <1>5, <2>2, SetUpInv DEF States, SetUp
<1> QED  BY <1>3, <1>4, <1>5

(* The first netmap has taken a credit that was there.                     *)
LEMMA FetchStep == IInv /\ FetchPeers => IInv'
<1> SUFFICES ASSUME IInv, FetchPeers PROVE IInv'
  OBVIOUS
<1>1. /\ at = "body" /\ state = "FETCH_PEERS" /\ status' = status
      /\ UNCHANGED <<cmds, shutdown, streamed, age, idle, netif, address>>
  BY DEF FetchPeers, In, clock
<1>2. wire = <<>> /\ room = Room
  BY <1>1, NoStream DEF SetUp
<1>3. vpn_ip' \in Addrs \cup {None}
  BY DEF FetchPeers, FetchedNow, FromStream, FromNetmap, IInv, ClockInv
<1>4. CASE GiveUp
  <2>1. at' = "top" /\ state' = "RECONNECTING" /\ status' \in Statuses
    BY <1>1, <1>4 DEF GiveUp, Retry, Goto, IInv, TaskInv
  <2>2. ConnInv(at, state, shutdown, conn, open)' /\ StreamInv(at, state, wire, room, streamed)'
    BY <1>4, <2>1, CloseInv DEF GiveUp
  <2> QED  BY <1>1, <1>3, <2>1, <2>2, SetUpInv DEF States
<1>5. CASE at' = "derp" /\ UNCHANGED state /\ (FetchedNow \/ FromStream)
  <2>1. /\ UNCHANGED <<conn, open>>
        /\ \/ wire' = <<>> /\ room' = Room
           \/ wire' = <<>> /\ room' = Room - 1 /\ streamed
           \/ /\ wire' = <<[kind |-> "map", addr |-> address, cut |-> FALSE]>>
              /\ room' = Room - 1 /\ streamed
    BY <1>2, <1>5 DEF FetchedNow, FromStream, link
  <2>2. [kind |-> "map", addr |-> address, cut |-> FALSE] \in Frames
    BY DEF IInv, Frames
  <2>3. StreamInv(at, state, wire, room, streamed)'
    <3>1. PICK f \in Frames : f = [kind |-> "map", addr |-> address, cut |-> FALSE]
      BY <2>2
    <3>2. wire' = <<>> \/ wire' = <<f>>
      BY <2>1, <3>1
    <3>3. room' \in 0..Room /\ (wire' # <<>> => room' < Room)
      BY <2>1, Bounds
    <3>4. at' = "derp" /\ (streamed \/ (wire' = <<>> /\ room' = Room)) /\ streamed' = streamed
      BY <1>1, <1>5, <2>1
    <3> QED  BY <3>2, <3>3, <3>4 DEF StreamInv
  <2>4. ConnInv(at, state, shutdown, conn, open)'
    BY <1>1, <1>5, <2>1 DEF IInv, ConnInv, Apart
  <2>5. TaskInv(at, state, status, cmds, shutdown)'
    BY <1>1, <1>5 DEF IInv, TaskInv, Places
  <2>6. ClockInv(age, idle, vpn_ip, netif)' /\ address' \in Addrs
    BY <1>1, <1>3 DEF IInv, ClockInv
  <2> QED  BY <2>3, <2>4, <2>5, <2>6 DEF IInv
<1> QED  BY <1>4, <1>5 DEF FetchPeers

LEMMA ConnectedStep == IInv /\ Connected => IInv'
<1> SUFFICES ASSUME IInv, Connected PROVE IInv'
  OBVIOUS
<1>1. /\ at = "derp" /\ at' = "top" /\ state' = "LONG_POLL" /\ status' = "CONNECTED"
      /\ age' = 0 /\ idle' = 0 /\ state = "FETCH_PEERS"
      /\ UNCHANGED <<conn, open, cmds, shutdown, streamed, netif, address, vpn_ip>>
  BY DEF Connected, Goto, ours, env, IInv, TaskInv
<1>2. TaskInv(at, state, status, cmds, shutdown)'
  BY <1>1 DEF IInv, TaskInv, Places, States, Statuses
<1>3. ConnInv(at, state, shutdown, conn, open)'
  BY <1>1 DEF IInv, ConnInv, Apart
<1>4. ClockInv(age, idle, vpn_ip, netif)' /\ address' \in Addrs
  BY <1>1, Bounds DEF IInv, ClockInv
<1>5. CASE Answers /\ ~streamed
  <2>1. wire = <<>> /\ room = Room
    BY <1>1, <1>5, NoStream DEF SetUp
  <2>2. [kind |-> "map", addr |-> address, cut |-> FALSE] \in Frames
    BY DEF IInv, Frames
  <2>3. /\ room' = Room - 1
        /\ wire' = <<[kind |-> "map", addr |-> address, cut |-> FALSE]>>
    BY <1>5, <2>1 DEF Connected
  <2>4. StreamInv(at, state, wire, room, streamed)'
    BY <1>1, <2>2, <2>3, Bounds DEF StreamInv, SetUp
  <2> QED  BY <1>2, <1>3, <1>4, <2>4 DEF IInv
<1>6. CASE ~(Answers /\ ~streamed)
  <2>1. wire' = wire /\ room' = room
    BY <1>6 DEF Connected
  <2>2. StreamInv(at, state, wire, room, streamed)'
    BY <1>1, <2>1 DEF IInv, StreamInv, SetUp
  <2> QED  BY <1>2, <1>3, <1>4, <2>2 DEF IInv
<1> QED  BY <1>5, <1>6
-----------------------------------------------------------------------------
(* The map stream.                                                         *)

LEMMA TakeInv ==
  ASSUME IInv, wire # <<>>, Take(Head(wire)), state = "LONG_POLL"
  PROVE  /\ at' = "top" /\ state' = state /\ vpn_ip' \in Addrs \cup {None}
         /\ StreamInv("top", "LONG_POLL", wire', room', streamed')
         /\ age' \in 0..Stale + 1
<1>1. Tail(wire) = <<>> /\ Head(wire) \in Frames
  BY OneFrame DEF IInv, StreamInv
<1>2. wire' = <<>> /\ room' \in {room, room + 1}
  BY <1>1 DEF Take, Credit
<1>3. room \in 0..Room /\ room < Room
  BY DEF IInv, StreamInv
<1>4. room' \in 0..Room
  BY <1>2, <1>3, Bounds
<1>5. StreamInv("top", "LONG_POLL", wire', room', streamed')
  BY <1>2, <1>4 DEF StreamInv, SetUp
<1>6. vpn_ip' \in Addrs \cup {None} /\ age' \in 0..Stale + 1
  BY <1>1, Bounds DEF Take, Frames, IInv, ClockInv
<1> QED  BY <1>5, <1>6 DEF Take

(* What a step on the stream may do to the rest.                           *)
LEMMA StreamStepInv ==
  ASSUME IInv, state = "LONG_POLL", at' \in {"top", "recv"},
         state' \in {"LONG_POLL", "RECONNECTING"}, at' = "recv" => state' = "LONG_POLL",
         UNCHANGED <<status, conn, open, cmds, shutdown, netif, address>>,
         vpn_ip' \in Addrs \cup {None}, age' \in 0..Stale + 1, idle' \in 0..Watchdog + 1,
         StreamInv(at, state, wire, room, streamed)'
  PROVE  IInv'
<1>1. TaskInv(at, state, status, cmds, shutdown)'
  BY DEF IInv, TaskInv, Places, States
<1>2. ConnInv(at, state, shutdown, conn, open)'
  BY DEF IInv, ConnInv, Apart
<1>3. ClockInv(age, idle, vpn_ip, netif)' /\ address' \in Addrs
  BY DEF IInv, ClockInv
<1> QED  BY <1>1, <1>2, <1>3 DEF IInv

LEMMA PollInv ==
  ASSUME IInv, Poll, state = "LONG_POLL", UNCHANGED streamed
  PROVE  /\ at' \in {"top", "recv"} /\ state' \in {"LONG_POLL", "RECONNECTING"}
         /\ at' = "recv" => state' = "LONG_POLL"
         /\ vpn_ip' \in Addrs \cup {None} /\ age' \in 0..Stale + 1
         /\ StreamInv(at, state, wire, room, streamed)'
<1>1. CASE wire # <<>> /\ Take(Head(wire))
  BY <1>1, TakeInv
<1>2. CASE /\ wire' = wire /\ room' = room /\ UNCHANGED <<vpn_ip, age>>
           /\ at' = "top" \/ (at' = "recv" /\ wire # <<>> /\ state' = state)
           /\ state' \in {"LONG_POLL", "RECONNECTING"}
  BY <1>2 DEF IInv, StreamInv, ClockInv, SetUp
<1>3. CASE wire # <<>> /\ Misread /\ wire' = Tail(wire) /\ UNCHANGED <<age, room, vpn_ip>>
  <2>1. wire' = <<>>
    BY <1>3, OneFrame DEF IInv, StreamInv
  <2> QED  BY <1>3, <2>1 DEF IInv, StreamInv, ClockInv, SetUp, Misread
<1>4. \/ wire = <<>> /\ at' = "top" /\ UNCHANGED <<state, age, room, vpn_ip, wire>>
      \/ wire = <<>> /\ Misread /\ UNCHANGED <<age, room, vpn_ip, wire>>
      \/ wire # <<>> /\ Take(Head(wire))
      \/ wire # <<>> /\ at' = "recv" /\ UNCHANGED <<state, age, room, vpn_ip, wire>>
      \/ wire # <<>> /\ Misread /\ wire' = Tail(wire) /\ UNCHANGED <<age, room, vpn_ip>>
  BY DEF Poll
<1> QED  BY <1>1, <1>2, <1>3, <1>4 DEF Misread

LEMMA LongPollStep == IInv /\ LongPoll => IInv'
<1> SUFFICES ASSUME IInv, LongPoll PROVE IInv'
  OBVIOUS
<1>1. /\ at = "body" /\ state = "LONG_POLL"
      /\ UNCHANGED <<status, conn, open, cmds, shutdown, netif, address, streamed>>
  BY DEF LongPoll, In, env
<1>2. CASE Retry /\ UNCHANGED <<clock, wire, room, vpn_ip>>
  <2>1. StreamInv(at, state, wire, room, streamed)'
    BY <1>1, <1>2 DEF Retry, Goto, IInv, StreamInv, SetUp
  <2>2. /\ vpn_ip' \in Addrs \cup {None} /\ age' \in 0..Stale + 1
        /\ idle' \in 0..Watchdog + 1
    BY <1>2 DEF clock, IInv, ClockInv
  <2> QED  BY <1>1, <1>2, <2>1, <2>2, StreamStepInv DEF Retry, Goto
<1>3. CASE Poll /\ (UNCHANGED <<pinged, idle>> \/ Ping)
  <2>1. idle' \in 0..Watchdog + 1
    BY <1>3, Bounds DEF Ping, IInv, ClockInv
  <2> QED  BY <1>1, <1>3, <2>1, PollInv, StreamStepInv
<1> QED  BY <1>2, <1>3 DEF LongPoll

LEMMA RecvStep == IInv /\ Recv => IInv'
<1> SUFFICES ASSUME IInv, Recv PROVE IInv'
  OBVIOUS
<1>1. /\ at = "recv" /\ state = "LONG_POLL" /\ wire # <<>>
      /\ UNCHANGED <<status, conn, open, cmds, shutdown, netif, address, streamed, idle>>
      /\ idle \in 0..Watchdog + 1
  BY DEF Recv, IInv, TaskInv, StreamInv, ClockInv
<1>2. CASE Take(Head(wire))
  BY <1>1, <1>2, TakeInv, StreamStepInv
<1>3. CASE /\ UNCHANGED <<age, room, vpn_ip>> /\ wire' \in {wire, Tail(wire)}
           /\ at' = "top" /\ state' \in {"LONG_POLL", "RECONNECTING"}
  <2>1. wire' \in {wire, <<>>}
    BY <1>1, <1>3, OneFrame DEF IInv, StreamInv
  <2>2. StreamInv(at, state, wire, room, streamed)'
    BY <1>1, <1>3, <2>1 DEF IInv, StreamInv, SetUp
  <2>3. vpn_ip' \in Addrs \cup {None} /\ age' \in 0..Stale + 1
    BY <1>3 DEF IInv, ClockInv
  <2> QED  BY <1>1, <1>3, <2>2, <2>3, StreamStepInv
<1> QED  BY <1>1, <1>2, <1>3 DEF Recv, Retry, Goto

LEMMA BackoffStep == IInv /\ (Reconnecting \/ Backoff) => IInv'
<1> SUFFICES ASSUME IInv, Reconnecting \/ Backoff PROVE IInv'
  OBVIOUS
<1>1. UNCHANGED <<shutdown, streamed, age, idle, netif, address, vpn_ip>>
  BY DEF Reconnecting, Backoff, clock, ours, env
<1>2. ClockInv(age, idle, vpn_ip, netif)' /\ address' \in Addrs
  BY <1>1 DEF IInv, ClockInv
<1>3. CASE Reconnecting
  <2>1. /\ at' = "backoff" /\ state = "RECONNECTING" /\ state' = state /\ cmds' = cmds
        /\ status' = "RECONNECTING" /\ UNCHANGED link
    BY <1>3 DEF Reconnecting, In, ours
  <2>2. TaskInv(at, state, status, cmds, shutdown)'
    BY <1>1, <2>1 DEF IInv, TaskInv, Places, Statuses
  <2>3. ConnInv(at, state, shutdown, conn, open)' /\ StreamInv(at, state, wire, room, streamed)'
    BY <1>1, <2>1, LinkSame DEF link, SetUp, Apart
  <2> QED  BY <1>2, <2>2, <2>3 DEF IInv
<1>4. CASE Backoff
  <2>1. /\ cmds' \in Seq(Commands) /\ Len(cmds') <= Depth
        /\ \A i \in 1..Len(cmds') : cmds'[i] = "disconnect" => shutdown
        /\ cmds # <<>> /\ Head(cmds) = "disconnect" => shutdown
    BY <1>4, TailCommands DEF Backoff, IInv, TaskInv
  <2>2. at' = "top" /\ state' \in {"IDLE", "STUN_PROBE"} /\ status' \in {status, "IDLE"}
    BY <1>4 DEF Backoff, Goto
  <2>3. TaskInv(at, state, status, cmds, shutdown)'
    BY <1>1, <2>1, <2>2 DEF IInv, TaskInv, Places, Statuses, States, Apart
  <2>4. CASE UNCHANGED link /\ shutdown
    <3>1. ConnInv(at, state, shutdown, conn, open)' /\ StreamInv(at, state, wire, room, streamed)'
      BY <1>1, <2>2, <2>4, LinkSame DEF link, SetUp, Apart
    <3> QED  BY <1>2, <2>3, <3>1 DEF IInv
  <2>5. CASE Close
    BY <1>2, <2>2, <2>3, <2>5, CloseInv DEF IInv
  <2> QED  BY <1>4, <2>1, <2>4, <2>5 DEF Backoff, Renew
<1> QED  BY <1>3, <1>4

-----------------------------------------------------------------------------
(* The others.                                                             *)

LEMMA OthersStep == IInv /\ (WgInit \/ SelfHeal \/ Connect \/ Rebind \/ Stop) => IInv'
<1> SUFFICES ASSUME IInv, WgInit \/ SelfHeal \/ Connect \/ Rebind \/ Stop PROVE IInv'
  OBVIOUS
<1>1. /\ UNCHANGED <<task, conn, open, wire, room, age, idle, vpn_ip, streamed, address>>
      /\ shutdown => shutdown'
  BY DEF WgInit, SelfHeal, Connect, Rebind, Stop, link, clock, ours, env
<1>2. UNCHANGED <<at, state, status>>
  BY <1>1 DEF task
<1>3. ConnInv(at, state, shutdown, conn, open)' /\ StreamInv(at, state, wire, room, streamed)'
  BY <1>1, <1>2 DEF IInv, ConnInv, StreamInv
<1>4. netif' \in Addrs \cup {None, Temp}
  BY DEF WgInit, SelfHeal, Connect, Rebind, Stop, IInv, ClockInv, Outdated
<1>5. ClockInv(age, idle, vpn_ip, netif)' /\ address' \in Addrs
  BY <1>1, <1>4 DEF IInv, ClockInv
<1>6. \/ cmds' = cmds
      \/ \E n \in Commands : /\ n = "disconnect" => shutdown'
                             /\ cmds' = IF Len(cmds) < Depth THEN Append(cmds, n) ELSE cmds
  BY DEF WgInit, SelfHeal, Connect, Rebind, Stop, Posted, Commands
<1>7. /\ cmds' \in Seq(Commands) /\ Len(cmds') <= Depth
      /\ \A i \in 1..Len(cmds') : cmds'[i] = "disconnect" => shutdown'
  <2>1. \A i \in 1..Len(cmds) : cmds[i] = "disconnect" => shutdown'
    BY <1>1 DEF IInv, TaskInv
  <2>2. CASE cmds' = cmds
    BY <2>1, <2>2 DEF IInv, TaskInv
  <2>3. ASSUME NEW n \in Commands, n = "disconnect" => shutdown',
               cmds' = IF Len(cmds) < Depth THEN Append(cmds, n) ELSE cmds
        PROVE  /\ cmds' \in Seq(Commands) /\ Len(cmds') <= Depth
               /\ \A i \in 1..Len(cmds') : cmds'[i] = "disconnect" => shutdown'
    BY <2>1, <2>3, PostedCommands DEF IInv, TaskInv
  <2> QED  BY <1>6, <2>2, <2>3
<1>8. TaskInv(at, state, status, cmds, shutdown)'
  BY <1>2, <1>7 DEF IInv, TaskInv
<1> QED  BY <1>3, <1>5, <1>8 DEF IInv

LEMMA WorldStep == IInv /\ (Network \/ Server \/ Tick) => IInv'
<1> SUFFICES ASSUME IInv, Network \/ Server \/ Tick PROVE IInv'
  OBVIOUS
<1>1. UNCHANGED <<at, state, status, cmds, shutdown, conn, open, vpn_ip, netif, streamed>>
  BY DEF Network, Server, Tick, task, link, ours, env
<1>2. TaskInv(at, state, status, cmds, shutdown)' /\ ConnInv(at, state, shutdown, conn, open)'
  BY <1>1 DEF IInv, TaskInv, ConnInv
<1>3. CASE Network
  <2>1. room' = room /\ address' = address /\ UNCHANGED <<age, idle>>
    BY <1>3 DEF Network, clock
  <2>2. \/ wire' = wire
        \/ wire' = <<>> /\ at # "recv"
        \/ wire # <<>> /\ wire' = [wire EXCEPT ![1].cut = TRUE]
    BY <1>3 DEF Network
  <2>3. StreamInv(at, state, wire, room, streamed)'
    <3>1. CASE wire # <<>> /\ wire' = [wire EXCEPT ![1].cut = TRUE]
      <4>1. PICK f \in Frames : wire' = <<f>>
        BY <3>1, OneFrame DEF IInv, StreamInv
      <4>2. /\ room \in 0..Room /\ room < Room
            /\ ~(state \in SetUp /\ (at = "derp" => ~streamed))
        BY <3>1 DEF IInv, StreamInv
      <4> QED  BY <1>1, <2>1, <4>1, <4>2 DEF StreamInv
    <3>2. CASE wire' = wire \/ (wire' = <<>> /\ at # "recv")
      BY <1>1, <2>1, <3>2 DEF IInv, StreamInv
    <3> QED  BY <2>2, <3>1, <3>2
  <2> QED  BY <1>1, <1>2, <2>1, <2>3 DEF IInv, ClockInv
<1>4. CASE Server
  <2>1. UNCHANGED <<age, idle>> /\ address' \in Addrs /\ wire = <<>>
    BY <1>4 DEF Server, clock, IInv
  <2>2. \/ wire' = wire /\ room' = room
        \/ \E k \in {"alive", "long", "map"} : Send(k)
    BY <1>4 DEF Server
  <2>3. ASSUME NEW k \in {"alive", "long", "map"}, Send(k)
        PROVE  StreamInv(at, state, wire, room, streamed)'
    <3> DEFINE f == [kind |-> k, addr |-> address', cut |-> FALSE]
    <3>1. f \in Frames
      BY <2>1 DEF Frames
    <3>2. state = "LONG_POLL" /\ room > 0 /\ room' = room - 1 /\ wire' = Append(wire, f)
      BY <2>3 DEF Send, Live, Streaming
    <3> HIDE DEF f
    <3>3. wire' = <<f>> /\ room \in 0..Room
      BY <2>1, <3>2 DEF IInv, StreamInv
    <3>4. room' \in 0..Room /\ room' < Room
      BY <3>2, <3>3, Bounds
    <3> QED  BY <1>1, <3>1, <3>2, <3>3, <3>4 DEF StreamInv, SetUp
  <2>4. StreamInv(at, state, wire, room, streamed)'
    BY <1>1, <2>2, <2>3 DEF IInv, StreamInv
  <2> QED  BY <1>1, <1>2, <2>1, <2>4 DEF IInv, ClockInv
<1>5. CASE Tick
  <2>1. UNCHANGED <<wire, room, address>> /\ age' = Older(age, Stale)
        /\ idle' = Older(idle, Watchdog)
    BY <1>5 DEF Tick, link, env
  <2>2. age' \in 0..Stale + 1 /\ idle' \in 0..Watchdog + 1
    BY <2>1, Bounds DEF Older, IInv, ClockInv
  <2> QED  BY <1>1, <1>2, <2>1, <2>2 DEF IInv, ClockInv, StreamInv
<1> QED  BY <1>3, <1>4, <1>5

LEMMA StepInv == IInv /\ [Next]_vars => IInv'
<1>1. IInv /\ UNCHANGED vars => IInv'
  BY DEF vars, task, link, clock, ours, env, IInv, TaskInv, ConnInv, StreamInv, ClockInv
<1> QED  BY <1>1, TopStep, ConnectStep, HandshakeStep, FetchStep, ConnectedStep, LongPollStep,
            RecvStep, BackoffStep, OthersStep, WorldStep DEF Next, Task, Done

(* The loop of ml_coord_task() with its commands, the stream's window and  *)
(* the connection, whatever the network, the server and the application do.*)
THEOREM Invariance == Spec => []IInv
  BY InitInv, StepInv, PTL DEF Spec

(* The states, ages and addresses of the task; that the server's window is *)
(* never credited for more than was taken from it (poll_map_update).       *)
THEOREM TypeCorrect == Spec => []TypeOK
<1>1. IInv => TypeOK
  BY Bounds DEF IInv, TaskInv, ConnInv, StreamInv, ClockInv, TypeOK, Places, States, SetUp,
                Apart, Statuses
<1> QED  BY <1>1, Invariance, PTL

(* ml_coord_task() holds one connection at most and none when it has ended:*)
(* do_tcp_connect() never stores a new one over another.                   *)
THEOREM NoneLostCorrect == Spec => []NoneLost
<1>1. IInv => NoneLost
  BY DEF IInv, ConnInv, NoneLost
<1> QED  BY <1>1, Invariance, PTL
=============================================================================
