---------------------------- MODULE StreamServer ----------------------------
(***************************************************************************)
(* The ESPHome stream server (components/stream_server): one UART fanned   *)
(* out to the TCP clients through a ring buffer, and the clients' bytes    *)
(* written back to the UART.                                               *)
(*                                                                         *)
(* loop() is one pass  accept -> read -> flush -> write -> cleanup;  it    *)
(* runs on ESPHome's single loop thread, but the UART driver and the TCP   *)
(* stack run beside it, so every step below interleaves with theirs.       *)
(* Positions are size_t: they count modulo SizeMod (2^32 on the ESP32).    *)
(* The ring holds, in place of each byte, its position in the stream.      *)
(***************************************************************************)
EXTENDS Integers, Sequences, FiniteSets

CONSTANTS Clients,    \* connection slots of the TCP stack
          BufSize,    \* buf_size_, a power of two (validate_buffer_size)
          SizeMod,    \* number of values of size_t
          UartCap,    \* capacity of the UART driver's receive buffer
          MaxBytes,   \* bound: bytes the UART ever receives
          MaxIn       \* bound: unread bytes a client has in flight

ASSUME ConstAssumption ==
  /\ IsFiniteSet(Clients)
  /\ BufSize \in Nat \ {0}
  /\ SizeMod \in Nat
  /\ BufSize < SizeMod
  /\ SizeMod % BufSize = 0
  /\ UartCap \in Nat \ {0}
  /\ MaxBytes \in Nat
  /\ MaxIn \in Nat

VARIABLES
  head, tail,     \* buf_head_, buf_tail_
  buf,            \* buf_
  clients,        \* slots in clients_
  disconnected,   \* those with Client::disconnected set
  position,       \* Client::position
  sensor,         \* connection count last given to publish_sensor()
  pc,             \* the call loop() is in
  len,            \* read()'s len
  todo,           \* clients the loop of flush() or write() has yet to visit
  avail,          \* bytes in the UART driver
  received,       \* bytes the UART ever received
  net,            \* state of each TCP connection, as its socket reports it
  inq,            \* bytes a client sent that were not read yet
  sent            \* last chunk writev() accepted: <<client, bytes>>

serverVars == <<head, tail, buf, clients, disconnected, position, sensor>>
loopVars   == <<pc, len, todo>>
envVars    == <<avail, received, net, inq>>
vars       == <<head, tail, buf, clients, disconnected, position, sensor,
                pc, len, todo, avail, received, net, inq, sent>>

NetStates == {"idle", "backlog", "up", "fin", "rst", "dead"}
Passes    == {"accept", "read", "flush", "flushing", "writing", "cleanup", "down"}
NothingSent == <<>>
Size == 0..(SizeMod - 1)

-----------------------------------------------------------------------------
(* size_t arithmetic and the two ring helpers.                             *)

Add(a, b) == IF a + b < SizeMod THEN a + b ELSE a + b - SizeMod
Sub(a, b) == IF b <= a THEN a - b ELSE a - b + SizeMod
Least(a, b) == IF a <= b THEN a ELSE b

BufIndex(pos) == pos % BufSize
BufAhead(pos) == BufSize - BufIndex(pos)

Init ==
  /\ head = 0 /\ tail = 0
  /\ buf = [i \in 0..(BufSize - 1) |-> 0]
  /\ clients = {} /\ disconnected = {}
  /\ position = [c \in Clients |-> 0]
  /\ sensor = 0                      \* setup() ends with publish_sensor()
  /\ pc = "accept" /\ len = 0 /\ todo = {}
  /\ avail = 0 /\ received = 0
  /\ net = [c \in Clients |-> "idle"]
  /\ inq = [c \in Clients |-> 0]
  /\ sent = NothingSent

-----------------------------------------------------------------------------
(* accept()                                                                *)

AcceptNone ==
  /\ pc = "accept"
  /\ \A c \in Clients : net[c] # "backlog"
  /\ pc' = "read" /\ len' = 0
  /\ UNCHANGED <<serverVars, todo, envVars, sent>>

Accept(c) ==
  /\ pc = "accept"
  /\ net[c] = "backlog"
  /\ net' = [net EXCEPT ![c] = "up"]
  /\ clients' = clients \cup {c}
  /\ position' = [position EXCEPT ![c] = head]
  /\ sensor' = Cardinality(clients')
  /\ pc' = "read" /\ len' = 0
  /\ UNCHANGED <<head, tail, buf, disconnected, todo, avail, received, inq, sent>>

-----------------------------------------------------------------------------
(* read(): one action per iteration of its loop.                           *)

Free == Sub(BufSize, Sub(head, tail))

\* Positions of the clients after the tail moved up to t over their data.
Dropped(t) ==
  [c \in Clients |-> IF c \in clients /\ position[c] < t THEN t ELSE position[c]]

\* The ring with n bytes of the stream stored from position `from` on.
Fill(from, n) ==
  [i \in 0..(BufSize - 1) |->
     IF i \in BufIndex(from)..(BufIndex(from) + n - 1)
       THEN Add(from, i - BufIndex(from)) ELSE buf[i]]

ReadDone ==
  /\ pc = "read"
  /\ avail = 0 \/ (Free = 0 /\ len > 0)
  /\ pc' = "flush"
  /\ UNCHANGED <<serverVars, len, todo, envVars, sent>>

ReadSome ==
  /\ pc = "read"
  /\ avail > 0
  /\ ~(Free = 0 /\ len > 0)
  /\ LET full  == Free = 0
         free  == IF full THEN Least(avail, BufSize) ELSE Free
         tail2 == IF full THEN Add(tail, free) ELSE tail
         n     == Least(avail, Least(BufAhead(head), free))
     IN /\ tail' = tail2
        /\ position' = IF full THEN Dropped(tail2) ELSE position
        /\ buf' = Fill(head, n)
        /\ head' = Add(head, n)
        /\ avail' = avail - n
        /\ len' = n
  /\ UNCHANGED <<clients, disconnected, sensor, pc, todo, received, net, inq, sent>>

-----------------------------------------------------------------------------
(* flush(): the tail is recomputed from the clients one by one.            *)

FlushBegin ==
  /\ pc = "flush"
  /\ tail' = head
  /\ todo' = clients
  /\ pc' = "flushing"
  /\ UNCHANGED <<head, buf, clients, disconnected, position, sensor, len,
                 envVars, sent>>

\* The two parts of the scatter write: up to the end of the ring, and from its
\* start up to the head.
Iov0(c) == Least(Sub(head, position[c]), BufAhead(position[c]))
Iov1(c) == Sub(head, Add(position[c], Iov0(c)))

\* The first n bytes of the two parts, as read from the ring.
MutChunk(c, n) ==
  [i \in 1..n |-> IF i <= Iov0(c) THEN buf[BufIndex(position[c]) + i - 1]
                                  ELSE buf[i - 1]]
Chunk(c, n) ==
  [i \in 1..n |-> IF i <= Iov0(c) THEN buf[BufIndex(position[c]) + i - 1]
                                  ELSE buf[i - 1 - Iov0(c)]]

MutKeepForClient(p) == tail' = tail
KeepForClient(p) == tail' = Least(tail, p)

\* Nothing to write: continue.
FlushSkip(c) ==
  /\ pc = "flushing" /\ c \in todo
  /\ c \in disconnected \/ position[c] = head
  /\ todo' = todo \ {c}
  /\ UNCHANGED <<serverVars, pc, len, envVars, sent>>

\* writev() took n > 0 bytes.
FlushWrite(c, n) ==
  /\ pc = "flushing" /\ c \in todo
  /\ c \notin disconnected /\ position[c] # head
  /\ net[c] \in {"up", "fin"}
  /\ n \in 1..(Iov0(c) + Iov1(c))
  /\ sent' = <<c, Chunk(c, n)>>
  /\ position' = [position EXCEPT ![c] = Add(@, n)]
  /\ KeepForClient(position'[c])
  /\ todo' = todo \ {c}
  /\ UNCHANGED <<head, buf, clients, disconnected, sensor, pc, len, envVars>>

\* writev() reported ECONNRESET: the client no longer holds the tail back.
FlushReset(c) ==
  /\ pc = "flushing" /\ c \in todo
  /\ c \notin disconnected /\ position[c] # head
  /\ net[c] = "rst"
  /\ disconnected' = disconnected \cup {c}
  /\ todo' = todo \ {c}
  /\ UNCHANGED <<head, tail, buf, clients, position, sensor, pc, len, envVars, sent>>

\* EWOULDBLOCK, or any other error: only logged.
FlushNothing(c) ==
  /\ pc = "flushing" /\ c \in todo
  /\ c \notin disconnected /\ position[c] # head
  /\ net[c] \in {"up", "fin", "dead"}
  /\ KeepForClient(position[c])
  /\ todo' = todo \ {c}
  /\ UNCHANGED <<head, buf, clients, disconnected, position, sensor, pc, len,
                 envVars, sent>>

FlushEnd ==
  /\ pc = "flushing" /\ todo = {}
  /\ pc' = "writing" /\ todo' = clients
  /\ UNCHANGED <<serverVars, len, envVars, sent>>

-----------------------------------------------------------------------------
(* write(): drains every client that is still connected into the UART.     *)

WriteSkip(c) ==
  /\ pc = "writing" /\ c \in todo
  /\ c \in disconnected
  /\ todo' = todo \ {c}
  /\ UNCHANGED <<serverVars, pc, len, envVars, sent>>

\* The sockets whose read() ends with 0 or ECONNRESET.
MutEndOfStream(c) == net[c] = "rst"
EndOfStream(c) == net[c] \in {"fin", "rst"}

\* The inner loop reads until read() <= 0; a reset may discard unread bytes.
MutUnread(c) == {inq[c]}
Unread(c) == IF net[c] = "rst" THEN 0..inq[c] ELSE {0}

WriteDrain(c) ==
  /\ pc = "writing" /\ c \in todo
  /\ c \notin disconnected
  /\ \E left \in Unread(c) : inq' = [inq EXCEPT ![c] = left]
  /\ disconnected' = IF EndOfStream(c) THEN disconnected \cup {c} ELSE disconnected
  /\ todo' = todo \ {c}
  /\ UNCHANGED <<head, tail, buf, clients, position, sensor, pc, len,
                 avail, received, net, sent>>

WriteEnd ==
  /\ pc = "writing" /\ todo = {}
  /\ pc' = "cleanup"
  /\ UNCHANGED <<serverVars, len, todo, envVars, sent>>

-----------------------------------------------------------------------------
(* cleanup(), and the return to the top of loop()                          *)

MutPublishAfterCleanup(n) == sensor
PublishAfterCleanup(n) == IF disconnected = {} THEN sensor ELSE n

Cleanup ==
  /\ pc = "cleanup"
  /\ clients' = clients \ disconnected
  /\ disconnected' = {}
  /\ sensor' = PublishAfterCleanup(Cardinality(clients \ disconnected))
  /\ net' = [c \in Clients |-> IF c \in disconnected THEN "idle" ELSE net[c]]
  /\ inq' = [c \in Clients |-> IF c \in disconnected THEN 0 ELSE inq[c]]
  /\ pc' = "accept"
  /\ UNCHANGED <<head, tail, buf, position, len, todo, avail, received, sent>>

\* on_shutdown(), called between two passes; loop() is not called again.
Shutdown ==
  /\ pc = "accept"
  /\ pc' = "down"
  /\ net' = [c \in Clients |-> "idle"]
  /\ UNCHANGED <<serverVars, len, todo, avail, received, inq, sent>>

-----------------------------------------------------------------------------
(* The UART driver and the TCP peers.                                      *)

UartReceive ==
  /\ received < MaxBytes
  /\ avail < UartCap
  /\ avail' = avail + 1
  /\ received' = received + 1
  /\ UNCHANGED <<serverVars, loopVars, net, inq, sent>>

PeerConnect(c) ==
  /\ pc # "down"
  /\ net[c] = "idle"
  /\ net' = [net EXCEPT ![c] = "backlog"]
  /\ UNCHANGED <<serverVars, loopVars, avail, received, inq, sent>>

PeerSend(c) ==
  /\ net[c] \in {"backlog", "up"}
  /\ inq[c] < MaxIn
  /\ inq' = [inq EXCEPT ![c] = @ + 1]
  /\ UNCHANGED <<serverVars, loopVars, avail, received, net, sent>>

\* The peer closes (fin), resets (rst), or the connection is aborted with any
\* other error, such as a retransmission timeout (dead).
PeerEnd(c, how) ==
  /\ net[c] = "up" \/ (net[c] = "fin" /\ how # "fin")
  /\ net' = [net EXCEPT ![c] = how]
  /\ UNCHANGED <<serverVars, loopVars, avail, received, inq, sent>>

-----------------------------------------------------------------------------

FlushClient(c) ==
  \/ FlushSkip(c)
  \/ \E n \in 1..(Iov0(c) + Iov1(c)) : FlushWrite(c, n)
  \/ FlushReset(c)
  \/ FlushNothing(c)

Loop ==
  \/ AcceptNone
  \/ \E c \in Clients : Accept(c)
  \/ ReadDone
  \/ ReadSome
  \/ FlushBegin
  \/ \E c \in Clients : FlushClient(c)
  \/ FlushEnd
  \/ \E c \in Clients : WriteSkip(c) \/ WriteDrain(c)
  \/ WriteEnd
  \/ Cleanup

Environment ==
  \/ UartReceive
  \/ \E c \in Clients : PeerConnect(c)
  \/ \E c \in Clients : PeerSend(c)
  \/ \E c \in Clients : \E how \in {"fin", "rst", "dead"} : PeerEnd(c, how)

Next == Loop \/ Shutdown \/ Environment

Spec == Init /\ [][Next]_vars

\* ESPHome calls loop() again and again, and each of its steps ends.
FairSpec == Spec /\ WF_vars(Loop)

-----------------------------------------------------------------------------
(* Properties.                                                             *)

TypeOK ==
  /\ head \in Size /\ tail \in Size
  /\ buf \in [0..(BufSize - 1) -> Size]
  /\ clients \in SUBSET Clients /\ disconnected \in SUBSET clients
  /\ position \in [Clients -> Size]
  /\ sensor \in Nat
  /\ pc \in Passes /\ len \in 0..BufSize /\ todo \in SUBSET clients
  /\ avail \in 0..UartCap /\ received \in 0..MaxBytes
  /\ net \in [Clients -> NetStates]
  /\ inq \in [Clients -> 0..MaxIn]

\* Bytes a client has yet to be sent are still in the ring: the reader of the
\* UART never laps a client without moving its position (read() against
\* flush()'s tail, which is stale between two flushes).
PendingIntact ==
  \A c \in clients \ disconnected :
    /\ position[c] <= head
    /\ head - position[c] <= BufSize
    /\ \A k \in position[c]..(head - 1) : buf[BufIndex(k)] = k

\* flush() splits a write as its comment says: the second part runs from the
\* start of the ring up to the head, so it never passes the head's slot.
SecondPartEndsAtHead ==
  pc = "flushing" =>
    \A c \in todo \ disconnected :
      position[c] # head => Iov0(c) + Iov1(c) <= BufSize

\* Between two passes the published connection count is the number of clients.
SensorCounts == pc = "accept" => sensor = Cardinality(clients)

\* A client that closed in an orderly way is only dropped once everything it
\* sent was written to the UART.
OrderlyCloseDrained ==
  \A c \in disconnected : net[c] = "fin" => inq[c] = 0

\* A pass leaves no client half gone: the count is that of those who are left,
\* and who left in order was heard out.
CleanedUp == SensorCounts /\ OrderlyCloseDrained

\* One slow client costs no other client a byte: positions are moved over
\* unsent bytes only for clients that the waiting bytes would lap.
DropsOnlyLapped ==
  [][\A c \in clients \ disconnected :
       (pc = "read" /\ position'[c] # position[c]) =>
          head + avail - position[c] > BufSize]_vars

\* A client whose peer closed or reset is eventually removed, however the bytes
\* it is still owed and the slow clients around it stand.
ClosedIsRemoved ==
  \A c \in Clients :
    (net[c] \in {"fin", "rst"})
      ~> (c \notin clients \/ net[c] = "dead" \/ pc = "down")

Fanout == INSTANCE SerialFanout WITH
  Cap <- BufSize, taken <- head, waiting <- avail,
  attached <- clients, cursor <- position, sent <- sent

\* Each client reads the UART's stream through its cursor, and skips only
\* bytes it would have been lapped on.
ImplementsFanout == Fanout!Spec

=============================================================================
