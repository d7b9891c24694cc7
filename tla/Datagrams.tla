------------------------------ MODULE Datagrams ------------------------------
(* The way of a datagram between the UDP port of the node and those who use   *)
(* it: the zero-copy path with its two rings (ml_zerocopy.c), or the network  *)
(* reader task and its queues (ml_net_io.c), which the relay's reader fills   *)
(* as well, the manager task that drains both (ml_wg_mgr_task), and a UDP     *)
(* socket of the application inside the tunnel (ml_udp.c).  The rings have no *)
(* lock: the TCP/IP thread, the manager, the socket's receive task and the    *)
(* application each advance one end.  STUN datagrams are left out.            *)
EXTENDS Naturals, Sequences

CONSTANTS Size,     \* slots of a ring: ML_ZC_DISCO_RING_SIZE, ML_ZC_TX_POOL_SIZE, UDP_RX_QUEUE_SIZE
          Depth,    \* ML_DISCO_RX_QUEUE_DEPTH and ML_WG_RX_QUEUE_DEPTH
          MaxBox,   \* messages the TCP/IP thread's mailbox holds
          MaxIn     \* bound: datagrams that arrive

ASSUME DatagramsAssumption ==
  Size \in Nat \ {0, 1} /\ {Depth, MaxBox, MaxIn} \subseteq Nat \ {0}

VARIABLES
  zc,      \* the zero-copy path is used: the socket's port is a raw PCB
  left,    \* datagrams that may still arrive
  t,       \* where the TCP/IP thread is
  box,     \* its mailbox: slots of the pool to send, and Data for the tunnel
  w,       \* where the manager task is
  back,    \* where it goes on after an answer
  tail,    \* its copy of zc.rx_tail
  dq, wq,  \* datagrams in disco_rx_queue and wg_rx_queue
  disco,   \* zc.rx_ring
  pool,    \* zc.tx_pool
  ring,    \* rx_queue of the UDP socket; a slot that is 0 is not valid
  sock,    \* rx_sem, whether rx_cb is set, rx_running
  x,       \* where udp_rx_task is
  app,     \* where the application is in the socket's functions
  made,    \* datagrams that were put in: the number of the last
  done     \* datagrams that were taken out: the number of the last
vars == <<zc, left, t, box, w, back, tail, dq, wq, disco, pool, ring, sock, x, app, made, done>>

Data == Size
Kinds == {"disco", "tx", "data"}
Ring == [slot |-> [i \in 0..Size-1 |-> 0], head |-> 0, tail |-> 0]

\* microlink_udp_create: its receive task runs before there can be a callback.
NewSocket == [sem |-> 0, cb |-> FALSE, running |-> TRUE]

Init ==
  /\ zc \in BOOLEAN /\ left = MaxIn
  /\ t = "idle" /\ box = <<>> /\ w = "ring" /\ back = "queue" /\ tail = 0
  /\ dq = 0 /\ wq = 0 /\ disco = Ring /\ pool = Ring /\ ring = Ring
  /\ sock = NewSocket /\ x = "wait" /\ app = "idle"
  /\ made = [k \in Kinds |-> 0] /\ done = made

After(i) == (i + 1) % Size
IsFull(r) == After(r.head) = r.tail
IsEmpty(r) == r.head = r.tail
Fill(r, n) == [r EXCEPT !.slot[r.head] = n]
Publish(r) == [r EXCEPT !.head = After(@)]
Release(r) == [r EXCEPT !.tail = After(@)]

\* A datagram of this kind is put in a ring under the next number.
Number(k) == made[k] + 1
Made(k) == made' = [made EXCEPT ![k] = @ + 1]
\* One is taken out.
Takes(k, n) == done' = [done EXCEPT ![k] = n]

\* tcpip_callback and tcpip_input fail when the mailbox is full.
Post(m) == box' = IF Len(box) < MaxBox THEN Append(box, m) ELSE box

network == <<zc, left>>
manager == <<w, back, tail, dq, wq>>
socket == <<ring, sock, x, app>>
-----------------------------------------------------------------------------
(* zc_pcb_recv_cb, on the TCP/IP thread *)

Arrives == left > 0 /\ left' = left - 1 /\ UNCHANGED zc

\* Mutant of DiscoIn: the slot is visible before the datagram is in it.
MutDiscoIn ==
  /\ zc /\ t = "idle" /\ Arrives
  /\ IF IsFull(disco) THEN UNCHANGED <<disco, made, t>>
     ELSE disco' = Publish(disco) /\ Made("disco") /\ t' = "publish"
  /\ UNCHANGED <<box, manager, pool, socket, done>>

\* A DISCO packet is copied into the ring.
DiscoIn ==
  /\ zc /\ t = "idle" /\ Arrives
  /\ IF IsFull(disco) THEN UNCHANGED <<disco, made, t>>
     ELSE disco' = Fill(disco, Number("disco")) /\ Made("disco") /\ t' = "publish"
  /\ UNCHANGED <<box, manager, pool, socket, done>>

DiscoPublish ==
  /\ t = "publish" /\ disco' = Publish(disco) /\ t' = "idle"
  /\ UNCHANGED <<network, box, manager, pool, socket, made, done>>

\* A WireGuard packet is decrypted at once; netif->input is tcpip_input.
DirectIn ==
  /\ zc /\ t = "idle" /\ Arrives /\ Post(Data)
  /\ UNCHANGED <<t, manager, disco, pool, socket, made, done>>
-----------------------------------------------------------------------------
(* The network reader task and the relay's: queues that drop the newest *)

\* route_udp_packet: DISCO or WireGuard.
Route ==
  \/ dq' = (IF dq < Depth THEN dq + 1 ELSE dq) /\ UNCHANGED wq
  \/ wq' = (IF wq < Depth THEN wq + 1 ELSE wq) /\ UNCHANGED dq

\* ml_net_io_task, which has no such socket in the zero-copy path.
NetIo ==
  /\ ~zc /\ Arrives /\ Route
  /\ UNCHANGED <<t, box, w, back, tail, disco, pool, socket, made, done>>

\* route_derp_packet
Relay ==
  /\ Arrives /\ Route
  /\ UNCHANGED <<t, box, w, back, tail, disco, pool, socket, made, done>>
-----------------------------------------------------------------------------
(* ml_wg_mgr_task *)

RingBegin ==
  /\ w = "ring"
  /\ IF zc THEN tail' = disco.tail /\ w' = "drain" ELSE w' = "queue" /\ UNCHANGED tail
  /\ UNCHANGED <<network, t, box, back, dq, wq, disco, pool, socket, made, done>>

\* A datagram may be a ping, which is answered: in the zero-copy path by the pool.
MayAnswer(from) ==
  \/ w' = from /\ UNCHANGED back
  \/ zc /\ w' = "pong" /\ back' = from

\* The slots are given back when all have been processed.
Drain ==
  /\ w = "drain"
  /\ IF tail = disco.head
     THEN disco' = [disco EXCEPT !.tail = tail] /\ w' = "queue" /\ UNCHANGED <<back, tail, done>>
     ELSE /\ Takes("disco", disco.slot[tail]) /\ tail' = After(tail)
          /\ MayAnswer("drain") /\ UNCHANGED disco
  /\ UNCHANGED <<network, t, box, dq, wq, pool, socket, made>>

DrainQueue ==
  /\ w = "queue"
  /\ IF dq = 0 THEN w' = "wg" /\ UNCHANGED <<back, dq>>
     ELSE dq' = dq - 1 /\ MayAnswer("queue")
  /\ UNCHANGED <<network, t, box, tail, wq, disco, pool, socket, made, done>>

\* Mutant of Pong: a full pool is not noticed.
MutPong ==
  /\ w = "pong"
  /\ pool' = Publish(Fill(pool, Number("tx"))) /\ Made("tx") /\ w' = "post"
  /\ UNCHANGED <<network, t, box, back, tail, dq, wq, disco, socket, done>>

\* ml_zerocopy_send
Pong ==
  /\ w = "pong"
  /\ IF IsFull(pool) THEN w' = back /\ UNCHANGED <<pool, made>>
     ELSE pool' = Publish(Fill(pool, Number("tx"))) /\ Made("tx") /\ w' = "post"
  /\ UNCHANGED <<network, t, box, back, tail, dq, wq, disco, socket, done>>

\* The slot is posted; nobody looks at whether the mailbox took it.
PostSend ==
  /\ w = "post" /\ w' = back
  /\ Post((pool.head + Size - 1) % Size)
  /\ UNCHANGED <<network, t, back, tail, dq, wq, disco, pool, socket, made, done>>

\* process_wg_packet: what it decrypts goes to the TCP/IP thread.
DrainWg ==
  /\ w = "wg"
  /\ IF wq = 0 THEN w' = "ring" /\ UNCHANGED <<wq, box>>
     ELSE wq' = wq - 1 /\ UNCHANGED w /\ (Post(Data) \/ UNCHANGED box)
  /\ UNCHANGED <<network, t, back, tail, dq, disco, pool, socket, made, done>>
-----------------------------------------------------------------------------
(* zc_send_in_tcpip *)

Send ==
  /\ t = "idle" /\ box # <<>> /\ Head(box) # Data
  /\ Takes("tx", pool.slot[Head(box)]) /\ box' = Tail(box) /\ t' = "sent"
  /\ UNCHANGED <<network, manager, disco, pool, socket, made>>

Sent ==
  /\ t = "sent" /\ pool' = Release(pool) /\ t' = "idle"
  /\ UNCHANGED <<network, box, manager, disco, socket, made, done>>
-----------------------------------------------------------------------------
(* udp_recv_cb *)

\* Mutant of DataIn: a full ring is not noticed.
MutDataIn ==
  /\ t = "idle" /\ box # <<>> /\ Head(box) = Data /\ box' = Tail(box)
  /\ IF app \in {"closing", "closed"} THEN UNCHANGED <<ring, made, t>>
     ELSE ring' = Fill(ring, Number("data")) /\ Made("data") /\ t' = "head"
  /\ UNCHANGED <<network, manager, disco, pool, sock, x, app, done>>

\* A ring that is full, or a socket that is being closed, takes nothing, and
\* nobody is told.
DataIn ==
  /\ t = "idle" /\ box # <<>> /\ Head(box) = Data /\ box' = Tail(box)
  /\ IF app \in {"closing", "closed"} \/ IsFull(ring) THEN UNCHANGED <<ring, made, t>>
     ELSE ring' = Fill(ring, Number("data")) /\ Made("data") /\ t' = "head"
  /\ UNCHANGED <<network, manager, disco, pool, sock, x, app, done>>

DataPublish ==
  /\ t = "head" /\ ring' = Publish(ring) /\ t' = "give"
  /\ UNCHANGED <<network, box, manager, disco, pool, sock, x, app, made, done>>

Give(s) == [s EXCEPT !.sem = IF @ < Size THEN @ + 1 ELSE @]

DataGive ==
  /\ t = "give" /\ sock' = Give(sock) /\ t' = "idle"
  /\ UNCHANGED <<network, box, manager, disco, pool, ring, x, app, made, done>>
-----------------------------------------------------------------------------
(* udp_rx_task *)

RxWait ==
  /\ x = "wait"
  /\ \/ sock.sem > 0 /\ sock' = [sock EXCEPT !.sem = @ - 1] /\ x' = "loop"
     \/ ~sock.running /\ x' = "gone" /\ UNCHANGED sock
  /\ UNCHANGED <<network, t, box, manager, disco, pool, ring, app, made, done>>

\* Mutant of RxLoop: one datagram for each time it is woken.
MutRxLoop ==
  /\ x = "loop"
  /\ IF IsEmpty(ring) \/ ~sock.cb THEN x' = "wait" /\ UNCHANGED <<ring, done>>
     ELSE Takes("data", ring.slot[ring.tail]) /\ x' = "last" /\ UNCHANGED ring
  /\ UNCHANGED <<network, t, box, manager, disco, pool, sock, app, made>>

\* Without a callback the datagrams are left for microlink_udp_recv.
RxLoop ==
  /\ x = "loop"
  /\ IF IsEmpty(ring) \/ ~sock.cb THEN x' = "wait" /\ UNCHANGED <<ring, done>>
     ELSE IF ring.slot[ring.tail] = 0 THEN ring' = Release(ring) /\ UNCHANGED <<x, done>>
     ELSE Takes("data", ring.slot[ring.tail]) /\ x' = "call" /\ UNCHANGED ring
  /\ UNCHANGED <<network, t, box, manager, disco, pool, sock, app, made>>

Consume(r) == Release([r EXCEPT !.slot[r.tail] = 0])

\* The callback returns.
RxDone ==
  /\ x \in {"call", "last"} /\ ring' = Consume(ring)
  /\ x' = IF x = "call" THEN "loop" ELSE "wait"
  /\ UNCHANGED <<network, t, box, manager, disco, pool, sock, app, made, done>>
-----------------------------------------------------------------------------
(* The application *)

\* microlink_udp_set_rx_callback; it is cleared while the receive task waits.
SetCallback ==
  /\ app = "idle" /\ (sock.cb => x = "wait")
  /\ sock' = [sock EXCEPT !.cb = ~@]
  /\ UNCHANGED <<network, t, box, manager, disco, pool, ring, x, app, made, done>>

\* microlink_udp_recv, by an application without a callback.
Recv ==
  /\ app = "idle" /\ ~sock.cb /\ ~IsEmpty(ring) /\ ring.slot[ring.tail] # 0
  /\ Takes("data", ring.slot[ring.tail]) /\ app' = "copied"
  /\ UNCHANGED <<network, t, box, manager, disco, pool, ring, sock, x, made>>

RecvDone ==
  /\ app = "copied" /\ ring' = Consume(ring) /\ app' = "idle"
  /\ UNCHANGED <<network, t, box, manager, disco, pool, sock, x, made, done>>

\* microlink_udp_close: no more datagrams, and the receive task is woken to end.
Close ==
  /\ app = "idle" /\ app' = "closing"
  /\ sock' = Give([sock EXCEPT !.running = FALSE])
  /\ UNCHANGED <<network, t, box, manager, disco, pool, ring, x, made, done>>

\* 150 ms are enough for the receive task and for a callback that had begun.
Closed ==
  /\ app = "closing" /\ x = "gone" /\ t \notin {"head", "give"} /\ app' = "closed"
  /\ UNCHANGED <<network, t, box, manager, disco, pool, ring, sock, x, made, done>>
-----------------------------------------------------------------------------
Tcpip == DiscoPublish \/ Send \/ Sent \/ DataIn \/ DataPublish \/ DataGive
Manager == RingBegin \/ Drain \/ DrainQueue \/ Pong \/ PostSend \/ DrainWg
RxTask == RxWait \/ RxLoop \/ RxDone
Application == SetCallback \/ Recv \/ RecvDone \/ Close \/ Closed

Next == DiscoIn \/ DirectIn \/ NetIo \/ Relay \/ Tcpip \/ Manager \/ RxTask \/ Application

Spec == Init /\ [][Next]_vars

\* The threads and tasks run; what the application does is its own choice.
FairSpec == Spec /\ WF_vars(Tcpip) /\ WF_vars(Manager) /\ WF_vars(RxTask) /\ WF_vars(Closed)
-----------------------------------------------------------------------------
\* Slots between two places of a ring, and a place some slots on.
Distance(a, b) == (b + Size - a) % Size
Place(from, i) == (from + i) % Size
RingType == [slot : [0..Size-1 -> Nat], head : 0..Size-1, tail : 0..Size-1]

\* The fields have their types; the queues stay within their depth.
TypeOK ==
  /\ zc \in BOOLEAN /\ left \in 0..MaxIn
  /\ t \in {"idle", "publish", "sent", "head", "give"}
  /\ box \in Seq(0..Data) /\ Len(box) <= MaxBox
  /\ w \in {"ring", "drain", "queue", "pong", "post", "wg"} /\ back \in {"drain", "queue"}
  /\ dq \in 0..Depth /\ wq \in 0..Depth /\ tail \in 0..Size-1
  /\ disco \in RingType /\ pool \in RingType /\ ring \in RingType
  /\ sock \in [sem : 0..Size, cb : BOOLEAN, running : BOOLEAN]
  /\ x \in {"wait", "loop", "call", "last", "gone"}
  /\ app \in {"idle", "copied", "closing", "closed"}
  /\ made \in [Kinds -> Nat] /\ done \in [Kinds -> Nat]

\* From this place to the head the ring holds what was put in after the last
\* that was taken out, nothing twice and nothing missing.
Holds(r, from, last) ==
  \A i \in 0..Distance(from, r.head)-1 : r.slot[Place(from, i)] = last + 1 + i

\* The manager reads the DISCO packets in the order they came, each once and
\* complete, while the TCP/IP thread writes (zc_pcb_recv_cb, ml_wg_mgr_task).
DiscoIntact ==
  LET from == IF w = "drain" \/ (w \in {"pong", "post"} /\ back = "drain") THEN tail ELSE disco.tail
  IN Holds(disco, from, done["disco"])
     /\ done["disco"] + Distance(from, disco.head) + (IF t = "publish" THEN 1 ELSE 0) = made["disco"]

\* What waits in the mailbox to be sent is in its slot of the pool, in order,
\* until it is sent (ml_zerocopy_send, zc_send_in_tcpip).
PoolIntact ==
  \A i \in DOMAIN box : box[i] # Data =>
    /\ pool.slot[box[i]] > done["tx"]
    /\ \A j \in 1..i-1 : box[j] # Data => pool.slot[box[j]] < pool.slot[box[i]]

\* The socket's datagrams reach the application in order, each once, by the
\* callback or by microlink_udp_recv (udp_recv_cb, udp_rx_task).
SocketIntact ==
  LET from == IF app = "copied" \/ x \in {"call", "last"} THEN After(ring.tail) ELSE ring.tail
  IN Holds(ring, from, done["data"])

\* The receive task, once it is told of a datagram, hands up all that wait, as
\* long as there is a callback (udp_rx_task).
HandedUp == sock.cb /\ sock.sem > 0 ~> IsEmpty(ring) \/ ~sock.cb \/ app = "closed"

\* With a callback registered no datagram waits for ever
\* (microlink_udp_set_rx_callback).
CallbackRuns == sock.cb /\ ~IsEmpty(ring) ~> IsEmpty(ring) \/ ~sock.cb \/ app = "closed"
=============================================================================
