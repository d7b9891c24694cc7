------------------------------ MODULE AtSocket ------------------------------
(* The socket layer over a SIM7600 modem (ml_at_socket.c).  Every operation   *)
(* is an AT command on one UART, under one mutex: it empties the receive      *)
(* queue, writes the command and reads until a final answer.  What the modem  *)
(* reports unasked (a URC: a connection made, closed by the peer, data that   *)
(* arrived) comes in the same byte stream and is seen only when the command   *)
(* in progress happens to read it.                                            *)
EXTENDS Naturals, Sequences

CONSTANTS Tasks,         \* the tasks that use sockets, each one socket at a time
          None,
          Links,         \* 0 .. AT_SOCK_MAX - 1: a socket's slot is its link
          Ring,          \* RX_RING_SIZE - 1: what a receive ring holds
          MaxBytes,      \* bound: bytes the peers send on one connection, and on
                         \* any two together
          Streams,       \* those that open TCP sockets
          Datagrams,     \* those that open UDP sockets
          MaxLate        \* bound: queries and reads whose answer misses
                         \* AT_TIMEOUT_MS or is not read whole, and commands the
                         \* modem is behind when one is written

ASSUME AtSocketAssumption ==
  /\ None \notin Tasks
  /\ Links \subseteq Nat /\ 0 \in Links
  /\ Ring \in Nat \ {0} /\ MaxBytes \in Nat
  /\ Streams \cup Datagrams = Tasks
  /\ MaxLate \in Nat

VARIABLES
  sock,    \* s_at.socks; a socket's type is with the task that opened it
  task,    \* where each task is in its operation, and the last byte it got
  holder,  \* s_at.at_mutex
  cmds,    \* commands the modem has not executed
  uart,    \* the UART's receive queue since the last uart_flush_input
  conn,   \* the modem's end of each link
  late,    \* answers that came too late, or were not read whole, so far
  cut      \* none: no bytes of a read were lost; coming: the end of an answer
           \* that was cut short is still to come; lost: it has come, or is late
atVars == <<sock, task, holder, cmds, uart, conn, late, cut>>

Blank == [used |-> FALSE, connected |-> FALSE, closed |-> FALSE,
          ok |-> FALSE,  \* connect_done && connect_ok
          ring |-> <<>>]

Unused == [pc |-> "dns", fd |-> 0, type |-> "TCP", got |-> 0]

Closed == [state |-> "closed", sent |-> 0, held |-> <<>>]

AtInit ==
  /\ sock = [l \in Links |-> Blank]
  /\ task = [t \in Tasks |-> Unused]
  /\ holder = None /\ cmds = <<>> /\ uart = <<>> /\ late = 0 /\ cut = "none"
  /\ conn = [l \in Links |-> Closed]
-----------------------------------------------------------------------------
(* AT commands *)

At(t, place) == task[t].pc = place
Goes(t, place) == task' = [task EXCEPT ![t].pc = place]

\* Empties the receive queue and writes the command.
Issue(k, l, n) ==
  /\ uart' = <<>>
  /\ cmds' = Append(cmds, [k |-> k, l |-> l, n |-> n])

\* Gives the mutex back.  The queue is emptied before it is read again.
Release == holder' = None /\ uart' = <<>>

\* What the task may have read when it stops at an answer of one of the kinds:
\* all up to the first, and what had arrived behind it.
Reads(kinds) ==
  {SubSeq(uart, 1, n) : n \in {k \in DOMAIN uart : \E i \in 1..k : uart[i].k \in kinds}}

\* "pending" and "data" stand for the answers to a query and to a read, which
\* end in OK as well.
Final == {"ok", "error", "pending", "data"}

\* Where the modem tells how opening a link ended, in what was read.
Opens(r, l) == {i \in DOMAIN r : r[i].k = "cipopen" /\ r[i].l = l}

\* ok of the last, if there is one.
Confirmed(r, l) ==
  IF Opens(r, l) = {} THEN sock[l].ok
  ELSE \E i \in Opens(r, l) : r[i].ok /\ \A j \in Opens(r, l) : j <= i

\* Mutant of Dispatch: every socket is marked closed.
MutDispatch(r) ==
  [l \in Links |->
    [sock[l] EXCEPT
      !.closed = @ \/ \E i \in DOMAIN r : r[i].k = "ipclose",
      !.ok = Confirmed(r, l),
      !.connected = @ \/ \E i \in Opens(r, l) : r[i].ok]]

\* The sockets once the URCs in what was read are processed.
Dispatch(r) ==
  [l \in Links |->
    [sock[l] EXCEPT
      !.closed = @ \/ \E i \in DOMAIN r : r[i].k = "ipclose" /\ r[i].l = l,
      !.ok = Confirmed(r, l),
      !.connected = @ \/ \E i \in Opens(r, l) : r[i].ok]]

\* The first report of a kind in what was read.
FirstOf(r, k) == {i \in DOMAIN r : r[i].k = k /\ \A j \in 1..i-1 : r[j].k # k}

\* Mutant of Begin: it goes on when the mutex is not to be had.
MutBegin(t) ==
  /\ Len(cmds) <= MaxLate
  /\ task[t].pc \in {"dns", "open", "udp", "query", "send", "close"}
  /\ holder' = t
  /\ Issue(task[t].pc, task[t].fd, 0)
  /\ UNCHANGED <<sock, task, conn, late, cut>>

\* A task takes the mutex for the operation it is at.
Begin(t) ==
  /\ holder = None /\ Len(cmds) <= MaxLate
  /\ task[t].pc \in {"dns", "open", "udp", "query", "send", "close"}
  /\ holder' = t
  /\ Issue(task[t].pc, task[t].fd, 0)
  /\ UNCHANGED <<sock, task, conn, late, cut>>
-----------------------------------------------------------------------------
(* Sockets *)

\* The slot is cleared and taken.
Claim(l) == sock' = [sock EXCEPT ![l] = [Blank EXCEPT !.used = TRUE]]

\* The first free slot.
Slot(l) == ~sock[l].used /\ \A m \in Links : m < l => sock[m].used

Types(t) == {ty \in {"TCP", "UDP"} : t \in IF ty = "TCP" THEN Streams ELSE Datagrams}

\* ml_at_socket, once the name is resolved.
Socket(t) ==
  /\ At(t, "named")
  /\ \E l \in Links, ty \in Types(t) :
       /\ Slot(l)
       /\ Claim(l)
       /\ task' = [task EXCEPT ![t] = [@ EXCEPT !.pc = "fresh", !.fd = l, !.type = ty]]
  /\ UNCHANGED <<holder, cmds, uart, conn, late, cut>>

\* ml_at_getaddrinfo waits for "+CDNSGIP:", and the caller begins anew without.
Resolved(t) ==
  /\ At(t, "dns") /\ holder = t
  /\ \E r \in Reads({"cdnsgip", "error"}) :
       /\ sock' = Dispatch(r)
       /\ Goes(t, IF \E i \in DOMAIN r : r[i].k = "cdnsgip" THEN "named" ELSE "dns")
  /\ Release /\ UNCHANGED <<cmds, conn, late, cut>>

\* ml_at_connect for TCP; a UDP socket is opened by its first ml_at_sendto.
Connect(t) ==
  /\ At(t, "fresh")
  /\ IF task[t].type = "UDP" THEN Goes(t, "udp") /\ UNCHANGED sock
     ELSE Goes(t, "open")
          /\ sock' = [sock EXCEPT ![task[t].fd].ok = FALSE]
  /\ UNCHANGED <<holder, cmds, uart, conn, late, cut>>

\* strstr(resp, "+CIPOPEN:") && strstr(resp, ",0"): data announced on link 0
\* has the second as well, and the late answer to a query or a read may.
LooksOpen(r) ==
  /\ \E i \in DOMAIN r : r[i].k = "cipopen"
  /\ \E i \in DOMAIN r : \/ r[i].k = "cipopen" /\ r[i].ok
                         \/ r[i].k = "notify"
                         \/ r[i].k \in {"pending", "data"} /\ 0 \in {r[i].l, r[i].left}

\* The answer to AT+CIPOPEN of a TCP socket: a caller that fails closes it, and
\* connect_ok is not read again.
Opened(t) ==
  /\ At(t, "open") /\ holder = t
  /\ \E r \in Reads({"cipopen", "error"}) :
       LET l == task[t].fd
           s == Dispatch(r)
           up == LooksOpen(r) \/ s[l].ok IN
       /\ sock' = [s EXCEPT ![l].connected = @ \/ LooksOpen(r), ![l].ok = FALSE]
       /\ Goes(t, IF up THEN "up" ELSE "close")
  /\ Release /\ UNCHANGED <<cmds, conn, late, cut>>

\* The answer to AT+CIPOPEN of a UDP socket, then its first datagram.
OpenedUdp(t) ==
  /\ At(t, "udp") /\ holder = t
  /\ \E r \in Reads(Final) :
       LET ok == \E i \in DOMAIN r : r[i].k \in Final \ {"error"} IN
       /\ sock' = [Dispatch(r) EXCEPT ![task[t].fd].connected = @ \/ ok]
       /\ Goes(t, IF ok THEN "send" ELSE "close")
  /\ Release /\ UNCHANGED <<cmds, conn, late, cut>>

\* ml_at_send and ml_at_sendto: the URCs read on the way are not processed.  The
\* late end of a read answer may hold the prompt they wait for, and has an OK.
Send(t) ==
  /\ At(t, "up") /\ sock[task[t].fd].connected /\ Goes(t, "send")
  /\ UNCHANGED <<sock, holder, cmds, uart, conn, late, cut>>

Sent(t) ==
  /\ At(t, "send") /\ holder = t
  /\ Reads({"ok", "error", "data"}) # {}
  /\ \/ Goes(t, "up")
     \/ (\E i \in DOMAIN uart : uart[i].k = "error") /\ Goes(t, "close")
  /\ Release /\ UNCHANGED <<sock, cmds, conn, late, cut>>

\* The caller closes a socket it no longer wants.
Close(t) ==
  /\ At(t, "up") /\ Goes(t, "close")
  /\ UNCHANGED <<sock, holder, cmds, uart, conn, late, cut>>

\* ml_at_close ends: whatever the modem answered, the slot is free.
CloseEnd(t) ==
  /\ At(t, "close") /\ holder = t
  /\ \E r \in Reads(Final) :
       sock' = [Dispatch(r) EXCEPT ![task[t].fd].used = FALSE,
                  ![task[t].fd].connected = FALSE, ![task[t].fd].closed = FALSE,
                  ![task[t].fd].ring = <<>>]
  /\ task' = [task EXCEPT ![t] = Unused]
  /\ Release /\ UNCHANGED <<cmds, conn, late, cut>>
-----------------------------------------------------------------------------
(* Receiving *)

Lesser(a, b) == IF a < b THEN a ELSE b

\* Mutant of Space: the byte that tells a full ring from an empty one is used.
MutSpace(l) == Ring + 1 - Len(sock[l].ring)

\* ring_free
Space(l) == Ring - Len(sock[l].ring)

\* ml_at_recv copies out of the ring, as much as the caller has room for.
Deliver(t) ==
  /\ At(t, "up") /\ sock[task[t].fd].ring # <<>>
  /\ \E n \in DOMAIN sock[task[t].fd].ring :
       LET l == task[t].fd IN
       /\ task' = [task EXCEPT ![t].got = sock[l].ring[n]]
       /\ sock' = [sock EXCEPT ![l].ring = SubSeq(@, n + 1, Len(@))]
  /\ UNCHANGED <<holder, cmds, uart, conn, late, cut>>

\* What ml_at_select finds without asking the modem.  A task that selects on its
\* one socket polls as ml_at_recv does, and then receives.
Readable(l) == sock[l].ring # <<>> \/ sock[l].closed

\* ml_at_recv returns 0, and the caller closes.
Eof(t) ==
  /\ At(t, "up") /\ sock[task[t].fd].ring = <<>> /\ sock[task[t].fd].closed
  /\ Goes(t, "close") /\ UNCHANGED <<sock, holder, cmds, uart, conn, late, cut>>

\* The ring is empty and nothing is known of a close: the modem is asked.
Poll(t) ==
  /\ At(t, "up") /\ ~Readable(task[t].fd)
  /\ Goes(t, "query") /\ UNCHANGED <<sock, holder, cmds, uart, conn, late, cut>>

\* at_query_pending; with data pending the mutex stays for the first chunk.
Pending(t) ==
  /\ At(t, "query") /\ holder = t
  /\ \E r \in Reads(Final) :
       LET some == {i \in FirstOf(r, "pending") : r[i].left > 0} IN
       /\ sock' = Dispatch(r)
       /\ \/ \E i \in some :
               /\ Goes(t, "read") /\ UNCHANGED holder
               /\ Issue("read", task[t].fd, Lesser(r[i].left, Space(task[t].fd)))
          \/ some = {} /\ Goes(t, "up") /\ Release /\ UNCHANGED cmds
  /\ UNCHANGED <<conn, late, cut>>

\* Mutant of Chunk: the next request is not limited to the ring's space.
MutChunk(t, bytes, left) ==
  LET l == task[t].fd
      new == SubSeq(bytes, 1, Lesser(Len(bytes), Space(l)))
      room == Space(l) - Len(new) IN
  /\ sock' = [sock EXCEPT ![l].ring = @ \o new]
  /\ IF left > 0 /\ new # <<>> /\ room > 0
     THEN Issue("read", l, left) /\ UNCHANGED <<task, holder>>
     ELSE Goes(t, "up") /\ Release /\ UNCHANGED cmds

\* at_read_data: the chunk goes to the ring, and while the modem says more is
\* left and the ring has space, the next is asked for.
Chunk(t, bytes, left) ==
  LET l == task[t].fd
      new == SubSeq(bytes, 1, Lesser(Len(bytes), Space(l)))
      room == Space(l) - Len(new) IN
  /\ sock' = [sock EXCEPT ![l].ring = @ \o new]
  /\ IF left > 0 /\ new # <<>> /\ room > 0
     THEN Issue("read", l, Lesser(left, room)) /\ UNCHANGED <<task, holder>>
     ELSE Goes(t, "up") /\ Release /\ UNCHANGED cmds

\* The header, whose link is not looked at, the bytes it announces and the
\* trailing OK; URCs are not processed.
ReadChunk(t) ==
  /\ At(t, "read") /\ holder = t
  /\ \E i \in FirstOf(uart, "data") : Chunk(t, uart[i].bytes, uart[i].left)
  /\ UNCHANGED <<conn, late, cut>>

\* The answer to a query does not come in time: nothing is pending, as far as
\* the task knows, and the command is still the modem's to execute.
Timeout(t) ==
  /\ At(t, "query") /\ holder = t /\ late < MaxLate
  /\ Reads(Final) = {}
  /\ late' = late + 1
  /\ sock' = Dispatch(uart)
  /\ Goes(t, "up")
  /\ Release /\ UNCHANGED <<cmds, conn, cut>>

\* at_read_data_chunk gives up without a header.  The modem hands over the bytes
\* all the same, and whoever is next empties the queue they come into.
ReadLate(t) ==
  /\ At(t, "read") /\ holder = t /\ late < MaxLate
  /\ FirstOf(uart, "data") = {}
  /\ late' = late + 1
  /\ cut' = IF cut = "coming" THEN cut ELSE "lost"
  /\ Goes(t, "up")
  /\ Release /\ UNCHANGED <<sock, cmds, conn>>

\* The time is over, or the word ERROR is among the bytes that came with the
\* header, before the answer is read to its end.
ReadCut(t) ==
  /\ At(t, "read") /\ holder = t /\ late < MaxLate
  /\ \E i \in FirstOf(uart, "data") : \E n \in 0..Len(uart[i].bytes) :
       Chunk(t, SubSeq(uart[i].bytes, 1, n), uart[i].left)
  /\ late' = late + 1 /\ cut' = "coming"
  /\ UNCHANGED conn
-----------------------------------------------------------------------------
(* The modem *)

\* Bytes reach the receive queue.  While no command is in progress nobody will
\* read them: the next one empties the queue first.
Puts(us) == uart' = IF holder = None THEN uart ELSE uart \o us

\* The modem's answer to a command, and the link it leaves.
Executes(c) ==
  LET m == conn[c.l]
      n == Lesser(c.n, Len(m.held))
      Leaves(x) == conn' = [conn EXCEPT ![c.l] = x] IN
  CASE c.k = "dns" -> /\ Leaves(m)
                      /\ \E k \in {"cdnsgip", "error"} : Puts(<<[k |-> k]>>)
    [] c.k = "open" -> IF m.state # "closed" THEN Leaves(m) /\ Puts(<<[k |-> "error"]>>)
                       ELSE Leaves([Closed EXCEPT !.state = "opening"]) /\ Puts(<<[k |-> "ok"]>>)
    [] c.k = "udp" -> \/ Leaves([Closed EXCEPT !.state = "udp"]) /\ Puts(<<[k |-> "ok"]>>)
                      \/ Leaves(m) /\ Puts(<<[k |-> "error"]>>)
    [] c.k = "query" -> Leaves(m) /\ Puts(<<[k |-> "pending", l |-> c.l, left |-> Len(m.held)]>>)
    [] c.k = "read" -> /\ Leaves([m EXCEPT !.held = SubSeq(@, n + 1, Len(@))])
                       /\ Puts(<<[k |-> "data", l |-> c.l, bytes |-> SubSeq(m.held, 1, n),
                                  left |-> Len(m.held) - n]>>)
    [] c.k = "send" -> Leaves(m) /\ Puts(<<[k |-> IF m.state \in {"open", "udp"} THEN "ok" ELSE "error"]>>)
    [] c.k = "close" -> Leaves(Closed) /\ Puts(<<[k |-> "ok"]>>)

\* The end of an answer that was cut short.
LateEnd ==
  /\ cut = "coming" /\ cut' = "lost"
  /\ Puts(<<[k |-> "ok"]>>)
  /\ UNCHANGED <<sock, task, holder, cmds, conn, late>>

Modem ==
  /\ cmds # <<>> /\ cut # "coming" /\ Executes(Head(cmds)) /\ cmds' = Tail(cmds)
  /\ UNCHANGED <<sock, task, holder, late, cut>>

\* The TCP connection is made, or not.
Connected(l) ==
  /\ conn[l].state = "opening"
  /\ \E ok \in BOOLEAN :
       /\ conn' = [conn EXCEPT ![l].state = IF ok THEN "open" ELSE "closed"]
       /\ Puts(<<[k |-> "cipopen", l |-> l, ok |-> ok]>>)
  /\ UNCHANGED <<sock, task, holder, cmds, late, cut>>

\* The next byte of the connection arrives.  The modem says so when it had none,
\* which process_urc_line ignores; only link 0's report can be misread.
Arrives(l) ==
  /\ conn[l].state \in {"open", "udp"} /\ conn[l].sent < MaxBytes
  /\ \A m \in Links \ {l} : conn[l].sent + conn[m].sent < MaxBytes
  /\ conn' = [conn EXCEPT ![l].sent = @ + 1, ![l].held = Append(@, conn[l].sent + 1)]
  /\ Puts(IF l = 0 /\ conn[l].held = <<>> THEN <<[k |-> "notify"]>> ELSE <<>>)
  /\ UNCHANGED <<sock, task, holder, cmds, late, cut>>

\* The peer closes the connection; what it sent before stays to be read.
PeerCloses(l) ==
  /\ conn[l].state = "open"
  /\ conn' = [conn EXCEPT ![l].state = "lost"]
  /\ Puts(<<[k |-> "ipclose", l |-> l]>>)
  /\ UNCHANGED <<sock, task, holder, cmds, late, cut>>
-----------------------------------------------------------------------------
AtNext ==
  \/ Modem \/ LateEnd
  \/ \E l \in Links : Connected(l) \/ Arrives(l) \/ PeerCloses(l)
  \/ \E t \in Tasks :
       \/ Begin(t) \/ Resolved(t) \/ Socket(t)
       \/ Connect(t) \/ Opened(t) \/ OpenedUdp(t) \/ Send(t) \/ Sent(t)
       \/ Close(t) \/ CloseEnd(t) \/ Deliver(t) \/ Eof(t) \/ Poll(t)
       \/ Pending(t) \/ Timeout(t)
       \/ ReadChunk(t) \/ ReadLate(t) \/ ReadCut(t)

AtSpec == AtInit /\ [][AtNext]_atVars

\* A task that receives goes on doing so, and the mutex, which FreeRTOS hands to
\* the waiter longest at it, is not kept from a task for ever.
AtFairSpec ==
  /\ AtSpec /\ WF_atVars(Modem) /\ WF_atVars(LateEnd)
  /\ WF_atVars(\E l \in Links : Connected(l))
  /\ \A t \in Tasks :
       /\ SF_atVars(Begin(t))
       /\ WF_atVars(\/ Resolved(t) \/ Opened(t) \/ OpenedUdp(t) \/ Sent(t)
                  \/ CloseEnd(t) \/ Pending(t) \/ ReadChunk(t))
       /\ SF_atVars(Deliver(t) \/ Poll(t) \/ Eof(t))
-----------------------------------------------------------------------------
Urcs ==
  [k : {"ok", "error", "cdnsgip"}] \cup [k : {"pending"}, l : Links, left : 0..MaxBytes]
    \cup [k : {"cipopen"}, l : Links, ok : BOOLEAN]
    \cup [k : {"ipclose"}, l : Links] \cup [k : {"notify"}]
    \cup [k : {"data"}, l : Links, bytes : Seq(1..MaxBytes), left : 0..MaxBytes]

AtTypeOK ==
  /\ \A l \in Links :
       /\ sock[l] \in [used : BOOLEAN, connected : BOOLEAN, closed : BOOLEAN,
                       ok : BOOLEAN, ring : Seq(1..MaxBytes)]
       /\ Len(sock[l].ring) <= Ring
       /\ conn[l] \in [state : {"closed", "opening", "open", "udp", "lost"},
                        sent : 0..MaxBytes, held : Seq(1..MaxBytes)]
  /\ task \in [Tasks -> [pc : {"dns", "named", "fresh", "open", "udp", "up",
                               "query", "read", "send", "close"},
                         fd : Links, type : {"TCP", "UDP"}, got : 0..MaxBytes]]
  /\ holder \in Tasks \cup {None}
  /\ \A i \in DOMAIN uart : uart[i] \in Urcs
  /\ Len(cmds) <= 1 + MaxLate /\ late \in 0..MaxLate /\ cut \in {"none", "coming", "lost"}

Holds(t) == task[t].pc \in {"up", "query", "read", "send"}

\* The bytes on their way to a task: in its ring, in the answer being read, in
\* the modem.
Coming(t) ==
  LET read == IF At(t, "read") THEN FirstOf(uart, "data") ELSE {} IN
  IF read = {} THEN <<>> ELSE uart[CHOOSE i \in read : TRUE].bytes
OnTheWay(t) == sock[task[t].fd].ring \o Coming(t) \o conn[task[t].fd].held

\* Every byte the peer sent reaches the task once and in order, whatever the
\* sizes of rings and requests, whatever other tasks ask of the modem and though
\* one answer is late, as long as the answers to reads are read whole
\* (at_read_data_chunk, ring_write, ml_at_recv).  When one is not, bytes are
\* missing, and still none comes twice, before an earlier one or from another
\* connection.  Two late answers break that: a socket is opened by the answer to
\* an older command, and receives from the connection its link had before.
InOrder ==
  \A t \in Tasks : Holds(t) =>
    LET w == OnTheWay(t)
        m == conn[task[t].fd] IN
    /\ \A i \in DOMAIN w : /\ w[i] \in task[t].got + 1 .. m.sent
                           /\ \A j \in 1..i - 1 : w[j] < w[i]
    /\ cut = "none" => Len(w) = m.sent - task[t].got

\* ml_at_socket.c:433: "2. Binary data: exactly <actual> bytes".  What the modem
\* hands over is received.
Complete ==
  \A t \in Tasks : Holds(t) => Len(OnTheWay(t)) = conn[task[t].fd].sent - task[t].got

\* While answers are in time ml_at_recv returns 0 only when the peer closed this
\* very connection, and not before the ring is read out (process_urc_line,
\* ml_at_recv, ml_at_close).
EofIsReal ==
  [][\A t \in Tasks :
       Eof(t) /\ late = 0 =>
         conn[task[t].fd].state = "lost" /\ sock[task[t].fd].ring = <<>>]_atVars

\* Data the modem holds for a task that goes on receiving reaches it, unless
\* the socket is closed (ml_at_recv's polling, the mutex it shares).
Delivered ==
  \A t \in Tasks :
    (Holds(t) /\ conn[task[t].fd].held # <<>>)
      ~> (~Holds(t) \/ conn[task[t].fd].held = <<>>)
=============================================================================
