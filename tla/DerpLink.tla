------------------------------ MODULE DerpLink ------------------------------
(***************************************************************************)
(* The relay link of microlink (ml_derp.c): a writer task that owns the    *)
(* connection and drains a queue of packets, a reader task that polls the  *)
(* same TLS context, and the coordinator and the application, which ask    *)
(* for a connection through event bits. No lock is held: the reader parks  *)
(* when it is outside the TLS context, and re-reads `connected` before it  *)
(* enters.                                                                 *)
(*                                                                         *)
(* The connection is one TLS context and one socket; frames are handed to  *)
(* TLS whole, and only what order they go out in is kept of them.          *)
(***************************************************************************)
EXTENDS Integers, Sequences

CONSTANTS QueueCap,    \* ML_DERP_TX_QUEUE_DEPTH
          Attempts,    \* connection attempts in a row
          MaxItems,    \* bound: packets queued
          MaxFaults,   \* bound: connections that break, stall or are rebound
          MaxFails     \* bound: attempts that fail

ASSUME ConstAssumption ==
  /\ QueueCap \in Nat \ {0} /\ Attempts \in Nat \ {0}
  /\ MaxItems \in Nat /\ MaxFaults \in Nat /\ MaxFails \in Nat

VARIABLES
  ev,          \* the bits of ml->events this link uses
  connected,   \* ml->derp.connected
  parked,      \* ml->derp.rx_parked
  sock,        \* ml->derp.sockfd >= 0: socket and TLS context exist
  peer,        \* the other end: open, closed (end of file), or reset
  tx, rx,      \* where the writer and the reader are
  again,       \* RECONNECT was in the writer's snapshot of the bits
  try,         \* attempt of the current connection loop
  queue,       \* ml->derp_tx_queue
  queued,      \* packets queued so far
  lastData,    \* the last packet other than a handshake that was written
  faults, fails

linkVars  == <<ev, connected, parked, sock, peer>>
txVars    == <<tx, again, try>>
queueVars == <<queue, queued, lastData>>
vars == <<ev, connected, parked, sock, peer, tx, rx, again, try, queue, queued,
          lastData, faults, fails>>

Bits    == {"CONNECTED", "RECONNECT", "CONNECT_REQ"}
TxRests == {"top", "connect", "handshake", "linked", "parkwait", "teardown",
            "forced", "send", "writing"}
RxRests == {"check", "enter", "burst", "poll", "header", "payload", "pong",
            "fail", "flag"}
Ends    == {"open", "closed", "reset"}
InSsl   == {"header", "payload", "pong"}
Items   == [handshake : BOOLEAN, id : 1..MaxItems]

Init ==
  /\ ev = {} /\ connected = FALSE /\ parked = FALSE
  /\ sock = FALSE /\ peer = "open"
  /\ tx = "top" /\ rx = "check"
  /\ again = FALSE /\ try = 0
  /\ queue = <<>> /\ queued = 0 /\ lastData = 0
  /\ faults = 0 /\ fails = 0

-----------------------------------------------------------------------------
(* ml_derp_queue_send(), called by the WireGuard side.                     *)

\* A handshake goes to the front, anything else to the back; when the queue is
\* full its front is dropped and the packet goes to the back.
MutPut(q, p) ==
  IF Len(q) < QueueCap THEN <<p>> \o q ELSE Append(Tail(q), p)
Put(q, p) ==
  CASE Len(q) = QueueCap -> Append(Tail(q), p)
    [] Len(q) # QueueCap /\ p.handshake -> <<p>> \o q
    [] OTHER -> Append(q, p)

QueueSend ==
  /\ queued < MaxItems
  /\ \E h \in BOOLEAN : queue' = Put(queue, [handshake |-> h, id |-> queued + 1])
  /\ queued' = queued + 1
  /\ UNCHANGED <<linkVars, txVars, rx, lastData, faults, fails>>

-----------------------------------------------------------------------------
(* ml_derp_tx_task()                                                       *)

\* One look at the bits decides about both requests.
Look ==
  /\ tx = "top"
  /\ \/ /\ "CONNECT_REQ" \in ev /\ ~connected
        /\ ev' = ev \ {"CONNECT_REQ"}
        /\ again' = ("RECONNECT" \in ev)
        /\ tx' = "connect" /\ try' = 0
        /\ UNCHANGED connected
     \/ /\ "CONNECT_REQ" \notin ev \/ connected
        /\ "RECONNECT" \in ev
        /\ ev' = ev \ {"RECONNECT"}
        /\ connected' = FALSE
        /\ tx' = "parkwait"
        /\ UNCHANGED <<again, try>>
     \/ /\ "CONNECT_REQ" \notin ev \/ connected
        /\ "RECONNECT" \notin ev
        /\ tx' = IF connected THEN "send" ELSE "top"
        /\ UNCHANGED <<ev, connected, again, try>>
  /\ UNCHANGED <<parked, sock, peer, rx, queueVars, faults, fails>>

\* DNS or TCP failed, before the old context is touched, or the new one is set up.
Dial ==
  /\ tx = "connect" /\ try < Attempts /\ ~connected
  /\ \/ /\ fails < MaxFails /\ fails' = fails + 1
        /\ try' = try + 1
        /\ UNCHANGED <<sock, peer, tx>>
     \/ /\ sock' = TRUE /\ peer' = "open"
        /\ tx' = "handshake"
        /\ UNCHANGED <<try, fails>>
  /\ UNCHANGED <<ev, connected, parked, rx, again, queueVars, faults>>

\* TLS, the HTTP upgrade and the DERP handshake.
HandshakeFails ==
  /\ tx = "handshake"
  /\ fails < MaxFails /\ fails' = fails + 1
  /\ sock' = FALSE
  /\ tx' = "connect" /\ try' = try + 1
  /\ UNCHANGED <<ev, connected, parked, peer, rx, again, queueVars, faults>>

\* What the loop over the attempts is followed by.
AfterLoop ==
  IF again
    THEN /\ ev' = ev \ {"RECONNECT"} /\ connected' = FALSE /\ again' = FALSE
         /\ tx' = "parkwait"
    ELSE /\ tx' = IF connected THEN "send" ELSE "top"
         /\ UNCHANGED <<ev, connected, again>>

HandshakeDone ==
  /\ tx = "handshake"
  /\ connected' = TRUE
  /\ ev' = ev \cup {"CONNECTED"}
  /\ tx' = "linked"
  /\ UNCHANGED <<parked, sock, peer, rx, again, try, queueVars, faults, fails>>

EndConnect ==
  /\ tx = "linked" \/ (tx = "connect" /\ (try = Attempts \/ connected))
  /\ AfterLoop
  /\ UNCHANGED <<parked, sock, peer, rx, try, queueVars, faults, fails>>

\* At most 200 ms, which a reader exceeds only inside a payload or a PONG.
ParkSeen ==
  /\ tx = "parkwait" /\ parked
  /\ tx' = "teardown"
  /\ UNCHANGED <<linkVars, rx, again, try, queueVars, faults, fails>>

ParkTimeout ==
  /\ tx = "parkwait" /\ ~parked
  /\ rx \in {"payload", "pong"}
  /\ tx' = "forced"
  /\ UNCHANGED <<linkVars, rx, again, try, queueVars, faults, fails>>

\* ml_derp_disconnect(), and on to the loop over the attempts.
MutDisconnect ==
  /\ tx \in {"teardown", "forced"}
  /\ connected' = FALSE
  /\ sock' = FALSE /\ peer' = "open"
  /\ queue' = <<>>
  /\ tx' = "connect" /\ try' = 0
  /\ UNCHANGED <<ev, parked, rx, again, queued, lastData, faults, fails>>
Disconnect ==
  /\ tx \in {"teardown", "forced"}
  /\ connected' = FALSE
  /\ ev' = ev \ {"CONNECTED"}
  /\ sock' = FALSE /\ peer' = "open"
  /\ queue' = <<>>
  /\ tx' = "connect" /\ try' = 0
  /\ UNCHANGED <<parked, rx, again, queued, lastData, faults, fails>>

\* The batch; MaxItems is below its 32.
NothingQueued ==
  /\ tx = "send" /\ queue = <<>>
  /\ tx' = "top"
  /\ UNCHANGED <<linkVars, rx, again, try, queueVars, faults, fails>>

TakeItem ==
  /\ tx = "send" /\ queue # <<>>
  /\ queue' = Tail(queue)
  /\ IF connected
       THEN /\ tx' = "writing"
            /\ lastData' = IF Head(queue).handshake THEN lastData ELSE Head(queue).id
       ELSE UNCHANGED <<tx, lastData>>
  /\ UNCHANGED <<linkVars, rx, again, try, queued, faults, fails>>

\* What is written to an end that has closed still leaves; the answer to it may be
\* a reset.
MayReset ==
  \/ UNCHANGED peer
  \/ peer = "closed" /\ peer' = "reset"

WriteOk ==
  /\ tx = "writing"
  /\ tx' = "send"
  /\ MayReset
  /\ UNCHANGED <<ev, connected, parked, sock, rx, again, try, queueVars, faults, fails>>

\* The connection is gone, or the send buffer stayed full for 3 s.
MutAsksAgain(bits) == bits
AsksAgain(bits) == bits \cup {"RECONNECT"}

WriteFails ==
  /\ tx = "writing"
  /\ \/ (peer = "reset" \/ ~sock) /\ UNCHANGED faults
     \/ peer # "reset" /\ sock /\ faults < MaxFaults /\ faults' = faults + 1
  /\ connected' = FALSE
  /\ ev' = AsksAgain(ev)
  /\ tx' = "send"
  /\ UNCHANGED <<parked, sock, peer, rx, again, try, queueVars, fails>>

Writer ==
  \/ Look \/ Dial \/ HandshakeFails \/ HandshakeDone \/ EndConnect
  \/ ParkSeen \/ ParkTimeout \/ Disconnect
  \/ NothingQueued \/ TakeItem \/ WriteOk \/ WriteFails

-----------------------------------------------------------------------------
(* ml_derp_rx_task()                                                       *)

Park ==
  /\ rx = "check" /\ ~(connected /\ sock)
  /\ parked' = TRUE
  /\ UNCHANGED <<ev, connected, sock, peer, txVars, rx, queueVars, faults, fails>>

SeesLink ==
  /\ rx = "check" /\ connected /\ sock
  /\ rx' = "enter"
  /\ UNCHANGED <<linkVars, txVars, queueVars, faults, fails>>

MutUnpark ==
  /\ rx = "enter"
  /\ rx' = "burst"
  /\ UNCHANGED <<linkVars, txVars, queueVars, faults, fails>>
Unpark ==
  /\ rx = "enter"
  /\ parked' = FALSE
  /\ rx' = "burst"
  /\ UNCHANGED <<ev, connected, sock, peer, txVars, queueVars, faults, fails>>

Recheck ==
  /\ rx = "burst"
  /\ rx' = IF connected THEN "poll" ELSE "check"
  /\ UNCHANGED <<linkVars, txVars, queueVars, faults, fails>>

\* poll_derp_read() looks once more and reports a link that is down as an error.
EnterPoll ==
  /\ rx = "poll"
  /\ rx' = IF connected /\ sock THEN "header" ELSE "fail"
  /\ UNCHANGED <<linkVars, txVars, queueVars, faults, fails>>

\* A frame was dispatched (the 32nd of a burst ends it), nothing came within
\* 20 ms, the payload is late, or a PING is answered at once. At an end of file
\* without a close_notify mbedtls_ssl_read() returns 0, which is passed on and
\* taken for "nothing came".
ReadHeader ==
  /\ rx = "header" /\ sock
  /\ \/ peer = "open" /\ rx' \in {"burst", "check", "payload", "pong"}
     \/ peer = "closed" /\ rx' = "check"
  /\ UNCHANGED <<linkVars, txVars, queueVars, faults, fails>>

ReadPayload ==
  /\ rx = "payload" /\ sock
  /\ \/ peer = "open" /\ rx' = "burst"
     \/ peer = "closed" /\ rx' = "check"
  /\ UNCHANGED <<linkVars, txVars, queueVars, faults, fails>>

\* The result of the write is not looked at.
WritePong ==
  /\ rx = "pong"
  /\ rx' = "burst"
  /\ MayReset
  /\ UNCHANGED <<ev, connected, parked, sock, txVars, queueVars, faults, fails>>

\* The connection is gone; or, on one that is open, the header is short or asks
\* for too much, or the payload did not come within 5 s.
ReadError ==
  /\ rx \in {"header", "payload"}
  /\ \/ (peer = "reset" \/ ~sock) /\ UNCHANGED faults
     \/ peer = "open" /\ sock /\ faults < MaxFaults /\ faults' = faults + 1
  /\ rx' = "fail"
  /\ UNCHANGED <<linkVars, txVars, queueVars, fails>>

MarkDown ==
  /\ rx = "fail"
  /\ connected' = FALSE
  /\ rx' = "flag"
  /\ UNCHANGED <<ev, parked, sock, peer, txVars, queueVars, faults, fails>>

AskReconnect ==
  /\ rx = "flag"
  /\ ev' = AsksAgain(ev)
  /\ rx' = "check"
  /\ UNCHANGED <<connected, parked, sock, peer, txVars, queueVars, faults, fails>>

Reader ==
  \/ Park \/ SeesLink \/ Unpark \/ Recheck \/ EnterPoll \/ ReadHeader
  \/ ReadPayload \/ WritePong \/ ReadError \/ MarkDown \/ AskReconnect

-----------------------------------------------------------------------------
(* The coordinator, the application and the relay.                         *)

RequestConnect ==
  /\ ~connected
  /\ ev' = ev \cup {"CONNECT_REQ"}
  /\ UNCHANGED <<connected, parked, sock, peer, txVars, rx, queueVars, faults, fails>>

\* microlink_rebind(), the part of it that concerns this link.
Rebind ==
  /\ faults < MaxFaults /\ faults' = faults + 1
  /\ ev' = (ev \ {"CONNECTED"}) \cup {"RECONNECT"}
  /\ UNCHANGED <<connected, parked, sock, peer, txVars, rx, queueVars, fails>>

\* The relay closes the connection, or it is reset (by a close_notify too).
Break ==
  /\ sock /\ peer = "open" /\ faults < MaxFaults
  /\ peer' \in {"closed", "reset"} /\ faults' = faults + 1
  /\ UNCHANGED <<ev, connected, parked, sock, txVars, rx, queueVars, fails>>

-----------------------------------------------------------------------------

Next == QueueSend \/ Writer \/ Reader \/ RequestConnect \/ Rebind \/ Break

Spec == Init /\ [][Next]_vars

\* Two tasks the scheduler runs; a request once made is not made again.
FairSpec == Spec /\ WF_vars(Writer) /\ WF_vars(Reader)

-----------------------------------------------------------------------------
(* Properties.                                                             *)

TypeOK ==
  /\ ev \subseteq Bits
  /\ connected \in BOOLEAN /\ parked \in BOOLEAN
  /\ sock \in BOOLEAN /\ peer \in Ends
  /\ tx \in TxRests /\ rx \in RxRests
  /\ again \in BOOLEAN /\ try \in 0..Attempts
  /\ queue \in Seq(Items) /\ Len(queue) <= QueueCap
  /\ queued \in 0..MaxItems /\ lastData \in 0..MaxItems
  /\ faults \in 0..MaxFaults /\ fails \in 0..MaxFails

\* A writer that saw the reader parked tears the context down with the reader
\* outside it: the flag may be stale, the reader's second look is not.
ParkedIsOutside == tx = "teardown" => rx \notin InSsl

\* Packets that are not handshakes leave in the order they were queued, whatever
\* is dropped or overtakes them.
DataInOrder == [][lastData' >= lastData]_vars

\* The CONNECTED bit, which the other tasks go by, may outlive the link, but then
\* a reconnection that clears it is on its way.
Repairing ==
  \/ "RECONNECT" \in ev \/ again
  \/ tx \in {"parkwait", "teardown", "forced"}
  \/ rx = "flag"
StaleBitRepaired == ("CONNECTED" \in ev /\ ~connected) => Repairing

\* Every loss that a task is told of is healed: unless the attempts in a row are
\* used up, a link that was ever asked for is again and again up on a connection
\* that was not reset. (Not for good: the reader may take a teardown it sees
\* between its two looks for an error, and ask for one more. And an end of file is
\* told to nobody: see LossNoticed.)
Heals == <>(ev # {}) => []<>(connected /\ sock /\ peer # "reset")

\* "Returns: 1 = frame read and dispatched, 0 = timeout (no data), <0 = error"
\* (ml_derp.c, poll_derp_read): a connection the relay has closed does not stay
\* the link for good.
LossNoticed == (connected /\ peer = "closed") ~> ~(connected /\ peer = "closed")

\* "it parks (rx_parked=true) whenever it is not touching the ssl context so the
\* writer can tear it down safely" (ml_derp.c): nobody is inside a context that
\* is freed or set up anew.
TeardownSafe ==
  (tx = "handshake" \/ (tx \in {"teardown", "forced"} /\ sock)) => rx \notin InSsl

\* "No mutex needed -- called only from the DERP I/O task" (ml_derp.c,
\* derp_tls_write_all): two tasks never write at once.
OneWriter == ~(tx = "writing" /\ rx = "pong")

=============================================================================
