---------------------------- MODULE PeersProofs ----------------------------
(***************************************************************************)
(* Proofs about the ways to the peers, for every value of the constants.   *)
(*                                                                         *)
(* DerpLink: three inductive invariants of their own, Parking (who may be  *)
(* where while the writer waits and tears down), Pending (which request is *)
(* under way) and Ordered (the ids in the queue). TypeOK is used where the *)
(* queue matters.                                                          *)
(*                                                                         *)
(* Paths: Fresh, the age of the last pong before and after the manager has *)
(* looked at it in a unit of time.                                         *)
(*                                                                         *)
(* PeerTable: TableInv, of which DeviceOwned (the entries of the table and *)
(* the peers of the device are one to one) is the hard part: adding needs  *)
(* a count of the device's places, the pass at start-up an induction over  *)
(* the table. Clocked, on top of it, carries the refinement of RecentPeers.*)
(***************************************************************************)
EXTENDS DerpLink, Paths, PeerTable, FiniteSetTheorems, SequenceTheorems,
        WellFoundedInduction, TLAPS

\* While the flag is up the reader is before its second look; the writer waits
\* and tears down with `connected` cleared, so that look turns the reader back.
Parking ==
  /\ parked => rx \in {"check", "enter"}
  /\ tx \in {"parkwait", "teardown", "forced"} => ~connected
  /\ tx = "teardown" => rx \in {"check", "enter", "burst"}

\* A RECONNECT taken along with a CONNECT_REQ is due until the loop over the
\* attempts ends.
Pending ==
  /\ again => tx \in {"connect", "handshake", "linked"}
  /\ StaleBitRepaired

\* The packets that are no handshakes stand in the queue in the order of their
\* ids, all of them after the last one written.
InOrder(q, last, before) ==
  /\ \A i \in 1..Len(q) : q[i].id <= last
  /\ \A i, j \in 1..Len(q) :
       i < j /\ ~q[i].handshake /\ ~q[j].handshake => q[i].id < q[j].id
  /\ \A i \in 1..Len(q) : ~q[i].handshake => before < q[i].id
  /\ before <= last

Ordered == InOrder(queue, queued, lastData)

-----------------------------------------------------------------------------
(* The parking protocol.                                                   *)

LEMMA ParkingStep == Parking /\ [Next]_vars => Parking'
<1> SUFFICES ASSUME Parking, [Next]_vars PROVE Parking'
  OBVIOUS
<1>1. CASE QueueSend
  BY <1>1 DEF QueueSend, Parking, linkVars, txVars
<1>2. CASE Writer
  BY <1>2 DEF Parking, Writer, Look, Dial, HandshakeFails, HandshakeDone,
       EndConnect, AfterLoop, ParkSeen, ParkTimeout, Disconnect, NothingQueued,
       TakeItem, WriteOk, WriteFails, linkVars, queueVars
<1>3. CASE Reader
  BY <1>3 DEF Parking, Reader, Park, SeesLink, Unpark, Recheck, EnterPoll,
       ReadHeader, ReadPayload, WritePong, ReadError, MarkDown, AskReconnect,
       linkVars, txVars, queueVars
<1>4. CASE RequestConnect \/ Rebind \/ Break
  BY <1>4 DEF Parking, RequestConnect, Rebind, Break, txVars
<1>5. CASE UNCHANGED vars
  BY <1>5 DEF Parking, vars
<1> QED
  BY <1>1, <1>2, <1>3, <1>4, <1>5 DEF Next

\* The writer that saw the reader parked (line 602 of ml_derp.c) destroys the TLS
\* context with the reader outside it, in every interleaving.
THEOREM ParkedIsOutsideCorrect == Spec => []ParkedIsOutside
<1>1. Init => Parking
  BY DEF Init, Parking
<1>2. Parking => ParkedIsOutside
  BY DEF Parking, ParkedIsOutside, InSsl
<1> QED
  BY <1>1, <1>2, ParkingStep, PTL DEF Spec

-----------------------------------------------------------------------------
(* The CONNECTED bit.                                                      *)

LEMMA PendingStep == Pending /\ [Next]_vars => Pending'
<1> SUFFICES ASSUME Pending, [Next]_vars PROVE Pending'
  OBVIOUS
<1> USE DEF Pending, StaleBitRepaired, Repairing
<1>1. CASE QueueSend
  BY <1>1 DEF QueueSend, linkVars, txVars
<1>2. CASE Writer
  <2>1. CASE Look
    <3>1. CASE "CONNECT_REQ" \in ev /\ ~connected
      <4>1. /\ ev' = ev \ {"CONNECT_REQ"} /\ connected' = connected
            /\ tx' = "connect" /\ rx' = rx /\ tx = "top"
        BY <2>1, <3>1 DEF Look
      <4>2. again' = ("RECONNECT" \in ev)
        BY <2>1, <3>1 DEF Look
      <4>3. "RECONNECT" \in ev => again'
        BY <4>2
      <4> QED
        BY <4>1, <4>3
    <3>2. CASE ~("CONNECT_REQ" \in ev /\ ~connected)
      BY <2>1, <3>2 DEF Look
    <3> QED
      BY <3>1, <3>2
  <2>2. CASE Dial \/ HandshakeFails \/ HandshakeDone
    BY <2>2 DEF Dial, HandshakeFails, HandshakeDone, queueVars
  <2>3. CASE EndConnect
    BY <2>3 DEF EndConnect, AfterLoop, queueVars
  <2>4. CASE ParkSeen \/ ParkTimeout \/ Disconnect
    BY <2>4 DEF ParkSeen, ParkTimeout, Disconnect, linkVars, queueVars
  <2>5. CASE NothingQueued \/ TakeItem \/ WriteOk
    BY <2>5 DEF NothingQueued, TakeItem, WriteOk, linkVars, queueVars
  <2>6. CASE WriteFails
    BY <2>6 DEF WriteFails, AsksAgain, queueVars
  <2> QED
    BY <1>2, <2>1, <2>2, <2>3, <2>4, <2>5, <2>6 DEF Writer
<1>3. CASE Reader
  BY <1>3 DEF Reader, Park, SeesLink, Unpark, Recheck, EnterPoll, ReadHeader,
       ReadPayload, WritePong, ReadError, MarkDown, AskReconnect, AsksAgain,
       linkVars, txVars, queueVars
<1>4. CASE RequestConnect \/ Rebind \/ Break
  BY <1>4 DEF RequestConnect, Rebind, Break, txVars
<1>5. CASE UNCHANGED vars
  BY <1>5 DEF vars
<1> QED
  BY <1>1, <1>2, <1>3, <1>4, <1>5 DEF Next

\* Whenever ML_EVT_DERP_CONNECTED outlives the link, a reconnection is under way.
THEOREM StaleBitCorrect == Spec => []StaleBitRepaired
<1>1. Init => Pending
  BY DEF Init, Pending, StaleBitRepaired
<1>2. Pending => StaleBitRepaired
  BY DEF Pending
<1> QED
  BY <1>1, <1>2, PendingStep, PTL DEF Spec

-----------------------------------------------------------------------------
(* The send queue.                                                         *)

\* The three outcomes of a call of ml_derp_queue_send(): the new packet takes the
\* place freed at the front, goes before everything, or after everything.
LEMMA PutPlaces ==
  ASSUME NEW q \in Seq(Items), Len(q) <= QueueCap, NEW p \in Items
  PROVE  /\ Put(q, p) \in Seq(Items) /\ Len(Put(q, p)) <= QueueCap
         /\ \/ /\ Len(Put(q, p)) = Len(q) /\ Len(q) > 0
               /\ \A i \in 1..(Len(q) - 1) : Put(q, p)[i] = q[i + 1]
               /\ Put(q, p)[Len(q)] = p
            \/ /\ Len(Put(q, p)) = Len(q) + 1 /\ p.handshake
               /\ \A i \in 1..Len(q) : Put(q, p)[i + 1] = q[i]
               /\ Put(q, p)[1] = p
            \/ /\ Len(Put(q, p)) = Len(q) + 1
               /\ \A i \in 1..Len(q) : Put(q, p)[i] = q[i]
               /\ Put(q, p)[Len(q) + 1] = p
<1>1. CASE Len(q) = QueueCap
  <2>1. q # <<>> /\ Len(q) \in Nat \ {0}
    BY <1>1, ConstAssumption
  <2>2. /\ Tail(q) \in Seq(Items) /\ Len(Tail(q)) = Len(q) - 1
        /\ \A i \in 1..Len(Tail(q)) : Tail(q)[i] = q[i + 1]
    BY <2>1, HeadTailProperties
  <2>3. Put(q, p) = Append(Tail(q), p)
    BY <1>1 DEF Put
  <2>4. /\ Append(Tail(q), p) \in Seq(Items)
        /\ Len(Append(Tail(q), p)) = Len(Tail(q)) + 1
        /\ \A i \in 1..Len(Tail(q)) : Append(Tail(q), p)[i] = Tail(q)[i]
        /\ Append(Tail(q), p)[Len(Tail(q)) + 1] = p
    BY <2>2, AppendProperties
  <2>5. Len(Tail(q)) + 1 = Len(q) /\ 1..Len(Tail(q)) = 1..(Len(q) - 1)
    BY <2>1, <2>2
  <2>6. \A i \in 1..(Len(q) - 1) : Put(q, p)[i] = q[i + 1]
    BY <2>2, <2>3, <2>4, <2>5, Zenon
  <2>7. Put(q, p)[Len(q)] = p /\ Len(Put(q, p)) = Len(q) /\ Put(q, p) \in Seq(Items)
    BY <2>3, <2>4, <2>5, Zenon
  <2>8. Len(q) > 0 /\ Len(q) <= QueueCap
    BY <2>1
  <2> QED
    BY <2>6, <2>7, <2>8, Zenon
<1>2. CASE Len(q) # QueueCap /\ p.handshake
  <2>1. Put(q, p) = <<p>> \o q
    BY <1>2 DEF Put
  <2>2. <<p>> \in Seq(Items) /\ Len(<<p>>) = 1 /\ <<p>>[1] = p
    OBVIOUS
  <2>3. /\ Put(q, p) \in Seq(Items) /\ Len(Put(q, p)) = 1 + Len(q)
        /\ \A i \in 1..(1 + Len(q)) :
             Put(q, p)[i] = IF i <= 1 THEN <<p>>[i] ELSE q[i - 1]
    BY <2>1, <2>2, ConcatProperties
  <2>4. Len(q) \in Nat /\ QueueCap \in Nat
    BY ConstAssumption
  <2>5. Put(q, p)[1] = p
    BY <2>2, <2>3, <2>4
  <2>6. \A i \in 1..Len(q) : Put(q, p)[i + 1] = q[i]
    BY <2>3, <2>4
  <2> QED
    BY <1>2, <2>3, <2>4, <2>5, <2>6
<1>3. CASE Len(q) # QueueCap /\ ~p.handshake
  <2>1. Put(q, p) = Append(q, p)
    BY <1>3 DEF Put
  <2>2. Len(q) \in Nat /\ QueueCap \in Nat
    BY ConstAssumption
  <2> QED
    BY <1>3, <2>1, <2>2, AppendProperties
<1> QED
  BY <1>1, <1>2, <1>3

FlagsTyped ==
  /\ ev \subseteq Bits
  /\ connected \in BOOLEAN /\ parked \in BOOLEAN
  /\ sock \in BOOLEAN /\ peer \in Ends /\ again \in BOOLEAN

\* An attempt that got as far as its handshake is one of the Attempts.
CountsTyped ==
  /\ tx \in TxRests /\ rx \in RxRests
  /\ try \in 0..Attempts
  /\ faults \in 0..MaxFaults /\ fails \in 0..MaxFails
  /\ tx = "handshake" => try < Attempts

QueueTyped ==
  /\ queue \in Seq(Items) /\ Len(queue) <= QueueCap
  /\ queued \in 0..MaxItems /\ lastData \in 0..MaxItems

\* The only steps that touch the queue.
LEMMA QueueSteps ==
  [Next]_vars => QueueSend \/ TakeItem \/ Disconnect \/ UNCHANGED queueVars
BY DEF Next, Writer, Look, Dial, HandshakeFails, HandshakeDone, EndConnect,
     AfterLoop, ParkSeen, ParkTimeout, NothingQueued, WriteOk, WriteFails,
     Reader, Park, SeesLink, Unpark, Recheck, EnterPoll, ReadHeader,
     ReadPayload, WritePong, ReadError, MarkDown, AskReconnect,
     RequestConnect, Rebind, Break, vars, queueVars

LEMMA QueueTypedStep == QueueTyped /\ [Next]_vars => QueueTyped'
<1> SUFFICES ASSUME QueueTyped, [Next]_vars PROVE QueueTyped'
  OBVIOUS
<1> USE DEF QueueTyped
<1>1. CASE QueueSend
  <2>1. PICK h \in BOOLEAN :
          queue' = Put(queue, [handshake |-> h, id |-> queued + 1])
    BY <1>1 DEF QueueSend
  <2>2. [handshake |-> h, id |-> queued + 1] \in Items
    BY <1>1, ConstAssumption DEF QueueSend, Items
  <2>3. queue' \in Seq(Items) /\ Len(queue') <= QueueCap
    BY <2>1, <2>2, PutPlaces
  <2>4. queued' \in 0..MaxItems /\ lastData' \in 0..MaxItems
    BY <1>1, ConstAssumption DEF QueueSend
  <2> QED
    BY <2>3, <2>4
<1>2. CASE TakeItem
  <2>1. /\ Head(queue) \in Items /\ Tail(queue) \in Seq(Items)
        /\ Len(Tail(queue)) = Len(queue) - 1 /\ Len(queue) \in Nat
    BY <1>2, HeadTailProperties, LenProperties DEF TakeItem
  <2>2. queue' = Tail(queue) /\ queued' = queued
    BY <1>2 DEF TakeItem
  <2>3. Head(queue).id \in 0..MaxItems
    BY <2>1, ConstAssumption DEF Items
  <2>4. lastData' \in 0..MaxItems
    BY <1>2, <2>3 DEF TakeItem
  <2>5. Len(Tail(queue)) <= QueueCap
    BY <2>1, ConstAssumption
  <2> QED
    BY <2>1, <2>2, <2>4, <2>5
<1>3. CASE Disconnect
  <2>1. queue' = <<>> /\ queued' = queued /\ lastData' = lastData
    BY <1>3 DEF Disconnect
  <2>2. <<>> \in Seq(Items) /\ Len(<<>>) = 0
    BY EmptySeq
  <2> QED
    BY <2>1, <2>2, ConstAssumption
<1>4. CASE UNCHANGED queueVars
  BY <1>4 DEF queueVars
<1> QED
  BY <1>1, <1>2, <1>3, <1>4, QueueSteps

LEMMA Membership ==
  ASSUME NEW a, NEW x, NEW S, a = (x \in S)
  PROVE  a \in BOOLEAN
BY SMT

LEMMA FlagsTypedStep == FlagsTyped /\ [Next]_vars => FlagsTyped'
<1> SUFFICES ASSUME FlagsTyped, [Next]_vars PROVE FlagsTyped'
  OBVIOUS
<1>1. again' \in BOOLEAN
  <2>1. \/ again' = ("RECONNECT" \in ev)
        \/ again' = FALSE
        \/ again' = again
    BY DEF Next, QueueSend, Writer, Look, Dial, HandshakeFails, HandshakeDone,
         EndConnect, AfterLoop, ParkSeen, ParkTimeout, Disconnect, NothingQueued,
         TakeItem, WriteOk, WriteFails, Reader, Park, SeesLink, Unpark, Recheck,
         EnterPoll, ReadHeader, ReadPayload, WritePong, ReadError, MarkDown,
         AskReconnect, RequestConnect, Rebind, Break, vars, txVars
  <2>2. CASE again' = ("RECONNECT" \in ev)
    BY <2>2, Membership, Zenon
  <2>3. CASE again' = FALSE \/ again' = again
    BY <2>3, Zenon DEF FlagsTyped
  <2> QED
    BY <2>1, <2>2, <2>3, Zenon
<1>2. ev' \subseteq Bits
  BY DEF FlagsTyped, Bits, Next, QueueSend, Writer, Look, Dial, HandshakeFails,
       HandshakeDone, EndConnect, AfterLoop, ParkSeen, ParkTimeout, Disconnect,
       NothingQueued, TakeItem, WriteOk, WriteFails, AsksAgain, Reader, Park,
       SeesLink, Unpark, Recheck, EnterPoll, ReadHeader, ReadPayload, WritePong,
       ReadError, MarkDown, AskReconnect, RequestConnect, Rebind, Break, vars,
       linkVars
<1>3. /\ connected' = connected \/ connected' = TRUE \/ connected' = FALSE
      /\ parked' = parked \/ parked' = TRUE \/ parked' = FALSE
      /\ sock' = sock \/ sock' = TRUE \/ sock' = FALSE
  BY DEF Next, QueueSend, Writer, Look, Dial, HandshakeFails,
       HandshakeDone, EndConnect, AfterLoop, ParkSeen, ParkTimeout, Disconnect,
       NothingQueued, TakeItem, WriteOk, WriteFails, Reader, Park, SeesLink, Unpark,
       Recheck, EnterPoll, ReadHeader, ReadPayload, WritePong, ReadError, MarkDown,
       AskReconnect, RequestConnect, Rebind, Break, vars, linkVars
<1>4. peer' = peer \/ peer' \in Ends
  BY DEF Ends, MayReset, Next, QueueSend, Writer, Look, Dial, HandshakeFails,
       HandshakeDone, EndConnect, AfterLoop, ParkSeen, ParkTimeout, Disconnect,
       NothingQueued, TakeItem, WriteOk, WriteFails, Reader, Park, SeesLink, Unpark,
       Recheck, EnterPoll, ReadHeader, ReadPayload, WritePong, ReadError, MarkDown,
       AskReconnect, RequestConnect, Rebind, Break, vars, linkVars
<1> QED
  BY <1>1, <1>2, <1>3, <1>4, Zenon DEF FlagsTyped

LEMMA CountsTypedStep == CountsTyped /\ [Next]_vars => CountsTyped'
<1> SUFFICES ASSUME CountsTyped, [Next]_vars PROVE CountsTyped'
  OBVIOUS
<1> USE DEF CountsTyped
<1> USE ConstAssumption
<1>1. CASE QueueSend \/ UNCHANGED vars
  BY <1>1 DEF QueueSend, linkVars, txVars, vars
<1>2. CASE Writer
  <2>1. CASE Look
    BY <2>1 DEF Look, TxRests
  <2>2. CASE Dial
    BY <2>2 DEF Dial, TxRests
  <2>3. CASE HandshakeFails \/ HandshakeDone
    BY <2>3 DEF HandshakeFails, HandshakeDone, TxRests
  <2>4. CASE EndConnect
    BY <2>4 DEF EndConnect, AfterLoop, TxRests
  <2>5. CASE ParkSeen \/ ParkTimeout \/ Disconnect
    BY <2>5 DEF ParkSeen, ParkTimeout, Disconnect, TxRests
  <2>6. CASE NothingQueued \/ TakeItem \/ WriteOk
    BY <2>6 DEF NothingQueued, TakeItem, WriteOk, TxRests
  <2>7. CASE WriteFails
    BY <2>7 DEF WriteFails, TxRests
  <2> QED
    BY <1>2, <2>1, <2>2, <2>3, <2>4, <2>5, <2>6, <2>7 DEF Writer
<1>3. CASE Reader
  BY <1>3 DEF Reader, Park, SeesLink, Unpark, Recheck, EnterPoll, ReadHeader,
       ReadPayload, WritePong, ReadError, MarkDown, AskReconnect, RxRests, txVars
<1>4. CASE RequestConnect \/ Rebind \/ Break
  BY <1>4 DEF RequestConnect, Rebind, Break, txVars
<1> QED
  BY <1>1, <1>2, <1>3, <1>4 DEF Next

LEMMA Typed == Spec => [](QueueTyped /\ FlagsTyped /\ CountsTyped)
<1>1. Init => QueueTyped /\ FlagsTyped /\ CountsTyped
  <2> SUFFICES ASSUME Init PROVE QueueTyped /\ FlagsTyped /\ CountsTyped
    OBVIOUS
  <2>1. <<>> \in Seq(Items) /\ Len(<<>>) = 0
    BY EmptySeq
  <2>2. QueueTyped
    BY <2>1, ConstAssumption DEF Init, QueueTyped
  <2>3. FlagsTyped
    BY DEF Init, FlagsTyped, Ends
  <2>4. CountsTyped
    BY ConstAssumption DEF Init, CountsTyped, TxRests, RxRests
  <2> QED
    BY <2>2, <2>3, <2>4
<1>2. QueueTyped /\ FlagsTyped /\ CountsTyped /\ [Next]_vars
        => (QueueTyped /\ FlagsTyped /\ CountsTyped)'
  BY QueueTypedStep, FlagsTypedStep, CountsTypedStep
<1> QED
  BY <1>1, <1>2, PTL DEF Spec

\* The queue stays within ML_DERP_TX_QUEUE_DEPTH, and the rest within its type.
THEOREM TypeCorrect == Spec => []TypeOK
<1>1. QueueTyped /\ FlagsTyped /\ CountsTyped => TypeOK
  BY Zenon DEF QueueTyped, FlagsTyped, CountsTyped, TypeOK
<1> QED
  BY <1>1, Typed, PTL

\* Putting a packet with a new id keeps the order.
LEMMA PutInOrder ==
  ASSUME NEW q \in Seq(Items), Len(q) <= QueueCap, NEW p \in Items,
         NEW n \in Nat, NEW l \in Nat, p.id = n + 1, InOrder(q, n, l)
  PROVE  InOrder(Put(q, p), n + 1, l)
<1> DEFINE r == Put(q, p)
<1>1. /\ r \in Seq(Items)
      /\ \/ /\ Len(r) = Len(q) /\ Len(q) > 0
            /\ \A i \in 1..(Len(q) - 1) : r[i] = q[i + 1]
            /\ r[Len(q)] = p
         \/ /\ Len(r) = Len(q) + 1 /\ p.handshake
            /\ \A i \in 1..Len(q) : r[i + 1] = q[i]
            /\ r[1] = p
         \/ /\ Len(r) = Len(q) + 1
            /\ \A i \in 1..Len(q) : r[i] = q[i]
            /\ r[Len(q) + 1] = p
  BY PutPlaces, Zenon
<1> HIDE DEF r
<1>2. Len(q) \in Nat
  BY LenProperties
<1>3. ASSUME NEW i \in 1..Len(q) PROVE q[i].id \in Nat
  <2>1. q[i] \in Items
    BY ElementOfSeq
  <2> QED
    BY <2>1, ConstAssumption DEF Items
<1>4. /\ \A i \in 1..Len(q) : q[i].id <= n /\ (~q[i].handshake => l < q[i].id)
      /\ \A i, j \in 1..Len(q) :
           i < j /\ ~q[i].handshake /\ ~q[j].handshake => q[i].id < q[j].id
      /\ l <= n
  BY Zenon DEF InOrder
<1>5. CASE /\ Len(r) = Len(q) /\ Len(q) > 0
           /\ \A i \in 1..(Len(q) - 1) : r[i] = q[i + 1]
           /\ r[Len(q)] = p
  <2>1. ASSUME NEW i \in 1..Len(r), i # Len(q)
        PROVE  i + 1 \in 1..Len(q) /\ r[i] = q[i + 1]
    <3>1. i + 1 \in 1..Len(q)
      BY <1>2, <1>5, <2>1
    <3> QED
      BY <1>2, <1>5, <2>1, <3>1
  <2>2. ASSUME NEW i \in 1..Len(r)
        PROVE  r[i].id <= n + 1 /\ (~r[i].handshake => l < r[i].id)
    <3>1. CASE i = Len(q)
      <4>1. r[i] = p
        BY <1>5, <3>1
      <4>2. n + 1 <= n + 1 /\ l < n + 1
        BY <1>4
      <4>3. p.id = n + 1
        OBVIOUS
      <4> QED
        BY <4>1, <4>2, <4>3
    <3>2. CASE i # Len(q)
      <4>1. i + 1 \in 1..Len(q) /\ r[i] = q[i + 1]
        BY <2>1, <3>2
      <4>2. q[i + 1].id \in Nat /\ q[i + 1].id <= n
            /\ (~q[i + 1].handshake => l < q[i + 1].id)
        BY <1>3, <1>4, <4>1
      <4> QED
        BY <4>1, <4>2
    <3> QED
      BY <3>1, <3>2
  <2>3. ASSUME NEW i \in 1..Len(r), NEW j \in 1..Len(r), i < j,
               ~r[i].handshake, ~r[j].handshake
        PROVE  r[i].id < r[j].id
    <3>1. CASE i # Len(q) /\ j # Len(q)
      <4>1. i + 1 \in 1..Len(q) /\ r[i] = q[i + 1]
        BY <2>1, <3>1
      <4>2. j + 1 \in 1..Len(q) /\ r[j] = q[j + 1]
        BY <2>1, <3>1
      <4>3. i + 1 < j + 1
        BY <2>3
      <4> QED
        BY <1>4, <2>3, <4>1, <4>2, <4>3
    <3>2. CASE i # Len(q) /\ j = Len(q)
      <4>1. i + 1 \in 1..Len(q) /\ r[i] = q[i + 1]
        BY <2>1, <3>2
      <4>2. q[i + 1].id \in Nat /\ q[i + 1].id <= n
        BY <1>3, <1>4, <4>1
      <4> QED
        BY <1>5, <2>3, <3>2, <4>1, <4>2
    <3>3. CASE i = Len(q)
      BY <1>2, <1>5, <2>3, <3>3
    <3> QED
      BY <3>1, <3>2, <3>3
  <2> QED
    BY <1>4, <2>2, <2>3 DEF InOrder, r
<1>6. CASE /\ Len(r) = Len(q) + 1 /\ p.handshake
           /\ \A i \in 1..Len(q) : r[i + 1] = q[i]
           /\ r[1] = p
  <2>1. ASSUME NEW i \in 1..Len(r), i # 1
        PROVE  i - 1 \in 1..Len(q) /\ r[i] = q[i - 1]
    <3>1. i - 1 \in 1..Len(q)
      BY <1>2, <1>6, <2>1
    <3> QED
      BY <1>2, <1>6, <2>1, <3>1
  <2>2. ASSUME NEW i \in 1..Len(r)
        PROVE  r[i].id <= n + 1 /\ (~r[i].handshake => l < r[i].id)
    <3>1. CASE i = 1
      <4>1. r[i] = p
        BY <1>6, <3>1
      <4>2. n + 1 <= n + 1 /\ l < n + 1
        BY <1>4
      <4>3. p.id = n + 1
        OBVIOUS
      <4> QED
        BY <4>1, <4>2, <4>3
    <3>2. CASE i # 1
      <4>1. i - 1 \in 1..Len(q) /\ r[i] = q[i - 1]
        BY <2>1, <3>2
      <4>2. q[i - 1].id \in Nat /\ q[i - 1].id <= n
            /\ (~q[i - 1].handshake => l < q[i - 1].id)
        BY <1>3, <1>4, <4>1
      <4> QED
        BY <4>1, <4>2
    <3> QED
      BY <3>1, <3>2
  <2>3. ASSUME NEW i \in 1..Len(r), NEW j \in 1..Len(r), i < j,
               ~r[i].handshake, ~r[j].handshake
        PROVE  r[i].id < r[j].id
    <3>1. CASE i # 1 /\ j # 1
      <4>1. i - 1 \in 1..Len(q) /\ r[i] = q[i - 1]
        BY <2>1, <3>1
      <4>2. j - 1 \in 1..Len(q) /\ r[j] = q[j - 1]
        BY <2>1, <3>1
      <4>3. i - 1 < j - 1
        BY <2>3
      <4> QED
        BY <1>4, <2>3, <4>1, <4>2, <4>3
    <3>2. CASE i # 1 /\ j = 1
      <4>1. i - 1 \in 1..Len(q) /\ r[i] = q[i - 1]
        BY <2>1, <3>2
      <4>2. q[i - 1].id \in Nat /\ q[i - 1].id <= n
        BY <1>3, <1>4, <4>1
      <4> QED
        BY <1>6, <2>3, <3>2, <4>1, <4>2
    <3>3. CASE i = 1
      BY <1>2, <1>6, <2>3, <3>3
    <3> QED
      BY <3>1, <3>2, <3>3
  <2> QED
    BY <1>4, <2>2, <2>3 DEF InOrder, r
<1>7. CASE /\ Len(r) = Len(q) + 1
           /\ \A i \in 1..Len(q) : r[i] = q[i]
           /\ r[Len(q) + 1] = p
  <2>1. ASSUME NEW i \in 1..Len(r), i # Len(q) + 1
        PROVE  i \in 1..Len(q) /\ r[i] = q[i]
    <3>1. i \in 1..Len(q)
      BY <1>2, <1>7, <2>1
    <3> QED
      BY <1>2, <1>7, <2>1, <3>1
  <2>2. ASSUME NEW i \in 1..Len(r)
        PROVE  r[i].id <= n + 1 /\ (~r[i].handshake => l < r[i].id)
    <3>1. CASE i = Len(q) + 1
      <4>1. r[i] = p
        BY <1>7, <3>1
      <4>2. n + 1 <= n + 1 /\ l < n + 1
        BY <1>4
      <4>3. p.id = n + 1
        OBVIOUS
      <4> QED
        BY <4>1, <4>2, <4>3
    <3>2. CASE i # Len(q) + 1
      <4>1. i \in 1..Len(q) /\ r[i] = q[i]
        BY <2>1, <3>2
      <4>2. q[i].id \in Nat /\ q[i].id <= n
            /\ (~q[i].handshake => l < q[i].id)
        BY <1>3, <1>4, <4>1
      <4> QED
        BY <4>1, <4>2
    <3> QED
      BY <3>1, <3>2
  <2>3. ASSUME NEW i \in 1..Len(r), NEW j \in 1..Len(r), i < j,
               ~r[i].handshake, ~r[j].handshake
        PROVE  r[i].id < r[j].id
    <3>1. CASE i # Len(q) + 1 /\ j # Len(q) + 1
      <4>1. i \in 1..Len(q) /\ r[i] = q[i]
        BY <2>1, <3>1
      <4>2. j \in 1..Len(q) /\ r[j] = q[j]
        BY <2>1, <3>1
      <4>3. i < j
        BY <2>3
      <4> QED
        BY <1>4, <2>3, <4>1, <4>2, <4>3
    <3>2. CASE i # Len(q) + 1 /\ j = Len(q) + 1
      <4>1. i \in 1..Len(q) /\ r[i] = q[i]
        BY <2>1, <3>2
      <4>2. q[i].id \in Nat /\ q[i].id <= n
        BY <1>3, <1>4, <4>1
      <4> QED
        BY <1>7, <2>3, <3>2, <4>1, <4>2
    <3>3. CASE i = Len(q) + 1
      BY <1>2, <1>7, <2>3, <3>3
    <3> QED
      BY <3>1, <3>2, <3>3
  <2> QED
    BY <1>4, <2>2, <2>3 DEF InOrder, r
<1> QED
  BY <1>1, <1>5, <1>6, <1>7 DEF r

LEMMA OrderedStep == QueueTyped /\ Ordered /\ [Next]_vars => Ordered'
<1> SUFFICES ASSUME QueueTyped, Ordered, [Next]_vars PROVE Ordered'
  OBVIOUS
<1>1. CASE QueueSend
  <2>1. PICK h \in BOOLEAN :
          queue' = Put(queue, [handshake |-> h, id |-> queued + 1])
    BY <1>1 DEF QueueSend
  <2>2. /\ [handshake |-> h, id |-> queued + 1] \in Items
        /\ [handshake |-> h, id |-> queued + 1].id = queued + 1
        /\ queued \in Nat /\ lastData \in Nat
    BY <1>1, ConstAssumption DEF QueueSend, QueueTyped, Items
  <2>3. queued' = queued + 1 /\ lastData' = lastData
    BY <1>1 DEF QueueSend
  <2>4. InOrder(Put(queue, [handshake |-> h, id |-> queued + 1]), queued + 1, lastData)
    BY <2>2, PutInOrder, Zenon DEF QueueTyped, Ordered
  <2> QED
    BY <2>1, <2>3, <2>4, Zenon DEF Ordered
<1>2. CASE TakeItem
  <2>1. /\ Len(queue) \in Nat \ {0} /\ Len(queue') = Len(queue) - 1
        /\ \A i \in 1..Len(queue') : queue'[i] = queue[i + 1]
    BY <1>2, HeadTailProperties, LenProperties, EmptySeq DEF TakeItem, QueueTyped
  <2>2. queued' = queued
    BY <1>2 DEF TakeItem
  <2>3. lastData' = lastData \/ (~queue[1].handshake /\ lastData' = queue[1].id)
    BY <1>2 DEF TakeItem
  <2>4. \A i \in 1..Len(queue') : i + 1 \in 1..Len(queue) /\ 1 < i + 1
    BY <2>1
  <2>5. 1 \in 1..Len(queue)
    BY <2>1
  <2>6. \A i \in 1..Len(queue') : queue'[i].id <= queued'
    BY <2>1, <2>2, <2>4 DEF Ordered, InOrder
  <2>7. ASSUME NEW i \in 1..Len(queue'), NEW j \in 1..Len(queue'), i < j,
               ~queue'[i].handshake, ~queue'[j].handshake
        PROVE  queue'[i].id < queue'[j].id
    BY <2>1, <2>4, <2>7 DEF Ordered, InOrder
  <2>8. ASSUME NEW i \in 1..Len(queue'), ~queue'[i].handshake
        PROVE  lastData' < queue'[i].id
    BY <2>1, <2>3, <2>4, <2>5, <2>8 DEF Ordered, InOrder
  <2>9. lastData' <= queued'
    BY <2>2, <2>3, <2>5 DEF Ordered, InOrder
  <2> QED
    BY <2>6, <2>7, <2>8, <2>9 DEF Ordered, InOrder
<1>3. CASE Disconnect
  <2>1. queue' = <<>> /\ queued' = queued /\ lastData' = lastData
    BY <1>3 DEF Disconnect
  <2> QED
    BY <2>1 DEF Ordered, InOrder
<1>4. CASE UNCHANGED queueVars
  BY <1>4, Zenon DEF queueVars, Ordered
<1> QED
  BY <1>1, <1>2, <1>3, <1>4, QueueSteps

LEMMA OrderKept == QueueTyped /\ Ordered /\ [Next]_vars => lastData' >= lastData
<1> SUFFICES ASSUME QueueTyped, Ordered, [Next]_vars PROVE lastData' >= lastData
  OBVIOUS
<1>1. lastData \in Nat
  BY ConstAssumption DEF QueueTyped
<1>2. CASE TakeItem
  <2>1. 1 \in 1..Len(queue)
    BY <1>2, EmptySeq DEF TakeItem, QueueTyped
  <2>2. queue[1].id \in Nat
    <3>1. queue[1] \in Items
      BY <2>1, ElementOfSeq DEF QueueTyped
    <3> QED
      BY <3>1, ConstAssumption DEF Items
  <2>3. lastData' = lastData \/ (~queue[1].handshake /\ lastData' = queue[1].id)
    BY <1>2 DEF TakeItem
  <2> QED
    BY <1>1, <2>1, <2>2, <2>3 DEF Ordered, InOrder
<1>3. CASE lastData' = lastData
  BY <1>1, <1>3
<1>4. TakeItem \/ lastData' = lastData
  BY QueueSteps DEF QueueSend, Disconnect, queueVars
<1> QED
  BY <1>2, <1>3, <1>4

\* Whatever is dropped from a full queue, drained by a teardown or overtaken by a
\* handshake, the other packets are written in the order they were queued.
THEOREM OrderCorrect == Spec => DataInOrder
<1>1. Init => Ordered
  BY DEF Init, Ordered, InOrder
<1>2. QueueTyped /\ Ordered /\ [Next]_vars => [lastData' >= lastData]_vars
  BY OrderKept
<1> QED
  BY <1>1, <1>2, OrderedStep, Typed, PTL DEF Spec, DataInOrder

-----------------------------------------------------------------------------
(* The path to a peer (Paths).                                             *)

\* No limit reaches Never.
LEMMA NeverAge == Never \in Nat /\ Never > Trust + 1 /\ Never > Reject
BY PathsAssumption DEF Never

LEMMA PathTypeInit == PathInit => PathTypeOK
<1> SUFFICES ASSUME PathInit PROVE PathTypeOK
  OBVIOUS
<1>1. 0 \in 0 .. MaxTries
  BY PathsAssumption
<1>2. /\ heard \in 0 .. (Trust + 2) \cup {Never}
      /\ derpTry \in {0, 1, Never} /\ initTry \in {0, 1, Never} /\ lastRx \in {0, 1, Never}
      /\ curr \in Ages
  BY DEF PathInit, Ages
<1>3. ep \in {"derp", "direct"} /\ tries \in 0 .. MaxTries
  BY <1>1 DEF PathInit
<1> QED
  BY <1>2, <1>3 DEF PathInit, PathTypeOK

\* What ages stays an age, what counts stays in its bound, and the endpoint
\* and the answers in flight stay what they are declared to be.
LEMMA PathTypeStep == PathTypeOK /\ [PathNext]_pathVars => PathTypeOK'
<1> SUFFICES ASSUME PathTypeOK, [PathNext]_pathVars PROVE PathTypeOK'
  OBVIOUS
<1> USE PathsAssumption DEF PathTypeOK, Ages, env, disco, mgr, wg
<1>1. CASE Probe
  <2>1. ep' \in {"derp", "direct"} /\ active' \in BOOLEAN /\ answer' \in {"none", "derp", "direct"}
    BY <1>1 DEF Probe, ConnectDerp, Initiate
  <2>2. pongs' \subseteq {"derp", "direct"}
    BY <1>1 DEF Probe, Ping
  <2>3. has_direct_path' \in BOOLEAN /\ derpTry' \in {0, 1, Never}
        /\ ran' \subseteq {"probe", "wg"}
    BY <1>1 DEF Probe
  <2> QED
    BY <1>1, <2>1, <2>2, <2>3 DEF Probe
<1>2. CASE Periodic
  <2>1. curr' \in Ages /\ ran' \subseteq {"probe", "wg"} /\ active' \in BOOLEAN
        /\ tries' \in 0 .. MaxTries
    BY <1>2 DEF Periodic
  <2>2. answer' \in {"none", "derp", "direct"}
    BY <1>2 DEF Periodic, Initiate
  <2> QED
    BY <1>2, <2>1, <2>2 DEF Periodic
<1>3. CASE PongByRelay
  BY <1>3 DEF PongByRelay
<1>4. CASE PongDirect
  <2>1. ep' \in {"derp", "direct"} /\ active' \in BOOLEAN /\ answer' \in {"none", "derp", "direct"}
    BY <1>4 DEF PongDirect, ConnectDirect, Initiate, Up
  <2>2. heard' \in 0 .. (Trust + 2)
    BY <1>4 DEF PongDirect
  <2>3. initTry' \in {0, 1, Never} /\ pongs' \subseteq {"derp", "direct"}
    BY <1>4 DEF PongDirect
  <2> QED
    BY <1>4, <2>1, <2>2, <2>3 DEF PongDirect
<1>5. CASE CallMeMaybe
  BY <1>5 DEF CallMeMaybe, Ping
<1>6. CASE Trigger
  <2>1. ep' \in {"derp", "direct"} /\ active' \in BOOLEAN /\ answer' \in {"none", "derp", "direct"}
    BY <1>6 DEF Trigger, ConnectDerp, ConnectDirect, Initiate
  <2>2. connectIp' \in BOOLEAN
    BY <1>6 DEF Trigger
  <2> QED
    BY <1>6, <2>1, <2>2 DEF Trigger
<1>7. CASE Answered
  BY <1>7 DEF Answered
<1>8. CASE \E p \in {"derp", "direct"} : Data(p)
  BY <1>8 DEF Data
<1>9. CASE Readd
  <2>1. pongs' \subseteq {"derp", "direct"}
    BY <1>9 DEF Readd, Ping
  <2>2. heard' \in 0 .. (Trust + 2) \cup {Never}
    BY <1>9 DEF Readd
  <2>3. added' \in {0, 1} /\ has_direct_path' \in BOOLEAN /\ best' \in BOOLEAN
    BY <1>9 DEF Readd
  <2> QED
    BY <1>9, <2>1, <2>2, <2>3 DEF Readd
<1>10. CASE Network
  <2>1. direct' \in {"up", "disco", "down"} /\ relay' \in BOOLEAN
    BY <1>10 DEF Network
  <2> QED
    BY <1>10, <2>1 DEF Network
<1>11. CASE Tick
  <2>1. heard' \in 0 .. (Trust + 2) \cup {Never}
    <3>1. ASSUME heard \in 0 .. (Trust + 2) PROVE Older(heard, Trust + 2) \in 0 .. (Trust + 2)
      BY <3>1 DEF Older
    <3>2. Older(Never, Trust + 2) = Never \/ Older(Never, Trust + 2) \in 0 .. (Trust + 2)
      BY NeverAge DEF Older
    <3> QED
      BY <1>11, <3>1, <3>2 DEF Tick
  <2>2. curr' \in Ages
    <3>1. ASSUME curr \in 0 .. Reject PROVE Older(curr, Reject) \in 0 .. Reject
      BY <3>1 DEF Older
    <3>2. Older(Never, Reject) = Never
      BY NeverAge DEF Older
    <3> QED
      BY <1>11, <3>1, <3>2 DEF Tick
  <2>3. tries' \in 0 .. MaxTries
    BY <1>11 DEF Tick, Older
  <2>4. ASSUME NEW a \in {0, 1, Never} PROVE Older(a, 1) \in {0, 1, Never}
    BY NeverAge, <2>4 DEF Older
  <2>5. derpTry' \in {0, 1, Never} /\ initTry' \in {0, 1, Never} /\ lastRx' \in {0, 1, Never}
    BY <1>11, <2>4 DEF Tick
  <2> QED
    BY <1>11, <2>1, <2>2, <2>3, <2>5 DEF Tick
<1>12. CASE UNCHANGED pathVars
  BY <1>12 DEF pathVars
<1> QED
  BY <1>1, <1>2, <1>3, <1>4, <1>5, <1>6, <1>7, <1>8, <1>9, <1>10, <1>11, <1>12
     DEF PathNext

\* Every age is one the code can tell from the others, or Never, for all limits.
THEOREM PathTypeCorrect == PathSpec => []PathTypeOK
<1> QED
  BY PathTypeInit, PathTypeStep, PTL DEF PathSpec

\* DirectIsFresh is not inductive: what keeps the age of the last pong under
\* the limit is that the loop looks at it once in every unit, before time goes
\* on.  Between the look and the tick it is within the trust itself.
Fresh ==
  has_direct_path => /\ best /\ connectIp
                     /\ heard <= Trust + 1
                     /\ "probe" \in ran => heard <= Trust

LEMMA FreshStep == PathTypeOK /\ Fresh /\ [PathNext]_pathVars => Fresh'
<1> SUFFICES ASSUME PathTypeOK, Fresh, [PathNext]_pathVars PROVE Fresh'
  OBVIOUS
<1> USE PathsAssumption DEF Fresh, env, disco, mgr, wg
<1>0. heard \in Nat /\ Trust \in Nat
  BY NeverAge DEF PathTypeOK
<1>1. CASE Probe
  <2>1. has_direct_path' => has_direct_path /\ heard' = heard /\ ~(heard > Trust)
    BY <1>1 DEF Probe, Expired
  <2>2. best' = best /\ connectIp' = connectIp
    BY <1>1 DEF Probe
  <2> QED
    BY <1>0, <2>1, <2>2
<1>2. CASE Periodic
  BY <1>2 DEF Periodic
<1>4. CASE PongDirect
  BY <1>4 DEF PongDirect
<1>6. CASE Trigger
  BY <1>6 DEF Trigger
<1>9. CASE Readd
  BY <1>9 DEF Readd
<1>11. CASE Tick
  BY <1>0, <1>11 DEF Tick, Older
<1>12. CASE PongByRelay \/ CallMeMaybe \/ Answered \/ Network \/ UNCHANGED pathVars
  BY <1>12 DEF PongByRelay, CallMeMaybe, Answered, Network, pathVars
<1>13. CASE \E p \in {"derp", "direct"} : Data(p)
  BY <1>13 DEF Data
<1> QED
  BY <1>1, <1>2, <1>4, <1>6, <1>9, <1>11, <1>12, <1>13 DEF PathNext

\* A path is called direct (disco_periodic_probes, process_disco_pong) only on a
\* pong of the last units and with an address WireGuard can connect to, however
\* pongs, CallMeMaybes, netmaps and the loop interleave and whatever the limits.
THEOREM DirectIsFreshCorrect == PathSpec => []DirectIsFresh
<1>1. PathInit => Fresh
  BY DEF PathInit, Fresh
<1>2. Fresh => DirectIsFresh
  BY DEF Fresh, DirectIsFresh
<1> QED
  BY PathTypeInit, PathTypeStep, FreshStep, <1>1, <1>2, PTL DEF PathSpec
-----------------------------------------------------------------------------
(* The peers of a node (PeerTable): numbers and least elements.            *)

\* The library's order on the natural numbers, as a set of pairs.  WFMin takes
\* sets, no operators, so it can be used for an induction by least element.
Lower == {ss \in Nat \X Nat : ss[1] < ss[2]}

LEMMA LowerIsWellFounded == IsWellFoundedOn(Lower, Nat)
BY NatLessThanWellFounded DEF OpToRel, Lower

LEMMA Least ==
  ASSUME NEW T \in SUBSET Nat, T # {}
  PROVE  \E n \in T : \A m \in T : n <= m
<1>1. PICK n \in T : \A m \in T : ~(<<m, n>> \in Lower)
  BY LowerIsWellFounded, WFMin
<1>2. ASSUME NEW m \in T PROVE n <= m
  <2>1. n \in Nat /\ m \in Nat
    OBVIOUS
  <2>2. m < n => <<m, n>> \in Lower
    BY <2>1 DEF Lower
  <2> QED
    BY <1>1, <2>1, <2>2
<1> QED
  BY <1>2

\* The first of some entries is one of them and before the others.
LEMMA FirstIs ==
  ASSUME NEW T \in SUBSET Nat, T # {}
  PROVE  First(T) \in T /\ \A j \in T : First(T) <= j
BY Least DEF First

\* remove_peer's loop ends at the last active entry, or at 0 if there is none.
LEMMA LastActiveIs ==
  ASSUME NEW t, peer_count \in Nat
  PROVE  /\ LastActive(t) \in 0 .. peer_count
         /\ \A j \in (LastActive(t) + 1) .. peer_count : t[j].key = NoKey
<1>1. CASE \A i \in 1 .. peer_count : t[i].key = NoKey
  <2>1. LastActive(t) = 0
    BY <1>1 DEF LastActive
  <2> QED
    BY <1>1, <2>1
<1>2. CASE ~(\A i \in 1 .. peer_count : t[i].key = NoKey)
  <2> DEFINE T == {m \in 0 .. peer_count : \A j \in (m + 1) .. peer_count : t[j].key = NoKey}
             Final(i) == t[i].key # NoKey /\ \A j \in (i + 1) .. peer_count : t[j].key = NoKey
  <2>1. peer_count \in T /\ T \in SUBSET Nat
    OBVIOUS
  <2>2. PICK m \in T : \A n \in T : m <= n
    BY <2>1, Least
  <2>3. m # 0
    BY <1>2, <2>2
  <2>4. m \in 1 .. peer_count /\ m - 1 \in 0 .. peer_count /\ (m - 1) \notin T
    BY <2>2, <2>3
  <2>5. PICK j \in ((m - 1) + 1) .. peer_count : t[j].key # NoKey
    BY <2>4
  <2>6. j = m
    BY <2>2, <2>4, <2>5
  <2>7. Final(m)
    BY <2>2, <2>5, <2>6
  <2> HIDE DEF T
  <2>8. LastActive(t) = CHOOSE i \in 1 .. peer_count : Final(i)
    BY <1>2 DEF LastActive
  <2>9. LastActive(t) \in 1 .. peer_count /\ Final(LastActive(t))
    BY <2>4, <2>7, <2>8
  <2> QED
    BY <2>9
<1> QED
  BY <1>1, <1>2

-----------------------------------------------------------------------------
(* Types.                                                                  *)

Updates == [action : {"add", "remove"}, key : Keys]
Entries == [key : Keys, lru : Nat]

QueuesTyped == wire \in Seq(Updates) /\ upq \in Seq(Updates)
CacheTyped ==
  /\ cache \in Seq(Entries) /\ lru_clock \in Nat
  /\ flash \in [entries : Seq(Entries), clock : Nat]
TableTyped == TableTypeOK /\ QueuesTyped /\ CacheTyped

LEMMA NoKeyIsNone == NoKey \notin Keys
BY DEF NoKey, Keys

\* The netmap's list is a sequence of updates, each of a peer that is there.
LEMMA MembersFinite == IsFiniteSet(Members) /\ (members \in [Nodes -> Keys \cup {NoKey}] => Members \subseteq Keys)
<1> DEFINE S == {members[n] : n \in Nodes}
           f == [n \in Nodes |-> members[n]]
<1>1. f \in Surjection(Nodes, S)
  BY DEF Surjection
<1>2. IsFiniteSet(S)
  BY <1>1, FS_Surjection, TableAssumption
<1>3. Members \in SUBSET S
  BY DEF Members
<1>4. IsFiniteSet(Members)
  BY <1>2, <1>3, FS_Subset
<1> QED
  BY <1>4 DEF Members

LEMMA FullMapTyped ==
  ASSUME members \in [Nodes -> Keys \cup {NoKey}]
  PROVE  FullMap \subseteq Seq(Updates)
<1> SUFFICES ASSUME NEW s \in SetToSeqs(Members)
             PROVE  [i \in DOMAIN s |-> Add(s[i])] \in Seq(Updates)
  BY DEF FullMap
<1>1. Cardinality(Members) \in Nat
  BY MembersFinite, FS_CardinalityType
<1>2. s \in [1 .. Cardinality(Members) -> Members]
  BY DEF SetToSeqs
<1>3. s \in [1 .. Cardinality(Members) -> Keys]
  BY <1>2, MembersFinite
<1>4. [i \in DOMAIN s |-> Add(s[i])] \in [1 .. Cardinality(Members) -> Updates]
  BY <1>3 DEF Add, Updates
<1> QED
  BY <1>1, <1>4, SeqDef

LEMMA Enqueued ==
  ASSUME NEW S, NEW s \in Seq(S)
  PROVE  /\ s # <<>> => Head(s) \in S /\ Tail(s) \in Seq(S) /\ Len(Tail(s)) = Len(s) - 1
         /\ \A e \in S : Append(s, e) \in Seq(S) /\ Len(Append(s, e)) = Len(s) + 1
BY EmptySeq, HeadTailProperties, AppendProperties

\* SaveSlot is an entry of the cache or the place after the last one, within
\* the size of the cache.
LEMMA SaveSlotIs ==
  ASSUME CacheTyped, Len(cache) <= CacheMax, NEW k \in Keys
  PROVE  \/ SaveSlot(k) \in Matching(k) /\ SaveSlot(k) \in 1 .. Len(cache)
         \/ Matching(k) = {} /\ Len(cache) < CacheMax /\ SaveSlot(k) = Len(cache) + 1
         \/ /\ Matching(k) = {} /\ Len(cache) = CacheMax
            /\ SaveSlot(k) \in Oldest /\ SaveSlot(k) \in 1 .. Len(cache)
<1>1. Len(cache) \in Nat /\ DOMAIN cache = 1 .. Len(cache) /\ CacheMax \in Nat \ {0}
  BY TableAssumption, LenProperties DEF CacheTyped
<1>2. CASE Matching(k) # {}
  <2>1. Matching(k) \in SUBSET Nat /\ Matching(k) \subseteq 1 .. Len(cache)
    BY <1>1 DEF Matching
  <2>2. SaveSlot(k) \in Matching(k)
    BY <1>2, <2>1, FirstIs DEF SaveSlot
  <2>3. SaveSlot(k) \in 1 .. Len(cache)
    BY <2>1, <2>2
  <2> QED
    BY <2>2, <2>3
<1>3. CASE Matching(k) = {} /\ Len(cache) < CacheMax
  BY <1>3 DEF SaveSlot
<1>4. CASE Matching(k) = {} /\ Len(cache) = CacheMax
  <2> DEFINE L == {cache[i].lru : i \in 1 .. Len(cache)}
  <2>1. \A i \in 1 .. Len(cache) : cache[i].lru \in Nat
    <3>1. \A i \in 1 .. Len(cache) : cache[i] \in Entries
      BY ElementOfSeq DEF CacheTyped
    <3> QED
      BY <3>1 DEF Entries
  <2>2. L \in SUBSET Nat
    BY <2>1
  <2>3. cache[1].lru \in L
    BY <1>1, <1>4
  <2> HIDE DEF L
  <2>4. PICK n \in L : \A m \in L : n <= m
    BY <2>2, <2>3, Least
  <2>5. PICK i \in 1 .. Len(cache) : cache[i].lru = n
    BY <2>4 DEF L
  <2>6. i \in Oldest
    BY <1>1, <2>4, <2>5 DEF Oldest, L
  <2>7. Oldest \in SUBSET Nat /\ Oldest \subseteq 1 .. Len(cache)
    BY <1>1 DEF Oldest
  <2>8. SaveSlot(k) = First(Oldest)
    BY <1>1, <1>4 DEF SaveSlot
  <2>9. SaveSlot(k) \in Oldest
    BY <2>6, <2>7, <2>8, FirstIs
  <2>10. SaveSlot(k) \in 1 .. Len(cache)
    BY <2>7, <2>9
  <2> QED
    BY <1>4, <2>9, <2>10
<1>5. Len(cache) < CacheMax \/ Len(cache) = CacheMax
  <2>1. Len(cache) \in Nat /\ CacheMax \in Nat
    BY <1>1
  <2>2. \A a, b \in Nat : a <= b => a < b \/ a = b
    OBVIOUS
  <2> QED
    BY <2>1, <2>2
<1> QED
  BY <1>2, <1>3, <1>4, <1>5

\* ml_peer_nvs_save keeps the cache and the flash what they are, and within
\* their size.
LEMMA SaveTyped ==
  ASSUME CacheTyped, Len(cache) <= CacheMax, Len(flash.entries) <= CacheMax,
         NEW k \in Keys, Save(k)
  PROVE  CacheTyped' /\ Len(cache') <= CacheMax /\ Len(flash'.entries) <= CacheMax
<1> DEFINE tick == (lru_clock + 1) % LruMod
           entry == [key |-> k, lru |-> tick]
<1>1. tick \in Nat
  BY TableAssumption DEF CacheTyped
<1>2. entry \in Entries
  BY <1>1 DEF Entries
<1>3. Len(cache) \in Nat /\ CacheMax \in Nat
  BY TableAssumption, LenProperties DEF CacheTyped
<1>4. /\ lru_clock' = tick
      /\ cache' = IF SaveSlot(k) > Len(cache) THEN Append(cache, entry)
                  ELSE [cache EXCEPT ![SaveSlot(k)] = entry]
      /\ flash' = [entries |-> cache', clock |-> tick] \/ flash' = flash
  BY DEF Save
<1> HIDE DEF tick, entry
<1>5. \/ SaveSlot(k) \in 1 .. Len(cache)
      \/ SaveSlot(k) = Len(cache) + 1 /\ Len(cache) < CacheMax
  BY SaveSlotIs
<1>6. cache' \in Seq(Entries) /\ Len(cache') <= CacheMax
  <2>1. CASE SaveSlot(k) > Len(cache)
    BY <1>2, <1>3, <1>4, <1>5, <2>1, Enqueued DEF CacheTyped
  <2>2. CASE ~(SaveSlot(k) > Len(cache))
    <3>1. cache' = [cache EXCEPT ![SaveSlot(k)] = entry] /\ SaveSlot(k) \in 1 .. Len(cache)
      BY <1>3, <1>4, <1>5, <2>2
    <3> QED
      BY <1>2, <1>3, <3>1, ExceptSeq DEF CacheTyped
  <2> QED
    BY <2>1, <2>2
<1>7. flash' \in [entries : Seq(Entries), clock : Nat] /\ Len(flash'.entries) <= CacheMax
  <2>1. CASE flash' = flash
    BY <2>1 DEF CacheTyped
  <2>2. CASE flash' = [entries |-> cache', clock |-> tick]
    BY <1>1, <1>6, <2>2
  <2> QED
    BY <1>4, <2>1, <2>2
<1> QED
  BY <1>1, <1>4, <1>6, <1>7 DEF CacheTyped

\* What flash holds and how much of it is loaded.
LEMMA LoadedIs ==
  ASSUME CacheTyped
  PROVE  /\ Loaded \in 0 .. Slots /\ Loaded <= Len(flash.entries)
         /\ Preloaded \in [1 .. Slots -> [key : Keys \cup {NoKey}, wg : 0 .. Slots]]
         /\ \A i \in 1 .. Slots : Preloaded[i].wg = 0
         /\ \A i \in 1 .. Slots : Preloaded[i].key # NoKey <=> i <= Loaded
         /\ \A i \in 1 .. Loaded : Preloaded[i].key = flash.entries[i].key
<1>1. flash.entries \in Seq(Entries) /\ Slots \in Nat
  BY TableAssumption DEF CacheTyped
<1>2. Len(flash.entries) \in Nat
  BY <1>1, LenProperties
<1>3. Loaded \in 0 .. Slots /\ Loaded <= Len(flash.entries)
  BY <1>1, <1>2 DEF Loaded
<1>4. \A i \in 1 .. Loaded : flash.entries[i].key \in Keys
  <2>1. \A i \in 1 .. Loaded : flash.entries[i] \in Entries
    BY <1>1, <1>2, <1>3, ElementOfSeq
  <2> QED
    BY <2>1 DEF Entries
<1>5. ASSUME NEW i \in 1 .. Slots
      PROVE  /\ Preloaded[i] \in [key : Keys \cup {NoKey}, wg : 0 .. Slots]
             /\ Preloaded[i].wg = 0
             /\ Preloaded[i].key # NoKey <=> i <= Loaded
             /\ i <= Loaded => Preloaded[i].key = flash.entries[i].key
  <2>1. CASE i <= Loaded
    <3>1. Preloaded[i] = [key |-> flash.entries[i].key, wg |-> 0]
      BY <2>1 DEF Preloaded
    <3>2. flash.entries[i].key \in Keys
      BY <1>3, <1>4, <2>1
    <3> QED
      BY <1>1, <2>1, <3>1, <3>2, NoKeyIsNone
  <2>2. CASE ~(i <= Loaded)
    <3>1. Preloaded[i] = [key |-> NoKey, wg |-> 0]
      BY <2>2 DEF Preloaded, Free
    <3> QED
      BY <1>1, <2>2, <3>1
  <2> QED
    BY <2>1, <2>2
<1> QED
  BY <1>1, <1>3, <1>5 DEF Preloaded

-----------------------------------------------------------------------------
(* The device's peers.                                                     *)

Table == [1 .. Slots -> [key : Keys \cup {NoKey}, wg : 0 .. Slots]]
Device == [1 .. Slots -> Keys \cup {NoKey}]

\* Each entry of S owns a peer of the device with its key, the device has no
\* other, and no two entries of S have one key.
Owns(t, d, S) ==
  /\ \A i \in S : t[i].key \in Keys /\ t[i].wg \in 1 .. Slots /\ d[t[i].wg] = t[i].key
  /\ \A x \in 1 .. Slots : d[x] # NoKey => \E i \in S : t[i].wg = x
  /\ \A i, j \in S : t[i].key = t[j].key => i = j

\* As long as one entry owns no peer of the device, a peer of it is free.
LEMMA PeerIsFree ==
  ASSUME NEW t, NEW d, NEW S \in SUBSET (1 .. Slots), Owns(t, d, S),
         NEW i \in 1 .. Slots, i \notin S
  PROVE  \E x \in 1 .. Slots : d[x] = NoKey
<1> SUFFICES ASSUME \A x \in 1 .. Slots : d[x] # NoKey PROVE FALSE
  OBVIOUS
<1> DEFINE owner == [x \in 1 .. Slots |-> CHOOSE j \in S : t[j].wg = x]
<1>1. \A x \in 1 .. Slots : owner[x] \in S /\ t[owner[x]].wg = x
  BY DEF Owns
<1>2. owner = [x \in 1 .. Slots |-> owner[x]]
  OBVIOUS
<1> HIDE DEF owner
<1>3. \A x \in 1 .. Slots : owner[x] \in (1 .. Slots) \ {i}
  BY <1>1
<1>4. owner \in [1 .. Slots -> (1 .. Slots) \ {i}]
  BY <1>2, <1>3
<1>5. IsFiniteSet(1 .. Slots) /\ Cardinality(1 .. Slots) = Slots
  BY TableAssumption, FS_Interval
<1>6. /\ IsFiniteSet((1 .. Slots) \ {i})
      /\ Cardinality((1 .. Slots) \ {i}) = Cardinality(1 .. Slots) - 1
  BY <1>5, FS_RemoveElement
<1>7. Cardinality((1 .. Slots) \ {i}) < Cardinality(1 .. Slots)
  BY <1>5, <1>6, TableAssumption
<1>8. PICK x, y \in 1 .. Slots : x # y /\ owner[x] = owner[y]
  BY <1>4, <1>5, <1>6, <1>7, FS_PigeonHole
<1> QED
  BY <1>1, <1>8

\* What wireguardif_add_peer chooses for a key that no entry has: a free peer.
LEMMA FreshIndex ==
  ASSUME NEW t, NEW d, NEW S \in SUBSET (1 .. Slots), Owns(t, d, S),
         NEW i \in 1 .. Slots, i \notin S, NEW k \in Keys, \A j \in S : t[j].key # k
  PROVE  DevIndex(d, k) \in 1 .. Slots /\ d[DevIndex(d, k)] = NoKey
<1> DEFINE known == {x \in 1 .. Slots : d[x] = k}
           empty == {x \in 1 .. Slots : d[x] = NoKey}
<1>1. known = {}
  BY NoKeyIsNone DEF Owns
<1>2. empty # {} /\ empty \in SUBSET Nat
  BY PeerIsFree
<1>3. First(empty) \in empty
  BY <1>2, FirstIs
<1>4. DevIndex(d, k) = First(empty)
  BY <1>1, <1>2 DEF DevIndex
<1> QED
  BY <1>3, <1>4

\* And for a key that an entry has: the peer this entry owns.
LEMMA KnownIndex ==
  ASSUME NEW t, NEW d, NEW S \in SUBSET (1 .. Slots), Owns(t, d, S),
         NEW i \in S
  PROVE  DevIndex(d, t[i].key) = t[i].wg
<1> DEFINE known == {x \in 1 .. Slots : d[x] = t[i].key}
<1>1. t[i].wg \in known /\ known \in SUBSET Nat
  BY DEF Owns
<1>2. \A x \in known : x = t[i].wg
  <2>1. SUFFICES ASSUME NEW x \in 1 .. Slots, d[x] = t[i].key PROVE x = t[i].wg
    OBVIOUS
  <2>2. t[i].key # NoKey
    BY NoKeyIsNone DEF Owns
  <2>3. PICK j \in S : t[j].wg = x
    BY <2>1, <2>2 DEF Owns
  <2>4. t[j].key = t[i].key
    BY <2>1, <2>3 DEF Owns
  <2> QED
    BY <2>3, <2>4 DEF Owns
<1>3. First(known) \in known
  BY <1>1, FirstIs
<1>4. DevIndex(d, t[i].key) = First(known)
  BY <1>1 DEF DevIndex
<1> QED
  BY <1>2, <1>3, <1>4

\* An entry that is given a free peer owns it, and nothing else changes.
LEMMA Claims ==
  ASSUME NEW t \in Table, NEW d \in Device, NEW S \in SUBSET (1 .. Slots), Owns(t, d, S),
         NEW i \in 1 .. Slots, i \notin S, NEW k \in Keys, \A j \in S : t[j].key # k,
         NEW x \in 1 .. Slots, d[x] = NoKey
  PROVE  /\ Owns([t EXCEPT ![i] = [key |-> k, wg |-> x]], [d EXCEPT ![x] = k], S \cup {i})
         /\ [t EXCEPT ![i] = [key |-> k, wg |-> x]] \in Table
         /\ [d EXCEPT ![x] = k] \in Device
<1> DEFINE tt == [t EXCEPT ![i] = [key |-> k, wg |-> x]]
           dd == [d EXCEPT ![x] = k]
<1>1. tt \in Table /\ dd \in Device
  BY TableAssumption DEF Table, Device
<1>2. tt[i] = [key |-> k, wg |-> x] /\ dd[x] = k
  BY DEF Table, Device
<1>3. \A j \in S : tt[j] = t[j]
  BY DEF Table
<1>4. \A y \in 1 .. Slots : y # x => dd[y] = d[y]
  BY DEF Device
<1>5. \A j \in S : t[j].wg # x
  BY NoKeyIsNone DEF Owns
<1> HIDE DEF tt, dd
<1>6. \A j \in S \cup {i} : tt[j].key \in Keys /\ tt[j].wg \in 1 .. Slots /\ dd[tt[j].wg] = tt[j].key
  <2>1. ASSUME NEW j \in S
        PROVE  tt[j].key \in Keys /\ tt[j].wg \in 1 .. Slots /\ dd[tt[j].wg] = tt[j].key
    BY <1>3, <1>4, <1>5 DEF Owns
  <2>2. tt[i].key \in Keys /\ tt[i].wg \in 1 .. Slots /\ dd[tt[i].wg] = tt[i].key
    BY <1>2
  <2> QED
    BY <2>1, <2>2
<1>7. \A y \in 1 .. Slots : dd[y] # NoKey => \E j \in S \cup {i} : tt[j].wg = y
  <2> SUFFICES ASSUME NEW y \in 1 .. Slots, dd[y] # NoKey
               PROVE  \E j \in S \cup {i} : tt[j].wg = y
    OBVIOUS
  <2>1. CASE y = x
    BY <1>2, <2>1
  <2>2. CASE y # x
    BY <1>3, <1>4, <2>2 DEF Owns
  <2> QED
    BY <2>1, <2>2
<1>8. \A a, b \in S \cup {i} : tt[a].key = tt[b].key => a = b
  <2>1. \A a, b \in S : tt[a].key = tt[b].key => a = b
    BY <1>3 DEF Owns
  <2>2. \A a \in S : tt[a].key # tt[i].key
    BY <1>2, <1>3
  <2> QED
    BY <2>1, <2>2
<1>9. Owns(tt, dd, S \cup {i})
  BY <1>6, <1>7, <1>8 DEF Owns
<1> QED
  BY <1>1, <1>9 DEF tt, dd

\* An entry whose peer is removed from the device owns none, and nothing else
\* changes.
LEMMA Releases ==
  ASSUME NEW t \in Table, NEW d \in Device, NEW S \in SUBSET (1 .. Slots), Owns(t, d, S),
         NEW i \in S
  PROVE  /\ Owns(t, [d EXCEPT ![t[i].wg] = NoKey], S \ {i})
         /\ [d EXCEPT ![t[i].wg] = NoKey] \in Device
<1> DEFINE x == t[i].wg
           dd == [d EXCEPT ![x] = NoKey]
<1>1. x \in 1 .. Slots
  BY DEF Owns
<1>2. dd \in Device /\ dd[x] = NoKey
  BY <1>1 DEF Device
<1>3. \A y \in 1 .. Slots : y # x => dd[y] = d[y]
  BY DEF Device
<1>4. \A j \in S \ {i} : t[j].wg # x
  BY DEF Owns
<1> HIDE DEF dd
<1>5. \A j \in S \ {i} : t[j].key \in Keys /\ t[j].wg \in 1 .. Slots /\ dd[t[j].wg] = t[j].key
  BY <1>3, <1>4 DEF Owns
<1>6. \A y \in 1 .. Slots : dd[y] # NoKey => \E j \in S \ {i} : t[j].wg = y
  <2> SUFFICES ASSUME NEW y \in 1 .. Slots, dd[y] # NoKey
               PROVE  \E j \in S \ {i} : t[j].wg = y
    OBVIOUS
  <2>1. y # x
    BY <1>2
  <2>2. PICK j \in S : t[j].wg = y
    BY <1>3, <2>1 DEF Owns
  <2> QED
    BY <2>1, <2>2
<1>7. Owns(t, dd, S \ {i})
  BY <1>5, <1>6 DEF Owns
<1> QED
  BY <1>2, <1>7 DEF dd

-----------------------------------------------------------------------------
(* The pass over the table once the device exists.                         *)

\* f is the pass over the first n entries.
Pass(f, n) ==
  f = [i \in 0 .. n |-> IF i = 0 THEN <<peers, dev>> ELSE Registers(f[i - 1], i)]

\* A recursive definition is worth what its equation is: there is a function
\* that satisfies it, or there would be a least n without one.
LEMMA PassExists == \A n \in Nat : \E f : Pass(f, n)
<1> DEFINE T == {n \in Nat : ~(\E f : Pass(f, n))}
<1> SUFFICES ASSUME T # {} PROVE FALSE
  OBVIOUS
<1>1. PICK n \in T : \A m \in T : n <= m
  <2>1. T \in SUBSET Nat
    OBVIOUS
  <2> HIDE DEF T
  <2> QED
    BY <2>1, Least
<1>2. n \in Nat
  OBVIOUS
<1>3. n # 0
  <2> DEFINE f == [i \in 0 .. 0 |-> <<peers, dev>>]
  <2>1. Pass(f, 0)
    BY DEF Pass
  <2> QED
    BY <2>1, <1>1
<1>4. n - 1 \in Nat /\ n - 1 \notin T
  BY <1>1, <1>2, <1>3
<1>5. PICK f : Pass(f, n - 1)
  BY <1>4
<1> DEFINE g == [i \in 0 .. n |-> IF i = n THEN Registers(f[n - 1], n) ELSE f[i]]
<1>6. ASSUME NEW i \in 0 .. n
      PROVE  g[i] = IF i = 0 THEN <<peers, dev>> ELSE Registers(g[i - 1], i)
  <2>1. CASE i = n
    <3>1. g[i] = Registers(f[n - 1], n) /\ g[n - 1] = f[n - 1]
      BY <1>2, <1>3, <1>4, <2>1
    <3> QED
      BY <1>3, <2>1, <3>1
  <2>2. CASE i # n
    <3>1. i \in 0 .. n - 1 /\ g[i] = f[i]
      BY <1>2, <2>2
    <3>2. f[i] = IF i = 0 THEN <<peers, dev>> ELSE Registers(f[i - 1], i)
      BY <1>5, <3>1 DEF Pass
    <3>3. i # 0 => i - 1 \in 0 .. n /\ i - 1 # n
      BY <1>2
    <3>4. i # 0 => g[i - 1] = f[i - 1]
      BY <3>3
    <3> QED
      BY <3>1, <3>2, <3>4
  <2> QED
    BY <2>1, <2>2
<1>7. g = [i \in 0 .. n |-> g[i]]
  OBVIOUS
<1> HIDE DEF g
<1>8. Pass(g, n)
  BY <1>6, <1>7 DEF Pass
<1> QED
  BY <1>8, <1>1

LEMMA ReconciledIs ==
  ASSUME peer_count \in Nat
  PROVE  \E f : Pass(f, peer_count) /\ Reconciled = f[peer_count]
<1> DEFINE upto == CHOOSE f : Pass(f, peer_count)
<1>1. Pass(upto, peer_count)
  BY PassExists
<1>2. Reconciled = upto[peer_count]
  BY DEF Reconciled, Pass
<1> QED
  BY <1>1, <1>2

KeysDistinct ==
  \A i, j \in 1 .. Slots : Active(i) /\ peers[i].key = peers[j].key => i = j

Filled(n) == {j \in 1 .. n : Active(j)}

\* After n entries those that are active own a peer each, the rest wait.
PassedTo(r, n) ==
  /\ r[1] \in Table /\ r[2] \in Device
  /\ \A j \in 1 .. Slots : r[1][j].key = peers[j].key
  /\ \A j \in (n + 1) .. Slots : r[1][j].wg = 0
  /\ Owns(r[1], r[2], Filled(n))

LEMMA RegistersNext ==
  ASSUME peers \in Table, KeysDistinct, NEW n \in Nat, NEW i \in 1 .. Slots, i = n + 1,
         NEW r, PassedTo(r, n)
  PROVE  PassedTo(Registers(r, i), i)
<1> DEFINE t == r[1]
           d == r[2]
           k == peers[i].key
           x == DevIndex(d, k)
<1>1. /\ t \in Table /\ d \in Device /\ Owns(t, d, Filled(n))
      /\ \A j \in 1 .. Slots : t[j].key = peers[j].key
      /\ t[i].wg = 0 /\ \A j \in (i + 1) .. Slots : t[j].wg = 0
  BY DEF PassedTo
<1>2. Registers(r, i) = IF k = NoKey \/ x = 0 THEN r
                        ELSE <<[t EXCEPT ![i].wg = x], [d EXCEPT ![x] = k]>>
  BY <1>1 DEF Registers
<1>5. \A j : j \in 1 .. i <=> j \in 1 .. n \/ j = i
  OBVIOUS
<1>6. r[1] = t /\ r[2] = d /\ peers[i].key = k /\ x = DevIndex(d, k)
  OBVIOUS
<1> HIDE DEF t, d, k, x
<1>3. CASE k = NoKey
  <2>1. Filled(i) = Filled(n)
    BY <1>3, <1>5, <1>6 DEF Filled, Active
  <2>2. Registers(r, i) = r
    BY <1>2, <1>3
  <2> QED
    BY <1>1, <1>6, <2>1, <2>2 DEF PassedTo
<1>4. CASE k # NoKey
  <2>1. Filled(i) = Filled(n) \cup {i}
    BY <1>4, <1>5, <1>6 DEF Filled, Active
  <2>11. i \notin Filled(n) /\ Filled(n) \in SUBSET (1 .. Slots)
    BY TableAssumption DEF Filled
  <2>2. k \in Keys
    BY <1>4, <1>6 DEF Table
  <2>3. \A j \in Filled(n) : t[j].key # k
    <3>1. \A j \in Filled(n) : j \in 1 .. Slots /\ j # i
      BY <2>11
    <3> QED
      BY <1>1, <1>4, <1>6, <3>1 DEF KeysDistinct, Active
  <2>4. x \in 1 .. Slots /\ d[x] = NoKey
    BY <1>1, <1>6, <2>11, <2>2, <2>3, FreshIndex
  <2> DEFINE tt == [t EXCEPT ![i] = [key |-> k, wg |-> x]]
             dd == [d EXCEPT ![x] = k]
  <2>5. Owns(tt, dd, Filled(i)) /\ tt \in Table /\ dd \in Device
    <3>1. Owns(tt, dd, Filled(n) \cup {i}) /\ tt \in Table /\ dd \in Device
      BY <1>1, <2>11, <2>2, <2>3, <2>4, Claims, Zenon
    <3> QED
      BY <2>1, <3>1
  <2>6. [t EXCEPT ![i].wg = x] = tt
    <3>1. t[i].key = k /\ t[i] \in [key : Keys \cup {NoKey}, wg : 0 .. Slots]
      BY <1>1, <1>6 DEF Table
    <3>2. [t[i] EXCEPT !.wg = x] = [key |-> k, wg |-> x]
      BY <3>1
    <3> QED
      BY <3>2
  <2>7. \A j \in 1 .. Slots : tt[j].key = peers[j].key
    BY <1>1, <1>6 DEF Table
  <2>8. \A j \in (i + 1) .. Slots : tt[j].wg = 0
    BY <1>1 DEF Table
  <2>9. Registers(r, i) = <<tt, dd>>
    <3>1. x # 0
      BY <2>4
    <3> QED
      BY <1>2, <1>4, <2>6, <3>1
  <2> HIDE DEF tt, dd
  <2>10. Registers(r, i)[1] = tt /\ Registers(r, i)[2] = dd
    BY <2>9
  <2> QED
    BY <2>5, <2>7, <2>8, <2>10 DEF PassedTo
<1> QED
  BY <1>3, <1>4

\* The pass gives every active entry a peer of the device that no other has,
\* and changes nothing else in the table.
LEMMA ReconciledOwns ==
  ASSUME peers \in Table, dev \in Device, KeysDistinct, peer_count \in 0 .. Slots,
         \A i \in 1 .. Slots : Active(i) => i <= peer_count,
         \A i \in 1 .. Slots : peers[i].wg = 0 /\ dev[i] = NoKey
  PROVE  PassedTo(Reconciled, Slots)
<1>1. PICK f : Pass(f, peer_count) /\ Reconciled = f[peer_count]
  BY ReconciledIs
<1> DEFINE T == {n \in 0 .. peer_count : ~PassedTo(f[n], n)}
<1>2. f[0] = <<peers, dev>> /\ \A i \in 1 .. peer_count : f[i] = Registers(f[i - 1], i)
  <2>1. 0 \in 0 .. peer_count /\ \A i \in 1 .. peer_count : i \in 0 .. peer_count /\ i # 0
    OBVIOUS
  <2> QED
    BY <1>1, <2>1 DEF Pass
<1>3. PassedTo(f[0], 0)
  <2>1. f[0][1] = peers /\ f[0][2] = dev
    BY <1>2
  <2>2. Filled(0) = {}
    BY DEF Filled
  <2>3. Owns(peers, dev, {})
    BY DEF Owns
  <2>4. \A j \in (0 + 1) .. Slots : peers[j].wg = 0
    OBVIOUS
  <2> QED
    BY <2>1, <2>2, <2>3, <2>4 DEF PassedTo
<1>4. T = {}
  <2> SUFFICES ASSUME T # {} PROVE FALSE
    OBVIOUS
  <2>1. PICK n \in T : \A m \in T : n <= m
    <3>1. T \in SUBSET Nat
      OBVIOUS
    <3> HIDE DEF T
    <3> QED
      BY <3>1, Least
  <2>2. n # 0
    BY <1>3, <2>1
  <2>6. n \in Nat /\ n <= peer_count /\ peer_count <= Slots
    OBVIOUS
  <2>7. n - 1 \in 0 .. peer_count /\ ~(n <= n - 1) /\ n \in 1 .. Slots /\ n \in 1 .. peer_count
    BY <2>2, <2>6, TableAssumption
  <2>3. n - 1 \in 0 .. peer_count /\ (n - 1) \notin T /\ n \in 1 .. Slots /\ n \in 1 .. peer_count
    BY <2>1, <2>7
  <2> DEFINE m == n - 1
  <2>4. m \in Nat /\ n = m + 1 /\ PassedTo(f[m], m) /\ f[n] = Registers(f[m], n)
    BY <1>2, <2>3
  <2> HIDE DEF m
  <2>5. PassedTo(f[n], n)
    BY <2>3, <2>4, RegistersNext
  <2> QED
    BY <2>1, <2>5
<1>5. PassedTo(Reconciled, peer_count)
  BY <1>1, <1>4
<1>6. Filled(peer_count) = Filled(Slots)
  BY TableAssumption DEF Filled
<1>7. \A j \in (Slots + 1) .. Slots : Reconciled[1][j].wg = 0
  BY TableAssumption
<1> QED
  BY <1>5, <1>6, <1>7 DEF PassedTo

-----------------------------------------------------------------------------
(* The inductive invariant, and what add_peer and remove_peer do to it.    *)

NodesDistinct(s) ==
  \A i, j \in 1 .. Len(s) : NodeOf(s[i].key) = NodeOf(s[j].key) => i = j

WithoutDevice == ~netif => \A i \in 1 .. Slots : peers[i].wg = 0 /\ dev[i] = NoKey
DeviceOwned == netif => Owns(peers, dev, Filled(Slots))
Counted == peer_count \in 0 .. Slots /\ \A i \in 1 .. Slots : Active(i) => i <= peer_count
TablesKept == /\ peers \in Table /\ dev \in Device /\ Counted /\ KeysDistinct
              /\ WithoutDevice /\ DeviceOwned
CacheKept == /\ CacheTyped /\ Len(cache) <= CacheMax /\ Len(flash.entries) <= CacheMax
             /\ NodesDistinct(cache) /\ NodesDistinct(flash.entries)
ServerTyped ==
  /\ members \in [Nodes -> Keys \cup {NoKey}]
  /\ link \in BOOLEAN /\ registered \in BOOLEAN
  /\ missed \subseteq Keys

\* The task's phases: before it runs there is no device, and nothing is known
\* while it is off.
PhaseKept ==
  /\ phase \in {"off", "wait", "run"} /\ netif \in BOOLEAN
  /\ phase # "run" => ~netif
  /\ phase = "off" => \A i \in 1 .. Slots : ~Active(i)
QueuesKept == QueuesTyped /\ Len(upq) <= Depth

TableInv == ServerTyped /\ QueuesKept /\ PhaseKept /\ TablesKept /\ CacheKept

\* Where add_peer puts a peer.
LEMMA EntryForIs ==
  ASSUME TablesKept, NEW k \in Keys, NEW i \in EntryFor(k)
  PROVE  /\ i \in 1 .. Slots
         /\ \/ peers[i].key = k
            \/ ~InTable(k) /\ ~Active(i)
            \/ ~InTable(k) /\ Active(i) /\ NodeOf(peers[i].key) # Priority
<1>1. Find(k) \in SUBSET (1 .. Slots) /\ Spare \in SUBSET (1 .. Slots) /\ Slots \in Nat
  BY TableAssumption DEF Find, Spare, TablesKept, Counted
<1>2. CASE Find(k) # {}
  <2>1. i = First(Find(k))
    BY <1>2 DEF EntryFor
  <2>2. i \in Find(k)
    BY <1>1, <1>2, <2>1, FirstIs
  <2> QED
    BY <1>1, <2>2 DEF Find
<1>3. CASE Find(k) = {}
  <2>1. ~InTable(k)
    <3>1. ASSUME NEW j \in 1 .. Slots, peers[j].key = k PROVE FALSE
      <4>1. Active(j)
        BY <3>1, NoKeyIsNone DEF Active
      <4>2. j \in 1 .. peer_count
        BY <1>1, <4>1 DEF TablesKept, Counted
      <4> QED
        BY <1>3, <3>1, <4>2 DEF Find
    <3> QED
      BY <3>1 DEF InTable
  <2>2. CASE Spare # {}
    <3>1. i = First(Spare)
      BY <1>3, <2>2 DEF EntryFor
    <3>2. i \in Spare
      BY <1>1, <2>2, <3>1, FirstIs
    <3> QED
      BY <2>1, <3>2 DEF Spare
  <2>3. CASE Spare = {}
    <3>1. i \in Evictable
      BY <1>3, <2>3 DEF EntryFor
    <3> QED
      BY <2>1, <3>1 DEF Evictable
  <2> QED
    BY <2>2, <2>3
<1> QED
  BY <1>2, <1>3

\* A peer that is put in an entry that is its own alone.
LEMMA Placed ==
  ASSUME peers \in Table, KeysDistinct, NEW i \in 1 .. Slots, NEW k \in Keys, ~InTable(k),
         NEW d \in Device,
         netif => Owns(peers, d, Filled(Slots) \ {i}),
         ~netif => \A j \in 1 .. Slots : peers[j].wg = 0 /\ d[j] = NoKey,
         peers' = [peers EXCEPT ![i] = Registering(d, k)], dev' = DevWith(d, k),
         netif' = netif
  PROVE  /\ peers' \in Table /\ dev' \in Device /\ KeysDistinct'
         /\ WithoutDevice' /\ DeviceOwned'
         /\ peers'[i].key = k
         /\ netif => \E x \in 1 .. Slots : dev'[x] = k
<1> DEFINE R == Filled(Slots) \ {i}
           x == DevIndex(d, k)
<1>1. R \in SUBSET (1 .. Slots) /\ i \notin R
  BY DEF Filled
<1>2. \A j \in 1 .. Slots : peers[j].key # k
  BY DEF InTable
<1>3. peers' \in [1 .. Slots -> [key : Keys \cup {NoKey}, wg : 0 .. Slots]]
      => /\ peers'[i] = Registering(d, k)
         /\ \A j \in 1 .. Slots : j # i => peers'[j] = peers[j]
  BY DEF Table
<1>4. Registering(d, k).key = k
  BY DEF Registering
<1>5. CASE netif
  <2>1. x \in 1 .. Slots /\ d[x] = NoKey
    <3>1. \A j \in R : peers[j].key # k
      BY <1>1, <1>2
    <3> HIDE DEF R
    <3> QED
      BY <1>1, <1>5, <3>1, FreshIndex DEF R
  <2>2. peers' = [peers EXCEPT ![i] = [key |-> k, wg |-> x]] /\ dev' = [d EXCEPT ![x] = k]
    BY <1>5, <2>1 DEF Registering, DevWith
  <2>3. Owns(peers', dev', R \cup {i}) /\ peers' \in Table /\ dev' \in Device
    <3>1. \A j \in R : peers[j].key # k
      BY <1>1, <1>2
    <3>2. Owns(peers, d, R)
      BY <1>5
    <3> HIDE DEF R, x
    <3>3. /\ Owns([peers EXCEPT ![i] = [key |-> k, wg |-> x]], [d EXCEPT ![x] = k], R \cup {i})
          /\ [peers EXCEPT ![i] = [key |-> k, wg |-> x]] \in Table
          /\ [d EXCEPT ![x] = k] \in Device
      BY <1>1, <2>1, <3>1, <3>2, Claims, Zenon
    <3> QED
      BY <2>2, <3>3
  <2>4. R \cup {i} = Filled(Slots)'
    <3>1. k # NoKey
      BY NoKeyIsNone
    <3> QED
      BY <1>3, <1>4, <2>3, <3>1 DEF Filled, Active, Table
  <2>5. dev'[x] = k
    BY <2>1, <2>2 DEF Device
  <2>6. DeviceOwned' /\ WithoutDevice'
    BY <1>5, <2>3, <2>4 DEF DeviceOwned, WithoutDevice
  <2>7. KeysDistinct'
    BY <1>2, <1>3, <1>4, <2>3, NoKeyIsNone DEF KeysDistinct, Active, Table
  <2> QED
    BY <1>3, <1>4, <2>1, <2>3, <2>5, <2>6, <2>7 DEF Table
<1>6. CASE ~netif
  <2>1. Registering(d, k) = [key |-> k, wg |-> 0] /\ dev' = d
    BY <1>6 DEF Registering, DevWith
  <2>2. peers' \in Table
    BY <2>1, TableAssumption DEF Table
  <2>3. KeysDistinct'
    BY <1>2, <1>3, <1>4, <2>2, NoKeyIsNone DEF KeysDistinct, Active, Table
  <2>4. WithoutDevice'
    BY <1>3, <1>6, <2>1, <2>2 DEF WithoutDevice, Table
  <2> QED
    BY <1>3, <1>4, <1>6, <2>1, <2>2, <2>3, <2>4 DEF DeviceOwned, Table
<1> QED
  BY <1>5, <1>6

\* add_peer at entry i: the tables agree again, the peer is in its place, and no
\* entry of the priority peer is lost.
LEMMA AddsAt ==
  ASSUME TablesKept, netif' = netif, NEW k \in Keys, NEW i \in EntryFor(k),
         NEW d, d = IF Active(i) /\ peers[i].key # k THEN DevWithout(dev, i) ELSE dev,
         peers' = [peers EXCEPT ![i] = Registering(d, k)], dev' = DevWith(d, k),
         peer_count' = IF i > peer_count THEN i ELSE peer_count
  PROVE  /\ TablesKept'
         /\ InTable(k)'
         /\ netif => \E x \in 1 .. Slots : dev'[x] = k
         /\ \A c \in Keys : NodeOf(c) = Priority /\ InTable(c) => InTable(c)'
<1>1. /\ i \in 1 .. Slots
      /\ \/ peers[i].key = k
         \/ ~InTable(k) /\ ~Active(i)
         \/ ~InTable(k) /\ Active(i) /\ NodeOf(peers[i].key) # Priority
  BY EntryForIs
<1>2. peers \in Table /\ dev \in Device /\ KeysDistinct /\ Slots \in Nat
  BY TableAssumption DEF TablesKept
<1>3. k # NoKey
  BY NoKeyIsNone
<1>4. Filled(Slots) \in SUBSET (1 .. Slots) /\ (Active(i) <=> i \in Filled(Slots))
  BY <1>1 DEF Filled
<1>5. CASE peers[i].key = k
  <2>1. Active(i) /\ d = dev
    BY <1>3, <1>5 DEF Active
  <2>2. netif => DevIndex(dev, k) = peers[i].wg /\ peers[i].wg # 0 /\ dev[peers[i].wg] = k
    <3> SUFFICES ASSUME netif
                 PROVE  DevIndex(dev, k) = peers[i].wg /\ peers[i].wg # 0 /\ dev[peers[i].wg] = k
      OBVIOUS
    <3>1. Owns(peers, dev, Filled(Slots))
      BY DEF TablesKept, DeviceOwned
    <3>2. DevIndex(dev, peers[i].key) = peers[i].wg
      BY <1>4, <2>1, <3>1, KnownIndex
    <3> QED
      BY <1>4, <1>5, <2>1, <3>1, <3>2 DEF Owns
  <2>3. Registering(d, k) = peers[i]
    <3>1. peers[i] = [key |-> k, wg |-> peers[i].wg]
      BY <1>1, <1>2, <1>5 DEF Table
    <3>2. ~netif => peers[i].wg = 0
      BY <1>1 DEF TablesKept, WithoutDevice
    <3> QED
      BY <2>1, <2>2, <3>1, <3>2 DEF Registering
  <2>4. peers' = peers
    BY <1>1, <1>2, <2>3 DEF Table
  <2>5. dev' = dev
    BY <1>2, <2>1, <2>2 DEF DevWith, Device
  <2>6. peer_count' = peer_count
    BY <1>1, <1>2, <2>1 DEF TablesKept, Counted
  <2>7. TablesKept'
    BY <2>4, <2>5, <2>6, SMTT(30) DEF TablesKept, Counted, KeysDistinct, WithoutDevice, DeviceOwned,
         Active, Filled, Owns
  <2>8. \A c : InTable(c)' <=> InTable(c)
    BY <2>4 DEF InTable
  <2>9. netif => peers[i].wg \in 1 .. Slots /\ dev'[peers[i].wg] = k
    BY <1>1, <1>2, <2>2, <2>5 DEF Table
  <2> QED
    BY <1>1, <1>5, <2>4, <2>7, <2>8, <2>9 DEF InTable
<1>6. CASE peers[i].key # k
  <2>1. ~InTable(k)
    BY <1>1, <1>6
  <2>2. /\ d \in Device
        /\ netif => Owns(peers, d, Filled(Slots) \ {i})
        /\ ~netif => \A j \in 1 .. Slots : peers[j].wg = 0 /\ d[j] = NoKey
    <3>1. CASE ~Active(i)
      <4>1. d = dev /\ Filled(Slots) \ {i} = Filled(Slots)
        BY <1>4, <3>1
      <4> QED
        BY <1>2, <4>1 DEF TablesKept, DeviceOwned, WithoutDevice
    <3>2. CASE Active(i) /\ ~netif
      <4>1. d = dev
        BY <1>6, <3>2 DEF DevWithout
      <4> QED
        BY <1>2, <3>2, <4>1 DEF TablesKept, WithoutDevice
    <3>3. CASE Active(i) /\ netif
      <4>1. Owns(peers, dev, Filled(Slots))
        BY <3>3 DEF TablesKept, DeviceOwned
      <4>2. peers[i].wg \in 1 .. Slots
        BY <1>4, <3>3, <4>1 DEF Owns
      <4>3. d = [dev EXCEPT ![peers[i].wg] = NoKey]
        BY <1>6, <1>2, <3>3, <4>2 DEF DevWithout
      <4> QED
        BY <1>2, <1>4, <3>3, <4>1, <4>3, Releases, SMTT(30)
    <3> QED
      BY <3>1, <3>2, <3>3
  <2>3. /\ peers' \in Table /\ dev' \in Device /\ KeysDistinct'
        /\ WithoutDevice' /\ DeviceOwned' /\ peers'[i].key = k
        /\ netif => \E x \in 1 .. Slots : dev'[x] = k
    BY <1>1, <1>2, <2>1, <2>2, Placed
  <2>4. \A j \in 1 .. Slots : j # i => peers'[j] = peers[j]
    BY <1>1, <1>2 DEF Table
  <2>5. Counted'
    BY <1>1, <1>2, <2>4 DEF Counted, TablesKept, Active
  <2>6. \A c \in Keys : NodeOf(c) = Priority /\ InTable(c) => InTable(c)'
    <3> SUFFICES ASSUME NEW c \in Keys, NodeOf(c) = Priority, NEW j \in 1 .. Slots,
                        peers[j].key = c
                 PROVE  InTable(c)'
      BY DEF InTable
    <3>1. j # i
      BY <1>1, <1>6, NoKeyIsNone DEF Active
    <3> QED
      BY <2>4, <3>1 DEF InTable
  <2> QED
    BY <1>1, <2>3, <2>5, <2>6 DEF TablesKept, InTable
<1> QED
  BY <1>5, <1>6

\* remove_peer: the peer leaves the table and the device, the others stay.
LEMMA Removes ==
  ASSUME TablesKept, netif' = netif, NEW k \in Keys, RemovePeer(k)
  PROVE  /\ TablesKept'
         /\ \A c \in Keys : c # k /\ InTable(c) => InTable(c)'
<1>1. CASE Find(k) = {}
  <2>1. UNCHANGED tbl
    BY <1>1 DEF RemovePeer
  <2> QED
    BY <2>1 DEF tbl, TablesKept, Counted, KeysDistinct, WithoutDevice, DeviceOwned, Active,
         Filled, Owns, InTable
<1>2. CASE Find(k) # {}
  <2> DEFINE i == First(Find(k))
             t == [peers EXCEPT ![i] = Free]
             S == Filled(Slots)
  <2>1. peers \in Table /\ dev \in Device /\ KeysDistinct /\ Slots \in Nat
        /\ peer_count \in 0 .. Slots
    BY TableAssumption DEF TablesKept, Counted
  <2>2. i \in Find(k)
    BY <1>2, <2>1, FirstIs DEF Find
  <2>3. i \in 1 .. Slots /\ peers[i].key = k
    BY <2>1, <2>2 DEF Find
  <2>4. peers' = t /\ dev' = DevWithout(dev, i) /\ peer_count' = LastActive(t)
    BY <1>2 DEF RemovePeer
  <2> HIDE DEF i
  <2>5. peers' \in Table /\ peers'[i] = Free /\ \A j \in 1 .. Slots : j # i => peers'[j] = peers[j]
    BY <2>1, <2>3, <2>4 DEF Table, Free
  <2>6. peer_count' \in 0 .. peer_count
        /\ \A j \in (peer_count' + 1) .. peer_count : peers'[j].key = NoKey
    <3>1. peer_count \in Nat
      BY <2>1
    <3> HIDE DEF t
    <3>2. LastActive(t) \in 0 .. peer_count
          /\ \A j \in (LastActive(t) + 1) .. peer_count : t[j].key = NoKey
      BY <3>1, LastActiveIs
    <3> QED
      BY <2>4, <3>2
  <2>7. Counted'
    <3>1. ASSUME NEW j \in 1 .. Slots, peers'[j].key # NoKey PROVE j <= peer_count'
      <4>1. j # i
        BY <2>5, <3>1 DEF Free
      <4>2. j <= peer_count
        BY <2>5, <3>1, <4>1 DEF TablesKept, Counted, Active
      <4>3. peer_count \in Nat /\ peer_count' \in Nat /\ j \in Nat
        BY <2>1, <2>6
      <4>4. j <= peer_count' \/ j \in (peer_count' + 1) .. peer_count
        <5>1. \A a, b, c \in Nat : a <= b => a <= c \/ a \in (c + 1) .. b
          OBVIOUS
        <5> QED
          BY <4>2, <4>3, <5>1, Zenon
      <4> QED
        BY <2>6, <3>1, <4>4
    <3>2. peer_count' \in 0 .. Slots
      BY <2>1, <2>6
    <3> QED
      BY <3>1, <3>2 DEF Counted, Active
  <2>8. S \in SUBSET (1 .. Slots) /\ i \in S /\ Filled(Slots)' = S \ {i}
    BY <2>3, <2>5, NoKeyIsNone DEF Filled, Active, Free
  <2>9. KeysDistinct'
    BY <2>1, <2>5 DEF KeysDistinct, Active, Free
  <2>10. dev' \in Device /\ DeviceOwned'
    <3>1. CASE ~netif
      BY <2>1, <2>4, <3>1 DEF DevWithout, DeviceOwned
    <3>2. CASE netif
      <4>1. Owns(peers, dev, S)
        BY <3>2 DEF TablesKept, DeviceOwned
      <4>2. dev' = [dev EXCEPT ![peers[i].wg] = NoKey]
        BY <2>1, <2>4, <2>8, <3>2, <4>1 DEF DevWithout, Owns
      <4>3. Owns(peers, dev', S \ {i}) /\ dev' \in Device
        BY <2>1, <2>8, <4>1, <4>2, Releases
      <4>4. \A j \in S \ {i} : peers'[j] = peers[j]
        BY <2>5, <2>8
      <4>5. Owns(peers', dev', S \ {i})
        BY <4>3, <4>4 DEF Owns
      <4> QED
        BY <2>8, <4>3, <4>5 DEF DeviceOwned
    <3> QED
      BY <3>1, <3>2
  <2>11. WithoutDevice'
    <3> SUFFICES ASSUME ~netif, NEW j \in 1 .. Slots
                 PROVE  peers'[j].wg = 0 /\ dev'[j] = NoKey
      BY DEF WithoutDevice
    <3>1. dev' = dev
      BY <2>4 DEF DevWithout
    <3> QED
      BY <2>5, <3>1 DEF TablesKept, WithoutDevice, Free
  <2>12. \A c \in Keys : c # k /\ InTable(c) => InTable(c)'
    BY <2>3, <2>5 DEF InTable
  <2> QED
    BY <2>5, <2>7, <2>9, <2>10, <2>11, <2>12 DEF TablesKept
<1> QED
  BY <1>1, <1>2

\* ml_peer_nvs_save: one entry for each address, in the copy and in flash.
LEMMA SaveKeeps ==
  ASSUME CacheKept, NEW k \in Keys, Save(k)
  PROVE  CacheKept'
<1> DEFINE slot == SaveSlot(k)
           entry == [key |-> k, lru |-> (lru_clock + 1) % LruMod]
<1>1. CacheTyped' /\ Len(cache') <= CacheMax /\ Len(flash'.entries) <= CacheMax
  BY SaveTyped DEF CacheKept
<1>2. /\ cache' = IF slot > Len(cache) THEN Append(cache, entry)
                  ELSE [cache EXCEPT ![slot] = entry]
      /\ flash'.entries = cache' \/ flash' = flash
  <2>1. flash' = [entries |-> cache', clock |-> (lru_clock + 1) % LruMod] \/ flash' = flash
    BY DEF Save
  <2>2. cache' = IF slot > Len(cache) THEN Append(cache, entry)
                  ELSE [cache EXCEPT ![slot] = entry]
    BY DEF Save
  <2> HIDE DEF slot, entry
  <2>3. CASE flash' = flash
    BY <2>2, <2>3, Zenon
  <2>4. CASE flash' = [entries |-> cache', clock |-> (lru_clock + 1) % LruMod]
    <3>1. flash'.entries = cache'
      BY <2>4
    <3> QED
      BY <2>2, <3>1, Zenon
  <2> QED
    BY <2>1, <2>3, <2>4
<1>3. entry.key = k
  OBVIOUS
<1>4. Len(cache) \in Nat /\ DOMAIN cache = 1 .. Len(cache) /\ cache \in Seq(Entries)
  BY LenProperties DEF CacheKept, CacheTyped
<1>5. \/ slot \in Matching(k) /\ slot \in 1 .. Len(cache)
      \/ Matching(k) = {} /\ slot = Len(cache) + 1
      \/ Matching(k) = {} /\ slot \in 1 .. Len(cache)
  BY SaveSlotIs DEF CacheKept
<1>6. \A j \in 1 .. Len(cache) : j # slot => NodeOf(cache[j].key) # NodeOf(k)
  <2>1. CASE slot \in Matching(k)
    <3>1. NodeOf(cache[slot].key) = NodeOf(k) /\ slot \in 1 .. Len(cache)
      BY <1>4, <2>1 DEF Matching
    <3> QED
      BY <3>1 DEF CacheKept, NodesDistinct
  <2>2. CASE Matching(k) = {}
    BY <1>4, <2>2 DEF Matching
  <2> QED
    BY <1>5, <2>1, <2>2
<1> HIDE DEF slot, entry
<1>7. NodesDistinct(cache')
  <2>1. CASE slot = Len(cache) + 1
    <3>1. cache' = Append(cache, entry)
      <4>1. slot > Len(cache)
        BY <1>4, <2>1
      <4> QED
        BY <1>2, <4>1
    <3>2. Len(cache') = Len(cache) + 1 /\ cache'[Len(cache) + 1] = entry
          /\ \A j \in 1 .. Len(cache) : cache'[j] = cache[j]
      BY <1>4, <3>1, AppendProperties
    <3>3. \A j \in 1 .. Len(cache') : j = slot \/ j \in 1 .. Len(cache)
      BY <1>4, <2>1, <3>2
    <3>4. \A j \in 1 .. Len(cache) : j # slot
      BY <1>4, <2>1
    <3> QED
      BY <1>3, <1>6, <2>1, <3>2, <3>3, <3>4 DEF NodesDistinct, CacheKept
  <2>2. CASE slot \in 1 .. Len(cache)
    <3>1. cache' = [cache EXCEPT ![slot] = entry]
      <4>1. ~(slot > Len(cache))
        BY <1>4, <2>2
      <4> QED
        BY <1>2, <4>1
    <3>2. Len(cache') = Len(cache) /\ cache'[slot] = entry
          /\ \A j \in 1 .. Len(cache) : j # slot => cache'[j] = cache[j]
      <4>1. DOMAIN cache' = 1 .. Len(cache) /\ cache' \in Seq(Entries)
        BY <1>1, <1>4, <3>1 DEF CacheTyped
      <4> QED
        BY <1>4, <2>2, <3>1, <4>1, LenProperties
    <3> QED
      BY <1>3, <1>6, <2>2, <3>2 DEF NodesDistinct, CacheKept
  <2> QED
    BY <1>5, <2>1, <2>2
<1>8. NodesDistinct(flash'.entries)
  BY <1>2, <1>7 DEF CacheKept
<1> QED
  BY <1>1, <1>7, <1>8 DEF CacheKept

-----------------------------------------------------------------------------
(* The invariant in every step.                                            *)

LEMMA SameTables == TablesKept /\ UNCHANGED <<tbl, netif>> => TablesKept'
BY DEF tbl, TablesKept, Counted, KeysDistinct, WithoutDevice, DeviceOwned, Active, Filled, Owns

LEMMA SameCache == CacheKept /\ UNCHANGED nvs => CacheKept'
BY DEF nvs, CacheKept, CacheTyped, NodesDistinct

LEMMA SamePhase == PhaseKept /\ UNCHANGED <<phase, netif, peers>> => PhaseKept'
BY DEF PhaseKept, Active

LEMMA TableInvInit == TableInit => TableInv
<1> SUFFICES ASSUME TableInit PROVE TableInv
  OBVIOUS
<1> USE TableAssumption DEF TableInit
<1>1. ServerTyped
  <2>1. \A n \in Nodes : <<n, 0>> \in Keys
    BY DEF Keys
  <2> QED
    BY <2>1 DEF ServerTyped
<1>2. QueuesKept
  BY EmptySeq DEF QueuesKept, QueuesTyped
<1>3. \A i \in 1 .. Slots : ~Active(i) /\ peers[i].wg = 0 /\ dev[i] = NoKey
  BY DEF Active, Free
<1>4. PhaseKept
  BY <1>3 DEF PhaseKept
<1>5. TablesKept
  <2>1. peers \in Table /\ dev \in Device
    BY DEF Table, Device, Free
  <2> QED
    BY <1>3, <2>1 DEF TablesKept, Counted, KeysDistinct, WithoutDevice, DeviceOwned
<1>6. CacheKept
  <2>1. <<>> \in Seq(Entries) /\ Len(<<>>) = 0
    BY EmptySeq
  <2> QED
    BY <2>1 DEF CacheKept, CacheTyped, NodesDistinct
<1> QED
  BY <1>1, <1>2, <1>4, <1>5, <1>6 DEF TableInv

\* The server, the stream and the queue: their types, and the rest unchanged.
Outside(n) == Leave(n) \/ \E k \in Keys : Change(n, k)
Stream == Connect \/ Registered \/ Enqueue \/ DropUpdate \/ LoseLink

LEMMA UpdateIs == \A k \in Keys : Add(k) \in Updates /\ Gone(k) \in Updates
BY DEF Add, Gone, Updates

LEMMA OutsideStep ==
  ASSUME TableInv, NEW n \in Nodes, Outside(n)
  PROVE  TableInv'
<1>1. UNCHANGED <<link, missed, registered, upq, phase, netif, tbl, nvs>>
  BY DEF Outside, Leave, Change
<1>2. members' \in [Nodes -> Keys \cup {NoKey}]
  BY DEF Outside, Leave, Change, TableInv, ServerTyped
<1>3. wire' \in Seq(Updates)
  <2>1. wire \in Seq(Updates)
    BY DEF TableInv, QueuesKept, QueuesTyped
  <2>2. CASE Leave(n)
    <3>1. members[n] \in Keys
      BY <2>2 DEF Leave, TableInv, ServerTyped
    <3>2. wire' = wire \/ wire' = Append(wire, Gone(members[n]))
      BY <2>2 DEF Leave
    <3> QED
      BY <2>1, <3>1, <3>2, UpdateIs, Enqueued
  <2>3. CASE \E k \in Keys : Change(n, k)
    <3>1. PICK k \in Keys : Change(n, k)
      BY <2>3
    <3>2. wire' = wire \/ wire' = Append(wire, Add(k))
      BY <3>1 DEF Change
    <3> QED
      BY <2>1, <3>2, UpdateIs, Enqueued
  <2> QED
    BY <2>2, <2>3 DEF Outside
<1>4. ServerTyped' /\ QueuesKept'
  BY <1>1, <1>2, <1>3 DEF TableInv, ServerTyped, QueuesKept, QueuesTyped
<1> QED
  BY <1>1, <1>4, SameTables, SameCache, SamePhase DEF TableInv, tbl

LEMMA StreamStep ==
  ASSUME TableInv, Stream
  PROVE  TableInv'
<1>1. UNCHANGED <<members, phase, netif, tbl, nvs>>
  BY DEF Stream, Connect, Registered, Enqueue, DropUpdate, LoseLink
<1>2. /\ wire \in Seq(Updates) /\ upq \in Seq(Updates) /\ Len(upq) <= Depth
      /\ members \in [Nodes -> Keys \cup {NoKey}] /\ missed \subseteq Keys
      /\ link \in BOOLEAN /\ registered \in BOOLEAN
  BY DEF TableInv, QueuesKept, QueuesTyped, ServerTyped
<1>3. Len(upq) \in Nat /\ Depth \in Nat
  BY <1>2, LenProperties, TableAssumption
<1>4. ServerTyped' /\ QueuesKept'
  <2>1. CASE Connect
    <3>1. wire' \in Seq(Updates)
      BY <1>2, <2>1, FullMapTyped, EmptySeq DEF Connect
    <3>2. missed' \subseteq Keys
      BY <1>2, <2>1, MembersFinite DEF Connect
    <3> QED
      BY <1>2, <2>1, <3>1, <3>2 DEF Connect, ServerTyped, QueuesKept, QueuesTyped
  <2>2. CASE Registered
    BY <1>2, <2>2 DEF Registered, ServerTyped, QueuesKept, QueuesTyped
  <2>3. CASE Enqueue
    <3>1. Head(wire) \in Updates /\ Tail(wire) \in Seq(Updates)
      BY <1>2, <2>3, Enqueued DEF Enqueue
    <3>2. upq' \in Seq(Updates) /\ Len(upq') = Len(upq) + 1
      BY <1>2, <2>3, <3>1, Enqueued DEF Enqueue
    <3>3. Len(upq') <= Depth
      BY <1>3, <2>3, <3>2 DEF Enqueue
    <3> QED
      BY <1>2, <2>3, <3>1, <3>2, <3>3 DEF Enqueue, ServerTyped, QueuesKept, QueuesTyped
  <2>4. CASE DropUpdate
    <3>1. Head(wire) \in Updates /\ Tail(wire) \in Seq(Updates)
      BY <1>2, <2>4, Enqueued DEF DropUpdate
    <3>2. missed' \subseteq Keys
      BY <1>2, <2>4, <3>1 DEF DropUpdate, Updates
    <3> QED
      BY <1>2, <2>4, <3>1, <3>2 DEF DropUpdate, ServerTyped, QueuesKept, QueuesTyped
  <2>5. CASE LoseLink
    BY <1>2, <2>5, EmptySeq DEF LoseLink, ServerTyped, QueuesKept, QueuesTyped
  <2> QED
    BY <2>1, <2>2, <2>3, <2>4, <2>5 DEF Stream
<1> QED
  BY <1>1, <1>4, SameTables, SameCache, SamePhase DEF TableInv, tbl

LEMMA BootStep == TableInv /\ Boot => TableInv'
<1> SUFFICES ASSUME TableInv, Boot PROVE TableInv'
  OBVIOUS
<1>1. CacheTyped /\ Slots \in Nat
  BY TableAssumption DEF TableInv, CacheKept
<1>2. /\ Loaded \in 0 .. Slots /\ Loaded <= Len(flash.entries)
      /\ Preloaded \in Table
      /\ \A i \in 1 .. Slots : Preloaded[i].wg = 0
      /\ \A i \in 1 .. Slots : Preloaded[i].key # NoKey <=> i <= Loaded
      /\ \A i \in 1 .. Loaded : Preloaded[i].key = flash.entries[i].key
  BY <1>1, LoadedIs DEF Table
<1>3. /\ peers' = Preloaded /\ peer_count' = Loaded /\ phase' = "wait" /\ ~netif
      /\ UNCHANGED <<net, upq, netif, dev, flash>>
      /\ cache' = flash.entries /\ lru_clock' = flash.clock
  BY DEF Boot, TableInv, PhaseKept
<1>4. ServerTyped' /\ QueuesKept'
  BY <1>3 DEF net, TableInv, ServerTyped, QueuesKept, QueuesTyped
<1>5. PhaseKept'
  BY <1>3 DEF TableInv, PhaseKept
<1>6. KeysDistinct'
  <2> SUFFICES ASSUME NEW i \in 1 .. Slots, NEW j \in 1 .. Slots,
                      Preloaded[i].key # NoKey, Preloaded[i].key = Preloaded[j].key
               PROVE  i = j
    BY <1>3 DEF KeysDistinct, Active
  <2>1. i \in 1 .. Loaded /\ j \in 1 .. Loaded
    BY <1>2
  <2>2. flash.entries[i].key = flash.entries[j].key
    BY <1>2, <2>1
  <2>3. Len(flash.entries) \in Nat
    BY <1>1, LenProperties DEF CacheTyped
  <2>4. i \in 1 .. Len(flash.entries) /\ j \in 1 .. Len(flash.entries)
    BY <1>2, <2>1, <2>3
  <2> QED
    BY <2>2, <2>4 DEF TableInv, CacheKept, NodesDistinct
<1>7. TablesKept'
  <2>1. dev \in Device /\ \A i \in 1 .. Slots : dev[i] = NoKey
    BY <1>3 DEF TableInv, TablesKept, WithoutDevice
  <2>2. Counted'
    BY <1>2, <1>3 DEF Counted, Active
  <2> QED
    BY <1>2, <1>3, <1>6, <2>1, <2>2 DEF TablesKept, WithoutDevice, DeviceOwned
<1>8. CacheKept'
  <2>1. CacheKept
    BY DEF TableInv
  <2>2. CacheTyped'
    BY <1>1, <1>3 DEF CacheTyped
  <2> QED
    BY <1>3, <2>1, <2>2 DEF CacheKept
<1> QED
  BY <1>4, <1>5, <1>7, <1>8 DEF TableInv

\* The device is made: the pass over the table gives each cached peer its own.
LEMMA WgInitStep == TableInv /\ WgInit => TableInv'
<1> SUFFICES ASSUME TableInv, WgInit PROVE TableInv'
  OBVIOUS
<1>1. /\ phase = "wait" /\ phase' = "run"
      /\ UNCHANGED <<net, upq, peer_count, nvs>>
      /\ \/ netif' = TRUE /\ peers' = Reconciled[1] /\ dev' = Reconciled[2]
         \/ UNCHANGED <<netif, peers, dev>>
  BY DEF WgInit
<1>2. ServerTyped' /\ QueuesKept' /\ CacheKept'
  BY <1>1, SameCache DEF net, TableInv, ServerTyped, QueuesKept, QueuesTyped
<1>3. PhaseKept'
  BY <1>1 DEF TableInv, PhaseKept
<1>4. CASE UNCHANGED <<netif, peers, dev>>
  <2>1. TablesKept'
    BY <1>1, <1>4, SameTables DEF TableInv, tbl
  <2> QED
    BY <1>2, <1>3, <2>1 DEF TableInv
<1>5. CASE netif' = TRUE /\ peers' = Reconciled[1] /\ dev' = Reconciled[2]
  <2>1. ~netif
    BY <1>1 DEF TableInv, PhaseKept
  <2>2. PassedTo(Reconciled, Slots)
    BY <2>1, ReconciledOwns DEF TableInv, TablesKept, Counted, WithoutDevice
  <2>3. \A j \in 1 .. Slots : peers'[j].key = peers[j].key
    BY <1>5, <2>2 DEF PassedTo
  <2>4. Filled(Slots)' = Filled(Slots) /\ Counted' /\ KeysDistinct'
    BY <1>1, <2>3 DEF TableInv, TablesKept, Counted, KeysDistinct, Filled, Active
  <2>5. TablesKept'
    BY <1>5, <2>2, <2>4 DEF PassedTo, TablesKept, WithoutDevice, DeviceOwned
  <2> QED
    BY <1>2, <1>3, <2>5 DEF TableInv
<1> QED
  BY <1>1, <1>4, <1>5

\* One update: what it does to the tables, the cache and the priority peer.
LEMMA UpdateIsServed ==
  ASSUME TableInv, Update
  PROVE  /\ TablesKept' /\ CacheKept'
         /\ \A c \in Keys : NodeOf(c) = Priority /\ InTable(c) /\ Head(upq) # Gone(c)
                            => InTable(c)'
         /\ \A c \in Allowable : NodeOf(c) = Priority /\ Head(upq) = Add(c) /\ Room(c)
              => InTable(c)' /\ (netif => \E x \in 1 .. Slots : dev'[x] = c)
<1> DEFINE u == Head(upq)
<1>1. u \in Updates
  BY Enqueued DEF Update, TableInv, QueuesKept, QueuesTyped
<1>2. PICK k \in Keys : u = Add(k) \/ u = Gone(k)
  BY <1>1 DEF Updates, Add, Gone
<1>3. \A c : (u = Add(c) => c = k) /\ (u = Gone(c) => c = k) /\ Add(c) # Gone(k) /\ Add(k) # Gone(c)
  BY <1>2 DEF Add, Gone
<1>4. netif' = netif /\ TablesKept /\ CacheKept
  BY DEF Update, TableInv
<1>5. (u = Add(k) => AddPeer(k)) /\ (u = Gone(k) => RemovePeer(k))
  BY DEF Update, Add, Gone
<1> HIDE DEF u
<1>0. u = Head(upq)
  BY DEF u
<1>6. CASE u = Gone(k)
  <2>1. RemovePeer(k)
    BY <1>5, <1>6
  <2>2. TablesKept' /\ \A c \in Keys : c # k /\ InTable(c) => InTable(c)'
    BY <1>2, <1>4, <2>1, Removes
  <2>3. UNCHANGED nvs
    BY <2>1 DEF RemovePeer
  <2>4. CacheKept'
    BY <1>4, <2>3, SameCache
  <2> QED
    BY <1>0, <1>3, <1>6, <2>2, <2>4 DEF Allowable
<1>7. CASE u = Add(k) /\ (NodeOf(k) \notin Allowed \/ EntryFor(k) = {})
  <2>1. UNCHANGED <<tbl, nvs>>
    BY <1>5, <1>7 DEF AddPeer
  <2>2. TablesKept' /\ CacheKept'
    BY <1>4, <2>1, SameTables, SameCache
  <2>3. \A c : InTable(c)' <=> InTable(c)
    BY <2>1 DEF tbl, InTable
  <2>4. k \in Allowable /\ NodeOf(k) = Priority /\ Room(k) => FALSE
    <3> SUFFICES ASSUME k \in Allowable, NodeOf(k) = Priority, Room(k) PROVE FALSE
      OBVIOUS
    <3>1. EntryFor(k) = {}
      BY <1>7 DEF Allowable
    <3>2. Find(k) = {} /\ Spare = {} /\ Evictable = {}
      BY <3>1 DEF EntryFor
    <3>3. PICK j \in 1 .. Slots : peers[j].key = k
      BY <3>2 DEF Room, InTable
    <3>4. Active(j)
      BY <1>2, <3>3, NoKeyIsNone DEF Active
    <3>5. j \in 1 .. peer_count
      BY <1>4, <3>4, TableAssumption DEF TablesKept, Counted
    <3> QED
      BY <3>2, <3>3, <3>5 DEF Find
  <2> QED
    BY <1>0, <1>3, <1>7, <2>2, <2>3, <2>4
<1>8. CASE u = Add(k) /\ NodeOf(k) \in Allowed /\ EntryFor(k) # {}
  <2>1. PICK i \in EntryFor(k) :
          LET d == IF Active(i) /\ peers[i].key # k THEN DevWithout(dev, i) ELSE dev
          IN  /\ peers' = [peers EXCEPT ![i] = Registering(d, k)]
              /\ dev' = DevWith(d, k)
              /\ peer_count' = IF i > peer_count THEN i ELSE peer_count
    BY <1>5, <1>8 DEF AddPeer
  <2>2. Save(k)
    BY <1>5, <1>8 DEF AddPeer
  <2>3. PICK d : /\ d = IF Active(i) /\ peers[i].key # k THEN DevWithout(dev, i) ELSE dev
                 /\ peers' = [peers EXCEPT ![i] = Registering(d, k)]
                 /\ dev' = DevWith(d, k)
                 /\ peer_count' = IF i > peer_count THEN i ELSE peer_count
    BY <2>1
  <2>4. /\ TablesKept'
        /\ InTable(k)'
        /\ netif => \E x \in 1 .. Slots : dev'[x] = k
        /\ \A c \in Keys : NodeOf(c) = Priority /\ InTable(c) => InTable(c)'
    BY <1>2, <1>4, <2>3, AddsAt
  <2>5. CacheKept'
    BY <1>2, <1>4, <2>2, SaveKeeps
  <2>6. \A c \in Allowable : NodeOf(c) = Priority /\ Head(upq) = Add(c) /\ Room(c)
              => InTable(c)' /\ (netif => \E x \in 1 .. Slots : dev'[x] = c)
    <3>1. \A c : Head(upq) = Add(c) => c = k
      BY <1>0, <1>3
    <3> QED
      BY <2>4, <3>1 DEF InTable
  <2> QED
    BY <2>4, <2>5, <2>6
<1> QED
  BY <1>2, <1>6, <1>7, <1>8

LEMMA UpdateStep == TableInv /\ Update => TableInv'
<1> SUFFICES ASSUME TableInv, Update PROVE TableInv'
  OBVIOUS
<1>1. TablesKept' /\ CacheKept'
  BY UpdateIsServed
<1>2. UNCHANGED <<members, link, wire, registered, phase, netif>> /\ phase = "run" /\ upq # <<>>
      /\ upq' = Tail(upq)
  BY DEF Update
<1>3. upq \in Seq(Updates) /\ Len(upq) <= Depth /\ Len(upq) \in Nat /\ Depth \in Nat
  BY LenProperties, TableAssumption DEF TableInv, QueuesKept, QueuesTyped
<1>4. upq' \in Seq(Updates) /\ Len(upq') <= Depth
  BY <1>2, <1>3, Enqueued
<1>5. missed' \subseteq Keys
  BY DEF Update, TableInv, ServerTyped, Allowable
<1>6. ServerTyped' /\ QueuesKept' /\ PhaseKept'
  BY <1>2, <1>4, <1>5 DEF TableInv, ServerTyped, QueuesKept, QueuesTyped, PhaseKept
<1> QED
  BY <1>1, <1>6 DEF TableInv

LEMMA CrashStep == TableInv /\ Crash => TableInv'
<1> SUFFICES ASSUME TableInv, Crash PROVE TableInv'
  OBVIOUS
<1>1. /\ phase' = "off" /\ link' = FALSE /\ wire' = <<>> /\ registered' = FALSE
      /\ upq' = <<>> /\ netif' = FALSE
      /\ peers' = [i \in 1 .. Slots |-> Free] /\ peer_count' = 0
      /\ dev' = [i \in 1 .. Slots |-> NoKey]
      /\ cache' = <<>> /\ lru_clock' = 0
      /\ UNCHANGED <<members, missed, flash>>
  BY DEF Crash
<1>2. \A i \in 1 .. Slots : peers'[i].key = NoKey /\ peers'[i].wg = 0 /\ dev'[i] = NoKey
  BY <1>1 DEF Free
<1>3. ServerTyped' /\ QueuesKept'
  <2>1. <<>> \in Seq(Updates) /\ Len(<<>>) = 0 /\ 0 <= Depth
    BY EmptySeq, TableAssumption
  <2> QED
    BY <1>1, <2>1 DEF TableInv, ServerTyped, QueuesKept, QueuesTyped
<1>4. PhaseKept'
  BY <1>1, <1>2 DEF PhaseKept, Active
<1>5. TablesKept'
  <2>1. peers' \in Table /\ dev' \in Device
    BY <1>1, TableAssumption DEF Table, Device, Free
  <2> QED
    BY <1>1, <1>2, <2>1, TableAssumption
       DEF TablesKept, Counted, KeysDistinct, WithoutDevice, DeviceOwned, Active
<1>6. CacheKept'
  <2>1. <<>> \in Seq(Entries) /\ Len(<<>>) = 0 /\ 0 <= CacheMax
    BY EmptySeq, TableAssumption
  <2> QED
    BY <1>1, <2>1 DEF TableInv, CacheKept, CacheTyped, NodesDistinct
<1> QED
  BY <1>3, <1>4, <1>5, <1>6 DEF TableInv

LEMMA TableInvSame == TableInv /\ UNCHANGED tableVars => TableInv'
<1> SUFFICES ASSUME TableInv, UNCHANGED tableVars PROVE TableInv'
  OBVIOUS
<1>1. UNCHANGED <<net, upq, phase, netif, tbl, nvs>>
  BY DEF tableVars
<1>2. ServerTyped' /\ QueuesKept'
  BY <1>1 DEF net, TableInv, ServerTyped, QueuesKept, QueuesTyped
<1> QED
  BY <1>1, <1>2, SameTables, SameCache, SamePhase DEF TableInv, tbl

LEMMA TableInvStep == TableInv /\ [TableNext]_tableVars => TableInv'
<1> SUFFICES ASSUME TableInv, [TableNext]_tableVars PROVE TableInv'
  OBVIOUS
<1>1. CASE \E n \in Nodes : Outside(n)
  BY <1>1, OutsideStep
<1>2. CASE Stream
  BY <1>2, StreamStep
<1>3. CASE Boot \/ WgInit \/ Update \/ Crash
  BY <1>3, BootStep, WgInitStep, UpdateStep, CrashStep
<1>4. CASE Done \/ UNCHANGED tableVars
  BY <1>4, TableInvSame DEF Done
<1> QED
  BY <1>1, <1>2, <1>3, <1>4 DEF TableNext, Outside, Stream

THEOREM TableInvariance == TableSpec => []TableInv
<1> QED
  BY TableInvInit, TableInvStep, PTL DEF TableSpec

\* For every number of nodes, slots and keys: the table's entries lie below
\* peer_count (ml_wg_mgr.c) and every queue and table within its size.
THEOREM TableTypeCorrect == TableSpec => []TableTypeOK
<1>1. TableInv => TableTypeOK
  BY DEF TableInv, ServerTyped, QueuesKept, PhaseKept, TablesKept, Counted, CacheKept, Table,
     Device, TableTypeOK
<1> QED
  BY TableInvariance, <1>1, PTL

\* Whatever order peers come in from the cache and the server, are removed,
\* evicted or take new keys: the entries of ml->peers and the peers of the device
\* are one to one as soon as there is a device (wg_register_peer).
THEOREM DeviceFollowsTableCorrect == TableSpec => []DeviceFollowsTable
<1>1. TableInv => DeviceFollowsTable
  <2> SUFFICES ASSUME TableInv, netif PROVE DeviceFollowsTable
    BY DEF DeviceFollowsTable
  <2>1. Owns(peers, dev, Filled(Slots))
    BY DEF TableInv, TablesKept, DeviceOwned
  <2>2. \A i \in 1 .. Slots : Active(i) => i \in Filled(Slots)
    BY DEF Filled
  <2>3. \A i \in 1 .. Slots : Active(i) => peers[i].wg # 0 /\ dev[peers[i].wg] = peers[i].key
    BY <2>1, <2>2, TableAssumption DEF Owns
  <2>4. ASSUME NEW x \in 1 .. Slots, dev[x] # NoKey
        PROVE  \E i \in 1 .. Slots : peers[i].key = dev[x] /\ peers[i].wg = x
    <3>1. PICK i \in Filled(Slots) : peers[i].wg = x
      BY <2>1, <2>4 DEF Owns
    <3> QED
      BY <2>1, <3>1 DEF Owns, Filled
  <2> QED
    BY <2>3, <2>4 DEF DeviceFollowsTable
<1> QED
  BY TableInvariance, <1>1, PTL

\* The guarantee of Kconfig for the priority peer, for every size of the table:
\* an update puts it in and gives it a peer of the device, if need be in another
\* peer's place, and only its removal or a restart takes it out.
THEOREM PriorityServedCorrect == TableSpec => PriorityServed
<1> DEFINE Served ==
      \A k \in Allowable : NodeOf(k) = Priority =>
         /\ InTable(k) /\ ~InTable(k)' => phase' = "off" \/ Head(upq) = Gone(k)
         /\ upq # <<>> /\ Head(upq) = Add(k) /\ upq' = Tail(upq) /\ phase' # "off" /\ Room(k)
            => InTable(k)' /\ (netif => \E d \in 1 .. Slots : dev'[d] = k)
<1>1. TableInv /\ [TableNext]_tableVars => [Served]_tableVars
  <2> SUFFICES ASSUME TableInv, TableNext PROVE Served
    OBVIOUS
  <2>1. upq \in Seq(Updates)
    BY DEF TableInv, QueuesKept, QueuesTyped
  <2>2. upq # <<>> => Len(Tail(upq)) # Len(upq)
    BY <2>1, Enqueued, LenProperties
  <2>3. CASE Update
    BY <2>3, UpdateIsServed DEF Allowable
  <2>4. CASE Crash
    BY <2>4 DEF Crash
  <2>5. CASE (\E n \in Nodes : Outside(n)) \/ Connect \/ Registered \/ DropUpdate \/ LoseLink
             \/ WgInit \/ Done
    <3>1. upq' = upq
      BY <2>5 DEF Outside, Leave, Change, Connect, Registered, DropUpdate, LoseLink, WgInit,
         Done, tableVars
    <3>2. \A j \in 1 .. Slots : peers'[j].key = peers[j].key
      <4>1. CASE WgInit
        <5>1. PassedTo(Reconciled, Slots)
          BY <4>1, ReconciledOwns
             DEF WgInit, TableInv, TablesKept, Counted, WithoutDevice, PhaseKept
        <5> QED
          BY <4>1, <5>1 DEF WgInit, PassedTo
      <4> QED
        BY <2>5, <4>1 DEF Outside, Leave, Change, Connect, Registered, DropUpdate, LoseLink,
           Done, tableVars, tbl
    <3>3. \A k : InTable(k) => InTable(k)'
      BY <3>2 DEF InTable
    <3> QED
      BY <2>2, <3>1, <3>3
  <2>6. CASE Enqueue
    <3>1. UNCHANGED tbl /\ Len(upq') = Len(upq) + 1 /\ Len(upq) \in Nat
      BY <2>1, <2>6, Enqueued, LenProperties DEF Enqueue, TableInv, QueuesKept, QueuesTyped
    <3>2. upq # <<>> => upq' # Tail(upq)
      BY <2>1, <3>1, Enqueued
    <3>3. \A k : InTable(k) => InTable(k)'
      BY <3>1 DEF tbl, InTable
    <3> QED
      BY <3>2, <3>3
  <2>7. CASE Boot
    <3>1. \A k \in Allowable : ~InTable(k)
      BY <2>7, NoKeyIsNone
         DEF Boot, TableInv, PhaseKept, Active, InTable, Allowable
    <3>2. upq' = upq
      BY <2>7 DEF Boot
    <3> QED
      BY <2>2, <3>1, <3>2
  <2> QED
    BY <2>3, <2>4, <2>5, <2>6, <2>7 DEF TableNext, Outside
<1>2. [][TableNext]_tableVars /\ []TableInv => PriorityServed
  BY <1>1, PTL DEF PriorityServed
<1> QED
  BY TableInvariance, <1>2, PTL DEF TableSpec

-----------------------------------------------------------------------------
(* The cache implements RecentPeers, as long as its clock does not wrap.   *)

NoWrap == lru_clock + 1 < LruMod

\* The counters tell the entries apart, and the clock is past all of them.
InTime(s, clock) ==
  /\ \A i \in 1 .. Len(s) : s[i].lru <= clock
  /\ \A i, j \in 1 .. Len(s) : s[i].lru = s[j].lru => i = j
Clocked == InTime(cache, lru_clock) /\ InTime(flash.entries, flash.clock)

Recent == IF phase = "off" THEN Recency(flash.entries) ELSE Recency(cache)
Stored == Recency(flash.entries)

LEMMA RecencyIs ==
  ASSUME NEW s \in Seq(Entries)
  PROVE  /\ \A p : p \in Recency(s).peers <=> \E i \in 1 .. Len(s) : p = s[i].key
         /\ \A p, q : <<p, q>> \in Recency(s).newer <=>
              \E i, j \in 1 .. Len(s) : p = s[i].key /\ q = s[j].key /\ s[i].lru > s[j].lru
         /\ Recency(s).newer \subseteq Recency(s).peers \X Recency(s).peers
         /\ Recency(s) = [peers |-> Recency(s).peers, newer |-> Recency(s).newer]
<1> DEFINE D == 1 .. Len(s)
           R == {q \in D \X D : s[q[1]].lru > s[q[2]].lru}
           N == {<<s[r[1]].key, s[r[2]].key>> : r \in R}
<1>1. DOMAIN s = D
  BY LenProperties
<1>2. Recency(s) = [peers |-> {s[i].key : i \in D}, newer |-> N]
  BY <1>1 DEF Recency
<1>3. \A i, j : <<i, j>> \in R <=> i \in D /\ j \in D /\ s[i].lru > s[j].lru
  OBVIOUS
<1>4. \A r \in R : \E i, j \in D : r = <<i, j>> /\ s[i].lru > s[j].lru
  OBVIOUS
<1>5. ASSUME NEW p, NEW q
      PROVE  <<p, q>> \in N <=> \E i, j \in D : p = s[i].key /\ q = s[j].key /\ s[i].lru > s[j].lru
  <2>1. ASSUME <<p, q>> \in N
        PROVE  \E i, j \in D : p = s[i].key /\ q = s[j].key /\ s[i].lru > s[j].lru
    <3>1. PICK r \in R : <<p, q>> = <<s[r[1]].key, s[r[2]].key>>
      BY <2>1
    <3>2. PICK i \in D, j \in D : r = <<i, j>> /\ s[i].lru > s[j].lru
      BY <1>4
    <3> QED
      BY <3>1, <3>2
  <2>2. ASSUME NEW i \in D, NEW j \in D, p = s[i].key, q = s[j].key, s[i].lru > s[j].lru
        PROVE  <<p, q>> \in N
    <3>1. <<i, j>> \in R
      BY <2>2
    <3>2. <<s[<<i, j>>[1]].key, s[<<i, j>>[2]].key>> \in N
      BY <3>1
    <3> QED
      BY <2>2, <3>2
  <2> QED
    BY <2>1, <2>2
<1>6. N \subseteq {s[i].key : i \in D} \X {s[i].key : i \in D}
  <2> SUFFICES ASSUME NEW r \in R
               PROVE  <<s[r[1]].key, s[r[2]].key>> \in {s[i].key : i \in D} \X {s[i].key : i \in D}
    OBVIOUS
  <2>1. r[1] \in D /\ r[2] \in D
    OBVIOUS
  <2> QED
    BY <2>1
<1> HIDE DEF N, R
<1> QED
  BY <1>2, <1>5, <1>6

\* As many keys as places, if no two entries have one address.
LEMMA KeysCounted ==
  ASSUME NEW s \in Seq(Entries), NodesDistinct(s), NEW J \in SUBSET (1 .. Len(s))
  PROVE  /\ IsFiniteSet({s[j].key : j \in J})
         /\ Cardinality({s[j].key : j \in J}) = Cardinality(J)
<1> DEFINE K == {s[j].key : j \in J}
           f == [j \in J |-> s[j].key]
<1>1. IsFiniteSet(J)
  <2>1. Len(s) \in Nat
    BY LenProperties
  <2>2. IsFiniteSet(1 .. Len(s))
    BY <2>1, FS_Interval
  <2> QED
    BY <2>2, FS_Subset
<1>2. f \in Surjection(J, K)
  BY DEF Surjection
<1>3. f \in Injection(J, K)
  BY DEF Injection, IsInjective, NodesDistinct
<1>4. ExistsBijection(J, K)
  BY <1>2, <1>3 DEF ExistsBijection, Bijection
<1> QED
  BY <1>1, <1>4, FS_Bijection

\* The places whose entries stay when k is saved.
Stays(k) == (1 .. Len(cache)) \ {SaveSlot(k)}
StayKeys(k) == {cache[j].key : j \in Stays(k)}

\* The abstract cache keeps what the code keeps.
LEMMA KeptIs ==
  ASSUME CacheKept, Clocked, phase # "off", NEW k \in Keys
  PROVE  Cache!Kept(k) = StayKeys(k)
<1> DEFINE n == Len(cache)
           slot == SaveSlot(k)
           P == Recency(cache).peers
           O == Cache!Others(k)
<1>1. cache \in Seq(Entries) /\ n \in Nat /\ n <= CacheMax /\ DOMAIN cache = 1 .. n
      /\ NodesDistinct(cache) /\ CacheMax \in Nat
  BY LenProperties, TableAssumption DEF CacheKept, CacheTyped
<1>2. O = {q \in P : NodeOf(q) # NodeOf(k)}
  BY DEF Cache!Others
<1>3. \A p : p \in P <=> \E i \in 1 .. n : p = cache[i].key
  BY <1>1, RecencyIs
<1>4. \A q \in O : q \in Cache!Oldest(k) <=> \A r \in O : r # q => <<r, q>> \in Recency(cache).newer
  BY DEF Cache!Oldest
<1>5. Cache!Kept(k) = IF Cardinality(O) < CacheMax THEN O ELSE O \ Cache!Oldest(k)
  BY DEF Cache!Kept, Cache!Cardinality, Cardinality
<1>6. \/ slot \in Matching(k) /\ slot \in 1 .. n
      \/ Matching(k) = {} /\ n < CacheMax /\ slot = n + 1
      \/ Matching(k) = {} /\ n = CacheMax /\ slot \in Oldest /\ slot \in 1 .. n
  BY SaveSlotIs DEF CacheKept
<1> HIDE DEF O, slot, P
<1>7. IsFiniteSet(1 .. n) /\ Cardinality(1 .. n) = n
  <2>1. n \in Int /\ n \in Nat
    BY <1>1
  <2> HIDE DEF n
  <2>2. IsFiniteSet(1 .. n) /\ Cardinality(1 .. n) = IF 1 > n THEN 0 ELSE n - 1 + 1
    BY <2>1, FS_Interval
  <2> QED
    BY <2>1, <2>2
<1>8. CASE slot \in Matching(k)
  <2>1. slot \in 1 .. n /\ NodeOf(cache[slot].key) = NodeOf(k)
    BY <1>1, <1>8 DEF Matching
  <2>2. \A j \in 1 .. n : NodeOf(cache[j].key) = NodeOf(k) <=> j = slot
    BY <1>1, <2>1 DEF NodesDistinct
  <2>3. O = StayKeys(k)
    BY <1>2, <1>3, <2>2 DEF StayKeys, Stays, slot
  <2>4. Cardinality(O) = Cardinality(Stays(k))
    BY <1>1, <2>3, KeysCounted DEF StayKeys, Stays
  <2>5. Cardinality(Stays(k)) = n - 1
    BY <1>7, <2>1, FS_RemoveElement DEF Stays, slot
  <2>6. Cardinality(O) < CacheMax
    BY <1>1, <2>4, <2>5
  <2> QED
    BY <1>5, <2>3, <2>6
<1>9. CASE Matching(k) = {}
  <2>1. \A j \in 1 .. n : NodeOf(cache[j].key) # NodeOf(k)
    BY <1>1, <1>9 DEF Matching
  <2>2. O = {cache[j].key : j \in 1 .. n}
    BY <1>2, <1>3, <2>1
  <2>3. Cardinality(O) = n
    BY <1>1, <1>7, <2>2, KeysCounted
  <2>4. CASE n < CacheMax /\ slot = n + 1
    <3>1. Stays(k) = 1 .. n
      BY <1>1, <2>4 DEF Stays, slot
    <3> QED
      BY <1>5, <2>2, <2>3, <2>4, <3>1 DEF StayKeys
  <2>5. CASE n = CacheMax /\ slot \in Oldest /\ slot \in 1 .. n
    <3>1. \A j \in 1 .. n : cache[slot].lru <= cache[j].lru
      BY <1>1, <2>5 DEF Oldest
    <3>2. \A i \in 1 .. n : cache[i].lru \in Nat
      <4>1. \A i \in 1 .. n : cache[i] \in Entries
        BY <1>1, ElementOfSeq
      <4> QED
        BY <4>1 DEF Entries
    <3>3. \A j \in 1 .. n : j # slot => cache[j].lru > cache[slot].lru
      BY <2>5, <3>1, <3>2 DEF Clocked, InTime
    <3>4. \A i, j \in 1 .. n : cache[i].key = cache[j].key => i = j
      BY <1>1 DEF NodesDistinct
    <3>5. ASSUME NEW j \in 1 .. n
          PROVE  cache[j].key \in Cache!Oldest(k) <=> j = slot
      <4>1. CASE j = slot
        <5>1. \A r \in O : r # cache[j].key => <<r, cache[j].key>> \in Recency(cache).newer
          <6> SUFFICES ASSUME NEW i \in 1 .. n, cache[i].key # cache[j].key
                       PROVE  <<cache[i].key, cache[j].key>> \in Recency(cache).newer
            BY <2>2
          <6>1. cache[i].lru > cache[j].lru
            BY <3>3, <4>1
          <6>2. j \in 1 .. n
            OBVIOUS
          <6> HIDE DEF n
          <6>3. \E a, b \in 1 .. n : /\ cache[i].key = cache[a].key /\ cache[j].key = cache[b].key
                                     /\ cache[a].lru > cache[b].lru
            BY <6>1, <6>2
          <6> QED
            BY <1>1, <6>3, RecencyIs DEF n
        <5> QED
          BY <1>4, <2>2, <4>1, <5>1
      <4>2. CASE j # slot
        <5>1. ~(<<cache[slot].key, cache[j].key>> \in Recency(cache).newer)
          <6> SUFFICES ASSUME <<cache[slot].key, cache[j].key>> \in Recency(cache).newer
                       PROVE  FALSE
            OBVIOUS
          <6>1. PICK a \in 1 .. n, b \in 1 .. n :
                  /\ cache[slot].key = cache[a].key /\ cache[j].key = cache[b].key
                  /\ cache[a].lru > cache[b].lru
            <7>1. \A p, q : <<p, q>> \in Recency(cache).newer =>
                    \E a, b \in 1 .. n : /\ p = cache[a].key /\ q = cache[b].key
                                         /\ cache[a].lru > cache[b].lru
              BY <1>1, RecencyIs, SMTT(30)
            <7> QED
              BY <7>1
          <6>2. a = slot /\ b = j
            BY <2>5, <3>4, <6>1
          <6> QED
            BY <2>5, <3>1, <3>2, <6>1, <6>2
        <5>2. cache[slot].key \in O /\ cache[j].key \in O /\ cache[slot].key # cache[j].key
          BY <2>2, <2>5, <3>4, <4>2
        <5> QED
          BY <1>4, <4>2, <5>1, <5>2
      <4> QED
        BY <4>1, <4>2
    <3>6. O \ Cache!Oldest(k) = StayKeys(k)
      BY <2>2, <3>4, <3>5 DEF StayKeys, Stays, slot
    <3> QED
      BY <1>1, <1>5, <2>3, <2>5, <3>6
  <2> QED
    BY <1>6, <1>9, <2>4, <2>5 DEF Matching
<1> QED
  BY <1>6, <1>8, <1>9

\* The entries after a save: those that stay, and the new one, newer than all.
LEMMA SaveIs ==
  ASSUME CacheKept, Clocked, NoWrap, NEW k \in Keys, Save(k)
  PROVE  /\ 1 .. Len(cache') = Stays(k) \cup {SaveSlot(k)}
         /\ SaveSlot(k) \notin Stays(k)
         /\ \A j \in Stays(k) : cache'[j] = cache[j] /\ cache[j].lru < lru_clock'
         /\ cache'[SaveSlot(k)].key = k /\ cache'[SaveSlot(k)].lru = lru_clock'
         /\ lru_clock' \in Nat
<1> DEFINE slot == SaveSlot(k)
           tick == (lru_clock + 1) % LruMod
           entry == [key |-> k, lru |-> tick]
           n == Len(cache)
<1>1. tick = lru_clock + 1 /\ lru_clock \in Nat
  BY TableAssumption, SMTT(30) DEF NoWrap, CacheKept, CacheTyped
<1>2. /\ lru_clock' = tick
      /\ cache' = IF slot > n THEN Append(cache, entry) ELSE [cache EXCEPT ![slot] = entry]
  BY DEF Save
<1>3. n \in Nat /\ cache \in Seq(Entries) /\ DOMAIN cache = 1 .. n
  BY LenProperties DEF CacheKept, CacheTyped
<1>4. slot \in 1 .. n \/ slot = n + 1
  BY SaveSlotIs DEF CacheKept, CacheTyped
<1>5. \A j \in 1 .. n : cache[j].lru \in Nat
  <2>1. \A j \in 1 .. n : cache[j] \in Entries
    BY <1>3, ElementOfSeq
  <2> QED
    BY <2>1 DEF Entries
<1>6. entry \in Entries /\ entry.key = k /\ entry.lru = tick
  BY <1>1 DEF Entries
<1>7. \A j \in 1 .. n : cache[j].lru < lru_clock'
  <2>1. \A j \in 1 .. n : cache[j].lru <= lru_clock
    BY DEF Clocked, InTime
  <2> QED
    BY <1>1, <1>2, <1>5, <2>1
<1>12. lru_clock' = tick /\ tick \in Nat
  BY <1>1, <1>2
<1>13. Stays(k) = (1 .. n) \ {slot}
  BY DEF Stays
<1> HIDE DEF slot, entry, tick, n
<1>8. CASE slot = n + 1
  <2>1. cache' = Append(cache, entry)
    <3>1. slot > n
      BY <1>3, <1>8
    <3> QED
      BY <1>2, <3>1
  <2>2. Len(cache') = n + 1 /\ cache'[n + 1] = entry /\ \A j \in 1 .. n : cache'[j] = cache[j]
    BY <1>3, <1>6, <2>1, AppendProperties DEF n
  <2>3. 1 .. (n + 1) = (1 .. n) \cup {n + 1} /\ (n + 1) \notin 1 .. n
    BY <1>3
  <2>4. Stays(k) = 1 .. n
    BY <1>8, <1>13, <2>3
  <2> QED
    BY <1>6, <1>7, <1>8, <1>12, <2>2, <2>3, <2>4 DEF slot
<1>9. CASE slot \in 1 .. n
  <2>1. cache' = [cache EXCEPT ![slot] = entry]
    <3>1. ~(slot > n)
      BY <1>3, <1>9
    <3> QED
      BY <1>2, <3>1
  <2>2. cache' \in Seq(Entries) /\ DOMAIN cache' = 1 .. n
    BY <1>3, <1>6, <1>9, <2>1, ExceptSeq DEF n
  <2>3. Len(cache') = n
    BY <1>3, <2>2, LenProperties
  <2>4. cache'[slot] = entry /\ \A j \in 1 .. n : j # slot => cache'[j] = cache[j]
    BY <1>3, <1>9, <2>1
  <2> QED
    BY <1>6, <1>7, <1>9, <1>12, <1>13, <2>3, <2>4 DEF slot
<1> QED
  BY <1>4, <1>8, <1>9

LEMMA SaveClocked ==
  ASSUME CacheKept, Clocked, NoWrap, NEW k \in Keys, Save(k)
  PROVE  Clocked'
<1> DEFINE slot == SaveSlot(k)
<1>1. /\ 1 .. Len(cache') = Stays(k) \cup {slot}
      /\ \A j \in Stays(k) : cache'[j] = cache[j] /\ cache[j].lru < lru_clock'
      /\ cache'[slot].lru = lru_clock' /\ lru_clock' \in Nat
  BY SaveIs
<1>2. Stays(k) \subseteq 1 .. Len(cache)
  BY DEF Stays
<1>3. \A j \in Stays(k) : cache[j].lru \in Nat
  <2>1. \A j \in 1 .. Len(cache) : cache[j] \in Entries
    BY ElementOfSeq DEF CacheKept, CacheTyped
  <2> QED
    BY <1>2, <2>1 DEF Entries
<1> HIDE DEF slot
<1>4. \A j \in 1 .. Len(cache') : cache'[j].lru <= lru_clock'
  BY <1>1, <1>3
<1>5. \A i, j \in 1 .. Len(cache') : cache'[i].lru = cache'[j].lru => i = j
  BY <1>1, <1>2, <1>3 DEF Clocked, InTime
<1>6. InTime(cache', lru_clock')
  BY <1>4, <1>5 DEF InTime
<1>7. CASE flash' = flash
  BY <1>6, <1>7 DEF Clocked
<1>8. CASE flash' = [entries |-> cache', clock |-> lru_clock']
  <2>1. flash'.entries = cache' /\ flash'.clock = lru_clock'
    BY <1>8
  <2> QED
    BY <1>6, <2>1 DEF Clocked
<1> QED
  BY <1>7, <1>8 DEF Save

\* A save of the code is a save of the abstract cache.
LEMMA SaveImplements ==
  ASSUME CacheKept, Clocked, NoWrap, phase # "off", NEW k \in Keys, Save(k)
  PROVE  Recency(cache') = [peers |-> Cache!Kept(k) \cup {k},
                            newer |-> (Recency(cache).newer \cap (Cache!Kept(k) \X Cache!Kept(k)))
                                      \cup ({k} \X Cache!Kept(k))]
<1> DEFINE slot == SaveSlot(k)
           S == Stays(k)
           K == StayKeys(k)
           new == Recency(cache')
           old == Recency(cache)
<1>1. /\ 1 .. Len(cache') = S \cup {slot} /\ slot \notin S
      /\ \A j \in S : cache'[j] = cache[j] /\ cache[j].lru < lru_clock'
      /\ cache'[slot].key = k /\ cache'[slot].lru = lru_clock' /\ lru_clock' \in Nat
  BY SaveIs
<1>2. Cache!Kept(k) = K
  BY KeptIs
<1>3. cache \in Seq(Entries) /\ cache' \in Seq(Entries) /\ NodesDistinct(cache)
  BY SaveKeeps DEF CacheKept, CacheTyped
<1>4. S \subseteq 1 .. Len(cache) /\ S \subseteq 1 .. Len(cache')
  BY <1>1 DEF Stays
<1>5. \A i, j \in 1 .. Len(cache) : cache[i].key = cache[j].key => i = j
  BY <1>3 DEF NodesDistinct
<1>6. \A p : p \in K <=> \E j \in S : p = cache[j].key
  BY DEF StayKeys
<1>7. \A j \in S : cache[j].lru \in Nat
  <2>1. \A j \in 1 .. Len(cache) : cache[j] \in Entries
    BY <1>3, ElementOfSeq
  <2> QED
    BY <1>4, <2>1 DEF Entries
<1>8. /\ \A p : p \in new.peers <=> \E i \in 1 .. Len(cache') : p = cache'[i].key
      /\ \A p, q : <<p, q>> \in new.newer <=>
           \E i, j \in 1 .. Len(cache') : /\ p = cache'[i].key /\ q = cache'[j].key
                                          /\ cache'[i].lru > cache'[j].lru
      /\ new.newer \subseteq new.peers \X new.peers
      /\ new = [peers |-> new.peers, newer |-> new.newer]
  BY <1>3, RecencyIs
<1>9. /\ \A p, q : <<p, q>> \in old.newer <=>
           \E i, j \in 1 .. Len(cache) : /\ p = cache[i].key /\ q = cache[j].key
                                         /\ cache[i].lru > cache[j].lru
  BY <1>3, RecencyIs
<1> HIDE DEF slot, S, K, new, old
<1>10. new.peers = K \cup {k}
  BY <1>1, <1>6, <1>8
<1> DEFINE M == (old.newer \cap (K \X K)) \cup ({k} \X K)
<1>11. \A p, q : <<p, q>> \in M <=> (p \in K /\ q \in K /\ <<p, q>> \in old.newer) \/ (p = k /\ q \in K)
  OBVIOUS
<1>12. \A p, q : <<p, q>> \in new.newer <=> <<p, q>> \in M
  <2> SUFFICES ASSUME NEW p, NEW q PROVE <<p, q>> \in new.newer <=> <<p, q>> \in M
    OBVIOUS
  <2>1. ASSUME <<p, q>> \in new.newer PROVE <<p, q>> \in M
    <3>1. PICK i \in S \cup {slot}, j \in S \cup {slot} :
            p = cache'[i].key /\ q = cache'[j].key /\ cache'[i].lru > cache'[j].lru
      BY <1>1, <1>8, <2>1
    <3>2. j \in S
      BY <1>1, <1>7, <3>1
    <3>3. q \in K /\ q = cache[j].key /\ cache'[j].lru = cache[j].lru
      BY <1>1, <1>6, <3>1, <3>2
    <3>4. CASE i = slot
      BY <1>1, <1>11, <3>1, <3>3, <3>4
    <3>5. CASE i \in S
      <4>1. p \in K /\ p = cache[i].key /\ cache[i].lru > cache[j].lru
        BY <1>1, <1>6, <3>1, <3>3, <3>5
      <4>2. <<p, q>> \in old.newer
        BY <1>4, <1>9, <3>2, <3>3, <3>5, <4>1
      <4> QED
        BY <1>11, <3>3, <4>1, <4>2
    <3> QED
      BY <3>1, <3>4, <3>5
  <2>2. ASSUME p = k, q \in K PROVE <<p, q>> \in new.newer
    <3>1. PICK j \in S : q = cache[j].key
      BY <1>6, <2>2
    <3>2. q = cache'[j].key /\ cache'[slot].lru > cache'[j].lru
      BY <1>1, <1>7, <3>1
    <3> QED
      BY <1>1, <1>8, <2>2, <3>1, <3>2
  <2>3. ASSUME p \in K, q \in K, <<p, q>> \in old.newer PROVE <<p, q>> \in new.newer
    <3>1. PICK a \in 1 .. Len(cache), b \in 1 .. Len(cache) :
            p = cache[a].key /\ q = cache[b].key /\ cache[a].lru > cache[b].lru
      BY <1>9, <2>3
    <3>2. a \in S /\ b \in S
      BY <1>4, <1>5, <1>6, <2>3, <3>1, SMTT(30)
    <3>3. p = cache'[a].key /\ q = cache'[b].key /\ cache'[a].lru > cache'[b].lru
      BY <1>1, <3>1, <3>2
    <3> QED
      BY <1>4, <1>8, <3>2, <3>3
  <2> QED
    BY <1>11, <2>1, <2>2, <2>3
<1>13. old.newer \cap (K \X K) \subseteq K \X K /\ M \subseteq (K \cup {k}) \X (K \cup {k})
  OBVIOUS
<1>14. new.newer = M
  <2>1. new.newer \subseteq (K \cup {k}) \X (K \cup {k})
    BY <1>8, <1>10
  <2>2. ASSUME NEW X, NEW Y, NEW Z, X \subseteq Z \X Z, Y \subseteq Z \X Z,
               \A p, q : <<p, q>> \in X <=> <<p, q>> \in Y
        PROVE  X = Y
    <3>1. \A e \in Z \X Z : e = <<e[1], e[2]>>
      OBVIOUS
    <3>2. \A e : e \in X <=> e \in Y
      BY <2>2, <3>1
    <3> QED
      BY <3>2
  <2> HIDE DEF M
  <2> QED
    BY <1>12, <1>13, <2>1, <2>2
<1>15. new = [peers |-> K \cup {k}, newer |-> M]
  BY <1>8, <1>10, <1>14
<1> QED
  BY <1>2, <1>15 DEF new, old

LEMMA CacheInit ==
  ASSUME TableInit
  PROVE  Clocked /\ Cache!Init
<1>1. cache = <<>> /\ flash.entries = <<>>
  BY DEF TableInit
<1>2. Clocked
  <2>1. Len(<<>>) = 0
    BY EmptySeq
  <2> QED
    BY <1>1, <2>1 DEF Clocked, InTime
<1>3. Recency(<<>>) = [peers |-> {}, newer |-> {}]
  BY DEF Recency
<1>4. Recent = [peers |-> {}, newer |-> {}] /\ Stored = [peers |-> {}, newer |-> {}]
  BY <1>1, <1>3 DEF Recent, Stored
<1> QED
  BY <1>2, <1>4 DEF Cache!Init, Cache!Empty, Recent, Stored

\* Every step of the program is a save or a restart of the abstract cache, or
\* none of its business.
LEMMA CacheStep ==
  ASSUME TableInv, Clocked, NoWrap, [TableNext]_tableVars
  PROVE  /\ Clocked'
         /\ \/ Cache!Restart
            \/ \E k \in Keys : Cache!Save(k)
            \/ Recent' = Recent /\ Stored' = Stored
<1>1. CASE UNCHANGED nvs /\ (phase = "off" <=> phase' = "off")
  BY <1>1 DEF nvs, Clocked, InTime, Recent, Stored
<1>2. CASE Boot
  <2>1. cache' = flash.entries /\ lru_clock' = flash.clock /\ flash' = flash
        /\ phase = "off" /\ phase' # "off"
    BY <1>2 DEF Boot
  <2> QED
    BY <2>1 DEF Clocked, Recent, Stored
<1>3. CASE Crash
  <2>1. flash' = flash /\ phase' = "off" /\ cache' = <<>> /\ phase # "off" /\ lru_clock' = 0
    BY <1>3 DEF Crash
  <2>2. Recent' = Stored /\ Stored' = Stored
    BY <2>1 DEF Recent, Stored
  <2>3. Len(<<>>) = 0
    BY EmptySeq
  <2>4. Clocked'
    BY <2>1, <2>3 DEF Clocked, InTime
  <2> QED
    BY <2>2, <2>4 DEF Cache!Restart, Recent, Stored
<1>4. CASE Update
  <2>1. phase # "off" /\ phase' = phase /\ CacheKept
    BY <1>4 DEF Update, TableInv
  <2>2. Head(upq) \in Updates
    BY <1>4, Enqueued DEF Update, TableInv, QueuesKept, QueuesTyped
  <2>3. UNCHANGED nvs \/ \E k \in Keys : Save(k)
    BY <1>4, <2>2 DEF Update, AddPeer, RemovePeer, Updates
  <2>4. CASE UNCHANGED nvs
    BY <1>1, <2>1, <2>4
  <2>5. ASSUME NEW k \in Keys, Save(k)
        PROVE  Clocked' /\ Cache!Save(k)
    <3>1. Recency(cache') = [peers |-> Cache!Kept(k) \cup {k},
                             newer |-> (Recency(cache).newer \cap (Cache!Kept(k) \X Cache!Kept(k)))
                                       \cup ({k} \X Cache!Kept(k))]
      BY <2>1, <2>5, SaveImplements
    <3>2. Recent = Recency(cache) /\ Recent' = Recency(cache')
      BY <2>1 DEF Recent
    <3>3. Stored' = Recency(cache') \/ Stored' = Stored
      <4>1. CASE flash' = flash
        BY <4>1 DEF Stored
      <4>2. CASE flash' = [entries |-> cache', clock |-> lru_clock']
        <5>1. flash'.entries = cache'
          BY <4>2
        <5> QED
          BY <5>1 DEF Stored
      <4> QED
        BY <2>5, <4>1, <4>2 DEF Save
    <3>4. Clocked'
      BY <2>1, <2>5, SaveClocked
    <3> QED
      BY <3>1, <3>2, <3>3, <3>4 DEF Cache!Save, Recent, Stored
  <2> QED
    BY <2>3, <2>4, <2>5
<1>5. CASE WgInit
  BY <1>1, <1>5 DEF WgInit
<1>6. CASE (\E n \in Nodes : Outside(n)) \/ Stream \/ Done \/ UNCHANGED tableVars
  BY <1>1, <1>6 DEF Outside, Leave, Change, Stream, Connect, Registered, Enqueue, DropUpdate,
     LoseLink, Done, tableVars
<1> QED
  BY <1>2, <1>3, <1>4, <1>5, <1>6 DEF TableNext, Outside, Stream

\* As long as the uint16_t clock of the cache has not run out, what is in flash
\* and in its copy is what RecentPeers promises, for every size of the cache and
\* any number of saves, failed writes and restarts (ml_peer_nvs_save).
THEOREM CacheIsRecentCorrect == TableSpec /\ []NoWrap => CacheIsRecent
<1>1. TableInit => Cache!Init
  BY CacheInit
<1>2. TableInit => Clocked
  BY CacheInit
<1>3. TableInv /\ Clocked /\ NoWrap /\ [TableNext]_tableVars => Clocked'
  BY CacheStep
<1>4. TableInv /\ Clocked /\ NoWrap /\ [TableNext]_tableVars
      => [Cache!Next]_<<IF phase = "off" THEN Recency(flash.entries) ELSE Recency(cache),
                        Recency(flash.entries)>>
  BY CacheStep DEF Cache!Next, Recent, Stored
<1> QED
  BY TableInvariance, <1>1, <1>2, <1>3, <1>4, PTL DEF TableSpec, CacheIsRecent, Cache!Spec
=============================================================================
