------------------------- MODULE StreamServerProofs -------------------------
(***************************************************************************)
(* Proofs about StreamServer, for any number of clients, any buffer size   *)
(* and any number of bytes:                                                *)
(*   - type correctness, wrapping positions included;                      *)
(*   - CleanedUp: who is counted and who leaves;                           *)
(*   - PendingIntact and DropsOnlyLapped, and that the server implements   *)
(*     SerialFanout, as long as the positions do not wrap (NoWrap).        *)
(* The inductive invariant is IInv: beside the types, the ring holds the   *)
(* last BufSize bytes of the stream, and the tail is below every position  *)
(* flush() has visited.                                                    *)
(***************************************************************************)
EXTENDS StreamServer, FiniteSetTheorems, TLAPS

-----------------------------------------------------------------------------
(* The ring's index arithmetic.                                            *)

\* Division with remainder.
LEMMA ModDef ==
  ASSUME NEW i \in Nat, NEW B \in Nat \ {0}
  PROVE  /\ (i % B) \in 0..(B - 1)
         /\ (i \div B) \in Nat
         /\ i = B * (i \div B) + (i % B)
BY SMT

\* Quotient and remainder are unique.
LEMMA DivUnique ==
  ASSUME NEW B \in Nat \ {0}, NEW q \in Int, NEW p \in Int,
         NEW r \in 0..(B - 1), NEW s \in 0..(B - 1),
         B * q + r = B * p + s
  PROVE  q = p /\ r = s
<1>1. ASSUME NEW a \in Int, NEW b \in Int, a < b
      PROVE  B * a + B <= B * b
  <2>1. B * (b - a - 1) >= 0
    BY <1>1, SMT
  <2> QED
    BY <2>1, <1>1, SMT
<1>2. ~(q < p)
  BY <1>1, SMT
<1>3. ~(p < q)
  BY <1>1, SMT
<1> QED
  BY <1>2, <1>3, SMT

\* The remainder of a number that is written as a multiple and a rest.
LEMMA ModOf ==
  ASSUME NEW B \in Nat \ {0}, NEW q \in Nat, NEW r \in 0..(B - 1),
         NEW i \in Nat, i = B * q + r
  PROVE  i % B = r
<1> DEFINE s == i % B
           p == i \div B
<1>1. s \in 0..(B - 1) /\ p \in Nat /\ i = B * p + s
  BY ModDef
<1> HIDE DEF s, p
<1>2. B * q + r = B * p + s /\ q \in Int /\ p \in Int
  BY <1>1
<1>3. r = s
  BY <1>1, <1>2, DivUnique, Zenon
<1> QED
  BY <1>3 DEF s

\* An index is a slot of the ring, and at least one slot lies ahead of it.
LEMMA IndexRange ==
  ASSUME NEW i \in Nat
  PROVE  /\ BufIndex(i) \in 0..(BufSize - 1)
         /\ BufAhead(i) \in 1..BufSize
         /\ BufAhead(i) = BufSize - BufIndex(i)
<1>1. (i % BufSize) \in 0..(BufSize - 1)
  BY ModDef, ConstAssumption
<1> QED
  BY <1>1, ConstAssumption, SMT DEF BufIndex, BufAhead

\* Within the slots ahead, positions and indices advance together.
LEMMA IndexStep ==
  ASSUME NEW i \in Nat, NEW k \in Nat, k < BufAhead(i)
  PROVE  BufIndex(i + k) = BufIndex(i) + k
<1> DEFINE B == BufSize
           q == i \div B
           r == (i % B) + k
           j == i + k
<1>1. B \in Nat \ {0}
  BY ConstAssumption
<1>2. (i % B) \in 0..(B - 1) /\ q \in Nat /\ i = B * q + (i % B)
  BY ModDef, <1>1
<1>3. r \in 0..(B - 1)
  BY <1>1, <1>2, SMT DEF BufAhead, BufIndex
<1>4. j \in Nat /\ j = B * q + r
  BY <1>1, <1>2, SMT
<1> HIDE DEF B, q, r, j
<1>5. q \in Nat
  BY <1>2
<1>6. j % B = r
  BY <1>1, <1>3, <1>4, <1>5, ModOf
<1> QED
  BY <1>6 DEF BufIndex, B, r, j

\* Past the slots ahead, the index starts again from 0.
LEMMA IndexWrap ==
  ASSUME NEW i \in Nat, NEW k \in 0..(BufSize - 1)
  PROVE  BufIndex(i + BufAhead(i) + k) = k
<1> DEFINE B == BufSize
           q == (i \div B) + 1
           j == i + BufAhead(i) + k
<1>1. B \in Nat \ {0}
  BY ConstAssumption
<1>2. (i % B) \in 0..(B - 1) /\ (i \div B) \in Nat /\ i = B * (i \div B) + (i % B)
  BY ModDef, <1>1
<1>3. j \in Nat /\ j = B * q + k
  BY <1>1, <1>2, SMT DEF BufAhead, BufIndex
<1>4. q \in Nat
  BY <1>2
<1>5. k \in 0..(B - 1)
  OBVIOUS
<1> HIDE DEF B, q, j
<1>6. j % B = k
  BY <1>1, <1>3, <1>4, <1>5, ModOf
<1> QED
  BY <1>6 DEF BufIndex, B, j

\* Two positions less than BufSize apart do not share a slot.
LEMMA IndexUnique ==
  ASSUME NEW i \in Nat, NEW j \in Nat, i <= j, j - i < BufSize,
         BufIndex(i) = BufIndex(j)
  PROVE  i = j
<1> DEFINE B == BufSize
           q == i \div B
           p == j \div B
           r == i % B
<1>1. B \in Nat \ {0}
  BY ConstAssumption
<1>2. r \in 0..(B - 1) /\ q \in Nat /\ i = B * q + r
  BY ModDef, <1>1
<1>3. p \in Nat /\ j = B * p + r
  BY ModDef, <1>1 DEF BufIndex
<1> DEFINE d == j - i
<1> HIDE DEF q, p, r
<1>4. d \in 0..(B - 1) /\ 0 \in 0..(B - 1)
  BY <1>1, SMT
<1>5. B * q + d = B * p + 0 /\ q \in Int /\ p \in Int
  BY <1>1, <1>2, <1>3, SMT
<1> HIDE DEF B, d
<1>6. d = 0
  BY <1>1, <1>4, <1>5, DivUnique, Zenon
<1> QED
  BY <1>6, SMT DEF d

-----------------------------------------------------------------------------
(* Type correctness, for every size of size_t.                             *)

\* size_t sums and differences are size_t.
LEMMA SizeClosed ==
  ASSUME NEW a \in Size, NEW b \in 0..SizeMod
  PROVE  /\ Add(a, b) \in Size
         /\ b \in Size => Sub(a, b) \in Size /\ Sub(b, a) \in Size
BY ConstAssumption, SMT DEF Size, Add, Sub

\* A published client count is a number: only finitely many clients exist.
LEMMA CountType ==
  ASSUME NEW S \in SUBSET Clients
  PROVE  Cardinality(S) \in Nat
<1>1. IsFiniteSet(S)
  BY ConstAssumption, FS_Subset
<1> QED
  BY <1>1, FS_CardinalityType

\* What read() takes off the UART in one iteration fits the ring's slots and
\* the bytes there are.
LEMMA ReadType ==
  ASSUME TypeOK, ReadSome
  PROVE  /\ head' \in Size /\ tail' \in Size
         /\ buf' \in [0..(BufSize - 1) -> Size]
         /\ position' \in [Clients -> Size]
         /\ avail' \in 0..UartCap /\ len' \in 0..BufSize
<1> DEFINE full  == Free = 0
           free  == IF full THEN Least(avail, BufSize) ELSE Free
           tail2 == IF full THEN Add(tail, free) ELSE tail
           n     == Least(avail, Least(BufAhead(head), free))
<1>1. /\ tail' = tail2
      /\ position' = IF full THEN Dropped(tail2) ELSE position
      /\ buf' = Fill(head, n)
      /\ head' = Add(head, n) /\ avail' = avail - n /\ len' = n
  BY DEF ReadSome
<1>2. /\ head \in Size /\ tail \in Size /\ avail \in Nat /\ avail <= UartCap
      /\ BufSize \in Nat \ {0} /\ BufSize \in 0..SizeMod /\ head \in Nat
  BY ConstAssumption, SMT DEF TypeOK, Size
<1>3. Free \in Size
  <2>1. BufSize \in Size
    BY ConstAssumption, SMT DEF Size
  <2> QED
    BY <1>2, <2>1, SizeClosed, ConstAssumption, SMT DEF Free, Size, Sub
<1>4. free \in Nat /\ (full => free \in 0..SizeMod)
  <2>1. Least(avail, BufSize) \in 0..SizeMod /\ SizeMod \in Nat
    BY <1>2, ConstAssumption, SMT DEF Least
  <2> QED
    BY <1>3, <2>1, ConstAssumption, SMT DEF Size
<1>5. tail2 \in Size
  BY <1>2, <1>4, SizeClosed
<1>6. BufAhead(head) \in 1..BufSize
  BY <1>2, IndexRange
<1> HIDE DEF full, free, tail2
<1>7. n \in 0..BufSize /\ n <= avail
  BY <1>2, <1>4, <1>6, SMT DEF Least
<1> HIDE DEF n
<1>8. head' \in Size
  BY <1>1, <1>2, <1>7, SizeClosed, ConstAssumption, SMT
<1>9. avail' \in 0..UartCap /\ len' \in 0..BufSize
  BY <1>1, <1>2, <1>7, ConstAssumption, SMT
<1>10. position' \in [Clients -> Size]
  BY <1>1, <1>5, SMT DEF Dropped, TypeOK
<1>11. buf' \in [0..(BufSize - 1) -> Size]
  <2>1. BufIndex(head) \in 0..(BufSize - 1)
    BY <1>2, IndexRange
  <2>2. ASSUME NEW i \in 0..(BufSize - 1),
               i \in BufIndex(head)..(BufIndex(head) + n - 1)
        PROVE  Add(head, i - BufIndex(head)) \in Size
    <3>1. i - BufIndex(head) \in 0..SizeMod
      BY <2>1, <2>2, <1>2, <1>7, ConstAssumption, SMT
    <3> QED
      BY <3>1, <1>2, SizeClosed
  <2>3. \A i \in 0..(BufSize - 1) : buf[i] \in Size
    BY DEF TypeOK
  <2> QED
    BY <1>1, <2>2, <2>3, Zenon DEF Fill
<1> QED
  BY <1>1, <1>5, <1>8, <1>9, <1>10, <1>11

\* What writev() took of a client's bytes is a size_t, and so is the position
\* behind it.
LEMMA WriteType ==
  ASSUME TypeOK, NEW c \in Clients, NEW n \in 1..(Iov0(c) + Iov1(c))
  PROVE  /\ Iov0(c) + Iov1(c) = Sub(head, position[c])
         /\ Add(position[c], n) \in Size
<1>1. head \in Size /\ position[c] \in Size /\ head \in Nat /\ position[c] \in Nat
  BY SMT DEF TypeOK, Size
<1>2. BufAhead(position[c]) \in 1..BufSize
  BY <1>1, IndexRange
<1>3. Iov0(c) \in Nat /\ Iov0(c) <= Sub(head, position[c])
  BY <1>1, <1>2, ConstAssumption, SMT DEF Iov0, Sub, Least, Size
<1>4. Iov0(c) + Iov1(c) = Sub(head, position[c])
  BY <1>1, <1>3, ConstAssumption, SMT DEF Iov1, Sub, Add, Size
<1>5. n \in 0..SizeMod
  BY <1>1, <1>4, ConstAssumption, SMT DEF Sub, Size
<1> QED
  BY <1>1, <1>4, <1>5, SizeClosed

\* The clients still to visit are clients, and outside flush() and write() no
\* client is: without the second part cleanup() might leave one behind.
NoneLeft == pc \notin {"flushing", "writing"} => todo = {}

LEMMA NoneLeftStep == TypeOK /\ NoneLeft /\ [Next]_vars => NoneLeft'
BY DEF NoneLeft, Next, Loop, AcceptNone, Accept, ReadDone, ReadSome, FlushBegin,
  FlushClient, FlushSkip, FlushWrite, FlushReset, FlushNothing, FlushEnd,
  WriteSkip, WriteDrain, WriteEnd, Cleanup, Shutdown, Environment, UartReceive,
  PeerConnect, PeerSend, PeerEnd, vars, serverVars, loopVars, envVars

\* Every step keeps the types.
LEMMA TypeStep == TypeOK /\ NoneLeft /\ [Next]_vars => TypeOK'
<1> SUFFICES ASSUME TypeOK, NoneLeft, [Next]_vars
             PROVE  TypeOK'
  OBVIOUS
<1> USE DEF TypeOK, serverVars, envVars
<1>1. CASE AcceptNone
  BY <1>1, ConstAssumption DEF AcceptNone, Passes
<1>2. ASSUME NEW c \in Clients, Accept(c) PROVE TypeOK'
  <2>1. Cardinality(clients') \in Nat
    BY <1>2, CountType DEF Accept
  <2> QED
    BY <1>2, <2>1, ConstAssumption DEF Accept, Passes, NetStates
<1>3. CASE ReadDone
  BY <1>3 DEF ReadDone, Passes
<1>4. CASE ReadSome
  BY <1>4, ReadType DEF ReadSome
<1>5. CASE FlushBegin
  BY <1>5 DEF FlushBegin, Passes
<1>6. ASSUME NEW c \in Clients, FlushClient(c) PROVE TypeOK'
  <2>1. CASE FlushSkip(c)
    BY <2>1 DEF FlushSkip
  <2>2. ASSUME NEW n \in 1..(Iov0(c) + Iov1(c)), FlushWrite(c, n) PROVE TypeOK'
    <3>1. Add(position[c], n) \in Size
      BY WriteType
    <3>2. position' \in [Clients -> Size]
      BY <2>2, <3>1 DEF FlushWrite
    <3>3. tail' \in Size
      BY <2>2, <3>2 DEF FlushWrite, KeepForClient, Least
    <3> QED
      BY <2>2, <3>2, <3>3 DEF FlushWrite
  <2>3. CASE FlushReset(c)
    BY <2>3 DEF FlushReset
  <2>4. CASE FlushNothing(c)
    BY <2>4 DEF FlushNothing, KeepForClient, Least
  <2> QED
    BY <1>6, <2>1, <2>2, <2>3, <2>4 DEF FlushClient
<1>7. CASE FlushEnd
  BY <1>7 DEF FlushEnd, Passes
<1>8. ASSUME NEW c \in Clients, WriteSkip(c) \/ WriteDrain(c) PROVE TypeOK'
  <2>1. CASE WriteSkip(c)
    BY <2>1 DEF WriteSkip
  <2>2. CASE WriteDrain(c)
    <3>1. PICK left \in Unread(c) : inq' = [inq EXCEPT ![c] = left]
      BY <2>2 DEF WriteDrain
    <3>2. left \in 0..MaxIn
      BY <3>1, ConstAssumption DEF Unread
    <3> QED
      BY <2>2, <3>1, <3>2 DEF WriteDrain
  <2> QED
    BY <1>8, <2>1, <2>2
<1>9. CASE WriteEnd
  BY <1>9 DEF WriteEnd, Passes
<1>10. CASE Cleanup
  <2>1. Cardinality(clients \ disconnected) \in Nat
    BY CountType
  <2> QED
    BY <1>10, <2>1, ConstAssumption
       DEF Cleanup, PublishAfterCleanup, Passes, NetStates, NoneLeft
<1>11. CASE Shutdown
  BY <1>11 DEF Shutdown, Passes, NetStates
<1>12. CASE Environment
  <2>1. CASE UartReceive
    BY <2>1, ConstAssumption DEF UartReceive, loopVars
  <2>2. ASSUME NEW c \in Clients, PeerConnect(c) PROVE TypeOK'
    BY <2>2 DEF PeerConnect, loopVars, NetStates
  <2>3. ASSUME NEW c \in Clients, PeerSend(c) PROVE TypeOK'
    BY <2>3, ConstAssumption DEF PeerSend, loopVars
  <2>4. ASSUME NEW c \in Clients, NEW how \in {"fin", "rst", "dead"}, PeerEnd(c, how)
        PROVE  TypeOK'
    BY <2>4 DEF PeerEnd, loopVars, NetStates
  <2> QED
    BY <1>12, <2>1, <2>2, <2>3, <2>4 DEF Environment
<1>13. CASE UNCHANGED vars
  BY <1>13 DEF vars
<1> QED
  BY <1>1, <1>2, <1>3, <1>4, <1>5, <1>6, <1>7, <1>8, <1>9, <1>10, <1>11, <1>12, <1>13
     DEF Next, Loop

LEMMA TypeInit == Init => TypeOK /\ NoneLeft
BY ConstAssumption, SMT DEF Init, TypeOK, Size, Passes, NetStates, NoneLeft

\* Positions stay size_t, the clients visited and marked stay among the
\* connected ones, and the slots filled stay inside the ring.
THEOREM TypeCorrect == Spec => []TypeOK
BY TypeInit, TypeStep, NoneLeftStep, PTL DEF Spec

-----------------------------------------------------------------------------
(* The ring and the positions, while they do not wrap.                     *)

\* No more bytes than size_t can count: 4 GiB of alarm events.
NoWrap == MaxBytes < SizeMod

\* Every byte the UART received is in the stream or waits in the driver.
Counted == head + avail = received

\* The ring holds the last BufSize bytes of the stream, each in its slot.
RingHolds ==
  \A k \in Nat : head - BufSize <= k /\ k < head => buf[BufIndex(k)] = k

TailBehind == tail <= head /\ head - tail <= BufSize

PositionBehind == \A c \in clients : position[c] <= head

\* A client may be lapped at most by a whole ring, and the tail stays behind it
\* except while flush() recomputes the tail and has not come to it.
Held ==
  \A c \in clients \ disconnected :
    /\ head - position[c] <= BufSize
    /\ tail <= position[c] \/ (pc = "flushing" /\ c \in todo)

\* Only flush() and write() mark clients, and cleanup() follows them.
NoneMarked == pc \in {"accept", "read", "flush", "down"} => disconnected = {}

IInv ==
  /\ TypeOK
  /\ NoneLeft
  /\ Counted
  /\ RingHolds
  /\ TailBehind
  /\ PositionBehind
  /\ Held
  /\ NoneMarked

\* Without a wrap, positions are numbers and size_t arithmetic is arithmetic.
LEMMA Numbers ==
  ASSUME NoWrap, IInv
  PROVE  /\ head \in Nat /\ tail \in Nat /\ avail \in Nat /\ received \in Nat
         /\ MaxBytes \in Nat /\ SizeMod \in Nat /\ BufSize \in Nat \ {0}
         /\ BufSize < SizeMod /\ MaxBytes < SizeMod
         /\ head + avail = received /\ received <= MaxBytes
         /\ tail <= head /\ head - tail <= BufSize
         /\ \A c \in Clients : position[c] \in Nat
BY ConstAssumption, SMT
   DEF NoWrap, IInv, TypeOK, Counted, TailBehind, Size

\* read(), one iteration: n bytes move from the driver to the head of the ring;
\* a full ring gives up as many slots, and moves the clients it laps.
LEMMA ReadEffect ==
  ASSUME NoWrap, IInv, ReadSome
  PROVE  \E n \in 1..avail :
           /\ n <= BufAhead(head)
           /\ head' = head + n /\ avail' = avail - n /\ buf' = Fill(head, n)
           /\ tail' \in Nat /\ tail' <= head /\ head' - tail' <= BufSize
           /\ \/ tail' = tail /\ position' = position
              \/ /\ head - tail = BufSize
                 /\ tail' = Least(head, head + avail - BufSize)
                 /\ position' = Dropped(tail')
<1> DEFINE full  == Free = 0
           free  == IF full THEN Least(avail, BufSize) ELSE Free
           tail2 == IF full THEN Add(tail, free) ELSE tail
           n     == Least(avail, Least(BufAhead(head), free))
<1>1. /\ tail' = tail2
      /\ position' = IF full THEN Dropped(tail2) ELSE position
      /\ buf' = Fill(head, n)
      /\ head' = Add(head, n) /\ avail' = avail - n /\ avail > 0
  BY DEF ReadSome
<1>2. BufAhead(head) \in 1..BufSize
  BY Numbers, IndexRange
<1>3. Free = BufSize - (head - tail) /\ Free \in Nat
  BY Numbers, SMT DEF Free, Sub
<1>4. CASE full
  <2>1. free = Least(avail, BufSize) /\ head - tail = BufSize
    <3>1. Free = 0
      BY <1>4
    <3>2. free = Least(avail, BufSize)
      BY <1>4
    <3> HIDE DEF full, free, tail2, n
    <3> QED
      BY <3>1, <3>2, <1>3, Numbers, SMT
  <2>2. free \in 1..avail /\ free <= BufSize
    BY <2>1, <1>1, Numbers, SMT DEF Least
  <2>3. tail2 = tail + free
    BY <2>1, <2>2, <1>4, Numbers, SMT DEF Add
  <2>4. tail2 = Least(head, head + avail - BufSize)
    BY <2>1, <2>3, Numbers, SMT DEF Least
  <2>5. position' = Dropped(tail')
    BY <1>1, <1>4
  <2> HIDE DEF full, free, tail2
  <2>6. n \in 1..avail /\ n <= BufAhead(head) /\ n <= free
    BY <2>2, <1>2, Numbers, SMT DEF Least
  <2> HIDE DEF n
  <2>7. head' = head + n
    BY <1>1, <2>6, Numbers, SMT DEF Add
  <2>8. tail' \in Nat /\ tail' <= head /\ head' - tail' <= BufSize
    BY <1>1, <2>1, <2>2, <2>3, <2>6, <2>7, Numbers, SMT
  <2> QED
    BY <1>1, <2>1, <2>4, <2>5, <2>6, <2>7, <2>8
<1>5. CASE ~full
  <2>1. free = BufSize - (head - tail) /\ free \in 1..BufSize
    BY <1>3, <1>5, Numbers, SMT
  <2>2. tail' = tail /\ position' = position
    BY <1>1, <1>5
  <2> HIDE DEF full, free, tail2
  <2>3. n \in 1..avail /\ n <= BufAhead(head) /\ n <= free
    BY <2>1, <1>1, <1>2, Numbers, SMT DEF Least
  <2> HIDE DEF n
  <2>4. head' = head + n
    BY <1>1, <2>3, Numbers, SMT DEF Add
  <2>5. tail' \in Nat /\ tail' <= head /\ head' - tail' <= BufSize
    BY <2>1, <2>2, <2>3, <2>4, Numbers, SMT
  <2> QED
    BY <1>1, <2>2, <2>3, <2>4, <2>5
<1> QED
  BY <1>4, <1>5

\* Storing n bytes at the head of a ring that has n slots ahead keeps the last
\* BufSize bytes of the stream in the ring.
LEMMA FillHolds ==
  ASSUME NoWrap, IInv, NEW n \in 1..avail, n <= BufAhead(head),
         NEW k \in Nat, head + n - BufSize <= k, k < head + n
  PROVE  Fill(head, n)[BufIndex(k)] = k
<1>1. /\ BufIndex(head) \in 0..(BufSize - 1) /\ BufIndex(k) \in 0..(BufSize - 1)
      /\ BufAhead(head) = BufSize - BufIndex(head)
  BY Numbers, IndexRange
<1>2. CASE head <= k
  <2> DEFINE m == k - head
  <2>1. m \in Nat /\ m < n /\ m < BufAhead(head) /\ head + m = k
    BY <1>1, <1>2, Numbers, SMT
  <2> HIDE DEF m
  <2>2. BufIndex(head + m) = BufIndex(head) + m
    BY <2>1, Numbers, IndexStep
  <2>3. BufIndex(k) \in BufIndex(head)..(BufIndex(head) + n - 1)
    BY <1>1, <2>1, <2>2, Numbers, SMT
  <2>4. Add(head, BufIndex(k) - BufIndex(head)) = k
    BY <1>1, <2>1, <2>2, Numbers, SMT DEF Add
  <2> QED
    BY <1>1, <2>3, <2>4 DEF Fill
<1>3. CASE k < head
  <2>1. BufIndex(k) \notin BufIndex(head)..(BufIndex(head) + n - 1)
    <3> SUFFICES ASSUME BufIndex(k) \in BufIndex(head)..(BufIndex(head) + n - 1)
                 PROVE  FALSE
      OBVIOUS
    <3> DEFINE m == BufIndex(k) - BufIndex(head)
    <3>1. m \in Nat /\ m < n /\ m < BufAhead(head) /\ BufIndex(head) + m = BufIndex(k)
      BY <1>1, Numbers, SMT
    <3> HIDE DEF m
    <3>2. BufIndex(head + m) = BufIndex(k)
      BY <3>1, Numbers, IndexStep
    <3>3. head + m \in Nat /\ k <= head + m /\ (head + m) - k < BufSize
      BY <1>3, <3>1, Numbers, SMT
    <3>4. k = head + m
      BY <3>2, <3>3, IndexUnique
    <3> QED
      BY <1>3, <3>1, <3>4, Numbers, SMT
  <2>2. Fill(head, n)[BufIndex(k)] = buf[BufIndex(k)]
    BY <1>1, <2>1 DEF Fill
  <2>3. head - BufSize <= k
    BY Numbers, SMT
  <2> QED
    BY <1>3, <2>2, <2>3 DEF IInv, RingHolds
<1> QED
  BY <1>2, <1>3, Numbers, SMT

\* The scatter write of flush() hands over the stream from the client's position
\* on, across the end of the ring.
LEMMA ChunkIsStream ==
  ASSUME NoWrap, IInv, NEW c \in clients \ disconnected,
         NEW n \in 1..(Iov0(c) + Iov1(c))
  PROVE  /\ Iov0(c) + Iov1(c) = head - position[c]
         /\ Add(position[c], n) = position[c] + n
         /\ Chunk(c, n) = [i \in 1..n |-> position[c] + i - 1]
<1> DEFINE p == position[c]
<1>1. c \in Clients /\ c \in clients
  BY DEF IInv, TypeOK
<1>2. p \in Nat /\ p <= head /\ head - p <= BufSize
  BY <1>1, Numbers DEF IInv, PositionBehind, Held
<1>3. Sub(head, p) = head - p
  BY <1>2, Numbers, SMT DEF Sub
<1>4. Iov0(c) + Iov1(c) = head - p
  BY <1>1, <1>3, WriteType DEF IInv
<1>5. BufAhead(p) \in 1..BufSize /\ Iov0(c) = Least(head - p, BufAhead(p))
  BY <1>2, <1>3, IndexRange DEF Iov0
<1>6. Add(p, n) = p + n
  BY <1>2, <1>4, Numbers, SMT DEF Add
<1>7. ASSUME NEW i \in 1..n
      PROVE  (IF i <= Iov0(c) THEN buf[BufIndex(p) + i - 1]
                              ELSE buf[i - 1 - Iov0(c)]) = p + i - 1
  <2> DEFINE k == p + i - 1
  <2>1. k \in Nat /\ head - BufSize <= k /\ k < head
    BY <1>2, <1>4, Numbers, SMT
  <2> HIDE DEF k
  <2>2. buf[BufIndex(k)] = k
    BY <2>1 DEF IInv, RingHolds
  <2>3. CASE i <= Iov0(c)
    <3>1. i - 1 \in Nat /\ i - 1 < BufAhead(p)
      BY <1>2, <1>5, <2>3, Numbers, SMT DEF Least
    <3>2. BufIndex(p + (i - 1)) = BufIndex(p) + (i - 1)
      BY <1>2, <3>1, IndexStep
    <3>3. BufIndex(p) \in Nat
      BY <1>2, IndexRange, Numbers, SMT
    <3>4. p + (i - 1) = k /\ BufIndex(p) + (i - 1) = BufIndex(p) + i - 1
      BY <1>2, <3>3, SMT DEF k
    <3> QED
      BY <2>2, <2>3, <3>2, <3>4 DEF k
  <2>4. CASE ~(i <= Iov0(c))
    <3> DEFINE m == i - 1 - Iov0(c)
    <3>1. m \in 0..(BufSize - 1) /\ p + BufAhead(p) + m = k
      BY <1>2, <1>4, <1>5, <2>4, Numbers, SMT DEF Least, k
    <3> HIDE DEF m
    <3>2. BufIndex(k) = m
      BY <1>2, <3>1, IndexWrap
    <3> QED
      BY <2>2, <2>4, <3>2 DEF k, m
  <2> QED
    BY <2>3, <2>4
<1> QED
  BY <1>4, <1>6, <1>7 DEF Chunk

-----------------------------------------------------------------------------
(* The invariant is inductive.                                             *)

LEMMA InvInit == Init => IInv
<1> SUFFICES ASSUME Init
             PROVE  IInv
  OBVIOUS
<1>1. TypeOK /\ NoneLeft
  BY TypeInit
<1>2. RingHolds
  BY ConstAssumption, SMT DEF Init, RingHolds
<1>3. Counted /\ TailBehind /\ PositionBehind /\ Held /\ NoneMarked
  BY ConstAssumption, SMT
     DEF Init, Counted, TailBehind, PositionBehind, Held, NoneMarked
<1> QED
  BY <1>1, <1>2, <1>3 DEF IInv

\* The steps that touch neither the ring nor a position.
LEMMA RingUntouched ==
  ASSUME IInv, UNCHANGED <<head, buf>>
  PROVE  RingHolds'
BY DEF IInv, RingHolds, BufIndex

LEMMA InvRead == ASSUME NoWrap, IInv, ReadSome
                 PROVE  Counted' /\ RingHolds' /\ TailBehind' /\ PositionBehind' /\ Held' /\ NoneMarked'
<1>1. PICK n \in 1..avail :
        /\ n <= BufAhead(head)
        /\ head' = head + n /\ avail' = avail - n /\ buf' = Fill(head, n)
        /\ tail' \in Nat /\ tail' <= head /\ head' - tail' <= BufSize
        /\ \/ tail' = tail /\ position' = position
           \/ /\ head - tail = BufSize
              /\ tail' = Least(head, head + avail - BufSize)
              /\ position' = Dropped(tail')
  BY ReadEffect
<1>2. UNCHANGED <<clients, disconnected, received, pc, todo>> /\ pc = "read"
  BY DEF ReadSome
<1>3. disconnected = {}
  BY <1>2 DEF IInv, NoneMarked
<1>4. Counted'
  BY <1>1, <1>2, Numbers, SMT DEF Counted
<1>5. RingHolds'
  <2> SUFFICES ASSUME NEW k \in Nat, head' - BufSize <= k, k < head'
               PROVE  buf'[BufIndex(k)] = k
    BY DEF RingHolds, BufIndex
  <2>1. head' = head + n /\ n <= BufAhead(head) /\ buf' = Fill(head, n)
    BY <1>1
  <2>2. head + n - BufSize <= k /\ k < head + n
    BY <2>1, Numbers, SMT
  <2>3. Fill(head, n)[BufIndex(k)] = k
    BY <2>1, <2>2, FillHolds
  <2> QED
    BY <2>1, <2>3
<1>6. TailBehind'
  BY <1>1, Numbers, SMT DEF TailBehind
<1>7. ASSUME NEW c \in clients
      PROVE  position'[c] <= head' /\ tail' <= position'[c]
  <2>1. c \in Clients /\ position[c] \in Nat /\ position[c] <= head /\ tail <= position[c]
    BY <1>2, <1>3, Numbers DEF IInv, TypeOK, PositionBehind, Held
  <2>2. CASE position' = position /\ tail' = tail
    BY <1>1, <2>1, <2>2, Numbers, SMT
  <2>3. CASE position' = Dropped(tail')
    <3>1. position'[c] = IF position[c] < tail' THEN tail' ELSE position[c]
      BY <2>1, <2>3 DEF Dropped
    <3> QED
      BY <1>1, <2>1, <3>1, Numbers, SMT
  <2> QED
    BY <1>1, <2>2, <2>3
<1>8. PositionBehind'
  BY <1>2, <1>7 DEF PositionBehind
<1>9. Held'
  <2> SUFFICES ASSUME NEW c \in clients
               PROVE  head' - position'[c] <= BufSize /\ tail' <= position'[c]
    BY <1>2, <1>3 DEF Held
  <2>1. position'[c] \in Nat
    <3>1. c \in Clients /\ position[c] \in Nat
      BY Numbers DEF IInv, TypeOK
    <3> QED
      BY <1>1, <3>1 DEF Dropped
  <2> QED
    BY <1>1, <1>7, <2>1, Numbers, SMT
<1>10. NoneMarked'
  BY <1>2, <1>3 DEF NoneMarked
<1> QED
  BY <1>4, <1>5, <1>6, <1>8, <1>9, <1>10

\* flush(), one client: positions grow towards the head, and the tail goes
\* behind every client visited.
LEMMA InvFlush ==
  ASSUME NoWrap, IInv, NEW c \in Clients, FlushClient(c)
  PROVE  Counted' /\ RingHolds' /\ TailBehind' /\ PositionBehind' /\ Held' /\ NoneMarked'
<1>1. /\ UNCHANGED <<head, buf, clients, pc, avail, received>>
      /\ pc = "flushing" /\ todo' = todo \ {c} /\ c \in todo /\ c \in clients
  BY DEF FlushClient, FlushSkip, FlushWrite, FlushReset, FlushNothing, serverVars,
     envVars, IInv, TypeOK
<1>2. Counted' /\ RingHolds' /\ NoneMarked'
  BY <1>1, RingUntouched DEF IInv, Counted, NoneMarked
<1>3. \A d \in clients : d \in Clients /\ position[d] \in Nat /\ position[d] <= head
  BY Numbers DEF IInv, TypeOK, PositionBehind
<1>4. /\ \A d \in clients \ disconnected : head - position[d] <= BufSize
      /\ \A d \in clients \ disconnected : tail <= position[d] \/ d \in todo
  BY DEF IInv, Held
<1>5. CASE FlushSkip(c) \/ FlushReset(c)
  <2>1. UNCHANGED <<tail, position>> /\ disconnected \subseteq disconnected'
    BY <1>5 DEF FlushSkip, FlushReset, serverVars
  <2>2. c \in disconnected' \/ tail <= position[c]
    BY <1>5, Numbers DEF FlushSkip, FlushReset, serverVars
  <2>3. TailBehind' /\ PositionBehind'
    BY <1>1, <2>1 DEF IInv, TailBehind, PositionBehind
  <2>4. Held'
    BY <1>1, <1>4, <2>1, <2>2 DEF Held
  <2> QED
    BY <1>2, <2>3, <2>4
<1>6. ASSUME NEW p \in Nat, p <= head, head - p <= BufSize,
             tail' = Least(tail, p), position[c] <= p,
             position' = [position EXCEPT ![c] = p],
             UNCHANGED disconnected
      PROVE  TailBehind' /\ PositionBehind' /\ Held'
  <2>1. /\ tail' \in Nat /\ tail' <= tail /\ tail' <= p
        /\ tail' <= head /\ head - tail' <= BufSize
    BY <1>6, Numbers, SMT DEF Least
  <2>2. TailBehind'
    BY <1>1, <2>1 DEF TailBehind
  <2>3. \A d \in clients : position'[d] = IF d = c THEN p ELSE position[d]
    BY <1>3, <1>6 DEF IInv, TypeOK
  <2>4. PositionBehind'
    BY <1>1, <1>3, <1>6, <2>3 DEF PositionBehind
  <2>5. Held'
    <3> SUFFICES ASSUME NEW d \in clients \ disconnected
                 PROVE  /\ head - position'[d] <= BufSize
                        /\ tail' <= position'[d] \/ (d \in todo /\ d # c)
      BY <1>1, <1>6 DEF Held
    <3>1. CASE d = c
      BY <1>6, <2>1, <2>3, <3>1
    <3>2. CASE d # c
      BY <1>3, <1>4, <2>1, <2>3, <3>2, Numbers, SMT
    <3> QED
      BY <3>1, <3>2
  <2> QED
    BY <2>2, <2>4, <2>5
<1>7. ASSUME NEW n \in 1..(Iov0(c) + Iov1(c)), FlushWrite(c, n)
      PROVE  TailBehind' /\ PositionBehind' /\ Held'
  <2> DEFINE p == position[c] + n
  <2>1. c \in clients \ disconnected
    BY <1>1, <1>7 DEF FlushWrite
  <2>2. Iov0(c) + Iov1(c) = head - position[c] /\ Add(position[c], n) = p
    BY <2>1, ChunkIsStream
  <2>3. p \in Nat /\ p <= head /\ head - p <= BufSize /\ position[c] <= p
    BY <1>1, <1>3, <1>4, <2>1, <2>2, Numbers, SMT
  <2>4. position' = [position EXCEPT ![c] = p]
    BY <1>7, <2>2 DEF FlushWrite
  <2>5. position'[c] = p
    BY <2>4 DEF IInv, TypeOK
  <2>6. tail' = Least(tail, p) /\ UNCHANGED disconnected
    BY <1>7, <2>5 DEF FlushWrite, KeepForClient
  <2> HIDE DEF p
  <2> QED
    BY <1>6, <2>3, <2>4, <2>6
<1>8. CASE FlushNothing(c)
  <2>1. c \in clients \ disconnected
    BY <1>1, <1>8 DEF FlushNothing
  <2>2. /\ tail' = Least(tail, position[c]) /\ UNCHANGED disconnected
        /\ position' = [position EXCEPT ![c] = position[c]]
    BY <1>8 DEF FlushNothing, KeepForClient, IInv, TypeOK
  <2>3. /\ position[c] \in Nat /\ position[c] <= head /\ head - position[c] <= BufSize
        /\ position[c] <= position[c]
    BY <1>3, <1>4, <2>1, Numbers, SMT
  <2>4. TailBehind' /\ PositionBehind' /\ Held'
    BY <1>6, <2>2, <2>3
  <2> QED
    BY <1>2, <2>4
<1> QED
  BY <1>2, <1>5, <1>7, <1>8 DEF FlushClient

\* All other steps leave the ring and the positions of the clients alone.
LEMMA InvStep == NoWrap /\ IInv /\ [Next]_vars => IInv'
<1> SUFFICES ASSUME NoWrap, IInv, [Next]_vars
             PROVE  IInv'
  OBVIOUS
<1>1. TypeOK' /\ NoneLeft'
  BY TypeStep, NoneLeftStep DEF IInv
<1> DEFINE Rest == Counted /\ RingHolds /\ TailBehind /\ PositionBehind /\ Held /\ NoneMarked
<1> SUFFICES Rest'
  BY <1>1 DEF IInv
<1>2. ASSUME UNCHANGED <<head, tail, buf, position>>, head' + avail' = received',
             clients' \ disconnected' \subseteq clients \ disconnected,
             clients' \subseteq clients,
             pc = "flushing" => (pc' = "flushing" /\ todo' = todo) \/ todo = {},
             NoneMarked'
      PROVE  Rest'
  <2>1. Counted' /\ RingHolds' /\ TailBehind' /\ PositionBehind' /\ NoneMarked'
    BY <1>2, RingUntouched DEF IInv, Counted, TailBehind, PositionBehind
  <2>2. Held'
    BY <1>2 DEF IInv, Held
  <2> QED
    BY <2>1, <2>2
<1>3. CASE AcceptNone
  BY <1>2, <1>3 DEF AcceptNone, IInv, Counted, NoneMarked, serverVars, envVars
<1>4. ASSUME NEW c \in Clients, Accept(c) PROVE Rest'
  <2>1. /\ UNCHANGED <<head, tail, buf, disconnected, avail, received>>
        /\ pc = "accept" /\ pc' = "read" /\ disconnected = {}
        /\ clients' = clients \cup {c} /\ position' = [position EXCEPT ![c] = head]
    BY <1>4 DEF Accept, IInv, NoneMarked
  <2>2. Counted' /\ RingHolds' /\ TailBehind' /\ NoneMarked'
    BY <2>1, RingUntouched DEF IInv, Counted, TailBehind, NoneMarked
  <2>3. \A d \in clients' : d \in Clients /\ position'[d] = IF d = c THEN head ELSE position[d]
    BY <2>1 DEF IInv, TypeOK
  <2>4. PositionBehind'
    BY <2>1, <2>3, Numbers DEF IInv, PositionBehind
  <2>5. Held'
    <3> SUFFICES ASSUME NEW d \in clients'
                 PROVE  head - position'[d] <= BufSize /\ tail <= position'[d]
      BY <2>1 DEF Held
    <3>1. CASE d = c
      BY <2>3, <3>1, Numbers, SMT
    <3>2. CASE d # c
      BY <2>1, <2>3, <3>2 DEF IInv, Held
    <3> QED
      BY <3>1, <3>2
  <2> QED
    BY <2>2, <2>4, <2>5
<1>5. CASE ReadDone
  BY <1>2, <1>5 DEF ReadDone, IInv, Counted, NoneMarked, serverVars, envVars
<1>6. CASE ReadSome
  BY <1>6, InvRead
<1>7. CASE FlushBegin
  <2>1. /\ UNCHANGED <<head, buf, clients, disconnected, position, avail, received>>
        /\ tail' = head /\ todo' = clients /\ pc' = "flushing"
    BY <1>7 DEF FlushBegin, envVars
  <2>2. Counted' /\ RingHolds' /\ PositionBehind' /\ NoneMarked'
    BY <2>1, RingUntouched DEF IInv, Counted, PositionBehind, NoneMarked
  <2>3. TailBehind'
    BY <2>1, Numbers, SMT DEF TailBehind
  <2>4. Held'
    BY <2>1 DEF IInv, Held
  <2> QED
    BY <2>2, <2>3, <2>4
<1>8. ASSUME NEW c \in Clients, FlushClient(c) PROVE Rest'
  BY <1>8, InvFlush
<1>9. CASE FlushEnd
  BY <1>2, <1>9 DEF FlushEnd, IInv, Counted, NoneMarked, serverVars, envVars
<1>10. ASSUME NEW c \in Clients, WriteSkip(c) \/ WriteDrain(c) PROVE Rest'
  BY <1>2, <1>10 DEF WriteSkip, WriteDrain, IInv, Counted, NoneMarked, serverVars, envVars
<1>11. CASE WriteEnd
  BY <1>2, <1>11 DEF WriteEnd, IInv, Counted, NoneMarked, serverVars, envVars
<1>12. CASE Cleanup
  BY <1>2, <1>12 DEF Cleanup, IInv, Counted, NoneMarked
<1>13. CASE Shutdown
  BY <1>2, <1>13 DEF Shutdown, IInv, Counted, NoneMarked, serverVars
<1>14. CASE Environment
  <2>1. CASE UartReceive
    <3>1. head' + avail' = received'
      BY <2>1, Numbers, SMT DEF UartReceive, serverVars
    <3> QED
      BY <1>2, <2>1, <3>1 DEF UartReceive, IInv, NoneMarked, serverVars, loopVars
  <2>2. ASSUME NEW c \in Clients, PeerConnect(c) \/ PeerSend(c) PROVE Rest'
    BY <1>2, <2>2 DEF PeerConnect, PeerSend, IInv, Counted, NoneMarked, serverVars, loopVars
  <2>3. ASSUME NEW c \in Clients, NEW how \in {"fin", "rst", "dead"}, PeerEnd(c, how)
        PROVE  Rest'
    BY <1>2, <2>3 DEF PeerEnd, IInv, Counted, NoneMarked, serverVars, loopVars
  <2> QED
    BY <1>14, <2>1, <2>2, <2>3 DEF Environment
<1>15. CASE UNCHANGED vars
  BY <1>2, <1>15 DEF vars, IInv, Counted, NoneMarked
<1> QED
  BY <1>3, <1>4, <1>5, <1>6, <1>7, <1>8, <1>9, <1>10, <1>11, <1>12, <1>13, <1>14, <1>15
     DEF Next, Loop

THEOREM Invariance ==
  ASSUME NoWrap
  PROVE  Spec => []IInv
BY InvInit, InvStep, PTL DEF Spec

\* What is pending for a client is still in the ring, byte for byte.
THEOREM PendingCorrect ==
  ASSUME NoWrap
  PROVE  Spec => []PendingIntact
<1>1. IInv => PendingIntact
  <2> SUFFICES ASSUME IInv, NEW c \in clients \ disconnected
               PROVE  /\ position[c] <= head
                      /\ head - position[c] <= BufSize
                      /\ \A k \in position[c]..(head - 1) : buf[BufIndex(k)] = k
    BY DEF PendingIntact
  <2>1. /\ position[c] <= head /\ head - position[c] <= BufSize /\ position[c] \in Nat
        /\ \A k \in Nat : head - BufSize <= k /\ k < head => buf[BufIndex(k)] = k
    BY Numbers DEF IInv, TypeOK, PositionBehind, Held, RingHolds
  <2> QED
    BY <2>1, Numbers, SMT
<1> QED
  BY <1>1, Invariance, PTL

-----------------------------------------------------------------------------
(* The server implements SerialFanout.                                     *)

\* read() moves either nobody, or everybody to the horizon of the bytes that
\* wait, which laps nobody who could have been kept.
LEMMA ReadTakes ==
  ASSUME NoWrap, IInv, ReadSome
  PROVE  /\ \E n \in 1..avail : Fanout!Take(n)
         /\ \A c \in clients : position'[c] # position[c]
                               => head + avail - position[c] > BufSize
<1>1. PICK n \in 1..avail :
        /\ n <= BufAhead(head)
        /\ head' = head + n /\ avail' = avail - n /\ buf' = Fill(head, n)
        /\ tail' \in Nat /\ tail' <= head /\ head' - tail' <= BufSize
        /\ \/ tail' = tail /\ position' = position
           \/ /\ head - tail = BufSize
              /\ tail' = Least(head, head + avail - BufSize)
              /\ position' = Dropped(tail')
  BY ReadEffect
<1>2. UNCHANGED <<clients, sent>>
  BY DEF ReadSome
<1>3. \A c \in Clients : position[c] \in Nat
  BY Numbers
<1>4. CASE position' = position
  BY <1>1, <1>2, <1>4 DEF Fanout!Take
<1>5. CASE tail' = Least(head, head + avail - BufSize) /\ position' = Dropped(tail')
  <2>1. tail' = Fanout!Horizon
    BY <1>5 DEF Fanout!Horizon, Fanout!Least, Least
  <2>2. ASSUME NEW c \in Clients
        PROVE  (IF c \in clients /\ position[c] < tail' THEN tail' ELSE position[c])
                 = (IF c \in clients THEN Fanout!Greatest(position[c], tail') ELSE position[c])
    BY <1>1, <1>3, SMT DEF Fanout!Greatest
  <2>3. position' = [c \in Clients |-> IF c \in clients
                                        THEN Fanout!Greatest(position[c], Fanout!Horizon)
                                        ELSE position[c]]
    BY <1>5, <2>1, <2>2, Zenon DEF Dropped
  <2>4. Fanout!Take(n)
    BY <1>1, <1>2, <2>3 DEF Fanout!Take
  <2>5. ASSUME NEW c \in clients, position'[c] # position[c]
        PROVE  head + avail - position[c] > BufSize
    <3>1. c \in Clients /\ position[c] \in Nat
      BY <1>3 DEF IInv, TypeOK
    <3>2. position[c] < tail'
      BY <1>5, <2>5, <3>1, Zenon DEF Dropped
    <3> QED
      BY <1>1, <1>5, <3>1, <3>2, Numbers, SMT DEF Least
  <2> QED
    BY <2>4, <2>5
<1> QED
  BY <1>1, <1>4, <1>5

LEMMA FlushSends ==
  ASSUME NoWrap, IInv, NEW c \in Clients, NEW n \in 1..(Iov0(c) + Iov1(c)),
         FlushWrite(c, n)
  PROVE  Fanout!Send(c, n)
<1>1. c \in clients \ disconnected
  BY DEF FlushWrite, IInv, TypeOK
<1>2. /\ Iov0(c) + Iov1(c) = head - position[c]
      /\ Add(position[c], n) = position[c] + n
      /\ Chunk(c, n) = [i \in 1..n |-> position[c] + i - 1]
  BY <1>1, ChunkIsStream
<1> QED
  BY <1>1, <1>2, Zenon DEF FlushWrite, Fanout!Send, envVars

\* A slot that is being served is not in the listen backlog.
Slots == pc # "down" => \A c \in clients : net[c] \notin {"idle", "backlog"}

LEMMA SlotsStep == TypeOK /\ Slots /\ [Next]_vars => Slots'
<1> SUFFICES ASSUME TypeOK, Slots, [Next]_vars
             PROVE  Slots'
  OBVIOUS
<1>1. net \in [Clients -> NetStates] /\ clients \subseteq Clients
  BY DEF TypeOK
<1>2. ASSUME NEW c \in Clients, Accept(c) \/ FlushClient(c) \/ WriteSkip(c) \/ WriteDrain(c)
      PROVE  Slots'
  BY <1>1, <1>2 DEF Slots, Accept, FlushClient, FlushSkip, FlushWrite, FlushReset,
     FlushNothing, WriteSkip, WriteDrain, serverVars, envVars
<1>3. CASE AcceptNone \/ ReadDone \/ ReadSome \/ FlushBegin \/ FlushEnd \/ WriteEnd
  BY <1>3 DEF Slots, AcceptNone, ReadDone, ReadSome, FlushBegin, FlushEnd, WriteEnd,
     serverVars, envVars
<1>4. CASE Cleanup
  BY <1>1, <1>4 DEF Slots, Cleanup
<1>5. CASE Shutdown
  BY <1>5 DEF Slots, Shutdown
<1>6. CASE UartReceive \/ UNCHANGED vars
  BY <1>6 DEF Slots, UartReceive, vars, serverVars, loopVars
<1>7. ASSUME NEW c \in Clients, PeerConnect(c) \/ PeerSend(c)
      PROVE  Slots'
  BY <1>1, <1>7 DEF Slots, PeerConnect, PeerSend, serverVars, loopVars
<1>8. ASSUME NEW c \in Clients, NEW how \in {"fin", "rst", "dead"}, PeerEnd(c, how)
      PROVE  Slots'
  BY <1>1, <1>8 DEF Slots, PeerEnd, serverVars, loopVars
<1> QED
  BY <1>2, <1>3, <1>4, <1>5, <1>6, <1>7, <1>8 DEF Next, Loop, Environment

\* Every step of the server is a step of the fan-out or invisible to it.
LEMMA FanoutStep ==
  NoWrap /\ IInv /\ Slots /\ [Next]_vars => [Fanout!Next]_(Fanout!vars)
<1> DEFINE Hidden == UNCHANGED <<head, avail, clients, position, sent>>
<1> SUFFICES ASSUME NoWrap, IInv, Slots, [Next]_vars
             PROVE  Fanout!Next \/ Hidden
  BY DEF Fanout!vars
<1>1. clients \subseteq Clients /\ disconnected \subseteq clients
  BY DEF IInv, TypeOK
<1>2. ASSUME NEW c \in Clients, Accept(c)
      PROVE  Fanout!Next
  <2>1. c \notin clients
    BY <1>2 DEF Accept, Slots
  <2>2. Fanout!Attach(c)
    BY <1>2, <2>1 DEF Accept, Fanout!Attach
  <2> QED
    BY <2>2 DEF Fanout!Next
<1>3. CASE ReadSome
  BY <1>3, ReadTakes DEF Fanout!Next
<1>4. ASSUME NEW c \in Clients, FlushClient(c)
      PROVE  Fanout!Next \/ Hidden
  <2>1. ASSUME NEW n \in 1..(Iov0(c) + Iov1(c)), FlushWrite(c, n)
        PROVE  Fanout!Next
    <3>1. c \in clients \ disconnected /\ c \in clients
      BY <1>1, <2>1 DEF FlushWrite, IInv, TypeOK
    <3>2. n \in 1..(head - position[c])
      BY <3>1, ChunkIsStream
    <3>3. Fanout!Send(c, n)
      BY <2>1, FlushSends
    <3> QED
      BY <3>1, <3>2, <3>3 DEF Fanout!Next
  <2>2. CASE FlushSkip(c) \/ FlushReset(c) \/ FlushNothing(c)
    BY <2>2 DEF FlushSkip, FlushReset, FlushNothing, serverVars, envVars
  <2> QED
    BY <1>4, <2>1, <2>2 DEF FlushClient
<1>5. CASE Cleanup
  <2>1. Fanout!Detach(disconnected)
    BY <1>1, <1>5 DEF Cleanup, Fanout!Detach
  <2> QED
    BY <1>1, <2>1 DEF Fanout!Next
<1>6. CASE UartReceive
  <2>1. Fanout!Receive
    BY <1>6 DEF UartReceive, Fanout!Receive, serverVars, loopVars
  <2> QED
    BY <2>1 DEF Fanout!Next
<1>7. CASE AcceptNone \/ ReadDone \/ FlushBegin \/ FlushEnd \/ WriteEnd \/ Shutdown
  BY <1>7 DEF AcceptNone, ReadDone, FlushBegin, FlushEnd, WriteEnd, Shutdown,
     serverVars, envVars
<1>8. ASSUME NEW c \in Clients, WriteSkip(c) \/ WriteDrain(c) \/ PeerConnect(c) \/ PeerSend(c)
      PROVE  Hidden
  BY <1>8 DEF WriteSkip, WriteDrain, PeerConnect, PeerSend, serverVars, loopVars, envVars
<1>9. ASSUME NEW c \in Clients, NEW how \in {"fin", "rst", "dead"}, PeerEnd(c, how)
      PROVE  Hidden
  BY <1>9 DEF PeerEnd, serverVars, loopVars
<1>10. CASE UNCHANGED vars
  BY <1>10 DEF vars
<1> QED
  BY <1>2, <1>3, <1>4, <1>5, <1>6, <1>7, <1>8, <1>9, <1>10
     DEF Next, Loop, Environment

\* Each client reads the UART's one stream through its own cursor, in order and
\* without gaps but the ones SerialFanout allows.
THEOREM FanoutCorrect ==
  ASSUME NoWrap
  PROVE  Spec => ImplementsFanout
<1>1. Init => Fanout!Init /\ Slots
  BY DEF Init, Fanout!Init, Fanout!NothingSent, NothingSent, Slots
<1>2. IInv => TypeOK
  BY DEF IInv
<1> QED
  BY <1>1, <1>2, Invariance, SlotsStep, FanoutStep, PTL
     DEF Spec, ImplementsFanout, Fanout!Spec

\* No step moves a client over bytes that the ring could have kept for it.
THEOREM DropsCorrect ==
  ASSUME NoWrap
  PROVE  Spec => DropsOnlyLapped
<1> DEFINE Drops == \A c \in clients \ disconnected :
                      (pc = "read" /\ position'[c] # position[c]) =>
                         head + avail - position[c] > BufSize
<1>1. IInv /\ [Next]_vars => [Drops]_vars
  <2> SUFFICES ASSUME IInv, Next, pc = "read"
               PROVE  Drops
    BY DEF vars
  <2>1. ReadSome \/ UNCHANGED position
    BY DEF Next, Loop, Environment, AcceptNone, Accept, ReadDone, FlushBegin,
       FlushClient, FlushSkip, FlushWrite, FlushReset, FlushNothing, FlushEnd,
       WriteSkip, WriteDrain, WriteEnd, Cleanup, Shutdown, UartReceive,
       PeerConnect, PeerSend, PeerEnd, serverVars
  <2>2. CASE ReadSome
    BY <2>2, ReadTakes
  <2> QED
    BY <2>1, <2>2
<1> QED
  BY <1>1, Invariance, PTL DEF Spec, DropsOnlyLapped

-----------------------------------------------------------------------------
(* Who is counted and who leaves.                                          *)

\* The count is published with every change of the clients; a client that is
\* marked has closed, and all it sent in order has been read; no mark is left
\* from one pass to the next.
Leaving ==
  /\ sensor = Cardinality(clients)
  /\ \A c \in disconnected :
       net[c] \in {"fin", "rst", "dead"} /\ (net[c] = "fin" => inq[c] = 0)
  /\ pc \in {"accept", "read", "flush", "down"} => disconnected = {}

LEMMA LeavingStep ==
  ASSUME TypeOK, Leaving, [Next]_vars
  PROVE  Leaving'
<1> USE DEF serverVars, envVars
<1>1. CASE AcceptNone
  BY <1>1 DEF Leaving, AcceptNone
<1>2. ASSUME NEW c \in Clients, Accept(c)
      PROVE  Leaving'
  <2>1. sensor' = Cardinality(clients')
    BY <1>2 DEF Accept
  <2>2. pc' = "read" /\ disconnected' = {}
    BY <1>2 DEF Accept, Leaving
  <2> QED
    BY <2>1, <2>2 DEF Leaving
<1>3. CASE ReadDone \/ ReadSome
  BY <1>3 DEF Leaving, ReadDone, ReadSome
<1>4. CASE FlushBegin
  BY <1>4 DEF Leaving, FlushBegin
<1>5. ASSUME NEW c \in Clients, FlushClient(c)
      PROVE  Leaving'
  <2>1. CASE FlushReset(c)
    <3>1. /\ UNCHANGED <<sensor, clients, net, inq, pc>> /\ pc = "flushing"
          /\ disconnected' = disconnected \cup {c} /\ net[c] = "rst"
      BY <2>1 DEF FlushReset
    <3> QED
      BY <3>1 DEF Leaving
  <2>2. CASE UNCHANGED <<sensor, clients, net, inq, pc, disconnected>>
    BY <2>2 DEF Leaving
  <2> QED
    BY <1>5, <2>1, <2>2 DEF FlushClient, FlushSkip, FlushWrite, FlushNothing
<1>6. CASE FlushEnd \/ WriteEnd
  <2>1. UNCHANGED <<sensor, clients, net, inq, disconnected>> /\ pc' \in {"writing", "cleanup"}
    BY <1>6 DEF FlushEnd, WriteEnd
  <2> QED
    BY <2>1 DEF Leaving
<1>7. ASSUME NEW c \in Clients, WriteSkip(c)
      PROVE  Leaving'
  BY <1>7 DEF Leaving, WriteSkip
<1>8. ASSUME NEW c \in Clients, WriteDrain(c)
      PROVE  Leaving'
  <2>1. /\ UNCHANGED <<sensor, clients, net, pc>> /\ pc = "writing" /\ c \notin disconnected
        /\ disconnected' \in {disconnected, disconnected \cup {c}}
        /\ c \in disconnected' => net[c] \in {"fin", "rst"}
    BY <1>8 DEF WriteDrain, EndOfStream
  <2>2. \A d \in Clients \ {c} : inq'[d] = inq[d]
    BY <1>8 DEF WriteDrain, TypeOK
  <2>3. net[c] = "fin" => inq'[c] = 0
    BY <1>8 DEF WriteDrain, Unread, TypeOK
  <2>4. \A d \in disconnected' : net[d] \in {"fin", "rst", "dead"} /\ (net[d] = "fin" => inq'[d] = 0)
    BY <2>1, <2>2, <2>3 DEF Leaving, TypeOK
  <2> QED
    BY <2>1, <2>4 DEF Leaving
<1>9. CASE Cleanup
  <2>1. disconnected' = {} /\ clients' = clients \ disconnected
    BY <1>9 DEF Cleanup
  <2>2. sensor' = Cardinality(clients')
    BY <1>9, <2>1 DEF Cleanup, PublishAfterCleanup, Leaving
  <2> QED
    BY <2>1, <2>2 DEF Leaving
<1>10. CASE Shutdown
  <2>1. disconnected' = {} /\ UNCHANGED <<sensor, clients>>
    BY <1>10 DEF Shutdown, Leaving
  <2> QED
    BY <2>1 DEF Leaving
<1>11. CASE Environment
  <2>1. UNCHANGED <<sensor, clients, pc, disconnected>>
    BY <1>11 DEF Environment, UartReceive, PeerConnect, PeerSend, PeerEnd, loopVars
  <2>2. \A d \in disconnected : d \in Clients
    BY DEF TypeOK
  <2>3. ASSUME NEW d \in disconnected
        PROVE  net'[d] \in {"fin", "rst", "dead"} /\ (net'[d] = "fin" => inq'[d] = 0)
    <3>1. CASE UartReceive
      BY <3>1 DEF UartReceive, Leaving
    <3>2. ASSUME NEW c \in Clients, PeerConnect(c)
          PROVE  net'[d] = net[d] /\ inq' = inq
      BY <2>2, <3>2 DEF PeerConnect, TypeOK, Leaving
    <3>3. ASSUME NEW c \in Clients, PeerSend(c)
          PROVE  net' = net /\ inq'[d] = inq[d]
      BY <2>2, <3>3 DEF PeerSend, TypeOK, Leaving
    <3>4. ASSUME NEW c \in Clients, NEW how \in {"fin", "rst", "dead"}, PeerEnd(c, how)
          PROVE  net'[d] \in {net[d], "rst", "dead"} /\ inq' = inq
      BY <2>2, <3>4 DEF PeerEnd, TypeOK, Leaving
    <3> QED
      BY <1>11, <3>1, <3>2, <3>3, <3>4 DEF Environment, Leaving
  <2> QED
    BY <2>1, <2>3 DEF Leaving
<1>12. CASE UNCHANGED vars
  BY <1>12 DEF Leaving, vars
<1> QED
  BY <1>1, <1>2, <1>3, <1>4, <1>5, <1>6, <1>7, <1>8, <1>9, <1>10, <1>11, <1>12 DEF Next, Loop

\* A pass leaves no client half gone: the published count is that of those who
\* are left, and who left in order was heard out, also when positions wrap.
THEOREM CleanedUpCorrect == Spec => []CleanedUp
<1>1. Init => Leaving
  BY FS_EmptySet DEF Init, Leaving
<1>2. TypeOK /\ Leaving /\ [Next]_vars => Leaving'
  BY LeavingStep
<1>3. Leaving => CleanedUp
  BY DEF Leaving, CleanedUp, SensorCounts, OrderlyCloseDrained
<1> QED
  BY <1>1, <1>2, <1>3, TypeCorrect, PTL DEF Spec

=============================================================================
