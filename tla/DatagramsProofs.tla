-------------------------- MODULE DatagramsProofs --------------------------
(* Datagrams, for every size of the rings: the DISCO ring of the zero-copy     *)
(* path and the ring of a UDP socket, each with one end on the TCP/IP thread   *)
(* and the other on a task, lose nothing they took, repeat nothing and keep    *)
(* its order.  One invariant of a ring with a reader's place in it, Intact,    *)
(* serves both.                                                                *)
EXTENDS Datagrams, SequenceTheorems, TLAPS

Slots == 0..Size-1

\* Of what was put in the ring r, which is m datagrams, the reader at f has
\* taken d; p is 1 while a slot is filled that cannot be seen yet.
Intact(r, f, d, m, p) ==
  /\ Distance(r.tail, f) + Distance(f, r.head) = Distance(r.tail, r.head)
  /\ Holds(r, f, d)
  /\ d + Distance(f, r.head) + p = m
  /\ p = 1 => r.slot[r.head] = m /\ Distance(r.tail, r.head) < Size - 1

\* Where the readers of the two rings are.
DiscoAt == IF w = "drain" \/ (w \in {"pong", "post"} /\ back = "drain") THEN tail ELSE disco.tail
SocketAt == IF app = "copied" \/ x \in {"call", "last"} THEN After(ring.tail) ELSE ring.tail
Pending(place) == IF t = place THEN 1 ELSE 0

\* The receive task and microlink_udp_recv never hold a datagram at once.
OneReader ==
  /\ x # "last" /\ (x = "call" => sock.cb /\ ~IsEmpty(ring))
  /\ app = "copied" => ~sock.cb /\ ~IsEmpty(ring)

DiscoKept == Intact(disco, DiscoAt, done["disco"], made["disco"], Pending("publish"))
SocketKept == Intact(ring, SocketAt, done["data"], made["data"], Pending("head"))

IInv == TypeOK /\ OneReader /\ DiscoKept /\ SocketKept
-----------------------------------------------------------------------------
(* Arithmetic of a ring's places *)

LEMMA Wraps ==
  ASSUME NEW a \in 0..2 * Size - 1
  PROVE  a % Size = IF a < Size THEN a ELSE a - Size
  <1> DEFINE q == a \div Size
             r == a % Size
  <1>1. Size \in Nat /\ Size > 1 BY DatagramsAssumption
  <1>2. r \in 0..Size-1 /\ q \in Nat /\ a = Size * q + r BY <1>1, SMT
  <1> HIDE DEF q, r
  <1>3. q < 2
    <2>1. ASSUME q >= 2 PROVE FALSE
      <3>1. Size * q >= Size * 2 BY <1>1, <1>2, <2>1, SMT
      <3> QED BY <1>1, <1>2, <3>1
    <2> QED BY <1>2, <2>1
  <1>4. CASE q = 0 BY <1>1, <1>2, <1>4 DEF r
  <1>5. CASE q = 1 BY <1>1, <1>2, <1>5 DEF r
  <1> QED BY <1>2, <1>3, <1>4, <1>5

LEMMA SizeIs == Size \in Nat /\ Size > 1
  BY DatagramsAssumption

LEMMA AfterIs ==
  ASSUME NEW a \in Slots
  PROVE  After(a) \in Slots /\ After(a) = IF a + 1 < Size THEN a + 1 ELSE 0
  <1> DEFINE c == a + 1
  <1>1. c \in 0..2 * Size - 1 BY SizeIs DEF Slots
  <1>2. After(a) = c % Size BY DEF After
  <1> HIDE DEF c
  <1>3. After(a) = IF c < Size THEN c ELSE c - Size BY <1>1, <1>2, Wraps
  <1> QED BY <1>3, SizeIs DEF Slots, c

LEMMA DistanceIs ==
  ASSUME NEW a \in Slots, NEW b \in Slots
  PROVE  Distance(a, b) \in Slots /\ Distance(a, b) = IF a <= b THEN b - a ELSE b - a + Size
  <1> DEFINE c == b + Size - a
  <1>1. c \in 0..2 * Size - 1 BY SizeIs DEF Slots
  <1>2. Distance(a, b) = c % Size BY DEF Distance
  <1> HIDE DEF c
  <1>3. Distance(a, b) = IF c < Size THEN c ELSE c - Size BY <1>1, <1>2, Wraps
  <1> QED BY <1>3, SizeIs DEF Slots, c

LEMMA PlaceIs ==
  ASSUME NEW a \in Slots, NEW i \in Slots
  PROVE  Place(a, i) \in Slots /\ Place(a, i) = IF a + i < Size THEN a + i ELSE a + i - Size
  <1> DEFINE c == a + i
  <1>1. c \in 0..2 * Size - 1 BY SizeIs DEF Slots
  <1>2. Place(a, i) = c % Size BY DEF Place
  <1> HIDE DEF c
  <1>3. Place(a, i) = IF c < Size THEN c ELSE c - Size BY <1>1, <1>2, Wraps
  <1> QED BY <1>3, SizeIs DEF Slots, c
LEMMA AwayIs ==
  ASSUME NEW a \in Slots, NEW b \in Slots
  PROVE  /\ Distance(a, b) \in Slots /\ Distance(a, b) \in Nat /\ Distance(a, a) = 0
         /\ a # b => Distance(a, b) >= 1
         /\ Place(a, Distance(a, b)) = b
         /\ \A i \in 0..Distance(a, b)-1 : i \in Slots /\ Place(a, i) \in Slots \ {b}
  <1> DEFINE d == Distance(a, b)
  <1>1. d \in Slots /\ d = IF a <= b THEN b - a ELSE b - a + Size BY DistanceIs
  <1>2. Distance(a, a) = 0
    <2>1. Distance(a, a) = IF a <= a THEN a - a ELSE a - a + Size BY DistanceIs
    <2> QED BY <2>1 DEF Slots
  <1>3. Place(a, d) = IF a + d < Size THEN a + d ELSE a + d - Size BY <1>1, PlaceIs
  <1> HIDE DEF d
  <1>4. a # b => d >= 1 BY <1>1, SizeIs DEF Slots
  <1>5. Place(a, d) = b BY <1>1, <1>3, SizeIs DEF Slots
  <1>6. ASSUME NEW i \in 0..d-1 PROVE i \in Slots /\ Place(a, i) \in Slots \ {b}
    <2>1. i \in Slots BY <1>1, SizeIs DEF Slots
    <2>2. Place(a, i) \in Slots /\ Place(a, i) = IF a + i < Size THEN a + i ELSE a + i - Size
          BY <2>1, PlaceIs
    <2> QED BY <1>1, <2>1, <2>2, SizeIs DEF Slots
  <1>7. d \in Nat BY <1>1, SizeIs DEF Slots
  <1> QED BY <1>1, <1>2, <1>4, <1>5, <1>6, <1>7 DEF d

LEMMA NextIs ==
  ASSUME NEW a \in Slots, NEW b \in Slots, a # b
  PROVE  /\ Distance(After(a), b) = Distance(a, b) - 1
         /\ \A i \in 0..Distance(a, b)-2 : i + 1 \in 0..Distance(a, b)-1
                                           /\ Place(After(a), i) = Place(a, i + 1)
         /\ \A i \in 0..Distance(After(a), b)-1 : Place(After(a), i) # a
  <1> DEFINE d == Distance(a, b)
             c == After(a)
             e == Distance(c, b)
  <1>1. d \in Slots /\ d = IF a <= b THEN b - a ELSE b - a + Size BY DistanceIs
  <1>2. c \in Slots /\ c = IF a + 1 < Size THEN a + 1 ELSE 0 BY AfterIs
  <1>3. e \in Slots /\ e = IF c <= b THEN b - c ELSE b - c + Size BY <1>2, DistanceIs
  <1> HIDE DEF d, c, e
  <1>4. e = d - 1 BY <1>1, <1>2, <1>3, SizeIs DEF Slots
  <1>5. ASSUME NEW i \in 0..d-2
        PROVE  i + 1 \in 0..d-1 /\ Place(c, i) = Place(a, i + 1) /\ Place(c, i) # a
    <2>1. i \in Slots /\ i + 1 \in Slots BY <1>1, SizeIs DEF Slots
    <2>2. Place(c, i) = IF c + i < Size THEN c + i ELSE c + i - Size BY <1>2, <2>1, PlaceIs
    <2> DEFINE j == i + 1
    <2>3. Place(a, j) = IF a + j < Size THEN a + j ELSE a + j - Size BY <2>1, PlaceIs
    <2>4. Place(c, i) = Place(a, j) BY <1>1, <1>2, <2>1, <2>2, <2>3, SizeIs DEF Slots
    <2>5. Place(c, i) # a BY <1>1, <1>2, <2>1, <2>2, SizeIs DEF Slots
    <2> QED BY <1>1, <2>4, <2>5 DEF Slots
  <1>6. \A i \in 0..e-1 : i \in 0..d-2 BY <1>1, <1>4 DEF Slots
  <1> QED BY <1>4, <1>5, <1>6 DEF d, c, e

\* A ring is full when its head is one short of its tail; the place f between
\* them may follow the tail up to the head, and the head is moved up to that.
LEMMA BetweenIs ==
  ASSUME NEW b \in Slots, NEW f \in Slots, NEW h \in Slots,
         Distance(b, f) + Distance(f, h) = Distance(b, h)
  PROVE  /\ After(h) # b => Distance(b, h) < Size - 1
         /\ Distance(b, h) < Size - 1 =>
              /\ Distance(b, After(h)) = Distance(b, h) + 1
              /\ Distance(f, After(h)) = Distance(f, h) + 1
         /\ f # h => Distance(b, After(f)) = Distance(b, f) + 1
         /\ Distance(f, h) <= Distance(b, h)
  <1> DEFINE n == After(h)
             g == After(f)
             d1 == Distance(b, f)
             d2 == Distance(f, h)
             d3 == Distance(b, h)
             d4 == Distance(b, n)
             d5 == Distance(f, n)
             d6 == Distance(b, g)
  <1>1. n \in Slots /\ n = IF h + 1 < Size THEN h + 1 ELSE 0 BY AfterIs
  <1>2. g \in Slots /\ g = IF f + 1 < Size THEN f + 1 ELSE 0 BY AfterIs
  <1>3. d1 \in Slots /\ d1 = IF b <= f THEN f - b ELSE f - b + Size BY DistanceIs
  <1>4. d2 \in Slots /\ d2 = IF f <= h THEN h - f ELSE h - f + Size BY DistanceIs
  <1>5. d3 \in Slots /\ d3 = IF b <= h THEN h - b ELSE h - b + Size BY DistanceIs
  <1>6. d4 \in Slots /\ d4 = IF b <= n THEN n - b ELSE n - b + Size BY <1>1, DistanceIs
  <1>7. d5 \in Slots /\ d5 = IF f <= n THEN n - f ELSE n - f + Size BY <1>1, DistanceIs
  <1>8. d6 \in Slots /\ d6 = IF b <= g THEN g - b ELSE g - b + Size BY <1>2, DistanceIs
  <1>9. d1 + d2 = d3 OBVIOUS
  <1> HIDE DEF n, g, d1, d2, d3, d4, d5, d6
  <1>10. n # b => d3 < Size - 1 BY <1>1, <1>5, SizeIs DEF Slots
  <1>11. d3 < Size - 1 => d4 = d3 + 1 BY <1>1, <1>5, <1>6, SizeIs DEF Slots
  <1>12. d3 < Size - 1 => d5 = d2 + 1 BY <1>1, <1>3, <1>4, <1>5, <1>7, <1>9, SizeIs DEF Slots
  <1>13. f # h => d6 = d1 + 1 BY <1>2, <1>3, <1>4, <1>5, <1>8, <1>9, SizeIs DEF Slots
  <1>14. d2 <= d3 BY <1>3, <1>4, <1>5, <1>9 DEF Slots
  <1> QED BY <1>10, <1>11, <1>12, <1>13, <1>14 DEF n, g, d1, d2, d3, d4, d5, d6
-----------------------------------------------------------------------------
(* What each step of the two ends does to a ring *)

LEMMA FillKeeps ==
  ASSUME NEW r \in RingType, NEW f \in Slots, NEW d \in Nat, NEW m \in Nat,
         Intact(r, f, d, m, 0), ~IsFull(r)
  PROVE  Fill(r, m + 1) \in RingType /\ Intact(Fill(r, m + 1), f, d, m + 1, 1)
  <1> DEFINE s == Fill(r, m + 1)
  <1>1. r.head \in Slots /\ r.tail \in Slots BY DEF RingType, Slots
  <1>2. /\ s.head = r.head /\ s.tail = r.tail
        /\ s.slot = [r.slot EXCEPT ![r.head] = m + 1]
        /\ s \in RingType /\ r.slot \in [Slots -> Nat]
    <2>1. r.slot \in [Slots -> Nat] BY DEF RingType, Slots
    <2>2. [r.slot EXCEPT ![r.head] = m + 1] \in [Slots -> Nat] BY <1>1, <2>1
    <2>3. s = [r EXCEPT !.slot = [r.slot EXCEPT ![r.head] = m + 1]] BY DEF Fill, RingType
    <2> QED BY <1>1, <2>1, <2>2, <2>3 DEF RingType, Slots
  <1>2a. s.slot[r.head] = m + 1 /\ \A i \in Slots \ {r.head} : s.slot[i] = r.slot[i] BY <1>1, <1>2
  <1> HIDE DEF s
  <1>3. Distance(r.tail, r.head) < Size - 1 BY <1>1, BetweenIs DEF IsFull, Intact
  <1>4. Holds(s, f, d)
    <2> SUFFICES ASSUME NEW i \in 0..Distance(f, r.head)-1 PROVE s.slot[Place(f, i)] = d + 1 + i
        BY <1>2 DEF Holds
    <2>1. Place(f, i) \in Slots \ {r.head} BY <1>1, AwayIs
    <2> QED BY <1>2a, <2>1 DEF Intact, Holds
  <1>5. d + Distance(f, r.head) + 1 = m + 1
    <2>1. Distance(f, r.head) \in Slots BY <1>1, AwayIs
    <2> QED BY <2>1, SizeIs DEF Intact, Slots
  <1> QED BY <1>2, <1>2a, <1>3, <1>4, <1>5 DEF Intact, s

LEMMA PublishKeeps ==
  ASSUME NEW r \in RingType, NEW f \in Slots, NEW d \in Nat, NEW m \in Nat,
         Intact(r, f, d, m, 1)
  PROVE  Publish(r) \in RingType /\ Intact(Publish(r), f, d, m, 0)
  <1> DEFINE s == Publish(r)
             k == Distance(f, r.head)
  <1>1. r.head \in Slots /\ r.tail \in Slots BY DEF RingType, Slots
  <1>2. s.head = After(r.head) /\ s.tail = r.tail /\ s.slot = r.slot /\ s \in RingType
        BY <1>1, AfterIs DEF RingType, Publish, Slots
  <1>3. Distance(r.tail, f) + k = Distance(r.tail, r.head) /\ d + k + 1 = m
        /\ Distance(r.tail, r.head) < Size - 1 /\ r.slot[r.head] = m
        BY DEF Intact
  <1>4. Distance(r.tail, s.head) = Distance(r.tail, r.head) + 1 /\ Distance(f, s.head) = k + 1
        BY <1>1, <1>2, <1>3, BetweenIs
  <1>5. k \in Nat /\ Place(f, k) = r.head /\ Distance(r.tail, f) \in Nat
        BY <1>1, AwayIs
  <1>6. \A i \in 0..k-1 : r.slot[Place(f, i)] = d + 1 + i BY DEF Intact, Holds
  <1> HIDE DEF s, k
  <1>7. Holds(s, f, d)
    <2> SUFFICES ASSUME NEW i \in 0..k PROVE r.slot[Place(f, i)] = d + 1 + i
        BY <1>2, <1>4, <1>5 DEF Holds
    <2>1. CASE i < k BY <1>5, <1>6, <2>1
    <2>2. CASE i = k BY <1>3, <1>5, <2>2
    <2> QED BY <1>5, <2>1, <2>2
  <1>8. Distance(s.tail, f) + Distance(f, s.head) = Distance(s.tail, s.head)
        BY <1>2, <1>3, <1>4, <1>5
  <1>9. d + Distance(f, s.head) + 0 = m BY <1>3, <1>4, <1>5
  <1> QED BY <1>2, <1>7, <1>8, <1>9 DEF Intact, s

LEMMA TakeKeeps ==
  ASSUME NEW r \in RingType, NEW f \in Slots, NEW d \in Nat, NEW m \in Nat, NEW p \in {0, 1},
         Intact(r, f, d, m, p), f # r.head
  PROVE  r.slot[f] = d + 1 /\ Intact(r, After(f), r.slot[f], m, p)
  <1> DEFINE k == Distance(f, r.head)
  <1>1. r.head \in Slots /\ r.tail \in Slots BY DEF RingType, Slots
  <1>2. k \in Nat /\ k >= 1 /\ Place(f, 0) = f /\ Distance(r.tail, f) \in Nat
    <2>1. Place(f, 0) = f BY AwayIs
    <2> QED BY <1>1, <2>1, AwayIs
  <1>3. Distance(After(f), r.head) = k - 1 BY <1>1, NextIs
  <1>4. Distance(r.tail, f) + k = Distance(r.tail, r.head) /\ d + k + p = m BY DEF Intact
  <1>5. Distance(r.tail, After(f)) = Distance(r.tail, f) + 1 BY <1>1, <1>4, BetweenIs
  <1>6. \A i \in 0..k-1 : r.slot[Place(f, i)] = d + 1 + i BY DEF Intact, Holds
  <1>7. \A i \in 0..k-2 : i + 1 \in 0..k-1 /\ Place(After(f), i) = Place(f, i + 1) BY <1>1, NextIs
  <1> HIDE DEF k
  <1>8. r.slot[f] = d + 1 BY <1>2, <1>6
  <1>9. Holds(r, After(f), d + 1)
    <2> SUFFICES ASSUME NEW i \in 0..k-2 PROVE r.slot[Place(After(f), i)] = d + 1 + 1 + i
        BY <1>2, <1>3 DEF Holds
    <2>1. r.slot[Place(f, i + 1)] = d + 1 + (i + 1) BY <1>6, <1>7
    <2> QED BY <1>7, <2>1
  <1>10. Distance(r.tail, After(f)) + Distance(After(f), r.head) = Distance(r.tail, r.head)
         BY <1>2, <1>3, <1>4, <1>5
  <1>11. d + 1 + Distance(After(f), r.head) + p = m BY <1>2, <1>3, <1>4
  <1> QED BY <1>8, <1>9, <1>10, <1>11 DEF Intact

LEMMA ReleaseKeeps ==
  ASSUME NEW r \in RingType, NEW f \in Slots, NEW d \in Nat, NEW m \in Nat, NEW p \in {0, 1},
         Intact(r, f, d, m, p)
  PROVE  [r EXCEPT !.tail = f] \in RingType /\ Intact([r EXCEPT !.tail = f], f, d, m, p)
  <1> DEFINE s == [r EXCEPT !.tail = f]
  <1>1. r.head \in Slots /\ r.tail \in Slots BY DEF RingType, Slots
  <1>2. s.head = r.head /\ s.tail = f /\ s.slot = r.slot /\ s \in RingType BY <1>1 DEF RingType, Slots
  <1> HIDE DEF s
  <1>3. Distance(f, f) = 0 /\ Distance(f, r.head) \in Nat /\ Distance(r.tail, r.head) \in Nat
        BY <1>1, AwayIs
  <1>4. Distance(f, r.head) <= Distance(r.tail, r.head) BY <1>1, BetweenIs DEF Intact
  <1>5. Distance(f, f) + Distance(f, r.head) = Distance(f, r.head) BY <1>3
  <1>6. p = 1 => r.slot[r.head] = m /\ Distance(f, r.head) < Size - 1
        BY <1>3, <1>4, SizeIs DEF Intact
  <1>7. Holds(s, f, d) /\ d + Distance(f, r.head) + p = m BY <1>2 DEF Intact, Holds
  <1> QED BY <1>2, <1>5, <1>6, <1>7 DEF Intact, s

\* A slot that was read is emptied before it is given back.
LEMMA ConsumeKeeps ==
  ASSUME NEW r \in RingType, NEW d \in Nat, NEW m \in Nat, NEW p \in {0, 1},
         Intact(r, After(r.tail), d, m, p), ~IsEmpty(r)
  PROVE  Consume(r) \in RingType /\ Consume(r).tail = After(r.tail)
         /\ Intact(Consume(r), After(r.tail), d, m, p)
  <1> DEFINE s == [r EXCEPT !.slot[r.tail] = 0]
             f == After(r.tail)
  <1>1. r.head \in Slots /\ r.tail \in Slots /\ r.tail # r.head BY DEF RingType, Slots, IsEmpty
  <1>2. f \in Slots BY <1>1, AfterIs
  <1>3. /\ s.head = r.head /\ s.tail = r.tail /\ s \in RingType
        /\ \A i \in Slots \ {r.tail} : s.slot[i] = r.slot[i]
        BY <1>1 DEF RingType, Slots
  <1>4. Consume(r) = [s EXCEPT !.tail = f] BY <1>3 DEF Consume, Release
  <1>5. \A i \in 0..Distance(f, r.head)-1 : Place(f, i) \in Slots \ {r.tail}
        BY <1>1, <1>2, NextIs, AwayIs
  <1> HIDE DEF s
  <1>6. Holds(s, f, d)
    <2> SUFFICES ASSUME NEW i \in 0..Distance(f, r.head)-1 PROVE s.slot[Place(f, i)] = d + 1 + i
        BY <1>3 DEF Holds
    <2> QED BY <1>3, <1>5 DEF Intact, Holds
  <1>7. Intact(s, f, d, m, p) BY <1>1, <1>3, <1>6 DEF Intact
  <1> HIDE DEF f
  <1>8. [s EXCEPT !.tail = f] \in RingType /\ Intact([s EXCEPT !.tail = f], f, d, m, p)
        BY <1>2, <1>3, <1>7, ReleaseKeeps
  <1>9. [s EXCEPT !.tail = f].tail = f BY <1>3 DEF RingType
  <1> QED BY <1>4, <1>8, <1>9 DEF f
-----------------------------------------------------------------------------
(* One lemma for each action *)

\* The readers' places are slots.
LEMMA Types ==
  ASSUME TypeOK
  PROVE  /\ disco \in RingType /\ pool \in RingType /\ ring \in RingType
         /\ DiscoAt \in Slots /\ SocketAt \in Slots
         /\ \A k \in Kinds : made[k] \in Nat /\ done[k] \in Nat
         /\ Pending("publish") \in {0, 1} /\ Pending("head") \in {0, 1}
         /\ disco.head \in Slots /\ ring.head \in Slots /\ ring.tail \in Slots
  <1>1. disco.tail \in Slots /\ ring.tail \in Slots /\ tail \in Slots /\ disco.head \in Slots
        /\ ring.head \in Slots
        BY DEF TypeOK, RingType, Slots
  <1>2. After(ring.tail) \in Slots BY <1>1, AfterIs
  <1> QED BY <1>1, <1>2 DEF TypeOK, DiscoAt, SocketAt, Pending

LEMMA DiscoFrame ==
  ASSUME DiscoKept, UNCHANGED disco, DiscoAt' = DiscoAt, done'["disco"] = done["disco"],
         made'["disco"] = made["disco"], Pending("publish")' = Pending("publish")
  PROVE  DiscoKept'
  BY DEF DiscoKept

LEMMA SocketFrame ==
  ASSUME SocketKept, UNCHANGED ring, SocketAt' = SocketAt, done'["data"] = done["data"],
         made'["data"] = made["data"], Pending("head")' = Pending("head")
  PROVE  SocketKept'
  BY DEF SocketKept

LEMMA PostType ==
  ASSUME TypeOK, NEW m \in 0..Data, Post(m)
  PROVE  box' \in Seq(0..Data) /\ Len(box') <= MaxBox
  <1>1. box \in Seq(0..Data) /\ Len(box) <= MaxBox /\ MaxBox \in Nat
        BY DatagramsAssumption DEF TypeOK
  <1>2. CASE Len(box) < MaxBox
    <2>1. box' = Append(box, m) BY <1>2 DEF Post
    <2>2. box' \in Seq(0..Data) /\ Len(box') = Len(box) + 1 BY <1>1, <2>1, AppendProperties
    <2>3. Len(box) \in Nat BY <1>1, LenProperties
    <2> QED BY <1>1, <1>2, <2>2, <2>3
  <1>3. CASE ~(Len(box) < MaxBox) BY <1>1, <1>3 DEF Post
  <1> QED BY <1>2, <1>3

LEMMA TakeType ==
  ASSUME TypeOK, box # <<>>
  PROVE  Head(box) \in 0..Data /\ Tail(box) \in Seq(0..Data) /\ Len(Tail(box)) <= MaxBox
  <1>1. box \in Seq(0..Data) /\ Len(box) <= MaxBox /\ MaxBox \in Nat
        BY DatagramsAssumption DEF TypeOK
  <1>2. Len(box) \in Nat BY <1>1, LenProperties
  <1>3. Head(box) \in 0..Data /\ Tail(box) \in Seq(0..Data) /\ Len(Tail(box)) = Len(box) - 1
        BY <1>1, HeadTailProperties
  <1> QED BY <1>1, <1>2, <1>3

LEMMA FillPublishType ==
  ASSUME NEW r \in RingType, NEW n \in Nat
  PROVE  Publish(Fill(r, n)) \in RingType
  <1>1. r.head \in Slots /\ r.slot \in [Slots -> Nat] BY DEF RingType, Slots
  <1>2. Fill(r, n) = [r EXCEPT !.slot = [r.slot EXCEPT ![r.head] = n]] BY DEF Fill, RingType
  <1>3. Fill(r, n) \in RingType /\ Fill(r, n).head = r.head BY <1>1, <1>2 DEF RingType, Slots
  <1>4. After(r.head) \in Slots BY <1>1, AfterIs
  <1> QED BY <1>3, <1>4 DEF Publish, RingType, Slots

LEMMA ReleaseType ==
  ASSUME NEW r \in RingType
  PROVE  Release(r) \in RingType
  <1>1. r.tail \in Slots BY DEF RingType, Slots
  <1>2. After(r.tail) \in Slots BY <1>1, AfterIs
  <1> QED BY <1>2 DEF Release, RingType, Slots

LEMMA DirectInStep == IInv /\ DirectIn => IInv'
  <1> SUFFICES ASSUME IInv, DirectIn PROVE IInv' OBVIOUS
  <1> USE DEF IInv, DirectIn, network, manager, socket, Arrives
  <1>1. TypeOK'
    <2>1. Data \in 0..Data BY SizeIs DEF Data
    <2>2. box' \in Seq(0..Data) /\ Len(box') <= MaxBox BY <2>1, PostType DEF TypeOK
    <2> QED BY <2>1, <2>2, SizeIs, DatagramsAssumption DEF TypeOK, Kinds
  <1>2. OneReader' BY DEF OneReader, TypeOK
  <1>3. DiscoKept'
    <2>1. UNCHANGED disco /\ DiscoAt' = DiscoAt BY DEF DiscoAt, TypeOK
    <2>2. done'["disco"] = done["disco"] /\ made'["disco"] = made["disco"] BY DEF TypeOK, Kinds
    <2>3. Pending("publish")' = Pending("publish") BY DEF Pending
    <2> QED BY <2>1, <2>2, <2>3, DiscoFrame
  <1>4. SocketKept'
    <2>1. UNCHANGED ring /\ SocketAt' = SocketAt BY DEF SocketAt, TypeOK
    <2>2. done'["data"] = done["data"] /\ made'["data"] = made["data"] BY DEF TypeOK, Kinds
    <2>3. Pending("head")' = Pending("head") BY DEF Pending
    <2> QED BY <2>1, <2>2, <2>3, SocketFrame
  <1> QED BY <1>1, <1>2, <1>3, <1>4

LEMMA NetIoStep == IInv /\ NetIo => IInv'
  <1> SUFFICES ASSUME IInv, NetIo PROVE IInv' OBVIOUS
  <1> USE DEF IInv, NetIo, network, manager, socket, Arrives, Route
  <1>1. TypeOK'
    <2>1. Depth \in Nat /\ MaxIn \in Nat BY DatagramsAssumption
    <2>2. left' \in 0..MaxIn BY <2>1 DEF TypeOK
    <2>3. dq' \in 0..Depth /\ wq' \in 0..Depth BY <2>1 DEF TypeOK
    <2> QED BY <2>2, <2>3 DEF TypeOK
  <1>2. OneReader' BY DEF OneReader, TypeOK
  <1>3. DiscoKept'
    <2>1. UNCHANGED disco /\ DiscoAt' = DiscoAt BY DEF DiscoAt, TypeOK
    <2>2. done'["disco"] = done["disco"] /\ made'["disco"] = made["disco"] BY DEF TypeOK, Kinds
    <2>3. Pending("publish")' = Pending("publish") BY DEF Pending
    <2> QED BY <2>1, <2>2, <2>3, DiscoFrame
  <1>4. SocketKept'
    <2>1. UNCHANGED ring /\ SocketAt' = SocketAt BY DEF SocketAt, TypeOK
    <2>2. done'["data"] = done["data"] /\ made'["data"] = made["data"] BY DEF TypeOK, Kinds
    <2>3. Pending("head")' = Pending("head") BY DEF Pending
    <2> QED BY <2>1, <2>2, <2>3, SocketFrame
  <1> QED BY <1>1, <1>2, <1>3, <1>4

LEMMA RelayStep == IInv /\ Relay => IInv'
  <1> SUFFICES ASSUME IInv, Relay PROVE IInv' OBVIOUS
  <1> USE DEF IInv, Relay, network, manager, socket, Arrives, Route
  <1>1. TypeOK'
    <2>1. Depth \in Nat /\ MaxIn \in Nat BY DatagramsAssumption
    <2>2. left' \in 0..MaxIn BY <2>1 DEF TypeOK
    <2>3. dq' \in 0..Depth /\ wq' \in 0..Depth BY <2>1 DEF TypeOK
    <2> QED BY <2>2, <2>3 DEF TypeOK
  <1>2. OneReader' BY DEF OneReader, TypeOK
  <1>3. DiscoKept'
    <2>1. UNCHANGED disco /\ DiscoAt' = DiscoAt BY DEF DiscoAt, TypeOK
    <2>2. done'["disco"] = done["disco"] /\ made'["disco"] = made["disco"] BY DEF TypeOK, Kinds
    <2>3. Pending("publish")' = Pending("publish") BY DEF Pending
    <2> QED BY <2>1, <2>2, <2>3, DiscoFrame
  <1>4. SocketKept'
    <2>1. UNCHANGED ring /\ SocketAt' = SocketAt BY DEF SocketAt, TypeOK
    <2>2. done'["data"] = done["data"] /\ made'["data"] = made["data"] BY DEF TypeOK, Kinds
    <2>3. Pending("head")' = Pending("head") BY DEF Pending
    <2> QED BY <2>1, <2>2, <2>3, SocketFrame
  <1> QED BY <1>1, <1>2, <1>3, <1>4

LEMMA RingBeginStep == IInv /\ RingBegin => IInv'
  <1> SUFFICES ASSUME IInv, RingBegin PROVE IInv' OBVIOUS
  <1> USE DEF IInv, RingBegin, network, manager, socket
  <1>1. TypeOK'
    <2>1. disco.tail \in 0..Size-1 BY DEF TypeOK, RingType
    <2> QED BY <2>1, SizeIs, DatagramsAssumption DEF TypeOK, Kinds
  <1>2. OneReader' BY DEF OneReader, TypeOK
  <1>3. DiscoKept'
    <2>1. UNCHANGED disco /\ DiscoAt' = DiscoAt BY DEF DiscoAt, TypeOK
    <2>2. done'["disco"] = done["disco"] /\ made'["disco"] = made["disco"] BY DEF TypeOK, Kinds
    <2>3. Pending("publish")' = Pending("publish") BY DEF Pending
    <2> QED BY <2>1, <2>2, <2>3, DiscoFrame
  <1>4. SocketKept'
    <2>1. UNCHANGED ring /\ SocketAt' = SocketAt BY DEF SocketAt, TypeOK
    <2>2. done'["data"] = done["data"] /\ made'["data"] = made["data"] BY DEF TypeOK, Kinds
    <2>3. Pending("head")' = Pending("head") BY DEF Pending
    <2> QED BY <2>1, <2>2, <2>3, SocketFrame
  <1> QED BY <1>1, <1>2, <1>3, <1>4

LEMMA DrainQueueStep == IInv /\ DrainQueue => IInv'
  <1> SUFFICES ASSUME IInv, DrainQueue PROVE IInv' OBVIOUS
  <1> USE DEF IInv, DrainQueue, network, manager, socket, MayAnswer
  <1>1. TypeOK'
    <2> QED BY SizeIs, DatagramsAssumption DEF TypeOK, Kinds
  <1>2. OneReader' BY DEF OneReader, TypeOK
  <1>3. DiscoKept'
    <2>1. UNCHANGED disco /\ DiscoAt' = DiscoAt BY DEF DiscoAt, TypeOK
    <2>2. done'["disco"] = done["disco"] /\ made'["disco"] = made["disco"] BY DEF TypeOK, Kinds
    <2>3. Pending("publish")' = Pending("publish") BY DEF Pending
    <2> QED BY <2>1, <2>2, <2>3, DiscoFrame
  <1>4. SocketKept'
    <2>1. UNCHANGED ring /\ SocketAt' = SocketAt BY DEF SocketAt, TypeOK
    <2>2. done'["data"] = done["data"] /\ made'["data"] = made["data"] BY DEF TypeOK, Kinds
    <2>3. Pending("head")' = Pending("head") BY DEF Pending
    <2> QED BY <2>1, <2>2, <2>3, SocketFrame
  <1> QED BY <1>1, <1>2, <1>3, <1>4

LEMMA PongStep == IInv /\ Pong => IInv'
  <1> SUFFICES ASSUME IInv, Pong PROVE IInv' OBVIOUS
  <1> USE DEF IInv, Pong, network, manager, socket, Made, Number
  <1>1. TypeOK'
    <2>1. ~IsFull(pool) => Publish(Fill(pool, made["tx"] + 1)) \in RingType BY FillPublishType DEF TypeOK, Kinds
    <2> QED BY <2>1, SizeIs, DatagramsAssumption DEF TypeOK, Kinds
  <1>2. OneReader' BY DEF OneReader, TypeOK
  <1>3. DiscoKept'
    <2>1. UNCHANGED disco /\ DiscoAt' = DiscoAt BY DEF DiscoAt, TypeOK
    <2>2. done'["disco"] = done["disco"] /\ made'["disco"] = made["disco"] BY DEF TypeOK, Kinds
    <2>3. Pending("publish")' = Pending("publish") BY DEF Pending
    <2> QED BY <2>1, <2>2, <2>3, DiscoFrame
  <1>4. SocketKept'
    <2>1. UNCHANGED ring /\ SocketAt' = SocketAt BY DEF SocketAt, TypeOK
    <2>2. done'["data"] = done["data"] /\ made'["data"] = made["data"] BY DEF TypeOK, Kinds
    <2>3. Pending("head")' = Pending("head") BY DEF Pending
    <2> QED BY <2>1, <2>2, <2>3, SocketFrame
  <1> QED BY <1>1, <1>2, <1>3, <1>4

LEMMA PostSendStep == IInv /\ PostSend => IInv'
  <1> SUFFICES ASSUME IInv, PostSend PROVE IInv' OBVIOUS
  <1> USE DEF IInv, PostSend, network, manager, socket
  <1>1. TypeOK'
    <2>1. (pool.head + Size - 1) % Size \in 0..Data
      <3> DEFINE c == pool.head + Size - 1
      <3>0. pool.head \in 0..Size-1 BY DEF TypeOK, RingType
      <3>1. c \in 0..2 * Size - 1 BY <3>0, SizeIs
      <3> HIDE DEF c
      <3>2. c % Size = IF c < Size THEN c ELSE c - Size BY <3>1, Wraps
      <3>3. c % Size \in 0..Data BY <3>1, <3>2, SizeIs DEF Data
      <3> QED BY <3>3 DEF c
    <2>2. box' \in Seq(0..Data) /\ Len(box') <= MaxBox BY <2>1, PostType
    <2> QED BY <2>1, <2>2, SizeIs, DatagramsAssumption DEF TypeOK, Kinds
  <1>2. OneReader' BY DEF OneReader, TypeOK
  <1>3. DiscoKept'
    <2>1. UNCHANGED disco /\ DiscoAt' = DiscoAt BY DEF DiscoAt, TypeOK
    <2>2. done'["disco"] = done["disco"] /\ made'["disco"] = made["disco"] BY DEF TypeOK, Kinds
    <2>3. Pending("publish")' = Pending("publish") BY DEF Pending
    <2> QED BY <2>1, <2>2, <2>3, DiscoFrame
  <1>4. SocketKept'
    <2>1. UNCHANGED ring /\ SocketAt' = SocketAt BY DEF SocketAt, TypeOK
    <2>2. done'["data"] = done["data"] /\ made'["data"] = made["data"] BY DEF TypeOK, Kinds
    <2>3. Pending("head")' = Pending("head") BY DEF Pending
    <2> QED BY <2>1, <2>2, <2>3, SocketFrame
  <1> QED BY <1>1, <1>2, <1>3, <1>4

LEMMA DrainWgStep == IInv /\ DrainWg => IInv'
  <1> SUFFICES ASSUME IInv, DrainWg PROVE IInv' OBVIOUS
  <1> USE DEF IInv, DrainWg, network, manager, socket
  <1>1. TypeOK'
    <2>1. Data \in 0..Data BY SizeIs DEF Data
    <2>2. box' \in Seq(0..Data) /\ Len(box') <= MaxBox
      <3>1. CASE Post(Data) BY <2>1, <3>1, PostType
      <3>2. CASE UNCHANGED box BY <3>2 DEF TypeOK
      <3> QED BY <3>1, <3>2
    <2>3. wq' \in 0..Depth BY DatagramsAssumption DEF TypeOK
    <2>4. w' \in {"ring", "wg"} OBVIOUS
    <2> QED BY <2>2, <2>3, <2>4 DEF TypeOK
  <1>2. OneReader' BY DEF OneReader, TypeOK
  <1>3. DiscoKept'
    <2>1. UNCHANGED disco /\ DiscoAt' = DiscoAt BY DEF DiscoAt, TypeOK
    <2>2. done'["disco"] = done["disco"] /\ made'["disco"] = made["disco"] BY DEF TypeOK, Kinds
    <2>3. Pending("publish")' = Pending("publish") BY DEF Pending
    <2> QED BY <2>1, <2>2, <2>3, DiscoFrame
  <1>4. SocketKept'
    <2>1. UNCHANGED ring /\ SocketAt' = SocketAt BY DEF SocketAt, TypeOK
    <2>2. done'["data"] = done["data"] /\ made'["data"] = made["data"] BY DEF TypeOK, Kinds
    <2>3. Pending("head")' = Pending("head") BY DEF Pending
    <2> QED BY <2>1, <2>2, <2>3, SocketFrame
  <1> QED BY <1>1, <1>2, <1>3, <1>4

LEMMA SendStep == IInv /\ Send => IInv'
  <1> SUFFICES ASSUME IInv, Send PROVE IInv' OBVIOUS
  <1> USE DEF IInv, Send, network, manager, socket, Takes
  <1>1. TypeOK'
    <2>1. Head(box) \in 0..Size-1 /\ Tail(box) \in Seq(0..Data) /\ Len(Tail(box)) <= MaxBox BY TakeType, SizeIs DEF Data
    <2>2. pool.slot[Head(box)] \in Nat BY <2>1 DEF TypeOK, RingType
    <2> QED BY <2>1, <2>2, SizeIs, DatagramsAssumption DEF TypeOK, Kinds
  <1>2. OneReader' BY DEF OneReader, TypeOK
  <1>3. DiscoKept'
    <2>1. UNCHANGED disco /\ DiscoAt' = DiscoAt BY DEF DiscoAt, TypeOK
    <2>2. done'["disco"] = done["disco"] /\ made'["disco"] = made["disco"] BY DEF TypeOK, Kinds
    <2>3. Pending("publish")' = Pending("publish") BY DEF Pending
    <2> QED BY <2>1, <2>2, <2>3, DiscoFrame
  <1>4. SocketKept'
    <2>1. UNCHANGED ring /\ SocketAt' = SocketAt BY DEF SocketAt, TypeOK
    <2>2. done'["data"] = done["data"] /\ made'["data"] = made["data"] BY DEF TypeOK, Kinds
    <2>3. Pending("head")' = Pending("head") BY DEF Pending
    <2> QED BY <2>1, <2>2, <2>3, SocketFrame
  <1> QED BY <1>1, <1>2, <1>3, <1>4

LEMMA SentStep == IInv /\ Sent => IInv'
  <1> SUFFICES ASSUME IInv, Sent PROVE IInv' OBVIOUS
  <1> USE DEF IInv, Sent, network, manager, socket
  <1>1. TypeOK'
    <2>1. Release(pool) \in RingType BY ReleaseType DEF TypeOK
    <2> QED BY <2>1, SizeIs, DatagramsAssumption DEF TypeOK, Kinds
  <1>2. OneReader' BY DEF OneReader, TypeOK
  <1>3. DiscoKept'
    <2>1. UNCHANGED disco /\ DiscoAt' = DiscoAt BY DEF DiscoAt, TypeOK
    <2>2. done'["disco"] = done["disco"] /\ made'["disco"] = made["disco"] BY DEF TypeOK, Kinds
    <2>3. Pending("publish")' = Pending("publish") BY DEF Pending
    <2> QED BY <2>1, <2>2, <2>3, DiscoFrame
  <1>4. SocketKept'
    <2>1. UNCHANGED ring /\ SocketAt' = SocketAt BY DEF SocketAt, TypeOK
    <2>2. done'["data"] = done["data"] /\ made'["data"] = made["data"] BY DEF TypeOK, Kinds
    <2>3. Pending("head")' = Pending("head") BY DEF Pending
    <2> QED BY <2>1, <2>2, <2>3, SocketFrame
  <1> QED BY <1>1, <1>2, <1>3, <1>4

LEMMA DataGiveStep == IInv /\ DataGive => IInv'
  <1> SUFFICES ASSUME IInv, DataGive PROVE IInv' OBVIOUS
  <1> USE DEF IInv, DataGive, network, manager, socket, Give
  <1>1. TypeOK'
    <2>1. sock.sem \in 0..Size /\ sock \in [sem : 0..Size, cb : BOOLEAN, running : BOOLEAN] BY DEF TypeOK
    <2>2. sock' \in [sem : 0..Size, cb : BOOLEAN, running : BOOLEAN] BY <2>1, SizeIs
    <2> QED BY <2>2 DEF TypeOK
  <1>2. OneReader' BY DEF OneReader, TypeOK
  <1>3. DiscoKept'
    <2>1. UNCHANGED disco /\ DiscoAt' = DiscoAt BY DEF DiscoAt, TypeOK
    <2>2. done'["disco"] = done["disco"] /\ made'["disco"] = made["disco"] BY DEF TypeOK, Kinds
    <2>3. Pending("publish")' = Pending("publish") BY DEF Pending
    <2> QED BY <2>1, <2>2, <2>3, DiscoFrame
  <1>4. SocketKept'
    <2>1. UNCHANGED ring /\ SocketAt' = SocketAt BY DEF SocketAt, TypeOK
    <2>2. done'["data"] = done["data"] /\ made'["data"] = made["data"] BY DEF TypeOK, Kinds
    <2>3. Pending("head")' = Pending("head") BY DEF Pending
    <2> QED BY <2>1, <2>2, <2>3, SocketFrame
  <1> QED BY <1>1, <1>2, <1>3, <1>4

LEMMA RxWaitStep == IInv /\ RxWait => IInv'
  <1> SUFFICES ASSUME IInv, RxWait PROVE IInv' OBVIOUS
  <1> USE DEF IInv, RxWait, network, manager, socket
  <1>1. TypeOK'
    <2>1. sock.sem \in 0..Size /\ sock \in [sem : 0..Size, cb : BOOLEAN, running : BOOLEAN] BY DEF TypeOK
    <2>2. sock' \in [sem : 0..Size, cb : BOOLEAN, running : BOOLEAN] BY <2>1, SizeIs
    <2> QED BY <2>2 DEF TypeOK
  <1>2. OneReader' BY DEF OneReader, TypeOK
  <1>3. DiscoKept'
    <2>1. UNCHANGED disco /\ DiscoAt' = DiscoAt BY DEF DiscoAt, TypeOK
    <2>2. done'["disco"] = done["disco"] /\ made'["disco"] = made["disco"] BY DEF TypeOK, Kinds
    <2>3. Pending("publish")' = Pending("publish") BY DEF Pending
    <2> QED BY <2>1, <2>2, <2>3, DiscoFrame
  <1>4. SocketKept'
    <2>1. UNCHANGED ring /\ SocketAt' = SocketAt BY DEF SocketAt, TypeOK
    <2>2. done'["data"] = done["data"] /\ made'["data"] = made["data"] BY DEF TypeOK, Kinds
    <2>3. Pending("head")' = Pending("head") BY DEF Pending
    <2> QED BY <2>1, <2>2, <2>3, SocketFrame
  <1> QED BY <1>1, <1>2, <1>3, <1>4

LEMMA SetCallbackStep == IInv /\ SetCallback => IInv'
  <1> SUFFICES ASSUME IInv, SetCallback PROVE IInv' OBVIOUS
  <1> USE DEF IInv, SetCallback, network, manager, socket
  <1>1. TypeOK'
    <2> QED BY SizeIs, DatagramsAssumption DEF TypeOK, Kinds
  <1>2. OneReader' BY DEF OneReader, TypeOK
  <1>3. DiscoKept'
    <2>1. UNCHANGED disco /\ DiscoAt' = DiscoAt BY DEF DiscoAt, TypeOK
    <2>2. done'["disco"] = done["disco"] /\ made'["disco"] = made["disco"] BY DEF TypeOK, Kinds
    <2>3. Pending("publish")' = Pending("publish") BY DEF Pending
    <2> QED BY <2>1, <2>2, <2>3, DiscoFrame
  <1>4. SocketKept'
    <2>1. UNCHANGED ring /\ SocketAt' = SocketAt BY DEF SocketAt, TypeOK
    <2>2. done'["data"] = done["data"] /\ made'["data"] = made["data"] BY DEF TypeOK, Kinds
    <2>3. Pending("head")' = Pending("head") BY DEF Pending
    <2> QED BY <2>1, <2>2, <2>3, SocketFrame
  <1> QED BY <1>1, <1>2, <1>3, <1>4

LEMMA CloseStep == IInv /\ Close => IInv'
  <1> SUFFICES ASSUME IInv, Close PROVE IInv' OBVIOUS
  <1> USE DEF IInv, Close, network, manager, socket, Give
  <1>1. TypeOK'
    <2>1. sock.sem \in 0..Size /\ sock \in [sem : 0..Size, cb : BOOLEAN, running : BOOLEAN] BY DEF TypeOK
    <2> DEFINE n == IF sock.sem < Size THEN sock.sem + 1 ELSE sock.sem
    <2>1a. n \in 0..Size BY <2>1, SizeIs
    <2>1b. sock' = [[sock EXCEPT !.running = FALSE] EXCEPT !.sem = n] BY <2>1
    <2> HIDE DEF n
    <2>2. sock' \in [sem : 0..Size, cb : BOOLEAN, running : BOOLEAN] BY <2>1, <2>1a, <2>1b
    <2> QED BY <2>2 DEF TypeOK
  <1>2. OneReader' BY DEF OneReader, TypeOK
  <1>3. DiscoKept'
    <2>1. UNCHANGED disco /\ DiscoAt' = DiscoAt BY DEF DiscoAt, TypeOK
    <2>2. done'["disco"] = done["disco"] /\ made'["disco"] = made["disco"] BY DEF TypeOK, Kinds
    <2>3. Pending("publish")' = Pending("publish") BY DEF Pending
    <2> QED BY <2>1, <2>2, <2>3, DiscoFrame
  <1>4. SocketKept'
    <2>1. UNCHANGED ring /\ SocketAt' = SocketAt BY DEF SocketAt, TypeOK
    <2>2. done'["data"] = done["data"] /\ made'["data"] = made["data"] BY DEF TypeOK, Kinds
    <2>3. Pending("head")' = Pending("head") BY DEF Pending
    <2> QED BY <2>1, <2>2, <2>3, SocketFrame
  <1> QED BY <1>1, <1>2, <1>3, <1>4

LEMMA ClosedStep == IInv /\ Closed => IInv'
  <1> SUFFICES ASSUME IInv, Closed PROVE IInv' OBVIOUS
  <1> USE DEF IInv, Closed, network, manager, socket
  <1>1. TypeOK'
    <2> QED BY SizeIs, DatagramsAssumption DEF TypeOK, Kinds
  <1>2. OneReader' BY DEF OneReader, TypeOK
  <1>3. DiscoKept'
    <2>1. UNCHANGED disco /\ DiscoAt' = DiscoAt BY DEF DiscoAt, TypeOK
    <2>2. done'["disco"] = done["disco"] /\ made'["disco"] = made["disco"] BY DEF TypeOK, Kinds
    <2>3. Pending("publish")' = Pending("publish") BY DEF Pending
    <2> QED BY <2>1, <2>2, <2>3, DiscoFrame
  <1>4. SocketKept'
    <2>1. UNCHANGED ring /\ SocketAt' = SocketAt BY DEF SocketAt, TypeOK
    <2>2. done'["data"] = done["data"] /\ made'["data"] = made["data"] BY DEF TypeOK, Kinds
    <2>3. Pending("head")' = Pending("head") BY DEF Pending
    <2> QED BY <2>1, <2>2, <2>3, SocketFrame
  <1> QED BY <1>1, <1>2, <1>3, <1>4

LEMMA DiscoInStep == IInv /\ DiscoIn => IInv'
  <1> SUFFICES ASSUME IInv, DiscoIn PROVE IInv' OBVIOUS
  <1> USE DEF IInv
  <1>1. disco \in RingType /\ DiscoAt \in Slots /\ done["disco"] \in Nat /\ made["disco"] \in Nat
        BY Types DEF Kinds
  <1>2. left' \in 0..MaxIn
    <2>1. left > 0 /\ left' = left - 1 BY DEF DiscoIn, Arrives
    <2>2. left \in 0..MaxIn /\ MaxIn \in Nat BY DatagramsAssumption DEF TypeOK
    <2> QED BY <2>1, <2>2
  <1>3. UNCHANGED <<zc, box, manager, pool, socket, done>> /\ t = "idle" BY DEF DiscoIn, Arrives
  <1>4. OneReader' BY <1>3 DEF OneReader, socket
  <1>5. CASE IsFull(disco)
    <2>1. UNCHANGED <<disco, made, t>> BY <1>5 DEF DiscoIn
    <2>2. TypeOK' BY <1>2, <1>3, <2>1 DEF TypeOK, manager, socket
    <2>3. DiscoAt' = DiscoAt BY <1>3, <2>1 DEF DiscoAt, manager
    <2>4. DiscoKept' BY <1>3, <2>1, <2>3 DEF DiscoKept, Pending
    <2>5. SocketAt' = SocketAt BY <1>3 DEF SocketAt, socket
    <2>6. SocketKept' BY <1>3, <2>1, <2>5 DEF SocketKept, Pending, socket
    <2> QED BY <1>4, <2>2, <2>4, <2>6
  <1>6. CASE ~IsFull(disco)
    <2>1. disco' = Fill(disco, made["disco"] + 1) /\ t' = "publish"
          /\ made' = [made EXCEPT !["disco"] = @ + 1]
          BY <1>6 DEF DiscoIn, Made, Number
    <2>2. made' \in [Kinds -> Nat] /\ made'["disco"] = made["disco"] + 1 /\ made'["data"] = made["data"]
          BY <2>1 DEF TypeOK, Kinds
    <2>3. Intact(disco, DiscoAt, done["disco"], made["disco"], 0) BY <1>3 DEF DiscoKept, Pending
    <2>4. disco' \in RingType /\ Intact(disco', DiscoAt, done["disco"], made["disco"] + 1, 1)
          BY <1>1, <1>6, <2>1, <2>3, FillKeeps
    <2>5. TypeOK' BY <1>2, <1>3, <2>1, <2>2, <2>4 DEF TypeOK, manager, socket
    <2>6. DiscoAt' = DiscoAt BY <1>3, <2>1 DEF DiscoAt, manager, Fill
    <2>7. DiscoKept' BY <1>3, <2>1, <2>2, <2>4, <2>6 DEF DiscoKept, Pending
    <2>8. SocketAt' = SocketAt BY <1>3 DEF SocketAt, socket
    <2>9. SocketKept' BY <1>3, <2>1, <2>2, <2>8 DEF SocketKept, Pending, socket
    <2> QED BY <1>4, <2>5, <2>7, <2>9
  <1> QED BY <1>5, <1>6

LEMMA DiscoPublishStep == IInv /\ DiscoPublish => IInv'
  <1> SUFFICES ASSUME IInv, DiscoPublish PROVE IInv' OBVIOUS
  <1> USE DEF IInv
  <1>1. disco \in RingType /\ DiscoAt \in Slots /\ done["disco"] \in Nat /\ made["disco"] \in Nat
        BY Types DEF Kinds
  <1>2. UNCHANGED <<network, box, manager, pool, socket, made, done>> /\ t = "publish" /\ t' = "idle"
        /\ disco' = Publish(disco)
        BY DEF DiscoPublish
  <1>3. Intact(disco, DiscoAt, done["disco"], made["disco"], 1) BY <1>2 DEF DiscoKept, Pending
  <1>4. disco' \in RingType /\ Intact(disco', DiscoAt, done["disco"], made["disco"], 0)
        BY <1>1, <1>2, <1>3, PublishKeeps
  <1>5. TypeOK' BY <1>2, <1>4 DEF TypeOK, network, manager, socket
  <1>6. OneReader' BY <1>2 DEF OneReader, socket
  <1>7. DiscoAt' = DiscoAt BY <1>2 DEF DiscoAt, manager, Publish
  <1>8. DiscoKept' BY <1>2, <1>4, <1>7 DEF DiscoKept, Pending
  <1>9. SocketAt' = SocketAt BY <1>2 DEF SocketAt, socket
  <1>10. SocketKept' BY <1>2, <1>9 DEF SocketKept, Pending, socket
  <1> QED BY <1>5, <1>6, <1>8, <1>10

LEMMA DrainStep == IInv /\ Drain => IInv'
  <1> SUFFICES ASSUME IInv, Drain PROVE IInv' OBVIOUS
  <1> USE DEF IInv
  <1>1. /\ disco \in RingType /\ disco.head \in Slots /\ done["disco"] \in Nat /\ made["disco"] \in Nat
        /\ Pending("publish") \in {0, 1}
        BY Types DEF Kinds
  <1>2. UNCHANGED <<network, t, box, dq, wq, pool, socket, made>> /\ w = "drain" BY DEF Drain
  <1>3. tail \in Slots /\ DiscoAt = tail BY <1>2 DEF DiscoAt, TypeOK, Slots
  <1>4. Intact(disco, tail, done["disco"], made["disco"], Pending("publish")) BY <1>3 DEF DiscoKept
  <1>5. OneReader' BY <1>2 DEF OneReader, socket
  <1>6. SocketAt' = SocketAt BY <1>2 DEF SocketAt, socket
  <1>7. CASE tail = disco.head
    <2>1. disco' = [disco EXCEPT !.tail = tail] /\ w' = "queue" /\ UNCHANGED <<back, tail, done>>
          BY <1>7 DEF Drain
    <2>2. disco' \in RingType /\ Intact(disco', tail, done["disco"], made["disco"], Pending("publish"))
          BY <1>1, <1>3, <1>4, <2>1, ReleaseKeeps
    <2>3. DiscoAt' = tail BY <1>1, <2>1 DEF DiscoAt, RingType
    <2>4. DiscoKept' BY <1>2, <2>1, <2>2, <2>3 DEF DiscoKept, Pending
    <2>5. SocketKept' BY <1>2, <1>6, <2>1 DEF SocketKept, Pending, socket
    <2>6. TypeOK' BY <1>2, <2>1, <2>2 DEF TypeOK, network, socket
    <2> QED BY <1>5, <2>4, <2>5, <2>6
  <1>8. CASE tail # disco.head
    <2>1. /\ done' = [done EXCEPT !["disco"] = disco.slot[tail]] /\ tail' = After(tail)
          /\ UNCHANGED disco /\ w' \in {"drain", "pong"} /\ back' \in {"drain", "queue"}
          /\ w' = "pong" => back' = "drain"
          BY <1>8 DEF Drain, Takes, MayAnswer, TypeOK
    <2>2. disco.slot[tail] = done["disco"] + 1
          /\ Intact(disco, After(tail), disco.slot[tail], made["disco"], Pending("publish"))
          BY <1>1, <1>3, <1>4, <1>8, TakeKeeps
    <2>3. done' \in [Kinds -> Nat] /\ done'["disco"] = disco.slot[tail] /\ done'["data"] = done["data"]
          BY <1>1, <2>1, <2>2 DEF TypeOK, Kinds
    <2>4. tail' \in Slots BY <1>3, <2>1, AfterIs
    <2>5. DiscoAt' = After(tail) BY <2>1 DEF DiscoAt
    <2>6. DiscoKept' BY <1>2, <2>1, <2>2, <2>3, <2>5 DEF DiscoKept, Pending
    <2>7. SocketKept' BY <1>2, <1>6, <2>3 DEF SocketKept, Pending, socket
    <2>8. TypeOK' BY <1>2, <2>1, <2>3, <2>4 DEF TypeOK, network, socket, Slots
    <2> QED BY <1>5, <2>6, <2>7, <2>8
  <1> QED BY <1>7, <1>8

LEMMA DataInStep == IInv /\ DataIn => IInv'
  <1> SUFFICES ASSUME IInv, DataIn PROVE IInv' OBVIOUS
  <1> USE DEF IInv
  <1>1. ring \in RingType /\ SocketAt \in Slots /\ done["data"] \in Nat /\ made["data"] \in Nat
        BY Types DEF Kinds
  <1>2. /\ UNCHANGED <<network, manager, disco, pool, sock, x, app, done>>
        /\ t = "idle" /\ box # <<>> /\ box' = Tail(box)
        BY DEF DataIn
  <1>3. box' \in Seq(0..Data) /\ Len(box') <= MaxBox BY <1>2, TakeType
  <1>4. DiscoAt' = DiscoAt BY <1>2 DEF DiscoAt, manager
  <1>5. CASE app \in {"closing", "closed"} \/ IsFull(ring)
    <2>1. UNCHANGED <<ring, made, t>> BY <1>5 DEF DataIn
    <2>2. TypeOK' BY <1>2, <1>3, <2>1 DEF TypeOK, network, manager
    <2>3. SocketAt' = SocketAt BY <1>2, <2>1 DEF SocketAt
    <2>4. SocketKept' BY <1>2, <2>1, <2>3 DEF SocketKept, Pending
    <2>5. DiscoKept' BY <1>2, <1>4, <2>1 DEF DiscoKept, Pending
    <2>6. OneReader' BY <1>2, <2>1 DEF OneReader
    <2> QED BY <2>2, <2>4, <2>5, <2>6
  <1>6. CASE ~(app \in {"closing", "closed"} \/ IsFull(ring))
    <2>1. ring' = Fill(ring, made["data"] + 1) /\ t' = "head" /\ made' = [made EXCEPT !["data"] = @ + 1]
          BY <1>6 DEF DataIn, Made, Number
    <2>2. made' \in [Kinds -> Nat] /\ made'["data"] = made["data"] + 1 /\ made'["disco"] = made["disco"]
          BY <2>1 DEF TypeOK, Kinds
    <2>3. Intact(ring, SocketAt, done["data"], made["data"], 0) BY <1>2 DEF SocketKept, Pending
    <2>4. ring' \in RingType /\ Intact(ring', SocketAt, done["data"], made["data"] + 1, 1)
          BY <1>1, <1>6, <2>1, <2>3, FillKeeps
    <2>5. ring'.tail = ring.tail /\ ring'.head = ring.head BY <1>1, <2>1 DEF Fill, RingType
    <2>6. TypeOK' BY <1>2, <1>3, <2>1, <2>2, <2>4 DEF TypeOK, network, manager
    <2>7. SocketAt' = SocketAt BY <1>2, <2>5 DEF SocketAt
    <2>8. SocketKept' BY <1>2, <2>1, <2>2, <2>4, <2>7 DEF SocketKept, Pending
    <2>9. DiscoKept' BY <1>2, <1>4, <2>1, <2>2 DEF DiscoKept, Pending
    <2>10. OneReader' BY <1>2, <2>5 DEF OneReader, IsEmpty
    <2> QED BY <2>6, <2>8, <2>9, <2>10
  <1> QED BY <1>5, <1>6

LEMMA DataPublishStep == IInv /\ DataPublish => IInv'
  <1> SUFFICES ASSUME IInv, DataPublish PROVE IInv' OBVIOUS
  <1> USE DEF IInv
  <1>1. /\ ring \in RingType /\ SocketAt \in Slots /\ ring.head \in Slots /\ ring.tail \in Slots
        /\ done["data"] \in Nat /\ made["data"] \in Nat
        BY Types DEF Kinds
  <1>2. /\ UNCHANGED <<network, box, manager, disco, pool, sock, x, app, made, done>>
        /\ t = "head" /\ t' = "give" /\ ring' = Publish(ring)
        BY DEF DataPublish
  <1>3. Intact(ring, SocketAt, done["data"], made["data"], 1) BY <1>2 DEF SocketKept, Pending
  <1>4. ring' \in RingType /\ Intact(ring', SocketAt, done["data"], made["data"], 0)
        BY <1>1, <1>2, <1>3, PublishKeeps
  <1>5. ring'.tail = ring.tail /\ ring'.head = After(ring.head) BY <1>1, <1>2 DEF Publish, RingType
  <1>6. ~IsEmpty(ring')
    <2>1. Distance(ring.tail, ring.head) < Size - 1 BY <1>3 DEF Intact
    <2>2. Distance(ring.tail, ring.head) \in Nat BY <1>1, AwayIs
    <2>3. Distance(ring.tail, After(ring.head)) = Distance(ring.tail, ring.head) + 1
      <3>1. Distance(ring.tail, SocketAt) + Distance(SocketAt, ring.head) = Distance(ring.tail, ring.head)
            BY <1>3 DEF Intact
      <3> QED BY <1>1, <2>1, <3>1, BetweenIs
    <2>4. Distance(ring.tail, ring.tail) = 0 BY <1>1, AwayIs
    <2>5. After(ring.head) # ring.tail BY <2>2, <2>3, <2>4
    <2> QED BY <1>5, <2>5 DEF IsEmpty
  <1>7. TypeOK' BY <1>2, <1>4 DEF TypeOK, network, manager
  <1>8. SocketAt' = SocketAt BY <1>2, <1>5 DEF SocketAt
  <1>9. SocketKept' BY <1>2, <1>4, <1>8 DEF SocketKept, Pending
  <1>10. DiscoAt' = DiscoAt BY <1>2 DEF DiscoAt, manager
  <1>11. DiscoKept' BY <1>2, <1>10 DEF DiscoKept, Pending
  <1>12. OneReader' BY <1>2, <1>6 DEF OneReader
  <1> QED BY <1>7, <1>9, <1>11, <1>12

\* Either reader takes the datagram at the tail.
LEMMA SocketTakes ==
  ASSUME IInv, ~IsEmpty(ring), app # "copied", x # "call",
         Takes("data", ring.slot[ring.tail]), UNCHANGED <<ring, t, made>>,
         app' = "copied" \/ x' = "call"
  PROVE  done' \in [Kinds -> Nat] /\ done'["disco"] = done["disco"] /\ SocketKept'
  <1> USE DEF IInv
  <1>1. /\ ring \in RingType /\ ring.head \in Slots /\ ring.tail \in Slots /\ done["data"] \in Nat
        /\ made["data"] \in Nat /\ Pending("head") \in {0, 1}
        BY Types DEF Kinds
  <1>2. Intact(ring, ring.tail, done["data"], made["data"], Pending("head"))
        BY DEF SocketKept, SocketAt, OneReader
  <1>3. ring.tail # ring.head BY DEF IsEmpty
  <1>4. /\ ring.slot[ring.tail] = done["data"] + 1
        /\ Intact(ring, After(ring.tail), ring.slot[ring.tail], made["data"], Pending("head"))
        BY <1>1, <1>2, <1>3, TakeKeeps
  <1>5. done' \in [Kinds -> Nat] /\ done'["data"] = ring.slot[ring.tail] /\ done'["disco"] = done["disco"]
        BY <1>1, <1>4 DEF Takes, TypeOK, Kinds
  <1>6. SocketAt' = After(ring.tail) BY DEF SocketAt
  <1>7. SocketKept' BY <1>4, <1>5, <1>6 DEF SocketKept, Pending
  <1> QED BY <1>5, <1>7

\* And gives its slot back.
LEMMA SocketConsumes ==
  ASSUME IInv, ~IsEmpty(ring), app = "copied" \/ x = "call", ring' = Consume(ring),
         UNCHANGED <<t, made, done>>, app' # "copied", x' \notin {"call", "last"}
  PROVE  ring' \in RingType /\ SocketKept'
  <1> USE DEF IInv
  <1>1. /\ ring \in RingType /\ done["data"] \in Nat /\ made["data"] \in Nat
        /\ Pending("head") \in {0, 1}
        BY Types DEF Kinds
  <1>2. Intact(ring, After(ring.tail), done["data"], made["data"], Pending("head"))
        BY DEF SocketKept, SocketAt
  <1>3. /\ ring' \in RingType /\ ring'.tail = After(ring.tail)
        /\ Intact(ring', After(ring.tail), done["data"], made["data"], Pending("head"))
        BY <1>1, <1>2, ConsumeKeeps
  <1>4. SocketAt' = After(ring.tail) BY <1>3 DEF SocketAt
  <1>5. SocketKept' BY <1>3, <1>4 DEF SocketKept, Pending
  <1> QED BY <1>3, <1>5

LEMMA RxLoopStep == IInv /\ RxLoop => IInv'
  <1> SUFFICES ASSUME IInv, RxLoop PROVE IInv' OBVIOUS
  <1> USE DEF IInv
  <1>1. UNCHANGED <<network, t, box, manager, disco, pool, sock, app, made>> /\ x = "loop"
        BY DEF RxLoop
  <1>2. DiscoAt' = DiscoAt BY <1>1 DEF DiscoAt, manager
  <1>3. CASE IsEmpty(ring) \/ ~sock.cb
    <2>1. x' = "wait" /\ UNCHANGED <<ring, done>> BY <1>3 DEF RxLoop
    <2>2. TypeOK' BY <1>1, <2>1 DEF TypeOK, network, manager
    <2>3. OneReader' BY <1>1, <2>1 DEF OneReader
    <2>4. SocketAt' = SocketAt BY <1>1, <2>1 DEF SocketAt
    <2>5. SocketKept' BY <1>1, <2>1, <2>4 DEF SocketKept, Pending
    <2>6. DiscoKept' BY <1>1, <1>2, <2>1 DEF DiscoKept, Pending
    <2> QED BY <2>2, <2>3, <2>5, <2>6
  <1>4. CASE ~IsEmpty(ring) /\ sock.cb
    <2>1. app # "copied" BY <1>4 DEF OneReader
    <2>2. ring.slot[ring.tail] # 0
      <3>1. Intact(ring, ring.tail, done["data"], made["data"], Pending("head"))
            BY <1>1, <2>1 DEF SocketKept, SocketAt
      <3>2. /\ ring \in RingType /\ ring.head \in Slots /\ ring.tail \in Slots /\ done["data"] \in Nat
            /\ made["data"] \in Nat /\ Pending("head") \in {0, 1}
            BY Types DEF Kinds
      <3>3. ring.slot[ring.tail] = done["data"] + 1 BY <1>4, <3>1, <3>2, TakeKeeps DEF IsEmpty
      <3> QED BY <3>2, <3>3
    <2>3. Takes("data", ring.slot[ring.tail]) /\ x' = "call" /\ UNCHANGED ring
          BY <1>4, <2>2 DEF RxLoop
    <2>4. done' \in [Kinds -> Nat] /\ done'["disco"] = done["disco"] /\ SocketKept'
          BY <1>1, <1>4, <2>1, <2>3, SocketTakes
    <2>5. TypeOK' BY <1>1, <2>3, <2>4 DEF TypeOK, network, manager
    <2>6. OneReader' BY <1>1, <1>4, <2>1, <2>3 DEF OneReader
    <2>7. DiscoKept' BY <1>1, <1>2, <2>4 DEF DiscoKept, Pending
    <2> QED BY <2>4, <2>5, <2>6, <2>7
  <1> QED BY <1>3, <1>4

LEMMA RxDoneStep == IInv /\ RxDone => IInv'
  <1> SUFFICES ASSUME IInv, RxDone PROVE IInv' OBVIOUS
  <1> USE DEF IInv
  <1>1. /\ UNCHANGED <<network, t, box, manager, disco, pool, sock, app, made, done>>
        /\ ring' = Consume(ring) /\ x = "call" /\ x' = "loop"
        BY DEF RxDone, OneReader
  <1>2. ~IsEmpty(ring) /\ app # "copied" BY <1>1 DEF OneReader
  <1>3. ring' \in RingType /\ SocketKept' BY <1>1, <1>2, SocketConsumes
  <1>4. TypeOK' BY <1>1, <1>3 DEF TypeOK, network, manager
  <1>5. OneReader' BY <1>1, <1>2 DEF OneReader
  <1>6. DiscoAt' = DiscoAt BY <1>1 DEF DiscoAt, manager
  <1>7. DiscoKept' BY <1>1, <1>6 DEF DiscoKept, Pending
  <1> QED BY <1>3, <1>4, <1>5, <1>7

LEMMA RecvStep == IInv /\ Recv => IInv'
  <1> SUFFICES ASSUME IInv, Recv PROVE IInv' OBVIOUS
  <1> USE DEF IInv
  <1>1. /\ UNCHANGED <<network, t, box, manager, disco, pool, ring, sock, x, made>>
        /\ app = "idle" /\ app' = "copied" /\ ~sock.cb /\ ~IsEmpty(ring)
        /\ Takes("data", ring.slot[ring.tail])
        BY DEF Recv
  <1>2. x # "call" BY <1>1 DEF OneReader
  <1>3. done' \in [Kinds -> Nat] /\ done'["disco"] = done["disco"] /\ SocketKept'
        BY <1>1, <1>2, SocketTakes
  <1>4. TypeOK' BY <1>1, <1>3 DEF TypeOK, network, manager
  <1>5. OneReader' BY <1>1, <1>2 DEF OneReader
  <1>6. DiscoAt' = DiscoAt BY <1>1 DEF DiscoAt, manager
  <1>7. DiscoKept' BY <1>1, <1>3, <1>6 DEF DiscoKept, Pending
  <1> QED BY <1>3, <1>4, <1>5, <1>7

LEMMA RecvDoneStep == IInv /\ RecvDone => IInv'
  <1> SUFFICES ASSUME IInv, RecvDone PROVE IInv' OBVIOUS
  <1> USE DEF IInv
  <1>1. /\ UNCHANGED <<network, t, box, manager, disco, pool, sock, x, made, done>>
        /\ ring' = Consume(ring) /\ app = "copied" /\ app' = "idle"
        BY DEF RecvDone
  <1>2. ~IsEmpty(ring) /\ x \notin {"call", "last"} BY <1>1 DEF OneReader
  <1>3. ring' \in RingType /\ SocketKept' BY <1>1, <1>2, SocketConsumes
  <1>4. TypeOK' BY <1>1, <1>3 DEF TypeOK, network, manager
  <1>5. OneReader' BY <1>1, <1>2 DEF OneReader
  <1>6. DiscoAt' = DiscoAt BY <1>1 DEF DiscoAt, manager
  <1>7. DiscoKept' BY <1>1, <1>6 DEF DiscoKept, Pending
  <1> QED BY <1>3, <1>4, <1>5, <1>7
-----------------------------------------------------------------------------
(* The transmit pool, whose slots are given back one for each that was sent:   *)
(* a slot whose post failed is never sent, so the tail may lag behind.  What   *)
(* the mailbox holds is still in use, which is all that order needs.           *)

\* The slots that b posts are in use in r; their datagrams are after lo, up to
\* hi and in order.
Queued(b, r, lo, hi) ==
  \A i \in DOMAIN b : b[i] # Data =>
    /\ b[i] \in Slots /\ Distance(r.tail, b[i]) < Distance(r.tail, r.head)
    /\ lo < r.slot[b[i]] /\ r.slot[b[i]] <= hi
    /\ \A j \in DOMAIN b : j < i /\ b[j] # Data => r.slot[b[j]] < r.slot[b[i]]

\* g slots have been given back; d is the last datagram that was sent, s is 1
\* before its slot is given back; m were put in and the last of them is not
\* yet posted when q is 1.
PoolAt(r, b, g, d, m, s, q) ==
  /\ Intact(r, r.tail, g, m, 0)
  /\ g + s <= d /\ d <= m - q
  /\ Queued(b, r, d, m - q)

Posting == IF w = "post" THEN 1 ELSE 0
PoolKept == \E g \in Nat : PoolAt(pool, box, g, done["tx"], made["tx"], Pending("sent"), Posting)

LEMMA UsedSlot ==
  ASSUME NEW r \in RingType, NEW g \in Nat, NEW m \in Nat, Intact(r, r.tail, g, m, 0),
         NEW c \in Slots, Distance(r.tail, c) < Distance(r.tail, r.head)
  PROVE  r.slot[c] = g + 1 + Distance(r.tail, c)
  <1>1. r.head \in Slots /\ r.tail \in Slots BY DEF RingType, Slots
  <1>2. Place(r.tail, Distance(r.tail, c)) = c /\ Distance(r.tail, c) \in Nat
        /\ Distance(r.tail, r.head) \in Nat
        BY <1>1, AwayIs
  <1>3. Distance(r.tail, c) \in 0..Distance(r.tail, r.head)-1 BY <1>2
  <1> QED BY <1>2, <1>3 DEF Intact, Holds

\* A datagram for the tunnel takes no slot.
LEMMA QueuesData ==
  ASSUME NEW b \in Seq(0..Data), NEW r \in RingType, NEW lo \in Nat, NEW hi \in Nat,
         Queued(b, r, lo, hi)
  PROVE  Queued(Append(b, Data), r, lo, hi)
  <1> DEFINE c == Append(b, Data)
  <1>1. Len(b) \in Nat /\ DOMAIN b = 1..Len(b) BY LenProperties
  <1>2. DOMAIN c = 1..Len(b)+1 /\ c[Len(b)+1] = Data /\ \A i \in 1..Len(b) : c[i] = b[i]
    <2>1. Data \in 0..Data BY SizeIs DEF Data
    <2> QED BY <2>1, AppendProperties
  <1> HIDE DEF c
  <1>3. \A i \in DOMAIN c : c[i] # Data => i \in DOMAIN b /\ c[i] = b[i] BY <1>1, <1>2
  <1> QED BY <1>3 DEF Queued, c

LEMMA BeforeIs ==
  ASSUME NEW h \in Slots, NEW e \in Slots, NEW a, a = (h + Size - 1) % Size
  PROVE  a \in Slots /\ (Distance(e, h) >= 1 => Distance(e, a) = Distance(e, h) - 1)
  <1> DEFINE c == h + Size - 1
  <1>1. c \in 0..2 * Size - 1 BY SizeIs DEF Slots
  <1>2. a = c % Size OBVIOUS
  <1>3. c = h + Size - 1 OBVIOUS
  <1> HIDE DEF c
  <1>4. a = IF c < Size THEN c ELSE c - Size BY <1>1, <1>2, Wraps
  <1>5. CASE h = 0
    <2>1. a = Size - 1 BY <1>3, <1>4, <1>5, SizeIs
    <2>2. a \in Slots BY <2>1, SizeIs DEF Slots
    <2>3. Distance(e, a) = a - e BY <2>1, <2>2, DistanceIs, SizeIs DEF Slots
    <2>4. Distance(e, h) >= 1 => Distance(e, h) = Size - e BY <1>5, DistanceIs, SizeIs DEF Slots
    <2> QED BY <2>1, <2>2, <2>3, <2>4, SizeIs DEF Slots
  <1>6. CASE h # 0
    <2>1. a = h - 1 BY <1>3, <1>4, <1>6, SizeIs DEF Slots
    <2>2. a \in Slots BY <1>6, <2>1, SizeIs DEF Slots
    <2>3. Distance(e, a) = IF e <= a THEN a - e ELSE a - e + Size BY <2>2, DistanceIs
    <2>4. Distance(e, h) = IF e <= h THEN h - e ELSE h - e + Size BY DistanceIs
    <2>5. CASE e <= a BY <1>6, <2>1, <2>3, <2>4, <2>5, SizeIs DEF Slots
    <2>6. CASE e = h BY <1>6, <2>1, <2>2, <2>4, <2>6 DEF Slots
    <2>7. CASE e > h BY <1>6, <2>1, <2>3, <2>4, <2>7, SizeIs DEF Slots
    <2> QED BY <1>6, <2>1, <2>2, <2>5, <2>6, <2>7 DEF Slots
  <1> QED BY <1>5, <1>6

\* The slot before the head is the last, and later than all that wait.
LEMMA QueuesLast ==
  ASSUME NEW b \in Seq(0..Data), NEW r \in RingType, NEW g \in Nat, NEW lo \in Nat, NEW m \in Nat,
         Intact(r, r.tail, g, m, 0), g <= lo, lo <= m - 1, Queued(b, r, lo, m - 1),
         NEW a \in Slots,
         Distance(r.tail, r.head) >= 1 => Distance(r.tail, a) = Distance(r.tail, r.head) - 1
  PROVE  Queued(Append(b, a), r, lo, m)
  <1> DEFINE c == Append(b, a)
             n == Distance(r.tail, r.head)
             k == Distance(r.tail, a)
  <1>1. r.head \in Slots /\ r.tail \in Slots BY DEF RingType, Slots
  <1>3. n \in Slots /\ k \in Slots /\ (n >= 1 => k = n - 1) BY <1>1, DistanceIs
  <1>5. g + n = m
    <2>1. g + n + 0 = m BY DEF Intact
    <2> QED BY <1>3, <2>1 DEF Slots
  <1> HIDE DEF c, n, k
  <1>6. n >= 1 BY <1>3, <1>5 DEF Slots
  <1>7. k = n - 1 BY <1>3, <1>6
  <1>8. k < n BY <1>6, <1>7, <1>3 DEF Slots
  <1>9. r.slot[a] = m
    <2>1. r.slot[a] = g + 1 + k BY <1>8, UsedSlot DEF k, n
    <2> QED BY <1>3, <1>5, <1>7, <2>1 DEF Slots
  <1>10. Len(b) \in Nat /\ DOMAIN b = 1..Len(b) BY LenProperties
  <1>11. DOMAIN c = 1..Len(b)+1 /\ c[Len(b)+1] = a /\ \A i \in 1..Len(b) : c[i] = b[i]
    <2>1. a \in 0..Data BY SizeIs DEF Data, Slots
    <2> QED BY <2>1, AppendProperties DEF c
  <1>12. ASSUME NEW i \in DOMAIN c, c[i] # Data
         PROVE  /\ c[i] \in Slots /\ Distance(r.tail, c[i]) < Distance(r.tail, r.head)
                /\ lo < r.slot[c[i]] /\ r.slot[c[i]] <= m
                /\ \A j \in DOMAIN c : j < i /\ c[j] # Data => r.slot[c[j]] < r.slot[c[i]]
    <2>1. CASE i \in DOMAIN b
      <3>1. c[i] = b[i] /\ \A j \in DOMAIN c : j < i => j \in DOMAIN b /\ c[j] = b[j]
            BY <1>10, <1>11, <2>1
      <3>2. r.slot[b[i]] <= m - 1 /\ b[i] \in Slots BY <1>12, <2>1, <3>1 DEF Queued
      <3>3. r.slot[b[i]] \in Nat BY <3>2 DEF RingType, Slots
      <3>4. r.slot[c[i]] <= m BY <3>1, <3>2, <3>3
      <3> QED BY <1>12, <2>1, <3>1, <3>4 DEF Queued
    <2>2. CASE i = Len(b) + 1
      <3>1. c[i] = a /\ \A j \in DOMAIN c : j < i => j \in DOMAIN b /\ c[j] = b[j]
            BY <1>10, <1>11, <2>2
      <3>2. \A j \in DOMAIN b : b[j] # Data => r.slot[b[j]] <= m - 1 /\ b[j] \in Slots BY DEF Queued
      <3>3. \A j \in DOMAIN b : b[j] # Data => r.slot[b[j]] < m
        <4>1. \A s \in Slots : r.slot[s] \in Nat BY DEF RingType, Slots
        <4>2. \A v \in Nat : v <= m - 1 => v < m OBVIOUS
        <4> QED BY <3>2, <4>1, <4>2
      <3>4. lo < m /\ m <= m OBVIOUS
      <3> QED BY <1>8, <1>9, <3>1, <3>3, <3>4 DEF k, n
    <2> QED BY <1>10, <1>11, <2>1, <2>2
  <1> QED BY <1>12 DEF Queued, c

\* What follows the first in the mailbox is later than the first.
LEMMA QueuesTail ==
  ASSUME NEW b \in Seq(0..Data), b # <<>>, NEW r \in RingType, NEW lo, NEW hi, Queued(b, r, lo, hi)
  PROVE  /\ Queued(Tail(b), r, lo, hi)
         /\ Head(b) # Data =>
              /\ Head(b) \in Slots /\ Distance(r.tail, Head(b)) < Distance(r.tail, r.head)
              /\ lo < r.slot[Head(b)] /\ r.slot[Head(b)] <= hi
              /\ Queued(Tail(b), r, r.slot[Head(b)], hi)
  <1> DEFINE c == Tail(b)
  <1>1. Len(b) \in Nat /\ Len(b) >= 1 /\ DOMAIN b = 1..Len(b) BY LenProperties, EmptySeq
  <1>2. Head(b) = b[1] /\ 1 \in DOMAIN b BY <1>1, HeadTailProperties
  <1>3. DOMAIN c = 1..Len(b)-1 /\ \A i \in 1..Len(b)-1 : c[i] = b[i+1]
    <2>1. c \in Seq(0..Data) /\ Len(c) = Len(b) - 1 /\ \A i \in 1..Len(c) : c[i] = b[i+1]
          BY HeadTailProperties
    <2> QED BY <2>1, LenProperties
  <1> HIDE DEF c
  <1>4. \A i \in DOMAIN c : i + 1 \in DOMAIN b /\ c[i] = b[i+1] /\ 1 < i + 1
        BY <1>1, <1>3
  <1>4a. \A i, j \in DOMAIN c : j < i => j + 1 < i + 1 BY <1>1, <1>3
  <1>5. Queued(c, r, lo, hi) BY <1>4, <1>4a DEF Queued
  <1>6. ASSUME Head(b) # Data PROVE Queued(c, r, r.slot[Head(b)], hi)
    <2>1. \A i \in DOMAIN c : c[i] # Data => r.slot[b[1]] < r.slot[c[i]]
          BY <1>2, <1>4, <1>6 DEF Queued
    <2> QED BY <1>2, <1>5, <2>1 DEF Queued
  <1> QED BY <1>2, <1>5, <1>6 DEF Queued, c

\* What is written at the head and published is after all that wait.
LEMMA PoolFills ==
  ASSUME NEW b, NEW r \in RingType, NEW g \in Nat, NEW m \in Nat, NEW lo, NEW hi,
         Intact(r, r.tail, g, m, 0), Queued(b, r, lo, hi), ~IsFull(r)
  PROVE  LET q == Publish(Fill(r, m + 1)) IN
         Intact(q, q.tail, g, m + 1, 0) /\ Queued(b, q, lo, hi)
  <1> DEFINE s == Fill(r, m + 1)
             q == Publish(s)
  <1>1. r.head \in Slots /\ r.tail \in Slots BY DEF RingType, Slots
  <1>2. s \in RingType /\ Intact(s, r.tail, g, m + 1, 1) BY <1>1, FillKeeps
  <1>3. /\ s.head = r.head /\ s.tail = r.tail
        /\ \A c \in Slots \ {r.head} : s.slot[c] = r.slot[c]
    <2>1. r.slot \in [Slots -> Nat] BY DEF RingType, Slots
    <2>2. s = [r EXCEPT !.slot = [r.slot EXCEPT ![r.head] = m + 1]] BY DEF Fill, RingType
    <2>3. s.slot = [r.slot EXCEPT ![r.head] = m + 1] /\ s.head = r.head /\ s.tail = r.tail
          BY <2>2 DEF RingType
    <2> HIDE DEF s
    <2> QED BY <1>1, <2>1, <2>3
  <1> HIDE DEF s
  <1>4. q \in RingType /\ Intact(q, r.tail, g, m + 1, 0)
    <2>1. m + 1 \in Nat OBVIOUS
    <2> QED BY <1>1, <1>2, <2>1, PublishKeeps
  <1>5. q.tail = r.tail /\ q.head = After(r.head) /\ q.slot = s.slot
        BY <1>1, <1>2, <1>3, AfterIs DEF RingType, Publish, Slots
  <1>6. Distance(r.tail, After(r.head)) = Distance(r.tail, r.head) + 1
    <2>1. Distance(r.tail, r.tail) + Distance(r.tail, r.head) = Distance(r.tail, r.head) BY DEF Intact
    <2> QED BY <1>1, <2>1, BetweenIs DEF IsFull
  <1> HIDE DEF q
  <1>7. \A c \in Slots : Distance(r.tail, c) < Distance(r.tail, r.head) =>
          /\ s.slot[c] = r.slot[c]
          /\ Distance(r.tail, c) < Distance(r.tail, After(r.head))
    <2> SUFFICES ASSUME NEW c \in Slots, Distance(r.tail, c) < Distance(r.tail, r.head)
                 PROVE  /\ s.slot[c] = r.slot[c]
                        /\ Distance(r.tail, c) < Distance(r.tail, r.head) + 1
        BY <1>6
    <2>1. Distance(r.tail, c) \in Nat /\ Distance(r.tail, r.head) \in Nat BY <1>1, AwayIs
    <2>2. c # r.head BY <2>1
    <2> QED BY <1>3, <2>1, <2>2
  <1>8. Queued(b, q, lo, hi)
    <2> SUFFICES ASSUME NEW i \in DOMAIN b, b[i] # Data
                 PROVE  /\ b[i] \in Slots /\ Distance(q.tail, b[i]) < Distance(q.tail, q.head)
                        /\ lo < q.slot[b[i]] /\ q.slot[b[i]] <= hi
                        /\ \A j \in DOMAIN b : j < i /\ b[j] # Data => q.slot[b[j]] < q.slot[b[i]]
        BY DEF Queued
    <2>1. \A j \in DOMAIN b : b[j] # Data =>
            b[j] \in Slots /\ Distance(r.tail, b[j]) < Distance(r.tail, r.head)
          BY DEF Queued
    <2>2. \A j \in DOMAIN b : b[j] # Data => q.slot[b[j]] = r.slot[b[j]] BY <1>5, <1>7, <2>1
    <2>3. Distance(q.tail, b[i]) < Distance(q.tail, q.head) BY <1>5, <1>7, <2>1
    <2> QED BY <2>1, <2>2, <2>3 DEF Queued
  <1> QED BY <1>4, <1>5, <1>8 DEF q, s

\* A slot that is given back was not the one of a datagram that waits: that one
\* is after the one that was sent, so at least one place on.
LEMMA PoolReleases ==
  ASSUME NEW b, NEW r \in RingType, NEW g \in Nat, NEW m \in Nat, NEW lo \in Nat, NEW hi,
         Intact(r, r.tail, g, m, 0), Queued(b, r, lo, hi), g + 1 <= lo, lo <= m
  PROVE  Intact(Release(r), Release(r).tail, g + 1, m, 0) /\ Queued(b, Release(r), lo, hi)
  <1> DEFINE q == Release(r)
             f == After(r.tail)
  <1>1. r.head \in Slots /\ r.tail \in Slots BY DEF RingType, Slots
  <1>2. Distance(r.tail, r.head) \in Nat /\ Distance(r.tail, r.tail) = 0 BY <1>1, AwayIs
  <1>3. r.tail # r.head
    <2>1. g + Distance(r.tail, r.head) + 0 = m BY DEF Intact
    <2> QED BY <1>2, <2>1
  <1>4. f \in Slots BY <1>1, AfterIs
  <1>5. Intact(r, f, g + 1, m, 0) BY <1>1, <1>3, TakeKeeps
  <1>6. q = [r EXCEPT !.tail = f] BY DEF Release, RingType
  <1>7. q.tail = f /\ q.head = r.head /\ q.slot = r.slot BY <1>6 DEF RingType
  <1> HIDE DEF q, f
  <1>8. Intact(q, f, g + 1, m, 0)
    <2>1. g + 1 \in Nat OBVIOUS
    <2> QED BY <1>4, <1>5, <1>6, <2>1, ReleaseKeeps
  <1>9. \A c \in Slots : Distance(r.tail, c) < Distance(r.tail, r.head) /\ lo < r.slot[c] =>
          Distance(f, c) < Distance(f, r.head)
    <2> SUFFICES ASSUME NEW c \in Slots, Distance(r.tail, c) < Distance(r.tail, r.head), lo < r.slot[c]
                 PROVE  Distance(f, c) < Distance(f, r.head)
        OBVIOUS
    <2>1. r.slot[c] = g + 1 + Distance(r.tail, c) BY UsedSlot
    <2>2. Distance(r.tail, c) \in Nat BY <1>1, AwayIs
    <2>3. c # r.tail BY <1>2, <2>1, <2>2
    <2>4. Distance(f, c) = Distance(r.tail, c) - 1 BY <1>1, <2>3, NextIs DEF f
    <2>5. Distance(f, r.head) = Distance(r.tail, r.head) - 1 BY <1>1, <1>3, NextIs DEF f
    <2> QED BY <1>2, <2>2, <2>4, <2>5
  <1>10. Queued(b, q, lo, hi) BY <1>7, <1>9 DEF Queued
  <1> QED BY <1>7, <1>8, <1>10 DEF q

LEMMA PoolFrame ==
  ASSUME PoolKept, UNCHANGED <<pool, box>>, done'["tx"] = done["tx"], made'["tx"] = made["tx"],
         Pending("sent")' = Pending("sent"), Posting' = Posting
  PROVE  PoolKept'
  <1>1. PICK g \in Nat : PoolAt(pool, box, g, done["tx"], made["tx"], Pending("sent"), Posting)
        BY DEF PoolKept
  <1>2. PoolAt(pool', box', g, done'["tx"], made'["tx"], Pending("sent")', Posting') BY <1>1
  <1> QED BY <1>2 DEF PoolKept

\* These steps leave the mailbox and the pool alone.
LEMMA PoolAside ==
  ASSUME IInv, PoolKept,
         \/ DiscoIn \/ NetIo \/ Relay \/ DiscoPublish \/ DataPublish \/ DataGive \/ RingBegin
         \/ Drain \/ DrainQueue \/ RxTask \/ Application \/ UNCHANGED vars
  PROVE  PoolKept'
  <1> USE DEF network, manager, socket, Made, Takes, MayAnswer
  <1>1. TypeOK BY DEF IInv
  <1>2. CASE DiscoIn
    <2>1. UNCHANGED <<pool, box, w>> /\ done'["tx"] = done["tx"] /\ made'["tx"] = made["tx"]
          BY <1>1, <1>2 DEF DiscoIn, TypeOK, Kinds
    <2>2. t # "sent" /\ t' # "sent" BY <1>2 DEF DiscoIn
    <2> QED BY <2>1, <2>2, PoolFrame DEF Pending, Posting
  <1>3. CASE NetIo \/ Relay BY <1>3, PoolFrame DEF NetIo, Relay, Pending, Posting
  <1>4. CASE DiscoPublish \/ DataPublish \/ DataGive
    <2>1. UNCHANGED <<pool, box, w, made, done>> /\ t # "sent" /\ t' # "sent"
          BY <1>4 DEF DiscoPublish, DataPublish, DataGive
    <2> QED BY <2>1, PoolFrame DEF Pending, Posting
  <1>5. CASE RingBegin \/ Drain \/ DrainQueue
    <2>1. UNCHANGED <<pool, box, t, made>> /\ done'["tx"] = done["tx"]
          BY <1>1, <1>5 DEF RingBegin, Drain, DrainQueue, TypeOK, Kinds
    <2>2. w # "post" /\ w' # "post" BY <1>5 DEF RingBegin, Drain, DrainQueue
    <2> QED BY <2>1, <2>2, PoolFrame DEF Pending, Posting
  <1>6. CASE RxTask
    <2>1. UNCHANGED <<pool, box, t, w, made>> /\ done'["tx"] = done["tx"]
          BY <1>1, <1>6 DEF RxTask, RxWait, RxLoop, RxDone, TypeOK, Kinds
    <2> QED BY <2>1, PoolFrame DEF Pending, Posting
  <1>7. CASE Application
    <2>1. UNCHANGED <<pool, box, t, w, made>> /\ done'["tx"] = done["tx"]
          BY <1>1, <1>7 DEF Application, SetCallback, Recv, RecvDone, Close, Closed, TypeOK, Kinds
    <2> QED BY <2>1, PoolFrame DEF Pending, Posting
  <1>8. CASE UNCHANGED vars BY <1>8, PoolFrame DEF vars, Pending, Posting
  <1> QED BY <1>2, <1>3, <1>4, <1>5, <1>6, <1>7, <1>8

LEMMA PoolPosts ==
  ASSUME IInv, PoolKept, Post(Data), UNCHANGED <<pool, t, made, done>>, Posting' = Posting
  PROVE  PoolKept'
  <1>1. PICK g \in Nat : PoolAt(pool, box, g, done["tx"], made["tx"], Pending("sent"), Posting)
        BY DEF PoolKept
  <1>2. /\ box \in Seq(0..Data) /\ pool \in RingType
        /\ done["tx"] \in Nat /\ made["tx"] \in Nat /\ Posting \in {0, 1}
        BY DEF IInv, TypeOK, Kinds, Posting
  <1>3. made["tx"] - Posting \in Nat BY <1>1, <1>2 DEF PoolAt
  <1>4. Queued(box', pool, done["tx"], made["tx"] - Posting)
    <2>1. CASE box' = box BY <1>1, <2>1 DEF PoolAt
    <2>2. CASE box' = Append(box, Data) BY <1>1, <1>2, <1>3, <2>2, QueuesData DEF PoolAt
    <2> QED BY <2>1, <2>2 DEF Post
  <1>5. PoolAt(pool, box', g, done["tx"], made["tx"], Pending("sent"), Posting) BY <1>1, <1>4 DEF PoolAt
  <1>6. Pending("sent")' = Pending("sent") BY DEF Pending
  <1> QED BY <1>5, <1>6 DEF PoolKept

LEMMA PoolDatagrams ==
  ASSUME IInv, PoolKept, DirectIn \/ DrainWg
  PROVE  PoolKept'
  <1> USE DEF network, manager, socket
  <1>1. UNCHANGED <<pool, t, made, done>> BY DEF DirectIn, DrainWg
  <1>2. Posting' = Posting BY DEF DirectIn, DrainWg, Posting
  <1>3. CASE Post(Data) BY <1>1, <1>2, <1>3, PoolPosts
  <1>4. CASE UNCHANGED box BY <1>1, <1>2, <1>4, PoolFrame DEF Pending
  <1> QED BY <1>3, <1>4 DEF DirectIn, DrainWg

LEMMA PoolPong ==
  ASSUME IInv, PoolKept, Pong
  PROVE  PoolKept'
  <1> USE DEF network, manager, socket
  <1>1. PICK g \in Nat : PoolAt(pool, box, g, done["tx"], made["tx"], Pending("sent"), Posting)
        BY DEF PoolKept
  <1>2. pool \in RingType /\ made \in [Kinds -> Nat] /\ done["tx"] \in Nat /\ "tx" \in Kinds
        /\ back \in {"drain", "queue"}
        BY DEF IInv, TypeOK, Kinds
  <1>3. UNCHANGED <<t, box, done>> /\ Posting = 0 BY DEF Pong, Posting
  <1>4. CASE IsFull(pool)
    <2>1. UNCHANGED <<pool, made>> /\ Posting' = 0 BY <1>2, <1>4 DEF Pong, Posting
    <2> QED BY <1>3, <2>1, PoolFrame DEF Pending
  <1>5. CASE ~IsFull(pool)
    <2> DEFINE m == made["tx"]
    <2>1. pool' = Publish(Fill(pool, m + 1)) /\ made'["tx"] = m + 1 /\ Posting' = 1
          BY <1>2, <1>5 DEF Pong, Posting, Made, Number
    <2>2. m \in Nat BY <1>2
    <2>3. Intact(pool, pool.tail, g, m, 0) /\ Queued(box, pool, done["tx"], m)
          /\ g + Pending("sent") <= done["tx"] /\ done["tx"] <= m
          BY <1>1, <1>3, <2>2 DEF PoolAt
    <2> HIDE DEF m
    <2>4. Intact(pool', pool'.tail, g, m + 1, 0) /\ Queued(box, pool', done["tx"], m)
          BY <1>2, <1>5, <2>1, <2>2, <2>3, PoolFills
    <2> DEFINE n == m + 1
    <2>5. Intact(pool', pool'.tail, g, n, 0) /\ n - 1 = m BY <2>2, <2>4
    <2> HIDE DEF n
    <2>6. PoolAt(pool', box, g, done["tx"], n, Pending("sent"), 1)
      <3>1. done["tx"] <= n - 1 BY <2>3, <2>5
      <3>2. Queued(box, pool', done["tx"], n - 1) BY <2>4, <2>5
      <3> QED BY <2>3, <2>5, <3>1, <3>2 DEF PoolAt
    <2>7. Pending("sent")' = Pending("sent") BY <1>3 DEF Pending
    <2> QED BY <1>3, <2>1, <2>6, <2>7 DEF PoolKept, n
  <1> QED BY <1>4, <1>5

LEMMA PoolPostSend ==
  ASSUME IInv, PoolKept, PostSend
  PROVE  PoolKept'
  <1> USE DEF network, manager, socket
  <1> DEFINE m == made["tx"]
             d == done["tx"]
             a == (pool.head + Size - 1) % Size
  <1>1. PICK g \in Nat : PoolAt(pool, box, g, d, m, Pending("sent"), Posting) BY DEF PoolKept
  <1>2. /\ box \in Seq(0..Data) /\ pool \in RingType /\ m \in Nat /\ d \in Nat
        /\ back \in {"drain", "queue"} /\ pool.head \in Slots /\ pool.tail \in Slots
        BY DEF IInv, TypeOK, Kinds, RingType, Slots
  <1>3. UNCHANGED <<t, pool, made, done>> /\ Posting = 1 /\ Posting' = 0 /\ Post(a)
        BY <1>2 DEF PostSend, Posting
  <1>4. a \in Slots /\ (Distance(pool.tail, pool.head) >= 1 =>
                          Distance(pool.tail, a) = Distance(pool.tail, pool.head) - 1)
        BY <1>2, BeforeIs
  <1> HIDE DEF a, m, d
  <1>5. Intact(pool, pool.tail, g, m, 0) /\ Queued(box, pool, d, m - 1)
        /\ g + Pending("sent") <= d /\ d <= m - 1
        BY <1>1, <1>3 DEF PoolAt
  <1>6. g <= d /\ d <= m BY <1>2, <1>5 DEF Pending
  <1>7. Queued(box', pool, d, m)
    <2>1. CASE box' = box
      <3>1. \A i \in DOMAIN box : box[i] # Data => pool.slot[box[i]] <= m
        <4>1. \A i \in DOMAIN box : box[i] # Data => pool.slot[box[i]] <= m - 1 /\ box[i] \in Slots
              BY <1>5 DEF Queued
        <4>2. \A c \in Slots : pool.slot[c] \in Nat BY <1>2 DEF RingType, Slots
        <4>3. \A v \in Nat : v <= m - 1 => v <= m BY <1>2
        <4> QED BY <4>1, <4>2, <4>3
      <3> QED BY <1>5, <2>1, <3>1 DEF Queued
    <2>2. CASE box' = Append(box, a) BY <1>2, <1>4, <1>5, <1>6, <2>2, QueuesLast
    <2> QED BY <1>3, <2>1, <2>2 DEF Post
  <1>8. m - 0 = m BY <1>2
  <1>9. PoolAt(pool, box', g, d, m, Pending("sent"), 0) BY <1>5, <1>6, <1>7, <1>8 DEF PoolAt
  <1>10. Pending("sent")' = Pending("sent") BY <1>3 DEF Pending
  <1> QED BY <1>3, <1>9, <1>10 DEF PoolKept, m, d

LEMMA PoolSend ==
  ASSUME IInv, PoolKept, Send
  PROVE  PoolKept'
  <1> USE DEF network, manager, socket
  <1> DEFINE m == made["tx"]
             d == done["tx"]
             n == pool.slot[Head(box)]
  <1>1. PICK g \in Nat : PoolAt(pool, box, g, d, m, Pending("sent"), Posting) BY DEF PoolKept
  <1>2. /\ box \in Seq(0..Data) /\ pool \in RingType /\ m \in Nat /\ done \in [Kinds -> Nat]
        /\ "tx" \in Kinds /\ d \in Nat
        BY DEF IInv, TypeOK, Kinds
  <1>3. UNCHANGED <<pool, made, w>> /\ box' = Tail(box) /\ box # <<>> /\ Head(box) # Data
        /\ done'["tx"] = n /\ Pending("sent") = 0 /\ Pending("sent")' = 1 /\ Posting' = Posting
        BY <1>2 DEF Send, Takes, Pending, Posting
  <1>4. /\ Head(box) \in Slots /\ d < n /\ n <= m - Posting
        /\ Queued(Tail(box), pool, n, m - Posting)
    <2>1. Queued(box, pool, d, m - Posting) BY <1>1 DEF PoolAt
    <2> HIDE DEF d, m
    <2> QED BY <1>2, <1>3, <2>1, QueuesTail
  <1>5. n \in Nat BY <1>2, <1>4 DEF RingType, Slots
  <1> HIDE DEF m, d, n
  <1>6. Intact(pool, pool.tail, g, m, 0) /\ g + 0 <= d BY <1>1, <1>3 DEF PoolAt
  <1>7. g + 1 <= n BY <1>2, <1>4, <1>5, <1>6
  <1>8. PoolAt(pool, Tail(box), g, n, m, 1, Posting) BY <1>4, <1>6, <1>7 DEF PoolAt
  <1> QED BY <1>3, <1>8 DEF PoolKept, m

LEMMA PoolSent ==
  ASSUME IInv, PoolKept, Sent
  PROVE  PoolKept'
  <1> USE DEF network, manager, socket
  <1> DEFINE m == made["tx"]
             d == done["tx"]
  <1>1. PICK g \in Nat : PoolAt(pool, box, g, d, m, Pending("sent"), Posting) BY DEF PoolKept
  <1>2. pool \in RingType /\ m \in Nat /\ d \in Nat /\ Posting \in {0, 1}
        BY DEF IInv, TypeOK, Kinds, Posting
  <1>3. UNCHANGED <<box, made, done, w>> /\ pool' = Release(pool) /\ Pending("sent") = 1
        /\ Pending("sent")' = 0 /\ Posting' = Posting
        BY DEF Sent, Pending, Posting
  <1>4. Intact(pool, pool.tail, g, m, 0) /\ g + 1 <= d /\ d <= m - Posting
        /\ Queued(box, pool, d, m - Posting)
        BY <1>1, <1>3 DEF PoolAt
  <1> HIDE DEF m, d
  <1>5. d <= m BY <1>2, <1>4
  <1>6. Intact(pool', pool'.tail, g + 1, m, 0) /\ Queued(box, pool', d, m - Posting)
        BY <1>2, <1>3, <1>4, <1>5, PoolReleases
  <1>7. g + 1 \in Nat /\ g + 1 + 0 <= d BY <1>4
  <1>8. PoolAt(pool', box, g + 1, d, m, 0, Posting) BY <1>4, <1>6, <1>7 DEF PoolAt
  <1> QED BY <1>3, <1>7, <1>8 DEF PoolKept, m, d

LEMMA PoolDataIn ==
  ASSUME IInv, PoolKept, DataIn
  PROVE  PoolKept'
  <1> USE DEF network, manager, socket
  <1>1. PICK g \in Nat : PoolAt(pool, box, g, done["tx"], made["tx"], Pending("sent"), Posting)
        BY DEF PoolKept
  <1>2. box \in Seq(0..Data) /\ pool \in RingType /\ made \in [Kinds -> Nat] /\ "tx" \in Kinds
        BY DEF IInv, TypeOK, Kinds
  <1>3. UNCHANGED <<pool, done, w>> /\ box' = Tail(box) /\ box # <<>> /\ made'["tx"] = made["tx"]
        /\ Pending("sent") = 0 /\ Pending("sent")' = 0 /\ Posting' = Posting
        BY <1>2 DEF DataIn, Made, Pending, Posting
  <1>4. Queued(Tail(box), pool, done["tx"], made["tx"] - Posting)
    <2>1. Queued(box, pool, done["tx"], made["tx"] - Posting) BY <1>1 DEF PoolAt
    <2> QED BY <1>2, <1>3, <2>1, QueuesTail
  <1>5. PoolAt(pool, Tail(box), g, done["tx"], made["tx"], 0, Posting) BY <1>1, <1>3, <1>4 DEF PoolAt
  <1> QED BY <1>3, <1>5 DEF PoolKept
-----------------------------------------------------------------------------
LEMMA Begins == Init => IInv
  <1> SUFFICES ASSUME Init PROVE IInv OBVIOUS
  <1>1. 0 \in Slots /\ Size \in Nat /\ MaxIn \in Nat /\ MaxBox \in Nat /\ Depth \in Nat
        BY SizeIs, DatagramsAssumption DEF Slots
  <1>2. Ring \in RingType /\ Ring.head = 0 /\ Ring.tail = 0 BY <1>1 DEF Ring, RingType, Slots
  <1>3. made = [k \in Kinds |-> 0] /\ done = [k \in Kinds |-> 0] BY DEF Init
  <1>4. made["data"] = 0 /\ made["disco"] = 0 /\ done["data"] = 0 /\ done["disco"] = 0
        BY <1>3 DEF Kinds
  <1>5. sock \in [sem : 0..Size, cb : BOOLEAN, running : BOOLEAN] BY <1>1 DEF Init, NewSocket
  <1>6. box \in Seq(0..Data) /\ Len(box) <= MaxBox BY <1>1 DEF Init
  <1>7. TypeOK BY <1>1, <1>2, <1>3, <1>5, <1>6 DEF Init, TypeOK, Slots
  <1>8. OneReader BY DEF Init, OneReader
  <1>9. Distance(0, 0) = 0 BY <1>1, AwayIs
  <1>10. Intact(Ring, 0, 0, 0, 0) BY <1>2, <1>9 DEF Intact, Holds
  <1>11. DiscoKept BY <1>2, <1>4, <1>10 DEF Init, DiscoKept, DiscoAt, Pending
  <1>12. SocketKept BY <1>2, <1>4, <1>10 DEF Init, SocketKept, SocketAt, Pending
  <1> QED BY <1>7, <1>8, <1>11, <1>12 DEF IInv

LEMMA Stutters == IInv /\ UNCHANGED vars => IInv'
  <1> SUFFICES ASSUME IInv, UNCHANGED vars PROVE IInv' OBVIOUS
  <1> USE DEF IInv, vars
  <1>1. TypeOK' /\ OneReader' BY DEF TypeOK, OneReader
  <1>2. DiscoAt' = DiscoAt /\ SocketAt' = SocketAt BY DEF DiscoAt, SocketAt
  <1>3. DiscoKept' /\ SocketKept' BY <1>2 DEF DiscoKept, SocketKept, Pending
  <1> QED BY <1>1, <1>3

\* The inductive invariant: from its reader's place to its head a ring holds
\* what was put in and not taken out, whatever the order of the steps.
THEOREM Invariance == Spec => []IInv
  <1>1. IInv /\ [Next]_vars => IInv'
    <2> SUFFICES ASSUME IInv, [Next]_vars PROVE IInv' OBVIOUS
    <2>1. CASE DiscoIn \/ DirectIn \/ NetIo \/ Relay
          BY <2>1, DiscoInStep, DirectInStep, NetIoStep, RelayStep
    <2>2. CASE Tcpip
          BY <2>2, DiscoPublishStep, SendStep, SentStep, DataInStep, DataPublishStep, DataGiveStep DEF Tcpip
    <2>3. CASE Manager
          BY <2>3, RingBeginStep, DrainStep, DrainQueueStep, PongStep, PostSendStep, DrainWgStep DEF Manager
    <2>4. CASE RxTask BY <2>4, RxWaitStep, RxLoopStep, RxDoneStep DEF RxTask
    <2>5. CASE Application
          BY <2>5, SetCallbackStep, RecvStep, RecvDoneStep, CloseStep, ClosedStep DEF Application
    <2>6. CASE UNCHANGED vars BY <2>6, Stutters
    <2> QED BY <2>1, <2>2, <2>3, <2>4, <2>5, <2>6 DEF Next
  <1> QED BY Begins, <1>1, PTL DEF Spec

\* The indexes of the rings stay inside them, and the queues and the mailbox
\* within their depth, for every size.
THEOREM TypeCorrect == Spec => []TypeOK
  <1>1. IInv => TypeOK BY DEF IInv
  <1> QED BY Invariance, <1>1, PTL

\* The manager reads each DISCO packet that was taken into the ring once, in
\* order and complete (zc_pcb_recv_cb, ml_wg_mgr_task).
THEOREM DiscoCorrect == Spec => []DiscoIntact
  <1>1. IInv => DiscoIntact
    <2> SUFFICES ASSUME IInv PROVE DiscoIntact OBVIOUS
    <2>1. DiscoKept BY DEF IInv
    <2>2. Holds(disco, DiscoAt, done["disco"])
          /\ done["disco"] + Distance(DiscoAt, disco.head) + Pending("publish") = made["disco"]
          BY <2>1 DEF DiscoKept, Intact
    <2> QED BY <2>2 DEF DiscoIntact, DiscoAt, Pending
  <1> QED BY Invariance, <1>1, PTL

\* Each datagram of a UDP socket reaches the application once and in order, by
\* the callback or by microlink_udp_recv (udp_recv_cb, udp_rx_task).
THEOREM SocketCorrect == Spec => []SocketIntact
  <1>1. IInv => SocketIntact
    <2> SUFFICES ASSUME IInv PROVE SocketIntact OBVIOUS
    <2>1. Holds(ring, SocketAt, done["data"]) BY DEF IInv, SocketKept, Intact
    <2> QED BY <2>1 DEF SocketIntact, SocketAt
  <1> QED BY Invariance, <1>1, PTL

\* What waits in the mailbox to be sent is still in its slot of the pool, in
\* order and after what was sent, although a post that failed has left a slot
\* that is never sent (ml_zerocopy_send, zc_send_in_tcpip).
THEOREM PoolCorrect == Spec => []PoolIntact
  <1>1. Init => PoolKept
    <2> SUFFICES ASSUME Init PROVE PoolKept OBVIOUS
    <2>1. pool = Ring /\ Ring.head = 0 /\ Ring.tail = 0 BY DEF Init, Ring
    <2>2. made["tx"] = 0 /\ done["tx"] = 0 /\ Pending("sent") = 0 /\ Posting = 0
          BY DEF Init, Kinds, Pending, Posting
    <2>3. 0 \in Slots BY SizeIs DEF Slots
    <2>4. Distance(0, 0) = 0 BY <2>3, AwayIs
    <2>5. Intact(Ring, 0, 0, 0, 0) BY <2>1, <2>4 DEF Intact, Holds
    <2>6. Queued(box, pool, 0, 0) BY DEF Init, Queued
    <2>7. PoolAt(pool, box, 0, 0, 0, 0, 0) BY <2>1, <2>5, <2>6 DEF PoolAt
    <2> QED BY <2>2, <2>7 DEF PoolKept
  <1>2. IInv /\ PoolKept /\ [Next]_vars => PoolKept'
    <2> SUFFICES ASSUME IInv, PoolKept, [Next]_vars PROVE PoolKept' OBVIOUS
    <2>1. CASE DiscoIn \/ NetIo \/ Relay \/ DiscoPublish \/ DataPublish \/ DataGive \/ RingBegin
               \/ Drain \/ DrainQueue \/ RxTask \/ Application \/ UNCHANGED vars
          BY <2>1, PoolAside
    <2>2. CASE DirectIn \/ DrainWg BY <2>2, PoolDatagrams
    <2>3. CASE Pong BY <2>3, PoolPong
    <2>4. CASE PostSend BY <2>4, PoolPostSend
    <2>5. CASE Send BY <2>5, PoolSend
    <2>6. CASE Sent BY <2>6, PoolSent
    <2>7. CASE DataIn BY <2>7, PoolDataIn
    <2> QED BY <2>1, <2>2, <2>3, <2>4, <2>5, <2>6, <2>7 DEF Next, Tcpip, Manager
  <1>3. IInv /\ PoolKept => PoolIntact
    <2> SUFFICES ASSUME IInv, PoolKept PROVE PoolIntact OBVIOUS
    <2>1. Queued(box, pool, done["tx"], made["tx"] - Posting) BY DEF PoolKept, PoolAt
    <2>2. box \in Seq(0..Data) /\ pool \in RingType /\ done["tx"] \in Nat BY DEF IInv, TypeOK, Kinds
    <2>3. Len(box) \in Nat /\ DOMAIN box = 1..Len(box) BY <2>2, LenProperties
    <2> SUFFICES ASSUME NEW i \in DOMAIN box, box[i] # Data
                 PROVE  /\ pool.slot[box[i]] > done["tx"]
                        /\ \A j \in 1..i-1 : box[j] # Data => pool.slot[box[j]] < pool.slot[box[i]]
        BY DEF PoolIntact
    <2>4. \A j \in 1..i-1 : j \in DOMAIN box /\ j < i BY <2>3
    <2>5. pool.slot[box[i]] \in Nat
      <3>1. box[i] \in Slots BY <2>1 DEF Queued
      <3> QED BY <2>2, <3>1 DEF RingType, Slots
    <2>6. done["tx"] < pool.slot[box[i]] BY <2>1 DEF Queued
    <2>7. pool.slot[box[i]] > done["tx"] BY <2>2, <2>5, <2>6
    <2> QED BY <2>1, <2>4, <2>7 DEF Queued
  <1> QED BY Invariance, <1>1, <1>2, <1>3, PTL DEF Spec
=============================================================================
