-------------------------- MODULE WgSessionProofs --------------------------
(***************************************************************************)
(* Proofs about WgSession, for any limits, times and widths.               *)
(*                                                                         *)
(* The slots: IInv says that the keypairs of a peer are in order of age    *)
(* with a current one that is confirmed. It is confirmed because it comes  *)
(* from a handshake of our own or from the next slot on receipt; it is the *)
(* only one that sends, so the next one has counted nothing; and what is   *)
(* started now is younger than anything else.                              *)
(*                                                                         *)
(* The replay window: no packet number passes it twice.                    *)
(*                                                                         *)
(* The keys: KInv says what a session key is used for, from the numbers it *)
(* is made of, with the first two parts.                                   *)
(***************************************************************************)
EXTENDS WgSession, TLAPS

(* The slots of a peer at time t. *)
Confirmed(p) == p.curr.valid => p.curr.initiator \/ p.curr.rx
Unused(p)    == p.next.counter = 0
Ordered(p)   == /\ p.prev.valid /\ p.curr.valid => p.prev.born <= p.curr.born
                /\ p.curr.valid /\ p.next.valid => p.curr.born <= p.next.born
Past(p, t)   == p.curr.born <= t /\ p.next.born <= t /\ p.prev.born <= t

Good(p, t) == p \in Peers /\ Confirmed(p) /\ Unused(p) /\ Ordered(p) /\ Past(p, t)

(* There is room to count one packet more under the current keypair. *)
Room(p) == p.curr.counter <= RejectMessages

(* What holds between any two steps of the two contexts. *)
IInv ==
  /\ TypeOK
  /\ \A n \in Node : /\ Good(peer[n], now)
                     /\ sending[n].slot = "curr"
                     /\ sending[n].busy => Room(peer[n]) /\ sending[n].packet \in Messages

-----------------------------------------------------------------------------
(* Constants, keypairs and messages.                                       *)

LEMMA Bounds ==
  /\ MaxTime \in Nat \ {0} /\ MaxIds \in Nat
  /\ RejectMessages \in Nat \ {0} /\ Window \in Nat \ {0}
  /\ SeqMod \in Nat /\ DiffMod \in Nat /\ DiffMod > 0 /\ SeqMod > 0
  /\ MaxAttempts \in Nat
  BY ConstAssumption, WindowAssumption

LEMMA OtherNode == ASSUME NEW n \in Node PROVE Other(n) \in Node
<1>1. \E m \in Node : m # n
  BY ConstAssumption
<1> QED  BY <1>1 DEF Other

LEMMA EmptyType == EmptyWindow \in Windows
  BY Bounds DEF EmptyWindow, Windows

LEMMA NoKeyType == NoKey \in Keypairs
  BY Bounds, EmptyType DEF NoKey, Keypairs, Keys, Indexes, Nonces

LEMMA NoShakeType == NoShake \in Handshakes
  BY Bounds DEF NoShake, Handshakes, Indexes, Chains

LEMMA NewGood == Good(NewPeer, 1)
<1>1. NewPeer \in Peers
  BY Bounds, NoKeyType, NoShakeType DEF NewPeer, Peers, Indexes
<1> QED  BY <1>1 DEF Good, NewPeer, NoKey, Confirmed, Unused, Ordered, Past

(* What the replay window becomes is a replay window. *)
LEMMA NotedType ==
  ASSUME NEW w \in Windows, NEW nonce \in Nat, Accepts(w, nonce)
  PROVE  Noted(w, nonce) \in Windows
<1> DEFINE q == Number(nonce)
<1>1. q \in 0..SeqMod - 1
  BY Bounds DEF Number
<1>2. w.top \in 0..SeqMod - 1 /\ w.seen \in SUBSET (0..Window - 1)
  BY DEF Windows
<1>3. CASE q > w.top
  BY Bounds, <1>1, <1>2, <1>3 DEF Noted, Windows, Shift
<1>4. CASE ~(q > w.top)
  <2>1. Behind(w, q) \in Nat
    BY Bounds, <1>1, <1>2 DEF Behind
  <2>2. Behind(w, q) < Window
    BY <1>4 DEF Accepts
  <2> QED  BY Bounds, <1>1, <1>2, <1>4, <2>1, <2>2 DEF Noted, Windows
<1> QED  BY <1>3, <1>4
-----------------------------------------------------------------------------
(* What the helpers do to a peer.                                          *)

LEMMA KeyFields ==
  ASSUME NEW k \in Keypairs
  PROVE  /\ k.valid \in BOOLEAN /\ k.initiator \in BOOLEAN /\ k.rx \in BOOLEAN
         /\ k.born \in 0..MaxTime /\ k.counter \in Nonces /\ k.window \in Windows
         /\ k.key \in Keys /\ k.local \in Indexes /\ k.remote \in Indexes
  BY DEF Keypairs

LEMMA PeerFields ==
  ASSUME NEW p \in Peers
  PROVE  /\ p.curr \in Keypairs /\ p.next \in Keypairs /\ p.prev \in Keypairs
         /\ p.shake \in Handshakes /\ p.attempts \in 0..255
  BY DEF Peers

LEMMA SlotType == ASSUME NEW p \in Peers, NEW s \in Slots PROVE p[s] \in Keypairs
<1>1. CASE s = "curr"  BY <1>1 DEF Peers
<1>2. CASE s = "next"  BY <1>2 DEF Peers
<1>3. CASE s = "prev"  BY <1>3 DEF Peers
<1> QED  BY <1>1, <1>2, <1>3 DEF Slots

LEMMA DestroyGood ==
  ASSUME NEW t \in Nat, NEW p, Good(p, t), NEW s \in Slots
  PROVE  Good(Destroy(p, s), t) /\ (Room(p) => Room(Destroy(p, s)))
<1> DEFINE q == Destroy(p, s)
<1> USE DEF Good, Confirmed, Unused, Ordered, Past, Room
<1>1. /\ ~NoKey.valid /\ NoKey.born = 0 /\ NoKey.counter = 0
  BY DEF NoKey
<1>2. CASE s = "curr"
  <2>1. q \in Peers /\ q.curr = NoKey /\ q.next = p.next /\ q.prev = p.prev
    BY <1>2, NoKeyType DEF Destroy, Peers
  <2> QED  BY <1>1, <2>1, Bounds
<1>3. CASE s = "next"
  <2>1. q \in Peers /\ q.curr = p.curr /\ q.next = NoKey /\ q.prev = p.prev
    BY <1>3, NoKeyType DEF Destroy, Peers
  <2> QED  BY <1>1, <2>1, Bounds
<1>4. CASE s = "prev"
  <2>1. q \in Peers /\ q.curr = p.curr /\ q.next = p.next /\ q.prev = NoKey
    BY <1>4, NoKeyType DEF Destroy, Peers
  <2> QED  BY <1>1, <2>1, Bounds
<1> QED  BY <1>2, <1>3, <1>4 DEF Slots

(* Only the current keypair ever sends: SendSlot() never falls back. *)
LEMMA SlotIsCurr == ASSUME NEW t, NEW p, Good(p, t) PROVE SendSlot(p) = "curr"
  BY DEF Good, Confirmed, SendSlot

(* A change to anything but the slots changes nothing of this. *)
LEMMA SlotsSame ==
  ASSUME NEW t, NEW p, Good(p, t), NEW q \in Peers,
         q.curr = p.curr, q.next = p.next, q.prev = p.prev
  PROVE  Good(q, t) /\ (Room(p) => Room(q))
  BY DEF Good, Confirmed, Unused, Ordered, Past, Room

LEMMA RearmGood ==
  ASSUME NEW t, NEW p, Good(p, t)
  PROVE  Good(Rearm(p), t) /\ (Room(p) => Room(Rearm(p)))
<1>1. p \in Peers
  BY DEF Good
<1> DEFINE q == [p EXCEPT !.active = TRUE, !.attempts = 0, !.lastInit = 0]
<1>2. TRUE \in BOOLEAN /\ 0 \in 0..255 /\ 0 \in 0..MaxTime
  BY Bounds
<1>3. q \in Peers
  BY <1>1, <1>2, Zenon DEF Peers
<1>4. q.curr = p.curr /\ q.next = p.next /\ q.prev = p.prev
  BY <1>1 DEF Peers
<1>5. Good(q, t) /\ (Room(p) => Room(q))
  BY <1>3, <1>4, SlotsSame
<1> QED  BY <1>5 DEF Rearm

LEMMA NoSendGood ==
  ASSUME NEW t \in Nat, NEW p, Good(p, t)
  PROVE  Good(NoSend(p), t) /\ (Room(p) => Room(NoSend(p)))
  BY SlotIsCurr, RearmGood, DestroyGood DEF NoSend, Slots

LEMMA CountedGood ==
  ASSUME NEW p, Good(p, now), Room(p), now \in 1..MaxTime
  PROVE  Good(Counted(p, "curr"), now)
<1> DEFINE q == Counted(p, "curr")
           k == [p.curr EXCEPT !.counter = @ + 1]
<1>1. p \in Peers /\ p.curr \in Keypairs /\ p.curr.counter \in Nonces
  BY PeerFields, KeyFields DEF Good
<1>2. /\ k \in Keypairs /\ k.valid = p.curr.valid /\ k.initiator = p.curr.initiator
      /\ k.rx = p.curr.rx /\ k.born = p.curr.born
      /\ k.counter = p.curr.counter + 1
  BY <1>1, Bounds DEF Keypairs, Nonces, Room
<1> DEFINE w == \/ p.wantShake
                \/ k.counter >= RekeyMessages
                \/ k.initiator /\ Expired(k.born, RekeyTime)
<1>3. q = [p EXCEPT !.curr = k, !.lastTx = now, !.wantShake = w]
  BY DEF Counted
<1>4. w \in BOOLEAN /\ now \in 0..MaxTime
  BY Bounds
<1> HIDE DEF k, w
<1>5. [p EXCEPT !.curr = k, !.lastTx = now, !.wantShake = w] \in Peers
  BY <1>1, <1>2, <1>4, Zenon DEF Peers
<1>6. q \in Peers /\ q.curr = k /\ q.next = p.next /\ q.prev = p.prev
  BY <1>1, <1>3, <1>5 DEF Peers
<1> QED  BY <1>2, <1>6 DEF Good, Confirmed, Unused, Ordered, Past

LEMMA CountedRoom ==
  ASSUME NEW p, Good(p, now), CanSend(p), now \in 1..MaxTime
  PROVE  Room(p) /\ Room(Counted(p, "curr"))
<1>1. p.curr \in Keypairs /\ p.curr.counter \in Nonces /\ p \in Peers
  BY PeerFields, KeyFields DEF Good
<1>2. p.curr.counter < RejectMessages
  BY SlotIsCurr DEF CanSend, Live
<1>3. Counted(p, "curr").curr.counter = p.curr.counter + 1
  BY <1>1 DEF Counted, Peers, Keypairs
<1> QED  BY <1>1, <1>2, <1>3, Bounds DEF Room, Nonces

LEMMA SealedType ==
  ASSUME NEW n \in Node, NEW k \in Keypairs, NEW payload \in BOOLEAN
  PROVE  Sealed(n, k, payload) \in Messages
  BY OtherNode, KeyFields DEF Sealed, Messages

LEMMA KeepaliveGood ==
  ASSUME NEW n \in Node, NEW p, Good(p, now), now \in 1..MaxTime
  PROVE  /\ Good(KeepaliveFor(n, p).p, now)
         /\ Room(p) => Room(KeepaliveFor(n, p).p)
         /\ KeepaliveFor(n, p).out \subseteq Messages
<1>1. CASE CanSend(p)
  <2>1. p.curr \in Keypairs
    BY PeerFields DEF Good
  <2> QED  BY <1>1, <2>1, SlotIsCurr, CountedGood, CountedRoom, SealedType DEF KeepaliveFor
<1>2. CASE ~CanSend(p)
  BY <1>2, NoSendGood, Bounds DEF KeepaliveFor
<1> QED  BY <1>1, <1>2

(* A handshake leaves the slots alone. *)
LEMMA InitiatedGood ==
  ASSUME NEW p, Good(p, now), NEW i \in Ids, now \in 1..MaxTime
  PROVE  /\ Good(Initiated(p, i), now)
         /\ Room(p) => Room(Initiated(p, i))
<1> DEFINE h == [p.shake EXCEPT !.valid = TRUE, !.initiator = TRUE, !.local = i,
                                !.chain = <<i>>]
           c == IF p.attempts < 255 THEN p.attempts + 1 ELSE p.attempts
           q == [p EXCEPT !.shake = h, !.wantShake = FALSE, !.lastInit = now,
                          !.attempts = c]
<1>1. p \in Peers /\ p.shake \in Handshakes /\ p.attempts \in 0..255
  BY PeerFields DEF Good
<1>2. TRUE \in BOOLEAN /\ FALSE \in BOOLEAN /\ i \in Indexes /\ <<i>> \in Chains
  BY Bounds DEF Ids, Indexes, Chains
<1>3. h \in Handshakes
  BY <1>1, <1>2, Zenon DEF Handshakes
<1>4. c \in 0..255 /\ now \in 0..MaxTime
  BY <1>1, Bounds
<1> HIDE DEF h, c
<1>5. q \in Peers
  BY <1>1, <1>2, <1>3, <1>4, Zenon DEF Peers
<1>6. q.curr = p.curr /\ q.next = p.next /\ q.prev = p.prev
  BY <1>1 DEF Peers
<1>7. Initiated(p, i) = q
  BY DEF Initiated, h, c
<1> QED  BY <1>5, <1>6, <1>7, SlotsSame

(* A keypair that starts now takes its slot, and the order of age stays. *)
LEMMA AddGood ==
  ASSUME NEW p, Good(p, now), now \in 1..MaxTime,
         NEW k \in Keypairs, k.valid, k.born = now, k.counter = 0
  PROVE  /\ Good(AddKeypair(p, k), now)
         /\ Room(p) => Room(AddKeypair(p, k))
<1> DEFINE q == AddKeypair(p, k)
<1>1. /\ p \in Peers /\ p.curr \in Keypairs /\ p.next \in Keypairs
      /\ p.curr.born \in 0..MaxTime /\ p.next.born \in 0..MaxTime
      /\ p.prev.born \in 0..MaxTime /\ p.prev \in Keypairs
  BY PeerFields, KeyFields DEF Good
<1>2. /\ ~NoKey.valid /\ NoKey.born = 0 /\ NoKey.counter = 0
  BY DEF NoKey
<1> USE DEF Good, Confirmed, Unused, Ordered, Past, Room
<1>3. CASE k.initiator /\ p.next.valid
  <2>1. q = [p EXCEPT !.prev = p.next, !.next = NoKey, !.curr = k]
    BY <1>3 DEF AddKeypair
  <2>2. [p EXCEPT !.prev = p.next, !.next = NoKey, !.curr = k] \in Peers
    BY <1>1, NoKeyType, Zenon DEF Peers
  <2>3. q.curr = k /\ q.next = NoKey /\ q.prev = p.next
    BY <1>1, <2>1 DEF Peers
  <2> QED  BY <1>1, <1>2, <1>3, <2>1, <2>2, <2>3, Bounds
<1>4. CASE k.initiator /\ ~p.next.valid
  <2>1. q = [p EXCEPT !.prev = p.curr, !.next = p.next, !.curr = k]
    BY <1>1, <1>4 DEF AddKeypair
  <2>2. [p EXCEPT !.prev = p.curr, !.next = p.next, !.curr = k] \in Peers
    BY <1>1, Zenon DEF Peers
  <2>3. q.curr = k /\ q.next = p.next /\ q.prev = p.curr
    BY <1>1, <2>1 DEF Peers
  <2> QED  BY <1>1, <1>2, <1>4, <2>1, <2>2, <2>3, Bounds
<1>5. CASE ~k.initiator
  <2>1. q = [p EXCEPT !.next = k, !.prev = NoKey]
    BY <1>5 DEF AddKeypair
  <2>2. [p EXCEPT !.next = k, !.prev = NoKey] \in Peers
    BY <1>1, NoKeyType, Zenon DEF Peers
  <2>3. q.curr = p.curr /\ q.next = k /\ q.prev = NoKey
    BY <1>1, <2>1 DEF Peers
  <2> QED  BY <1>1, <1>2, <1>5, <2>1, <2>2, <2>3, Bounds
<1> QED  BY <1>3, <1>4, <1>5

LEMMA StartGood ==
  ASSUME NEW p, Good(p, now), now \in 1..MaxTime, p.shake.chain \in Ids \X Ids,
         NEW initiator \in BOOLEAN
  PROVE  /\ Good(StartSession(p, initiator), now)
         /\ Room(p) => Room(StartSession(p, initiator))
<1> DEFINE h == [NoShake EXCEPT !.initiator = p.shake.initiator]
           k == [NoKey EXCEPT !.valid = TRUE, !.initiator = initiator,
                              !.key = p.shake.chain, !.born = now,
                              !.local = p.shake.local, !.remote = p.shake.remote]
           q == [p EXCEPT !.shake = h]
           r == AddKeypair(q, k)
<1>1. p \in Peers /\ p.shake \in Handshakes
  BY PeerFields DEF Good
<1>2. /\ p.shake.initiator \in BOOLEAN /\ p.shake.local \in Indexes
      /\ p.shake.remote \in Indexes
  BY <1>1 DEF Handshakes
<1>3. h \in Handshakes
  BY <1>2, NoShakeType, Zenon DEF Handshakes
<1>4. TRUE \in BOOLEAN /\ now \in 0..MaxTime /\ p.shake.chain \in Keys
  BY Bounds DEF Keys
<1>5. k \in Keypairs
  BY <1>2, <1>4, NoKeyType, Zenon DEF Keypairs
<1>6. k.valid /\ k.born = now /\ k.counter = 0
  BY DEF NoKey
<1> HIDE DEF h, k
<1>7. q \in Peers /\ q.curr = p.curr /\ q.next = p.next /\ q.prev = p.prev
  BY <1>1, <1>3 DEF Peers
<1> HIDE DEF q
<1>8. Good(q, now) /\ (Room(p) => Room(q))
  BY <1>7, SlotsSame
<1>9. Good(r, now) /\ (Room(q) => Room(r)) /\ r \in Peers
  BY <1>5, <1>6, <1>8, AddGood DEF Good
<1> HIDE DEF r
<1>10. /\ [r EXCEPT !.attempts = 0] \in Peers
       /\ [r EXCEPT !.attempts = 0].curr = r.curr
       /\ [r EXCEPT !.attempts = 0].next = r.next
       /\ [r EXCEPT !.attempts = 0].prev = r.prev
  BY <1>9 DEF Peers
<1>11. StartSession(p, initiator) = [r EXCEPT !.attempts = 0]
  BY DEF StartSession, r, q, k, h
<1> QED  BY <1>8, <1>9, <1>10, <1>11, SlotsSame

(* A keypair that differs in what was received on it takes no other part.  *)
LEMMA SlotGood ==
  ASSUME NEW t \in Nat, NEW p, Good(p, t), NEW s \in Slots, NEW k \in Keypairs,
         k.valid = p[s].valid, k.initiator = p[s].initiator, k.born = p[s].born,
         k.counter = p[s].counter, p[s].rx => k.rx
  PROVE  /\ Good([p EXCEPT ![s] = k], t)
         /\ Room(p) => Room([p EXCEPT ![s] = k])
<1> DEFINE q == [p EXCEPT ![s] = k]
<1>1. p \in Peers
  BY DEF Good
<1> USE DEF Good, Confirmed, Unused, Ordered, Past, Room
<1>2. CASE s = "curr"
  <2>1. q \in Peers /\ q.curr = k /\ q.next = p.next /\ q.prev = p.prev
    BY <1>1, <1>2 DEF Peers
  <2> QED  BY <1>2, <2>1
<1>3. CASE s = "next"
  <2>1. q \in Peers /\ q.curr = p.curr /\ q.next = k /\ q.prev = p.prev
    BY <1>1, <1>3 DEF Peers
  <2> QED  BY <1>3, <2>1
<1>4. CASE s = "prev"
  <2>1. q \in Peers /\ q.curr = p.curr /\ q.next = p.next /\ q.prev = k
    BY <1>1, <1>4 DEF Peers
  <2> QED  BY <1>4, <2>1
<1> QED  BY <1>2, <1>3, <1>4 DEF Slots

(* Only the next keypair moves when it is heard; it is heard by then, and  *)
(* younger than the one it replaces.                                       *)
LEMMA HeardGood ==
  ASSUME NEW t \in Nat, NEW p, Good(p, t), NEW s \in Slots, p[s].valid
  PROVE  /\ Good(Heard(p, s), t)
         /\ Room(p) => Room(Heard(p, s))
<1> DEFINE k == [p[s] EXCEPT !.rx = TRUE]
           q == [p EXCEPT ![s] = k]
<1>1. p[s] \in Keypairs /\ p \in Peers
  BY SlotType DEF Good
<1>2. k \in Keypairs
  BY <1>1, Zenon DEF Keypairs
<1>3. /\ k.valid = p[s].valid /\ k.initiator = p[s].initiator /\ k.born = p[s].born
      /\ k.counter = p[s].counter /\ k.rx
  BY <1>1 DEF Keypairs
<1>4. Heard(p, s) = Rotate(q, s)
  BY DEF Heard
<1> HIDE DEF k
<1>5. Good(q, t) /\ (Room(p) => Room(q))
  BY <1>2, <1>3, SlotGood
<1>6. CASE s = "next"
  <2> DEFINE r == [q EXCEPT !.prev = q.curr, !.curr = q.next, !.next = NoKey]
  <2>1. q.next = k /\ q.next.valid /\ q.next.rx
    BY <1>1, <1>3, <1>6 DEF Peers
  <2>2. /\ q \in Peers /\ q.curr \in Keypairs /\ q.next \in Keypairs
        /\ q.next.born \in 0..MaxTime
    BY <1>5, PeerFields, KeyFields DEF Good
  <2> HIDE DEF q
  <2>3. r \in Peers
    BY <2>2, NoKeyType, Zenon DEF Peers
  <2>4. r.curr = q.next /\ r.next = NoKey /\ r.prev = q.curr
    BY <2>2 DEF Peers
  <2>5. ~NoKey.valid /\ NoKey.born = 0 /\ NoKey.counter = 0
    BY DEF NoKey
  <2>6. Good(r, t) /\ Room(r)
    BY <1>5, <2>1, <2>2, <2>3, <2>4, <2>5, Bounds
    DEF Good, Confirmed, Unused, Ordered, Past, Room
  <2>7. Heard(p, s) = r
    BY <1>4, <1>6 DEF Rotate
  <2> QED  BY <2>6, <2>7
<1>7. CASE s # "next"
  BY <1>4, <1>5, <1>7 DEF Rotate
<1> QED  BY <1>6, <1>7

(* The last step of receiving: the wish for a key, and the replay window.  *)
LEMMA NotedGood ==
  ASSUME NEW t \in Nat, NEW p, Good(p, t), NEW s \in Slots,
         NEW w \in Windows, NEW wish \in BOOLEAN
  PROVE  /\ Good([p EXCEPT !.wantShake = wish, ![s].window = w], t)
         /\ Room(p) => Room([p EXCEPT !.wantShake = wish, ![s].window = w])
<1> DEFINE q == [p EXCEPT !.wantShake = wish]
           k == [q[s] EXCEPT !.window = w]
           r == [q EXCEPT ![s] = k]
<1>1. p \in Peers
  BY DEF Good
<1>2. q \in Peers /\ q.curr = p.curr /\ q.next = p.next /\ q.prev = p.prev
  BY <1>1 DEF Peers
<1>3. Good(q, t) /\ (Room(p) => Room(q))
  BY <1>2, SlotsSame
<1>4. q[s] \in Keypairs
  BY <1>2, SlotType
<1> HIDE DEF q
<1>5. k \in Keypairs
  BY <1>4, Zenon DEF Keypairs
<1>6. /\ k.valid = q[s].valid /\ k.initiator = q[s].initiator /\ k.born = q[s].born
      /\ k.counter = q[s].counter /\ k.rx = q[s].rx
  BY <1>4 DEF Keypairs
<1>7. Good(r, t) /\ (Room(q) => Room(r))
  BY <1>3, <1>5, <1>6, SlotGood
<1>8. [p EXCEPT !.wantShake = wish, ![s].window = w] = r
  BY DEF q, k
<1> QED  BY <1>3, <1>7, <1>8

LEMMA ResetGood ==
  ASSUME NEW t \in Nat, NEW p, Good(p, t)
  PROVE  /\ Good(Reset(p), t)
         /\ Room(p) => Room(Reset(p))
<1> DEFINE q == [p EXCEPT !.next = NoKey, !.curr = NoKey, !.prev = NoKey]
<1>1. p \in Peers
  BY DEF Good
<1>2. q \in Peers
  BY <1>1, NoKeyType, Zenon DEF Peers
<1>3. q.curr = NoKey /\ q.next = NoKey /\ q.prev = NoKey
  BY <1>1 DEF Peers
<1>4. ~NoKey.valid /\ NoKey.born = 0 /\ NoKey.counter = 0
  BY DEF NoKey
<1>5. Good(q, t) /\ Room(q)
  BY <1>2, <1>3, <1>4, Bounds DEF Good, Confirmed, Unused, Ordered, Past, Room
<1> QED  BY <1>5 DEF Reset

LEMMA DropDeadGood ==
  ASSUME NEW t \in Nat, NEW p, Good(p, t)
  PROVE  /\ Good(DropDead(p), t)
         /\ Room(p) => Room(DropDead(p))
  BY DestroyGood DEF DropDead, Slots

-----------------------------------------------------------------------------
(* The actions.                                                            *)

LEMMA MessageFields ==
  ASSUME NEW m \in Messages
  PROVE  /\ m.type = "initiation" => m.sender \in Ids
         /\ m.type = "response" => /\ m.sender \in Ids /\ m.receiver \in Ids
                                   /\ m.chain \in Ids \X Ids
         /\ m.type = "data" => m.counter \in Nonces /\ m.payload \in BOOLEAN
  BY DEF Messages

(* A step of the manager task on device n. *)
LEMMA ManagerStep ==
  ASSUME IInv, NEW n \in Node, NEW q, Good(q, now), Room(peer[n]) => Room(q),
         peer' = [peer EXCEPT ![n] = q], sending' = sending, now' = now,
         net' \subseteq Messages, ids' \in Indexes
  PROVE  IInv'
<1>1. q \in Peers /\ peer \in [Node -> Peers]
  BY DEF Good, IInv, TypeOK
<1>2. peer' \in [Node -> Peers] /\ peer'[n] = q
  BY <1>1
<1>3. \A i \in Node \ {n} : peer'[i] = peer[i]
  BY <1>1
<1>4. TypeOK'
  BY <1>2 DEF IInv, TypeOK
<1>5. ASSUME NEW i \in Node
      PROVE  /\ Good(peer'[i], now)
             /\ sending'[i].slot = "curr"
             /\ sending'[i].busy => Room(peer'[i]) /\ sending'[i].packet \in Messages
  BY <1>2, <1>3 DEF IInv
<1> QED  BY <1>4, <1>5 DEF IInv, Good, Confirmed, Unused, Ordered, Past, Room

LEMMA SendStep == ASSUME IInv, NEW n \in Node, Send(n) PROVE IInv'
<1> DEFINE p == peer[n]
<1>1. Good(p, now) /\ now \in 1..MaxTime /\ p.curr \in Keypairs /\ now \in Nat
  BY PeerFields DEF IInv, TypeOK, Good
<1>2. CASE CanSend(p)
  <2> DEFINE x == [busy |-> TRUE, slot |-> "curr", packet |-> Sealed(n, p.curr, TRUE)]
  <2>1. Sealed(n, p.curr, TRUE) \in Messages
    BY <1>1, SealedType
  <2>2. x \in Sendings /\ x.slot = "curr" /\ x.packet \in Messages
    BY <2>1 DEF Sendings, Slots
  <2>3. /\ sending' = [sending EXCEPT ![n] = x]
        /\ peer' = peer /\ net' = net /\ now' = now /\ ids' = ids
    BY <1>1, <1>2, SlotIsCurr DEF Send
  <2>4. Room(p)
    BY <1>1, <1>2, CountedRoom
  <2> HIDE DEF x
  <2>5. sending \in [Node -> Sendings]
    BY DEF IInv, TypeOK
  <2>6. sending' \in [Node -> Sendings]
    BY <2>2, <2>3, <2>5
  <2>7. \A i \in Node : sending'[i] = IF i = n THEN x ELSE sending[i]
    BY <2>3, <2>5
  <2>8. TypeOK'
    BY <2>3, <2>6 DEF IInv, TypeOK
  <2> QED  BY <2>2, <2>3, <2>4, <2>7, <2>8
           DEF IInv, Good, Confirmed, Unused, Ordered, Past, Room
<1>3. CASE ~CanSend(p)
  <2>1. /\ peer' = [peer EXCEPT ![n] = NoSend(p)] /\ sending' = sending
        /\ net' = net /\ now' = now /\ ids' = ids
    BY <1>3 DEF Send
  <2>2. Good(NoSend(p), now) /\ (Room(p) => Room(NoSend(p)))
    BY <1>1, NoSendGood
  <2> QED  BY <2>1, <2>2, ManagerStep DEF IInv, TypeOK
<1> QED  BY <1>2, <1>3

LEMMA SendDoneStep == ASSUME IInv, NEW n \in Node, SendDone(n) PROVE IInv'
<1> DEFINE p == peer[n]
           q == Counted(p, "curr")
<1>1. /\ Good(p, now) /\ now \in 1..MaxTime /\ Room(p) /\ sending[n].slot = "curr"
      /\ sending[n].packet \in Messages
  BY DEF IInv, TypeOK, SendDone
<1>2. Good(q, now)
  BY <1>1, CountedGood
<1>3. /\ peer' = [peer EXCEPT ![n] = q] /\ sending' = [sending EXCEPT ![n] = Idle]
      /\ net' = net \cup {sending[n].packet} /\ now' = now /\ ids' = ids
  BY <1>1 DEF SendDone
<1>4. /\ peer \in [Node -> Peers] /\ sending \in [Node -> Sendings]
      /\ net \subseteq Messages /\ q \in Peers
  BY <1>2 DEF IInv, TypeOK, Good
<1>5. Idle \in Sendings /\ ~Idle.busy /\ Idle.slot = "curr"
  BY DEF Idle, Sendings, Slots
<1> HIDE DEF q
<1>6. \A i \in Node : /\ peer'[i] = IF i = n THEN q ELSE peer[i]
                      /\ sending'[i] = IF i = n THEN Idle ELSE sending[i]
  BY <1>3, <1>4
<1>7. peer' \in [Node -> Peers] /\ sending' \in [Node -> Sendings]
  BY <1>3, <1>4, <1>5
<1>8. TypeOK'
  BY <1>1, <1>3, <1>4, <1>7 DEF IInv, TypeOK
<1>9. ASSUME NEW i \in Node
      PROVE  /\ Good(peer'[i], now)
             /\ sending'[i].slot = "curr"
             /\ sending'[i].busy => Room(peer'[i]) /\ sending'[i].packet \in Messages
  BY <1>2, <1>5, <1>6 DEF IInv
<1> QED  BY <1>3, <1>8, <1>9 DEF IInv, Good, Confirmed, Unused, Ordered, Past, Room

LEMMA ConnectStep == ASSUME IInv, NEW n \in Node, Connect(n) PROVE IInv'
<1> DEFINE q == Initiated(peer[n], ids + 1)
           r == [q EXCEPT !.active = TRUE]
<1>1. /\ Good(peer[n], now) /\ now \in 1..MaxTime /\ net \subseteq Messages
      /\ ids + 1 \in Ids /\ ids + 1 \in Indexes
  BY Bounds DEF IInv, TypeOK, Connect, Ids, Indexes
<1>2. Good(q, now) /\ (Room(peer[n]) => Room(q)) /\ q \in Peers
  BY <1>1, InitiatedGood DEF Good
<1> HIDE DEF q
<1>3. r \in Peers
  BY <1>2, Zenon DEF Peers
<1>4. r.curr = q.curr /\ r.next = q.next /\ r.prev = q.prev
  BY <1>2 DEF Peers
<1>5. Good(r, now) /\ (Room(peer[n]) => Room(r))
  BY <1>2, <1>3, <1>4, SlotsSame
<1>6. Initiation(n, ids + 1) \in Messages
  BY <1>1, OtherNode DEF Initiation, Messages
<1>7. /\ peer' = [peer EXCEPT ![n] = r] /\ sending' = sending /\ now' = now
      /\ net' \subseteq Messages /\ ids' \in Indexes
  BY <1>1, <1>6 DEF Connect, q
<1> QED  BY <1>5, <1>7, ManagerStep

LEMMA RecvInitiationStep == ASSUME IInv, NEW n \in Node, RecvInitiation(n) PROVE IInv'
<1> DEFINE r == ids + 1
           h(m) == [valid |-> TRUE, initiator |-> FALSE, local |-> r,
                    remote |-> m.sender, chain |-> <<m.sender, r>>]
           p(m) == [peer[n] EXCEPT !.greatest = m.sender, !.shake = h(m)]
           out(m) == [type |-> "response", to |-> Other(n), sender |-> r,
                      receiver |-> m.sender, chain |-> p(m).shake.chain]
<1>1. PICK m \in net :
        /\ m.type = "initiation"
        /\ peer' = [peer EXCEPT ![n] = StartSession(p(m), FALSE)]
        /\ net' = net \cup {out(m)} /\ ids' = r
  BY DEF RecvInitiation
<1>2. /\ Good(peer[n], now) /\ now \in 1..MaxTime /\ net \subseteq Messages
      /\ r \in Ids /\ r \in Indexes
  BY Bounds DEF IInv, TypeOK, RecvInitiation, Ids, Indexes
<1>3. m.sender \in Ids /\ m.sender \in Indexes
  BY <1>1, <1>2, MessageFields, Bounds DEF Ids, Indexes
<1>4. <<m.sender, r>> \in Ids \X Ids
  BY <1>2, <1>3
<1>5. h(m) \in Handshakes /\ h(m).chain = <<m.sender, r>>
  BY <1>2, <1>3, <1>4 DEF Handshakes, Chains
<1> HIDE DEF h
<1>6. peer[n] \in Peers
  BY <1>2 DEF Good
<1>7. p(m) \in Peers
  BY <1>3, <1>5, <1>6, Zenon DEF Peers
<1>8. /\ p(m).curr = peer[n].curr /\ p(m).next = peer[n].next
      /\ p(m).prev = peer[n].prev /\ p(m).shake = h(m)
  BY <1>6 DEF Peers
<1> HIDE DEF p
<1>9. /\ Good(StartSession(p(m), FALSE), now)
      /\ Room(peer[n]) => Room(StartSession(p(m), FALSE))
  BY <1>2, <1>4, <1>5, <1>7, <1>8, SlotsSame, StartGood
<1>10. out(m) \in Messages
  BY <1>2, <1>3, <1>4, <1>5, <1>8, OtherNode DEF Messages
<1> HIDE DEF out
<1>11. net' \subseteq Messages /\ ids' \in Indexes
  BY <1>1, <1>2, <1>10
<1>12. sending' = sending /\ now' = now
  BY DEF RecvInitiation
<1> QED  BY <1>1, <1>9, <1>11, <1>12, ManagerStep

LEMMA RecvResponseStep == ASSUME IInv, NEW n \in Node, RecvResponse(n) PROVE IInv'
<1> DEFINE h(m) == [peer[n].shake EXCEPT !.remote = m.sender, !.chain = m.chain]
           p(m) == [peer[n] EXCEPT !.shake = h(m)]
           k(m) == KeepaliveFor(n, StartSession(p(m), TRUE))
<1>1. PICK m \in net :
        /\ m.type = "response"
        /\ peer' = [peer EXCEPT ![n] = k(m).p]
        /\ net' = net \cup k(m).out
  BY DEF RecvResponse
<1>2. Good(peer[n], now) /\ now \in 1..MaxTime /\ net \subseteq Messages
  BY DEF IInv, TypeOK
<1>3. m.sender \in Indexes /\ m.chain \in Ids \X Ids /\ m.chain \in Chains
  BY <1>1, <1>2, MessageFields, Bounds DEF Ids, Indexes, Chains
<1>4. peer[n] \in Peers /\ peer[n].shake \in Handshakes
  BY <1>2, PeerFields DEF Good
<1>5. h(m) \in Handshakes
  BY <1>3, <1>4, Zenon DEF Handshakes
<1>6. h(m).chain = m.chain
  BY <1>4 DEF Handshakes
<1> HIDE DEF h
<1>7. p(m) \in Peers
  BY <1>4, <1>5, Zenon DEF Peers
<1>8. /\ p(m).curr = peer[n].curr /\ p(m).next = peer[n].next
      /\ p(m).prev = peer[n].prev /\ p(m).shake = h(m)
  BY <1>4 DEF Peers
<1> HIDE DEF p
<1>9. /\ Good(StartSession(p(m), TRUE), now)
      /\ Room(peer[n]) => Room(StartSession(p(m), TRUE))
  BY <1>2, <1>3, <1>6, <1>7, <1>8, SlotsSame, StartGood
<1>10. /\ Good(k(m).p, now) /\ (Room(peer[n]) => Room(k(m).p))
       /\ k(m).out \subseteq Messages
  BY <1>2, <1>9, KeepaliveGood
<1> HIDE DEF k
<1>11. net' \subseteq Messages /\ ids' \in Indexes /\ sending' = sending /\ now' = now
  BY <1>1, <1>2, <1>10 DEF RecvResponse, IInv, TypeOK
<1> QED  BY <1>1, <1>10, <1>11, ManagerStep

LEMMA RecvDataStep == ASSUME IInv, NEW n \in Node, RecvData(n) PROVE IInv'
<1> DEFINE p == peer[n]
           s(m) == SlotFor(p, m)
           q(m) == Heard(p, s(m))
           fresh(m) == m.payload /\ Accepts(q(m)[s(m)].window, m.counter)
           w(m) == IF fresh(m) THEN Noted(q(m)[s(m)].window, m.counter)
                   ELSE q(m)[s(m)].window
           r(m) == [q(m) EXCEPT !.wantShake = WantsRekey(q(m), s(m)),
                                ![s(m)].window = w(m)]
<1>1. PICK m \in net :
        /\ m.type = "data" /\ HasSlotFor(p, m)
        /\ \/ ~Live(p[s(m)]) /\ peer' = [peer EXCEPT ![n] = Destroy(p, s(m))]
           \/ peer' = [peer EXCEPT ![n] =
                [q(m) EXCEPT !.wantShake = WantsRekey(q(m), s(m)),
                             ![s(m)].window = IF fresh(m) THEN Noted(@, m.counter)
                                              ELSE @]]
  BY DEF RecvData
<1>2. /\ Good(p, now) /\ now \in 1..MaxTime /\ now \in Nat /\ net \subseteq Messages
      /\ p \in Peers
  BY DEF IInv, TypeOK, Good
<1>3. s(m) \in Slots /\ p[s(m)].valid
  BY <1>1 DEF HasSlotFor, SlotFor
<1>4. sending' = sending /\ now' = now /\ net' \subseteq Messages /\ ids' \in Indexes
  BY <1>2 DEF RecvData, IInv, TypeOK
<1>5. CASE peer' = [peer EXCEPT ![n] = Destroy(p, s(m))]
  <2>1. /\ Good(Destroy(p, s(m)), now)
        /\ Room(p) => Room(Destroy(p, s(m)))
    BY <1>2, <1>3, DestroyGood
  <2> QED  BY <1>4, <1>5, <2>1, ManagerStep
<1>6. CASE peer' = [peer EXCEPT ![n] =
             [q(m) EXCEPT !.wantShake = WantsRekey(q(m), s(m)),
                          ![s(m)].window = IF fresh(m) THEN Noted(@, m.counter) ELSE @]]
  <2>1. Good(q(m), now) /\ (Room(p) => Room(q(m))) /\ q(m) \in Peers
    BY <1>2, <1>3, HeardGood DEF Good
  <2>2. q(m)[s(m)].window \in Windows
    BY <1>3, <2>1, SlotType, KeyFields
  <2>3. m.counter \in Nat
    BY <1>1, <1>2, MessageFields, Bounds DEF Nonces
  <2>4. w(m) \in Windows
    BY <2>2, <2>3, NotedType
  <2>5. WantsRekey(q(m), s(m)) \in BOOLEAN
    BY DEF WantsRekey
  <2>6. peer' = [peer EXCEPT ![n] = r(m)]
    BY <1>6
  <2> HIDE DEF q, w
  <2>7. Good(r(m), now) /\ (Room(q(m)) => Room(r(m)))
    BY <1>2, <1>3, <2>1, <2>4, <2>5, NotedGood
  <2> QED  BY <1>4, <2>1, <2>6, <2>7, ManagerStep
<1> QED  BY <1>1, <1>5, <1>6

LEMMA PeriodicStep == ASSUME IInv, NEW n \in Node, Periodic(n) PROVE IInv'
<1> DEFINE p == DropDead(Reset(peer[n]))
           k == IF KeepaliveDue(p) THEN KeepaliveFor(n, p) ELSE [p |-> p, out |-> {}]
<1>1. Good(peer[n], now) /\ now \in 1..MaxTime /\ now \in Nat /\ net \subseteq Messages
  BY DEF IInv, TypeOK
<1>2. Good(p, now) /\ (Room(peer[n]) => Room(p))
  BY <1>1, ResetGood, DropDeadGood
<1> HIDE DEF p
<1>3. /\ Good(k.p, now) /\ (Room(peer[n]) => Room(k.p)) /\ k.out \subseteq Messages
  BY <1>1, <1>2, KeepaliveGood
<1>4. sending' = sending /\ now' = now
  BY DEF Periodic
<1>5. \/ /\ ids < MaxIds /\ ids' = ids + 1
         /\ peer' = [peer EXCEPT ![n] = Initiated(k.p, ids + 1)]
         /\ net' = net \cup k.out \cup {Initiation(n, ids + 1)}
      \/ /\ peer' = [peer EXCEPT ![n] = k.p]
         /\ net' = net \cup k.out /\ ids' = ids
  BY DEF Periodic, p
<1> HIDE DEF k
<1>6. CASE /\ ids < MaxIds /\ ids' = ids + 1
           /\ peer' = [peer EXCEPT ![n] = Initiated(k.p, ids + 1)]
           /\ net' = net \cup k.out \cup {Initiation(n, ids + 1)}
  <2>1. ids + 1 \in Ids /\ ids + 1 \in Indexes
    BY <1>6, Bounds DEF IInv, TypeOK, Ids, Indexes
  <2>2. /\ Good(Initiated(k.p, ids + 1), now)
        /\ Room(k.p) => Room(Initiated(k.p, ids + 1))
    BY <1>1, <1>3, <2>1, InitiatedGood
  <2>3. Initiation(n, ids + 1) \in Messages
    BY <2>1, OtherNode DEF Initiation, Messages
  <2> QED  BY <1>1, <1>3, <1>4, <1>6, <2>1, <2>2, <2>3, ManagerStep
<1>7. CASE /\ peer' = [peer EXCEPT ![n] = k.p]
           /\ net' = net \cup k.out /\ ids' = ids
  BY <1>1, <1>3, <1>4, <1>7, ManagerStep DEF IInv, TypeOK
<1> QED  BY <1>5, <1>6, <1>7

LEMMA TickStep == ASSUME IInv, Tick PROVE IInv'
<1>1. /\ now \in 1..MaxTime /\ now' = now + 1 /\ now' \in 1..MaxTime
      /\ peer' = peer /\ sending' = sending /\ net' = net /\ ids' = ids
  BY Bounds DEF IInv, TypeOK, Tick
<1>2. ASSUME NEW n \in Node PROVE Good(peer[n], now + 1)
  <2>1. Good(peer[n], now)
    BY DEF IInv
  <2>2. /\ peer[n].curr.born \in 0..MaxTime /\ peer[n].next.born \in 0..MaxTime
        /\ peer[n].prev.born \in 0..MaxTime
    BY <2>1, PeerFields, KeyFields DEF Good
  <2> QED  BY <1>1, <2>1, <2>2, Bounds DEF Good, Past
<1> QED  BY <1>1, <1>2 DEF IInv, TypeOK, Good, Confirmed, Unused, Ordered, Past, Room

-----------------------------------------------------------------------------
(* The invariant, and what follows from it.                                *)

LEMMA InvInit == Init => IInv
<1> SUFFICES ASSUME Init PROVE IInv
  OBVIOUS
<1>1. Good(NewPeer, 1) /\ NewPeer \in Peers
  BY NewGood DEF Good
<1>2. Idle \in Sendings /\ ~Idle.busy /\ Idle.slot = "curr"
  BY DEF Idle, Sendings, Slots
<1>3. 1 \in 1..MaxTime /\ 0 \in Indexes
  BY Bounds DEF Indexes
<1>4. TypeOK
  BY <1>1, <1>2, <1>3 DEF Init, TypeOK
<1> QED  BY <1>1, <1>2, <1>4 DEF Init, IInv

LEMMA InvStep == IInv /\ [Next]_vars => IInv'
<1> SUFFICES ASSUME IInv, [Next]_vars PROVE IInv'
  OBVIOUS
<1>1. CASE Tick
  BY <1>1, TickStep
<1>2. ASSUME NEW n \in Node, Device(n) PROVE IInv'
  BY <1>2, SendStep, SendDoneStep, ConnectStep, RecvInitiationStep, RecvResponseStep,
     RecvDataStep, PeriodicStep DEF Device
<1>3. CASE UNCHANGED vars
  BY <1>3 DEF vars, IInv, TypeOK, Good, Confirmed, Unused, Ordered, Past, Room
<1> QED  BY <1>1, <1>2, <1>3 DEF Next

(* The inductive invariant: every handler of wireguard.c and wireguardif.c *)
(* leaves the slots typed, confirmed, unused and in order of age, however  *)
(* the manager task and the TCP/IP thread take turns.                      *)
THEOREM Invariance == Spec => []IInv
  BY InvInit, InvStep, PTL DEF Spec

(* Slots, packets and timers stay what they are declared to be; a counter  *)
(* passes REJECT_AFTER_MESSAGES by one at most.                            *)
THEOREM TypeCorrect == Spec => []TypeOK
<1>1. IInv => TypeOK
  BY DEF IInv
<1> QED  BY <1>1, Invariance, PTL

(* wireguardif_output_to_peer() never needs the previous keypair: the      *)
(* current one, if there is one, is confirmed.                             *)
THEOREM ConfirmedCorrect == Spec => []CurrentIsConfirmed
<1>1. IInv => CurrentIsConfirmed
  BY DEF IInv, Good, Confirmed, CurrentIsConfirmed, Usable
<1> QED  BY <1>1, Invariance, PTL

(* keypair_update() and add_new_keypair() keep the slots in order of age:  *)
(* a late packet never brings an older session back.                       *)
THEOREM OrderCorrect == Spec => []SlotsInOrder
<1>1. IInv => SlotsInOrder
  BY DEF IInv, Good, Ordered, SlotsInOrder
<1> QED  BY <1>1, Invariance, PTL

-----------------------------------------------------------------------------
(* The replay window: no packet number passes it twice, for every width of  *)
(* the window, of the distance and of the packet number.                    *)

(* The window w knows of every packet in `given`: none is above its top,   *)
(* and those that are not too far below it are marked.                     *)
Tracks(w, given) ==
  \A x \in given :
    /\ x + 1 <= w.top
    /\ w.top - (x + 1) < Window => w.top - (x + 1) \in w.seen

(* What is below the modulus is its own remainder. *)
LEMMA SmallMod ==
  ASSUME NEW m \in Nat, NEW i \in 0..m - 1
  PROVE  i % m = i
  OBVIOUS

(* A window that has seen nothing knows of no packets.                     *)
LEMMA EmptyTracks == EmptyWindow \in Windows /\ Tracks(EmptyWindow, {})
  BY WindowAssumption DEF EmptyWindow, Windows, Tracks

(* wireguard_check_replay() accepts no packet it has accepted before, and  *)
(* goes on knowing of all it accepted, whatever the order they come in. The*)
(* packet must be less than DiffMod behind the newest: further back, the   *)
(* 32-bit distance is no longer the true one.                              *)
THEOREM NeverTwice ==
  ASSUME NEW w \in Windows, NEW given \in SUBSET Nat, Tracks(w, given),
         NEW nonce \in Nat, nonce + 1 < SeqMod, w.top - (nonce + 1) < DiffMod,
         Accepts(w, nonce)
  PROVE  /\ nonce \notin given
         /\ Noted(w, nonce) \in Windows
         /\ Tracks(Noted(w, nonce), given \cup {nonce})
<1> DEFINE q == nonce + 1
           v == Noted(w, nonce)
<1>1. /\ Window \in Nat \ {0} /\ DiffMod \in Nat /\ SeqMod \in Nat
      /\ Window <= DiffMod /\ DiffMod <= SeqMod
  BY WindowAssumption
<1>2. /\ w.top \in 0..SeqMod - 1 /\ w.seen \in SUBSET (0..Window - 1)
      /\ w = [top |-> w.top, seen |-> w.seen]
  BY DEF Windows
<1>3. Number(nonce) = q
  BY <1>1, SmallMod DEF Number
<1>4. q \in 1..SeqMod - 1
  BY <1>1
<1>5. CASE q > w.top
  <2>1. nonce \notin given
    BY <1>2, <1>4, <1>5 DEF Tracks
  <2>2. v.top = q /\ 0 \in v.seen
    BY <1>3, <1>5 DEF Noted
  <2>3. v \in Windows
    BY <1>1, <1>2, <1>3, <1>4, <1>5 DEF Noted, Windows, Shift
  <2>4. ASSUME NEW x \in given, q - (x + 1) < Window
        PROVE  q - (x + 1) \in v.seen
    <3>1. /\ x \in Nat /\ x + 1 <= w.top
          /\ w.top - (x + 1) < Window => w.top - (x + 1) \in w.seen
      BY DEF Tracks
    <3>2. q - w.top \in 0..DiffMod - 1 /\ q - w.top < Window
      BY <1>1, <1>2, <1>4, <1>5, <2>4, <3>1
    <3>3. Ahead(w, q) = q - w.top
      BY <1>1, <3>2, SmallMod DEF Ahead
    <3>4. w.top - (x + 1) \in w.seen
      BY <1>1, <1>2, <1>4, <1>5, <2>4, <3>1
    <3>5. q - (x + 1) \in Shift(w.seen, q - w.top)
      <4>1. q - (x + 1) \in 0..Window - 1
        BY <1>1, <1>2, <1>4, <1>5, <2>4, <3>1
      <4>2. (q - (x + 1)) - (q - w.top) = w.top - (x + 1)
        BY <1>2, <1>4, <3>1
      <4> QED  BY <3>4, <4>1, <4>2 DEF Shift
    <3> QED  BY <1>3, <1>5, <3>2, <3>3, <3>5 DEF Noted
  <2>5. Tracks(v, given \cup {nonce})
    <3> SUFFICES ASSUME NEW x \in given \cup {nonce}
                 PROVE  /\ x + 1 <= v.top
                        /\ v.top - (x + 1) < Window => v.top - (x + 1) \in v.seen
      BY DEF Tracks
    <3>1. CASE x = nonce
      BY <2>2, <3>1
    <3>2. CASE x \in given
      BY <1>2, <1>4, <1>5, <2>2, <2>4, <3>2 DEF Tracks
    <3> QED  BY <3>1, <3>2
  <2> QED  BY <2>1, <2>3, <2>5
<1>6. CASE q <= w.top
  <2>1. w.top - q \in 0..DiffMod - 1
    BY <1>1, <1>2, <1>4, <1>6
  <2>2. Behind(w, q) = w.top - q
    BY <1>1, <2>1, SmallMod DEF Behind
  <2>3. w.top - q < Window /\ w.top - q \notin w.seen
    BY <1>2, <1>3, <1>4, <1>6, <2>2 DEF Accepts
  <2>4. nonce \notin given
    BY <2>3 DEF Tracks
  <2>5. v = [top |-> w.top, seen |-> w.seen \cup {w.top - q}]
    BY <1>2, <1>3, <1>4, <1>6, <2>2 DEF Noted
  <2>6. v \in Windows
    BY <1>1, <1>2, <1>4, <1>6, <2>3, <2>5 DEF Windows
  <2>7. Tracks(v, given \cup {nonce})
    BY <1>2, <1>4, <1>6, <2>5 DEF Tracks
  <2> QED  BY <2>4, <2>6, <2>7
<1> QED  BY <1>2, <1>4, <1>5, <1>6

-----------------------------------------------------------------------------
(***************************************************************************)
(* What a session key is used for.  The invariant follows the numbers a    *)
(* key is made of: the initiation that carries the first was sent by one   *)
(* device and is answered once, the second was drawn for one response.  So *)
(* a keypair that is started has a key under which nothing was sent or     *)
(* handed up on this device, and from then on its counter is ahead of what *)
(* was sent and its window knows what was handed up.  N stands for the     *)
(* packets sent, S for the packet that is sealed but not counted, G and O  *)
(* for `got` and `opened`.                                                 *)
(***************************************************************************)

Data(n, N)       == {m \in N : m.type = "data" /\ m.to = Other(n)}
Pending(x)       == IF x.busy THEN {x.packet} ELSE {}

(* n has sent initiation i, and waits no longer for its answer. *)
Began(n, p, N, i) ==
  Initiation(n, i) \in N /\ ~(p.shake.valid /\ p.shake.local = i)

(* n has sent the response with number r. *)
Replied(n, N, r) ==
  \E m \in N : m.type = "response" /\ m.to = Other(n) /\ m.sender = r

Mine(n, p, N, key) == Began(n, p, N, key[1]) \/ Replied(n, N, key[2])

(* A number was drawn for one message to one device. *)
Numbers(N, i) ==
  \A m \in N : m.type # "data" =>
    /\ m.sender <= i
    /\ m.type = "response" => m.chain = <<m.receiver, m.sender>>
    /\ \A o \in N : o.type # "data" /\ o.sender = m.sender
                      => o.type = m.type /\ o.to = m.to

(* The handshake that waits for an answer is our own. *)
Shaking(n, p, N) ==
  p.shake.valid => /\ p.shake.initiator /\ p.shake.chain = <<p.shake.local>>
                   /\ Initiation(n, p.shake.local) \in N

(* A keypair is called after the two numbers, whichever end this is. *)
Named(n, p, N, k) ==
  k.valid => /\ k.initiator => k.key = <<k.local, k.remote>> /\ Began(n, p, N, k.local)
             /\ ~k.initiator => k.key = <<k.remote, k.local>> /\ Replied(n, N, k.local)

Apart(k, l) == k.valid /\ l.valid => k.key # l.key

(* The counters handed up under a key, but for one noted in the wrong slot. *)
Given(n, key, G, O) ==
  {c \in Nat : <<n, key, c, 1>> \in G /\ (<<n, key, c>> \in O => <<n, key, c, 2>> \in G)}

Knows(w, given) == w.top < DiffMod /\ Tracks(w, given)

Watches(n, k, G, O) == k.valid => Knows(k.window, Given(n, k.key, G, O))

(* The keys n has sent or handed up anything under. *)
Used(n, N, S, G) ==
  {m.key : m \in Data(n, N) \cup S} \cup {g[2] : g \in {h \in G : h[1] = n}}

(* The peer p of device n. *)
Fit(n, p, N, S, G, O) ==
  /\ Shaking(n, p, N)
  /\ Named(n, p, N, p.curr) /\ Named(n, p, N, p.next) /\ Named(n, p, N, p.prev)
  /\ Apart(p.curr, p.next) /\ Apart(p.curr, p.prev) /\ Apart(p.next, p.prev)
  /\ p.next.valid => p.next.window = EmptyWindow
  /\ Watches(n, p.curr, G, O) /\ Watches(n, p.prev, G, O)
  /\ \A key \in Used(n, N, S, G) :
       Mine(n, p, N, key) /\ (p.next.valid => key # p.next.key)
  /\ \A m \in Data(n, N) :
       p.curr.valid /\ m.key = p.curr.key => m.counter < p.curr.counter
  /\ \A m \in S :
       p.curr.valid /\ m.key = p.curr.key => m.counter <= p.curr.counter
  /\ p.next.valid => p.next.key[1] <= p.greatest

(* Counters stay below the limit, and what is handed up twice opened a key. *)
Counters(N, x) == /\ \A m \in N : m.type = "data" => m.counter < RejectMessages
                  /\ x.busy => x.packet.counter < RejectMessages

Handed(G, O) ==
  /\ G \subseteq Node \X Keys \X Nonces \X {1, 2}
  /\ \A g \in G : g[4] = 2 => /\ <<g[1], g[2], g[3]>> \in O
                              /\ <<g[1], g[2], g[3], 1>> \in G

(* No packet counter under one key reaches 2^32, where the distance in the *)
(* replay window is no longer the true one. A key lives REJECT_AFTER_TIME. *)
NoWrap == \A m \in net : m.type = "data" => m.counter + 1 < DiffMod

KInv ==
  /\ IInv
  /\ Numbers(net, ids) /\ Handed(got, opened)
  /\ \A n \in Node : /\ Counters(net, sending[n])
                     /\ sending[n].busy => /\ sending[n].packet.type = "data"
                                           /\ sending[n].packet.to = Other(n)
                     /\ Fit(n, peer[n], net, Pending(sending[n]), got, opened)

-----------------------------------------------------------------------------
LEMMA EmptyKnows == Knows(EmptyWindow, {})
  BY Bounds, EmptyTracks DEF Knows, EmptyWindow

LEMMA TwoNodes ==
  ASSUME NEW n \in Node
  PROVE  /\ Other(n) \in Node /\ Other(n) # n /\ Other(Other(n)) = n
         /\ \A m \in Node : m = n \/ m = Other(n)
<1>1. PICK i \in Node, j \in Node : i # j /\ Node = {i, j}
  BY ConstAssumption
<1>2. \E m \in Node : m # n
  BY <1>1
<1>3. Other(n) \in Node /\ Other(n) # n
  BY <1>2 DEF Other
<1>4. \E m \in Node : m # Other(n)
  BY <1>3
<1>5. Other(Other(n)) \in Node /\ Other(Other(n)) # Other(n)
  BY <1>4 DEF Other
<1> QED  BY <1>1, <1>3, <1>5

(* p becomes q, which holds nothing new. *)
Same(k, l) ==
  l.valid => /\ k.valid /\ l.initiator = k.initiator /\ l.key = k.key
             /\ l.local = k.local /\ l.remote = k.remote /\ l.window = k.window
             /\ k.counter <= l.counter

Keeps(p, q) ==
  /\ Same(p.curr, q.curr) /\ Same(p.next, q.next) /\ Same(p.prev, q.prev)
  /\ p.greatest <= q.greatest
  /\ q.shake.valid => q.shake = p.shake

LEMMA KeyType == ASSUME NEW k \in Keypairs PROVE k.key[1] \in Nat /\ k.key[2] \in Nat
  BY Bounds DEF Keypairs, Keys, Ids

LEMMA GreatestType == ASSUME NEW p \in Peers PROVE p.greatest \in Nat
  BY Bounds DEF Peers, Indexes

LEMMA FitKeeps ==
  ASSUME NEW n, NEW p \in Peers, NEW q \in Peers, NEW N \in SUBSET Messages,
         NEW S \in SUBSET Messages, NEW G, NEW O,
         \A m \in S : m.type = "data",
         Fit(n, p, N, S, G, O), Keeps(p, q)
  PROVE  Fit(n, q, N, S, G, O)
<1>1. /\ p.curr \in Keypairs /\ q.curr \in Keypairs
      /\ p.curr.counter \in Nat /\ q.curr.counter \in Nat
  BY PeerFields, KeyFields, Bounds DEF Nonces
<1>2. \A m \in Data(n, N) \cup S : m.counter \in Nat
  BY MessageFields, Bounds DEF Data, Nonces
<1>3. \A i : Began(n, p, N, i) => Began(n, q, N, i)
  BY DEF Began, Keeps
<1>4. \A key : Mine(n, p, N, key) => Mine(n, q, N, key)
  BY <1>3 DEF Mine
<1>5. Shaking(n, q, N)
  BY DEF Fit, Shaking, Keeps
<1>6. Named(n, q, N, q.curr) /\ Named(n, q, N, q.next) /\ Named(n, q, N, q.prev)
  BY <1>3 DEF Fit, Named, Keeps, Same
<1>7. Apart(q.curr, q.next) /\ Apart(q.curr, q.prev) /\ Apart(q.next, q.prev)
  BY DEF Fit, Apart, Keeps, Same
<1>8. /\ q.next.valid => q.next.window = EmptyWindow
      /\ Watches(n, q.curr, G, O) /\ Watches(n, q.prev, G, O)
  BY DEF Fit, Keeps, Same, Watches
<1>11. q.next.valid => q.next.key[1] <= q.greatest
  <2>1. p.next.key[1] \in Nat /\ p.greatest \in Nat /\ q.greatest \in Nat
    BY KeyType, GreatestType, PeerFields
  <2> QED  BY <2>1 DEF Fit, Keeps, Same
<1>9. \A key \in Used(n, N, S, G) :
       Mine(n, q, N, key) /\ (q.next.valid => key # q.next.key)
  BY <1>4 DEF Fit, Keeps, Same
<1>10. /\ \A m \in Data(n, N) :
            q.curr.valid /\ m.key = q.curr.key => m.counter < q.curr.counter
       /\ \A m \in S :
            q.curr.valid /\ m.key = q.curr.key => m.counter <= q.curr.counter
  <2>1. q.curr.valid => /\ p.curr.valid /\ q.curr.key = p.curr.key
                        /\ p.curr.counter <= q.curr.counter
    BY DEF Keeps, Same
  <2>2. /\ \A m \in Data(n, N) :
             p.curr.valid /\ m.key = p.curr.key => m.counter < p.curr.counter
        /\ \A m \in S :
             p.curr.valid /\ m.key = p.curr.key => m.counter <= p.curr.counter
    BY DEF Fit
  <2> QED  BY <1>1, <1>2, <2>1, <2>2
<1> QED  BY <1>5, <1>6, <1>7, <1>8, <1>9, <1>10, <1>11 DEF Fit

(* More packets that are not data of n, and more handed up on the other    *)
(* device, change nothing for n.                                           *)
LEMMA FitMore ==
  ASSUME NEW n, NEW p, NEW N, NEW N2, NEW S, NEW G, NEW G2, NEW O, NEW O2,
         N \subseteq N2, Data(n, N2) = Data(n, N),
         \A x : x[1] = n => (x \in G2 <=> x \in G),
         O \subseteq O2,
         Fit(n, p, N, S, G, O)
  PROVE  Fit(n, p, N2, S, G2, O2)
<1>1. \A i : Began(n, p, N, i) => Began(n, p, N2, i)
  BY DEF Began
<1>2. \A r : Replied(n, N, r) => Replied(n, N2, r)
  BY DEF Replied
<1>3. \A key : Mine(n, p, N, key) => Mine(n, p, N2, key)
  BY <1>1, <1>2 DEF Mine
<1>4. Shaking(n, p, N2)
  BY DEF Fit, Shaking
<1>5. Named(n, p, N2, p.curr) /\ Named(n, p, N2, p.next) /\ Named(n, p, N2, p.prev)
  BY <1>1, <1>2 DEF Fit, Named
<1>6. \A key : Given(n, key, G2, O2) \subseteq Given(n, key, G, O)
  <2>1. \A key, c : /\ <<n, key, c, 1>> \in G2 <=> <<n, key, c, 1>> \in G
                    /\ <<n, key, c, 2>> \in G2 <=> <<n, key, c, 2>> \in G
    OBVIOUS
  <2> QED  BY <2>1 DEF Given
<1>7. Watches(n, p.curr, G2, O2) /\ Watches(n, p.prev, G2, O2)
  BY <1>6 DEF Fit, Watches, Knows, Tracks
<1>8. Used(n, N2, S, G2) = Used(n, N, S, G)
  <2>1. {h \in G2 : h[1] = n} = {h \in G : h[1] = n}
    OBVIOUS
  <2> QED  BY <2>1 DEF Used
<1>9. \A key \in Used(n, N2, S, G2) :
       Mine(n, p, N2, key) /\ (p.next.valid => key # p.next.key)
  BY <1>3, <1>8 DEF Fit
<1> QED  BY <1>4, <1>5, <1>7, <1>9 DEF Fit

(* What keeps the keypairs: the helpers that only drop or count.           *)
LEMMA KeepsAll ==
  ASSUME NEW p \in Peers, NEW q \in Peers, q.curr = p.curr, q.next = p.next,
         q.prev = p.prev, q.greatest = p.greatest, q.shake = p.shake
  PROVE  Keeps(p, q)
<1>1. /\ p.curr.counter \in Nat /\ p.next.counter \in Nat /\ p.prev.counter \in Nat
      /\ p.greatest \in Nat
  BY PeerFields, KeyFields, GreatestType, Bounds DEF Nonces
<1> QED  BY <1>1 DEF Keeps, Same

LEMMA KeepsTwice ==
  ASSUME NEW p \in Peers, NEW q \in Peers, NEW r \in Peers, Keeps(p, q), Keeps(q, r)
  PROVE  Keeps(p, r)
<1>1. /\ p.curr.counter \in Nat /\ p.next.counter \in Nat /\ p.prev.counter \in Nat
      /\ q.curr.counter \in Nat /\ q.next.counter \in Nat /\ q.prev.counter \in Nat
      /\ r.curr.counter \in Nat /\ r.next.counter \in Nat /\ r.prev.counter \in Nat
      /\ p.greatest \in Nat /\ q.greatest \in Nat /\ r.greatest \in Nat
  BY PeerFields, KeyFields, GreatestType, Bounds DEF Nonces
<1>2. Same(p.curr, r.curr) /\ Same(p.next, r.next) /\ Same(p.prev, r.prev)
  BY <1>1 DEF Keeps, Same
<1> QED  BY <1>1, <1>2 DEF Keeps

LEMMA DestroyKeeps ==
  ASSUME NEW p \in Peers, NEW s \in Slots
  PROVE  Keeps(p, Destroy(p, s))
<1>1. /\ p.curr.counter \in Nat /\ p.next.counter \in Nat /\ p.prev.counter \in Nat
      /\ p.greatest \in Nat
  BY PeerFields, KeyFields, GreatestType, Bounds DEF Nonces
<1>2. ~NoKey.valid
  BY DEF NoKey
<1>3. CASE s = "curr"
  BY <1>1, <1>2, <1>3 DEF Keeps, Same, Destroy, Peers
<1>4. CASE s = "next"
  BY <1>1, <1>2, <1>4 DEF Keeps, Same, Destroy, Peers
<1>5. CASE s = "prev"
  BY <1>1, <1>2, <1>5 DEF Keeps, Same, Destroy, Peers
<1> QED  BY <1>3, <1>4, <1>5 DEF Slots

LEMMA NoSendKeeps ==
  ASSUME NEW t, NEW p, Good(p, t), t \in Nat
  PROVE  Keeps(p, NoSend(p))
<1>1. p \in Peers
  BY DEF Good
<1> DEFINE q == [p EXCEPT !.active = TRUE, !.attempts = 0, !.lastInit = 0]
<1>2. q \in Peers
  <2>1. TRUE \in BOOLEAN /\ 0 \in 0..255 /\ 0 \in 0..MaxTime
    BY Bounds
  <2> QED  BY <1>1, <2>1, Zenon DEF Peers
<1>3. /\ q.curr = p.curr /\ q.next = p.next /\ q.prev = p.prev
      /\ q.greatest = p.greatest /\ q.shake = p.shake
  BY <1>1 DEF Peers
<1> HIDE DEF q
<1>4. Keeps(p, q) /\ Keeps(p, p)
  BY <1>1, <1>2, <1>3, KeepsAll
<1>5. Keeps(p, Rearm(p))
  BY <1>4 DEF Rearm, q
<1> QED  BY <1>1, <1>5, DestroyKeeps, SlotIsCurr DEF NoSend, Slots

LEMMA ResetKeeps == ASSUME NEW p \in Peers PROVE Keeps(p, Reset(p))
<1>1. /\ p.curr.counter \in Nat /\ p.next.counter \in Nat /\ p.prev.counter \in Nat
      /\ p.greatest \in Nat
  BY PeerFields, KeyFields, GreatestType, Bounds DEF Nonces
<1>2. ~NoKey.valid
  BY DEF NoKey
<1> DEFINE q == [p EXCEPT !.next = NoKey, !.curr = NoKey, !.prev = NoKey]
<1>3. /\ q.curr = NoKey /\ q.next = NoKey /\ q.prev = NoKey
      /\ q.greatest = p.greatest /\ q.shake = p.shake
  BY DEF Peers
<1>4. Keeps(p, q)
  BY <1>1, <1>2, <1>3 DEF Keeps, Same
<1>5. Keeps(p, p)
  BY KeepsAll
<1> QED  BY <1>4, <1>5 DEF Reset

LEMMA DropDeadKeeps == ASSUME NEW p \in Peers PROVE Keeps(p, DropDead(p))
  BY DestroyKeeps, KeepsAll DEF DropDead, Slots

(* The current keypair, counted, and nothing else.                         *)
LEMMA CountedSlots ==
  ASSUME NEW p \in Peers
  PROVE  LET q == Counted(p, "curr")
         IN  /\ q.curr.counter = p.curr.counter + 1
             /\ q.curr.valid = p.curr.valid /\ q.curr.key = p.curr.key
             /\ Keeps(p, q)
<1> DEFINE q == Counted(p, "curr")
           k == [p.curr EXCEPT !.counter = @ + 1]
<1>1. /\ p.curr \in Keypairs
      /\ p.curr.counter \in Nat /\ p.next.counter \in Nat /\ p.prev.counter \in Nat
      /\ p.greatest \in Nat
  BY PeerFields, KeyFields, GreatestType, Bounds DEF Nonces
<1>2. /\ k.counter = p.curr.counter + 1
      /\ k.valid = p.curr.valid /\ k.key = p.curr.key /\ k.initiator = p.curr.initiator
      /\ k.local = p.curr.local /\ k.remote = p.curr.remote /\ k.window = p.curr.window
  BY <1>1 DEF Keypairs
<1> HIDE DEF k
<1>3. /\ q.curr = k /\ q.next = p.next /\ q.prev = p.prev
      /\ q.greatest = p.greatest /\ q.shake = p.shake
  BY DEF Counted, Peers, k
<1> HIDE DEF q
<1>4. Keeps(p, q)
  BY <1>1, <1>2, <1>3 DEF Keeps, Same
<1> QED  BY <1>2, <1>3, <1>4 DEF q

-----------------------------------------------------------------------------
(* Sending.                                                                *)

LEMMA SealedFields ==
  ASSUME NEW n \in Node, NEW k, NEW payload
  PROVE  LET m == Sealed(n, k, payload)
         IN  /\ m.type = "data" /\ m.to = Other(n) /\ m.key = k.key
             /\ m.counter = k.counter
  BY DEF Sealed

(* A packet sealed with the current keypair, counted at once.              *)
LEMMA FitKeepalive ==
  ASSUME NEW n \in Node, NEW p, Good(p, now), CanSend(p), now \in 1..MaxTime,
         NEW N \in SUBSET Messages, NEW S \in SUBSET Messages, NEW G, NEW O,
         NEW payload \in BOOLEAN, \A m \in S : m.type = "data",
         Fit(n, p, N, S, G, O)
  PROVE  Fit(n, Counted(p, "curr"), N \cup {Sealed(n, p.curr, payload)}, S, G, O)
<1> DEFINE x == Sealed(n, p.curr, payload)
           q == Counted(p, "curr")
           M == N \cup {x}
<1>1. /\ p \in Peers /\ p.curr \in Keypairs /\ p.curr.counter \in Nat
      /\ q \in Peers /\ Good(q, now)
  BY CountedGood, CountedRoom, PeerFields, KeyFields, Bounds DEF Good, Nonces
<1>2. /\ q.curr.counter = p.curr.counter + 1
      /\ q.curr.valid = p.curr.valid /\ q.curr.key = p.curr.key /\ Keeps(p, q)
  BY <1>1, CountedSlots
<1>3. Fit(n, q, N, S, G, O)
  BY <1>1, <1>2, FitKeeps
<1>4. p.curr.valid
  BY SlotIsCurr DEF CanSend, Usable
<1>5. /\ x.type = "data" /\ x.to = Other(n) /\ x.key = p.curr.key
      /\ x.counter = p.curr.counter
  BY SealedFields
<1> HIDE DEF x, q
<1>6. /\ Data(n, M) = Data(n, N) \cup {x}
      /\ Used(n, M, S, G) = Used(n, N, S, G) \cup {q.curr.key}
  BY <1>2, <1>5 DEF Data, Used
<1>7. \A i : Began(n, q, M, i) <=> Began(n, q, N, i)
  <2>1. \A i : Initiation(n, i) # x
    BY <1>5 DEF Initiation
  <2> QED  BY <2>1 DEF Began
<1>8. \A r : Replied(n, M, r) <=> Replied(n, N, r)
  BY <1>5 DEF Replied
<1>9. Mine(n, q, M, q.curr.key)
  <2>1. Named(n, q, N, q.curr) /\ q.curr.valid
    BY <1>2, <1>3, <1>4 DEF Fit
  <2>2. CASE q.curr.initiator
    <3>1. q.curr.key[1] = q.curr.local /\ Began(n, q, N, q.curr.local)
      BY <2>1, <2>2 DEF Named
    <3> QED  BY <3>1, <1>7 DEF Mine
  <2>3. CASE ~q.curr.initiator
    <3>1. q.curr.key[2] = q.curr.local /\ Replied(n, N, q.curr.local)
      BY <2>1, <2>3 DEF Named
    <3> QED  BY <3>1, <1>8 DEF Mine
  <2> QED  BY <2>2, <2>3
<1>10. \A key \in Used(n, M, S, G) :
        Mine(n, q, M, key) /\ (q.next.valid => key # q.next.key)
  <2>1. q.next.valid => q.curr.key # q.next.key
    BY <1>2, <1>3, <1>4 DEF Fit, Apart
  <2> QED  BY <1>3, <1>6, <1>7, <1>8, <1>9, <2>1 DEF Fit, Mine
<1>11. \A m \in Data(n, M) :
        q.curr.valid /\ m.key = q.curr.key => m.counter < q.curr.counter
  <2>1. x.counter < q.curr.counter
    BY <1>1, <1>2, <1>5
  <2> QED  BY <1>3, <1>6, <2>1 DEF Fit
<1>12. Shaking(n, q, M)
  BY <1>3 DEF Fit, Shaking
<1>13. Named(n, q, M, q.curr) /\ Named(n, q, M, q.next) /\ Named(n, q, M, q.prev)
  BY <1>3, <1>7, <1>8 DEF Fit, Named
<1>14. Fit(n, q, M, S, G, O)
  BY <1>3, <1>10, <1>11, <1>12, <1>13 DEF Fit
<1> QED  BY <1>14 DEF q, x

LEMMA KeepaliveKeys ==
  ASSUME NEW n \in Node, NEW p, Good(p, now), now \in 1..MaxTime,
         NEW N \in SUBSET Messages, NEW S \in SUBSET Messages, NEW G, NEW O,
         \A m \in S : m.type = "data",
         Fit(n, p, N, S, G, O)
  PROVE  LET k == KeepaliveFor(n, p)
         IN  /\ Fit(n, k.p, N \cup k.out, S, G, O)
             /\ \A m \in k.out : /\ m.type = "data" /\ m.to = Other(n)
                                 /\ m.counter < RejectMessages
             /\ \A q \in Peers : Keeps(q, p) => Keeps(q, k.p)
<1> DEFINE k == KeepaliveFor(n, p)
<1>1. /\ p \in Peers /\ p.curr \in Keypairs /\ SendSlot(p) = "curr"
      /\ Good(k.p, now) /\ k.p \in Peers /\ now \in Nat
  BY KeepaliveGood, PeerFields, SlotIsCurr, Bounds DEF Good
<1>2. Keeps(p, k.p) => \A q \in Peers : Keeps(q, p) => Keeps(q, k.p)
  BY <1>1, KeepsTwice
<1>3. CASE CanSend(p)
  <2>1. k = [p |-> Counted(p, "curr"), out |-> {Sealed(n, p.curr, FALSE)}]
    BY <1>1, <1>3 DEF KeepaliveFor
  <2>2. Fit(n, Counted(p, "curr"), N \cup {Sealed(n, p.curr, FALSE)}, S, G, O)
    BY <1>3, FitKeepalive
  <2>3. p.curr.counter < RejectMessages
    BY <1>1, <1>3 DEF CanSend, Live
  <2>4. Keeps(p, k.p)
    BY <1>1, <2>1, CountedSlots
  <2>5. \A m \in k.out : /\ m.type = "data" /\ m.to = Other(n)
                          /\ m.counter < RejectMessages
    BY <2>1, <2>3 DEF Sealed
  <2>6. Fit(n, k.p, N \cup k.out, S, G, O)
    BY <2>1, <2>2
  <2> QED  BY <1>2, <2>4, <2>5, <2>6
<1>4. CASE ~CanSend(p)
  <2>1. k.p = NoSend(p) /\ k.out = {}
    BY <1>4 DEF KeepaliveFor
  <2>2. Keeps(p, k.p)
    BY <1>1, <2>1, NoSendKeeps
  <2>3. Fit(n, k.p, N, S, G, O)
    BY <1>1, <2>2, FitKeeps
  <2>4. N \cup k.out = N
    BY <2>1
  <2> QED  BY <1>2, <2>1, <2>2, <2>3, <2>4
<1> QED  BY <1>3, <1>4

(* A packet sealed with the current keypair, not counted yet.              *)
LEMMA FitSealed ==
  ASSUME NEW n \in Node, NEW p, Good(p, now), CanSend(p),
         NEW N \in SUBSET Messages, NEW G, NEW O,
         Fit(n, p, N, {}, G, O)
  PROVE  Fit(n, p, N, {Sealed(n, p.curr, TRUE)}, G, O)
<1> DEFINE x == Sealed(n, p.curr, TRUE)
<1>1. /\ p \in Peers /\ p.curr \in Keypairs /\ p.curr.counter \in Nat
  BY PeerFields, KeyFields, Bounds DEF Good, Nonces
<1>2. p.curr.valid
  BY SlotIsCurr DEF CanSend, Usable
<1>3. x.key = p.curr.key /\ x.counter = p.curr.counter
  BY DEF Sealed
<1> HIDE DEF x
<1>4. Used(n, N, {x}, G) = Used(n, N, {}, G) \cup {p.curr.key}
  BY <1>3 DEF Used
<1>5. Mine(n, p, N, p.curr.key)
  <2>1. Named(n, p, N, p.curr)
    BY DEF Fit
  <2>2. CASE p.curr.initiator
    <3>1. p.curr.key[1] = p.curr.local /\ Began(n, p, N, p.curr.local)
      BY <1>2, <2>1, <2>2 DEF Named
    <3> QED  BY <3>1 DEF Mine
  <2>3. CASE ~p.curr.initiator
    <3>1. p.curr.key[2] = p.curr.local /\ Replied(n, N, p.curr.local)
      BY <1>2, <2>1, <2>3 DEF Named
    <3> QED  BY <3>1 DEF Mine
  <2> QED  BY <2>2, <2>3
<1>6. \A key \in Used(n, N, {x}, G) :
       Mine(n, p, N, key) /\ (p.next.valid => key # p.next.key)
  BY <1>2, <1>4, <1>5 DEF Fit, Apart
<1>7. x.counter <= p.curr.counter
  BY <1>1, <1>3
<1> QED  BY <1>6, <1>7 DEF Fit, x

(* The packet is handed on, and whatever is current by now is counted.     *)
LEMMA FitDone ==
  ASSUME NEW n \in Node, NEW p, Good(p, now), Room(p), now \in 1..MaxTime,
         NEW N \in SUBSET Messages, NEW x \in Messages, NEW G, NEW O,
         x.type = "data", x.to = Other(n),
         Fit(n, p, N, {x}, G, O)
  PROVE  Fit(n, Counted(p, "curr"), N \cup {x}, {}, G, O)
<1> DEFINE q == Counted(p, "curr")
           M == N \cup {x}
<1>1. /\ p \in Peers /\ p.curr \in Keypairs /\ p.curr.counter \in Nat
      /\ q \in Peers /\ x.counter \in Nat
  BY CountedGood, PeerFields, KeyFields, MessageFields, Bounds DEF Good, Nonces
<1>2. /\ q.curr.counter = p.curr.counter + 1
      /\ q.curr.valid = p.curr.valid /\ q.curr.key = p.curr.key /\ Keeps(p, q)
  BY <1>1, CountedSlots
<1>3. Fit(n, q, N, {x}, G, O)
  BY <1>1, <1>2, FitKeeps
<1>4. q.curr.valid /\ x.key = q.curr.key => x.counter < q.curr.counter
  <2>1. p.curr.valid /\ x.key = p.curr.key => x.counter <= p.curr.counter
    BY DEF Fit
  <2> QED  BY <1>1, <1>2, <2>1
<1> HIDE DEF q
<1>5. /\ Data(n, M) = Data(n, N) \cup {x}
      /\ Used(n, M, {}, G) = Used(n, N, {x}, G)
  BY DEF Data, Used
<1>6. \A i : Began(n, q, M, i) <=> Began(n, q, N, i)
  <2>1. \A i : Initiation(n, i) # x
    BY DEF Initiation
  <2> QED  BY <2>1 DEF Began
<1>7. \A r : Replied(n, M, r) <=> Replied(n, N, r)
  BY DEF Replied
<1>8. Shaking(n, q, M)
  BY <1>3 DEF Fit, Shaking
<1>9. Named(n, q, M, q.curr) /\ Named(n, q, M, q.next) /\ Named(n, q, M, q.prev)
  BY <1>3, <1>6, <1>7 DEF Fit, Named
<1>10. \A key \in Used(n, M, {}, G) :
        Mine(n, q, M, key) /\ (q.next.valid => key # q.next.key)
  BY <1>3, <1>5, <1>6, <1>7 DEF Fit, Mine
<1>11. \A m \in Data(n, M) :
        q.curr.valid /\ m.key = q.curr.key => m.counter < q.curr.counter
  BY <1>3, <1>4, <1>5 DEF Fit
<1>12. Fit(n, q, M, {}, G, O)
  BY <1>3, <1>8, <1>9, <1>10, <1>11 DEF Fit
<1> QED  BY <1>12 DEF q

-----------------------------------------------------------------------------
(* Handshakes.                                                             *)

(* A new initiation gives up the one before, which is then no key's.       *)
LEMMA FitInitiated ==
  ASSUME NEW n \in Node, NEW p, Good(p, now), now \in 1..MaxTime, NEW q \in Peers,
         NEW i \in Ids, NEW N \in SUBSET Messages, NEW S \in SUBSET Messages,
         NEW G, NEW O,
         \A m \in N : m.type # "data" => m.sender < i,
         q.curr = p.curr, q.next = p.next, q.prev = p.prev, q.greatest = p.greatest,
         q.shake.initiator, q.shake.local = i, q.shake.chain = <<i>>,
         Fit(n, p, N, S, G, O)
  PROVE  Fit(n, q, N \cup {Initiation(n, i)}, S, G, O)
<1> DEFINE M == N \cup {Initiation(n, i)}
<1>1. \A j : Initiation(n, j) \in N => j # i
  BY DEF Initiation, Ids
<1>2. \A j : Began(n, p, N, j) => Began(n, q, M, j)
  BY <1>1 DEF Began
<1>3. \A r : Replied(n, N, r) => Replied(n, M, r)
  BY DEF Replied
<1>4. Data(n, M) = Data(n, N) /\ Used(n, M, S, G) = Used(n, N, S, G)
  BY DEF Data, Used, Initiation
<1>5. Shaking(n, q, M)
  BY DEF Shaking
<1>6. Named(n, q, M, q.curr) /\ Named(n, q, M, q.next) /\ Named(n, q, M, q.prev)
  BY <1>2, <1>3 DEF Fit, Named
<1>7. \A key \in Used(n, M, S, G) :
       Mine(n, q, M, key) /\ (q.next.valid => key # q.next.key)
  BY <1>2, <1>3, <1>4 DEF Fit, Mine
<1> QED  BY <1>4, <1>5, <1>6, <1>7 DEF Fit

(* A keypair that starts with a key of its own takes its slot.             *)
LEMMA FitAdd ==
  ASSUME NEW n, NEW p \in Peers, NEW k \in Keypairs, NEW N, NEW S, NEW G, NEW O,
         k.valid, k.window = EmptyWindow, k.key \notin Used(n, N, S, G),
         Named(n, p, N, k),
         Apart(k, p.curr), Apart(k, p.next), Apart(k, p.prev),
         ~k.initiator => k.key[1] <= p.greatest,
         Fit(n, p, N, S, G, O)
  PROVE  Fit(n, AddKeypair(p, k), N, S, G, O)
<1> DEFINE q == AddKeypair(p, k)
<1>1. Given(n, k.key, G, O) = {}
  <2>1. ASSUME NEW c, <<n, k.key, c, 1>> \in G PROVE k.key \in Used(n, N, S, G)
    <3>1. <<n, k.key, c, 1>> \in {h \in G : h[1] = n} /\ <<n, k.key, c, 1>>[2] = k.key
      BY <2>1
    <3> QED  BY <3>1 DEF Used
  <2> QED  BY <2>1 DEF Given
<1>2. Watches(n, k, G, O)
  BY <1>1, EmptyKnows DEF Watches
<1>3. Watches(n, p.next, G, O)
  <2>1. ASSUME p.next.valid, NEW c, <<n, p.next.key, c, 1>> \in G PROVE FALSE
    <3>1. /\ <<n, p.next.key, c, 1>> \in {h \in G : h[1] = n}
          /\ <<n, p.next.key, c, 1>>[2] = p.next.key
      BY <2>1
    <3>2. p.next.key \in Used(n, N, S, G)
      BY <3>1 DEF Used
    <3> QED  BY <2>1, <3>2 DEF Fit
  <2>2. p.next.valid => Given(n, p.next.key, G, O) = {}
    BY <2>1 DEF Given
  <2> QED  BY <2>2, EmptyKnows DEF Watches, Fit
<1>4. /\ \A m \in Data(n, N) : m.key # k.key
      /\ \A m \in S : m.key # k.key
  BY DEF Used
<1>5. ~NoKey.valid
  BY DEF NoKey
<1>6. q.shake = p.shake /\ q.greatest = p.greatest
  BY DEF AddKeypair, Peers
<1>7. \A key : Mine(n, q, N, key) <=> Mine(n, p, N, key)
  BY <1>6 DEF Mine, Began
<1>8. Shaking(n, q, N)
  BY <1>6 DEF Fit, Shaking
<1>9. \A l : Named(n, p, N, l) => Named(n, q, N, l)
  BY <1>6 DEF Named, Began
<1>10. CASE k.initiator
  <2>1. /\ q.curr = k
        /\ q.next = (IF p.next.valid THEN NoKey ELSE p.next)
        /\ q.prev = (IF p.next.valid THEN p.next ELSE p.curr)
    BY <1>10 DEF AddKeypair, Peers
  <2> HIDE DEF q
  <2>2. ~q.next.valid
    BY <1>5, <2>1
  <2>3. Named(n, q, N, q.curr) /\ Named(n, q, N, q.next) /\ Named(n, q, N, q.prev)
    BY <1>9, <2>1, <2>2 DEF Fit, Named
  <2>4. Apart(q.curr, q.next) /\ Apart(q.curr, q.prev) /\ Apart(q.next, q.prev)
    BY <2>1, <2>2 DEF Apart
  <2>5. Watches(n, q.curr, G, O) /\ Watches(n, q.prev, G, O)
    BY <1>2, <1>3, <2>1 DEF Fit
  <2>6. \A key \in Used(n, N, S, G) :
          Mine(n, q, N, key) /\ (q.next.valid => key # q.next.key)
    BY <1>7, <2>2 DEF Fit
  <2>7. Fit(n, q, N, S, G, O)
    BY <1>4, <1>8, <2>1, <2>2, <2>3, <2>4, <2>5, <2>6 DEF Fit
  <2> QED  BY <2>7 DEF q
<1>11. CASE ~k.initiator
  <2>1. q.curr = p.curr /\ q.next = k /\ q.prev = NoKey
    BY <1>11 DEF AddKeypair, Peers
  <2> HIDE DEF q
  <2>2. ~q.prev.valid
    BY <1>5, <2>1
  <2>3. Named(n, q, N, q.curr) /\ Named(n, q, N, q.next) /\ Named(n, q, N, q.prev)
    BY <1>9, <2>1, <2>2 DEF Fit, Named
  <2>4. Apart(q.curr, q.next) /\ Apart(q.curr, q.prev) /\ Apart(q.next, q.prev)
    BY <2>1, <2>2 DEF Apart
  <2>5. Watches(n, q.curr, G, O) /\ Watches(n, q.prev, G, O)
    BY <2>1, <2>2 DEF Fit, Watches
  <2>6. \A key \in Used(n, N, S, G) :
          Mine(n, q, N, key) /\ (q.next.valid => key # q.next.key)
    BY <1>7, <2>1 DEF Fit
  <2>7. Fit(n, q, N, S, G, O)
    BY <1>6, <1>8, <1>11, <2>1, <2>3, <2>4, <2>5, <2>6 DEF Fit
  <2> QED  BY <2>7 DEF q
<1> QED  BY <1>10, <1>11

(* wireguard_start_session() for a peer o that is Fit, whose handshake p   *)
(* carries the two numbers of the new key.                                 *)
LEMMA FitStart ==
  ASSUME NEW n, NEW o \in Peers, NEW p, Good(p, now), now \in 1..MaxTime,
         NEW initiator \in BOOLEAN,
         NEW N \in SUBSET Messages, NEW S \in SUBSET Messages, NEW G, NEW O,
         \A m \in S : m.type = "data",
         Fit(n, o, N, S, G, O),
         p.curr = o.curr, p.next = o.next, p.prev = o.prev, o.greatest <= p.greatest,
         p.shake.chain \in Ids \X Ids,
         initiator => /\ p.shake.chain = <<p.shake.local, p.shake.remote>>
                      /\ Initiation(n, p.shake.local) \in N,
         ~initiator => /\ p.shake.chain = <<p.shake.remote, p.shake.local>>
                       /\ Replied(n, N, p.shake.local)
                       /\ p.shake.chain[1] <= p.greatest,
         p.shake.chain \notin Used(n, N, S, G),
         o.curr.valid => o.curr.key # p.shake.chain,
         o.next.valid => o.next.key # p.shake.chain,
         o.prev.valid => o.prev.key # p.shake.chain
  PROVE  Fit(n, StartSession(p, initiator), N, S, G, O)
<1> DEFINE h == [NoShake EXCEPT !.initiator = p.shake.initiator]
           k == [NoKey EXCEPT !.valid = TRUE, !.initiator = initiator,
                              !.key = p.shake.chain, !.born = now,
                              !.local = p.shake.local, !.remote = p.shake.remote]
           q == [p EXCEPT !.shake = h]
           r == AddKeypair(q, k)
<1>1. p \in Peers /\ p.shake \in Handshakes
  BY PeerFields DEF Good
<1>2. /\ p.shake.initiator \in BOOLEAN /\ p.shake.local \in Indexes
      /\ p.shake.remote \in Indexes
  BY <1>1 DEF Handshakes
<1>3. h \in Handshakes /\ ~h.valid
  <2>1. h \in Handshakes
    BY <1>2, NoShakeType, Zenon DEF Handshakes
  <2>2. ~h.valid
    BY DEF NoShake
  <2> QED  BY <2>1, <2>2
<1>4. k \in Keypairs
  <2>1. TRUE \in BOOLEAN /\ now \in 0..MaxTime /\ p.shake.chain \in Keys
    BY Bounds DEF Keys
  <2> QED  BY <1>2, <2>1, NoKeyType, Zenon DEF Keypairs
<1>5. /\ k.valid /\ k.initiator = initiator /\ k.key = p.shake.chain
      /\ k.local = p.shake.local /\ k.remote = p.shake.remote /\ k.window = EmptyWindow
      /\ k.born = now /\ k.counter = 0
  BY DEF NoKey
<1> HIDE DEF h, k
<1>6. /\ q \in Peers /\ q.curr = p.curr /\ q.next = p.next /\ q.prev = p.prev
      /\ q.shake = h /\ q.greatest = p.greatest
  BY <1>1, <1>3 DEF Peers
<1> HIDE DEF q
<1>7. Keeps(o, q)
  <2>1. /\ o.curr.counter \in Nat /\ o.next.counter \in Nat /\ o.prev.counter \in Nat
    BY PeerFields, KeyFields, Bounds DEF Nonces
  <2> QED  BY <1>3, <1>6, <2>1 DEF Keeps, Same
<1>8. Fit(n, q, N, S, G, O)
  BY <1>6, <1>7, FitKeeps
<1>9. Named(n, q, N, k)
  BY <1>3, <1>5, <1>6 DEF Named, Began
<1>10. Apart(k, q.curr) /\ Apart(k, q.next) /\ Apart(k, q.prev)
  BY <1>5, <1>6 DEF Apart
<1>11. Fit(n, r, N, S, G, O)
  BY <1>4, <1>5, <1>6, <1>8, <1>9, <1>10, FitAdd
<1>12. Good(r, now) /\ r \in Peers
  <2>1. Good(q, now)
    BY <1>6, SlotsSame
  <2> QED  BY <1>4, <1>5, <2>1, AddGood DEF Good
<1> HIDE DEF r
<1>13. /\ [r EXCEPT !.attempts = 0] \in Peers
       /\ [r EXCEPT !.attempts = 0].curr = r.curr
       /\ [r EXCEPT !.attempts = 0].next = r.next
       /\ [r EXCEPT !.attempts = 0].prev = r.prev
       /\ [r EXCEPT !.attempts = 0].shake = r.shake
       /\ [r EXCEPT !.attempts = 0].greatest = r.greatest
  BY <1>12 DEF Peers
<1>14. StartSession(p, initiator) = [r EXCEPT !.attempts = 0]
  BY DEF StartSession, r, q, k, h
<1>15. Keeps(r, StartSession(p, initiator)) /\ StartSession(p, initiator) \in Peers
  BY <1>12, <1>13, <1>14, KeepsAll
<1> QED  BY <1>11, <1>12, <1>15, FitKeeps

-----------------------------------------------------------------------------
(* Receiving.                                                              *)

(* The keypair l is k as another packet leaves it, its window w.           *)
SameBut(k, l, w) ==
  /\ l.valid = k.valid /\ l.initiator = k.initiator /\ l.key = k.key
  /\ l.local = k.local /\ l.remote = k.remote /\ l.counter = k.counter
  /\ l.window = w

(* What one packet makes of the slots: heard in s, the window there w.     *)
Received(p, s, w, r) ==
  /\ r \in Peers /\ r.greatest = p.greatest /\ r.shake = p.shake
  /\ s = "curr" => SameBut(p.curr, r.curr, w) /\ r.next = p.next /\ r.prev = p.prev
  /\ s = "prev" => SameBut(p.prev, r.prev, w) /\ r.next = p.next /\ r.curr = p.curr
  /\ s = "next" => /\ SameBut(p.next, r.curr, p.next.window)
                   /\ ~r.next.valid /\ r.prev = p.curr

LEMMA ReceivedSlots ==
  ASSUME NEW t \in Nat, NEW p, Good(p, t), NEW s \in Slots, p[s].valid,
         NEW w \in Windows, NEW wish \in BOOLEAN
  PROVE  /\ Received(p, s, w, [Heard(p, s) EXCEPT !.wantShake = wish, ![s].window = w])
         /\ Heard(p, s)[s].window = IF s = "next" THEN EmptyWindow ELSE p[s].window
<1> DEFINE k == [p[s] EXCEPT !.rx = TRUE]
           q == [p EXCEPT ![s] = k]
           h == Heard(p, s)
           r == [h EXCEPT !.wantShake = wish, ![s].window = w]
<1>1. p[s] \in Keypairs /\ p \in Peers
  BY SlotType DEF Good
<1>2. SameBut(p[s], k, p[s].window) /\ k \in Keypairs
  BY <1>1 DEF SameBut, Keypairs
<1>3. h = Rotate(q, s)
  BY DEF Heard
<1>4. /\ Good(h, t) /\ h \in Peers /\ h[s] \in Keypairs
  BY HeardGood, SlotType DEF Good
<1>5. r \in Peers
  BY <1>4, NotedGood DEF Good
<1> HIDE DEF k
<1>6. CASE s = "curr"
  <2>1. /\ q.curr = k /\ q.next = p.next /\ q.prev = p.prev
        /\ q.greatest = p.greatest /\ q.shake = p.shake
    BY <1>1, <1>6 DEF Peers
  <2>2. h = q
    BY <1>3, <1>6 DEF Rotate
  <2> HIDE DEF q, h
  <2>3. /\ r.curr = [h.curr EXCEPT !.window = w] /\ r.next = h.next /\ r.prev = h.prev
        /\ r.greatest = h.greatest /\ r.shake = h.shake
    BY <1>4, <1>6 DEF Peers
  <2>4. SameBut(p.curr, r.curr, w)
    <3>1. r.curr = [k EXCEPT !.window = w]
      BY <2>1, <2>2, <2>3
    <3>2. SameBut(p.curr, k, p.curr.window) /\ k \in Keypairs
      BY <1>2, <1>6
    <3> QED  BY <3>1, <3>2 DEF SameBut, Keypairs
  <2>5. h[s].window = p[s].window
    BY <1>2, <1>6, <2>1, <2>2 DEF SameBut
  <2> QED  BY <1>5, <1>6, <2>1, <2>2, <2>3, <2>4, <2>5 DEF Received, h
<1>7. CASE s = "prev"
  <2>1. /\ q.curr = p.curr /\ q.next = p.next /\ q.prev = k
        /\ q.greatest = p.greatest /\ q.shake = p.shake
    BY <1>1, <1>7 DEF Peers
  <2>2. h = q
    BY <1>3, <1>7 DEF Rotate
  <2> HIDE DEF q, h
  <2>3. /\ r.prev = [h.prev EXCEPT !.window = w] /\ r.next = h.next /\ r.curr = h.curr
        /\ r.greatest = h.greatest /\ r.shake = h.shake
    BY <1>4, <1>7 DEF Peers
  <2>4. SameBut(p.prev, r.prev, w)
    <3>1. r.prev = [k EXCEPT !.window = w]
      BY <2>1, <2>2, <2>3
    <3>2. SameBut(p.prev, k, p.prev.window) /\ k \in Keypairs
      BY <1>2, <1>7
    <3> QED  BY <3>1, <3>2 DEF SameBut, Keypairs
  <2>5. h[s].window = p[s].window
    BY <1>2, <1>7, <2>1, <2>2 DEF SameBut
  <2> QED  BY <1>5, <1>7, <2>1, <2>2, <2>3, <2>4, <2>5 DEF Received, h
<1>8. CASE s = "next"
  <2>1. /\ q.curr = p.curr /\ q.next = k /\ q.prev = p.prev /\ q \in Peers
        /\ q.greatest = p.greatest /\ q.shake = p.shake
    BY <1>1, <1>2, <1>8 DEF Peers
  <2>2. h = [q EXCEPT !.prev = q.curr, !.curr = q.next, !.next = NoKey]
    BY <1>3, <1>8 DEF Rotate
  <2> HIDE DEF q
  <2>3. /\ h.prev = p.curr /\ h.curr = k /\ h.next = NoKey
        /\ h.greatest = p.greatest /\ h.shake = p.shake
    BY <2>1, <2>2 DEF Peers
  <2> HIDE DEF h
  <2>4. /\ r.next = [h.next EXCEPT !.window = w] /\ r.prev = h.prev /\ r.curr = h.curr
        /\ r.greatest = h.greatest /\ r.shake = h.shake
    BY <1>4, <1>8 DEF Peers
  <2>5. ~r.next.valid /\ h[s].window = EmptyWindow
    BY <1>8, <2>3, <2>4 DEF NoKey
  <2>6. SameBut(p.next, r.curr, p.next.window)
    BY <1>2, <1>8, <2>3, <2>4
  <2> QED  BY <1>5, <1>8, <2>3, <2>4, <2>5, <2>6 DEF Received, h
<1> QED  BY <1>6, <1>7, <1>8 DEF Slots

(* What was handed up under a key is known of the key.                     *)
LEMMA UsedKey ==
  ASSUME NEW n, NEW N, NEW S, NEW G, NEW key, NEW c, NEW j, <<n, key, c, j>> \in G
  PROVE  key \in Used(n, N, S, G)
<1>1. <<n, key, c, j>> \in {h \in G : h[1] = n} /\ <<n, key, c, j>>[2] = key
  OBVIOUS
<1> QED  BY <1>1 DEF Used

(* A packet under the current or the previous keypair that is handed up.   *)
LEMMA FitHandedOn ==
  ASSUME NEW n, NEW p, NEW r, NEW N, NEW S, NEW G, NEW O, NEW s \in {"curr", "prev"},
         p \in Peers, p[s].valid, NEW w, Received(p, s, w, r),
         NEW G2, G \subseteq G2,
         \A g \in G2 : g \in G \/ (g[1] = n /\ g[2] = p[s].key),
         Knows(w, Given(n, p[s].key, G2, O)),
         Fit(n, p, N, S, G, O)
  PROVE  Fit(n, r, N, S, G2, O)
<1> DEFINE key == p[s].key
<1>1. /\ SameBut(p.curr, r.curr, IF s = "curr" THEN w ELSE p.curr.window)
      /\ SameBut(p.prev, r.prev, IF s = "prev" THEN w ELSE p.prev.window)
      /\ r.next = p.next /\ r.greatest = p.greatest /\ r.shake = p.shake
  BY DEF Received, SameBut
<1>2. Named(n, p, N, p[s])
  BY DEF Fit
<1>3. Mine(n, p, N, key)
  <2>1. CASE p[s].initiator
    <3>1. key[1] = p[s].local /\ Began(n, p, N, p[s].local)
      BY <1>2, <2>1 DEF Named
    <3> QED  BY <3>1 DEF Mine
  <2>2. CASE ~p[s].initiator
    <3>1. key[2] = p[s].local /\ Replied(n, N, p[s].local)
      BY <1>2, <2>2 DEF Named
    <3> QED  BY <3>1 DEF Mine
  <2> QED  BY <2>1, <2>2
<1>4. \A i : Began(n, r, N, i) <=> Began(n, p, N, i)
  BY <1>1 DEF Began
<1>5. p.next.valid => key # p.next.key
  BY DEF Fit, Apart
<1>6. \A x \in Used(n, N, S, G2) : x \in Used(n, N, S, G) \/ x = key
  BY DEF Used
<1>7. \A x \in Used(n, N, S, G2) :
        Mine(n, r, N, x) /\ (r.next.valid => x # r.next.key)
  <2>1. \A x : Mine(n, r, N, x) <=> Mine(n, p, N, x)
    BY <1>4 DEF Mine
  <2> QED  BY <1>1, <1>3, <1>5, <1>6, <2>1 DEF Fit
<1>8. ASSUME NEW l, l # key PROVE Given(n, l, G2, O) = Given(n, l, G, O)
  <2>1. ASSUME NEW c, NEW j PROVE <<n, l, c, j>> \in G2 <=> <<n, l, c, j>> \in G
    <3>1. <<n, l, c, j>>[2] = l
      OBVIOUS
    <3> QED  BY <1>8, <3>1
  <2> QED  BY <2>1 DEF Given
<1>9. Watches(n, r.curr, G2, O) /\ Watches(n, r.prev, G2, O)
  <2>1. CASE s = "curr"
    <3>1. Watches(n, r.curr, G2, O)
      BY <1>1, <2>1 DEF Watches, SameBut
    <3>2. p.prev.valid => Given(n, p.prev.key, G2, O) = Given(n, p.prev.key, G, O)
      BY <1>8, <2>1 DEF Fit, Apart
    <3> QED  BY <1>1, <2>1, <3>1, <3>2 DEF Fit, Watches, SameBut
  <2>2. CASE s = "prev"
    <3>1. Watches(n, r.prev, G2, O)
      BY <1>1, <2>2 DEF Watches, SameBut
    <3>2. p.curr.valid => Given(n, p.curr.key, G2, O) = Given(n, p.curr.key, G, O)
      BY <1>8, <2>2 DEF Fit, Apart
    <3> QED  BY <1>1, <2>2, <3>1, <3>2 DEF Fit, Watches, SameBut
  <2> QED  BY <2>1, <2>2
<1>10. Shaking(n, r, N)
  BY <1>1 DEF Fit, Shaking
<1>11. Named(n, r, N, r.curr) /\ Named(n, r, N, r.next) /\ Named(n, r, N, r.prev)
  BY <1>1, <1>4 DEF Fit, Named, SameBut
<1>12. Apart(r.curr, r.next) /\ Apart(r.curr, r.prev) /\ Apart(r.next, r.prev)
  BY <1>1 DEF Fit, Apart, SameBut
<1>13. /\ \A m \in Data(n, N) :
            r.curr.valid /\ m.key = r.curr.key => m.counter < r.curr.counter
       /\ \A m \in S :
            r.curr.valid /\ m.key = r.curr.key => m.counter <= r.curr.counter
  BY <1>1 DEF Fit, SameBut
<1> QED  BY <1>1, <1>7, <1>9, <1>10, <1>11, <1>12, <1>13 DEF Fit

(* The first packet of a next keypair makes it the current one; what is    *)
(* handed up of it is left out of what the new window must know.           *)
LEMMA FitOpened ==
  ASSUME NEW n, NEW p, NEW r, NEW N, NEW S, NEW G, NEW O,
         p \in Peers, p.next.valid, NEW w, Received(p, "next", w, r),
         NEW c, NEW G2, G2 = G \/ G2 = G \cup {<<n, p.next.key, c, 1>>},
         NEW O2, O2 = O \cup {<<n, p.next.key, c>>},
         Fit(n, p, N, S, G, O)
  PROVE  Fit(n, r, N, S, G2, O2)
<1> DEFINE key == p.next.key
<1>1. /\ SameBut(p.next, r.curr, p.next.window) /\ ~r.next.valid /\ r.prev = p.curr
      /\ r.greatest = p.greatest /\ r.shake = p.shake
  BY DEF Received
<1>2. key \notin Used(n, N, S, G)
  BY DEF Fit
<1>3. Named(n, p, N, p.next)
  BY DEF Fit
<1>4. Mine(n, p, N, key)
  <2>1. CASE p.next.initiator
    <3>1. key[1] = p.next.local /\ Began(n, p, N, p.next.local)
      BY <1>3, <2>1 DEF Named
    <3> QED  BY <3>1 DEF Mine
  <2>2. CASE ~p.next.initiator
    <3>1. key[2] = p.next.local /\ Replied(n, N, p.next.local)
      BY <1>3, <2>2 DEF Named
    <3> QED  BY <3>1 DEF Mine
  <2> QED  BY <2>1, <2>2
<1>5. \A i : Began(n, r, N, i) <=> Began(n, p, N, i)
  BY <1>1 DEF Began
<1>6. \A x \in Used(n, N, S, G2) : x \in Used(n, N, S, G) \/ x = key
  BY DEF Used
<1>7. \A x \in Used(n, N, S, G2) :
        Mine(n, r, N, x) /\ (r.next.valid => x # r.next.key)
  <2>1. \A x : Mine(n, r, N, x) <=> Mine(n, p, N, x)
    BY <1>5 DEF Mine
  <2> QED  BY <1>1, <1>4, <1>6, <2>1 DEF Fit
<1>8. Given(n, key, G2, O2) = {}
  <2>1. ASSUME NEW x, <<n, key, x, 1>> \in G2 PROVE x = c /\ <<n, key, x, 2>> \notin G2
    <3>1. \A j : <<n, key, x, j>> \notin G
      BY <1>2, UsedKey
    <3> QED  BY <2>1, <3>1
  <2>2. <<n, key, c>> \in O2
    OBVIOUS
  <2> QED  BY <2>1, <2>2 DEF Given
<1>9. Watches(n, r.curr, G2, O2)
  <2>1. p.next.window = EmptyWindow
    BY DEF Fit
  <2> QED  BY <1>1, <1>8, <2>1, EmptyKnows DEF Watches, SameBut
<1>10. Watches(n, r.prev, G2, O2)
  <2>1. p.curr.valid => p.curr.key # key
    BY DEF Fit, Apart
  <2>2. ASSUME NEW l, l # key PROVE Given(n, l, G2, O2) \subseteq Given(n, l, G, O)
    <3>1. ASSUME NEW x, NEW j PROVE <<n, l, x, j>> \in G2 <=> <<n, l, x, j>> \in G
      <4>1. <<n, l, x, j>> # <<n, key, c, 1>>
        BY <2>2
      <4> QED  BY <4>1
    <3>2. ASSUME NEW x PROVE <<n, l, x>> \in O => <<n, l, x>> \in O2
      OBVIOUS
    <3> QED  BY <3>1, <3>2 DEF Given
  <2> QED  BY <1>1, <2>1, <2>2 DEF Fit, Watches, Knows, Tracks
<1>11. Shaking(n, r, N)
  BY <1>1 DEF Fit, Shaking
<1>12. Named(n, r, N, r.curr) /\ Named(n, r, N, r.next) /\ Named(n, r, N, r.prev)
  BY <1>1, <1>5 DEF Fit, Named, SameBut
<1>13. Apart(r.curr, r.next) /\ Apart(r.curr, r.prev) /\ Apart(r.next, r.prev)
  BY <1>1 DEF Fit, Apart, SameBut
<1>14. \A m \in Data(n, N) \cup S : m.key # r.curr.key
  BY <1>1, <1>2 DEF Used, SameBut
<1> QED  BY <1>1, <1>7, <1>9, <1>10, <1>11, <1>12, <1>13, <1>14 DEF Fit

-----------------------------------------------------------------------------
(* The actions.                                                            *)

LEMMA PendingOf ==
  ASSUME KInv, NEW n \in Node
  PROVE  /\ Pending(sending[n]) \in SUBSET Messages
         /\ \A m \in Pending(sending[n]) : m.type = "data"
         /\ net \in SUBSET Messages /\ peer[n] \in Peers
         /\ Good(peer[n], now) /\ now \in 1..MaxTime
         /\ Fit(n, peer[n], net, Pending(sending[n]), got, opened)
  BY DEF KInv, IInv, TypeOK, Good, Pending

(* A step of the manager task on device n.                                 *)
LEMMA ManagerKeys ==
  ASSUME KInv, IInv', NEW n \in Node, NEW q, peer' = [peer EXCEPT ![n] = q],
         sending' = sending, net \subseteq net',
         \A m \in net' \ net : m.type = "data" => /\ m.to = Other(n)
                                                  /\ m.counter < RejectMessages,
         got \subseteq got', \A g \in got' \ got : g[1] = n,
         opened \subseteq opened',
         Numbers(net', ids'), Handed(got', opened'),
         Fit(n, q, net', Pending(sending[n]), got', opened')
  PROVE  KInv'
<1>1. peer \in [Node -> Peers]
  BY DEF KInv, IInv, TypeOK
<1>2. peer'[n] = q /\ \A i \in Node \ {n} : peer'[i] = peer[i]
  BY <1>1
<1>3. ASSUME NEW i \in Node, i # n
      PROVE  Fit(i, peer'[i], net', Pending(sending'[i]), got', opened')
  <2>1. Other(i) = n /\ Other(n) = i
    BY <1>3, TwoNodes
  <2>2. Data(i, net') = Data(i, net)
    BY <1>3, <2>1 DEF Data
  <2>3. \A x : x[1] = i => (x \in got' <=> x \in got)
    BY <1>3
  <2>4. Fit(i, peer[i], net', Pending(sending[i]), got', opened')
    BY <2>2, <2>3, PendingOf, FitMore
  <2> QED  BY <1>2, <1>3, <2>4
<1>4. ASSUME NEW i \in Node
      PROVE  Fit(i, peer'[i], net', Pending(sending'[i]), got', opened')
  BY <1>2, <1>3
<1>5. ASSUME NEW i \in Node
      PROVE  /\ Counters(net', sending'[i])
             /\ sending'[i].busy => /\ sending'[i].packet.type = "data"
                                    /\ sending'[i].packet.to = Other(i)
  BY DEF KInv, Counters
<1> QED  BY <1>4, <1>5 DEF KInv

(* A step that sends only data, and draws no number.                       *)
LEMMA NumbersSame ==
  ASSUME NEW N, NEW i, Numbers(N, i), NEW X, \A m \in X : m.type = "data"
  PROVE  Numbers(N \cup X, i)
  BY DEF Numbers

LEMMA NumbersNew ==
  ASSUME NEW N \in SUBSET Messages, NEW i \in Nat, Numbers(N, i), NEW x, x.sender = i + 1,
         x.type = "response" => x.chain = <<x.receiver, x.sender>>
  PROVE  Numbers(N \cup {x}, i + 1) /\ \A m \in N : m.type # "data" => m.sender < i + 1
<1>1. ASSUME NEW m \in N, m.type # "data" PROVE m.sender \in Nat /\ m.sender <= i
  BY <1>1 DEF Numbers, Messages, Ids
<1>2. \A m \in N : m.type # "data" => m.sender < i + 1 /\ m.sender <= i + 1 /\ m.sender # x.sender
  BY <1>1
<1>3. Numbers(N \cup {x}, i + 1)
  <2> SUFFICES ASSUME NEW m \in N \cup {x}, m.type # "data"
               PROVE  /\ m.sender <= i + 1
                      /\ m.type = "response" => m.chain = <<m.receiver, m.sender>>
                      /\ \A o \in N \cup {x} : o.type # "data" /\ o.sender = m.sender
                                    => o.type = m.type /\ o.to = m.to
    BY DEF Numbers
  <2>1. CASE m \in N
    BY <1>2, <2>1 DEF Numbers
  <2>2. CASE m = x
    BY <1>2, <2>2
  <2> QED  BY <2>1, <2>2
<1> QED  BY <1>2, <1>3

LEMMA SendKeys == ASSUME KInv, IInv', NEW n \in Node, Send(n) PROVE KInv'
<1> DEFINE p == peer[n]
<1>1. /\ Good(p, now) /\ now \in 1..MaxTime /\ p \in Peers /\ now \in Nat
      /\ SendSlot(p) = "curr" /\ net \in SUBSET Messages
      /\ Fit(n, p, net, Pending(sending[n]), got, opened)
  BY PendingOf, SlotIsCurr
<1>2. CASE ~CanSend(p)
  <2>1. /\ peer' = [peer EXCEPT ![n] = NoSend(p)]
        /\ sending' = sending /\ net' = net /\ ids' = ids /\ got' = got /\ opened' = opened
    BY <1>2 DEF Send
  <2>2. Keeps(p, NoSend(p)) /\ NoSend(p) \in Peers
    BY <1>1, NoSendKeeps, NoSendGood DEF Good
  <2>3. Fit(n, NoSend(p), net, Pending(sending[n]), got, opened)
    BY <1>1, <2>2, PendingOf, FitKeeps
  <2>4. Numbers(net, ids) /\ Handed(got, opened)
    BY DEF KInv
  <2> QED  BY <2>1, <2>3, <2>4, ManagerKeys
<1>3. CASE CanSend(p)
  <2> DEFINE x == [busy |-> TRUE, slot |-> "curr", packet |-> Sealed(n, p.curr, TRUE)]
  <2>1. /\ sending' = [sending EXCEPT ![n] = x] /\ ~sending[n].busy
        /\ peer' = peer /\ net' = net /\ ids' = ids /\ got' = got /\ opened' = opened
    BY <1>1, <1>3 DEF Send
  <2>2. Pending(sending[n]) = {}
    BY <2>1 DEF Pending
  <2>3. Fit(n, p, net, {Sealed(n, p.curr, TRUE)}, got, opened)
    BY <1>1, <1>3, <2>2, FitSealed
  <2>4. Pending(x) = {Sealed(n, p.curr, TRUE)}
    BY DEF Pending
  <2>5. /\ x.packet.type = "data" /\ x.packet.to = Other(n)
        /\ x.packet.counter < RejectMessages
    BY <1>1, <1>3 DEF Sealed, CanSend, Live
  <2> HIDE DEF x
  <2>6. sending \in [Node -> Sendings]
    BY DEF KInv, IInv, TypeOK
  <2>7. \A i \in Node : sending'[i] = IF i = n THEN x ELSE sending[i]
    BY <2>1, <2>6
  <2>8. ASSUME NEW i \in Node
        PROVE  /\ Counters(net', sending'[i])
               /\ sending'[i].busy => /\ sending'[i].packet.type = "data"
                                      /\ sending'[i].packet.to = Other(i)
               /\ Fit(i, peer'[i], net', Pending(sending'[i]), got', opened')
    <3>1. CASE i = n
      BY <2>1, <2>3, <2>4, <2>5, <2>7, <3>1 DEF KInv, Counters
    <3>2. CASE i # n
      BY <2>1, <2>7, <3>2 DEF KInv
    <3> QED  BY <3>1, <3>2
  <2> QED  BY <2>1, <2>8 DEF KInv
<1> QED  BY <1>2, <1>3

LEMMA SendDoneKeys == ASSUME KInv, IInv', NEW n \in Node, SendDone(n) PROVE KInv'
<1> DEFINE p == peer[n]
           x == sending[n].packet
           q == Counted(p, "curr")
<1>1. /\ Good(p, now) /\ now \in 1..MaxTime /\ net \in SUBSET Messages
      /\ Room(p) /\ x \in Messages /\ sending[n].slot = "curr" /\ sending[n].busy
      /\ x.type = "data" /\ x.to = Other(n) /\ x.counter < RejectMessages
  BY PendingOf DEF SendDone, KInv, IInv, Counters
<1>2. /\ peer' = [peer EXCEPT ![n] = q] /\ sending' = [sending EXCEPT ![n] = Idle]
      /\ net' = net \cup {x} /\ ids' = ids /\ got' = got /\ opened' = opened
  BY <1>1 DEF SendDone
<1>3. Fit(n, p, net, {x}, got, opened)
  BY <1>1 DEF KInv, Pending
<1>4. Fit(n, q, net \cup {x}, {}, got, opened)
  BY <1>1, <1>3, FitDone
<1> HIDE DEF q
<1>5. Pending(Idle) = {} /\ ~Idle.busy
  BY DEF Pending, Idle
<1>6. peer \in [Node -> Peers] /\ sending \in [Node -> Sendings]
  BY DEF KInv, IInv, TypeOK
<1>7. \A i \in Node : /\ peer'[i] = IF i = n THEN q ELSE peer[i]
                      /\ sending'[i] = IF i = n THEN Idle ELSE sending[i]
  BY <1>2, <1>6
<1>8. ASSUME NEW i \in Node, i # n
      PROVE  Fit(i, peer[i], net \cup {x}, Pending(sending[i]), got, opened)
  <2>1. Other(i) # Other(n)
    BY <1>8, TwoNodes
  <2>2. Data(i, net \cup {x}) = Data(i, net)
    BY <1>1, <2>1 DEF Data
  <2>3. Fit(i, peer[i], net, Pending(sending[i]), got, opened)
    BY DEF KInv
  <2> QED  BY <2>2, <2>3, FitMore
<1>9. Numbers(net', ids') /\ Handed(got', opened')
  <2>1. Numbers(net \cup {x}, ids)
    BY <1>1, NumbersSame DEF KInv
  <2> QED  BY <1>2, <2>1 DEF KInv
<1>10. ASSUME NEW i \in Node
       PROVE  /\ Counters(net', sending'[i])
              /\ sending'[i].busy => /\ sending'[i].packet.type = "data"
                                     /\ sending'[i].packet.to = Other(i)
              /\ Fit(i, peer'[i], net', Pending(sending'[i]), got', opened')
  <2>1. CASE i = n
    <3>1. peer'[i] = q /\ sending'[i] = Idle
      BY <1>7, <2>1
    <3>2. Fit(i, peer'[i], net', Pending(sending'[i]), got', opened')
      BY <1>2, <1>4, <1>5, <2>1, <3>1
    <3>3. Counters(net', sending'[i]) /\ ~sending'[i].busy
      BY <1>1, <1>2, <1>5, <3>1 DEF KInv, Counters
    <3> QED  BY <3>2, <3>3
  <2>2. CASE i # n
    BY <1>1, <1>2, <1>7, <1>8, <2>2 DEF KInv, Counters
  <2> QED  BY <2>1, <2>2
<1> QED  BY <1>9, <1>10 DEF KInv

LEMMA InitiatedFields ==
  ASSUME NEW p \in Peers, NEW i
  PROVE  LET q == Initiated(p, i)
         IN  /\ q.curr = p.curr /\ q.next = p.next /\ q.prev = p.prev
             /\ q.greatest = p.greatest
             /\ q.shake.initiator /\ q.shake.local = i /\ q.shake.chain = <<i>>
<1> DEFINE h == [p.shake EXCEPT !.valid = TRUE, !.initiator = TRUE, !.local = i,
                                !.chain = <<i>>]
           q == Initiated(p, i)
<1>1. p.shake \in Handshakes
  BY PeerFields
<1>2. h.initiator /\ h.local = i /\ h.chain = <<i>>
  BY <1>1 DEF Handshakes
<1> HIDE DEF h
<1>3. /\ q.curr = p.curr /\ q.next = p.next /\ q.prev = p.prev
      /\ q.greatest = p.greatest /\ q.shake = h
  BY DEF Initiated, Peers, h
<1> QED  BY <1>2, <1>3

LEMMA ConnectKeys == ASSUME KInv, IInv', NEW n \in Node, Connect(n) PROVE KInv'
<1> DEFINE q == Initiated(peer[n], ids + 1)
           r == [q EXCEPT !.active = TRUE]
           x == Initiation(n, ids + 1)
<1>1. /\ Good(peer[n], now) /\ now \in 1..MaxTime /\ net \in SUBSET Messages
      /\ peer[n] \in Peers /\ ids \in Nat /\ ids + 1 \in Ids
      /\ Fit(n, peer[n], net, Pending(sending[n]), got, opened)
      /\ Numbers(net, ids) /\ Handed(got, opened)
  BY PendingOf, Bounds DEF KInv, IInv, TypeOK, Connect, Ids, Indexes
<1>2. q \in Peers
  BY <1>1, InitiatedGood DEF Good
<1>3. /\ q.curr = peer[n].curr /\ q.next = peer[n].next /\ q.prev = peer[n].prev
      /\ q.greatest = peer[n].greatest
      /\ q.shake.initiator /\ q.shake.local = ids + 1 /\ q.shake.chain = <<ids + 1>>
  BY <1>1, InitiatedFields
<1> HIDE DEF q
<1>4. r \in Peers
  BY <1>2, Zenon DEF Peers
<1>5. /\ r.curr = q.curr /\ r.next = q.next /\ r.prev = q.prev
      /\ r.greatest = q.greatest /\ r.shake = q.shake
  BY <1>2 DEF Peers
<1>6. x.sender = ids + 1 /\ x.type = "initiation"
  BY DEF Initiation
<1>7. Numbers(net \cup {x}, ids + 1) /\ \A m \in net : m.type # "data" => m.sender < ids + 1
  BY <1>1, <1>6, NumbersNew
<1> HIDE DEF r
<1>8. Fit(n, r, net \cup {x}, Pending(sending[n]), got, opened)
  BY <1>1, <1>3, <1>4, <1>5, <1>7, PendingOf, FitInitiated
<1>9. /\ peer' = [peer EXCEPT ![n] = r] /\ sending' = sending
      /\ net' = net \cup {x} /\ ids' = ids + 1 /\ got' = got /\ opened' = opened
  BY DEF Connect, q, r
<1> QED  BY <1>1, <1>6, <1>7, <1>8, <1>9, ManagerKeys

(* A key none of whose numbers is n's own was never used on n.             *)
LEMMA KeyIsNew ==
  ASSUME NEW n, NEW p, NEW N, NEW S, NEW G, NEW O, NEW key,
         Fit(n, p, N, S, G, O),
         ~Began(n, p, N, key[1]), ~Replied(n, N, key[2])
  PROVE  /\ key \notin Used(n, N, S, G)
         /\ p.curr.valid => p.curr.key # key
         /\ p.next.valid => p.next.key # key
         /\ p.prev.valid => p.prev.key # key
<1>1. ASSUME NEW k, Named(n, p, N, k), k.valid, k.key = key PROVE FALSE
  <2>1. CASE k.initiator
    <3>1. key[1] = k.local /\ Began(n, p, N, k.local)
      BY <1>1, <2>1 DEF Named
    <3> QED  BY <3>1
  <2>2. CASE ~k.initiator
    <3>1. key[2] = k.local /\ Replied(n, N, k.local)
      BY <1>1, <2>2 DEF Named
    <3> QED  BY <3>1
  <2> QED  BY <2>1, <2>2
<1>2. key \notin Used(n, N, S, G)
  BY DEF Fit, Mine
<1> QED  BY <1>1, <1>2 DEF Fit

LEMMA RecvInitiationKeys == ASSUME KInv, IInv', NEW n \in Node, RecvInitiation(n) PROVE KInv'
<1> DEFINE r == ids + 1
           o == peer[n]
           h(m) == [valid |-> TRUE, initiator |-> FALSE, local |-> r,
                    remote |-> m.sender, chain |-> <<m.sender, r>>]
           p(m) == [peer[n] EXCEPT !.greatest = m.sender, !.shake = h(m)]
           out(m) == [type |-> "response", to |-> Other(n), sender |-> r,
                      receiver |-> m.sender, chain |-> p(m).shake.chain]
<1>1. PICK m \in net :
        /\ m.type = "initiation" /\ m.to = n /\ Newer(o, m)
        /\ peer' = [peer EXCEPT ![n] = StartSession(p(m), FALSE)]
        /\ net' = net \cup {out(m)} /\ ids' = r
  BY DEF RecvInitiation
<1> DEFINE S == Pending(sending[n])
           N2 == net \cup {out(m)}
           key == <<m.sender, r>>
<1>2. /\ Good(o, now) /\ now \in 1..MaxTime /\ net \in SUBSET Messages
      /\ o \in Peers /\ ids \in Nat /\ r \in Ids /\ r \in Indexes
      /\ S \in SUBSET Messages /\ \A x \in S : x.type = "data"
      /\ Fit(n, o, net, S, got, opened)
      /\ Numbers(net, ids) /\ Handed(got, opened)
  BY PendingOf, Bounds DEF KInv, IInv, TypeOK, RecvInitiation, Ids, Indexes
<1>3. m.sender \in Ids /\ m.sender \in Indexes
  BY <1>1, <1>2, MessageFields, Bounds DEF Ids, Indexes
<1>4. /\ h(m) \in Handshakes /\ h(m).chain = key
      /\ h(m).local = r /\ h(m).remote = m.sender
  BY <1>2, <1>3 DEF Handshakes, Chains
<1>5. /\ sending' = sending /\ got' = got /\ opened' = opened
  BY DEF RecvInitiation
<1> HIDE DEF h
<1>6. p(m) \in Peers
  BY <1>2, <1>3, <1>4, Zenon DEF Peers
<1>7. /\ p(m).curr = o.curr /\ p(m).next = o.next /\ p(m).prev = o.prev
      /\ p(m).shake = h(m) /\ p(m).greatest = m.sender
  BY <1>2 DEF Peers
<1>8. o.greatest <= m.sender
  BY <1>1, <1>2, <1>3, GreatestType DEF Newer, Ids
<1> HIDE DEF p
<1>9. /\ out(m).type = "response" /\ out(m).to = Other(n) /\ out(m).sender = r
      /\ out(m).chain = <<out(m).receiver, out(m).sender>> /\ out(m) \in Messages
  <2>1. p(m).shake.chain = key /\ key \in Ids \X Ids
    BY <1>2, <1>3, <1>4, <1>7
  <2>2. out(m) = [type |-> "response", to |-> Other(n), sender |-> r,
                  receiver |-> m.sender, chain |-> key]
    BY <2>1
  <2>3. out(m) \in Messages
    BY <1>2, <1>3, <2>1, <2>2, OtherNode DEF Messages
  <2> QED  BY <2>2, <2>3
<1> HIDE DEF out
<1>10. Numbers(N2, r) /\ \A x \in net : x.type # "data" => x.sender < r
  BY <1>2, <1>9, NumbersNew
<1>11. ~Began(n, o, net, m.sender)
  <2>1. ASSUME Initiation(n, m.sender) \in net PROVE FALSE
    <3>1. Initiation(n, m.sender).to = Other(n) /\ Initiation(n, m.sender).sender = m.sender
          /\ Initiation(n, m.sender).type = "initiation"
      BY DEF Initiation
    <3>2. Other(n) = m.to
      BY <1>1, <1>2, <2>1, <3>1 DEF Numbers
    <3> QED  BY <1>1, <3>2, TwoNodes
  <2> QED  BY <2>1 DEF Began
<1>12. ~Replied(n, net, r)
  BY <1>2, <1>10 DEF Replied, Messages, Ids
<1>13. /\ key \notin Used(n, net, S, got)
       /\ o.curr.valid => o.curr.key # key
       /\ o.next.valid => o.next.key # key
       /\ o.prev.valid => o.prev.key # key
  <2>1. key[1] = m.sender /\ key[2] = r
    OBVIOUS
  <2> HIDE DEF key
  <2> QED  BY <1>2, <1>11, <1>12, <2>1, KeyIsNew
<1>14. Data(n, N2) = Data(n, net)
  BY <1>9 DEF Data
<1>15. Fit(n, o, N2, S, got, opened) /\ key \notin Used(n, N2, S, got)
  <2>1. Fit(n, o, N2, S, got, opened)
    BY <1>2, <1>14, FitMore
  <2> QED  BY <1>13, <1>14, <2>1 DEF Used
<1>16. Replied(n, N2, r)
  BY <1>9 DEF Replied
<1>17. N2 \in SUBSET Messages /\ Good(p(m), now)
  BY <1>2, <1>6, <1>7, <1>9, SlotsSame
<1>18. Fit(n, StartSession(p(m), FALSE), N2, S, got, opened)
  <2>1. /\ p(m).shake.chain = <<p(m).shake.remote, p(m).shake.local>>
        /\ p(m).shake.chain = key /\ p(m).shake.local = r
        /\ p(m).shake.chain[1] <= p(m).greatest
        /\ p(m).shake.chain \in Ids \X Ids
    BY <1>2, <1>3, <1>4, <1>7 DEF Ids
  <2> HIDE DEF S, N2, key, o
  <2> QED  BY <1>2, <1>7, <1>8, <1>13, <1>15, <1>16, <1>17, <2>1, FitStart
<1>19. \A x \in net' \ net : x.type # "data"
  BY <1>1, <1>9
<1> QED  BY <1>1, <1>2, <1>5, <1>10, <1>18, <1>19, ManagerKeys

LEMMA RecvResponseKeys == ASSUME KInv, IInv', NEW n \in Node, RecvResponse(n) PROVE KInv'
<1> DEFINE o == peer[n]
           h(m) == [o.shake EXCEPT !.remote = m.sender, !.chain = m.chain]
           p(m) == [peer[n] EXCEPT !.shake = h(m)]
           k(m) == KeepaliveFor(n, StartSession(p(m), TRUE))
           S == Pending(sending[n])
<1>1. PICK m \in net :
        /\ m.type = "response" /\ m.to = n /\ Answers(o.shake, m)
        /\ peer' = [peer EXCEPT ![n] = k(m).p]
        /\ net' = net \cup k(m).out
  BY DEF RecvResponse
<1> DEFINE key == m.chain
<1>2. /\ Good(o, now) /\ now \in 1..MaxTime /\ net \in SUBSET Messages
      /\ o \in Peers /\ o.shake \in Handshakes
      /\ S \in SUBSET Messages /\ \A x \in S : x.type = "data"
      /\ Fit(n, o, net, S, got, opened)
      /\ Numbers(net, ids) /\ Handed(got, opened)
  BY PendingOf, PeerFields DEF KInv
<1>3. /\ m.sender \in Indexes /\ m.chain \in Ids \X Ids /\ m.chain \in Chains
  BY <1>1, <1>2, MessageFields, Bounds DEF Ids, Indexes, Chains
<1>4. m.chain = <<m.receiver, m.sender>>
  BY <1>1, <1>2 DEF Numbers
<1>5. sending' = sending /\ ids' = ids /\ got' = got /\ opened' = opened
  BY DEF RecvResponse
<1>6. h(m) \in Handshakes
  BY <1>2, <1>3, Zenon DEF Handshakes
<1>7. h(m).chain = m.chain /\ h(m).remote = m.sender /\ h(m).local = m.receiver
  BY <1>1, <1>2 DEF Handshakes, Answers
<1> HIDE DEF h
<1>8. p(m) \in Peers
  BY <1>2, <1>6, Zenon DEF Peers
<1>9. /\ p(m).curr = o.curr /\ p(m).next = o.next /\ p(m).prev = o.prev
      /\ p(m).shake = h(m) /\ p(m).greatest = o.greatest
  BY <1>2 DEF Peers
<1> HIDE DEF p
<1>10. Good(p(m), now)
  BY <1>2, <1>8, <1>9, SlotsSame
<1>11. ~Began(n, o, net, m.receiver) /\ Initiation(n, m.receiver) \in net
  BY <1>1, <1>2 DEF Began, Answers, Fit, Shaking
<1>12. ~Replied(n, net, m.sender)
  <2>1. ASSUME NEW x \in net, x.type = "response", x.to = Other(n), x.sender = m.sender
        PROVE  FALSE
    <3>1. x.to = m.to
      BY <1>1, <1>2, <2>1 DEF Numbers
    <3> QED  BY <1>1, <2>1, <3>1, TwoNodes
  <2> QED  BY <2>1 DEF Replied
<1>13. /\ key \notin Used(n, net, S, got)
       /\ o.curr.valid => o.curr.key # key
       /\ o.next.valid => o.next.key # key
       /\ o.prev.valid => o.prev.key # key
  <2>1. key[1] = m.receiver /\ key[2] = m.sender
    BY <1>4
  <2> HIDE DEF key
  <2> QED  BY <1>2, <1>11, <1>12, <2>1, KeyIsNew
<1>14. /\ Fit(n, StartSession(p(m), TRUE), net, S, got, opened)
       /\ Good(StartSession(p(m), TRUE), now)
  <2>1. /\ p(m).shake.chain = <<p(m).shake.local, p(m).shake.remote>>
        /\ p(m).shake.chain = key /\ p(m).shake.local = m.receiver
        /\ p(m).shake.chain \in Ids \X Ids
    BY <1>3, <1>4, <1>7, <1>9
  <2>2. o.greatest <= p(m).greatest
    BY <1>2, <1>9, GreatestType
  <2>3. Good(StartSession(p(m), TRUE), now)
    BY <1>2, <1>10, <2>1, StartGood
  <2> HIDE DEF S, key, o
  <2> QED  BY <1>2, <1>9, <1>10, <1>11, <1>13, <2>1, <2>2, <2>3, FitStart
<1>15. /\ Fit(n, k(m).p, net \cup k(m).out, S, got, opened)
       /\ \A x \in k(m).out : /\ x.type = "data" /\ x.to = Other(n)
                              /\ x.counter < RejectMessages
  BY <1>2, <1>14, KeepaliveKeys
<1> HIDE DEF k, S
<1>16. Numbers(net \cup k(m).out, ids)
  BY <1>2, <1>15, NumbersSame
<1>17. \A x \in net' \ net : x.to = Other(n) /\ x.counter < RejectMessages
  BY <1>1, <1>15
<1> QED  BY <1>1, <1>2, <1>5, <1>15, <1>16, <1>17, ManagerKeys DEF S

LEMMA PeriodicKeys == ASSUME KInv, IInv', NEW n \in Node, Periodic(n) PROVE KInv'
<1> DEFINE o == peer[n]
           p == DropDead(Reset(o))
           k == IF KeepaliveDue(p) THEN KeepaliveFor(n, p) ELSE [p |-> p, out |-> {}]
           S == Pending(sending[n])
           N2 == net \cup k.out
           x == Initiation(n, ids + 1)
<1>1. /\ Good(o, now) /\ now \in 1..MaxTime /\ now \in Nat /\ net \in SUBSET Messages
      /\ o \in Peers /\ ids \in Nat
      /\ S \in SUBSET Messages /\ \A m \in S : m.type = "data"
      /\ Fit(n, o, net, S, got, opened)
      /\ Numbers(net, ids) /\ Handed(got, opened)
  BY PendingOf, Bounds DEF KInv, IInv, TypeOK, Indexes
<1>2. Good(p, now) /\ p \in Peers /\ Keeps(o, p)
  <2>1. Good(Reset(o), now) /\ Reset(o) \in Peers /\ Keeps(o, Reset(o))
    BY <1>1, ResetGood, ResetKeeps DEF Good
  <2>2. Good(p, now) /\ p \in Peers /\ Keeps(Reset(o), p)
    BY <1>1, <2>1, DropDeadGood, DropDeadKeeps DEF Good
  <2> QED  BY <1>1, <2>1, <2>2, KeepsTwice
<1>3. Fit(n, p, net, S, got, opened)
  BY <1>1, <1>2, FitKeeps
<1>4. /\ sending' = sending /\ got' = got /\ opened' = opened
      /\ \/ /\ ids < MaxIds /\ ids' = ids + 1
            /\ peer' = [peer EXCEPT ![n] = Initiated(k.p, ids + 1)]
            /\ net' = N2 \cup {x}
         \/ /\ peer' = [peer EXCEPT ![n] = k.p]
            /\ net' = N2 /\ ids' = ids
  BY DEF Periodic
<1> HIDE DEF p
<1>5. /\ Fit(n, k.p, N2, S, got, opened) /\ Good(k.p, now) /\ k.p \in Peers
      /\ N2 \in SUBSET Messages
      /\ \A m \in k.out : /\ m.type = "data" /\ m.to = Other(n)
                          /\ m.counter < RejectMessages
  <2>1. CASE KeepaliveDue(p)
    BY <1>1, <1>2, <1>3, <2>1, KeepaliveKeys, KeepaliveGood DEF Good
  <2>2. CASE ~KeepaliveDue(p)
    <3>1. k.p = p /\ k.out = {} /\ N2 = net
      BY <2>2
    <3> QED  BY <1>1, <1>2, <1>3, <3>1
  <2> QED  BY <2>1, <2>2
<1> HIDE DEF k, S
<1>6. Numbers(N2, ids)
  BY <1>1, <1>5, NumbersSame
<1>7. \A m \in N2 \ net : m.to = Other(n) /\ m.counter < RejectMessages
  BY <1>5
<1>8. CASE peer' = [peer EXCEPT ![n] = k.p] /\ net' = N2 /\ ids' = ids
  BY <1>1, <1>4, <1>5, <1>6, <1>7, <1>8, ManagerKeys DEF S
<1>9. CASE /\ ids < MaxIds /\ ids' = ids + 1
           /\ peer' = [peer EXCEPT ![n] = Initiated(k.p, ids + 1)]
           /\ net' = N2 \cup {x}
  <2> DEFINE q == Initiated(k.p, ids + 1)
  <2>1. ids + 1 \in Ids
    BY <1>1, <1>9, Bounds DEF Ids
  <2>2. q \in Peers
    BY <1>1, <1>5, <2>1, InitiatedGood DEF Good
  <2>3. /\ q.curr = k.p.curr /\ q.next = k.p.next /\ q.prev = k.p.prev
        /\ q.greatest = k.p.greatest
        /\ q.shake.initiator /\ q.shake.local = ids + 1 /\ q.shake.chain = <<ids + 1>>
    BY <1>5, InitiatedFields
  <2>4. x.sender = ids + 1 /\ x.type = "initiation"
    BY DEF Initiation
  <2> HIDE DEF q, x, N2
  <2>5. Numbers(N2 \cup {x}, ids + 1) /\ \A m \in N2 : m.type # "data" => m.sender < ids + 1
    BY <1>1, <1>5, <1>6, <2>4, NumbersNew
  <2>6. Fit(n, q, N2 \cup {x}, S, got, opened)
    BY <1>1, <1>5, <2>1, <2>2, <2>3, <2>5, FitInitiated DEF x
  <2>7. \A m \in net' \ net : m.type = "data" => m.to = Other(n) /\ m.counter < RejectMessages
    BY <1>7, <1>9, <2>4
  <2>8. net \subseteq net'
    BY <1>9 DEF N2
  <2> QED  BY <1>1, <1>4, <1>9, <2>5, <2>6, <2>7, <2>8, ManagerKeys DEF S, q
<1> QED  BY <1>4, <1>8, <1>9

LEMMA TimesIs ==
  ASSUME NEW n, NEW m, <<n, m.key, m.counter, 2>> \notin got
  PROVE  Times(n, m) = IF <<n, m.key, m.counter, 1>> \in got THEN 1 ELSE 0
<1> DEFINE P(i) == \A j \in 1..2 : (<<n, m.key, m.counter, j>> \in got) <=> j <= i
           v == IF <<n, m.key, m.counter, 1>> \in got THEN 1 ELSE 0
<1>1. v \in 0..2 /\ P(v)
  <2>1. \A j \in 1..2 : j = 1 \/ j = 2
    OBVIOUS
  <2> QED  BY <2>1
<1>2. \A i \in 0..2 : P(i) => i = v
  <2> TAKE i \in 0..2
  <2>1. P(i) => /\ (<<n, m.key, m.counter, 1>> \in got) <=> 1 <= i
                /\ (<<n, m.key, m.counter, 2>> \in got) <=> 2 <= i
    OBVIOUS
  <2> HIDE DEF P
  <2> QED  BY <2>1
<1>3. Times(n, m) = CHOOSE i \in 0..2 : P(i)
  BY DEF Times
<1> HIDE DEF P, v
<1>4. Times(n, m) = v
  BY <1>1, <1>2, <1>3
<1> QED  BY <1>4 DEF v

(* A packet the window accepts was handed up at most as the one that opened *)
(* its key, and the window goes on knowing what was.                        *)
LEMMA AcceptedOnce ==
  ASSUME NEW n \in Node, NEW key, NEW w \in Windows, NEW c \in Nonces, c + 1 < DiffMod,
         NEW j, NEW G, NEW O, Knows(w, Given(n, key, G, O)), Accepts(w, c)
  PROVE  /\ c \notin Given(n, key, G, O)
         /\ Noted(w, c) \in Windows
         /\ Knows(Noted(w, c), Given(n, key, G \cup {<<n, key, c, j>>}, O))
<1> DEFINE given == Given(n, key, G, O)
           G2 == G \cup {<<n, key, c, j>>}
           v == Noted(w, c)
<1>1. c \in Nat /\ c + 1 < DiffMod /\ DiffMod <= SeqMod /\ w.top \in Nat
  BY Bounds, ConstAssumption, WindowAssumption DEF Nonces, Windows
<1>2. given \in SUBSET Nat /\ Tracks(w, given) /\ w.top < DiffMod
  BY DEF Given, Knows
<1>3. c + 1 < SeqMod /\ w.top - (c + 1) < DiffMod
  BY <1>1, <1>2, Bounds
<1>4. c \notin given /\ v \in Windows /\ Tracks(v, given \cup {c})
  BY <1>1, <1>2, <1>3, NeverTwice
<1>5. v.top < DiffMod
  <2>1. Number(c) = c + 1
    BY <1>1, <1>3, Bounds, SmallMod DEF Number
  <2> QED  BY <1>1, <1>2, <2>1, Bounds DEF Noted
<1>6. Given(n, key, G2, O) \subseteq given \cup {c}
  <2> SUFFICES ASSUME NEW x \in Given(n, key, G2, O), x # c PROVE x \in given
    OBVIOUS
  <2>1. \A i : <<n, key, x, i>> \in G2 <=> <<n, key, x, i>> \in G
    OBVIOUS
  <2> QED  BY <2>1 DEF Given
<1> QED  BY <1>4, <1>5, <1>6 DEF Knows, Tracks

LEMMA RecvDataKeys == ASSUME KInv, NoWrap, IInv', NEW n \in Node, RecvData(n) PROVE KInv'
<1> DEFINE p == peer[n]
           s(m) == SlotFor(p, m)
           q(m) == Heard(p, s(m))
           fresh(m) == m.payload /\ Accepts(q(m)[s(m)].window, m.counter)
           w(m) == IF fresh(m) THEN Noted(q(m)[s(m)].window, m.counter)
                   ELSE q(m)[s(m)].window
           r(m) == [q(m) EXCEPT !.wantShake = WantsRekey(q(m), s(m)),
                                ![s(m)].window = w(m)]
           G2(m) == IF fresh(m) THEN got \cup {<<n, m.key, m.counter, Times(n, m) + 1>>}
                    ELSE got
           O2(m) == IF s(m) = "next" THEN opened \cup {<<n, m.key, m.counter>>} ELSE opened
           S == Pending(sending[n])
<1>1. PICK m \in net :
        /\ m.type = "data" /\ m.to = n /\ HasSlotFor(p, m)
        /\ \/ /\ peer' = [peer EXCEPT ![n] = Destroy(p, s(m))]
              /\ got' = got /\ opened' = opened
           \/ /\ m.key = p[s(m)].key
              /\ peer' = [peer EXCEPT ![n] =
                   [q(m) EXCEPT !.wantShake = WantsRekey(q(m), s(m)),
                                ![s(m)].window = IF fresh(m) THEN Noted(@, m.counter)
                                                 ELSE @]]
              /\ got' = G2(m) /\ opened' = O2(m)
  BY DEF RecvData
<1>2. /\ Good(p, now) /\ now \in 1..MaxTime /\ now \in Nat /\ net \in SUBSET Messages
      /\ p \in Peers
      /\ S \in SUBSET Messages /\ \A x \in S : x.type = "data"
      /\ Fit(n, p, net, S, got, opened)
      /\ Numbers(net, ids) /\ Handed(got, opened)
  BY PendingOf, Bounds DEF KInv
<1>3. s(m) \in Slots /\ p[s(m)].valid
  BY <1>1 DEF HasSlotFor, SlotFor
<1>4. sending' = sending /\ net' = net /\ ids' = ids
  BY DEF RecvData
<1>5. CASE /\ peer' = [peer EXCEPT ![n] = Destroy(p, s(m))]
           /\ got' = got /\ opened' = opened
  <2>1. Keeps(p, Destroy(p, s(m))) /\ Destroy(p, s(m)) \in Peers
    BY <1>2, <1>3, DestroyKeeps, DestroyGood DEF Good
  <2>2. Fit(n, Destroy(p, s(m)), net, S, got, opened)
    BY <1>2, <2>1, FitKeeps
  <2> QED  BY <1>2, <1>4, <1>5, <2>2, ManagerKeys
<1>6. CASE /\ m.key = p[s(m)].key
           /\ peer' = [peer EXCEPT ![n] = r(m)]
           /\ got' = G2(m) /\ opened' = O2(m)
  <2> DEFINE j == Times(n, m) + 1
  <2>1. m.counter \in Nonces /\ m.key \in Keys /\ m.counter + 1 < DiffMod
    BY <1>1, <1>2 DEF Messages, NoWrap
  <2>2. q(m)[s(m)].window \in Windows
    BY <1>2, <1>3, HeardGood, SlotType, KeyFields DEF Good
  <2>3. w(m) \in Windows
    BY <2>1, <2>2, NotedType, Bounds DEF Nonces
  <2>4. WantsRekey(q(m), s(m)) \in BOOLEAN
    BY DEF WantsRekey
  <2>5. /\ Received(p, s(m), w(m), r(m))
        /\ q(m)[s(m)].window = IF s(m) = "next" THEN EmptyWindow ELSE p[s(m)].window
    <3> HIDE DEF w
    <3> QED  BY <1>2, <1>3, <2>3, <2>4, ReceivedSlots
  <2>6. CASE s(m) = "next"
    <3>1. /\ Received(p, "next", w(m), r(m)) /\ m.key = p.next.key /\ p.next.valid
          /\ O2(m) = opened \cup {<<n, m.key, m.counter>>}
      BY <1>3, <1>6, <2>5, <2>6
    <3>2. \A i : <<n, m.key, m.counter, i>> \notin got
      <4>1. m.key \notin Used(n, net, S, got)
        BY <1>2, <3>1 DEF Fit
      <4> QED  BY <4>1, UsedKey
    <3>3. j = 1
      <4>1. /\ <<n, m.key, m.counter, 1>> \notin got
            /\ <<n, m.key, m.counter, 2>> \notin got
        BY <3>2
      <4>2. Times(n, m) = 0
        BY <4>1, TimesIs
      <4> QED  BY <4>2
    <3>4. G2(m) \in {got, got \cup {<<n, m.key, m.counter, 1>>}}
      BY <3>3
    <3> HIDE DEF G2, O2, r, w, S
    <3>5. Fit(n, r(m), net, S, G2(m), O2(m))
      <4>1. /\ \/ G2(m) = got
               \/ G2(m) = got \cup {<<n, p.next.key, m.counter, 1>>}
            /\ O2(m) = opened \cup {<<n, p.next.key, m.counter>>}
        BY <3>1, <3>4
      <4>2. /\ p \in Peers /\ p.next.valid /\ Received(p, "next", w(m), r(m))
            /\ Fit(n, p, net, S, got, opened)
        BY <1>2, <3>1
      <4> HIDE DEF p
      <4> QED  BY <4>1, <4>2, FitOpened, Zenon
    <3>6. Handed(G2(m), O2(m))
      <4>1. <<n, m.key, m.counter, 1>> \in Node \X Keys \X Nonces \X {1, 2}
        BY <2>1
      <4>2. <<n, m.key, m.counter, 1>>[4] = 1
        OBVIOUS
      <4> QED  BY <1>2, <3>1, <3>4, <4>1, <4>2 DEF Handed
    <3>7. got \subseteq G2(m) /\ \A g \in G2(m) \ got : g[1] = n
      BY <3>4
    <3>8. opened \subseteq O2(m)
      BY <3>1
    <3> QED  BY <1>2, <1>4, <1>6, <3>5, <3>6, <3>7, <3>8, ManagerKeys DEF S
  <2>7. CASE s(m) # "next"
    <3>1. s(m) \in {"curr", "prev"} /\ O2(m) = opened /\ q(m)[s(m)].window = p[s(m)].window
      BY <1>3, <2>5, <2>7 DEF Slots
    <3>2. Knows(p[s(m)].window, Given(n, m.key, got, opened))
      BY <1>2, <1>3, <1>6, <3>1 DEF Fit, Watches
    <3>3. CASE fresh(m)
      <4>1. w(m) = Noted(p[s(m)].window, m.counter) /\ Accepts(p[s(m)].window, m.counter)
            /\ p[s(m)].window \in Windows
        BY <2>2, <3>1, <3>3
      <4>2. /\ m.counter \notin Given(n, m.key, got, opened)
            /\ Knows(w(m), Given(n, m.key, got \cup {<<n, m.key, m.counter, j>>}, opened))
        <5> DEFINE u == p[s(m)].window
        <5>1. /\ u \in Windows /\ Accepts(u, m.counter) /\ w(m) = Noted(u, m.counter)
              /\ Knows(u, Given(n, m.key, got, opened))
          BY <3>2, <4>1
        <5> HIDE DEF u, w, s, j
        <5>2. \A i : /\ m.counter \notin Given(n, m.key, got, opened)
                     /\ Knows(Noted(u, m.counter),
                              Given(n, m.key, got \cup {<<n, m.key, m.counter, i>>}, opened))
          BY <2>1, <5>1, AcceptedOnce
        <5> QED  BY <5>1, <5>2
      <4>3. G2(m) = got \cup {<<n, m.key, m.counter, j>>}
        BY <3>3
      <4>4. <<n, m.key, m.counter, 2>> \notin got
        <5>1. m.counter \in Nat
          BY <2>1, Bounds DEF Nonces
        <5>2. ASSUME <<n, m.key, m.counter, 2>> \in got PROVE FALSE
          <6>1. <<n, m.key, m.counter, 2>>[4] = 2 /\ <<n, m.key, m.counter, 2>>[1] = n
                /\ <<n, m.key, m.counter, 2>>[2] = m.key
                /\ <<n, m.key, m.counter, 2>>[3] = m.counter
            OBVIOUS
          <6>2. <<n, m.key, m.counter, 1>> \in got
            BY <1>2, <5>2, <6>1 DEF Handed
          <6> QED  BY <4>2, <5>1, <5>2, <6>2 DEF Given
        <5> QED  BY <5>2
      <4>5. \/ j = 1
            \/ /\ j = 2 /\ <<n, m.key, m.counter, 1>> \in got
               /\ <<n, m.key, m.counter>> \in opened
        <5>1. m.counter \in Nat
          BY <2>1, Bounds DEF Nonces
        <5>2. CASE <<n, m.key, m.counter, 1>> \in got
          <6>1. j = 2
            BY <4>4, <5>2, TimesIs
          <6>2. <<n, m.key, m.counter>> \in opened
            BY <4>2, <5>1, <5>2 DEF Given
          <6> QED  BY <5>2, <6>1, <6>2
        <5>3. CASE <<n, m.key, m.counter, 1>> \notin got
          BY <4>4, <5>3, TimesIs
        <5> QED  BY <5>2, <5>3
      <4> HIDE DEF G2, O2, r, w, S, j, s
      <4>6. Fit(n, r(m), net, S, G2(m), opened)
        <5>1. \A g \in G2(m) : g \in got \/ (g[1] = n /\ g[2] = p[s(m)].key)
          BY <1>6, <4>3
        <5>2. got \subseteq G2(m)
          BY <4>3
        <5>3. Knows(w(m), Given(n, p[s(m)].key, G2(m), opened))
          BY <1>6, <4>2, <4>3
        <5>4. /\ p \in Peers /\ p[s(m)].valid /\ s(m) \in {"curr", "prev"}
              /\ Received(p, s(m), w(m), r(m)) /\ Fit(n, p, net, S, got, opened)
          BY <1>2, <1>3, <2>5, <3>1
        <5> HIDE DEF p
        <5>5. ASSUME NEW H, got \subseteq H,
                     \A g \in H : g \in got \/ (g[1] = n /\ g[2] = p[s(m)].key),
                     Knows(w(m), Given(n, p[s(m)].key, H, opened))
              PROVE  Fit(n, r(m), net, S, H, opened)
          BY <5>4, <5>5, FitHandedOn
        <5> QED  BY <5>1, <5>2, <5>3, <5>4, <5>5, Zenon
      <4>7. Handed(G2(m), opened)
        <5>1. <<n, m.key, m.counter, j>> \in Node \X Keys \X Nonces \X {1, 2}
          BY <2>1, <4>5
        <5>2. /\ <<n, m.key, m.counter, j>>[1] = n /\ <<n, m.key, m.counter, j>>[2] = m.key
              /\ <<n, m.key, m.counter, j>>[3] = m.counter
              /\ <<n, m.key, m.counter, j>>[4] = j
          OBVIOUS
        <5> QED  BY <1>2, <4>3, <4>5, <5>1, <5>2 DEF Handed
      <4>8. got \subseteq G2(m) /\ \A g \in G2(m) \ got : g[1] = n
        BY <4>3
      <4> QED  BY <1>2, <1>4, <1>6, <3>1, <4>6, <4>7, <4>8, ManagerKeys DEF S
    <3>4. CASE ~fresh(m)
      <4>1. w(m) = p[s(m)].window /\ G2(m) = got
        BY <3>1, <3>4
      <4> HIDE DEF G2, O2, r, w, S, s
      <4>2. Fit(n, r(m), net, S, got, opened)
        <5>1. Knows(w(m), Given(n, p[s(m)].key, got, opened))
          BY <1>6, <3>2, <4>1
        <5>2. /\ p \in Peers /\ p[s(m)].valid /\ s(m) \in {"curr", "prev"}
              /\ Received(p, s(m), w(m), r(m)) /\ Fit(n, p, net, S, got, opened)
          BY <1>2, <1>3, <2>5, <3>1
        <5>3. /\ got \subseteq got
              /\ \A g \in got : g \in got \/ (g[1] = n /\ g[2] = p[s(m)].key)
          OBVIOUS
        <5> HIDE DEF p
        <5> QED  BY <5>1, <5>2, <5>3, FitHandedOn
      <4> QED  BY <1>2, <1>4, <1>6, <3>1, <4>1, <4>2, ManagerKeys DEF S
    <3> QED  BY <3>3, <3>4
  <2> QED  BY <2>6, <2>7
<1> QED  BY <1>1, <1>5, <1>6

LEMMA KeysInit == Init => KInv
<1> SUFFICES ASSUME Init PROVE KInv
  OBVIOUS
<1>1. /\ peer = [n \in Node |-> NewPeer] /\ sending = [n \in Node |-> Idle]
      /\ net = {} /\ ids = 0 /\ got = {} /\ opened = {}
  BY DEF Init
<1>2. Pending(Idle) = {} /\ ~Idle.busy
  BY DEF Pending, Idle
<1>3. ~NoKey.valid /\ ~NoShake.valid
  BY DEF NoKey, NoShake
<1>4. \A n : Used(n, {}, {}, {}) = {} /\ Data(n, {}) = {}
  BY DEF Used, Data
<1>5. \A n : Fit(n, NewPeer, {}, {}, {}, {})
  BY <1>3, <1>4 DEF Fit, NewPeer, Shaking, Named, Apart, Watches
<1>6. ASSUME NEW n \in Node
      PROVE  /\ Counters(net, sending[n]) /\ ~sending[n].busy
             /\ Fit(n, peer[n], net, Pending(sending[n]), got, opened)
  BY <1>1, <1>2, <1>5 DEF Counters
<1>7. Numbers(net, ids) /\ Handed(got, opened)
  BY <1>1 DEF Numbers, Handed
<1> QED  BY <1>6, <1>7, InvInit DEF KInv

LEMMA KeysStep == KInv /\ NoWrap /\ [Next]_vars => KInv'
<1> SUFFICES ASSUME KInv, NoWrap, [Next]_vars PROVE KInv'
  OBVIOUS
<1>1. IInv'
  BY InvStep DEF KInv
<1>2. CASE peer' = peer /\ sending' = sending /\ net' = net /\ ids' = ids
           /\ got' = got /\ opened' = opened
  BY <1>1, <1>2 DEF KInv
<1>3. CASE Tick
  BY <1>2, <1>3 DEF Tick
<1>4. ASSUME NEW n \in Node, Device(n) PROVE KInv'
  BY <1>1, <1>4, SendKeys, SendDoneKeys, ConnectKeys, RecvInitiationKeys, RecvResponseKeys,
     RecvDataKeys, PeriodicKeys DEF Device
<1>5. CASE UNCHANGED vars
  BY <1>2, <1>5 DEF vars
<1> QED  BY <1>3, <1>4, <1>5 DEF Next

(* The invariant of the keys: their numbers are one message's each, a new  *)
(* keypair has an unused key, counters and windows are ahead of what was   *)
(* sent and handed up (wireguard.c, wireguardif.c).                        *)
THEOREM KeysInvariance == Spec /\ []NoWrap => []KInv
  BY KeysInit, KeysStep, PTL DEF Spec

LEMMA KeysAgreeHolds == KInv => KeysAgree
<1> SUFFICES ASSUME KInv PROVE KeysAgree
  OBVIOUS
<1>1. ASSUME NEW n \in Node, NEW s \in HeldBy(n)
      PROVE  Named(n, peer[n], net, peer[n][s]) /\ peer[n][s].valid /\ s \in Slots
             /\ peer[n][s].initiator \in BOOLEAN
  <2>1. Fit(n, peer[n], net, Pending(sending[n]), got, opened) /\ peer[n] \in Peers
    BY PendingOf
  <2>2. s \in Slots /\ peer[n][s].valid /\ peer[n][s] \in Keypairs
    BY <2>1, SlotType DEF HeldBy
  <2>3. Named(n, peer[n], net, peer[n][s])
    BY <2>1, <2>2 DEF Fit, Slots
  <2> QED  BY <2>2, <2>3, KeyFields
<1>2. ASSUME NEW n \in Node, NEW s \in HeldBy(n), NEW t \in HeldBy(n),
             peer[n][s].key = peer[n][t].key
      PROVE  s = t
  <2>1. Fit(n, peer[n], net, Pending(sending[n]), got, opened)
    BY PendingOf
  <2>2. /\ s \in {"curr", "next", "prev"} /\ t \in {"curr", "next", "prev"}
        /\ peer[n][s].valid /\ peer[n][t].valid
    BY <1>1 DEF Slots
  <2> QED  BY <1>2, <2>1, <2>2 DEF Fit, Apart
<1>3. ASSUME NEW n \in Node, NEW s \in HeldBy(n), NEW t \in HeldBy(Other(n)),
             peer[n][s].key = peer[Other(n)][t].key
      PROVE  LET k == peer[n][s]
                 l == peer[Other(n)][t]
             IN  k.initiator = ~l.initiator /\ k.local = l.remote /\ k.remote = l.local
  <2> DEFINE k == peer[n][s]
             l == peer[Other(n)][t]
             o == Other(n)
  <2>1. o \in Node /\ o # n /\ Other(o) = n
    BY TwoNodes
  <2>2. /\ Named(n, peer[n], net, k) /\ k.valid /\ k.initiator \in BOOLEAN
        /\ Named(o, peer[o], net, l) /\ l.valid /\ l.initiator \in BOOLEAN
        /\ k.key = l.key
    BY <1>1, <1>3, <2>1
  <2>3. Numbers(net, ids)
    BY DEF KInv
  <2> HIDE DEF k, l, o
  <2>4. ASSUME k.initiator, l.initiator PROVE FALSE
    <3>1. /\ k.key = <<k.local, k.remote>> /\ Initiation(n, k.local) \in net
          /\ l.key = <<l.local, l.remote>> /\ Initiation(o, l.local) \in net
      BY <2>2, <2>4 DEF Named, Began
    <3>2. k.local = l.local
      <4>1. k.key[1] = k.local /\ l.key[1] = l.local
        BY <3>1
      <4> QED  BY <2>2, <4>1
    <3>3. /\ Initiation(n, k.local).sender = Initiation(o, l.local).sender
          /\ Initiation(n, k.local).type = "initiation"
          /\ Initiation(o, l.local).type = "initiation"
          /\ Initiation(n, k.local).to = o /\ Initiation(o, l.local).to = n
      BY <2>1, <3>2 DEF Initiation, o
    <3>4. Initiation(n, k.local).to = Initiation(o, l.local).to
      BY <2>3, <3>1, <3>3 DEF Numbers
    <3> QED  BY <2>1, <3>3, <3>4
  <2>5. ASSUME ~k.initiator, ~l.initiator PROVE FALSE
    <3>1. /\ k.key = <<k.remote, k.local>> /\ Replied(n, net, k.local)
          /\ l.key = <<l.remote, l.local>> /\ Replied(o, net, l.local)
      BY <2>2, <2>5 DEF Named
    <3>2. k.local = l.local
      <4>1. k.key[2] = k.local /\ l.key[2] = l.local
        BY <3>1
      <4> QED  BY <2>2, <4>1
    <3>3. PICK x \in net : x.type = "response" /\ x.to = o /\ x.sender = k.local
      BY <3>1 DEF Replied, o
    <3>4. PICK y \in net : y.type = "response" /\ y.to = n /\ y.sender = k.local
      BY <2>1, <3>1, <3>2 DEF Replied
    <3>5. x.to = y.to
      BY <2>3, <3>3, <3>4 DEF Numbers
    <3> QED  BY <2>1, <3>3, <3>4, <3>5
  <2>6. k.initiator = ~l.initiator
    BY <2>2, <2>4, <2>5
  <2>7. k.local = l.remote /\ k.remote = l.local
    <3>1. CASE k.initiator /\ ~l.initiator
      <4>1. k.key = <<k.local, k.remote>> /\ l.key = <<l.remote, l.local>>
        BY <2>2, <3>1 DEF Named
      <4>2. k.key[1] = k.local /\ k.key[2] = k.remote
        BY <4>1
      <4>3. l.key[1] = l.remote /\ l.key[2] = l.local
        BY <4>1
      <4> QED  BY <2>2, <4>2, <4>3
    <3>2. CASE ~k.initiator /\ l.initiator
      <4>1. k.key = <<k.remote, k.local>> /\ l.key = <<l.local, l.remote>>
        BY <2>2, <3>2 DEF Named
      <4>2. k.key[1] = k.remote /\ k.key[2] = k.local
        BY <4>1
      <4>3. l.key[1] = l.local /\ l.key[2] = l.remote
        BY <4>1
      <4> QED  BY <2>2, <4>2, <4>3
    <3> QED  BY <2>2, <2>6, <3>1, <3>2
  <2> QED  BY <2>6, <2>7 DEF k, l
<1> QED  BY <1>2, <1>3 DEF KeysAgree

LEMMA CountersHold == KInv => CountersAhead
<1> SUFFICES ASSUME KInv, NEW n \in Node, NEW s \in HeldBy(n) \ {"prev"}, NEW m \in net,
                    m.type = "data", m.to = Other(n), m.key = peer[n][s].key
             PROVE  m.counter < peer[n][s].counter
  BY DEF CountersAhead
<1>1. Fit(n, peer[n], net, Pending(sending[n]), got, opened)
  BY PendingOf
<1>2. s \in {"curr", "next"} /\ peer[n][s].valid /\ m \in Data(n, net)
  BY DEF HeldBy, Slots, Data
<1>3. m.key \in Used(n, net, Pending(sending[n]), got)
  BY <1>2 DEF Used
<1> QED  BY <1>1, <1>2, <1>3 DEF Fit

LEMMA TwiceHolds == KInv => TwiceOnlyOpening
  BY DEF KInv, Handed, TwiceOnlyOpening

(* A keepalive carries no payload.                                         *)
LEMMA KeepaliveEmpty ==
  ASSUME NEW n, NEW p, NEW m \in KeepaliveFor(n, p).out
  PROVE  m.type = "data" /\ ~m.payload
  BY DEF KeepaliveFor, Sealed

(* A step that lets no payload out and seals nothing.                      *)
LEMMA PayloadSame ==
  ASSUME PayloadOnce, sending' = sending,
         \A m \in net' \ net : m.type = "data" => ~m.payload
  PROVE  PayloadOnce'
<1> SUFFICES ASSUME NEW n \in Node, sending[n].busy, NEW m \in net', Doubles(n, m)'
             PROVE  ~m.payload
  BY DEF PayloadOnce
<1>1. m.type = "data" /\ Doubles(n, m)
  BY DEF Doubles
<1> QED  BY <1>1 DEF PayloadOnce

(* What is sealed has the counter of the current keypair, above all that   *)
(* left under its key; and while it is under way only keepalives leave.    *)
LEMMA PayloadStep == KInv /\ PayloadOnce /\ [Next]_vars => PayloadOnce'
<1> SUFFICES ASSUME KInv, PayloadOnce, [Next]_vars PROVE PayloadOnce'
  OBVIOUS
<1>1. ASSUME NEW n \in Node, Send(n) PROVE PayloadOnce'
  <2>1. CASE ~CanSend(peer[n])
    BY <1>1, <2>1, PayloadSame DEF Send
  <2>2. CASE CanSend(peer[n])
    <3>1. SendSlot(peer[n]) = "curr"
      BY PendingOf, SlotIsCurr
    <3> DEFINE k == peer[n].curr
               x == [busy |-> TRUE, slot |-> "curr", packet |-> Sealed(n, k, TRUE)]
    <3>2. /\ sending' = [sending EXCEPT ![n] = x] /\ net' = net
          /\ k.valid
      BY <1>1, <2>2, <3>1 DEF Send, CanSend, Usable
    <3>3. x.packet.key = k.key /\ x.packet.counter = k.counter
      BY DEF Sealed
    <3>4. k.counter \in Nat /\ \A m \in net : m.type = "data" => m.counter \in Nat
      <4>1. k \in Keypairs /\ net \subseteq Messages
        BY PendingOf, PeerFields
      <4> QED  BY <4>1, Bounds DEF Keypairs, Messages, Nonces
    <3>5. \A m \in net : m.type = "data" /\ m.to = Other(n) /\ m.key = k.key
                           => m.counter < k.counter
      BY <3>2, CountersHold DEF CountersAhead, HeldBy, Slots
    <3> HIDE DEF x, k
    <3>6. sending \in [Node -> Sendings]
      BY DEF KInv, IInv, TypeOK
    <3>7. \A i \in Node : sending'[i] = IF i = n THEN x ELSE sending[i]
      BY <3>2, <3>6
    <3> SUFFICES ASSUME NEW i \in Node, sending'[i].busy, NEW m \in net, Doubles(i, m)'
                 PROVE  ~m.payload
      BY <3>2 DEF PayloadOnce
    <3>8. CASE i = n
      <4>1. /\ m.type = "data" /\ m.to = Other(n) /\ m.key = k.key
            /\ m.counter = k.counter
        BY <3>3, <3>7, <3>8 DEF Doubles
      <4> QED  BY <3>4, <3>5, <4>1
    <3>9. CASE i # n
      BY <3>7, <3>9 DEF PayloadOnce, Doubles
    <3> QED  BY <3>8, <3>9
  <2> QED  BY <2>1, <2>2
<1>2. ASSUME NEW n \in Node, SendDone(n) PROVE PayloadOnce'
  <2> DEFINE x == sending[n].packet
  <2>1. x.to = Other(n)
    BY <1>2 DEF SendDone, KInv
  <2>2. sending \in [Node -> Sendings] /\ ~Idle.busy
    BY DEF KInv, IInv, TypeOK, Idle
  <2>3. /\ net' = net \cup {x}
        /\ \A i \in Node : sending'[i] = IF i = n THEN Idle ELSE sending[i]
    BY <1>2, <2>2 DEF SendDone
  <2> SUFFICES ASSUME NEW i \in Node, sending'[i].busy, NEW m \in net', Doubles(i, m)'
               PROVE  ~m.payload
    BY DEF PayloadOnce
  <2>4. i # n /\ sending'[i] = sending[i]
    BY <2>2, <2>3
  <2>5. Doubles(i, m) /\ m.to = Other(i)
    BY <2>4 DEF Doubles
  <2>6. Other(i) # Other(n)
    BY <2>4, TwoNodes
  <2>7. m \in net
    BY <2>1, <2>3, <2>5, <2>6
  <2> QED  BY <2>4, <2>5, <2>7 DEF PayloadOnce
<1>3. ASSUME NEW n \in Node, Connect(n) \/ RecvInitiation(n) \/ RecvData(n)
      PROVE  PayloadOnce'
  <2>1. CASE Connect(n)
    BY <2>1, PayloadSame DEF Connect, Initiation
  <2>2. CASE RecvData(n)
    BY <2>2, PayloadSame DEF RecvData
  <2>3. CASE RecvInitiation(n)
    <3> DEFINE answer(m) == [type |-> "response", to |-> Other(n), sender |-> ids + 1,
                             receiver |-> m.sender, chain |-> <<m.sender, ids + 1>>]
    <3>1. \E m \in net : net' = net \cup {answer(m)}
      BY <2>3 DEF RecvInitiation
    <3>2. \A m : answer(m).type = "response"
      OBVIOUS
    <3>3. \A m \in net' \ net : m.type # "data"
      <4> HIDE DEF answer
      <4> QED  BY <3>1, <3>2
    <3> QED  BY <2>3, <3>3, PayloadSame DEF RecvInitiation
  <2> QED  BY <1>3, <2>1, <2>2, <2>3
<1>4. ASSUME NEW n \in Node, RecvResponse(n) PROVE PayloadOnce'
  <2>1. PICK p : net' = net \cup KeepaliveFor(n, p).out
    BY <1>4 DEF RecvResponse
  <2>2. sending' = sending
    BY <1>4 DEF RecvResponse
  <2> QED  BY <2>1, <2>2, KeepaliveEmpty, PayloadSame
<1>5. ASSUME NEW n \in Node, Periodic(n) PROVE PayloadOnce'
  <2> DEFINE p == DropDead(Reset(peer[n]))
             K == KeepaliveFor(n, p)
             k == IF KeepaliveDue(p) THEN K ELSE [p |-> p, out |-> {}]
  <2>1. /\ sending' = sending
        /\ net' = net \cup k.out \cup {Initiation(n, ids + 1)} \/ net' = net \cup k.out
    BY <1>5 DEF Periodic
  <2>2. k.out = K.out \/ k.out = {}
    OBVIOUS
  <2>3. \A m \in K.out : ~m.payload
    BY KeepaliveEmpty
  <2>4. Initiation(n, ids + 1).type # "data"
    BY DEF Initiation
  <2> HIDE DEF k, K
  <2>5. \A m \in net' \ net : m.type = "data" => ~m.payload
    BY <2>1, <2>2, <2>3, <2>4
  <2> QED  BY <2>1, <2>5, PayloadSame
<1>6. CASE Tick \/ UNCHANGED vars
  BY <1>6, PayloadSame DEF Tick, vars
<1> QED  BY <1>1, <1>2, <1>3, <1>4, <1>5, <1>6 DEF Next, Device

(* What wireguardif_output_to_peer() and wireguardif_process_data_message()*)
(* use a key for: two ends of one session, a counter that only grows and   *)
(* two packets share only when one is a keepalive that left while the      *)
(* other was being sent, each payload handed up once but for the packet    *)
(* that opened the session.                                                *)
THEOREM KeyUseCorrect == Spec /\ []NoWrap => []KeyUse
<1>1. Init => PayloadOnce
  BY DEF Init, PayloadOnce, Idle
<1>2. KInv /\ PayloadOnce => KeyUse
  BY KeysAgreeHolds, CountersHold, TwiceHolds DEF KeyUse
<1> QED  BY <1>1, <1>2, PayloadStep, KeysInvariance, PTL DEF Spec
-----------------------------------------------------------------------------
(* Initiations from the past. The number of a next keypair is never more   *)
(* than that of the last initiation, and the next one to be answered is    *)
(* newer than that.                                                        *)

Stamped(p) == p.next.valid => p.next.key[1] <= p.greatest

NewerInv == IInv /\ \A n \in Node : Stamped(peer[n])

(* The keypair of a responder that waits in p is not set back in q.        *)
NoOlder(p, q) ==
  p.next.valid /\ q.next.valid =>
    q.next.key = p.next.key \/ q.next.key[1] > p.next.key[1]

Follows(p, q) == NoOlder(p, q) /\ Stamped(q)

LEMMA TypesOf ==
  ASSUME IInv, NEW n \in Node
  PROVE  /\ Good(peer[n], now) /\ peer[n] \in Peers /\ peer \in [Node -> Peers]
         /\ net \in SUBSET Messages /\ now \in 1..MaxTime /\ now \in Nat /\ ids \in Nat
  BY Bounds DEF IInv, TypeOK, Good, Indexes

LEMMA KeepsNext ==
  ASSUME NEW p \in Peers, NEW q \in Peers, Stamped(p), Keeps(p, q)
  PROVE  Follows(p, q)
<1>1. p.next.key[1] \in Nat /\ p.greatest \in Nat /\ q.greatest \in Nat
  BY PeerFields, KeyType, GreatestType
<1>2. q.next.valid => p.next.valid /\ q.next.key = p.next.key
  BY DEF Keeps, Same
<1>3. p.greatest <= q.greatest
  BY DEF Keeps
<1>4. Stamped(q)
  <2>1. \A a, b, c \in Nat : a <= b /\ b <= c => a <= c
    OBVIOUS
  <2> QED  BY <1>1, <1>2, <1>3, <2>1, Zenon DEF Stamped
<1> QED  BY <1>2, <1>4 DEF NoOlder, Follows

LEMMA KeepaliveKeeps ==
  ASSUME NEW n \in Node, NEW p, Good(p, now), now \in 1..MaxTime
  PROVE  Keeps(p, KeepaliveFor(n, p).p)
<1>1. p \in Peers /\ SendSlot(p) = "curr" /\ now \in Nat
  BY SlotIsCurr, Bounds DEF Good
<1>2. Keeps(p, Counted(p, "curr")) /\ Keeps(p, NoSend(p))
  BY <1>1, CountedSlots, NoSendKeeps
<1> QED  BY <1>1, <1>2 DEF KeepaliveFor

(* What a new session leaves in the slot for a responder's keypair.        *)
LEMMA StartNext ==
  ASSUME NEW p \in Peers
  PROVE  /\ StartSession(p, FALSE).next.key = p.shake.chain
         /\ StartSession(p, FALSE).greatest = p.greatest
         /\ StartSession(p, TRUE).next.valid => FALSE
<1> DEFINE h == [NoShake EXCEPT !.initiator = p.shake.initiator]
           k(b) == [NoKey EXCEPT !.valid = TRUE, !.initiator = b,
                                 !.key = p.shake.chain, !.born = now,
                                 !.local = p.shake.local, !.remote = p.shake.remote]
           q == [p EXCEPT !.shake = h]
<1>1. \A b \in BOOLEAN : k(b).initiator = b /\ k(b).key = p.shake.chain
  BY DEF NoKey
<1>2. \A b \in BOOLEAN : StartSession(p, b) = [AddKeypair(q, k(b)) EXCEPT !.attempts = 0]
  BY DEF StartSession
<1> HIDE DEF k
<1>3. /\ q.next = p.next /\ q.greatest = p.greatest
      /\ DOMAIN q = DOMAIN p /\ {"next", "greatest"} \subseteq DOMAIN p
  BY DEF Peers
<1> HIDE DEF q
<1>4. AddKeypair(q, k(FALSE)) = [q EXCEPT !.next = k(FALSE), !.prev = NoKey]
  BY <1>1 DEF AddKeypair
<1>5. AddKeypair(q, k(TRUE)) =
        [q EXCEPT !.prev = IF q.next.valid THEN q.next ELSE q.curr,
                  !.next = IF q.next.valid THEN NoKey ELSE @,
                  !.curr = k(TRUE)]
  BY <1>1 DEF AddKeypair
<1>6. StartSession(p, FALSE).next = k(FALSE)
  BY <1>2, <1>3, <1>4
<1>9. StartSession(p, FALSE).greatest = q.greatest
  BY <1>2, <1>3, <1>4
<1>7. StartSession(p, TRUE).next = IF q.next.valid THEN NoKey ELSE q.next
  BY <1>2, <1>3, <1>5
<1>8. ~NoKey.valid
  BY DEF NoKey
<1> QED  BY <1>1, <1>3, <1>6, <1>7, <1>8, <1>9

LEMMA SendNewer ==
  ASSUME NewerInv, NEW n \in Node, Send(n) \/ SendDone(n)
  PROVE  \E q : peer' = [peer EXCEPT ![n] = q] /\ Follows(peer[n], q)
<1> DEFINE p == peer[n]
<1>1. /\ Good(p, now) /\ p \in Peers /\ now \in Nat /\ peer \in [Node -> Peers]
      /\ now \in 1..MaxTime /\ Stamped(p) /\ IInv
  BY TypesOf DEF NewerInv
<1>2. CASE Send(n) /\ peer' = peer
  <2>1. Follows(p, p) /\ peer' = [peer EXCEPT ![n] = p]
    BY <1>1, <1>2 DEF NoOlder, Follows
  <2> QED  BY <2>1
<1>3. CASE Send(n) /\ peer' = [peer EXCEPT ![n] = NoSend(p)]
  BY <1>1, <1>3, NoSendKeeps, NoSendGood, KeepsNext DEF Good
<1>4. CASE SendDone(n)
  <2>1. sending[n].slot = "curr" /\ peer' = [peer EXCEPT ![n] = Counted(p, "curr")]
    BY <1>1, <1>4 DEF IInv, SendDone
  <2>2. Counted(p, "curr") \in Peers
    BY <1>1, <1>4, CountedGood DEF Good, IInv, SendDone, Room
  <2> QED  BY <1>1, <2>1, <2>2, CountedSlots, KeepsNext
<1> QED  BY <1>2, <1>3, <1>4 DEF Send

LEMMA InitiatedNewer ==
  ASSUME NewerInv, NEW n \in Node, Connect(n) \/ Periodic(n)
  PROVE  \E q : peer' = [peer EXCEPT ![n] = q] /\ Follows(peer[n], q)
<1> DEFINE o == peer[n]
           p == DropDead(Reset(o))
           k == IF KeepaliveDue(p) THEN KeepaliveFor(n, p) ELSE [p |-> p, out |-> {}]
<1>1. /\ Good(o, now) /\ o \in Peers /\ now \in Nat /\ now \in 1..MaxTime
      /\ ids \in Nat /\ Stamped(o)
  BY TypesOf DEF NewerInv
<1>2. CASE Connect(n)
  <2> DEFINE q == Initiated(o, ids + 1)
             r == [q EXCEPT !.active = TRUE]
  <2>1. ids + 1 \in Ids
    BY <1>1, <1>2, Bounds DEF Connect, Ids
  <2>2. q \in Peers /\ q.next = o.next /\ q.greatest = o.greatest
    BY <1>1, <2>1, InitiatedGood, InitiatedFields DEF Good
  <2> HIDE DEF q
  <2>3. r.next = q.next /\ r.greatest = q.greatest
    BY <2>2 DEF Peers
  <2> HIDE DEF r
  <2>4. peer' = [peer EXCEPT ![n] = r]
    BY <1>2 DEF Connect, r, q
  <2> QED  BY <1>1, <2>2, <2>3, <2>4 DEF NoOlder, Follows, Stamped
<1>3. CASE Periodic(n)
  <2>1. Good(p, now) /\ p \in Peers /\ Keeps(o, p)
    <3>1. Good(Reset(o), now) /\ Reset(o) \in Peers /\ Keeps(o, Reset(o))
      BY <1>1, ResetGood, ResetKeeps DEF Good
    <3>2. Good(p, now) /\ p \in Peers /\ Keeps(Reset(o), p)
      BY <1>1, <3>1, DropDeadGood, DropDeadKeeps DEF Good
    <3> QED  BY <1>1, <3>1, <3>2, KeepsTwice
  <2>2. \/ ids < MaxIds /\ peer' = [peer EXCEPT ![n] = Initiated(k.p, ids + 1)]
        \/ peer' = [peer EXCEPT ![n] = k.p]
    BY <1>3 DEF Periodic
  <2> HIDE DEF p
  <2>3. k.p \in Peers /\ Keeps(o, k.p) /\ Good(k.p, now)
    <3>1. CASE KeepaliveDue(p)
      <4>1. KeepaliveFor(n, p).p \in Peers /\ Good(KeepaliveFor(n, p).p, now)
        BY <1>1, <2>1, KeepaliveGood DEF Good
      <4>2. Keeps(p, KeepaliveFor(n, p).p)
        BY <1>1, <2>1, KeepaliveKeeps
      <4> QED  BY <1>1, <2>1, <3>1, <4>1, <4>2, KeepsTwice
    <3>2. CASE ~KeepaliveDue(p)
      BY <2>1, <3>2
    <3> QED  BY <3>1, <3>2
  <2> HIDE DEF k
  <2>4. Follows(o, k.p)
    BY <1>1, <2>3, KeepsNext
  <2>5. CASE ids < MaxIds /\ peer' = [peer EXCEPT ![n] = Initiated(k.p, ids + 1)]
    <3>1. /\ Initiated(k.p, ids + 1).next = k.p.next
          /\ Initiated(k.p, ids + 1).greatest = k.p.greatest
      BY <2>3, InitiatedFields
    <3>2. Follows(o, Initiated(k.p, ids + 1))
      BY <2>4, <3>1 DEF NoOlder, Follows, Stamped
    <3> QED  BY <2>5, <3>2
  <2> QED  BY <2>2, <2>4, <2>5
<1> QED  BY <1>2, <1>3

LEMMA HandshakeNewer ==
  ASSUME NewerInv, NEW n \in Node, RecvInitiation(n) \/ RecvResponse(n)
  PROVE  \E q : peer' = [peer EXCEPT ![n] = q] /\ Follows(peer[n], q)
<1> DEFINE o == peer[n]
<1>1. /\ Good(o, now) /\ o \in Peers /\ now \in 1..MaxTime /\ now \in Nat
      /\ net \in SUBSET Messages /\ ids \in Nat /\ Stamped(o)
  BY TypesOf DEF NewerInv
<1>2. CASE RecvInitiation(n)
  <2> DEFINE r == ids + 1
             h(m) == [valid |-> TRUE, initiator |-> FALSE, local |-> r,
                      remote |-> m.sender, chain |-> <<m.sender, r>>]
             p(m) == [peer[n] EXCEPT !.greatest = m.sender, !.shake = h(m)]
  <2>1. PICK m \in net :
          /\ m.type = "initiation" /\ m.to = n /\ Newer(o, m)
          /\ peer' = [peer EXCEPT ![n] = StartSession(p(m), FALSE)]
    BY <1>2 DEF RecvInitiation
  <2>2. r \in Ids /\ r \in Indexes
    <3>1. ids < MaxIds
      BY <1>2 DEF RecvInitiation
    <3> QED  BY <1>1, <3>1, Bounds DEF Ids, Indexes
  <2>3. m.sender \in Ids /\ m.sender \in Indexes
    BY <1>1, <2>1, MessageFields, Bounds DEF Ids, Indexes
  <2>4. h(m) \in Handshakes /\ h(m).chain = <<m.sender, r>>
    BY <2>2, <2>3 DEF Handshakes, Chains
  <2> HIDE DEF h
  <2>5. p(m) \in Peers
    BY <1>1, <2>3, <2>4, Zenon DEF Peers
  <2>6. /\ p(m).shake = h(m) /\ p(m).greatest = m.sender
        /\ p(m).curr = o.curr /\ p(m).next = o.next /\ p(m).prev = o.prev
    BY <1>1 DEF Peers
  <2> HIDE DEF p
  <2>7. PICK key : /\ key = StartSession(p(m), FALSE).next.key
                   /\ key[1] = m.sender
    <3>1. StartSession(p(m), FALSE).next.key = <<m.sender, r>>
      BY <2>4, <2>5, <2>6, StartNext
    <3>2. <<m.sender, r>>[1] = m.sender
      OBVIOUS
    <3> QED  BY <3>1, <3>2, Zenon
  <2>8. o.next.valid => o.next.key[1] <= o.greatest
    BY <1>1 DEF Stamped
  <2>9. m.sender > o.greatest /\ o.greatest \in Nat /\ m.sender \in Nat
    BY <1>1, <2>1, <2>3, GreatestType DEF Newer, Ids
  <2>10. o.next.key[1] \in Nat
    BY <1>1, PeerFields, KeyType
  <2>11. Follows(o, StartSession(p(m), FALSE))
    <3>1. o.next.valid => key[1] > o.next.key[1]
      <4>1. \A a, b, c \in Nat : a <= b /\ c > b => c > a
        OBVIOUS
      <4> HIDE DEF o
      <4> QED  BY <2>7, <2>8, <2>9, <2>10, <4>1, Zenon
    <3>2. StartSession(p(m), FALSE).greatest = m.sender
      BY <2>5, <2>6, StartNext
    <3>3. Stamped(StartSession(p(m), FALSE))
      <4>1. \A a \in Nat : a <= a
        OBVIOUS
      <4> QED  BY <2>7, <2>9, <3>2, <4>1, Zenon DEF Stamped
    <3> QED  BY <2>7, <3>1, <3>3 DEF NoOlder, Follows
  <2> QED  BY <2>1, <2>11
<1>3. CASE RecvResponse(n)
  <2> DEFINE h(m) == [o.shake EXCEPT !.remote = m.sender, !.chain = m.chain]
             p(m) == [peer[n] EXCEPT !.shake = h(m)]
             k(m) == KeepaliveFor(n, StartSession(p(m), TRUE))
  <2>1. PICK m \in net :
          /\ m.type = "response" /\ m.to = n
          /\ peer' = [peer EXCEPT ![n] = k(m).p]
    BY <1>3 DEF RecvResponse
  <2>2. m.sender \in Indexes /\ m.chain \in Ids \X Ids /\ m.chain \in Chains
    BY <1>1, <2>1, MessageFields, Bounds DEF Ids, Indexes, Chains
  <2>3. h(m) \in Handshakes /\ h(m).chain = m.chain
    <3>1. o.shake \in Handshakes
      BY <1>1, PeerFields
    <3>2. h(m) \in Handshakes
      BY <2>2, <3>1, Zenon DEF Handshakes
    <3>3. h(m).chain = m.chain
      BY <3>1 DEF Handshakes
    <3> QED  BY <3>2, <3>3
  <2> HIDE DEF h
  <2>4. p(m) \in Peers
    BY <1>1, <2>3, Zenon DEF Peers
  <2>5. p(m).shake = h(m) /\ p(m).curr = o.curr /\ p(m).next = o.next /\ p(m).prev = o.prev
    BY <1>1 DEF Peers
  <2> HIDE DEF p
  <2>6. Good(StartSession(p(m), TRUE), now)
    <3>1. Good(p(m), now)
      BY <1>1, <2>4, <2>5, SlotsSame
    <3> QED  BY <1>1, <2>2, <2>3, <2>5, <3>1, StartGood
  <2>7. Keeps(StartSession(p(m), TRUE), k(m).p)
    BY <1>1, <2>6, KeepaliveKeeps
  <2>8. ~k(m).p.next.valid
    BY <2>4, <2>7, StartNext DEF Keeps, Same
  <2>9. Follows(o, k(m).p)
    BY <2>8 DEF NoOlder, Follows, Stamped
  <2> QED  BY <2>1, <2>9
<1> QED  BY <1>2, <1>3

LEMMA DataNewer ==
  ASSUME NewerInv, NEW n \in Node, RecvData(n)
  PROVE  \E q : peer' = [peer EXCEPT ![n] = q] /\ Follows(peer[n], q)
<1> DEFINE p == peer[n]
           s(m) == SlotFor(p, m)
           q(m) == Heard(p, s(m))
           w(m) == IF m.payload /\ Accepts(q(m)[s(m)].window, m.counter)
                   THEN Noted(q(m)[s(m)].window, m.counter) ELSE q(m)[s(m)].window
           r(m) == [q(m) EXCEPT !.wantShake = WantsRekey(q(m), s(m)),
                                ![s(m)].window = w(m)]
<1>1. PICK m \in net :
        /\ m.type = "data" /\ HasSlotFor(p, m)
        /\ \/ peer' = [peer EXCEPT ![n] = Destroy(p, s(m))]
           \/ peer' = [peer EXCEPT ![n] = r(m)]
  BY DEF RecvData
<1>2. /\ Good(p, now) /\ p \in Peers /\ now \in Nat /\ net \in SUBSET Messages
      /\ Stamped(p)
  BY TypesOf DEF NewerInv
<1>3. s(m) \in Slots /\ p[s(m)].valid
  BY <1>1 DEF HasSlotFor, SlotFor
<1>4. CASE peer' = [peer EXCEPT ![n] = Destroy(p, s(m))]
  BY <1>2, <1>3, <1>4, DestroyKeeps, DestroyGood, KeepsNext DEF Good
<1>5. CASE peer' = [peer EXCEPT ![n] = r(m)]
  <2>1. m.counter \in Nonces
    BY <1>1, <1>2 DEF Messages
  <2>2. q(m)[s(m)].window \in Windows
    BY <1>2, <1>3, HeardGood, SlotType, KeyFields DEF Good
  <2>3. w(m) \in Windows
    BY <2>1, <2>2, NotedType, Bounds DEF Nonces
  <2>4. WantsRekey(q(m), s(m)) \in BOOLEAN
    BY DEF WantsRekey
  <2> HIDE DEF w
  <2>5. Received(p, s(m), w(m), r(m))
    BY <1>2, <1>3, <2>3, <2>4, ReceivedSlots
  <2> HIDE DEF r
  <2>6. Follows(p, r(m))
    BY <1>2, <1>3, <2>5 DEF Received, NoOlder, Follows, Stamped, Slots
  <2> QED  BY <1>5, <2>6
<1> QED  BY <1>1, <1>4, <1>5

LEMMA StepNewer ==
  ASSUME NewerInv, [Next]_vars, NEW i \in Node
  PROVE  Follows(peer[i], peer'[i])
<1>1. peer \in [Node -> Peers] /\ Stamped(peer[i])
  BY TypesOf DEF NewerInv
<1>2. CASE peer' = peer
  BY <1>1, <1>2 DEF NoOlder, Follows
<1>3. ASSUME NEW n \in Node, NEW q, peer' = [peer EXCEPT ![n] = q], Follows(peer[n], q)
      PROVE  Follows(peer[i], peer'[i])
  <2>1. peer'[i] = IF i = n THEN q ELSE peer[i]
    BY <1>1, <1>3
  <2> QED  BY <1>1, <1>3, <2>1 DEF NoOlder, Follows
<1>4. ASSUME NEW n \in Node, Device(n)
      PROVE  \E q : peer' = [peer EXCEPT ![n] = q] /\ Follows(peer[n], q)
  BY <1>4, SendNewer, InitiatedNewer, HandshakeNewer, DataNewer DEF Device
<1> QED  BY <1>2, <1>3, <1>4 DEF Next, Tick, vars

(* A late or repeated initiation never puts a session in the place of a    *)
(* newer one: wireguard_process_initiation_message() compares timestamps.  *)
THEOREM OnlyNewerCorrect == Spec => OnlyNewerSessions
<1>1. Init => NewerInv
  BY InvInit DEF NewerInv, Init, Stamped, NewPeer, NoKey
<1>2. NewerInv /\ [Next]_vars => NewerInv'
  <2> SUFFICES ASSUME NewerInv, [Next]_vars PROVE NewerInv'
    OBVIOUS
  <2>1. IInv'
    BY InvStep DEF NewerInv
  <2>2. \A i \in Node : Stamped(peer'[i])
    BY StepNewer DEF Follows
  <2> QED  BY <2>1, <2>2 DEF NewerInv
<1>3. NewerInv /\ [Next]_vars =>
        [\A n \in Node :
           LET k == peer[n].next
               l == peer'[n].next
           IN k.valid /\ l.valid /\ k.key # l.key => l.key[1] > k.key[1]]_vars
  BY StepNewer DEF NoOlder, Follows
<1> QED  BY <1>1, <1>2, <1>3, PTL DEF Spec, OnlyNewerSessions
=============================================================================
