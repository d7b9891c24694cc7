----------------------------- MODULE WgSession -----------------------------
(***************************************************************************)
(* The WireGuard session between two devices that both run this code       *)
(* (wireguard.c, wireguardif.c): handshakes, the three keypair slots of a  *)
(* peer, the replay window and the timers, over a network that loses,      *)
(* delays, repeats and reorders.                                           *)
(*                                                                         *)
(* On each device two contexts work on the peer without a lock: the        *)
(* manager task (received packets, wireguardif_periodic(), connects), one  *)
(* call after the other, and the TCP/IP thread, which sends.               *)
(*                                                                         *)
(* Cryptography is perfect: a session key is the pair of the ephemeral     *)
(* keys it was derived from, and an ephemeral key, the index drawn with it *)
(* and the timestamp of an initiation are one fresh number. Endpoints and  *)
(* cookies (never asked for, is_under_load() is FALSE) are left out.       *)
(***************************************************************************)
EXTENDS ReplayWindow

CONSTANTS Node,            \* the two devices
          Talker,          \* those whose applications send; the others answer
          RekeyTimeout,    \* REKEY_TIMEOUT
          Keepalive,       \* keepalive_interval of the peer
          RekeyTime,       \* REKEY_AFTER_TIME
          RejectTime,      \* REJECT_AFTER_TIME
          RekeyMessages,   \* REKEY_AFTER_MESSAGES
          RejectMessages,  \* REJECT_AFTER_MESSAGES
          MaxAttempts,     \* MAX_HANDSHAKE_ATTEMPTS
          MaxTime,         \* bound: the clock
          MaxIds           \* bound: indexes drawn

ASSUME ConstAssumption ==
  /\ \E a, b \in Node : a # b /\ Node = {a, b}
  /\ Talker \subseteq Node
  /\ RekeyTimeout \in Nat /\ {Keepalive, RekeyTime, RejectTime} \subseteq Nat \ {0}
  /\ RekeyTime <= RejectTime - Keepalive - RekeyTimeout
  /\ RekeyMessages \in Nat /\ RejectMessages \in Nat \ {0}
  /\ RekeyMessages < RejectMessages /\ RejectMessages + 1 < SeqMod
  /\ MaxAttempts \in Nat \ {0} /\ MaxAttempts <= 255
  /\ MaxTime \in Nat \ {0} /\ MaxIds \in Nat

VARIABLES
  peer,      \* per device, its entry for the other (struct wireguard_peer)
  sending,   \* per device, the packet the TCP/IP thread has sealed but not counted
  net,       \* every packet ever sent: it may arrive at any time, or never
  now,       \* wireguard_sys_now(), the same on both devices
  ids,       \* indexes drawn so far
  got,       \* history: payloads handed to the network stack, with how often
  opened     \* history: the packets that made a next keypair the current one

vars == <<peer, sending, net, now, ids, got, opened>>

Other(n) == CHOOSE m \in Node : m # n
Slots    == {"curr", "next", "prev"}
Ids      == 1..MaxIds

NoKey   == [valid |-> FALSE, initiator |-> FALSE, key |-> <<0, 0>>, born |-> 0,
            rx |-> FALSE, local |-> 0, remote |-> 0, counter |-> 0,
            window |-> EmptyWindow]
NoShake == [valid |-> FALSE, initiator |-> FALSE, local |-> 0, remote |-> 0,
            chain |-> <<>>]
Idle    == [busy |-> FALSE, slot |-> "curr", packet |-> [type |-> "none"]]

(* A peer as wireguardif_add_peer() makes it: nothing is started for it. *)
NewPeer == [curr |-> NoKey, next |-> NoKey, prev |-> NoKey, shake |-> NoShake,
            greatest |-> 0, lastInit |-> 0, wantShake |-> FALSE,
            active |-> FALSE, attempts |-> 0, lastTx |-> 0]

Init ==
  /\ peer = [n \in Node |-> NewPeer]
  /\ sending = [n \in Node |-> Idle]
  /\ net = {} /\ now = 1 /\ ids = 0
  /\ got = {} /\ opened = {}

Expired(t, d) == now - t >= d
-----------------------------------------------------------------------------
(* Keypairs *)

(* A responder's keypair is used only once the initiator was heard on it. *)
Usable(k)   == k.valid /\ (k.initiator \/ k.rx)
Live(k)     == ~Expired(k.born, RejectTime) /\ k.counter < RejectMessages
SendSlot(p) == IF p.curr.valid /\ ~p.curr.initiator /\ ~p.curr.rx THEN "prev" ELSE "curr"

Destroy(p, s) == [p EXCEPT ![s] = NoKey]

(* Mutant: the slot the keypair is copied from keeps its copy. *)
MutRotate(p, s) ==
  IF s = "next" THEN [p EXCEPT !.prev = p.curr, !.curr = p.next] ELSE p

(* keypair_update() after a packet under the keypair in slot s. *)
Rotate(p, s) ==
  IF s = "next" THEN [p EXCEPT !.prev = p.curr, !.curr = p.next, !.next = NoKey] ELSE p

(* Mutant: a responder's keypair becomes the current one at once. *)
MutAddKeypair(p, k) == [p EXCEPT !.prev = p.curr, !.curr = k]

(* Mutant: an initiator's keypair leaves the slot for a responder's alone. *)
MutAddAsInitiator(p, k) ==
  IF k.initiator THEN [p EXCEPT !.prev = p.curr, !.curr = k]
  ELSE [p EXCEPT !.next = k, !.prev = NoKey]

(* add_new_keypair() *)
AddKeypair(p, k) ==
  IF k.initiator
  THEN [p EXCEPT !.prev = IF p.next.valid THEN p.next ELSE p.curr,
                 !.next = IF p.next.valid THEN NoKey ELSE @,
                 !.curr = k]
  ELSE [p EXCEPT !.next = k, !.prev = NoKey]

(* wireguard_start_session(), and the attempts reset by both its callers. *)
StartSession(p, initiator) ==
  [AddKeypair([p EXCEPT !.shake = [NoShake EXCEPT !.initiator = p.shake.initiator]],
              [NoKey EXCEPT !.valid = TRUE, !.initiator = initiator,
                            !.key = p.shake.chain, !.born = now,
                            !.local = p.shake.local, !.remote = p.shake.remote])
   EXCEPT !.attempts = 0]
-----------------------------------------------------------------------------
(* Sending data: wireguardif_output_to_peer() *)

Sealed(n, k, payload) ==
  [type |-> "data", to |-> Other(n), receiver |-> k.remote, key |-> k.key,
   counter |-> k.counter, payload |-> payload]

(* Mutant: a counter is used for two packets when a rekey is due. *)
MutCounted(p, s) ==
  [p EXCEPT ![s].counter = IF @ >= RekeyMessages THEN @ ELSE @ + 1,
            !.lastTx = now, !.wantShake = TRUE]

(* After the packet is sealed: the counter of what is in the slot by now,  *)
(* last_tx and the wish for a new key. A packet that could not be handed   *)
(* on is one that never arrives.                                           *)
Counted(p, s) ==
  LET k == [p[s] EXCEPT !.counter = @ + 1]
  IN [p EXCEPT ![s] = k,
               !.lastTx = now,
               !.wantShake = \/ @
                             \/ k.counter >= RekeyMessages
                             \/ k.initiator /\ Expired(k.born, RekeyTime)]

(* No key: a handshake is asked of the timer, with all its attempts. *)
Rearm(p) ==
  IF ~p.active \/ p.attempts >= MaxAttempts
  THEN [p EXCEPT !.active = TRUE, !.attempts = 0, !.lastInit = 0] ELSE p

NoSend(p) == IF Usable(p[SendSlot(p)]) THEN Destroy(p, SendSlot(p)) ELSE Rearm(p)
CanSend(p) == Usable(p[SendSlot(p)]) /\ Live(p[SendSlot(p)])

(* The whole call, as the manager task makes it for a keepalive. *)
KeepaliveFor(n, p) ==
  IF CanSend(p)
  THEN [p |-> Counted(p, SendSlot(p)), out |-> {Sealed(n, p[SendSlot(p)], FALSE)}]
  ELSE [p |-> NoSend(p), out |-> {}]

(* The same call in the TCP/IP thread, which the manager can run into.     *)
Send(n) ==
  LET p == peer[n]
  IN /\ n \in Talker /\ ~sending[n].busy
     /\ IF CanSend(p)
        THEN /\ sending' = [sending EXCEPT ![n] =
                              [busy |-> TRUE, slot |-> SendSlot(p),
                               packet |-> Sealed(n, p[SendSlot(p)], TRUE)]]
             /\ UNCHANGED peer
        ELSE /\ peer' = [peer EXCEPT ![n] = NoSend(p)]
             /\ UNCHANGED sending
     /\ UNCHANGED <<net, now, ids, got, opened>>

SendDone(n) ==
  /\ sending[n].busy
  /\ peer' = [peer EXCEPT ![n] = Counted(@, sending[n].slot)]
  /\ net' = net \cup {sending[n].packet}
  /\ sending' = [sending EXCEPT ![n] = Idle]
  /\ UNCHANGED <<now, ids, got, opened>>
-----------------------------------------------------------------------------
(* Handshakes *)

(* wireguard_start_handshake() with the fresh number i. *)
Initiated(p, i) ==
  [p EXCEPT !.shake = [@ EXCEPT !.valid = TRUE, !.initiator = TRUE, !.local = i,
                                !.chain = <<i>>],
            !.wantShake = FALSE, !.lastInit = now,
            !.attempts = IF @ < 255 THEN @ + 1 ELSE @]

Initiation(n, i) == [type |-> "initiation", to |-> Other(n), sender |-> i]

(* wireguardif_connect() and wireguardif_connect_derp(): at once, whatever *)
(* session or handshake there is.                                          *)
Connect(n) ==
  /\ ids < MaxIds
  /\ peer' = [peer EXCEPT ![n] = [Initiated(@, ids + 1) EXCEPT !.active = TRUE]]
  /\ net' = net \cup {Initiation(n, ids + 1)}
  /\ ids' = ids + 1
  /\ UNCHANGED <<sending, now, got, opened>>

(* Mutant: only the initiation answered last is known again. *)
MutNewer(p, m) == m.sender # p.greatest

(* The timestamp of an initiation must be the greatest so far. *)
Newer(p, m) == m.sender > p.greatest

(* wireguard_process_initiation_message() and                              *)
(* wireguardif_send_handshake_response(): the answer takes over whatever   *)
(* handshake was going on, and the session starts before it is sent.       *)
RecvInitiation(n) ==
  /\ ids < MaxIds
  /\ \E m \in net :
       LET r == ids + 1
           p == [peer[n] EXCEPT !.greatest = m.sender,
                                !.shake = [valid |-> TRUE, initiator |-> FALSE,
                                           local |-> r, remote |-> m.sender,
                                           chain |-> <<m.sender, r>>]]
       IN /\ m.type = "initiation" /\ m.to = n /\ Newer(peer[n], m)
          /\ peer' = [peer EXCEPT ![n] = StartSession(p, FALSE)]
          /\ net' = net \cup {[type |-> "response", to |-> Other(n), sender |-> r,
                               receiver |-> m.sender, chain |-> p.shake.chain]}
          /\ ids' = r
  /\ UNCHANGED <<sending, now, got, opened>>

(* A response is for the handshake it names, and proves that it was made   *)
(* from this handshake's ephemeral key.                                    *)
Answers(h, m) ==
  /\ h.valid /\ h.initiator /\ h.local = m.receiver
  /\ m.chain[1] = h.chain[1]

(* wireguard_process_handshake_response() and                              *)
(* wireguardif_process_response_message(): a keepalive opens the session.  *)
RecvResponse(n) ==
  /\ \E m \in net :
       LET p == [peer[n] EXCEPT !.shake = [@ EXCEPT !.remote = m.sender,
                                                    !.chain = m.chain]]
           k == KeepaliveFor(n, StartSession(p, TRUE))
       IN /\ m.type = "response" /\ m.to = n /\ Answers(peer[n].shake, m)
          /\ peer' = [peer EXCEPT ![n] = k.p]
          /\ net' = net \cup k.out
  /\ UNCHANGED <<sending, now, ids, got, opened>>
-----------------------------------------------------------------------------
(* Receiving data: wireguardif_process_data_message() *)

SlotFor(p, m) ==
  CHOOSE s \in Slots : p[s].valid /\ p[s].local = m.receiver

HasSlotFor(p, m) == \E s \in Slots : p[s].valid /\ p[s].local = m.receiver

(* After the slot was emptied into curr, the code still looks at the slot. *)
WantsRekey(p, s) ==
  \/ p.wantShake
  \/ p[s].initiator /\ Expired(p[s].born, RejectTime - Keepalive - RekeyTimeout)

Heard(p, s) == Rotate([p EXCEPT ![s].rx = TRUE], s)

(* How often n has got the payload of m. *)
Times(n, m) ==
  CHOOSE i \in 0..2 : \A j \in 1..2 :
    (<<n, m.key, m.counter, j>> \in got) <=> j <= i

RecvData(n) ==
  /\ \E m \in net :
       LET p == peer[n]
           s == SlotFor(p, m)
           q == Heard(p, s)
           fresh == m.payload /\ Accepts(q[s].window, m.counter)
       IN /\ m.type = "data" /\ m.to = n /\ HasSlotFor(p, m)
          /\ IF ~Live(p[s])
             THEN /\ peer' = [peer EXCEPT ![n] = Destroy(p, s)]
                  /\ UNCHANGED <<got, opened>>
             ELSE /\ m.key = p[s].key
                  /\ peer' = [peer EXCEPT ![n] =
                       [q EXCEPT !.wantShake = WantsRekey(q, s),
                                 ![s].window = IF fresh THEN Noted(@, m.counter) ELSE @]]
                  /\ got' = IF fresh
                            THEN got \cup {<<n, m.key, m.counter, Times(n, m) + 1>>}
                            ELSE got
                  /\ opened' = IF s = "next"
                               THEN opened \cup {<<n, m.key, m.counter>>} ELSE opened
  /\ UNCHANGED <<sending, net, now, ids>>
-----------------------------------------------------------------------------
(* The timer: one pass of wireguardif_periodic() over the peer *)

Reset(p) ==
  IF p.curr.valid /\ Expired(p.curr.born, 3 * RejectTime)
  THEN [p EXCEPT !.next = NoKey, !.curr = NoKey, !.prev = NoKey] ELSE p

DropDead(p) == IF p.curr.valid /\ ~Live(p.curr) THEN Destroy(p, "curr") ELSE p

KeepaliveDue(p) == (p.curr.valid \/ p.prev.valid) /\ Expired(p.lastTx, Keepalive)

InitiationDue(p) ==
  /\ p.lastInit = 0 \/ Expired(p.lastInit, RekeyTimeout)
  /\ \/ p.wantShake
     \/ /\ p.curr.valid /\ ~p.curr.initiator
        /\ Expired(p.curr.born, RejectTime - Keepalive)
     \/ ~p.curr.valid /\ p.active /\ p.attempts < MaxAttempts

Periodic(n) ==
  LET p == DropDead(Reset(peer[n]))
      k == IF KeepaliveDue(p) THEN KeepaliveFor(n, p) ELSE [p |-> p, out |-> {}]
  IN /\ IF InitiationDue(k.p)
        THEN /\ ids < MaxIds
             /\ ids' = ids + 1
             /\ peer' = [peer EXCEPT ![n] = Initiated(k.p, ids + 1)]
             /\ net' = net \cup k.out \cup {Initiation(n, ids + 1)}
        ELSE /\ peer' = [peer EXCEPT ![n] = k.p]
             /\ net' = net \cup k.out
             /\ UNCHANGED ids
     /\ UNCHANGED <<sending, now, got, opened>>

Tick ==
  /\ now < MaxTime
  /\ now' = now + 1
  /\ UNCHANGED <<peer, sending, net, ids, got, opened>>

Device(n) ==
  \/ Send(n) \/ SendDone(n)
  \/ Connect(n) \/ RecvInitiation(n) \/ RecvResponse(n) \/ RecvData(n)
  \/ Periodic(n)

Next == Tick \/ \E n \in Node : Device(n)

Spec == Init /\ [][Next]_vars
-----------------------------------------------------------------------------
Indexes == 0..MaxIds
Nonces  == 0..RejectMessages + 1
Keys    == {<<0, 0>>} \cup (Ids \X Ids)
Chains  == {<<>>} \cup {<<i>> : i \in Ids} \cup (Ids \X Ids)

Keypairs == [valid : BOOLEAN, initiator : BOOLEAN, key : Keys, born : 0..MaxTime,
             rx : BOOLEAN, local : Indexes, remote : Indexes, counter : Nonces,
             window : Windows]

Handshakes == [valid : BOOLEAN, initiator : BOOLEAN, local : Indexes,
               remote : Indexes, chain : Chains]

Peers == [curr : Keypairs, next : Keypairs, prev : Keypairs, shake : Handshakes,
          greatest : Indexes, lastInit : 0..MaxTime, wantShake : BOOLEAN,
          active : BOOLEAN, attempts : 0..255, lastTx : 0..MaxTime]

Messages ==
  [type : {"initiation"}, to : Node, sender : Ids]
  \cup [type : {"response"}, to : Node, sender : Ids, receiver : Ids,
        chain : Ids \X Ids]
  \cup [type : {"data"}, to : Node, receiver : Indexes, key : Keys,
        counter : Nonces, payload : BOOLEAN]

Sendings == [busy : BOOLEAN, slot : Slots, packet : Messages \cup {Idle.packet}]

(* Slots, packets and timers are what they are declared to be; a counter   *)
(* passes its limit by one at most, when both contexts send.               *)
TypeOK ==
  /\ peer \in [Node -> Peers]
  /\ sending \in [Node -> Sendings]
  /\ net \subseteq Messages
  /\ now \in 1..MaxTime /\ ids \in Indexes

HeldBy(n) == {s \in Slots : peer[n][s].valid}

(* Two keypairs with one session key are the two ends of one session: one  *)
(* in a slot of each device, with opposite roles, each naming the index of *)
(* the other.                                                              *)
KeysAgree ==
  /\ \A n \in Node : \A s, t \in HeldBy(n) :
       peer[n][s].key = peer[n][t].key => s = t
  /\ \A n \in Node : \A s \in HeldBy(n), t \in HeldBy(Other(n)) :
       LET k == peer[n][s]
           l == peer[Other(n)][t]
       IN k.key = l.key => /\ k.initiator = ~l.initiator
                           /\ k.local = l.remote /\ k.remote = l.local

(* A keypair becomes current only when it is known to work: the fallback   *)
(* to the previous one in wireguardif_output_to_peer() is never needed.    *)
CurrentIsConfirmed ==
  \A n \in Node : peer[n].curr.valid => Usable(peer[n].curr)

(* A session never gives way to an older one: a late first packet cannot   *)
(* bring back a keypair that was set aside for a session of either role.   *)
SlotsInOrder ==
  \A n \in Node :
    LET p == peer[n]
    IN /\ p.prev.valid /\ p.curr.valid => p.prev.born <= p.curr.born
       /\ p.curr.valid /\ p.next.valid => p.curr.born <= p.next.born

(* What a keypair that can still send would seal next has a counter above  *)
(* that of every packet which has left under its key, however the TCP/IP   *)
(* thread and the manager interleave. (A keypair retired between the two   *)
(* steps of a send misses that count; and of the packet that is sealed but *)
(* has not left this says nothing.)                                        *)
CountersAhead ==
  \A n \in Node : \A s \in HeldBy(n) \ {"prev"} : \A m \in net :
    m.type = "data" /\ m.to = Other(n) /\ m.key = peer[n][s].key
      => m.counter < peer[n][s].counter

(* m has left n under the key and the counter of the packet that the       *)
(* TCP/IP thread has sealed and not sent yet.                              *)
Doubles(n, m) ==
  /\ m.type = "data" /\ m.to = Other(n)
  /\ m.key = sending[n].packet.key /\ m.counter = sending[n].packet.counter

(* No two payloads share a key and a counter: what leaves under those of a *)
(* packet being sent can only be a keepalive of the manager.               *)
PayloadOnce ==
  \A n \in Node : sending[n].busy => \A m \in net : Doubles(n, m) => ~m.payload

(* A payload is handed up once; the one exception is the packet that made  *)
(* its keypair current, which is noted in the slot it just left.           *)
TwiceOnlyOpening ==
  \A g \in got : g[4] = 1 \/ (g[4] = 2 /\ <<g[1], g[2], g[3]>> \in opened)

(* What a key is used for: by the two ends of one session, with a counter    *)
(* that only grows and is the same for two packets only when one of them is  *)
(* a keepalive that left while the other was being sent, for payloads that   *)
(* are handed up once but for that exception (wireguardif_output_to_peer,    *)
(* wireguardif_process_data_message).                                        *)
KeyUse == KeysAgree /\ CountersAhead /\ PayloadOnce /\ TwiceOnlyOpening

(* "Owns ALL peer state exclusively" (ml_wg_mgr.c:5): were the counter in a  *)
(* keypair the manager's alone, no two packets would share key and counter.  *)
CounterOnce ==
  \A n \in Node : sending[n].busy => \A m \in net : ~Doubles(n, m)

(* The comment at wireguardif.c:611, "Check for packet replay / dupes".      *)
DeliveredOnce == \A g \in got : g[4] = 1

(* A late or repeated initiation never replaces a session by an older one. *)
OnlyNewerSessions ==
  [][\A n \in Node :
       LET k == peer[n].next
           l == peer'[n].next
       IN k.valid /\ l.valid /\ k.key # l.key => l.key[1] > k.key[1]]_vars
=============================================================================
