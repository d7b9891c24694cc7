----------------------------- MODULE PeerTable -----------------------------
(* The peers of a node: from the control server's map stream (ml_coord.c)    *)
(* over the bounded queue of updates to the table of the WireGuard manager   *)
(* (ml_wg_mgr.c), the peers of the WireGuard device (wireguardif.c) and the  *)
(* cache in flash (ml_peer_nvs.c), over restarts and lost connections.       *)
EXTENDS Naturals, Sequences, FiniteSets, SequencesExt

CONSTANTS Nodes,       \* the other nodes of the tailnet; a node is its address
          Gens,        \* a node's keys are 0 .. Gens: it may take a new one
          Priority,    \* priority_peer_ip
          Allowed,     \* the addresses the allowlist lets through
          Slots,       \* ML_MAX_PEERS, and WIREGUARD_MAX_PEERS with it
          CacheMax,    \* ML_NVS_MAX_PEERS
          Depth,       \* ML_PEER_UPDATE_QUEUE_DEPTH
          LruMod,      \* 2^16: the cache's clock wraps there
          MaxChanges,  \* bound: changes of the tailnet
          MaxLosses,   \* bound: connections lost
          MaxCrashes,  \* bound: restarts
          MaxBadFlush  \* bound: writes to flash that fail

ASSUME TableAssumption ==
  /\ Slots \in Nat \ {0} /\ CacheMax \in Nat \ {0} /\ Depth \in Nat \ {0}
  /\ LruMod \in Nat \ {0, 1} /\ Gens \in Nat
  /\ IsFiniteSet(Nodes) /\ Allowed \subseteq Nodes

Keys == Nodes \X (0 .. Gens)
NoKey == <<>>
NodeOf(k) == k[1]

VARIABLES
  members,   \* the server: each node's key, NoKey for a node that is not there
  link,      \* the map stream is up
  wire,      \* updates parsed from a map response, not yet in the queue
  missed,    \* history: keys lost on the way, or for want of room, since
             \* the last netmap
  registered,\* ML_EVT_COORD_REGISTERED
  upq,       \* peer_update_queue
  phase,     \* the manager's task: "off", "wait" for the event, "run"
  netif,     \* wg_netif: the device exists
  peers,     \* ml->peers: a key and wg_peer_index (0 for -1), NoKey if inactive
  peer_count,
  dev,       \* the device's peers by index, NoKey if not valid
  cache,     \* s_table: entries with key and lru_counter
  lru_clock,
  flash,     \* the blob: the entries and the clock
  used       \* how much of each bound is used

net == <<members, link, wire, missed, registered>>
nvs == <<cache, lru_clock, flash>>
tbl == <<peers, peer_count, dev>>
tableVars == <<net, upq, phase, netif, tbl, nvs, used>>

Free == [key |-> NoKey, wg |-> 0]
Active(i) == peers[i].key # NoKey
InTable(k) == \E i \in 1 .. Slots : peers[i].key = k
Full == \A i \in 1 .. Slots : Active(i)

TableInit ==
  /\ members = [n \in Nodes |-> <<n, 0>>]
  /\ link = FALSE /\ wire = <<>>
  /\ missed = {} /\ registered = FALSE /\ upq = <<>>
  /\ phase = "off" /\ netif = FALSE
  /\ peers = [i \in 1 .. Slots |-> Free] /\ peer_count = 0
  /\ dev = [i \in 1 .. Slots |-> NoKey]
  /\ cache = <<>> /\ lru_clock = 0 /\ flash = [entries |-> <<>>, clock |-> 0]
  /\ used = [changes |-> 0, losses |-> 0, crashes |-> 0, bad |-> 0]

Spend(what) == used' = [used EXCEPT ![what] = @ + 1]
Add(k) == [action |-> "add", key |-> k]
Gone(k) == [action |-> "remove", key |-> k]

-----------------------------------------------------------------------------
(* The control server and the map stream.                                    *)

\* A node joins, or takes a new key: PeersChanged.  Without the stream the
\* change waits for the next netmap.
Change(n, k) ==
  /\ used.changes < MaxChanges /\ Spend("changes")
  /\ k \in Keys /\ NodeOf(k) = n /\ members[n] # k
  /\ members' = [members EXCEPT ![n] = k]
  /\ wire' = IF link THEN Append(wire, Add(k)) ELSE wire
  /\ UNCHANGED <<link, missed, registered, upq, phase, netif, tbl, nvs>>

\* A node leaves: PeersRemoved.  Without the stream nobody is told.
Leave(n) ==
  /\ used.changes < MaxChanges /\ Spend("changes")
  /\ members[n] # NoKey
  /\ members' = [members EXCEPT ![n] = NoKey]
  /\ wire' = IF link THEN Append(wire, Gone(members[n])) ELSE wire
  /\ UNCHANGED <<link, missed, registered, upq, phase, netif, tbl, nvs>>

\* Mutant of FullMap: the netmap's peers are looked for under the wrong name.
MutFullMap == {<<>>}

\* The full list of a netmap: "Peers", in any order the server likes.
Members == {members[n] : n \in Nodes} \ {NoKey}
FullMap == {[i \in DOMAIN s |-> Add(s[i])] : s \in SetToSeqs(Members)}

\* FETCH_PEERS: the netmap is read and parsed, or it is not and the task goes
\* on all the same (the long poll's first map is not fatal).
Connect ==
  /\ phase # "off" /\ ~link
  /\ link' = TRUE
  /\ \/ wire' \in FullMap /\ missed' = {}
     \/ wire' = <<>> /\ missed' = Members
  /\ UNCHANGED <<members, registered, upq, phase, netif, tbl, nvs, used>>

\* The event is set when the first netmap has been passed on.
Registered ==
  /\ link /\ wire = <<>> /\ ~registered
  /\ registered' = TRUE
  /\ UNCHANGED <<members, link, wire, missed, upq, phase, netif, tbl, nvs, used>>

\* parse_peers_from_map_response: one xQueueSend for each update; it waits for
\* 100 ms and gives the update up if the queue is still full.
Enqueue ==
  /\ wire # <<>> /\ Len(upq) < Depth
  /\ upq' = Append(upq, Head(wire)) /\ wire' = Tail(wire)
  /\ UNCHANGED <<members, link, missed, registered, phase, netif, tbl, nvs, used>>

DropUpdate ==
  /\ wire # <<>> /\ Len(upq) = Depth
  /\ wire' = Tail(wire)
  /\ missed' = IF Head(wire).action = "add" THEN missed \cup {Head(wire).key} ELSE missed
  /\ UNCHANGED <<members, link, registered, upq, phase, netif, tbl, nvs, used>>

LoseLink ==
  /\ link /\ used.losses < MaxLosses /\ Spend("losses")
  /\ link' = FALSE /\ wire' = <<>>
  /\ UNCHANGED <<members, missed, registered, upq, phase, netif, tbl, nvs>>

-----------------------------------------------------------------------------
(* The cache in flash.                                                       *)

\* The entry with the peer's address or key, else a new one, else the one with
\* the lowest counter (the first of them).
Matching(k) == {i \in DOMAIN cache : NodeOf(cache[i].key) = NodeOf(k) \/ cache[i].key = k}
First(S) == CHOOSE i \in S : \A j \in S : i <= j
\* Mutant of Oldest: the first entry is replaced, not the oldest.
MutOldest == DOMAIN cache
Oldest == {i \in DOMAIN cache : \A j \in DOMAIN cache : cache[i].lru <= cache[j].lru}
SaveSlot(k) == IF Matching(k) # {} THEN First(Matching(k))
               ELSE IF Len(cache) < CacheMax THEN Len(cache) + 1
               ELSE First(Oldest)

\* ml_peer_nvs_save: the working copy changes, then the blob is written.
Save(k) ==
  LET tick == (lru_clock + 1) % LruMod
      entry == [key |-> k, lru |-> tick]
  IN  /\ lru_clock' = tick
      /\ cache' = IF SaveSlot(k) > Len(cache) THEN Append(cache, entry)
                  ELSE [cache EXCEPT ![SaveSlot(k)] = entry]
      /\ \/ flash' = [entries |-> cache', clock |-> tick] /\ UNCHANGED used
         \/ /\ used.bad < MaxBadFlush /\ Spend("bad")
            /\ UNCHANGED flash

\* ml_peer_nvs_load_all: the first entries of the cache fill the table.
Loaded == IF Len(flash.entries) < Slots THEN Len(flash.entries) ELSE Slots
Preloaded == [i \in 1 .. Slots |->
                IF i <= Loaded THEN [key |-> flash.entries[i].key, wg |-> 0] ELSE Free]

-----------------------------------------------------------------------------
(* The peers of the WireGuard device.                                        *)

\* wireguardif_add_peer: the index of a peer with this key, else the first
\* free one, else none (0).
DevIndex(d, k) ==
  LET known == {i \in 1 .. Slots : d[i] = k}
      empty == {i \in 1 .. Slots : d[i] = NoKey}
  IN  IF known # {} THEN First(known) ELSE IF empty # {} THEN First(empty) ELSE 0

\* wg_register_peer, for a table entry that is about to hold k.
DevWith(d, k) == IF netif /\ DevIndex(d, k) # 0 THEN [d EXCEPT ![DevIndex(d, k)] = k] ELSE d
Registering(d, k) == [key |-> k, wg |-> IF netif THEN DevIndex(d, k) ELSE 0]

\* wireguardif_remove_peer.
DevWithout(d, i) == IF netif /\ peers[i].wg # 0 THEN [d EXCEPT ![peers[i].wg] = NoKey] ELSE d

\* The pass after the device is made: every entry without an index gets one.
Registers(r, i) ==
  LET t == r[1]
      d == r[2]
      x == DevIndex(d, t[i].key)
  IN  IF t[i].key = NoKey \/ t[i].wg # 0 \/ x = 0 THEN r
      ELSE <<[t EXCEPT ![i].wg = x], [d EXCEPT ![x] = t[i].key]>>
\* Mutant of Reconciled: no pass over the cached peers once the device exists.
MutReconciled == <<peers, dev>>
Reconciled ==
  LET upto[i \in 0 .. peer_count] ==
        IF i = 0 THEN <<peers, dev>> ELSE Registers(upto[i - 1], i)
  IN  upto[peer_count]

-----------------------------------------------------------------------------
(* The manager's task.                                                       *)

\* A start after power-up or a crash: the cache is read, the table filled.
Boot ==
  /\ phase = "off"
  /\ phase' = "wait"
  /\ cache' = flash.entries /\ lru_clock' = flash.clock
  /\ peers' = Preloaded /\ peer_count' = Loaded
  /\ UNCHANGED <<net, upq, netif, dev, flash, used>>

\* The coordinator is registered: the device is made and the cached peers enter
\* it, or it cannot be made and the task runs without.
WgInit ==
  /\ phase = "wait" /\ registered
  /\ phase' = "run"
  /\ \/ /\ netif' = TRUE
        /\ peers' = Reconciled[1] /\ dev' = Reconciled[2]
     \/ UNCHANGED <<netif, peers, dev>>
  /\ UNCHANGED <<net, upq, peer_count, nvs, used>>

Find(k) == {i \in 1 .. peer_count : peers[i].key = k}          \* find_peer_by_key
Spare == {i \in 1 .. Slots : ~Active(i)}
Evictable == {i \in 1 .. Slots : Active(i) /\ NodeOf(peers[i].key) # Priority}

\* Mutant of EntryFor: a full table turns the priority peer away as well.
MutEntryFor(k) == IF Find(k) # {} THEN {First(Find(k))}
                  ELSE IF Spare # {} THEN {First(Spare)} ELSE {}

\* add_peer's choice of an entry: the peer's own, the first free one, or for
\* the priority peer that of another; which one depends on when each was last
\* heard and is left open here.
EntryFor(k) ==
  IF Find(k) # {} THEN {First(Find(k))}
  ELSE IF Spare # {} THEN {First(Spare)}
  ELSE IF NodeOf(k) = Priority THEN Evictable
  ELSE {}

AddPeer(k) ==
  IF NodeOf(k) \notin Allowed \/ EntryFor(k) = {}
  THEN UNCHANGED <<tbl, nvs, used>>
  ELSE /\ \E i \in EntryFor(k) :
            LET d == IF Active(i) /\ peers[i].key # k THEN DevWithout(dev, i) ELSE dev
            IN  /\ peers' = [peers EXCEPT ![i] = Registering(d, k)]
                /\ dev' = DevWith(d, k)
                /\ peer_count' = IF i > peer_count THEN i ELSE peer_count
       /\ Save(k)

\* Mutant of LastActive: the count goes down by one, whichever entry was freed.
MutLastActive(t) == peer_count - 1

\* remove_peer: the entry is freed and the count shrinks to the last active one.
LastActive(t) == IF \A i \in 1 .. peer_count : t[i].key = NoKey THEN 0
                 ELSE CHOOSE i \in 1 .. peer_count :
                        t[i].key # NoKey /\ \A j \in (i + 1) .. peer_count : t[j].key = NoKey
RemovePeer(k) ==
  IF Find(k) = {} THEN UNCHANGED <<tbl, nvs, used>>
  ELSE LET i == First(Find(k))
           t == [peers EXCEPT ![i] = Free]
       IN  /\ peers' = t /\ dev' = DevWithout(dev, i) /\ peer_count' = LastActive(t)
           /\ UNCHANGED <<nvs, used>>

\* process_peer_updates.  A peer turned away, or evicted, will not come again
\* before the next netmap.
Allowable == {k \in Keys : NodeOf(k) \in Allowed}
Update ==
  /\ phase = "run" /\ upq # <<>>
  /\ upq' = Tail(upq)
  /\ IF Head(upq).action = "add" THEN AddPeer(Head(upq).key) ELSE RemovePeer(Head(upq).key)
  /\ missed' = missed \cup {k \in Allowable : InTable(k) /\ Head(upq) # Gone(k) /\ ~InTable(k)'}
                       \cup {k \in Allowable : Head(upq) = Add(k) /\ EntryFor(k) = {}}
  /\ UNCHANGED <<members, link, wire, registered, phase, netif>>

\* Power loss or a reboot: only the flash and the server remember.
Crash ==
  /\ phase # "off" /\ used.crashes < MaxCrashes /\ Spend("crashes")
  /\ phase' = "off" /\ link' = FALSE /\ wire' = <<>> /\ registered' = FALSE
  /\ upq' = <<>> /\ netif' = FALSE
  /\ peers' = [i \in 1 .. Slots |-> Free] /\ peer_count' = 0
  /\ dev' = [i \in 1 .. Slots |-> NoKey]
  /\ cache' = <<>> /\ lru_clock' = 0
  /\ UNCHANGED <<members, missed, flash>>

Done == UNCHANGED tableVars /\ phase = "run" /\ link /\ wire = <<>> /\ upq = <<>> /\ registered

TableNext == \/ \E n \in Nodes : Leave(n) \/ \E k \in Keys : Change(n, k)
        \/ Connect \/ Registered \/ Enqueue \/ DropUpdate \/ LoseLink
        \/ Boot \/ WgInit \/ Update \/ Crash \/ Done

\* The tasks run when they can, and a lost stream is connected again.
TableFairness == WF_tableVars(Connect) /\ WF_tableVars(Registered) /\ WF_tableVars(Enqueue \/ DropUpdate)
            /\ WF_tableVars(Boot) /\ WF_tableVars(WgInit) /\ WF_tableVars(Update)
TableSpec == TableInit /\ [][TableNext]_tableVars /\ TableFairness

-----------------------------------------------------------------------------
(* Properties.                                                               *)

TableTypeOK ==
  /\ members \in [Nodes -> Keys \cup {NoKey}]
  /\ link \in BOOLEAN /\ registered \in BOOLEAN /\ netif \in BOOLEAN
  /\ phase \in {"off", "wait", "run"} /\ missed \subseteq Keys
  /\ Len(upq) <= Depth
  /\ peers \in [1 .. Slots -> [key : Keys \cup {NoKey}, wg : 0 .. Slots]]
  /\ peer_count \in 0 .. Slots
  /\ \A i \in 1 .. Slots : Active(i) => i <= peer_count
  /\ dev \in [1 .. Slots -> Keys \cup {NoKey}]
  /\ Len(cache) <= CacheMax /\ Len(flash.entries) <= CacheMax

\* Once the device exists every entry of the table, cached ones included, owns
\* exactly one peer of the device and the device has no other: the comment at
\* wg_register_peer tells of entries that DISCO sees and WireGuard does not.
DeviceFollowsTable ==
  netif => /\ \A i \in 1 .. Slots : Active(i) => peers[i].wg # 0 /\ dev[peers[i].wg] = peers[i].key
           /\ \A d \in 1 .. Slots : dev[d] # NoKey =>
                \E i \in 1 .. Slots : peers[i].key = dev[d] /\ peers[i].wg = d

\* An update that adds the priority peer leaves it in the table whatever the
\* table held, with a peer of the device if there is one, and nothing but its
\* removal, or a restart, takes it out (Kconfig: it "is guaranteed a WireGuard
\* slot even when the peer table is full").  Only the allowlist, and a table
\* with no entry but the priority peer's own under its earlier keys, stop it.
Room(k) == InTable(k) \/ Spare \cup Evictable # {}
PriorityServed ==
  [][\A k \in Allowable : NodeOf(k) = Priority =>
       /\ InTable(k) /\ ~InTable(k)' => phase' = "off" \/ Head(upq) = Gone(k)
       /\ upq # <<>> /\ Head(upq) = Add(k) /\ upq' = Tail(upq) /\ phase' # "off" /\ Room(k)
          => InTable(k)' /\ (netif => \E d \in 1 .. Slots : dev'[d] = k)]_tableVars

\* The flash holds the peers saved last, one for each address, whatever write
\* failed and whenever the node restarted.
Recency(s) ==
  [peers |-> {s[i].key : i \in DOMAIN s},
   newer |-> {<<s[r[1]].key, s[r[2]].key>> : r \in {q \in (DOMAIN s) \X (DOMAIN s) :
                                                     s[q[1]].lru > s[q[2]].lru}}]
Cache == INSTANCE RecentPeers WITH Peers <- Keys, Addr <- NodeOf, Size <- CacheMax,
           recent <- IF phase = "off" THEN Recency(flash.entries) ELSE Recency(cache),
           stored <- Recency(flash.entries)
CacheIsRecent == Cache!Spec

\* A node the server lists for good ends in the table, unless its update was
\* lost on the way or there was no room, and no netmap came after that.
Listed ==
  \A k \in Allowable : <>[](k \in Members /\ k \notin missed) => <>[]InTable(k)

\* Those who are to have a place in the table get it, and the priority peer
\* keeps it (add_peer, remove_peer, the netmap's way to them).
PeersServed == PriorityServed /\ Listed
=============================================================================
