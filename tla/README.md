# gn-alarmoo in TLA+

The repository puts a Paradox alarm panel on a Tailscale network: ESPHome components
(`src/components/stream_server`, `src/components/tailscale`) on top of `microlink`, a
Tailscale client for the ESP32 in C (`src/microlink/components/microlink`), with a fork
of wireguard-lwip inside. This directory holds TLA+ models of the parts whose behaviour
is made of interleavings, failures and timers, the TLC runs that check them on small
instances, and TLAPS proofs of what matters most for every instance.

`tlc -config <run>.cfg <module>` runs a model (the pairs are in PROJECT.json),
`tlapm <proof module>.tla` checks the proofs (the last column of the table of modules).

## Inventory

| Part | State | Operations | Meets | What is hard |
|---|---|---|---|---|
| stream_server | ring buffer with three positions, list of clients, sensor | loop(): accept, read, flush, write, cleanup; shutdown | UART driver, TCP peers | a slow client at a full ring, close with data behind it, positions at the word boundary |
| tailscale (ESPHome) | the handle, flags of a stop in progress, a reconnect's phase, a dead man's switch, a saved key | loop(), switch, button, confirm, new key, shutdown | microlink handle, its callbacks | stops that outlive the call, timers that undo each other |
| life cycle (microlink.c) | the handle, event bits, task handles, keys, timestamp base | init, start, stop, destroy, rebind | all five tasks | stop waits a fixed time; start fails half way |
| net_switch | `s_ctx`: state, transport, VPN, failure counter; two timers | start, stop, task, timer callbacks | WiFi driver, modem, microlink | no lock; blocking calls; both networks fail |
| cellular | state, what of UART, PPP and bridge exists, rate | start, stop, event handlers, receive task | net_switch, lwIP, event loop | late events; an attempt that fails half way |
| AT sockets | sockets with rings, one mutex | open, connect, send, receive, select, close | the modem | reports inside an answer; a late answer |
| derp | TLS context, `connected`, `rx_parked`, send queue, event bits | connect, disconnect, queue, writer and reader tasks | coordinator, WireGuard side, relay | two tasks on one TLS context; errors seen by either |
| coordinator | state of the task, connection, command queue, map stream and its window, vpn_ip | connect, register, fetch, follow, reconnect with backoff | server, derp, wg_mgr | a stream that is dead while its transport answers; commands and stops at any point |
| wg_mgr and DISCO | peer table, best path of each peer, pings in flight | peer updates, ping, pong, CallMeMaybe, choice of a path | coordinator, derp, wireguardif, cache | a full table; paths that pass pings only |
| peer cache | table in RAM written back to flash | load, save, flush | wg_mgr | a failed write, a restart |
| wireguard, wireguardif | per peer: three keypairs, a handshake, replay window, timers | send, receive, periodic pass, connect | TCP/IP thread, manager task, the peer | lost, late and repeated messages; no lock between the two contexts |
| net_io, zero-copy, ml_udp | sockets, bounded queues, three rings | classify, enqueue, drain, callback | wg_mgr, lwIP, application | rings without a lock; wake-ups |
| STUN, netcheck, configuration server, cryptography | little or none | request and answer | coordinator | I/O and arithmetic |

PROJECT.json lists every part with its status, and under "hazards" the places where
something can go wrong that a test would hardly reach, each at its line, with the
properties that cover it.

## Modules

| Module | Models | Run | Proved in |
|---|---|---|---|
| SerialFanout | what the stream server promises: one stream, a cursor for each client | (refinement) | |
| StreamServer | stream_server.cpp, one action per call of loop() | StreamServer_Fanout | StreamServerProofs |
| NetSwitch | ml_net_switch.c | NetSwitch_* | NetSwitchProofs |
| Cellular | ml_cellular.c: bringing a modem up and down | Cellular_* | ModemProofs |
| AtSocket | ml_at_socket.c: sockets over AT commands | AtSocket_* | ModemProofs |
| DerpLink | ml_derp.c: writer, reader and who asks them | DerpLink_* | PeersProofs |
| Coord | ml_coord.c: the control connection and the map stream | Coord_Stream | CoordProofs |
| PeerTable | peers from the map stream to the table, the device and the cache | PeerTable_Peers | PeersProofs |
| RecentPeers | what the peer cache promises | (refinement) | PeersProofs |
| Paths | ml_wg_mgr.c: direct path or relay, for one peer | Paths_* | PeersProofs |
| Datagrams | ml_zerocopy.c, ml_net_io.c, ml_udp.c: rings and queues | Datagrams_Rings | DatagramsProofs |
| ReplayWindow | wireguard_check_replay() as operators | through WgSession | WgSessionProofs |
| WgSession | wireguard.c and wireguardif.c between two devices | WgSession_* | WgSessionProofs |
| Tailscale | tailscale.cpp: the handle's life in ESPHome | Tailscale_Life | TailscaleProofs |

MCPeerTable and MCWgSession give TLC the model values. No run uses symmetry. An operator
named `Mut...` is a form of the definition of almost the same name with a bug somebody
could plausibly have written; no specification uses it. PROJECT.json "mutants" says which
property catches it, so that every property is known to fail for some change of the code.

How the components meet: NetSwitch calls Cellular's start and stop (its `CellUp`,
`CellDown` and `StopEnd` are Cellular's `up`, `failed` and `idle`); Coord's FETCH_PEERS and map stream are the `wire`
of PeerTable, which composes map stream, update queue, table, device and cache in one
state; Paths is the manager's part for one peer of that table and stands on WgSession,
of which it keeps the ages only; Datagrams is the way between the network, both threads
and the manager; DerpLink's queue is what Paths calls the relay; Tailscale sees a handle
from outside (`run`, `stopping`, `freed`, CONNECTED).

### StreamServer

`head`, `tail`, `position` are the members of that name, of type size_t: they wrap at
`SizeMod`. `loop()` is five actions in order (`pc`), and between two of them the UART and
the peers move. A byte is its number in the stream, so that the ring `buf` shows which
byte a slot really holds. Reads from clients are counted, not stored, because they go to
the UART and nowhere else. `SerialFanout` is what a client may rely on; `StreamServer`
implements it with `taken <- head`, `cursor <- position`.

### NetSwitch

A rest of the task (`pc`) is a blocking call: `wifi_start`, `cellular_start`,
`vpn_start`, the 30 s delay, the wait in `state_loop`. What happens between two rests is
one action. `path` is where the code resumes (first attempt, failback, cellular). The two
timer callbacks are actions, so is each half of `stop()`, and `live` counts the microlink
handles that exist. Networks change `MaxFlips` times. `settled` is a history variable:
every stop() found its task in `state_loop`.

### Cellular

`pc` is where the network switch's task is in `ml_cellular_init`, `_connect`,
`_ppp_start`, `_ppp_stop` or `_deinit`; each AT exchange is a step that may succeed or
fail. `cell` is `s_cell`; `modem` and `bauds` are facts about the device that the driver
can be wrong about: in a call ("data") or taking commands, and who is at the fast rate.
PPP on lwIP's thread (`link`) posts events that the event loop's task handles later, in
order. `able` is history: nothing the modem was asked since the start failed.

A PPP that is not closed when the 15 s of `ml_cellular_ppp_stop` are over loses its interface
all the same. `overdue` remembers that this happened, `ghost` that such a PPP goes on: it
ends, with its events or without, or takes the device down (`Ghost`, `Crash`), and its frames
may spoil the "+++" of `Escape`. `cell.left` is what calls that failed half way did not
release: event group and IP handler of a set-up of PPP, the mutex of a bridge whose
AT+NETOPEN was refused. A handler that was left hears of later losses of an address.

Assumed: net_switch does not call stop inside a start; a wait of fixed length for the receive
task or the event loop is long enough; the PPP status handler can be registered (the code
does not look).

### AtSocket

One UART, one mutex, and a stream in which answers and unsolicited reports mix. `uart` is
the UART's queue: `Issue` empties it, so what was reported before is lost, as in the code.
`Reads` is what the task has when it stops: everything up to a final answer and whatever
had arrived behind. `conn` is the other end: bytes sent and held for each link. A task
uses one socket at a time; bind, options and non-blocking mode are left out.

A query and a read may be given up before the modem has answered (`Timeout`, `ReadLate`); a
read may also be broken off within its answer (`ReadCut`), when the time is over or
because the word ERROR is among the bytes. What a read that was given up was for is lost: the modem
has handed it over, and the next command empties the UART's queue. `cut` remembers
that, and that the rest of the answer may still be on its way. `MaxLate` bounds all three
together; a modem that is more than that behind is not modelled.

### DerpLink

`ev` has the three event bits the link uses, `tx` and `rx` are where the writer and the
reader are. Each look of one task at a variable of the other is an action of its own:
the reader reads `connected`, unparks, reads `connected` again and enters. Inside the TLS
context the reader is in `header`, `payload` or `pong`. `peer` is the far end: open, reset,
or closed without a word of TLS, which the reader's `mbedtls_ssl_read` reports as 0 bytes and
the reader takes for "no data". `MaxFaults` breaks and rebinds
and `MaxFails` failing attempts happen at any moment.

### Coord

`at` and `state` are the task's position and `coord_state_t`: at the top of the loop one
command is taken, then the body of the state runs. Each step of the set-up may fail, be
answered in pieces or meet a server that is silent. The other end is `far`, its map
session `sess`, its window `room`. A frame on the `wire` may be cut; a read that ends
within one leaves the reader misaligned for the rest of the connection (`aligned`). The
server streams netmaps (as Headscale 0.26) or answers a request of their own. `age` and
`idle` are the two watchdogs' clocks, in units of the PING's interval. An expired key, with
an auth key configured, is one of the `used` faults. `Connect`, `Rebind`
and `Stop` are the application's calls. The command follows the tasks' creation, so the
task may wait in IDLE for it. `WgInit` and `SelfHeal` are the parts of wg_mgr
that use the address.

### PeerTable and RecentPeers

Nodes join, leave and change their keys at the server; with the stream up the change
travels `wire` -> `upq` -> table, and is dropped when the queue stays full. `missed` is
history: keys lost on the way, or for want of room, since the last netmap. Adding evicts as
`add_peer` does, registers with the device if there is one and saves to the cache. A
restart loads the cache, creates the device and registers what was loaded. Save has the
least recently used replaced by `lru_counter`; the flush may fail. `RecentPeers` has a set of
peers and who was saved after whom; `PeerTable` implements it with the comparison of the
counters (`Recency`). `LruMod` is above what a run uses, and the proof assumes the same
(`NoWrap`): when the 16-bit clock wraps, the newest entry becomes the first to go.

### Paths

Time passes in units of 30 s in which both parts of the task's loop run once and what is
in flight arrives or is lost. `Probe` is `disco_periodic_probes` for the peer, `Periodic`
the device's timer pass. `direct = "disco"` is a path over which pings pass and WireGuard
packets do not. `lastRx` is refreshed by packets from any path, as `last_rx` is. An initiation
takes the place of the one before, whose answer no longer fits (`answer`). A session is what
`wireguardif_peer_is_up` says (`Up`): a current keypair or a previous one.

### Datagrams

A ring has `head`, `tail` and slots; a slot is filled and the head moved in two steps, and
a read copies before it releases. The TCP/IP thread (`t`), the manager (`w`), the receive
task of a socket (`x`) and the application (`app`) advance one end each. Datagrams are
numbered as they are put in (`made`) and taken out (`done`). Assumed: the application
clears the callback only while the receive task waits. STUN datagrams are left out.

### WgSession

`peer[n]` is the `struct wireguard_peer` of device n for the other. Both devices run the
same code. The manager task's calls (a received packet, a connect, a periodic pass) are
actions; a send by the TCP/IP thread is two (`Send` seals with the counter read,
`SendDone` counts in whatever the slot holds by then), so that the manager can run in
between. `net` keeps every packet for ever: it can come late, again, or never.

Left out, or coarser than the code:
- A copy of a struct is one step. Two sends that overlap use one counter, in the model as
  in the code: `CounterOnce` fails.
- A packet the transport refuses is one that does not arrive. `last_tx` is then set
  although the code leaves it, which delays a keepalive.
- Times are scaled. The code's order is 5 (REKEY_TIMEOUT) < keepalive 10 or 25 < 120 < 180 with
  180 - keepalive - 5 after 120; the run has 0, 1, 1, 2, which keeps `<=` and merges
  neighbours. The reset after 3 x 180 s happens only if the periodic pass, which destroys
  a keypair at 180 s, did not run for 360 s.
- Cookies (`wireguard_is_under_load()` is constant FALSE), endpoints, removal of peers,
  and the rate limit of initiations, which works only within one millisecond.
- Indexes, ephemeral keys and timestamps are one fresh number each; keys cannot be guessed.

### Tailscale

The record `c` has the component's fields, the statics of tailscale.cpp and what each
handle's tasks do. A round of `loop()` is one action, so is each call from Home
Assistant, the 300 ms timer of a deferred stop, each step of `microlink_stop_task`, and
the callback, whose check and effect are two (`told`). A unit of time is 15 s.
A stop is assumed to take less than STOP_TIMEOUT_MS (`Cleanup < StopTimeout`); one that takes
longer lets the next handle start beside the old one (tailscale.cpp:129).

## Runs

| Run | Asks | Bounds, and why they are enough |
|---|---|---|
| StreamServer_Fanout | is what clients get one stream, with losses only where the ring forces them; are the count and the last bytes of who leaves right; is a closed client removed | 2 clients, ring of 2, 3 bytes on the UART, 1 from each client: a slot is reused, a write is split, one client is slow and one fast, one leaves and another comes |
| NetSwitch_Failover | one VPN, a state that tells the truth, watched; nothing left by an orderly stop; ends on the right transport | 2 tasks, 2 stops, 4 changes of the networks: fail over, fail back, fail during failback, fail again; stop and start between |
| NetSwitch_Reconnect | (violation) both networks gone and back | 3 changes |
| Cellular_Modem | what a stop releases, and when an interface is destroyed under PPP; an attempt does not fail for an earlier one; each call ends and "up" is real | any number of starts, stops, failures and resets; 4 events that the event loop has not handled, more than one attempt has kinds of outcome (an address, its loss, a refusal, the close) |
| AtSocket_Receive | bytes in order and on their own socket; an end of file is real | 2 tasks, 2 links, ring of 2 and 3 bytes: more is pending than fits, a second chunk is limited by what the ring has left; 1 answer late or cut at any byte |
| DerpLink_Heal | teardown outside the context, repair of the bit, order, recovery | 2 faults, 2 failing attempts of 3, 3 packets in a queue of 2: a fault during the recovery from a fault, a full queue |
| Coord_Stream | no connection lost or left; the stream lives again; the interface has the address; a stop ends the task | 2 faults, a change of the address, a rebind, a stop, a window of 2, 2 commands: a fault during the recovery from another, a full command queue |
| PeerTable_Peers | table, device and cache agree; who is listed is served | 3 nodes, 2 slots, 2 cache entries, queue of 1: each overflows; a change, a lost stream, a restart and a failed write, in any order |
| Paths_Relay | a path is direct on fresh evidence only; a peer that can be reached is reached, or at least tried over the relay | 1 peer, 2 changes of the network, 1 renewed netmap; ages up to expiry |
| WgSession_Keys | keypairs agree, stay in order, are confirmed; counters grow; repeats | 4 indexes: two complete handshakes, or one and two that cross; 3 clock values: a keypair is rekeyed and expires; 2 numbers of one keypair: reordering and repeats in the window. A packet beyond the window needs more; NeverTwice covers it |
| Datagrams_Rings | rings and pool keep what they took, in order; what waits is handed up | rings of 3 slots (2 usable), queues of 1, mailbox of 2, 4 datagrams: each fills up and wraps |
| Tailscale_Life | one handle at a time; an enabled component gets one again | 2 handles, limits of 2, 2, 4 and 2 units, a stop of 1; any number of switches, presses and changes |

Deadlock is checked except in StreamServer_Fanout, the NetSwitch runs and Tailscale_Life:
the stream server stops after `Shutdown` or when the bounds are used up, the switch when
it is stopped, the component when it has failed for good.

Fairness, each time as weak as the scheduling justifies:
- StreamServer: ESPHome keeps calling `loop()`.
- NetSwitch: the scheduler runs the task, the timer service and the WiFi driver; the application
  starts the switch.
- Cellular: the three tasks run; PPP on lwIP's thread ends what it is asked to, in 15 s or
  later. Nothing is assumed of a PPP without interface.
- AtSocket: the run has safety only and no fairness; `AtFairSpec` (the modem answers, a task
  gets the mutex in the end) serves `Delivered`.
- DerpLink: the scheduler runs the two tasks; nothing is assumed of the relay.
- Coord: the tasks run and time passes, and a server that is well sends within its interval.
  Nothing is assumed of the network.
- PeerTable: a server that has a stream up again sends its netmap, and the tasks run; restarts and
  losses happen or do not.
- Paths: both parts of the loop run in each unit, and an answer that can come again and
  again is in time at last, unless it is `Overtaken`: the retry over the relay and the connect
  that a pong brings have the same cadence of 30 s and run in the same pass, so that each
  initiation over the relay may be replaced, before its answer, by one over a path that carries no
  handshakes. So may it be by an application that asks on and on while there is an address; when the
  applications are `Quiet`, by pongs only. `Reachable` therefore promises a session where
  answers are not overtaken, and everywhere that the relay is tried; what it does not
  promise is `RetrySucceeds`, which fails.
- Datagrams: the thread and the tasks run; the application owes nothing.
- Tailscale: `loop()` runs (strongly: a round is far shorter than the time between two
  presses of a button), timers fire, the stop task and the coordinator finish. Nothing is assumed of the
  network or Home Assistant.

`Heals` is about losses that a task is told of, and says "up again and again", not "up for
good": the reader may read `connected`
in the middle of a teardown (ml_derp.c:379), take it for an error and ask for one more
reconnection, without end if the timing repeats. `ComesBack` assumes `Undisturbed`: no
other way takes the handle within the 300 ms of a deferred stop; if one does, the timer finds nothing to
do and `vpn_stopping_` stays set (tailscale.cpp:816-832).

## Findings

One run, NetSwitch_Reconnect, ends in a violation (ml_net_switch.c:417): after both
transports failed the task rests in a state nothing handles, although its comments say
"Retry after 30s".

The following were refuted by TLC in the same way. Each property stands in its module, as the
comment or document puts it, and can be run with the constants given; the other
constants as in the module's run.

| Property | Where it fails | What happens |
|---|---|---|
| DerpLink `LossNoticed` | ml_derp.c:389 | a relay that closes the connection is not noticed until a write fails: an end of file reads as "timeout (no data)", which is what the comment at 376 says of 0 |
| WgSession `CounterOnce` | wireguardif.c:368 | the counter is read before a packet is sealed and stored after it was sent; a keepalive of the manager task in between takes the same number. Comment at ml_wg_mgr.c:5: "Owns ALL peer state exclusively" |
| Paths `RetrySucceeds` | ml_wg_mgr.c:1250 | the pong to the ping sent right after a retry over the relay starts a handshake over the direct path in its place, for ever if that path carries pings only. Comment at 1771: "Now we retry every 30 s until wireguardif_peer_is_up() reports the session is up." |
| Paths `LeavesDeadPath` | ml_wg_mgr.c:1792 | a peer that has only its previous keypair counts as up (wireguardif.c:1091), so neither the retry nor the fall back turns it to the relay. Comment at 1742: "Fall back to DERP." |
| AtSocket `Complete` | ml_at_socket.c:526 | a read that is late or broken off loses the bytes the modem handed over. Comment at 433: "exactly <actual> bytes" |
| Cellular `ClosedFirst` | ml_cellular.c:960 | after 15 s the interface is destroyed under PPP. Comment at 936: "We MUST wait for that callback before destroying the netif" |
| Cellular `BridgeGone` | ml_at_socket.c:611 | a bridge whose AT+NETOPEN was refused keeps its mutex and is passed by by the stop. ml_cellular.h:137: "deinitializes the AT socket bridge" |
| StreamServer `SecondPartEndsAtHead` (SizeMod 8, MaxBytes 11) | stream_server.cpp:172 | `std::min` and `<` compare wrapped positions: the tail passes a client that is behind. The comment at 153 says the second part ends at the head |
| NetSwitch `StopHalts` (1 task, FailCount 1, MaxStops 1, MaxFlips 1) | ml_net_switch.c:614 | `stop()` waits 500 ms; a task in a blocking call goes on and brings a transport and a VPN up. ml_net_switch.h:100: "Stop all connections and halt the state machine." |
| DerpLink `TeardownSafe` | ml_derp.c:602 | the writer frees the TLS context after 200 ms whatever the reader does; a payload may keep it inside for 5 s. Comment at 690: "so the writer can tear it down safely" |
| DerpLink `OneWriter` | ml_derp.c:348 | the reader answers a PING while the writer writes. Comment at 345: "single-threaded, safe to write" |
| WgSession `DeliveredOnce` | wireguardif.c:612 | a data packet that opens a keypair is noted in the slot the keypair has just left, and can be delivered twice; `KeyUse` shows that no other packet can |
| Coord `AddressCurrent` | ml_coord.c:2504 | the address of a netmap is taken only while there is none, so one that changed between two streams is missed. Comment at ml_wg_mgr.c:2111: "keep the netif address in sync" |
| Tailscale `RebindSucceeded` | tailscale.cpp:313 | RECONNECT_REBIND takes the state shown since before for the rebind's success; it is never escalated. CHANGELOG.md:776: "three escalating phases" |
| AtSocket `InOrder` (MaxLate 2) | ml_at_socket.c:233 | as in the next row; with two late answers a close and an open are taken for done by the answers to older commands, and a new socket receives from the connection its link had before |
| AtSocket `Delivered` (AtFairSpec, Ring 1, MaxBytes 1) | ml_at_socket.c:233 | after one late answer each command is answered by the answer to the one before; data pending is taken for none. Comment at 226: "Send an AT command and wait for response." |
| Datagrams `CallbackRuns` (MaxIn 3) | ml_udp.c:136 | the wake-up of a datagram that came before the callback is used up; with the ring full nothing wakes the task again. microlink.h:440: "immediate packet handling" |

Seen while modelling, without a property:
- `SlotsInOrder` and `CurrentIsConfirmed` hold (and are proved), so the fallback to the
  previous keypair (wireguardif.c:318-320) is never taken; the rekey test after
  `keypair_update()` (line 601) reads the emptied slot, too, harmlessly, since that keypair is a responder's.
- `failback_check_ms = 0`, documented as a way to disable failback, selects the default.
- A client of the stream server whose socket fails with an errno other than ECONNRESET
  stays in the list, and the sensor stays on.
- In a full relay queue a WireGuard handshake goes to the back (ml_derp.c:502) although
  line 485 says front.
- A rekey whose initiation is lost is not retried until traffic or a timer asks again.
- The timestamp base after a boot without a clock can be behind an earlier boot with one
  (microlink.c:231-252).
- A failed start leaves the tasks and sockets made so far (microlink.c:438-475); the SHUTDOWN bit is
  never cleared (498), so a handle cannot be started twice; stop waits 3000 ms (535) for
  tasks whose calls may be longer.
- Coordinator: `noise_recv` forgets a frame it has begun when the rest is late; a frame longer
  than a read is dropped and its share of the window not returned (2885); the PING refreshes
  `last_activity_ms`, so the transport's watchdog seldom speaks (3422-3446);
  DISCONNECT during the backoff leaves the connection to the loop's exit; a server's key
  is cached for life (826).
- Manager: a full netmap never removes peers that are absent from it; one turned away for want of
  room is not tried again before the next; the cache is never pruned and its entries bypass the
  allowlist; `process_disco_pong` credits a pong by the peer's index alone.
- AT sockets: what `send` and a chunked read receive besides their answer is not looked
  at, so a close reported there is never seen; `,0` of a link's state also matches
  "+CIPRXGET: 1,0" (784); `socket()` searches and claims a slot without the mutex; a closed
  socket reports its end before the modem's pending data is read; the header (38, 48) speaks
  of a URC task that does not exist.
- Cellular: GOT_IP for another interface is ignored, LOST_IP is not; a set-up of PPP that
  fails half way keeps its event group and handler, since `ml_cellular_ppp_stop` returns at
  once without an interface (924); that handler sets a bit without looking whether there is an
  event group (510); a CONNECT later than the 15 s of ATD leaves the modem in a call until the
  next "+++".
- Rings: a `tcpip_callback` that fails leaks a slot of the pool for ever
  (ml_zerocopy.c:271); the DISCO ring's tail is published only after a whole drain;
  clearing a callback while it runs makes two consumers; one that runs longer than 150 ms at a
  close uses a freed socket.
- Tailscale: two presses of the switch overwrite the value to roll back to (786, 803); a
  reconnect's phase survives a disable; a component that failed to start stops its loop and with it
  the roll-back.

## Proofs

The constants are arbitrary, within the assumption each module states. Every invariant
a proof rests on was first checked by TLC.

- StreamServerProofs. `TypeCorrect` and `CleanedUpCorrect` hold across a wrap; the latter needs
  that a marked client has closed and no mark outlives its pass.
  The rest assumes `NoWrap` (fewer bytes than the word counts: beyond it
  SecondPartEndsAtHead fails). The inductive invariant `IInv` adds to the types that the ring
  holds the last BufSize bytes of the stream, and that the tail is not ahead of any
  client flush() has visited. Without the second, a read could overwrite what is pending
  (`PendingCorrect`); with both, each write hands out the stretch of the stream at the
  client's cursor (`FanoutCorrect`, the refinement, and `DropsCorrect`).
- NetSwitchProofs. `NothingForgotten` follows from what is on at each rest of the task
  (`InCall`) and from there being one task (`Alone`), which holds as long as each stop found
  it in its loop; a timer's request fits the transport in use, so a request that
  comes while the task is busy does no harm. `UpIsWatched` holds however the stops came.
- ModemProofs, Cellular. `IInv` says, for each place of the task, which of the interface, its
  handlers, PPP and the receive task exist and where a stop returns to (`Parts`, `Places`,
  `Returns`); and, as long as no close was `overdue`, that events are those of the interface that
  exists and "closed" is the last of them (`Closing`), when there is a bridge, what the state
  is, and that modem and UART agree (`Tidy`). The first needs no such condition: whatever a
  PPP without interface does is an event to a handler that is gone, or to one that was left, or
  a reset. From it: `ReleasedCorrect`, `StartsCorrect`, `CommandsCorrect`.
- ModemProofs, AtSocket. However late answers are, types hold (`AtTypeCorrect`): a read is asked for
  only after an answer was read (`Behind`), which is why the modem is never more than MaxLate
  commands behind. While no answer was late or cut, `InTime`
  holds. Its parts need each other: a command and its answer belong to the holder of the
  mutex, and data that come are no more than its ring takes (`Aligned`); a slot belongs
  to one task, a free slot's link is closed, only the holder's link is on its way up, and a
  close that is reported is real or the holder's own (`Apart`); and each task's link is what
  its place needs (`Sound`): closed before it is opened and after it is closed, with the bytes
  in ring, answer and modem the next ones of the connection while it serves. From it
  `InOrderCorrect` and `EofCorrect`, for any tasks, links, rings and streams. With one
  answer late or cut `InOrder` is TLC's: nothing comes out of order, and nothing is lost but what
  a read that was given up was for. With two it is wrong (Findings).
- PeersProofs, DerpLink. `ParkedIsOutsideCorrect`: the invariant relates where the reader may be
  to the writer's progress. It carries "once `connected` is false a reader outside the context
  cannot get past its second look". `StaleBitCorrect`: the CONNECTED bit and `connected` part only
  in steps that leave a repair pending. `OrderCorrect`: the queue is ascending in packets
  that are no handshakes, and above the last one written.
- PeersProofs, Paths. `Fresh` says how old the last pong may be before and after the manager has
  looked at it in a unit of time; from it a direct path is fresh (`DirectIsFreshCorrect`) for all limits.
- PeersProofs, PeerTable. `TableInv`: the entries of the table and the peers of the device are one
  to one (`DeviceOwned`), entries lie below `peer_count`, no key is twice in the table and
  no address twice in the cache.
  An addition finds a place in the device because an entry without a peer leaves one
  free, which is a count of the device's places. The pass over the cached peers at
  start-up is a recursive function; that it registers every entry is shown for a least
  index at which it would fail. From it: `DeviceFollowsTableCorrect`, `TableTypeCorrect`,
  and `PriorityServedCorrect`: an update puts the priority peer in and gives it a peer of the
  device, unless the allowlist excludes it or only its own earlier keys fill the table.
  `CacheIsRecentCorrect`, the refinement of RecentPeers, needs in addition that no two entries have one
  counter and none is ahead of the clock (`Clocked`), and assumes that the clock does not wrap.
- DatagramsProofs. `Intact` relates a ring, the place of a reader in it and the
  numbers put in and taken out; it serves the DISCO ring and a socket's ring
  (`DiscoCorrect`, `SocketCorrect`). The second needs `OneReader`: receive task and application
  never hold a datagram at once. The arithmetic of places in a ring of any size is in lemmas.
  `PoolCorrect`: what waits to be sent is in its slot, in order. `PoolAt` counts what was put
  in, sent and given back; a failed post makes the last lag behind for ever, which costs
  a slot and no datagram's place.
- WgSessionProofs. `IInv` says of each device that its slots are typed, that a current
  keypair is confirmed, that a next one has counted nothing, that previous, current and next are in
  order of age and none is younger than the clock; and of a send that has sealed
  and not yet counted, that it counts in the current slot and there is room for it.
  They need each other: only a confirmed current keypair ever sends, which is why the
  manager task cannot take the room away between `Send` and `SendDone` (all it can put
  there has counted nothing), and a keypair that starts now is the youngest. Each
  helper of the code is a lemma. From it: `TypeCorrect`, `ConfirmedCorrect`, `OrderCorrect`.
  The replay window: `Tracks` says what the window knows about the numbers given so far;
  `NeverTwice` that accepting keeps it and never accepts one of them, as long as the number
  is less than DiffMod (2^32) behind the newest.
  The keys: `KInv` follows the two numbers a session key is made of. The first is in an
  initiation that one device sent and that is answered once; the second was drawn for one
  response (`Numbers`). Hence a keypair that is started has a key under which nothing was
  sent or handed up on its device (`KeyIsNew`), and from then on its counter is ahead
  of what was sent, counting what the TCP/IP thread has sealed and not counted yet, and
  its window knows what was handed up, but for a packet noted in the wrong slot.
  While the TCP/IP thread has a packet sealed and not yet counted, what left under the same
  key and number is a keepalive (`PayloadOnce`; that nothing left under it is `CounterOnce`,
  which fails). From it: `KeyUseCorrect`, as long as no counter
  under a key reaches DiffMod (`NoWrap`).
  The code's own limit is far above 2^32, but a key lives 180 s, too short for an ESP32 to
  send that much. `OnlyNewerCorrect` needs no such bound: a waiting keypair is never newer
  than the last initiation answered (`Stamped`).
- CoordProofs. `IInv` says in which states the task may hold a connection: before it
  connects only after a stop, which the loop sees before it goes on, because nothing
  else puts "disconnect" into the queue. So `Open` finds none to replace
  (`NoneLostCorrect`). For the stream it says that a frame on its way has cost a credit
  and that the window is whole until the first netmap (`TypeCorrect`).
- TailscaleProofs. `SingleCorrect`: the handle whose tasks run is the component's, one
  that is stopping keeps the flag up whose age is that of the stop, and so, with
  `Cleanup < StopTimeout`, nothing is started beside it.

Only model-checked: all liveness (`ClosedIsRemoved`, `RightTransport`, `Concludes`, `Heals`,
`Converges`, `Stops`, `PeersServed`, `Reachable`, `HandedUp`, `ComesBack`), because what rests
on fairness or ENABLED is beyond the prover; and AtSocket's `InOrder` with an answer that
is late or cut. The prover cannot use the library's induction theorems, whose parameter is an
operator; an induction over a set, by its least counterexample, works and is used for
PeerTable. No module has a RECURSIVE operator.

## Plan

Done: the modules above. What would come next:
1. A fair network for WgSession: two handshakes that cross end in one session.
2. Tai64: the timestamp base over restarts with and without a clock.
3. The five tasks of a handle together, against init, a start that fails half way, stop
   and destroy.

## Not modelled

- Ciphers, hashes and curve arithmetic: taken as perfect.
- Encodings (HTTP/2, HPACK, JSON, DISCO, STUN): what a message does is modelled, not how it is written.
- STUN and netcheck: measurement; Coord has the state that waits for them.
- The configuration server: HTML and HTTP formatting, reads and writes of settings.
- `microlink_init` with its error paths, and the getters: allocation in a straight line.
- `ml_tcp.c`: one call of lwIP each.
- Endpoints, subnet routes and exit nodes; clearing the cache; sensors and text of the
  ESPHome component.
- Examples, build files, and the copies under `src/vendor`.
