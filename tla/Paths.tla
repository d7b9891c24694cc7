------------------------------- MODULE Paths -------------------------------
(* How a peer is reached: by the relay or directly (ml_wg_mgr.c).  DISCO     *)
(* pings and pongs find a direct path, trust in it runs out, WireGuard sends *)
(* to the endpoint it holds, and handshakes are retried over the relay while *)
(* there is no session.  One peer; keys and numbers are WgSession's matter.  *)
(* Time passes in units of 30 s, within which the task's loop runs, and what *)
(* is in flight arrives or is lost.                                          *)
EXTENDS Naturals

CONSTANTS Trust,      \* units a direct pong is trusted: 60 s
          Rekey,      \* age at which a session is renewed, REKEY_AFTER_TIME
          Reject,     \* age at which it is destroyed, REJECT_AFTER_TIME
          MaxTries,   \* units until MAX_HANDSHAKE_ATTEMPTS are used
          MaxFlips,   \* bound: changes of the network
          MaxReadds   \* bound: netmaps that deliver the peer again

ASSUME PathsAssumption ==
  /\ Trust \in Nat \ {0} /\ Rekey \in Nat \ {0} /\ Reject \in Nat /\ Rekey < Reject
  /\ MaxTries \in Nat \ {0}

Never == Trust + Reject + 2      \* the age of what has not happened: beyond all limits

VARIABLES
  direct,      \* the direct path: "up", "disco" (only pings pass) or "down"
  relay,       \* derp.connected, and the peer's relay reaches it
  has_direct_path, heard,       \* heard: age of the last direct pong (trust_until_ms)
  best,        \* best_ip is set
  added,       \* 1 when peer_added_ms is more than 30 s ago
  derpTry,     \* age of last_derp_attempt_ms, Never for 0
  initTry,     \* age of last_init_handshake_ms, Never for 0
  connectIp,   \* connect_ip of the WireGuard peer is set
  ep,          \* the peer's ip and port: "derp" for none, or "direct"
  curr,        \* age of the current keypair, Never if there is none
  prev,        \* prev_keypair is valid
  active, tries,  \* peer->active, and units since handshake_attempts was 0
  lastRx,          \* age of last_rx
  pongs,       \* answers in flight to the ping that is pending
  answer,      \* path of the answer in flight to the last initiation, or "none"
  ran,         \* which parts of the task's loop ran in this unit
  flips, readds

env == <<direct, relay, flips>>
disco == <<has_direct_path, heard, best, pongs>>
mgr == <<added, derpTry, initTry, readds>>
wg == <<connectIp, ep, curr, prev, active, tries, answer>>
pathVars == <<env, disco, mgr, wg, lastRx, ran>>

PathInit ==
  /\ direct \in {"up", "disco", "down"} /\ relay = TRUE /\ flips = 0
  /\ has_direct_path = FALSE /\ heard = Never /\ best = FALSE /\ pongs = {}
  /\ added = 0 /\ derpTry = Never /\ initTry = Never /\ readds = 0
  /\ connectIp \in BOOLEAN /\ ep = IF connectIp THEN "direct" ELSE "derp"
  /\ curr = Never /\ prev = FALSE /\ active = FALSE /\ tries = 0 /\ answer = "none"
  /\ lastRx = Never /\ ran = {}

Up == curr # Never \/ prev                           \* wireguardif_peer_is_up
\* Mutant of Expired: trust is renewed by any pong, those over the relay included.
MutExpired == has_direct_path /\ heard > Trust /\ pongs = {}
Expired == has_direct_path /\ heard > Trust
DataFlowing == lastRx = 0                                \* heard from in this unit

-----------------------------------------------------------------------------
(* What the parts of a handler do.                                           *)

\* A packet to endpoint e: by the relay's callback or by UDP.
Carried(e) == IF e = "derp" THEN relay ELSE direct = "up"

\* wireguard_start_handshake to endpoint e: an answer comes back if the path
\* carries it; the answer to an earlier initiation no longer fits.
Initiate(e) == answer' = IF Carried(e) THEN e ELSE "none"

ConnectDerp == /\ ep' = "derp" /\ active' = TRUE /\ Initiate("derp")
ConnectDirect(on) == /\ ep' = "direct" /\ active' = on /\ Initiate("direct")

\* disco_send_ping_to_peer: over the best path and every known endpoint, and
\* over the relay unless a direct path is believed in.
Ping(believed) ==
  pongs' = (IF direct # "down" THEN {"direct"} ELSE {})
           \cup (IF relay /\ ~(believed /\ best) THEN {"derp"} ELSE {})

-----------------------------------------------------------------------------
(* The task's loop.                                                          *)

\* disco_periodic_probes, trust: when it has run out and no data came lately,
\* WireGuard is turned to the relay if it has a session.
FallsBackNow == Expired /\ ~DataFlowing /\ Up

\* The retry over the relay: no session, 30 s after the peer was added and
\* after the last retry.
\* Mutants of Retries: only while no direct path is believed in, as the code did
\* before; and once for each peer, as it did at first.
MutRetries == ~Up /\ ~has_direct_path /\ added > 0 /\ derpTry > 0
MutRetriesOnce == ~Up /\ added > 0 /\ derpTry = Never
Retries == ~Up /\ added > 0 /\ derpTry > 0

\* The whole of disco_periodic_probes for the peer: trust, the retry, then a
\* ping to find a path or to keep it.
Probe ==
  /\ "probe" \notin ran
  /\ ran' = ran \cup {"probe"}
  /\ has_direct_path' = (has_direct_path /\ ~Expired)
  /\ derpTry' = IF Retries THEN 0 ELSE derpTry
  /\ IF FallsBackNow \/ Retries THEN ConnectDerp ELSE UNCHANGED <<ep, active, answer>>
  /\ Ping(has_direct_path /\ ~Expired)
  /\ UNCHANGED <<env, heard, best, added, initTry, readds, connectIp, curr, prev, tries, lastRx>>

\* wireguardif_periodic: an old keypair goes; the keepalive that is due renews
\* the attempts if there is none to send it with; a session to renew, or none
\* while one is wanted, starts a handshake to the endpoint held.
Periodic ==
  LET gone == curr # Never /\ curr >= Reject
      have == curr # Never /\ ~gone
      anew == ~have /\ prev /\ (~active \/ tries >= MaxTries)
      left == IF anew THEN 0 ELSE tries
  IN  /\ "wg" \notin ran
      /\ ran' = ran \cup {"wg"}
      /\ curr' = IF gone THEN Never ELSE curr
      /\ active' = (active \/ anew)
      /\ tries' = left
      /\ IF (have /\ curr >= Rekey) \/ (~have /\ active' /\ left < MaxTries)
         THEN Initiate(ep) ELSE UNCHANGED answer
      /\ UNCHANGED <<env, disco, mgr, connectIp, ep, prev, lastRx>>

\* process_disco_pong over the relay: the probe is answered, nothing learned.
PongByRelay ==
  /\ "derp" \in pongs
  /\ pongs' = {}
  /\ UNCHANGED <<env, has_direct_path, heard, best, mgr, wg, lastRx, ran>>

\* process_disco_pong, direct: the path is believed in and WireGuard's connect
\* address set.  With a session over another endpoint WireGuard is connected
\* anew if no data came for 5 s; without one, every 30 s, and then its own
\* retries are switched off.
PongDirect ==
  /\ "direct" \in pongs /\ direct # "down"
  /\ pongs' = {}
  /\ has_direct_path' = TRUE /\ heard' = 0 /\ best' = TRUE /\ connectIp' = TRUE
  /\ LET due == ~Up /\ initTry > 0
     IN  /\ initTry' = IF due THEN 0 ELSE initTry
         /\ \/ /\ due \/ (Up /\ ep # "direct")
               /\ ConnectDirect(Up)
            \/ /\ ~due /\ (Up /\ ep # "direct" => DataFlowing)
               /\ UNCHANGED <<ep, active, answer>>
  /\ UNCHANGED <<env, added, derpTry, readds, curr, prev, tries, lastRx, ran>>

\* A CallMeMaybe from the peer: it is pinged at once.
CallMeMaybe ==
  /\ relay /\ pongs = {}
  /\ Ping(has_direct_path)
  /\ UNCHANGED <<env, has_direct_path, heard, best, mgr, wg, lastRx, ran>>

\* ml_wg_mgr_trigger_handshake: an application wants a session; by the relay
\* and, if a direct address is known, directly, which takes the first over.
Trigger ==
  /\ ~Up
  /\ connectIp' = (connectIp \/ best)
  /\ IF best THEN ConnectDirect(TRUE) ELSE ConnectDerp
  /\ UNCHANGED <<env, disco, mgr, curr, prev, tries, lastRx, ran>>

\* The handshake is answered: a session, and the endpoint the answer came from.
\* keypair_update keeps the last keypair as the previous one.
Answered ==
  /\ answer # "none"
  /\ Carried(answer)
  /\ answer' = "none" /\ curr' = 0 /\ prev' = (curr # Never) /\ tries' = 0 /\ lastRx' = 0
  /\ ep' = IF answer = "direct" THEN "direct" ELSE ep
  /\ UNCHANGED <<env, disco, mgr, connectIp, active, ran>>

\* Data from the peer, over the path of the peer's own choice.
Data(p) ==
  /\ curr # Never /\ curr < Reject
  /\ Carried(p)
  /\ lastRx' = 0 /\ ep' = IF p = "direct" THEN "direct" ELSE ep
  /\ UNCHANGED <<env, disco, mgr, connectIp, curr, prev, active, tries, answer, ran>>

\* add_peer for a peer that is there already.
Readd ==
  /\ readds < MaxReadds /\ readds' = readds + 1
  /\ has_direct_path' = FALSE /\ heard' = Never /\ best' = FALSE /\ added' = 0
  /\ Ping(FALSE)
  /\ UNCHANGED <<env, derpTry, initTry, wg, lastRx, ran>>

-----------------------------------------------------------------------------
(* The network and time.                                                     *)

Network ==
  /\ flips < MaxFlips /\ flips' = flips + 1
  /\ \/ direct' \in {"up", "disco", "down"} \ {direct} /\ UNCHANGED relay
     \/ relay' = ~relay /\ UNCHANGED direct
  /\ UNCHANGED <<disco, mgr, wg, lastRx, ran>>

\* Mutant of Older: a count does not stop at its limit.
MutOlder(a, bound) == a + 1
Older(a, bound) == IF a < bound THEN a + 1 ELSE a
Tick ==
  /\ ran = {"probe", "wg"} /\ ran' = {}
  /\ heard' = Older(heard, Trust + 2)
  /\ added' = 1 /\ derpTry' = Older(derpTry, 1) /\ initTry' = Older(initTry, 1)
  /\ lastRx' = Older(lastRx, 1)
  /\ curr' = Older(curr, Reject)
  /\ tries' = IF active /\ curr = Never THEN Older(tries, MaxTries) ELSE tries
  /\ answer' = "none" /\ pongs' = {}
  /\ UNCHANGED <<env, has_direct_path, best, readds, connectIp, ep, prev, active>>

PathNext == \/ Probe \/ Periodic \/ PongByRelay \/ PongDirect \/ CallMeMaybe \/ Trigger
        \/ Answered \/ (\E p \in {"derp", "direct"} : Data(p)) \/ Readd \/ Network \/ Tick

\* An initiation over the relay may be replaced, before its answer is there, by
\* one over a direct path that carries no handshakes: by a pong, which can follow
\* every retry (the same task sends the ping right after it, and both wait the
\* same 30 s), or by an application, while an address is known.
Overtaken == direct = "disco" \/ (direct = "down" /\ best)

\* The applications have what they want, or have given up.
Quiet == <>[][~Trigger]_pathVars

\* The loop runs and time passes. An answer that is not overtaken, and comes back
\* again and again, is in time at last: before the next initiation of WireGuard
\* or of an application, 5 s later.
PathFairness ==
  /\ WF_pathVars(Probe) /\ WF_pathVars(Periodic) /\ WF_pathVars(Tick)
  /\ SF_pathVars(Answered /\ ~Overtaken)
  /\ Quiet => SF_pathVars(Answered /\ direct # "disco")
PathSpec == PathInit /\ [][PathNext]_pathVars /\ PathFairness

-----------------------------------------------------------------------------
(* Properties.                                                               *)

Ages == 0 .. Reject \cup {Never}
PathTypeOK ==
  /\ direct \in {"up", "disco", "down"} /\ relay \in BOOLEAN
  /\ has_direct_path \in BOOLEAN /\ best \in BOOLEAN /\ connectIp \in BOOLEAN
  /\ prev \in BOOLEAN /\ active \in BOOLEAN
  /\ heard \in 0 .. (Trust + 2) \cup {Never} /\ added \in {0, 1}
  /\ derpTry \in {0, 1, Never} /\ initTry \in {0, 1, Never} /\ lastRx \in {0, 1, Never}
  /\ curr \in Ages /\ tries \in 0 .. MaxTries
  /\ ep \in {"derp", "direct"} /\ answer \in {"none", "derp", "direct"}
  /\ pongs \subseteq {"derp", "direct"} /\ ran \subseteq {"probe", "wg"}

\* The manager says a path is direct only while a direct pong is recent, give
\* or take the unit in which trust runs out, and WireGuard then knows an
\* address to connect to.
DirectIsFresh == has_direct_path => heard <= Trust + 1 /\ best /\ connectIp

\* A peer the relay reaches gets a session, unless its answers are overtaken:
\* for good only by pongs over a path that carries no handshakes, or by an
\* application that asks on and on while there is a direct address. (A session in
\* the sense of Up, which is the code's.)
Establishes ==
  /\ []((<>[](relay /\ ~Overtaken)) => <>Up)
  /\ Quiet => []((<>[](relay /\ direct # "disco")) => <>Up)

\* A peer without a session is never left to a path that carries no handshakes:
\* within the loop's next rounds it is tried over the relay, even while pongs
\* keep coming (the comments at ml_wg_mgr.c:1776 tell of peers wedged like that).
RetriedByRelay == (direct # "up" /\ ~Up) ~> (Up \/ ep = "derp" \/ direct = "up")

\* A peer that can be reached is reached in the end (disco_periodic_probes).
Reachable == Establishes /\ RetriedByRelay

\* "Now we retry every 30 s until wireguardif_peer_is_up() reports the session is
\* up" (ml_wg_mgr.c:1771): a peer the relay reaches gets its session so.
RetrySucceeds == []((<>[]relay) => <>Up)

\* What the comments promise of a dead path ("the direct path is really dead. Fall
\* back to DERP", ml_wg_mgr.c:1742): WireGuard stops sending there. But Up counts
\* a previous keypair, with which nothing is sent, for a session.
LeavesDeadPath == (<>[](direct = "down" /\ relay)) => <>[](ep = "derp")

=============================================================================
