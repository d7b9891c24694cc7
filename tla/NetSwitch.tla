------------------------------ MODULE NetSwitch ------------------------------
(***************************************************************************)
(* The WiFi/cellular fail-over of microlink (ml_net_switch.c): one task    *)
(* that brings a transport and the VPN over it up, two timers that ask it  *)
(* to switch by writing s_ctx.state, and the application, which starts and *)
(* stops it from a task of its own. All share s_ctx without a lock.        *)
(*                                                                         *)
(* The task's blocking calls (wifi_start, cellular_start, vpn_start, the   *)
(* 30 s delay, the wait in state_loop) are the points where it rests; what *)
(* it does between two of them is one action.                              *)
(***************************************************************************)
EXTENDS Integers, FiniteSets

CONSTANTS Tasks,          \* tasks start() may create
          NoTask,         \* a NULL task handle
          FailCount,      \* config->health_fail_count
          FailbackMs,     \* config->failback_check_ms
          MaxStops,       \* bound: calls of stop()
          MaxFlips,       \* bound: changes of the networks, failed allocations
          MaxLive         \* bound: VPN instances that exist

ASSUME ConstAssumption ==
  /\ NoTask \notin Tasks
  /\ FailCount \in Nat \ {0} /\ FailbackMs \in Nat
  /\ MaxStops \in Nat /\ MaxFlips \in Nat /\ MaxLive \in Nat \ {0}

VARIABLES
  running, state, active,    \* s_ctx
  ml,                        \* s_ctx.ml is not NULL
  fails,                     \* s_ctx.health_fail_counter
  handle,                    \* s_ctx.task_handle
  health, failback,          \* the timers are running
  pc, path,                  \* where each task rests, and on which path
  stopping, stops,           \* how far a stop() is; calls so far
  sta, modem,                \* the WiFi station; the modem is in data mode
  wifiNet, cellNet, flips,   \* what the networks offer
  live,                      \* microlink instances that exist
  told,                      \* last on_connected / on_disconnected callback
  settled                    \* every stop() found its task in state_loop

ctxVars  == <<running, state, active, ml, fails, handle>>
taskVars == <<pc, path>>
apiVars  == <<stopping, stops, settled>>
netVars  == <<wifiNet, cellNet, flips>>
vars == <<running, state, active, ml, fails, handle, health, failback, pc, path,
          stopping, stops, sta, modem, wifiNet, cellNet, flips, live, told,
          settled>>

States == {"IDLE", "WIFI_CONNECTING", "WIFI_VPN_UP", "SWITCHING_TO_CELL",
           "CELL_CONNECTING", "CELL_VPN_UP", "SWITCHING_TO_WIFI", "ERROR"}
Rests  == {"unborn", "begin", "wifi", "cell", "vpn", "delay", "loop", "gone"}

\* ml_net_switch_init(): 0 asks for the default.
EffectiveFailback == IF FailbackMs = 0 THEN 120000 ELSE FailbackMs
MutFailbackEnabled == FALSE
FailbackEnabled == EffectiveFailback > 0

\* microlink_is_connected(): there is a VPN and its transport carries it.
Connected ==
  /\ ml
  /\ IF active = "wifi" THEN sta = "up" /\ wifiNet = "net" ELSE modem /\ cellNet

Init ==
  /\ running = FALSE /\ state = "IDLE" /\ active = "wifi" /\ ml = FALSE
  /\ fails = 0 /\ handle = NoTask
  /\ health = FALSE /\ failback = FALSE
  /\ pc = [t \in Tasks |-> "unborn"] /\ path = [t \in Tasks |-> "first"]
  /\ stopping = "no" /\ stops = 0
  /\ sta = "off" /\ modem = FALSE
  /\ wifiNet \in {"gone", "ap", "net"} /\ cellNet \in BOOLEAN /\ flips = 0
  /\ live = 0 /\ told = "nothing" /\ settled = TRUE

-----------------------------------------------------------------------------
(* Steps the task's code is made of.                                       *)

Rest(t, at, on) == pc' = [pc EXCEPT ![t] = at] /\ path' = [path EXCEPT ![t] = on]

\* vpn_start() up to its wait, when `left` instances exist: microlink_init()
\* may run out of memory, and s_ctx.ml is NULL then.
VpnCreate(left) ==
  /\ UNCHANGED <<wifiNet, cellNet>>
  /\ \/ left < MaxLive /\ ml' = TRUE /\ live' = left + 1 /\ UNCHANGED flips
     \/ flips < MaxFlips /\ ml' = FALSE /\ live' = left /\ flips' = flips + 1

\* vpn_stop(), and the end of a vpn_start() that timed out.
MutRemaining == live
Remaining == IF ml THEN live - 1 ELSE live
VpnDestroy == ml' = FALSE /\ live' = Remaining

\* From wifi_stop() on to try_cellular and into cellular_start().
MutTryCellular(t) ==
  /\ UNCHANGED sta
  /\ state' = "CELL_CONNECTING" /\ active' = "cellular"
  /\ Rest(t, "cell", "cell")
TryCellular(t) ==
  /\ sta' = "off"
  /\ state' = "CELL_CONNECTING" /\ active' = "cellular"
  /\ Rest(t, "cell", "cell")

BothFailed(t) ==
  /\ state' = "ERROR" /\ told' = "disconnected"
  /\ Rest(t, "delay", "first")

\* The timers that a working connection over `on` needs.
MutStartTimers(on) ==
  /\ health' = TRUE
  /\ UNCHANGED failback
StartTimers(on) ==
  /\ health' = TRUE
  /\ failback' = (failback \/ (on = "cellular" /\ FailbackEnabled))

-----------------------------------------------------------------------------
(* net_switch_task()                                                       *)

Begin(t) ==
  /\ pc[t] = "begin"
  /\ state' = "WIFI_CONNECTING" /\ active' = "wifi"
  /\ sta' = "trying"
  /\ Rest(t, "wifi", "first")
  /\ UNCHANGED <<running, ml, fails, handle, health, failback, apiVars, modem,
                 netVars, live, told>>

\* wifi_start() returned ESP_OK.
WifiUp(t) ==
  /\ pc[t] = "wifi" /\ sta = "up"
  /\ \/ /\ path[t] = "first"
        /\ VpnCreate(live)
        /\ UNCHANGED <<active, modem>>
     \/ /\ path[t] = "failback"
        /\ VpnCreate(Remaining)
        /\ modem' = FALSE /\ active' = "wifi"
  /\ Rest(t, "vpn", path[t])
  /\ UNCHANGED <<running, state, fails, handle, health, failback, apiVars, sta,
                 told>>

\* It timed out, or the retries of the station were used up.
WifiDown(t) ==
  /\ pc[t] = "wifi"
  /\ sta = "failed" \/ (sta = "trying" /\ wifiNet = "gone")
  /\ \/ /\ path[t] = "first"
        /\ TryCellular(t)
        /\ UNCHANGED <<health, failback>>
     \/ /\ path[t] = "failback"
        /\ sta' = "off"
        /\ state' = "CELL_VPN_UP" /\ UNCHANGED active
        /\ StartTimers("cellular")
        /\ Rest(t, "loop", "cell")
  /\ UNCHANGED <<running, ml, fails, handle, apiVars, modem, netVars, live, told>>

CellUp(t) ==
  /\ pc[t] = "cell" /\ cellNet
  /\ modem' = TRUE
  /\ VpnCreate(live)
  /\ Rest(t, "vpn", "cell")
  /\ UNCHANGED <<running, state, active, fails, handle, health, failback, apiVars,
                 sta, told>>

CellDown(t) ==
  /\ pc[t] = "cell" /\ ~cellNet
  /\ modem' = FALSE
  /\ BothFailed(t)
  /\ UNCHANGED <<running, active, ml, fails, handle, health, failback, apiVars,
                 sta, netVars, live>>

\* vpn_start() returned ESP_OK.
VpnUp(t) ==
  /\ pc[t] = "vpn" /\ Connected
  /\ LET on == IF path[t] = "cell" THEN "cellular" ELSE "wifi"
     IN /\ state' = IF on = "cellular" THEN "CELL_VPN_UP" ELSE "WIFI_VPN_UP"
        /\ told' = on
        /\ StartTimers(on)
  /\ Rest(t, "loop", path[t])
  /\ UNCHANGED <<running, active, ml, fails, handle, apiVars, sta, modem, netVars,
                 live>>

\* vpn_start() failed; when it timed out, it stopped and destroyed the instance.
VpnDown(t) ==
  /\ pc[t] = "vpn" /\ ~Connected
  /\ VpnDestroy
  /\ \/ path[t] # "cell" /\ TryCellular(t) /\ UNCHANGED told
     \/ path[t] = "cell" /\ BothFailed(t) /\ UNCHANGED <<sta, active>>
  /\ UNCHANGED <<running, fails, handle, health, failback, apiVars, modem, netVars>>

\* 30 s after both transports failed.
RetryDelay(t) ==
  /\ pc[t] = "delay"
  /\ IF running
       THEN modem' = FALSE /\ state' = "WIFI_CONNECTING" /\ active' = "wifi"
       ELSE UNCHANGED <<modem, state, active>>
  /\ Rest(t, "loop", "first")
  /\ UNCHANGED <<running, ml, fails, handle, health, failback, apiVars, sta,
                 netVars, live, told>>

\* state_loop, which the timers wake and which also looks every 5 s.
SwitchToCell(t) ==
  /\ pc[t] = "loop" /\ running /\ state = "SWITCHING_TO_CELL"
  /\ health' = FALSE
  /\ told' = "disconnected"
  /\ VpnDestroy
  /\ TryCellular(t)
  /\ UNCHANGED <<running, fails, handle, failback, apiVars, modem, netVars>>

TryFailback(t) ==
  /\ pc[t] = "loop" /\ running /\ state = "SWITCHING_TO_WIFI"
  /\ health' = FALSE /\ failback' = FALSE
  /\ state' = "WIFI_CONNECTING"
  /\ sta' = "trying"
  /\ Rest(t, "wifi", "failback")
  /\ UNCHANGED <<running, active, ml, fails, handle, apiVars, modem, netVars, live,
                 told>>

TaskExit(t) ==
  /\ pc[t] = "loop" /\ ~running
  /\ handle' = NoTask
  /\ Rest(t, "gone", path[t])
  /\ UNCHANGED <<running, state, active, ml, fails, health, failback, apiVars, sta,
                 modem, netVars, live, told>>

Task(t) ==
  \/ Begin(t) \/ WifiUp(t) \/ WifiDown(t) \/ CellUp(t) \/ CellDown(t)
  \/ VpnUp(t) \/ VpnDown(t) \/ RetryDelay(t)
  \/ SwitchToCell(t) \/ TryFailback(t) \/ TaskExit(t)

-----------------------------------------------------------------------------
(* The timers.                                                             *)

MutThreshold == fails >= FailCount
Threshold == fails + 1 >= FailCount

MutSwitchTarget == "SWITCHING_TO_WIFI"
SwitchTarget == IF active = "wifi" THEN "SWITCHING_TO_CELL" ELSE "SWITCHING_TO_WIFI"

HealthCheck ==
  /\ health /\ running /\ ml
  /\ IF Connected
       THEN fails' = 0 /\ UNCHANGED state
       ELSE /\ fails' = IF Threshold THEN 0 ELSE fails + 1
            /\ state' = IF Threshold THEN SwitchTarget ELSE state
  /\ UNCHANGED <<running, active, ml, handle, health, failback, taskVars, apiVars,
                 sta, modem, netVars, live, told>>

FailbackCheck ==
  /\ failback /\ running /\ active = "cellular"
  /\ state' = "SWITCHING_TO_WIFI"
  /\ UNCHANGED <<running, active, ml, fails, handle, health, failback, taskVars,
                 apiVars, sta, modem, netVars, live, told>>

-----------------------------------------------------------------------------
(* ml_net_switch_start() and ml_net_switch_stop(), called one at a time.   *)

Start(t) ==
  /\ ~running /\ stopping = "no"
  /\ pc[t] = "unborn"
  /\ running' = TRUE
  /\ handle' = t
  /\ Rest(t, "begin", "first")
  /\ UNCHANGED <<state, active, ml, fails, health, failback, apiVars, sta, modem,
                 netVars, live, told>>

StopBegin ==
  /\ running /\ stopping = "no" /\ stops < MaxStops
  /\ running' = FALSE
  /\ health' = FALSE /\ failback' = FALSE
  /\ stopping' = IF handle = NoTask THEN "go" ELSE "wait"
  /\ stops' = stops + 1
  /\ settled' = (settled /\ \A t \in Tasks : pc[t] \in {"unborn", "loop", "gone"})
  /\ UNCHANGED <<state, active, ml, fails, handle, taskVars, sta, modem, netVars,
                 live, told>>

\* 500 ms later, if there is a task to wait for: one in state_loop has left by
\* then, one in a blocking call has not.
GaveTime ==
  \/ stopping = "go"
  \/ stopping = "wait" /\ \A t \in Tasks : pc[t] \notin {"begin", "loop"}

\* The transport stop() takes down is the one the VPN runs over.
MutTransportStop == sta' = "off" /\ UNCHANGED modem
TransportStop ==
  IF active = "wifi" THEN sta' = "off" /\ UNCHANGED modem
                     ELSE modem' = FALSE /\ UNCHANGED sta

StopEnd ==
  /\ GaveTime
  /\ VpnDestroy
  /\ TransportStop
  /\ state' = "IDLE"
  /\ stopping' = "no"
  /\ UNCHANGED <<running, active, fails, handle, health, failback, taskVars, stops,
                 settled, netVars, told>>

-----------------------------------------------------------------------------
(* The WiFi driver with its event handler, and the networks.               *)

StationUp ==
  /\ sta = "trying" /\ wifiNet # "gone"
  /\ sta' = "up"
  /\ UNCHANGED <<ctxVars, health, failback, taskVars, apiVars, modem, netVars, live,
                 told>>

\* The handler reconnects, and gives up when five retries have failed.
StationDown ==
  /\ sta \in {"up", "trying"} /\ wifiNet = "gone"
  /\ sta' = IF sta = "up" THEN "trying" ELSE "failed"
  /\ UNCHANGED <<ctxVars, health, failback, taskVars, apiVars, modem, netVars, live,
                 told>>

NetworkChange ==
  /\ flips < MaxFlips
  /\ flips' = flips + 1
  /\ \/ wifiNet' \in {"gone", "ap", "net"} \ {wifiNet} /\ UNCHANGED cellNet
     \/ cellNet' = ~cellNet /\ UNCHANGED wifiNet
  /\ UNCHANGED <<ctxVars, health, failback, taskVars, apiVars, sta, modem, live,
                 told>>

-----------------------------------------------------------------------------

Next ==
  \/ \E t \in Tasks : Start(t) \/ Task(t)
  \/ StopBegin \/ StopEnd
  \/ HealthCheck \/ FailbackCheck
  \/ StationUp \/ StationDown
  \/ NetworkChange

Spec == Init /\ [][Next]_vars

\* The scheduler runs the task, the timer service and the WiFi driver; the
\* application starts the switch, and nothing makes the networks change.
Fairness ==
  /\ \A t \in Tasks : WF_vars(Task(t)) /\ WF_vars(Start(t))
  /\ WF_vars(HealthCheck) /\ WF_vars(FailbackCheck)
  /\ WF_vars(StationUp) /\ WF_vars(StationDown)

FairSpec == Spec /\ Fairness

-----------------------------------------------------------------------------
(* Properties.                                                             *)

TypeOK ==
  /\ running \in BOOLEAN /\ state \in States /\ active \in {"wifi", "cellular"}
  /\ ml \in BOOLEAN /\ fails \in 0..(FailCount - 1)
  /\ handle \in Tasks \cup {NoTask}
  /\ health \in BOOLEAN /\ failback \in BOOLEAN
  /\ pc \in [Tasks -> Rests] /\ path \in [Tasks -> {"first", "failback", "cell"}]
  /\ stopping \in {"no", "wait", "go"} /\ stops \in 0..MaxStops /\ settled \in BOOLEAN
  /\ sta \in {"off", "trying", "up", "failed"} /\ modem \in BOOLEAN
  /\ wifiNet \in {"gone", "ap", "net"} /\ cellNet \in BOOLEAN
  /\ flips \in 0..MaxFlips
  /\ live \in 0..MaxLive
  /\ told \in {"nothing", "disconnected", "wifi", "cellular"}

\* s_ctx.ml is the only VPN there is: every path that starts one has destroyed
\* the one before (a second would keep its tasks, sockets and keys for ever), as
\* long as every stop found the task in its loop.
OneVpn == settled => live = IF ml THEN 1 ELSE 0

\* A state that reports a VPN over one transport is reported while that
\* transport is on and the other is off, and the application was told so, as
\* long as every stop found the task in its loop.
UpMeansUp ==
  settled =>
  /\ state = "WIFI_VPN_UP" =>
       ml /\ active = "wifi" /\ sta # "off" /\ ~modem /\ told = "wifi"
  /\ state = "CELL_VPN_UP" =>
       ml /\ active = "cellular" /\ modem /\ sta = "off" /\ told = "cellular"

\* A connection is watched: the health timer runs, and on cellular the timer
\* that looks for WiFi too, also after a failback that failed.
UpIsWatched ==
  running =>
    /\ state \in {"WIFI_VPN_UP", "CELL_VPN_UP"} => health
    /\ state = "CELL_VPN_UP" => failback

\* Once the networks have settled with WiFi gone and the cellular one there, the
\* VPN ends up on cellular and stays, unless both had failed before.
FailsOver ==
  (<>[](wifiNet = "gone" /\ cellNet) /\ [](state # "ERROR" /\ stops = 0))
    => <>[](active = "cellular" /\ Connected)

\* Once both networks have settled, the VPN ends up on WiFi, unless both had
\* failed before.
FailsBack ==
  (<>[](wifiNet = "net" /\ cellNet) /\ [](state # "ERROR" /\ stops = 0))
    => <>[](active = "wifi" /\ Connected)

\* Where the VPN ends when the networks have settled (health_timer_cb,
\* failback_timer_cb, net_switch_task).
RightTransport == FailsOver /\ FailsBack

\* stop() of a switch whose task rests in its loop leaves nothing on, also when
\* the switch is started and stopped again.
AllDown == live = 0 /\ sta = "off" /\ ~modem
StoppedWhenSettled == (settled /\ ~running /\ stopping = "no") => AllDown

\* No VPN, no transport and no timer is forgotten on the way between the two
\* networks, nor at a stop.
NothingForgotten == OneVpn /\ UpMeansUp /\ UpIsWatched /\ StoppedWhenSettled

\* "Stop all connections and halt the state machine" (ml_net_switch.h).
StopHalts == (~running /\ stopping = "no") => AllDown

\* After both transports failed: "Retry after 30s", "state_loop which will
\* handle reconnection" (ml_net_switch.c). With both networks back for good, the
\* VPN comes back.
Reconnects ==
  <>[](wifiNet = "net" /\ cellNet /\ running) => <>[]Connected

=============================================================================
