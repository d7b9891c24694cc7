--------------------------- MODULE NetSwitchProofs ---------------------------
(***************************************************************************)
(* Proofs about NetSwitch for any number of tasks, any thresholds and any  *)
(* bounds: its types, and that no VPN, no transport and no timer is        *)
(* forgotten.                                                              *)
(*                                                                         *)
(* NothingForgotten is not inductive: what a step of the task may find     *)
(* follows from where the task rests, so the invariant says for each of    *)
(* its resting points which of the VPN, the station and the modem are on   *)
(* (Fits), and that while every stop found the task in its loop there is   *)
(* one task at a time, the one s_ctx.task_handle names (Alone).            *)
(***************************************************************************)
EXTENDS NetSwitch, TLAPS

Busy(t) == pc[t] \in {"begin", "wifi", "cell", "vpn", "delay", "loop"}

\* There is one task at a time.
Alone ==
  /\ \A t \in Tasks : Busy(t) <=> handle = t
  /\ running => handle # NoTask
  /\ (~running /\ stopping = "no") => handle = NoTask
  /\ stopping # "no" => (handle = NoTask \/ pc[handle] = "loop")
  /\ stopping = "go" => handle = NoTask

NotUp == state \notin {"WIFI_VPN_UP", "CELL_VPN_UP"}

Off == NotUp /\ ~ml /\ sta = "off" /\ ~modem

\* What holds while the task rests in state_loop.
WifiRest ==
  /\ active = "wifi" /\ ~modem
  /\ \/ state \in {"WIFI_VPN_UP", "SWITCHING_TO_CELL"} /\ ml /\ sta # "off" /\ told = "wifi"
     \/ state = "WIFI_CONNECTING" /\ ~ml
CellRest ==
  /\ active = "cellular" /\ modem /\ sta = "off" /\ ml /\ told = "cellular"
  /\ state \in {"CELL_VPN_UP", "SWITCHING_TO_WIFI"}
Resting == WifiRest \/ CellRest

\* What holds while it rests in one of its calls.
InCall(t) ==
  /\ (Busy(t) /\ pc[t] # "loop") => NotUp
  /\ pc[t] = "begin" => Off
  /\ (pc[t] = "wifi" /\ path[t] = "first") => ~ml /\ ~modem /\ active = "wifi"
  /\ (pc[t] = "wifi" /\ path[t] = "failback") =>
       ml /\ modem /\ active = "cellular" /\ told = "cellular"
  /\ pc[t] = "cell" => ~ml /\ sta = "off" /\ active = "cellular"
  /\ (pc[t] = "vpn" /\ path[t] = "cell") =>
       sta = "off" /\ modem /\ active = "cellular"
  /\ (pc[t] = "vpn" /\ path[t] # "cell") => ~modem /\ active = "wifi"
  /\ pc[t] = "delay" => ~ml /\ sta = "off"
  /\ pc[t] = "loop" => Resting

Fits ==
  /\ live = IF ml THEN 1 ELSE 0
  /\ \A t \in Tasks : Busy(t) => InCall(t)
  /\ (handle = NoTask /\ stopping = "no") => Off
  /\ (handle = NoTask /\ stopping # "no") => Resting

\* Without any condition on the stops.
Watched ==
  /\ ~NotUp => health
  /\ state = "CELL_VPN_UP" => failback
Always ==
  /\ ml => live > 0
  /\ stopping # "no" => ~running
  /\ stopping = "no" => Watched

IInv == TypeOK /\ Always /\ (settled => Alone /\ Fits)

\* A failback check is asked for whatever the configuration says: 0 stands for
\* the default (ml_net_switch_init).
LEMMA FailbackOn == FailbackEnabled
  BY ConstAssumption DEF FailbackEnabled, EffectiveFailback

-----------------------------------------------------------------------------
(* Types.                                                                  *)

LEMMA CreateTypes ==
  ASSUME TypeOK, NEW left \in 0..MaxLive, VpnCreate(left)
  PROVE  /\ ml' \in BOOLEAN /\ live' \in 0..MaxLive /\ flips' \in 0..MaxFlips
         /\ ml' => live' > 0
         /\ left = 0 => live' = IF ml' THEN 1 ELSE 0
         /\ wifiNet' = wifiNet /\ cellNet' = cellNet
  <1>1. CASE left < MaxLive /\ ml' = TRUE /\ live' = left + 1 /\ UNCHANGED flips
    BY <1>1, ConstAssumption DEF TypeOK, VpnCreate
  <1>2. CASE flips < MaxFlips /\ ml' = FALSE /\ live' = left /\ flips' = flips + 1
    <2>1. ml' \in BOOLEAN /\ ~ml' BY Zenon, <1>2
    <2> QED BY <1>2, <2>1, ConstAssumption DEF TypeOK, VpnCreate
  <1> QED BY <1>1, <1>2 DEF VpnCreate

LEMMA RemainingTypes ==
  ASSUME TypeOK, Always
  PROVE  Remaining \in 0..MaxLive
  BY ConstAssumption DEF TypeOK, Always, Remaining

\* Every step keeps the types.
LEMMA TypeKeeps ==
  ASSUME IInv, [Next]_vars
  PROVE  TypeOK'
  <1> USE DEF IInv, ctxVars, taskVars, apiVars, netVars, Rests, States
  <1>1. ASSUME NEW t \in Tasks, Start(t) PROVE TypeOK'
    BY <1>1 DEF TypeOK, Start, Rest
  <1>2. ASSUME NEW t \in Tasks, Begin(t) PROVE TypeOK'
    BY <1>2 DEF TypeOK, Begin, Rest
  <1>3. ASSUME NEW t \in Tasks, WifiUp(t) PROVE TypeOK'
    <2>1. live \in 0..MaxLive /\ Remaining \in 0..MaxLive BY RemainingTypes DEF TypeOK
    <2>2. /\ ml' \in BOOLEAN /\ live' \in 0..MaxLive /\ flips' \in 0..MaxFlips
          /\ wifiNet' = wifiNet /\ cellNet' = cellNet
      BY <1>3, <2>1, CreateTypes DEF WifiUp
    <2>3. modem' \in BOOLEAN BY Zenon, <1>3 DEF WifiUp, TypeOK
    <2> QED BY <1>3, <2>2, <2>3 DEF TypeOK, WifiUp, Rest
  <1>4. ASSUME NEW t \in Tasks, WifiDown(t) PROVE TypeOK'
    <2>1. health' \in BOOLEAN /\ failback' \in BOOLEAN
      BY Zenon, <1>4 DEF WifiDown, StartTimers, TypeOK
    <2> QED BY <1>4, <2>1 DEF TypeOK, WifiDown, TryCellular, StartTimers, Rest
  <1>5. ASSUME NEW t \in Tasks, CellUp(t) PROVE TypeOK'
    <2>1. live \in 0..MaxLive BY DEF TypeOK
    <2>2. /\ ml' \in BOOLEAN /\ live' \in 0..MaxLive /\ flips' \in 0..MaxFlips
          /\ wifiNet' = wifiNet /\ cellNet' = cellNet
      BY <1>5, <2>1, CreateTypes DEF CellUp
    <2> QED BY <1>5, <2>2 DEF TypeOK, CellUp, Rest
  <1>6. ASSUME NEW t \in Tasks, CellDown(t) PROVE TypeOK'
    <2>1. modem' \in BOOLEAN BY Zenon, <1>6 DEF CellDown
    <2> QED BY <1>6, <2>1 DEF TypeOK, CellDown, BothFailed, Rest
  <1>7. ASSUME NEW t \in Tasks, VpnUp(t) PROVE TypeOK'
    BY <1>7 DEF TypeOK, VpnUp, StartTimers, FailbackEnabled, Rest
  <1>8. ASSUME NEW t \in Tasks, VpnDown(t) PROVE TypeOK'
    <2>1. live' \in 0..MaxLive /\ ml' \in BOOLEAN
      BY <1>8, RemainingTypes DEF VpnDown, VpnDestroy
    <2> QED BY <1>8, <2>1 DEF TypeOK, VpnDown, TryCellular, BothFailed, Rest
  <1>9. ASSUME NEW t \in Tasks, RetryDelay(t) PROVE TypeOK'
    <2>1. modem' \in BOOLEAN BY Zenon, <1>9 DEF RetryDelay, TypeOK
    <2> QED BY <1>9, <2>1 DEF TypeOK, RetryDelay, Rest
  <1>10. ASSUME NEW t \in Tasks, SwitchToCell(t) PROVE TypeOK'
    <2>1. live' \in 0..MaxLive /\ ml' \in BOOLEAN
      BY <1>10, RemainingTypes DEF SwitchToCell, VpnDestroy
    <2> QED BY <1>10, <2>1 DEF TypeOK, SwitchToCell, TryCellular, Rest
  <1>11. ASSUME NEW t \in Tasks, TryFailback(t) PROVE TypeOK'
    <2>1. health' \in BOOLEAN /\ failback' \in BOOLEAN BY Zenon, <1>11 DEF TryFailback
    <2> QED BY <1>11, <2>1 DEF TypeOK, TryFailback, Rest
  <1>12. ASSUME NEW t \in Tasks, TaskExit(t) PROVE TypeOK'
    BY <1>12 DEF TypeOK, TaskExit, Rest
  <1>13. CASE StopBegin
    <2>1. running' \in BOOLEAN /\ health' \in BOOLEAN /\ failback' \in BOOLEAN
      BY Zenon, <1>13 DEF StopBegin
    <2>2. settled' \in BOOLEAN BY Zenon, <1>13 DEF StopBegin
    <2> QED BY <1>13, <2>1, <2>2, ConstAssumption DEF TypeOK, StopBegin
  <1>14. CASE StopEnd
    <2>1. live' \in 0..MaxLive /\ ml' \in BOOLEAN
      BY <1>14, RemainingTypes DEF StopEnd, VpnDestroy
    <2>2. modem' \in BOOLEAN BY Zenon, <1>14 DEF StopEnd, TransportStop, TypeOK
    <2> QED BY <1>14, <2>1, <2>2 DEF TypeOK, StopEnd, TransportStop
  <1>15. CASE HealthCheck
    <2>1. fails' \in 0..(FailCount - 1)
      BY <1>15, ConstAssumption DEF TypeOK, HealthCheck, Threshold
    <2> QED BY <1>15, <2>1 DEF TypeOK, HealthCheck, SwitchTarget
  <1>16. CASE FailbackCheck BY <1>16 DEF TypeOK, FailbackCheck
  <1>17. CASE StationUp BY <1>17 DEF TypeOK, StationUp
  <1>18. CASE StationDown BY <1>18 DEF TypeOK, StationDown
  <1>19. CASE NetworkChange
    <2>1. wifiNet' \in {"gone", "ap", "net"} BY <1>19 DEF TypeOK, NetworkChange
    <2>2. cellNet' \in BOOLEAN BY Zenon, <1>19 DEF TypeOK, NetworkChange
    <2> QED BY <1>19, <2>1, <2>2, ConstAssumption DEF TypeOK, NetworkChange
  <1>20. CASE UNCHANGED vars BY <1>20 DEF TypeOK, vars
  <1> QED
    BY <1>1, <1>2, <1>3, <1>4, <1>5, <1>6, <1>7, <1>8, <1>9, <1>10, <1>11, <1>12,
       <1>13, <1>14, <1>15, <1>16, <1>17, <1>18, <1>19, <1>20 DEF Next, Task

-----------------------------------------------------------------------------
(* What holds however the stops came.                                      *)

LEMMA AlwaysKeeps ==
  ASSUME IInv, [Next]_vars
  PROVE  Always'
  <1> USE DEF IInv, ctxVars, taskVars, apiVars, netVars
  <1>1. ASSUME NEW t \in Tasks, Start(t) PROVE Always'
    BY <1>1 DEF Always, Watched, NotUp, Start
  <1>2. ASSUME NEW t \in Tasks, Begin(t) PROVE Always'
    BY <1>2 DEF Always, Watched, NotUp, Begin
  <1>3. ASSUME NEW t \in Tasks, WifiUp(t) PROVE Always'
    <2>1. live \in 0..MaxLive /\ Remaining \in 0..MaxLive BY RemainingTypes DEF TypeOK
    <2>2. ml' => live' > 0 BY <1>3, <2>1, CreateTypes DEF WifiUp
    <2> QED BY <1>3, <2>2 DEF Always, Watched, NotUp, WifiUp
  <1>4. ASSUME NEW t \in Tasks, WifiDown(t) PROVE Always'
    BY <1>4, FailbackOn DEF Always, Watched, NotUp, WifiDown, TryCellular, StartTimers
  <1>5. ASSUME NEW t \in Tasks, CellUp(t) PROVE Always'
    <2>1. ml' => live' > 0 BY <1>5, CreateTypes DEF CellUp, TypeOK
    <2> QED BY <1>5, <2>1 DEF Always, Watched, NotUp, CellUp
  <1>6. ASSUME NEW t \in Tasks, CellDown(t) PROVE Always'
    BY <1>6 DEF Always, Watched, NotUp, CellDown, BothFailed
  <1>7. ASSUME NEW t \in Tasks, VpnUp(t) PROVE Always'
    BY <1>7, FailbackOn DEF Always, Watched, NotUp, VpnUp, StartTimers
  <1>8. ASSUME NEW t \in Tasks, VpnDown(t) PROVE Always'
    BY <1>8 DEF Always, Watched, NotUp, VpnDown, VpnDestroy, TryCellular, BothFailed
  <1>9. ASSUME NEW t \in Tasks, RetryDelay(t) PROVE Always'
    BY <1>9 DEF Always, Watched, NotUp, RetryDelay
  <1>10. ASSUME NEW t \in Tasks, SwitchToCell(t) PROVE Always'
    BY <1>10 DEF Always, Watched, NotUp, SwitchToCell, VpnDestroy, TryCellular
  <1>11. ASSUME NEW t \in Tasks, TryFailback(t) PROVE Always'
    BY <1>11 DEF Always, Watched, NotUp, TryFailback
  <1>12. ASSUME NEW t \in Tasks, TaskExit(t) PROVE Always'
    BY <1>12 DEF Always, Watched, NotUp, TaskExit
  <1>13. CASE StopBegin BY <1>13 DEF Always, Watched, NotUp, StopBegin
  <1>14. CASE StopEnd
    <2>1. ~running BY <1>14 DEF StopEnd, GaveTime, Always
    <2> QED BY <1>14, <2>1 DEF Always, Watched, NotUp, StopEnd, VpnDestroy
  <1>15. CASE HealthCheck
    BY <1>15 DEF Always, Watched, NotUp, HealthCheck, SwitchTarget
  <1>16. CASE FailbackCheck BY <1>16 DEF Always, Watched, NotUp, FailbackCheck
  <1>17. CASE StationUp BY <1>17 DEF Always, Watched, NotUp, StationUp
  <1>18. CASE StationDown BY <1>18 DEF Always, Watched, NotUp, StationDown
  <1>19. CASE NetworkChange BY <1>19 DEF Always, Watched, NotUp, NetworkChange
  <1>20. CASE UNCHANGED vars BY <1>20 DEF Always, Watched, NotUp, vars
  <1> QED
    BY <1>1, <1>2, <1>3, <1>4, <1>5, <1>6, <1>7, <1>8, <1>9, <1>10, <1>11, <1>12,
       <1>13, <1>14, <1>15, <1>16, <1>17, <1>18, <1>19, <1>20 DEF Next, Task
-----------------------------------------------------------------------------
(* What holds while every stop found the task in its loop.                 *)

\* The task that rests somewhere is the one of the handle, no other rests
\* anywhere, and only one that is in its loop may find a stop under way.
LEMMA Mine ==
  ASSUME IInv, settled, NEW t \in Tasks, Busy(t)
  PROVE  /\ handle = t /\ t # NoTask /\ InCall(t)
         /\ \A u \in Tasks \ {t} : ~Busy(u)
         /\ pc[t] # "loop" => running /\ stopping = "no"
  BY ConstAssumption DEF IInv, Alone, Fits, Always

\* A step of that task is right if it leaves the task where it fits.
LEMMA TaskStep ==
  ASSUME IInv, settled, NEW t \in Tasks, Busy(t), Busy(t)', InCall(t)',
         live' = IF ml' THEN 1 ELSE 0,
         NEW at, NEW on, Rest(t, at, on),
         UNCHANGED <<running, stopping, handle>>,
         pc[t] # "loop" \/ running
  PROVE  Alone' /\ Fits'
  <1>1. /\ handle = t /\ t # NoTask /\ \A u \in Tasks \ {t} : ~Busy(u)
        /\ running /\ stopping = "no"
    BY Mine DEF IInv, Always
  <1>2. \A u \in Tasks \ {t} : pc'[u] = pc[u]
    BY DEF Rest, IInv, TypeOK
  <1>3. \A u \in Tasks \ {t} : ~Busy(u)'
    BY <1>1, <1>2 DEF Busy
  <1>4. handle' = t /\ running' /\ stopping' = "no" BY <1>1
  <1>5. Alone' BY <1>1, <1>3, <1>4 DEF Alone
  <1>6. Fits' BY <1>1, <1>3, <1>4 DEF Fits
  <1> QED BY <1>5, <1>6

\* A step that leaves every task where it is, and the handle and the flags.
LEMMA OtherStep ==
  ASSUME IInv, settled, UNCHANGED <<running, stopping, handle, pc, path, ml, live>>,
         \A t \in Tasks : Busy(t) /\ handle = t => InCall(t)',
         handle = NoTask /\ stopping = "no" => Off',
         handle = NoTask /\ stopping # "no" => Resting'
  PROVE  Alone' /\ Fits'
  <1>1. \A t \in Tasks : Busy(t)' <=> Busy(t) BY DEF Busy
  <1>2. Alone' BY <1>1 DEF Alone, IInv
  <1>3. Fits' BY <1>1, Mine DEF Fits, IInv
  <1> QED BY <1>2, <1>3

LEMMA PcType ==
  ASSUME IInv, NEW t \in Tasks, NEW at, NEW on, Rest(t, at, on)
  PROVE  pc'[t] = at /\ path'[t] = on
  BY DEF IInv, TypeOK, Rest

LEMMA CallKeeps ==
  ASSUME IInv, settled, NEW t \in Tasks,
         Begin(t) \/ WifiUp(t) \/ WifiDown(t) \/ CellUp(t) \/ CellDown(t)
  PROVE  Alone' /\ Fits'
  <1>a. IInv OBVIOUS
  <1> USE DEF ctxVars, taskVars, apiVars, netVars
  <1>b. live = IF ml THEN 1 ELSE 0 BY DEF IInv, Fits
  <1>1. CASE Begin(t)
    <2>1. Busy(t) /\ pc[t] = "begin" BY <1>1 DEF Begin, Busy
    <2>2. Off BY <2>1, Mine DEF InCall
    <2>3. pc'[t] = "wifi" /\ path'[t] = "first" BY <1>1, PcType DEF Begin
    <2>4. Busy(t)' /\ InCall(t)'
      BY <1>1, <2>2, <2>3 DEF Begin, Busy, InCall, NotUp, Off
    <2>5. live' = IF ml' THEN 1 ELSE 0 BY <1>1, <1>b DEF Begin
    <2> QED BY <1>1, <2>1, <2>4, <2>5, TaskStep DEF Begin
  <1>2. CASE WifiUp(t)
    <2>1. Busy(t) /\ pc[t] = "wifi" /\ path[t] # "cell" BY <1>2 DEF WifiUp, Busy
    <2>2. InCall(t) BY <2>1, Mine
    <2>3. pc'[t] = "vpn" /\ path'[t] = path[t] BY <1>2, PcType DEF WifiUp
    <2>4. Busy(t)' /\ InCall(t)'
      BY <1>2, <2>1, <2>2, <2>3 DEF WifiUp, Busy, InCall, NotUp
    <2>5. live' = IF ml' THEN 1 ELSE 0
      <3>1. CASE path[t] = "first" /\ VpnCreate(live)
        <4>1. live = 0 BY <3>1, <2>1, <2>2, <1>b DEF InCall
        <4> QED BY <3>1, <4>1, CreateTypes DEF IInv, TypeOK
      <3>2. CASE path[t] = "failback" /\ VpnCreate(Remaining)
        <4>1. Remaining = 0 BY <3>2, <2>1, <2>2, <1>b DEF InCall, Remaining
        <4> QED BY <3>2, <4>1, RemainingTypes, CreateTypes DEF IInv
      <3> QED BY <1>2, <3>1, <3>2 DEF WifiUp
    <2> QED BY <1>2, <2>1, <2>4, <2>5, TaskStep DEF WifiUp
  <1>3. CASE WifiDown(t)
    <2>1. Busy(t) /\ pc[t] = "wifi" BY <1>3 DEF WifiDown, Busy
    <2>2. InCall(t) BY <2>1, Mine
    <2>3. live' = IF ml' THEN 1 ELSE 0 BY <1>3, <1>b DEF WifiDown
    <2>4. CASE path[t] = "first" /\ TryCellular(t)
      <3>1. pc'[t] = "cell" BY <2>4, PcType DEF TryCellular
      <3>2. Busy(t)' /\ InCall(t)'
        BY <1>3, <2>1, <2>2, <2>4, <3>1 DEF WifiDown, TryCellular, Busy, InCall, NotUp
      <3> QED BY <1>3, <2>1, <2>3, <2>4, <3>2, TaskStep DEF WifiDown, TryCellular
    <2>5. CASE /\ path[t] = "failback" /\ sta' = "off" /\ state' = "CELL_VPN_UP"
               /\ UNCHANGED active /\ Rest(t, "loop", "cell")
      <3>1. pc'[t] = "loop" BY <2>5, PcType
      <3>2. Busy(t)' /\ InCall(t)'
        BY <1>3, <2>1, <2>2, <2>5, <3>1 DEF WifiDown, Busy, InCall, Resting, CellRest
      <3> QED BY <1>3, <2>1, <2>3, <2>5, <3>2, TaskStep DEF WifiDown
    <2> QED BY <1>3, <2>4, <2>5 DEF WifiDown
  <1>4. CASE CellUp(t)
    <2>1. Busy(t) /\ pc[t] = "cell" BY <1>4 DEF CellUp, Busy
    <2>2. InCall(t) BY <2>1, Mine
    <2>3. pc'[t] = "vpn" /\ path'[t] = "cell" BY <1>4, PcType DEF CellUp
    <2>4. Busy(t)' /\ InCall(t)'
      BY <1>4, <2>1, <2>2, <2>3 DEF CellUp, Busy, InCall, NotUp
    <2>5. live = 0 BY <2>1, <2>2, <1>b DEF InCall
    <2>6. live' = IF ml' THEN 1 ELSE 0
      BY <1>4, <2>5, CreateTypes DEF CellUp, IInv, TypeOK
    <2> QED BY <1>4, <2>1, <2>4, <2>6, TaskStep DEF CellUp
  <1>5. CASE CellDown(t)
    <2>1. Busy(t) /\ pc[t] = "cell" BY <1>5 DEF CellDown, Busy
    <2>2. InCall(t) BY <2>1, Mine
    <2>3. pc'[t] = "delay" BY <1>5, PcType DEF CellDown, BothFailed
    <2>4. Busy(t)' /\ InCall(t)'
      BY <1>5, <2>1, <2>2, <2>3 DEF CellDown, BothFailed, Busy, InCall, NotUp
    <2>5. live' = IF ml' THEN 1 ELSE 0 BY <1>5, <1>b DEF CellDown
    <2> QED BY <1>5, <2>1, <2>4, <2>5, TaskStep DEF CellDown, BothFailed
  <1> QED BY <1>1, <1>2, <1>3, <1>4, <1>5

LEMMA LoopKeeps ==
  ASSUME IInv, settled, NEW t \in Tasks,
         VpnUp(t) \/ VpnDown(t) \/ RetryDelay(t) \/ SwitchToCell(t) \/ TryFailback(t)
  PROVE  Alone' /\ Fits'
  <1> USE DEF ctxVars, taskVars, apiVars, netVars
  <1>b. live = IF ml THEN 1 ELSE 0 BY DEF IInv, Fits
  <1>c. VpnDestroy => ~ml' /\ live' = 0
    <2> SUFFICES ASSUME VpnDestroy PROVE ~ml' /\ live' = 0 OBVIOUS
    <2>1. ~ml' BY DEF VpnDestroy
    <2>2. live' = 0 BY <1>b DEF VpnDestroy, Remaining
    <2> QED BY <2>1, <2>2
  <1>1. CASE VpnUp(t)
    <2>1. Busy(t) /\ pc[t] = "vpn" /\ Connected BY <1>1 DEF VpnUp, Busy
    <2>2. InCall(t) BY <2>1, Mine
    <2>3. pc'[t] = "loop" BY <1>1, PcType DEF VpnUp
    <2>6. Busy(t)' /\ InCall(t)'
      <3>1. Busy(t)' BY <2>3 DEF Busy
      <3>2. Resting'
        <4>1. CASE path[t] = "cell"
          BY <1>1, <2>1, <2>2, <4>1 DEF VpnUp, InCall, Resting, CellRest, Connected
        <4>2. CASE path[t] # "cell"
          BY <1>1, <2>1, <2>2, <4>2 DEF VpnUp, InCall, Resting, WifiRest, Connected
        <4> QED BY <4>1, <4>2
      <3> QED BY <2>3, <3>1, <3>2 DEF InCall
    <2>7. live' = IF ml' THEN 1 ELSE 0 BY <1>1, <1>b DEF VpnUp
    <2> QED BY <1>1, <2>1, <2>6, <2>7, TaskStep DEF VpnUp
  <1>2. CASE VpnDown(t)
    <2>1. Busy(t) /\ pc[t] = "vpn" BY <1>2 DEF VpnDown, Busy
    <2>2. InCall(t) BY <2>1, Mine
    <2>3. ~ml' /\ live' = 0 BY <1>2, <1>c DEF VpnDown
    <2>4. CASE path[t] # "cell" /\ TryCellular(t)
      <3>1. pc'[t] = "cell" BY <2>4, PcType DEF TryCellular
      <3>2. Busy(t)' /\ InCall(t)'
        BY <2>3, <2>4, <3>1 DEF TryCellular, Busy, InCall, NotUp
      <3> QED BY <1>2, <2>1, <2>3, <2>4, <3>2, TaskStep DEF VpnDown, TryCellular
    <2>5. CASE path[t] = "cell" /\ BothFailed(t) /\ UNCHANGED <<sta, active>>
      <3>1. pc'[t] = "delay" BY <2>5, PcType DEF BothFailed
      <3>2. Busy(t)' /\ InCall(t)'
        BY <2>1, <2>2, <2>3, <2>5, <3>1 DEF BothFailed, Busy, InCall, NotUp
      <3> QED BY <1>2, <2>1, <2>3, <2>5, <3>2, TaskStep DEF VpnDown, BothFailed
    <2> QED BY <1>2, <2>4, <2>5 DEF VpnDown
  <1>3. CASE RetryDelay(t)
    <2>1. Busy(t) /\ pc[t] = "delay" BY <1>3 DEF RetryDelay, Busy
    <2>2. InCall(t) /\ running BY <2>1, Mine
    <2>3. pc'[t] = "loop" BY <1>3, PcType DEF RetryDelay
    <2>4. /\ ~modem' /\ state' = "WIFI_CONNECTING" /\ active' = "wifi" /\ ~ml'
      BY Zenon, <1>3, <2>1, <2>2 DEF RetryDelay, InCall
    <2>5. Busy(t)' /\ InCall(t)'
      BY <2>3, <2>4 DEF Busy, InCall, Resting, WifiRest
    <2>6. live' = IF ml' THEN 1 ELSE 0 BY <1>3, <1>b DEF RetryDelay
    <2> QED BY <1>3, <2>1, <2>5, <2>6, TaskStep DEF RetryDelay
  <1>4. CASE SwitchToCell(t)
    <2>1. Busy(t) /\ pc[t] = "loop" BY <1>4 DEF SwitchToCell, Busy
    <2>3. ~ml' /\ live' = 0 BY <1>4, <1>c DEF SwitchToCell
    <2>4. pc'[t] = "cell" BY <1>4, PcType DEF SwitchToCell, TryCellular
    <2>5. Busy(t)' /\ InCall(t)'
      BY <1>4, <2>3, <2>4 DEF SwitchToCell, TryCellular, Busy, InCall, NotUp
    <2> QED BY <1>4, <2>1, <2>3, <2>5, TaskStep DEF SwitchToCell, TryCellular
  <1>5. CASE TryFailback(t)
    <2>1. Busy(t) /\ pc[t] = "loop" BY <1>5 DEF TryFailback, Busy
    <2>2. CellRest BY <1>5, <2>1, Mine DEF TryFailback, InCall, Resting, WifiRest
    <2>3. pc'[t] = "wifi" /\ path'[t] = "failback" BY <1>5, PcType DEF TryFailback
    <2>4. Busy(t)' /\ InCall(t)'
      BY <1>5, <2>2, <2>3 DEF TryFailback, CellRest, Busy, InCall, NotUp
    <2>5. live' = IF ml' THEN 1 ELSE 0 BY <1>5, <1>b DEF TryFailback
    <2> QED BY <1>5, <2>1, <2>4, <2>5, TaskStep DEF TryFailback
  <1> QED BY <1>1, <1>2, <1>3, <1>4, <1>5

\* The start and the end of a task.
LEMMA LifeKeeps ==
  ASSUME IInv, settled, NEW t \in Tasks, Start(t) \/ TaskExit(t)
  PROVE  Alone' /\ Fits'
  <1> USE DEF ctxVars, taskVars, apiVars, netVars
  <1>a. \A u \in Tasks \ {t} : pc'[u] = pc[u]
    BY DEF IInv, TypeOK, Rest, Start, TaskExit
  <1>c. live = IF ml THEN 1 ELSE 0 BY DEF IInv, Fits
  <1>d. live' = live /\ ml' = ml BY DEF Start, TaskExit
  <1>b. live' = IF ml' THEN 1 ELSE 0 BY <1>c, <1>d
  <1>1. CASE Start(t)
    <2>1. handle = NoTask /\ Off /\ stopping = "no" BY <1>1 DEF Start, IInv, Alone, Fits
    <2>2. pc'[t] = "begin" /\ handle' = t /\ running' /\ stopping' = "no"
      BY <1>1, PcType DEF Start
    <2>3. \A u \in Tasks : ~Busy(u) BY <2>1, ConstAssumption DEF IInv, Alone
    <2>4. \A u \in Tasks : Busy(u)' <=> u = t BY <1>a, <2>2, <2>3 DEF Busy
    <2>5. InCall(t)' BY <1>1, <2>1, <2>2 DEF Start, InCall, Off, NotUp
    <2>6. t # NoTask BY ConstAssumption
    <2>7. Alone' BY <2>2, <2>4, <2>6 DEF Alone
    <2>8. Fits' BY <1>b, <2>2, <2>4, <2>5, <2>6 DEF Fits
    <2> QED BY <2>7, <2>8
  <1>2. CASE TaskExit(t)
    <2>1. Busy(t) /\ pc[t] = "loop" /\ ~running BY <1>2 DEF TaskExit, Busy
    <2>2. handle = t /\ t # NoTask /\ InCall(t) /\ \A u \in Tasks \ {t} : ~Busy(u)
      BY <2>1, Mine
    <2>3. stopping # "no" BY <2>1, <2>2 DEF IInv, Alone
    <2>4. pc'[t] = "gone" BY <1>2, PcType DEF TaskExit
    <2>5. handle' = NoTask /\ ~running' /\ stopping' # "no"
      BY <1>2, <2>1, <2>3 DEF TaskExit
    <2>6. \A u \in Tasks : ~Busy(u)' BY <1>a, <2>2, <2>4 DEF Busy
    <2>7. Resting BY <2>1, <2>2 DEF InCall
    <2>8. Resting' BY <1>2, <2>7 DEF TaskExit, Resting, WifiRest, CellRest
    <2>9. Alone' BY <2>5, <2>6, ConstAssumption DEF Alone
    <2>10. Fits' BY <1>b, <2>5, <2>6, <2>8 DEF Fits
    <2> QED BY <2>9, <2>10
  <1> QED BY <1>1, <1>2

\* ml_net_switch_stop(): it counts as settled only if it finds the task in its
\* loop, and it is through when that task has left.
LEMMA StopKeeps ==
  ASSUME IInv, settled, settled', StopBegin \/ StopEnd
  PROVE  Alone' /\ Fits'
  <1> USE DEF ctxVars, taskVars, apiVars, netVars
  <1>1. CASE StopBegin
    <2>1. running /\ stopping = "no" /\ handle # NoTask /\ handle \in Tasks
      BY <1>1 DEF StopBegin, IInv, Alone, TypeOK
    <2>2. Busy(handle) BY <2>1 DEF IInv, Alone
    <2>3. pc[handle] = "loop" BY <1>1, <2>1, <2>2 DEF StopBegin, Busy
    <2>4. ~running' /\ stopping' = "wait" /\ handle' = handle
      BY <1>1, <2>1 DEF StopBegin
    <2>5. \A u \in Tasks : Busy(u)' <=> Busy(u) BY <1>1 DEF StopBegin, Busy
    <2>6. pc' = pc BY <1>1 DEF StopBegin
    <2>7. Alone' BY <2>1, <2>3, <2>4, <2>5, <2>6 DEF Alone, IInv
    <2>8. \A u \in Tasks : InCall(u) => InCall(u)'
      BY <1>1 DEF StopBegin, InCall, Busy, Off, NotUp, Resting, WifiRest, CellRest
    <2>9. live' = IF ml' THEN 1 ELSE 0 BY <1>1 DEF StopBegin, IInv, Fits
    <2>10. Fits' BY <2>1, <2>4, <2>5, <2>8, <2>9 DEF Fits, IInv
    <2> QED BY <2>7, <2>10
  <1>2. CASE StopEnd
    <2>1. stopping # "no" /\ ~running BY <1>2 DEF StopEnd, GaveTime, IInv, Always
    <2>2. handle = NoTask
      <3>1. CASE stopping = "go"
        BY <3>1 DEF IInv, Alone
      <3>2. CASE \A t \in Tasks : pc[t] \notin {"begin", "loop"}
        BY <2>1, <3>2 DEF IInv, Alone, TypeOK
      <3> QED BY <1>2, <3>1, <3>2 DEF StopEnd, GaveTime
    <2>3. Resting BY <2>1, <2>2 DEF IInv, Fits
    <2>4. \A u \in Tasks : ~Busy(u) BY <2>2, ConstAssumption DEF IInv, Alone
    <2>5. \A u \in Tasks : ~Busy(u)' BY <1>2, <2>4 DEF StopEnd, Busy
    <2>6. ~ml' /\ live' = 0
      BY <1>2 DEF StopEnd, VpnDestroy, Remaining, IInv, Fits
    <2>7. sta' = "off" /\ ~modem' /\ state' = "IDLE"
      BY <1>2, <2>3 DEF StopEnd, TransportStop, Resting, WifiRest, CellRest
    <2>8. handle' = NoTask /\ ~running' /\ stopping' = "no" BY <1>2, <2>1, <2>2 DEF StopEnd
    <2>9. Alone' BY <2>5, <2>8, ConstAssumption DEF Alone
    <2>10. Off' BY <2>6, <2>7 DEF Off, NotUp
    <2>11. Fits' BY <2>5, <2>6, <2>8, <2>10 DEF Fits
    <2> QED BY <2>9, <2>11
  <1> QED BY <1>1, <1>2

\* The timers ask for a switch that fits the transport in use; the driver and
\* the networks change nothing the task relies on.
LEMMA RestKeeps ==
  ASSUME IInv, settled,
         HealthCheck \/ FailbackCheck \/ StationUp \/ StationDown \/ NetworkChange
           \/ UNCHANGED vars
  PROVE  Alone' /\ Fits'
  <1> USE DEF ctxVars, taskVars, apiVars, netVars
  <1>0. UNCHANGED <<running, stopping, handle, pc, path, ml, live, active, modem, told>>
    BY DEF HealthCheck, FailbackCheck, StationUp, StationDown, NetworkChange, vars
  <1>1. NotUp => NotUp'
    BY DEF NotUp, HealthCheck, FailbackCheck, StationUp, StationDown, NetworkChange, vars,
           SwitchTarget
  <1>2. sta = "off" <=> sta' = "off"
    BY DEF HealthCheck, FailbackCheck, StationUp, StationDown, NetworkChange, vars
  <1>3. Off => Off' BY <1>0, <1>1, <1>2 DEF Off
  <1>4. Resting => Resting'
    <2> SUFFICES ASSUME Resting PROVE Resting' OBVIOUS
    <2>1. CASE HealthCheck
      BY <1>0, <1>2, <2>1 DEF HealthCheck, SwitchTarget, Resting, WifiRest, CellRest
    <2>2. CASE FailbackCheck
      BY <1>0, <1>2, <2>2 DEF FailbackCheck, Resting, WifiRest, CellRest
    <2>3. CASE UNCHANGED state
      BY <1>0, <1>2, <2>3 DEF Resting, WifiRest, CellRest
    <2>4. HealthCheck \/ FailbackCheck \/ UNCHANGED state
      BY DEF StationUp, StationDown, NetworkChange, vars
    <2> QED BY <2>1, <2>2, <2>3, <2>4
  <1>5. ASSUME NEW t \in Tasks, InCall(t) PROVE InCall(t)'
    BY <1>0, <1>1, <1>2, <1>3, <1>4, <1>5 DEF InCall, Busy
  <1>6. \A t \in Tasks : Busy(t) => InCall(t)' BY <1>5 DEF IInv, Fits
  <1>7. /\ handle = NoTask /\ stopping = "no" => Off'
        /\ handle = NoTask /\ stopping # "no" => Resting'
    BY <1>3, <1>4 DEF IInv, Fits
  <1> QED BY <1>0, <1>6, <1>7, OtherStep

-----------------------------------------------------------------------------
(* The theorems.                                                           *)

LEMMA InitHolds == Init => IInv
  <1> SUFFICES ASSUME Init PROVE IInv OBVIOUS
  <1>1. TypeOK
    <2>1. /\ running \in BOOLEAN /\ ml \in BOOLEAN /\ health \in BOOLEAN
          /\ failback \in BOOLEAN /\ settled \in BOOLEAN /\ modem \in BOOLEAN
      BY Zenon DEF Init
    <2>2. 0 \in 0..(FailCount - 1) /\ 0 \in 0..MaxStops /\ 0 \in 0..MaxFlips
          /\ 0 \in 0..MaxLive
      BY ConstAssumption
    <2> QED BY <2>1, <2>2 DEF Init, TypeOK, States, Rests
  <1>2. Always BY DEF Init, Always, Watched, NotUp
  <1>3. Alone BY ConstAssumption DEF Init, Alone, Busy
  <1>4. Fits BY DEF Init, Fits, Busy, Off, NotUp
  <1> QED BY <1>1, <1>2, <1>3, <1>4 DEF IInv

\* While no stop comes at a bad moment there is one task, and what is on is what
\* the point where it rests needs.
THEOREM Invariance == Spec => []IInv
  <1>1. IInv /\ [Next]_vars => IInv'
    <2> SUFFICES ASSUME IInv, [Next]_vars PROVE IInv' OBVIOUS
    <2>1. TypeOK' /\ Always' BY TypeKeeps, AlwaysKeeps
    <2>2. ASSUME settled' PROVE Alone' /\ Fits'
      <3>1. settled
        BY <2>2 DEF Next, vars, Start, Task, Begin, WifiUp, WifiDown, CellUp, CellDown,
           VpnUp, VpnDown, RetryDelay, SwitchToCell, TryFailback, TaskExit, StopBegin,
           StopEnd, HealthCheck, FailbackCheck, StationUp, StationDown, NetworkChange,
           apiVars
      <3>2. ASSUME NEW t \in Tasks, Start(t) \/ Task(t) PROVE Alone' /\ Fits'
        BY <3>1, <3>2, CallKeeps, LoopKeeps, LifeKeeps DEF Task
      <3> QED BY <2>2, <3>1, <3>2, StopKeeps, RestKeeps DEF Next
    <2> QED BY <2>1, <2>2 DEF IInv
  <1> QED BY InitHolds, <1>1, PTL DEF Spec

\* The state of the switch has the types of ml_net_switch.c.
THEOREM TypeCorrect == Spec => []TypeOK
  <1>1. IInv => TypeOK BY DEF IInv
  <1> QED BY <1>1, Invariance, PTL

\* No VPN, no transport and no timer is forgotten: whatever the networks, the
\* timers and the allocator do, s_ctx.ml is the only VPN, a state that reports a
\* connection is true and watched, and a stop that finds the task in its loop
\* leaves nothing on.
THEOREM NothingForgottenCorrect == Spec => []NothingForgotten
  <1>1. IInv => NothingForgotten
    <2> SUFFICES ASSUME IInv PROVE NothingForgotten OBVIOUS
    <2>1. OneVpn BY DEF IInv, Fits, OneVpn
    <2>2. UpMeansUp
      <3> SUFFICES ASSUME settled, ~NotUp
                   PROVE  /\ state = "WIFI_VPN_UP" =>
                               ml /\ active = "wifi" /\ sta # "off" /\ ~modem /\ told = "wifi"
                          /\ state = "CELL_VPN_UP" =>
                               ml /\ active = "cellular" /\ modem /\ sta = "off"
                                 /\ told = "cellular"
        BY DEF UpMeansUp, NotUp
      <3>1. Resting
        <4>1. CASE handle = NoTask BY <4>1 DEF IInv, Fits, Off
        <4>2. CASE handle # NoTask
          <5>1. handle \in Tasks /\ Busy(handle) BY <4>2 DEF IInv, TypeOK, Alone
          <5>2. InCall(handle) BY <5>1 DEF IInv, Fits
          <5>3. pc[handle] = "loop"
            BY <5>1, <5>2 DEF InCall
          <5> QED BY <5>2, <5>3 DEF InCall
        <4> QED BY <4>1, <4>2
      <3> QED BY <3>1 DEF Resting, WifiRest, CellRest
    <2>3. UpIsWatched BY DEF IInv, Always, Watched, NotUp, UpIsWatched
    <2>4. StoppedWhenSettled
      BY DEF IInv, Alone, Fits, Off, StoppedWhenSettled, AllDown
    <2> QED BY <2>1, <2>2, <2>3, <2>4 DEF NothingForgotten
  <1> QED BY <1>1, Invariance, PTL
=============================================================================
