----------------------------- MODULE Tailscale -----------------------------
(* The ESPHome component (tailscale.cpp): its main loop starts a microlink    *)
(* handle when there is a network, the switch, the reconnect button and a new *)
(* key take it down, a task of its own stops and frees it, and the handle's   *)
(* coordinator task reports through a callback.  The loop, the switch, the    *)
(* button and the timer share ESPHome's main thread; the callback and the     *)
(* stop task do not.  One unit of time is 15 s, the limit of a rebind.        *)
EXTENDS Naturals, FiniteSets

CONSTANTS Handles,       \* memory microlink_init may return
          None,
          Full,          \* RECONNECT_FULL's limit of 30 s
          Confirm,       \* auto-confirm after 30 s
          Rollback,      \* the dead man's switch, 60 s
          StopTimeout,   \* STOP_TIMEOUT_MS
          Cleanup,       \* microlink_stop_task needs no longer (3 + 5 + 3 s)
          Keys,          \* the key may be changed at run time
          Failures       \* microlink_init and microlink_start may fail

ASSUME TailscaleAssumption ==
  /\ None \notin Handles
  /\ {Full, Confirm, Rollback, StopTimeout, Cleanup} \subseteq Nat \ {0}
  /\ Cleanup < StopTimeout /\ Confirm < Rollback
  /\ Keys \in BOOLEAN /\ Failures \in BOOLEAN

VARIABLES
  c,      \* the component's fields, the statics of tailscale.cpp, and what each
          \* handle's tasks do
  up,     \* handles whose ml->state is CONNECTED
  asked,  \* handles with ML_CMD_FORCE_RECONNECT in their queue
  told,   \* handles whose coordinator is past the check in state_callback
  net,    \* network::is_connected()
  api     \* how Home Assistant's connection comes in, "none" without one
vars == <<c, up, asked, told, net, api>>

Booted ==
  [ml |-> None, active |-> None, enabled |-> TRUE, vpn_stopping |-> FALSE,
   s_vpn_stopping |-> FALSE, in_progress |-> FALSE, stop_age |-> 0,
   shown |-> FALSE,              \* current_state_ = ML_STATE_CONNECTED
   phase |-> "IDLE", phase_age |-> 0,
   pending |-> FALSE, back |-> TRUE, pending_age |-> 0,
   timer |-> FALSE,              \* set_timeout("tailscale_stop", 300, ...)
   failed |-> FALSE,             \* mark_failed: the loop never runs again
   task |-> [h \in Handles |-> "none"], age |-> [h \in Handles |-> 0]]

Init ==
  /\ c = Booted
  /\ up = {} /\ asked = {} /\ told = {}
  /\ net = FALSE /\ api = "none"
-----------------------------------------------------------------------------
\* Mutant of Teardown: the next start does not wait for the old handle.
MutTeardown(r) ==
  IF r.ml = None THEN r
  ELSE [r EXCEPT !.active = None, !.ml = None, !.stop_age = 0,
                 !.task[r.ml] = "stopping", !.age[r.ml] = 0]

\* Hands the handle to microlink_stop_task, its callbacks off.
Teardown(r) ==
  IF r.ml = None THEN r
  ELSE [r EXCEPT !.active = None, !.ml = None,
                 !.in_progress = TRUE, !.stop_age = 0,
                 !.task[r.ml] = "stopping", !.age[r.ml] = 0]

\* start_microlink_: what it leaves behind, once for each of its results.
Starts(r) ==
  IF r.ml # None \/ ~net \/ ~r.enabled \/ r.vpn_stopping THEN {r}
  ELSE IF r.in_progress /\ r.stop_age < StopTimeout THEN {r}
  ELSE LET open == [r EXCEPT !.in_progress = FALSE, !.s_vpn_stopping = FALSE]
           made(h, run) == [open EXCEPT !.ml = h, !.active = h,
                                        !.task[h] = "run", !.failed = ~run]
           free == {h \in Handles : r.task[h] = "none" /\ h \notin told}
       IN  {made(h, TRUE) : h \in free}
             \cup (IF Failures THEN {made(h, FALSE) : h \in free}
                                      \cup {[open EXCEPT !.failed = TRUE]} ELSE {})

\* Home Assistant still there half a minute after the change confirms it.
AutoConfirm(r) ==
  IF r.pending /\ api # "none" /\ r.pending_age >= Confirm
  THEN [r EXCEPT !.pending = FALSE] ELSE r

\* A minute without confirmation restores the switch.
RollBack(r) ==
  IF ~(r.pending /\ r.pending_age >= Rollback) THEN r
  ELSE LET undone == [r EXCEPT !.enabled = r.back, !.pending = FALSE]
       IN  IF r.back THEN undone ELSE Teardown(undone)

\* Mutant of Reconnect: the full restart that does not help is left alone.
MutReconnect(r) ==
  IF r.ml = None \/ r.phase = "IDLE" THEN r
  ELSE IF r.shown THEN [r EXCEPT !.phase = "IDLE"]
  ELSE IF r.phase = "REBIND" /\ r.phase_age >= 1
       THEN [Teardown(r) EXCEPT !.phase = "FULL", !.phase_age = 0]
  ELSE r

\* The reconnect state machine, which runs while there is a handle.
Reconnect(r) ==
  IF r.ml = None \/ r.phase = "IDLE" THEN r
  ELSE IF r.shown THEN [r EXCEPT !.phase = "IDLE"]
  ELSE IF r.phase = "REBIND" /\ r.phase_age >= 1
       THEN [Teardown(r) EXCEPT !.phase = "FULL", !.phase_age = 0]
  ELSE IF r.phase = "FULL" /\ r.phase_age >= Full
       THEN [r EXCEPT !.phase = "REBOOT"]
  ELSE r

\* What one round of loop() may make of the component.
Loops == {Reconnect(RollBack(AutoConfirm(r))) : r \in Starts(c)}

Running == ~c.failed /\ c.phase # "REBOOT"

Loop ==
  /\ Running
  /\ c' \in Loops \ {c}
  /\ UNCHANGED <<up, asked, told, net, api>>
-----------------------------------------------------------------------------
\* set_tailscale_enabled: the change is provisional when Home Assistant comes
\* in through the tunnel, and a stop waits for the answer to leave.
SetEnabled(e) ==
  /\ c.phase # "REBOOT"
  /\ LET armed == [c EXCEPT !.back = c.enabled, !.enabled = e,
                            !.pending = (api = "tailscale"), !.pending_age = 0]
     IN  c' = IF ~e /\ c.ml # None
              THEN [armed EXCEPT !.vpn_stopping = TRUE, !.s_vpn_stopping = TRUE,
                                 !.shown = FALSE, !.timer = TRUE]
              ELSE IF e /\ c.ml = None
              THEN [armed EXCEPT !.vpn_stopping = FALSE, !.s_vpn_stopping = FALSE]
              ELSE armed
  /\ UNCHANGED <<up, asked, told, net, api>>

\* Mutant of StopTimer: the flag that holds back the next start is left set.
MutStopTimer ==
  /\ c.timer /\ Running
  /\ c' = IF c.ml = None THEN [c EXCEPT !.timer = FALSE]
          ELSE [Teardown(c) EXCEPT !.timer = FALSE, !.shown = FALSE]
  /\ UNCHANGED <<up, asked, told, net, api>>

\* The deferred stop; the scheduler skips a component that has failed.
StopTimer ==
  /\ c.timer /\ Running
  /\ c' = IF c.ml = None THEN [c EXCEPT !.timer = FALSE]
          ELSE [Teardown(c) EXCEPT !.timer = FALSE, !.vpn_stopping = FALSE,
                                   !.shown = FALSE]
  /\ UNCHANGED <<up, asked, told, net, api>>

\* request_reconnect, with microlink_rebind, which only fails for a handle
\* that is already stopped.
RequestReconnect ==
  /\ c.phase = "IDLE" /\ c.ml # None
  /\ c' = [c EXCEPT !.phase = "REBIND", !.phase_age = 0]
  /\ asked' = asked \cup {c.ml}
  /\ UNCHANGED <<up, told, net, api>>

ConfirmRollback ==
  /\ c.pending /\ c.phase # "REBOOT"
  /\ c' = [c EXCEPT !.pending = FALSE]
  /\ UNCHANGED <<up, asked, told, net, api>>

\* Mutant of SaveKey: ml_ still points to the handle that is being stopped.
MutSaveKey ==
  /\ Keys /\ c.phase # "REBOOT"
  /\ \E saved \in BOOLEAN :
       LET idle == [c EXCEPT !.phase = "IDLE"]
       IN  c' = IF saved THEN [Teardown(idle) EXCEPT !.ml = c.ml] ELSE idle
  /\ UNCHANGED <<up, asked, told, net, api>>

\* save_runtime_auth_key_; flash that cannot be opened ends it early.
SaveKey ==
  /\ Keys /\ c.phase # "REBOOT"
  /\ \E saved \in BOOLEAN :
       LET idle == [c EXCEPT !.phase = "IDLE"]
       IN  c' = IF saved THEN Teardown(idle) ELSE idle
  /\ UNCHANGED <<up, asked, told, net, api>>

\* App.safe_reboot, with on_shutdown; the restarted device is like a new one.
Reboot ==
  /\ c.phase = "REBOOT"
  /\ c' = Booted /\ up' = {} /\ asked' = {} /\ told' = {}
  /\ net' = FALSE /\ api' = "none"
-----------------------------------------------------------------------------
\* The coordinator of a handle drops its connection when it is told to or when
\* it is lost; state_callback is not called.
Disconnected(h) ==
  /\ c.task[h] = "run" /\ ~(c.failed /\ c.ml = h) /\ (h \in up \/ h \in asked)
  /\ up' = up \ {h} /\ asked' = asked \ {h}
  /\ UNCHANGED <<c, told, net, api>>

\* It is connected and enters state_callback, which returns at once for a
\* handle that is not the active one or is being stopped.
Connected(h) ==
  /\ c.task[h] = "run" /\ ~(c.failed /\ c.ml = h) /\ net
  /\ h \notin up /\ h \notin asked
  /\ up' = up \cup {h}
  /\ told' = IF c.active = h /\ ~c.s_vpn_stopping THEN told \cup {h} ELSE told
  /\ UNCHANGED <<c, asked, net, api>>

\* The rest of state_callback.
Told(h) ==
  /\ h \in told /\ c.phase # "REBOOT"
  /\ told' = told \ {h}
  /\ c' = [c EXCEPT !.shown = TRUE]
  /\ UNCHANGED <<up, asked, net, api>>

\* microlink_stop_task: microlink_stop ends the handle's tasks, 5 s later
\* microlink_destroy frees it, and only then may the next one start.
Destroy(h) ==
  /\ c.task[h] = "stopping" /\ h \notin told /\ c.phase # "REBOOT"
  /\ c' = [c EXCEPT !.task[h] = "freed"]
  /\ up' = up \ {h} /\ asked' = asked \ {h}
  /\ UNCHANGED <<told, net, api>>

Destroyed(h) ==
  /\ c.task[h] = "freed" /\ c.phase # "REBOOT"
  /\ c' = [c EXCEPT !.task[h] = "none", !.in_progress = FALSE]
  /\ UNCHANGED <<up, asked, told, net, api>>

\* Home Assistant's connection comes and goes; one through the tunnel is made
\* while the tunnel is up and may be believed alive long after.
Api ==
  /\ api' \in {"none", "local", "tailscale"} \ {api}
  /\ api' = "tailscale" => c.ml \in up
  /\ UNCHANGED <<c, up, asked, told, net>>

Network == net' = ~net /\ UNCHANGED <<c, up, asked, told, api>>

\* Time passes when the 300 ms and the loop's own rounds are over, and a stop
\* takes no longer than it may.
Tick ==
  /\ c.phase # "REBOOT" /\ (c.timer => c.failed)
  /\ Running => Loops = {c}
  /\ \A h \in Handles : /\ c.task[h] # "freed"
                        /\ c.task[h] = "stopping" => c.age[h] < Cleanup
  /\ LET older(n, most) == IF n < most THEN n + 1 ELSE n
     IN  c' = [c EXCEPT !.stop_age = older(@, StopTimeout),
                        !.phase_age = older(@, Full),
                        !.pending_age = older(@, Rollback),
                        !.age = [h \in Handles |-> IF c.task[h] = "stopping"
                                                   THEN older(@[h], Cleanup) ELSE 0]]
  /\ UNCHANGED <<up, asked, told, net, api>>

Tasks(h) == Disconnected(h) \/ Connected(h) \/ Told(h) \/ Destroy(h) \/ Destroyed(h)

Next ==
  \/ Loop \/ StopTimer \/ RequestReconnect \/ ConfirmRollback \/ SaveKey \/ Reboot
  \/ \E e \in BOOLEAN : SetEnabled(e)
  \/ \E h \in Handles : Tasks(h)
  \/ Api \/ Network \/ Tick

Spec == Init /\ [][Next]_vars

\* The main thread, the stop task and a callback that began go on and time
\* passes, however often the network or Home Assistant's connection changes: a
\* round of the loop is far shorter than either.  Nothing is assumed of those
\* or of a tunnel.
Fairness ==
  /\ SF_vars(Loop) /\ WF_vars(StopTimer) /\ WF_vars(Reboot) /\ SF_vars(Tick)
  /\ \A h \in Handles : WF_vars(Told(h)) /\ WF_vars(Destroy(h)) /\ WF_vars(Destroyed(h))
FairSpec == Spec /\ Fairness
-----------------------------------------------------------------------------
Components ==
  [ml : Handles \cup {None}, active : Handles \cup {None}, enabled : BOOLEAN,
   vpn_stopping : BOOLEAN, s_vpn_stopping : BOOLEAN,
   in_progress : BOOLEAN, stop_age : 0..StopTimeout,
   shown : BOOLEAN, phase : {"IDLE", "REBIND", "FULL", "REBOOT"}, phase_age : 0..Full,
   pending : BOOLEAN, back : BOOLEAN, pending_age : 0..Rollback,
   timer : BOOLEAN, failed : BOOLEAN,
   task : [Handles -> {"none", "run", "stopping", "freed"}],
   age : [Handles -> 0..Cleanup]]

\* The fields have the types tailscale.h gives them, and the handle in use is
\* one whose tasks run.
TypeOK ==
  /\ c \in Components
  /\ c.active \in {c.ml, None} /\ (c.ml # None => c.task[c.ml] = "run")
  /\ up \subseteq Handles /\ asked \subseteq Handles /\ told \subseteq Handles
  /\ net \in BOOLEAN /\ api \in {"none", "local", "tailscale"}

\* Two handles never exist at once, whatever stops the one and starts the other:
\* they would share the UDP port, the peer cache and the static buffers.
SingleInstance ==
  Cardinality({h \in Handles : c.task[h] \in {"run", "stopping"}}) <= 1

\* No handle goes by another way within the 300 ms of a stop: the timer would
\* find nothing to do and leave vpn_stopping_ set.
Undisturbed == [](c.timer => c.ml # None)

\* An enabled component with a network gets a handle again, whichever way the
\* last one went, but for a failed start.
Restarts == Undisturbed => []<>(c.ml # None \/ ~c.enabled \/ ~net \/ c.failed)

\* A reconnect that was asked for comes to an end, by success or by a reboot.
ReconnectEnds == Undisturbed => []<>(c.phase = "IDLE" \/ ~c.enabled \/ ~net \/ c.failed)

\* Whatever the switch, the button and the network did, an enabled component is
\* back in the end (loop, set_tailscale_enabled, request_reconnect).
ComesBack == Restarts /\ ReconnectEnds

\* "Reconnect: rebind succeeded": the handle was told to reconnect, did, and is
\* connected.
RebindSucceeded ==
  [][c.phase = "REBIND" /\ c'.phase = "IDLE" => c.ml \in up \ asked]_vars
=============================================================================
