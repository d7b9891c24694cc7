--------------------------- MODULE TailscaleProofs ---------------------------
(* Tailscale: two microlink handles never exist at once, for any memory the    *)
(* handles are made of and any time limits, as long as a stop takes less than  *)
(* STOP_TIMEOUT_MS.  The invariant ties the clock start_microlink_ goes by to  *)
(* the time the old handle has been stopping for.                              *)
EXTENDS Tailscale, FiniteSetTheorems, TLAPS

\* The one handle whose tasks run is the component's.
Owner(r) == \A h \in Handles : r.task[h] = "run" <=> r.ml = h

\* A handle that is being stopped keeps the next from being started: the flag
\* is set and its age is that of the stop, which is within its time.
Waits(r) ==
  \A h \in Handles : r.task[h] \in {"stopping", "freed"} =>
    r.ml = None /\ r.in_progress /\ r.stop_age = r.age[h]

\* There is one handle.
Single(r) == \A g, h \in Handles : r.task[g] # "none" /\ r.task[h] # "none" => g = h

Fine(r) ==
  r \in Components /\ r.active \in {r.ml, None} /\ Owner(r) /\ Waits(r) /\ Single(r)

Others ==
  /\ up \subseteq Handles /\ asked \subseteq Handles /\ told \subseteq Handles
  /\ net \in BOOLEAN /\ api \in {"none", "local", "tailscale"}

IInv == Fine(c) /\ Others
-----------------------------------------------------------------------------
(* The operators the handlers are built from.                                  *)

\* A change of the other fields leaves the handles alone.
LEMMA SameHandles ==
  ASSUME NEW r, NEW s, Fine(r), s \in Components,
         s.ml = r.ml, s.active = r.active, s.task = r.task, s.age = r.age,
         s.stop_age = r.stop_age, s.in_progress = r.in_progress
  PROVE  Fine(s)
  BY DEF Fine, Owner, Waits, Single

LEMMA LimitsAreNat ==
  {Full, Confirm, Rollback, StopTimeout, Cleanup} \subseteq Nat \ {0} /\ Cleanup < StopTimeout
  BY TailscaleAssumption

\* A stop turns the one handle into one that is stopping, from time 0 on.
LEMMA TeardownIsFine ==
  ASSUME NEW r, Fine(r)
  PROVE  /\ Fine(Teardown(r)) /\ Teardown(r).phase = r.phase
         /\ Teardown(r).ml = None
  <1>1. CASE r.ml = None
    BY <1>1 DEF Teardown
  <1>2. CASE r.ml # None
    <2> DEFINE s == Teardown(r)
               tasks == [r.task EXCEPT ![r.ml] = "stopping"]
               ages == [r.age EXCEPT ![r.ml] = 0]
    <2>2. r \in Components /\ r.ml \in Handles BY <1>2 DEF Fine, Components
    <2>3. 0 \in 0..StopTimeout /\ 0 \in 0..Cleanup BY LimitsAreNat
    <2>1. s = [r EXCEPT !.active = None, !.ml = None, !.in_progress = TRUE, !.stop_age = 0,
                        !.task = tasks, !.age = ages]
      BY <1>2, <2>2 DEF Teardown, Components
    <2>4. tasks \in [Handles -> {"none", "run", "stopping", "freed"}]
      BY <2>2 DEF Components
    <2>5. ages \in [Handles -> 0..Cleanup]
      BY <2>2, <2>3 DEF Components
    <2> HIDE DEF tasks, ages
    <2>6. s \in Components
      <3> DEFINE r1 == [r EXCEPT !.active = None, !.ml = None]
                 r2 == [r1 EXCEPT !.in_progress = TRUE, !.stop_age = 0]
                 r3 == [r2 EXCEPT !.task = tasks, !.age = ages]
      <3>1. s = r3 BY <2>1
      <3>2. r1 \in Components BY <2>2 DEF Components
      <3> HIDE DEF r1
      <3>3. r2 \in Components BY <3>2, <2>3 DEF Components
      <3> HIDE DEF r2
      <3>4. r3 \in Components BY <3>3, <2>4, <2>5 DEF Components
      <3> QED BY <3>1, <3>4
    <2>7. /\ s.ml = None /\ s.active = None /\ s.in_progress /\ s.stop_age = 0
          /\ s.phase = r.phase /\ s.task = tasks /\ s.age = ages
      BY <2>1, <2>2 DEF Components
    <2>8. \A h \in Handles \ {r.ml} : r.task[h] = "none"
      BY <2>2 DEF Fine, Owner, Single
    <2>9. /\ \A h \in Handles \ {r.ml} : s.task[h] = "none"
          /\ s.task[r.ml] = "stopping" /\ s.age[r.ml] = 0
      BY <2>2, <2>7, <2>8 DEF Components, tasks, ages
    <2>10. Owner(s) BY <2>7, <2>9, TailscaleAssumption DEF Owner
    <2>11. Waits(s) BY <2>7, <2>9 DEF Waits
    <2>12. Single(s) BY <2>9 DEF Single
    <2> QED BY <2>6, <2>7, <2>10, <2>11, <2>12 DEF Fine
  <1> QED BY <1>1, <1>2

LEMMA AutoConfirmIsFine ==
  ASSUME NEW r, Fine(r)
  PROVE  Fine(AutoConfirm(r))
  <1> DEFINE s == [r EXCEPT !.pending = FALSE]
  <1>1. Fine(s)
    <2>1. s \in Components BY DEF Fine, Components
    <2>2. /\ s.ml = r.ml /\ s.active = r.active /\ s.task = r.task /\ s.age = r.age
          /\ s.stop_age = r.stop_age /\ s.in_progress = r.in_progress
      BY DEF Fine, Components
    <2> QED BY <2>1, <2>2, SameHandles
  <1> QED BY <1>1 DEF AutoConfirm

LEMMA RollBackIsFine ==
  ASSUME NEW r, Fine(r)
  PROVE  Fine(RollBack(r))
  <1> DEFINE s == [r EXCEPT !.enabled = r.back, !.pending = FALSE]
  <1>1. Fine(s)
    <2>1. s \in Components BY DEF Fine, Components
    <2>2. /\ s.ml = r.ml /\ s.active = r.active /\ s.task = r.task /\ s.age = r.age
          /\ s.stop_age = r.stop_age /\ s.in_progress = r.in_progress
      BY DEF Fine, Components
    <2> QED BY <2>1, <2>2, SameHandles
  <1> HIDE DEF s
  <1>2. Fine(Teardown(s)) BY <1>1, TeardownIsFine
  <1>3. RollBack(r) \in {r, s, Teardown(s)} BY DEF RollBack, s
  <1> QED BY <1>1, <1>2, <1>3

\* What a change of the reconnect's phase leaves alone.
LEMMA PhaseIsFine ==
  ASSUME NEW r, Fine(r), NEW p \in {"IDLE", "REBIND", "FULL", "REBOOT"}
  PROVE  Fine([r EXCEPT !.phase = p]) /\ Fine([r EXCEPT !.phase = p, !.phase_age = 0])
  <1>1. Fine([r EXCEPT !.phase = p])
    <2> DEFINE s == [r EXCEPT !.phase = p]
    <2>1. s \in Components BY DEF Fine, Components
    <2>2. /\ s.ml = r.ml /\ s.active = r.active /\ s.task = r.task /\ s.age = r.age
          /\ s.stop_age = r.stop_age /\ s.in_progress = r.in_progress
      BY DEF Fine, Components
    <2> QED BY <2>1, <2>2, SameHandles
  <1>2. Fine([r EXCEPT !.phase = p, !.phase_age = 0])
    <2> DEFINE s == [r EXCEPT !.phase = p, !.phase_age = 0]
    <2>1. 0 \in 0..Full BY LimitsAreNat
    <2>2. s \in Components BY <2>1 DEF Fine, Components
    <2>3. /\ s.ml = r.ml /\ s.active = r.active /\ s.task = r.task /\ s.age = r.age
          /\ s.stop_age = r.stop_age /\ s.in_progress = r.in_progress
      BY DEF Fine, Components
    <2> QED BY <2>2, <2>3, SameHandles
  <1> QED BY <1>1, <1>2

LEMMA ReconnectIsFine ==
  ASSUME NEW r, Fine(r)
  PROVE  Fine(Reconnect(r))
  <1>1. Fine(Teardown(r)) BY TeardownIsFine
  <1>2. Reconnect(r) \in {r, [r EXCEPT !.phase = "IDLE"], [r EXCEPT !.phase = "REBOOT"],
                          [Teardown(r) EXCEPT !.phase = "FULL", !.phase_age = 0]}
    BY Zenon DEF Reconnect
  <1> QED BY <1>1, <1>2, PhaseIsFine

\* start_microlink_ goes on only when no handle is left: the flag is clear, or
\* the old handle would have been stopping for longer than a stop takes.
LEMMA NoneLeft ==
  ASSUME NEW r, Fine(r), r.ml = None, ~(r.in_progress /\ r.stop_age < StopTimeout)
  PROVE  \A h \in Handles : r.task[h] = "none"
  <1> SUFFICES ASSUME NEW h \in Handles, r.task[h] # "none" PROVE FALSE OBVIOUS
  <1>1. r.task[h] \in {"none", "run", "stopping", "freed"} /\ r.age[h] \in 0..Cleanup
    BY DEF Fine, Components
  <1>2. r.task[h] # "run" BY TailscaleAssumption DEF Fine, Owner
  <1>3. r.in_progress /\ r.stop_age = r.age[h] BY <1>1, <1>2 DEF Fine, Waits
  <1> QED BY <1>1, <1>3, LimitsAreNat

LEMMA StartsAreFine ==
  ASSUME NEW r, Fine(r), NEW s \in Starts(r)
  PROVE  Fine(s)
  <1> DEFINE open == [r EXCEPT !.in_progress = FALSE, !.s_vpn_stopping = FALSE]
             made(h, run) == [open EXCEPT !.ml = h, !.active = h,
                                          !.task[h] = "run", !.failed = ~run]
             lost == [open EXCEPT !.failed = TRUE]
  <1>1. \/ s = r
        \/ /\ r.ml = None /\ ~(r.in_progress /\ r.stop_age < StopTimeout)
           /\ s = lost \/ \E h \in Handles, run \in BOOLEAN : s = made(h, run)
    BY Zenon DEF Starts
  <1>2. CASE s = r BY <1>2
  <1> SUFFICES ASSUME r.ml = None, ~(r.in_progress /\ r.stop_age < StopTimeout),
                      s = lost \/ \E h \in Handles, run \in BOOLEAN : s = made(h, run)
               PROVE  Fine(s)
    BY <1>1, <1>2
  <1>3. r \in Components /\ \A h \in Handles : r.task[h] = "none"
    BY NoneLeft DEF Fine
  <1>4. /\ open \in Components /\ open.ml = None /\ open.active = r.active
        /\ open.task = r.task
    BY <1>3 DEF Components
  <1> HIDE DEF open
  <1>5. CASE s = lost
    <2>1. s \in Components BY <1>4, <1>5 DEF Components
    <2>2. s.ml = None /\ s.active = r.active /\ s.task = r.task
      BY <1>4, <1>5 DEF Components
    <2>3. Owner(s) /\ Waits(s) /\ Single(s)
      BY <1>3, <2>2, TailscaleAssumption DEF Owner, Waits, Single
    <2> QED BY <2>1, <2>2, <2>3 DEF Fine
  <1>6. CASE \E h \in Handles, run \in BOOLEAN : s = made(h, run)
    <2>1. PICK h \in Handles, run \in BOOLEAN : s = made(h, run) BY <1>6
    <2> DEFINE tasks == [open.task EXCEPT ![h] = "run"]
    <2>2. s = [open EXCEPT !.ml = h, !.active = h, !.task = tasks, !.failed = ~run]
      BY <1>4, <2>1 DEF Components
    <2>3. tasks \in [Handles -> {"none", "run", "stopping", "freed"}]
      BY <1>4 DEF Components
    <2>4. tasks[h] = "run" /\ \A g \in Handles \ {h} : tasks[g] = "none"
      BY <1>3, <1>4 DEF Components
    <2> HIDE DEF tasks
    <2>5. s \in Components
      <3> DEFINE s1 == [open EXCEPT !.ml = h, !.active = h]
                 s2 == [s1 EXCEPT !.task = tasks, !.failed = ~run]
      <3>1. s = s2 BY <2>2
      <3>2. s1 \in Components BY <1>4 DEF Components
      <3> HIDE DEF s1
      <3>3. s2 \in Components BY <3>2, <2>3 DEF Components
      <3> QED BY <3>1, <3>3
    <2>6. s.ml = h /\ s.active = h /\ s.task = tasks BY <1>4, <2>2 DEF Components
    <2>7. Owner(s) BY <2>4, <2>6 DEF Owner
    <2>8. Waits(s) BY <2>4, <2>6 DEF Waits
    <2>9. Single(s) BY <2>4, <2>6 DEF Single
    <2> QED BY <2>5, <2>6, <2>7, <2>8, <2>9 DEF Fine
  <1> QED BY <1>5, <1>6
-----------------------------------------------------------------------------
(* One lemma for each action that touches the component or the sets.           *)

LEMMA Begins == Init => IInv
  <1> SUFFICES ASSUME Init PROVE IInv OBVIOUS
  <1>1. 0 \in 0..StopTimeout /\ 0 \in 0..Full /\ 0 \in 0..Rollback /\ 0 \in 0..Cleanup
    BY LimitsAreNat
  <1>2. c \in Components BY <1>1 DEF Init, Booted, Components
  <1>3. c.ml = None /\ c.active = None /\ \A h \in Handles : c.task[h] = "none"
    BY DEF Init, Booted
  <1>4. Fine(c) BY <1>2, <1>3, TailscaleAssumption DEF Fine, Owner, Waits, Single
  <1> QED BY <1>4 DEF Init, IInv, Others

LEMMA LoopKeeps == IInv /\ Loop => IInv'
  <1> SUFFICES ASSUME IInv, Loop PROVE IInv' OBVIOUS
  <1>1. PICK r \in Starts(c) : c' = Reconnect(RollBack(AutoConfirm(r))) BY DEF Loop, Loops
  <1>2. Fine(r) BY StartsAreFine DEF IInv
  <1>3. Fine(AutoConfirm(r)) BY <1>2, AutoConfirmIsFine
  <1>4. Fine(RollBack(AutoConfirm(r))) BY <1>3, RollBackIsFine
  <1>5. Fine(c') BY <1>1, <1>4, ReconnectIsFine
  <1>6. Others' BY DEF IInv, Others, Loop
  <1> QED BY <1>5, <1>6 DEF IInv, Fine, Owner, Waits, Single, Components

LEMMA SetEnabledKeeps == \A e \in BOOLEAN : IInv /\ SetEnabled(e) => IInv'
  <1> SUFFICES ASSUME NEW e \in BOOLEAN, IInv, SetEnabled(e) PROVE IInv' OBVIOUS
  <1> DEFINE armed == [c EXCEPT !.back = c.enabled, !.enabled = e,
                                !.pending = (api = "tailscale"), !.pending_age = 0]
             off == [armed EXCEPT !.vpn_stopping = TRUE, !.s_vpn_stopping = TRUE,
                                  !.shown = FALSE, !.timer = TRUE]
             on == [armed EXCEPT !.vpn_stopping = FALSE, !.s_vpn_stopping = FALSE]
  <1>1. Fine(c) BY DEF IInv
  <1>2. 0 \in 0..Rollback /\ (api = "tailscale") \in BOOLEAN BY LimitsAreNat
  <1>3. Fine(armed)
    <2>1. armed \in Components
      <3> DEFINE p == api = "tailscale"
                 r1 == [c EXCEPT !.back = c.enabled, !.enabled = e]
                 r2 == [r1 EXCEPT !.pending = p, !.pending_age = 0]
      <3>1. armed = r2 OBVIOUS
      <3>2. r1 \in Components BY <1>1 DEF Fine, Components
      <3>3. p \in BOOLEAN BY <1>2
      <3> HIDE DEF r1, p
      <3>4. r2 \in Components BY <1>2, <3>2, <3>3 DEF Components
      <3> QED BY <3>1, <3>4
    <2>2. /\ armed.ml = c.ml /\ armed.active = c.active /\ armed.task = c.task
          /\ armed.age = c.age /\ armed.stop_age = c.stop_age
          /\ armed.in_progress = c.in_progress
      BY <1>1 DEF Fine, Components
    <2> QED BY <1>1, <2>1, <2>2, SameHandles
  <1> HIDE DEF armed
  <1>4. Fine(off)
    <2>1. off \in Components BY <1>3 DEF Fine, Components
    <2>2. /\ off.ml = armed.ml /\ off.active = armed.active /\ off.task = armed.task
          /\ off.age = armed.age /\ off.stop_age = armed.stop_age
          /\ off.in_progress = armed.in_progress
      BY <1>3 DEF Fine, Components
    <2> QED BY <1>3, <2>1, <2>2, SameHandles
  <1>5. Fine(on)
    <2>1. on \in Components BY <1>3 DEF Fine, Components
    <2>2. /\ on.ml = armed.ml /\ on.active = armed.active /\ on.task = armed.task
          /\ on.age = armed.age /\ on.stop_age = armed.stop_age
          /\ on.in_progress = armed.in_progress
      BY <1>3 DEF Fine, Components
    <2> QED BY <1>3, <2>1, <2>2, SameHandles
  <1>6. c' \in {armed, off, on} BY Zenon DEF SetEnabled, armed
  <1>7. Fine(c') BY <1>3, <1>4, <1>5, <1>6
  <1>8. Others' BY DEF IInv, Others, SetEnabled
  <1> QED BY <1>7, <1>8 DEF IInv, Fine, Owner, Waits, Single, Components

LEMMA StopTimerKeeps == IInv /\ StopTimer => IInv'
  <1> SUFFICES ASSUME IInv, StopTimer PROVE IInv' OBVIOUS
  <1> DEFINE r == Teardown(c)
             s == [r EXCEPT !.timer = FALSE, !.vpn_stopping = FALSE, !.shown = FALSE]
             t == [c EXCEPT !.timer = FALSE]
  <1>1. Fine(c) BY DEF IInv
  <1>2. Fine(r) BY <1>1, TeardownIsFine
  <1>3. Fine(t)
    <2>1. t \in Components BY <1>1 DEF Fine, Components
    <2>2. /\ t.ml = c.ml /\ t.active = c.active /\ t.task = c.task /\ t.age = c.age
          /\ t.stop_age = c.stop_age /\ t.in_progress = c.in_progress
      BY <1>1 DEF Fine, Components
    <2> QED BY <1>1, <2>1, <2>2, SameHandles
  <1>4. c' = t \/ c' = s BY DEF StopTimer
  <1> HIDE DEF r
  <1>5. Fine(s)
    <2>1. s \in Components BY <1>2 DEF Fine, Components
    <2>2. /\ s.ml = r.ml /\ s.active = r.active /\ s.task = r.task /\ s.age = r.age
          /\ s.stop_age = r.stop_age /\ s.in_progress = r.in_progress
      BY <1>2 DEF Fine, Components
    <2> QED BY <1>2, <2>1, <2>2, SameHandles
  <1>6. Fine(c') BY <1>3, <1>4, <1>5
  <1>7. Others' BY DEF IInv, Others, StopTimer
  <1> QED BY <1>6, <1>7 DEF IInv, Fine, Owner, Waits, Single, Components

LEMMA RequestReconnectKeeps == IInv /\ RequestReconnect => IInv'
  <1> SUFFICES ASSUME IInv, RequestReconnect PROVE IInv' OBVIOUS
  <1>1. Fine(c') BY PhaseIsFine DEF IInv, RequestReconnect
  <1>2. c.ml \in Handles BY DEF IInv, Fine, Components, RequestReconnect
  <1>3. Others' BY <1>2 DEF IInv, Others, RequestReconnect
  <1> QED BY <1>1, <1>3 DEF IInv, Fine, Owner, Waits, Single, Components

LEMMA ConfirmRollbackKeeps == IInv /\ ConfirmRollback => IInv'
  <1> SUFFICES ASSUME IInv, ConfirmRollback PROVE IInv' OBVIOUS
  <1> DEFINE t == [c EXCEPT !.pending = FALSE]
  <1>1. Fine(c) BY DEF IInv
  <1>2. Fine(t)
    <2>1. t \in Components BY <1>1 DEF Fine, Components
    <2>2. /\ t.ml = c.ml /\ t.active = c.active /\ t.task = c.task /\ t.age = c.age
          /\ t.stop_age = c.stop_age /\ t.in_progress = c.in_progress
      BY <1>1 DEF Fine, Components
    <2> QED BY <1>1, <2>1, <2>2, SameHandles
  <1>3. Fine(c') BY <1>2 DEF ConfirmRollback
  <1>4. Others' BY DEF IInv, Others, ConfirmRollback
  <1> QED BY <1>3, <1>4 DEF IInv, Fine, Owner, Waits, Single, Components

LEMMA SaveKeyKeeps == IInv /\ SaveKey => IInv'
  <1> SUFFICES ASSUME IInv, SaveKey PROVE IInv' OBVIOUS
  <1> DEFINE idle == [c EXCEPT !.phase = "IDLE"]
  <1>1. Fine(idle) BY PhaseIsFine DEF IInv
  <1> HIDE DEF idle
  <1>2. Fine(Teardown(idle)) BY <1>1, TeardownIsFine
  <1>3. c' \in {idle, Teardown(idle)} BY DEF SaveKey, idle
  <1>4. Fine(c') BY <1>1, <1>2, <1>3
  <1>5. Others' BY DEF IInv, Others, SaveKey
  <1> QED BY <1>4, <1>5 DEF IInv, Fine, Owner, Waits, Single, Components

LEMMA RebootKeeps == IInv /\ Reboot => IInv'
  <1> SUFFICES ASSUME IInv, Reboot PROVE IInv' OBVIOUS
  <1>1. 0 \in 0..StopTimeout /\ 0 \in 0..Full /\ 0 \in 0..Rollback /\ 0 \in 0..Cleanup
    BY LimitsAreNat
  <1>2. c' \in Components BY <1>1 DEF Reboot, Booted, Components
  <1>3. c'.ml = None /\ c'.active = None /\ \A h \in Handles : c'.task[h] = "none"
    BY DEF Reboot, Booted
  <1>4. Fine(c') BY <1>2, <1>3, TailscaleAssumption DEF Fine, Owner, Waits, Single
  <1>5. Others' BY DEF Reboot, Others
  <1> QED BY <1>4, <1>5 DEF IInv, Fine, Owner, Waits, Single, Components

\* Actions that leave the component alone.
LEMMA OthersKeep ==
  ASSUME IInv, UNCHANGED c, Others'
  PROVE  IInv'
  BY DEF IInv, Fine, Owner, Waits, Single, Components

LEMMA ToldKeeps == \A h \in Handles : IInv /\ Told(h) => IInv'
  <1> SUFFICES ASSUME NEW h \in Handles, IInv, Told(h) PROVE IInv' OBVIOUS
  <1> DEFINE t == [c EXCEPT !.shown = TRUE]
  <1>1. Fine(c) BY DEF IInv
  <1>2. Fine(t)
    <2>1. t \in Components BY <1>1 DEF Fine, Components
    <2>2. /\ t.ml = c.ml /\ t.active = c.active /\ t.task = c.task /\ t.age = c.age
          /\ t.stop_age = c.stop_age /\ t.in_progress = c.in_progress
      BY <1>1 DEF Fine, Components
    <2> QED BY <1>1, <2>1, <2>2, SameHandles
  <1>3. Fine(c') BY <1>2 DEF Told
  <1>4. Others' BY DEF IInv, Others, Told
  <1> QED BY <1>3, <1>4 DEF IInv, Fine, Owner, Waits, Single, Components

\* The end of a stop: the memory is freed, then the flag is cleared.
LEMMA TaskIsFine ==
  ASSUME NEW r, Fine(r), NEW h \in Handles, r.task[h] \in {"stopping", "freed"}
  PROVE  /\ Fine([r EXCEPT !.task[h] = "freed"])
         /\ Fine([r EXCEPT !.task[h] = "none", !.in_progress = FALSE])
  <1>1. r \in Components /\ r.ml = None BY DEF Fine, Waits
  <1>2. \A g \in Handles \ {h} : r.task[g] = "none" BY DEF Fine, Single
  <1>3. ASSUME NEW w \in {"none", "freed"}, NEW b \in BOOLEAN, w = "freed" => b = r.in_progress
        PROVE  Fine([r EXCEPT !.task[h] = w, !.in_progress = b])
    <2> DEFINE tasks == [r.task EXCEPT ![h] = w]
               s == [r EXCEPT !.task = tasks, !.in_progress = b]
    <2>1. [r EXCEPT !.task[h] = w, !.in_progress = b] = s BY <1>1 DEF Components
    <2>2. tasks \in [Handles -> {"none", "run", "stopping", "freed"}]
      BY <1>1, <1>3 DEF Components
    <2>3. tasks[h] = w /\ \A g \in Handles \ {h} : tasks[g] = "none"
      BY <1>1, <1>2 DEF Components
    <2> HIDE DEF tasks
    <2>4. s \in Components BY <1>1, <1>3, <2>2 DEF Components
    <2>5. /\ s.ml = None /\ s.active = r.active /\ s.task = tasks /\ s.age = r.age
          /\ s.in_progress = b /\ s.stop_age = r.stop_age
      BY <1>1 DEF Components
    <2>6. Owner(s) BY <1>3, <2>3, <2>5, TailscaleAssumption DEF Owner
    <2>7. Waits(s) BY <1>3, <2>3, <2>5 DEF Fine, Waits
    <2>8. Single(s) BY <2>3, <2>5 DEF Single
    <2>9. s.active \in {s.ml, None} BY <1>1, <2>5 DEF Fine
    <2> HIDE DEF s
    <2>10. Fine(s) BY <2>4, <2>6, <2>7, <2>8, <2>9 DEF Fine
    <2> QED BY <2>1, <2>10
  <1>4. Fine([r EXCEPT !.task[h] = "none", !.in_progress = FALSE]) BY <1>3
  <1>5. Fine([r EXCEPT !.task[h] = "freed"])
    <2>1. r.in_progress \in BOOLEAN BY <1>1 DEF Components
    <2>2. Fine([r EXCEPT !.task[h] = "freed", !.in_progress = r.in_progress]) BY <1>3, <2>1
    <2>3. [r EXCEPT !.task[h] = "freed", !.in_progress = r.in_progress]
            = [r EXCEPT !.task[h] = "freed"]
      BY <1>1 DEF Components
    <2> QED BY <2>2, <2>3
  <1> QED BY <1>4, <1>5

LEMMA StopTaskKeeps == \A h \in Handles : IInv /\ (Destroy(h) \/ Destroyed(h)) => IInv'
  <1> SUFFICES ASSUME NEW h \in Handles, IInv, Destroy(h) \/ Destroyed(h) PROVE IInv' OBVIOUS
  <1>1. c.task[h] \in {"stopping", "freed"} BY DEF Destroy, Destroyed
  <1>2. c' \in {[c EXCEPT !.task[h] = "freed"],
                [c EXCEPT !.task[h] = "none", !.in_progress = FALSE]}
    BY DEF Destroy, Destroyed
  <1>3. Fine(c') BY <1>1, <1>2, TaskIsFine DEF IInv
  <1>4. Others' BY DEF IInv, Others, Destroy, Destroyed
  <1> QED BY <1>3, <1>4 DEF IInv, Fine, Owner, Waits, Single, Components

\* The clock of the wait and the age of the stop run together, and the stop
\* is over before STOP_TIMEOUT_MS.
LEMMA TickKeeps == IInv /\ Tick => IInv'
  <1> SUFFICES ASSUME IInv, Tick PROVE IInv' OBVIOUS
  <1> DEFINE older(n, most) == IF n < most THEN n + 1 ELSE n
             a == older(c.stop_age, StopTimeout)
             p == older(c.phase_age, Full)
             q == older(c.pending_age, Rollback)
             ages == [h \in Handles |-> IF c.task[h] = "stopping"
                                        THEN older(c.age[h], Cleanup) ELSE 0]
             s == [c EXCEPT !.stop_age = a, !.phase_age = p, !.pending_age = q, !.age = ages]
  <1>1. Fine(c) /\ c \in Components BY DEF IInv, Fine
  <1>2. c' = s
    <2>1. c' = [c EXCEPT !.stop_age = older(@, StopTimeout),
                         !.phase_age = older(@, Full),
                         !.pending_age = older(@, Rollback),
                         !.age = [h \in Handles |-> IF c.task[h] = "stopping"
                                                    THEN older(@[h], Cleanup) ELSE 0]]
      BY DEF Tick
    <2> QED BY <1>1, <2>1 DEF Components
  <1>3. /\ a \in 0..StopTimeout /\ p \in 0..Full /\ q \in 0..Rollback
        /\ ages \in [Handles -> 0..Cleanup]
    <2>1. /\ c.stop_age \in 0..StopTimeout /\ c.phase_age \in 0..Full
          /\ c.pending_age \in 0..Rollback /\ \A h \in Handles : c.age[h] \in 0..Cleanup
      BY <1>1 DEF Components
    <2> QED BY <2>1, LimitsAreNat
  <1>4. ASSUME NEW h \in Handles, c.task[h] \in {"stopping", "freed"}
        PROVE  c.ml = None /\ c.in_progress /\ a = ages[h]
    <2>1. c.ml = None /\ c.in_progress /\ c.stop_age = c.age[h] BY <1>1, <1>4 DEF Fine, Waits
    <2>2. c.task[h] = "stopping" /\ c.age[h] < Cleanup BY <1>4 DEF Tick
    <2>3. c.age[h] \in 0..Cleanup BY <1>1 DEF Components
    <2>4. a = c.stop_age + 1 /\ ages[h] = c.age[h] + 1 BY <2>1, <2>2, <2>3, LimitsAreNat
    <2> QED BY <2>1, <2>4
  <1> HIDE DEF a, p, q, ages
  <1>5. s \in Components
    <2> DEFINE s1 == [c EXCEPT !.stop_age = a, !.phase_age = p]
               s2 == [s1 EXCEPT !.pending_age = q, !.age = ages]
    <2>1. s = s2 OBVIOUS
    <2>2. s1 \in Components BY <1>1, <1>3 DEF Components
    <2> HIDE DEF s1
    <2>3. s2 \in Components BY <1>3, <2>2 DEF Components
    <2> QED BY <2>1, <2>3
  <1>6. /\ s.ml = c.ml /\ s.active = c.active /\ s.task = c.task /\ s.age = ages
        /\ s.stop_age = a /\ s.in_progress = c.in_progress
    BY <1>1 DEF Components
  <1> HIDE DEF s
  <1>7. Waits(s) BY <1>4, <1>6 DEF Waits
  <1>8. Owner(s) /\ Single(s) BY <1>1, <1>6 DEF Fine, Owner, Single
  <1>9. Fine(s) BY <1>1, <1>5, <1>6, <1>7, <1>8 DEF Fine
  <1>10. Fine(c') BY <1>2, <1>9
  <1>11. Others' BY DEF IInv, Others, Tick
  <1> QED BY <1>10, <1>11 DEF IInv, Fine, Owner, Waits, Single, Components

LEMMA ConnectionKeeps == \A h \in Handles : IInv /\ (Disconnected(h) \/ Connected(h)) => IInv'
  <1> SUFFICES ASSUME NEW h \in Handles, IInv, Disconnected(h) \/ Connected(h) PROVE IInv'
    OBVIOUS
  <1>1. UNCHANGED c /\ Others' BY DEF IInv, Others, Disconnected, Connected
  <1> QED BY <1>1, OthersKeep

LEMMA SurroundingsKeep == IInv /\ (Api \/ Network) => IInv'
  <1> SUFFICES ASSUME IInv, Api \/ Network PROVE IInv' OBVIOUS
  <1>1. UNCHANGED c /\ Others' BY DEF IInv, Others, Api, Network
  <1> QED BY <1>1, OthersKeep
-----------------------------------------------------------------------------
\* The inductive invariant: there is one handle, it is the component's while its
\* tasks run, and while it is being stopped the clock start_microlink_ goes by
\* shows how long that has taken.
THEOREM Invariance == Spec => []IInv
  <1>1. IInv /\ [Next]_vars => IInv'
    <2> SUFFICES ASSUME IInv, [Next]_vars PROVE IInv' OBVIOUS
    <2>1. CASE Loop BY <2>1, LoopKeeps
    <2>2. CASE StopTimer BY <2>2, StopTimerKeeps
    <2>3. CASE RequestReconnect BY <2>3, RequestReconnectKeeps
    <2>4. CASE ConfirmRollback BY <2>4, ConfirmRollbackKeeps
    <2>5. CASE SaveKey BY <2>5, SaveKeyKeeps
    <2>6. CASE Reboot BY <2>6, RebootKeeps
    <2>7. CASE \E e \in BOOLEAN : SetEnabled(e) BY <2>7, SetEnabledKeeps
    <2>8. CASE \E h \in Handles : Tasks(h)
      BY <2>8, ConnectionKeeps, ToldKeeps, StopTaskKeeps DEF Tasks
    <2>9. CASE Api \/ Network BY <2>9, SurroundingsKeep
    <2>10. CASE Tick BY <2>10, TickKeeps
    <2>11. CASE UNCHANGED vars
      <3>1. UNCHANGED c /\ Others' BY <2>11 DEF vars, IInv, Others
      <3> QED BY <3>1, OthersKeep
    <2> QED BY <2>1, <2>2, <2>3, <2>4, <2>5, <2>6, <2>7, <2>8, <2>9, <2>10, <2>11 DEF Next
  <1> QED BY Begins, <1>1, PTL DEF Spec

\* The component's fields keep their types, and the handle it uses is one whose
\* tasks run.
THEOREM TypeCorrect == Spec => []TypeOK
  <1>1. IInv => TypeOK
    <2> SUFFICES ASSUME IInv PROVE TypeOK OBVIOUS
    <2>1. c \in Components /\ c.active \in {c.ml, None} BY DEF IInv, Fine
    <2>2. c.ml # None => c.task[c.ml] = "run"
      BY <2>1 DEF IInv, Fine, Owner, Components
    <2> QED BY <2>1, <2>2 DEF IInv, Others, TypeOK
  <1> QED BY Invariance, <1>1, PTL

\* Whatever stops a handle and whatever starts the next, two never exist at
\* once (start_microlink_, microlink_stop_task), for every set of handles and
\* every time limit with Cleanup < StopTimeout.
THEOREM SingleCorrect == Spec => []SingleInstance
  <1>1. IInv => SingleInstance
    <2> SUFFICES ASSUME IInv PROVE SingleInstance OBVIOUS
    <2> DEFINE alive == {h \in Handles : c.task[h] \in {"run", "stopping"}}
    <2>1. CASE alive = {}
      <3>1. Cardinality(alive) = 0 BY <2>1, FS_EmptySet
      <3> QED BY <3>1 DEF SingleInstance
    <2>2. CASE alive # {}
      <3>1. PICK h \in alive : TRUE BY <2>2
      <3>2. \A g \in alive : g = h BY <3>1 DEF IInv, Fine, Single
      <3>3. alive = {h} BY <3>1, <3>2
      <3>4. Cardinality(alive) = 1 BY <3>3, FS_Singleton
      <3> QED BY <3>4 DEF SingleInstance
    <2> QED BY <2>1, <2>2
  <1> QED BY Invariance, <1>1, PTL
=============================================================================
