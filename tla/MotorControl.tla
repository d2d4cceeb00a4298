------------------------------ MODULE MotorControl ------------------------------
(***************************************************************************)
(* Startup and fault handling of the closed-loop motors                    *)
(* (src/extras/motor_control.py, class MotorControl).  Every exchange with *)
(* a motor board suspends the greenlet that makes it, so the startup       *)
(* handler, the verification of a stall pin, the periodic poll, a G-code   *)
(* command and the deferred cleanup interleave between exchanges.  The     *)
(* kinematic axes share the RS-485 bus, which queues its users; the        *)
(* extruder board is behind the nozzle MCU, whose transport refuses a      *)
(* second user.  Homing itself (klippy's homing object) is outside the     *)
(* repository: it is modelled by the calls and events this code exchanges  *)
(* with it.                                                                *)
(***************************************************************************)
EXTENDS Naturals, FiniteSets

CONSTANTS
    Kinematic,      \* the axes whose fault stops the printer
    Extruder,       \* the axis whose fault pauses the print and is cleared
    AutoRetryLimit, \* STARTUP_AUTO_RETRY_LIMIT
    Events,         \* the G-code commands that are given, and whether boards warn
    RetryMidStep,   \* whether MOTOR_RETRY_STARTUP may come before a startup ends
    MaxFaults,      \* bound on the faults and warnings the boards latch
    MaxLosses       \* bound on the exchanges that fail after their retries

ASSUME AxesAssumption == Extruder \notin Kinematic /\ IsFiniteSet(Kinematic)
ASSUME BoundsAssumption == /\ AutoRetryLimit \in Nat
                           /\ MaxFaults \in Nat
                           /\ MaxLosses \in Nat
                           /\ RetryMidStep \in BOOLEAN
                           /\ Events \subseteq {"print", "clear_error", "home", "cut", "retry", "warn"}

Axes == Kinematic \cup {Extruder}

VARIABLES
    startup,    \* the startup sequence: its flags, its timer and its progress
    cleanup,    \* the deferred fault cleanup that is pending
    latch,      \* the protection latch of each board
    busy,       \* _send_busy of the nozzle transport
    g,          \* the greenlets: where each one is suspended and what it has read
    homing,     \* klippy's homing session and the homing moves counted here
    cut,        \* the cut-position check: off, on, or on with its latch set
    print,      \* print_stats and pause_command_sent
    stopped,    \* what shut the printer down, or "none"
    signalled,  \* history: axes whose last stall event was sent to recovery
    clean,      \* history: the extruder was without error since RESUME began
    faults, losses

vars == <<startup, cleanup, latch, busy, g, homing, cut, print, stopped,
          signalled, clean, faults, losses>>

---------------------------------------------------------------------------
(* The greenlets.                                                          *)

Handlers == {"s1", "s2"}      \* runs of _startup_handler
Cleaners == {"c1", "c2"}      \* runs of _fault_cleanup_handler
Greenlets == Axes \cup {"poll", "gcode"} \cup Handlers \cup Cleaners

ASSUME NamesAssumption ==
    Axes \cap ({"none", "poll", "gcode"} \cup Handlers \cup Cleaners) = {}

Steps == 0..6
Check == 3
Clear == 4
Recheck == 5

\* Where a greenlet waits for the answers to a protection query ...
Asking == {"verify", "recheck", "poll", "probe", "check", "startup_recheck", "confirm",
           "require", "require_recheck", "precheck", "postcheck",
           "home_before", "home_after"}
\* ... and where it sends unacknowledged clears.
Clearing == {"recover", "startup_clear", "cleanup", "require_clear",
             "clear_error", "home_clear"}

Requiring == {"require", "require_clear", "require_recheck"}

\* A greenlet that is not running, and one that starts an exchange with `axes`.
Idle == [at |-> "idle", todo |-> {}, sent |-> FALSE, lost |-> FALSE,
         err |-> {}, act |-> {}, stop |-> {}, during |-> FALSE, step |-> 0]
Exchange(p, at, axes) ==
    [g[p] EXCEPT !.at = at, !.todo = axes, !.lost = FALSE, !.err = {}, !.act = {}]

Goes(p, at, axes) == g' = [g EXCEPT ![p] = Exchange(p, at, axes)]
Ends(p) == g' = [g EXCEPT ![p] = Idle]
Answered(p, at) == g[p].at = at /\ g[p].todo = {}

Running == stopped = "none"

\* _is_homing_context_active: a homing move, a session or its abort.
HomingContext == homing.depth > 0 \/ homing.session \/ homing.aborting

NoCleanup == [pending |-> FALSE, timer |-> FALSE, axes |-> {},
              homing |-> FALSE, startup |-> FALSE]

TypeOK ==
    /\ startup \in [started: BOOLEAN, complete: BOOLEAN, ready: BOOLEAN,
                    failed: BOOLEAN, timer: BOOLEAN, mayRetry: BOOLEAN,
                    index: 0..8, retries: 0..AutoRetryLimit,
                    active: SUBSET Axes, passed: SUBSET Steps]
    /\ cleanup \in [pending: BOOLEAN, timer: BOOLEAN, axes: SUBSET Axes,
                    homing: BOOLEAN, startup: BOOLEAN]
    /\ latch \in [Axes -> {"none", "warn", "error"}]
    /\ busy \in BOOLEAN
    /\ g \in [Greenlets ->
                [at: {"idle", "overrides", "noted", "homing", "cut"} \cup Asking \cup Clearing,
                 todo: SUBSET Axes, sent: BOOLEAN, lost: BOOLEAN,
                 err: SUBSET Axes, act: SUBSET Axes, stop: SUBSET Axes,
                 during: BOOLEAN, step: Steps]]
    /\ homing \in [depth: 0..1, session: BOOLEAN, aborting: BOOLEAN]
    /\ cut \in {"off", "on", "latched"}
    /\ print \in {"standby", "printing", "pausing", "paused"}
    /\ stopped \in {"none", "poll"} \cup Axes
    /\ signalled \subseteq Axes
    /\ clean \in BOOLEAN
    /\ faults \in 0..MaxFaults
    /\ losses \in 0..MaxLosses

Init ==
    /\ startup = [started |-> FALSE, complete |-> FALSE, ready |-> FALSE,
                  failed |-> FALSE, timer |-> FALSE, mayRetry |-> TRUE,
                  index |-> 0, retries |-> 0, active |-> {}, passed |-> {}]
    /\ cleanup = NoCleanup
    /\ latch = [a \in Axes |-> "none"]
    /\ busy = FALSE
    /\ g = [p \in Greenlets |-> Idle]
    /\ homing = [depth |-> 0, session |-> FALSE, aborting |-> FALSE]
    /\ cut = "off"
    /\ print = "standby"
    /\ stopped = "none"
    /\ signalled = {}
    /\ clean = FALSE
    /\ faults = 0
    /\ losses = 0

---------------------------------------------------------------------------
(* Exchanges with the boards.                                              *)

\* What the answer of axis a adds to a query's result.
Reads(p, a) ==
    [g[p] EXCEPT !.todo = @ \ {a}, !.sent = FALSE,
                 !.act = IF latch[a] = "none" THEN @ ELSE @ \cup {a},
                 !.err = IF latch[a] = "error" THEN @ \cup {a} ELSE @]

\* An exchange that raises ends the query; the poll queries each axis by itself
\* and goes on with the next.
Raises(p, a) ==
    IF g[p].at = "poll"
      THEN [g[p] EXCEPT !.todo = @ \ {a}, !.sent = FALSE]
      ELSE [g[p] EXCEPT !.todo = {}, !.sent = FALSE, !.lost = TRUE]

\* One protection query on the RS-485 bus: the board answers, or both attempts
\* of the firmware client fail.
AskSerial(p) ==
    /\ Running
    /\ g[p].at \in Asking
    /\ \E a \in g[p].todo \cap Kinematic :
         \/ g' = [g EXCEPT ![p] = Reads(p, a)] /\ UNCHANGED losses
         \/ losses < MaxLosses /\ losses' = losses + 1
            /\ g' = [g EXCEPT ![p] = Raises(p, a)]
    /\ UNCHANGED <<startup, cleanup, latch, busy, homing, cut, print, stopped,
                   signalled, clean, faults>>

\* The clear of a kinematic axis has no answer: the board drops its latch, or
\* keeps it (the frame is lost, or the cause persists).
ClearSerial(p) ==
    /\ Running
    /\ g[p].at \in Clearing
    /\ \E a \in g[p].todo \cap Kinematic :
         /\ latch' \in {latch, [latch EXCEPT ![a] = "none"]}
         /\ g' = [g EXCEPT ![p].todo = @ \ {a}]
    /\ UNCHANGED <<startup, cleanup, busy, homing, cut, print, stopped,
                   signalled, clean, faults, losses>>

\* An exchange with the extruder board (always the last of its query) raises at
\* once when another greenlet's is under way.
SendNozzle(p) ==
    /\ Running
    /\ g[p].at \in Asking \cup Clearing
    /\ g[p].todo = {Extruder} /\ ~g[p].sent
    /\ \/ busy /\ g' = [g EXCEPT ![p] = Raises(p, Extruder)] /\ UNCHANGED busy
       \/ ~busy /\ busy' = TRUE /\ g' = [g EXCEPT ![p].sent = TRUE]
    /\ UNCHANGED <<startup, cleanup, latch, homing, cut, print, stopped,
                   signalled, clean, faults, losses>>

\* The extruder board answers or the wait ends; `finally` frees the transport.
NozzleAnswers(p) ==
    /\ Running
    /\ g[p].sent
    /\ busy' = FALSE
    /\ \/ /\ g[p].at \in Asking
          /\ g' = [g EXCEPT ![p] = Reads(p, Extruder)]
          /\ UNCHANGED <<latch, losses>>
       \/ /\ g[p].at \in Asking
          /\ losses < MaxLosses /\ losses' = losses + 1
          /\ g' = [g EXCEPT ![p] = Raises(p, Extruder)]
          /\ UNCHANGED latch
       \/ /\ g[p].at \in Clearing
          /\ latch' \in {latch, [latch EXCEPT ![Extruder] = "none"]}
          /\ g' = [g EXCEPT ![p].todo = {}, ![p].sent = FALSE]
          /\ UNCHANGED losses
    /\ clean' = (clean \/ (g["gcode"].at \in Requiring /\ latch'[Extruder] # "error"))
    /\ UNCHANGED <<startup, cleanup, homing, cut, print, stopped, signalled,
                   faults>>

---------------------------------------------------------------------------
(* The startup sequence.                                                   *)

\* _reset_startup_state; `again` is the reset between two automatic attempts.
ResetKeepsIndex(s, again) ==
    [s EXCEPT !.started = TRUE, !.complete = FALSE, !.ready = FALSE,
              !.failed = FALSE, !.active = {}, !.passed = {},
              !.retries = IF again THEN @ + 1 ELSE 0,
              !.mayRetry = IF again THEN @ ELSE TRUE]
Reset(s, again) ==
    [s EXCEPT !.started = TRUE, !.complete = FALSE, !.ready = FALSE,
              !.failed = FALSE, !.index = 0, !.active = {}, !.passed = {},
              !.retries = IF again THEN @ + 1 ELSE 0,
              !.mayRetry = IF again THEN @ ELSE TRUE]

\* serial_485:ready starts the first startup and no other.
SerialReady ==
    /\ ~startup.started /\ Running
    /\ startup' = [Reset(startup, FALSE) EXCEPT !.timer = TRUE]
    /\ cleanup' = NoCleanup
    /\ UNCHANGED <<latch, busy, g, homing, cut, print, stopped, signalled,
                   clean, faults, losses>>

\* MOTOR_RETRY_STARTUP starts over, without automatic attempts.  It is given
\* while nothing is printed.
RetryStartup ==
    /\ Running /\ startup.started /\ g["gcode"] = Idle /\ print = "standby"
    /\ "retry" \in Events /\ (RetryMidStep \/ startup.complete)
    /\ startup' = [Reset(startup, FALSE) EXCEPT !.timer = TRUE, !.mayRetry = FALSE]
    /\ cleanup' = NoCleanup
    /\ UNCHANGED <<latch, busy, g, homing, cut, print, stopped, signalled,
                   clean, faults, losses>>

\* What each step exchanges: discovery of the serial boards and of the extruder,
\* the stall mode of all, the protection check and, for the axes it finds, the
\* clear and the recheck; the overrides are a step whose exchanges do not matter
\* here (see MotorParams).
StepAt(i) == CASE i < Check   -> "probe"
               [] i = Check   -> "check"
               [] i = Clear   -> "startup_clear"
               [] i = Recheck -> "startup_recheck"
               [] OTHER       -> "overrides"
StepAxes(i) == CASE i = 0 -> Kinematic
                 [] i = 1 -> {Extruder}
                 [] i \in {2, Check} -> Axes
                 [] i \in {Clear, Recheck} -> startup.active
                 [] OTHER -> {}

\* _startup_handler fires: it ends the startup, or begins the step of the index.
\* The reactor starts another greenlet when the timer was set again during a step.
StartupFires(p) ==
    /\ Running /\ startup.timer
    /\ g[p] = Idle /\ (p = "s2" => g["s1"] # Idle)
    /\ LET over == ~startup.complete /\ startup.index \notin Steps
           step == [Idle EXCEPT !.at = StepAt(startup.index),
                                !.todo = StepAxes(startup.index),
                                !.step = startup.index]
       IN  /\ startup' = [startup EXCEPT !.timer = FALSE, !.ready = @ \/ over,
                                         !.complete = @ \/ over]
           /\ g' = IF startup.complete \/ over THEN g ELSE [g EXCEPT ![p] = step]
    /\ UNCHANGED <<cleanup, latch, busy, homing, cut, print, stopped,
                   signalled, clean, faults, losses>>

\* A step returns: the index moves on and the timer is due at once.
StepSucceeds(p, active) ==
    /\ startup' = [startup EXCEPT !.index = @ + 1, !.timer = TRUE,
                                  !.active = active,
                                  !.passed = @ \cup {g[p].step}]
    /\ UNCHANGED cleanup

\* A step raises: another attempt, or the startup is over and has failed.
StepFailsUncounted(p) ==
    /\ startup' = [Reset(startup, FALSE) EXCEPT !.timer = TRUE]
    /\ cleanup' = NoCleanup
StepFails(p) ==
    IF startup.mayRetry /\ startup.retries < AutoRetryLimit
      THEN /\ startup' = [Reset(startup, TRUE) EXCEPT !.timer = TRUE]
           /\ cleanup' = NoCleanup
      ELSE /\ startup' = [startup EXCEPT !.complete = TRUE, !.ready = FALSE,
                                         !.failed = TRUE, !.timer = FALSE]
           /\ UNCHANGED cleanup

\* A step that could not make its exchanges raises, and so does the recheck when
\* an error is still there; applying the overrides reports a board that does not
\* answer and goes on, but raises on a value that the parameter cannot take.
StepEnds(p) ==
    /\ Running
    /\ \/ /\ g[p].at = "overrides"
          /\ StepSucceeds(p, startup.active) \/ StepFails(p)
       \/ /\ \E at \in {"probe", "check", "startup_clear", "startup_recheck"} :
               Answered(p, at)
          /\ IF g[p].lost \/ (g[p].step = Recheck /\ g[p].err # {})
               THEN StepFails(p)
               ELSE StepSucceeds(p, IF g[p].step = Check THEN g[p].act
                                                         ELSE startup.active)
    /\ Ends(p)
    /\ UNCHANGED <<latch, busy, homing, cut, print, stopped, signalled,
                   clean, faults, losses>>

---------------------------------------------------------------------------
(* Faults at run time.                                                     *)

\* _handle_shutdown, run by invoke_shutdown: nothing is ready, no timer is due.
Down(s) == [s EXCEPT !.ready = FALSE, !.timer = FALSE]

\* _schedule_fault_cleanup.
Scheduled(axes, why) ==
    [cleanup EXCEPT !.pending = TRUE, !.timer = TRUE, !.axes = @ \cup axes,
                    !.homing = @ \/ why = "homing",
                    !.startup = @ \/ why = "startup"]

\* The kinematic part of a fault: outside homing the printer stops, during homing
\* the homing object is asked to abort, and if that raises the cleanup is deferred.
StopOrAbort(p, axes, during) ==
    /\ Ends(p)
    /\ \/ /\ axes = {}
          /\ UNCHANGED <<startup, stopped, homing, cleanup>>
       \/ /\ axes # {} /\ ~during
          /\ stopped' = p
          /\ startup' = Down(startup)
          /\ UNCHANGED <<homing, cleanup>>
       \/ /\ axes # {} /\ during
          /\ homing' = [homing EXCEPT !.aborting = homing.session]
          /\ UNCHANGED <<startup, stopped, cleanup>>
       \/ /\ axes # {} /\ during
          /\ cleanup' = Scheduled(axes, "homing")
          /\ UNCHANGED <<startup, stopped, homing>>

\* _handle_active_fault: warnings are only reported; while a startup runs the
\* faults are left to the deferred cleanup; an extruder fault pauses the print and
\* is cleared and rechecked before the kinematic faults found with it are handled.
HandleActiveFault(p, errors, during) ==
    IF errors # {} /\ startup.started /\ ~startup.complete
      THEN /\ Ends(p)
           /\ cleanup' = Scheduled(errors, "startup")
           /\ UNCHANGED <<startup, homing, print, stopped>>
    ELSE IF Extruder \in errors
      THEN /\ g' = [g EXCEPT ![p] = [Idle EXCEPT
                     !.at = "recover", !.todo = {Extruder},
                     !.stop = errors \cap Kinematic, !.during = during]]
           /\ print' = IF print = "printing" THEN "pausing" ELSE print
           /\ UNCHANGED <<startup, cleanup, homing, stopped>>
      ELSE /\ StopOrAbort(p, errors, during)
           /\ UNCHANGED print

\* note_stall_pin_event, for a stall pin that rises while the motors are ready
\* (_dispatch_group reports changes only).  For the x axis during a cut-position
\* check it sets the latch of the check; otherwise it is sent to power-loss
\* recovery unless a homing is going on, and its verification is queued with
\* that fact.  One verification of an axis at a time (STALL_EVENT_MIN_INTERVAL).
NoteStallPinEvent(a) ==
    IF ~(startup.complete /\ startup.ready) \/ g[a] # Idle
      THEN UNCHANGED <<cut, g, signalled>>
    ELSE IF a = "x" /\ cut # "off"
      THEN cut' = "latched" /\ UNCHANGED <<g, signalled>>
      ELSE /\ g' = [g EXCEPT ![a] = [Idle EXCEPT !.at = "noted",
                                                 !.during = HomingContext]]
           /\ signalled' = IF HomingContext \/ a \notin Kinematic
                             THEN signalled \ {a} ELSE signalled \cup {a}
           /\ UNCHANGED cut

\* A board latches a warning, or an error, which raises its stall pin.
Warn(a) ==
    /\ Running
    /\ faults < MaxFaults /\ faults' = faults + 1
    /\ "warn" \in Events /\ latch[a] = "none" /\ latch' = [latch EXCEPT ![a] = "warn"]
    /\ UNCHANGED <<startup, cleanup, busy, g, homing, cut, print, stopped,
                   signalled, clean, losses>>
Fault(a) ==
    /\ Running
    /\ faults < MaxFaults /\ faults' = faults + 1
    /\ latch[a] # "error" /\ latch' = [latch EXCEPT ![a] = "error"]
    /\ NoteStallPinEvent(a)
    /\ UNCHANGED <<startup, cleanup, busy, homing, print, stopped, clean, losses>>

\* _reactor_stall_query: the homing context is the one of the event or of now.
VerifyAfresh(a) ==
    /\ Running
    /\ g[a].at = "noted"
    /\ g' = [g EXCEPT ![a] = [Idle EXCEPT !.at = "verify", !.todo = {a},
                                          !.during = HomingContext]]
    /\ UNCHANGED <<startup, cleanup, latch, busy, homing, cut, print, stopped,
                   signalled, clean, faults, losses>>
Verify(a) ==
    /\ Running
    /\ g[a].at = "noted"
    /\ g' = [g EXCEPT ![a] = [Exchange(a, "verify", {a}) EXCEPT
                                !.during = @ \/ HomingContext]]
    /\ UNCHANGED <<startup, cleanup, latch, busy, homing, cut, print, stopped,
                   signalled, clean, faults, losses>>

\* An answer that does not come counts as a fault (_handle_unverified_axis_fault).
Verified(a) ==
    /\ Running
    /\ Answered(a, "verify")
    /\ HandleActiveFault(a, IF g[a].lost THEN {a} ELSE g[a].err, g[a].during)
    /\ UNCHANGED <<latch, busy, cut, signalled, clean, faults, losses>>

\* _protection_poll_handler: every minute, unless a cleanup is pending.
PollFires ==
    /\ Running
    /\ startup.complete /\ startup.ready /\ ~cleanup.pending
    /\ g["poll"] = Idle
    /\ Goes("poll", "poll", Axes)
    /\ UNCHANGED <<startup, cleanup, latch, busy, homing, cut, print, stopped,
                   signalled, clean, faults, losses>>

\* The poll takes the homing context when it has all its answers.
PolledOnly ==
    /\ Running
    /\ Answered("poll", "poll")
    /\ Ends("poll")
    /\ UNCHANGED <<startup, cleanup, latch, busy, homing, cut, print, stopped,
                   signalled, clean, faults, losses>>
Polled ==
    /\ Running
    /\ Answered("poll", "poll")
    /\ HandleActiveFault("poll", g["poll"].err, HomingContext)
    /\ UNCHANGED <<latch, busy, cut, signalled, clean, faults, losses>>

\* _handle_runtime_recoverable_fault after its clear, and after its recheck:
\* whatever came of the extruder, the kinematic faults are handled next.
Recovering(p) ==
    /\ Running
    /\ Answered(p, "recover")
    /\ IF g[p].lost
         THEN StopOrAbort(p, g[p].stop, g[p].during)
         ELSE /\ Goes(p, "recheck", {Extruder})
              /\ UNCHANGED <<startup, cleanup, homing, stopped>>
    /\ UNCHANGED <<latch, busy, cut, print, signalled, clean, faults, losses>>

Recovered(p) ==
    /\ Running
    /\ Answered(p, "recheck")
    /\ StopOrAbort(p, g[p].stop, g[p].during)
    /\ UNCHANGED <<latch, busy, cut, print, signalled, clean, faults, losses>>

---------------------------------------------------------------------------
(* The deferred cleanup.                                                   *)

\* _fault_cleanup_handler fires when the toolhead and the homing are idle.
CleanupFires(p) ==
    /\ Running
    /\ cleanup.timer
    /\ g[p] = Idle /\ (p = "c2" => g["c1"] # Idle)
    /\ cleanup.pending
    /\ cleanup.homing => ~HomingContext
    /\ g' = [g EXCEPT ![p] = [Idle EXCEPT
               !.at = "cleanup", !.todo = cleanup.axes,
               !.stop = cleanup.axes, !.during = cleanup.startup]]
    /\ cleanup' = [cleanup EXCEPT !.timer = FALSE]
    /\ UNCHANGED <<startup, latch, busy, homing, cut, print, stopped,
                   signalled, clean, faults, losses>>

\* The clears are sent; a fault met by a startup is looked at again, and then
\* nothing is pending any more.
CleanupEnds(p) ==
    /\ Running
    /\ \/ /\ Answered(p, "cleanup")
          /\ g[p].during /\ ~g[p].lost
          /\ Goes(p, "confirm", g[p].stop)
          /\ UNCHANGED cleanup
       \/ /\ \/ Answered(p, "cleanup") /\ (~g[p].during \/ g[p].lost)
             \/ Answered(p, "confirm")
          /\ Ends(p)
          /\ cleanup' = NoCleanup
    /\ UNCHANGED <<startup, latch, busy, homing, cut, print, stopped,
                   signalled, clean, faults, losses>>

---------------------------------------------------------------------------
(* G-code: one command at a time.                                          *)

\* A print starts; PAUSE runs when its turn comes.
PrintStarts ==
    /\ Running
    /\ "print" \in Events /\ print = "standby" /\ g["gcode"] = Idle /\ startup.ready
    /\ print' = "printing"
    /\ UNCHANGED <<startup, cleanup, latch, busy, g, homing, cut, stopped,
                   signalled, clean, faults, losses>>
PauseRuns ==
    /\ Running
    /\ print = "pausing" /\ g["gcode"] = Idle
    /\ print' = "paused"
    /\ UNCHANGED <<startup, cleanup, latch, busy, g, homing, cut, stopped,
                   signalled, clean, faults, losses>>

\* RESUME runs REQUIRE_EXTRUDER_CLEAR first.
Resume ==
    /\ Running
    /\ print = "paused" /\ g["gcode"] = Idle
    /\ Goes("gcode", "require", {Extruder})
    /\ clean' = (latch[Extruder] # "error")
    /\ UNCHANGED <<startup, cleanup, latch, busy, homing, cut, print, stopped,
                   signalled, faults, losses>>

\* The query, one clear and the recheck; the print goes on when an answer says
\* that there is no error.
RequireUnchecked ==
    /\ Running
    /\ \/ /\ \/ Answered("gcode", "require") /\ ~g["gcode"].lost
                /\ g["gcode"].err = {}
             \/ Answered("gcode", "require_clear") /\ ~g["gcode"].lost
          /\ print' = "printing" /\ Ends("gcode")
       \/ /\ Answered("gcode", "require") /\ ~g["gcode"].lost /\ g["gcode"].err # {}
          /\ Goes("gcode", "require_clear", {Extruder}) /\ UNCHANGED print
       \/ /\ \E at \in {"require", "require_clear"} : Answered("gcode", at)
          /\ g["gcode"].lost /\ Ends("gcode") /\ UNCHANGED print
    /\ clean' = (clean /\ g'["gcode"] # Idle)
    /\ UNCHANGED <<startup, cleanup, latch, busy, homing, cut, stopped,
                   signalled, faults, losses>>
RequireExtruderClear ==
    /\ Running
    /\ \/ /\ \E at \in {"require", "require_recheck"} : Answered("gcode", at)
          /\ ~g["gcode"].lost /\ g["gcode"].err = {}
          /\ print' = "printing" /\ Ends("gcode")
       \/ /\ Answered("gcode", "require") /\ ~g["gcode"].lost /\ g["gcode"].err # {}
          /\ Goes("gcode", "require_clear", {Extruder}) /\ UNCHANGED print
       \/ /\ Answered("gcode", "require_clear") /\ ~g["gcode"].lost
          /\ Goes("gcode", "require_recheck", {Extruder}) /\ UNCHANGED print
       \/ /\ \/ Answered("gcode", "require") /\ g["gcode"].lost
             \/ Answered("gcode", "require_clear") /\ g["gcode"].lost
             \/ Answered("gcode", "require_recheck")
                /\ (g["gcode"].lost \/ g["gcode"].err # {})
          /\ Ends("gcode") /\ UNCHANGED print
    /\ clean' = (clean /\ g'["gcode"] # Idle)
    /\ UNCHANGED <<startup, cleanup, latch, busy, homing, cut, stopped,
                   signalled, faults, losses>>

\* MOTOR_CLEAR_ERROR, given after a startup: query all axes, clear the active
\* ones, query again.
ClearErrorBegins ==
    /\ Running
    /\ "clear_error" \in Events /\ startup.complete
    /\ g["gcode"] = Idle /\ Goes("gcode", "precheck", Axes)
    /\ UNCHANGED <<startup, cleanup, latch, busy, homing, cut, print, stopped,
                   signalled, clean, faults, losses>>
ClearError ==
    /\ Running
    /\ \/ /\ Answered("gcode", "precheck")
          /\ ~g["gcode"].lost /\ g["gcode"].act # {}
          /\ Goes("gcode", "clear_error", g["gcode"].act)
       \/ /\ Answered("gcode", "clear_error") /\ ~g["gcode"].lost
          /\ Goes("gcode", "postcheck", Axes)
       \/ /\ \/ Answered("gcode", "precheck")
                /\ (g["gcode"].lost \/ g["gcode"].act = {})
             \/ Answered("gcode", "clear_error") /\ g["gcode"].lost
             \/ Answered("gcode", "postcheck")
          /\ Ends("gcode")
    /\ UNCHANGED <<startup, cleanup, latch, busy, homing, cut, print, stopped,
                   signalled, clean, faults, losses>>

\* get_homing_fault_blocker lets a homing begin.
NoHomingBlocker ==
    /\ ~(startup.started /\ ~startup.complete)
    /\ ~(cleanup.pending /\ ~cleanup.homing)
    /\ ~startup.failed
    /\ startup.ready

\* A homing command: the blocker, then recover_faults_for_homing_start (query,
\* clear the errors, query again), then klippy's session.
HomingBegins ==
    /\ Running
    /\ "home" \in Events /\ g["gcode"] = Idle /\ NoHomingBlocker
    /\ Goes("gcode", "home_before", Kinematic)
    /\ UNCHANGED <<startup, cleanup, latch, busy, homing, cut, print, stopped,
                   signalled, clean, faults, losses>>
HomingStarts ==
    /\ Running
    /\ \/ /\ Answered("gcode", "home_before")
          /\ ~g["gcode"].lost /\ g["gcode"].err # {}
          /\ Goes("gcode", "home_clear", g["gcode"].err)
          /\ UNCHANGED homing
       \/ /\ Answered("gcode", "home_clear")
          /\ Goes("gcode", "home_after", Kinematic)
          /\ UNCHANGED homing
       \/ /\ \E at \in {"home_before", "home_after"} : Answered("gcode", at)
          /\ ~g["gcode"].lost /\ g["gcode"].err = {}
          /\ Goes("gcode", "homing", {})
          /\ homing' = [homing EXCEPT !.session = TRUE]
       \/ /\ \/ Answered("gcode", "home_before") /\ g["gcode"].lost
             \/ Answered("gcode", "home_after")
                /\ (g["gcode"].lost \/ g["gcode"].err # {})
          /\ Ends("gcode")
          /\ UNCHANGED homing
    /\ UNCHANGED <<startup, cleanup, latch, busy, cut, print, stopped,
                   signalled, clean, faults, losses>>

\* homing_move_begin and homing_move_end.
HomingMove ==
    /\ Running
    /\ g["gcode"].at = "homing"
    /\ homing' = [homing EXCEPT !.depth = 1 - @]
    /\ homing.depth = 0 => ~homing.aborting
    /\ UNCHANGED <<startup, cleanup, latch, busy, g, cut, print, stopped,
                   signalled, clean, faults, losses>>

\* The homing command returns, or fails: gcode:command_error resets the depth
\* and a cleanup that waits for the end of the homing is due.
HomingEnds ==
    /\ Running
    /\ g["gcode"].at = "homing"
    /\ homing' = [depth |-> 0, session |-> FALSE, aborting |-> FALSE]
    /\ Ends("gcode")
    /\ cleanup' = [cleanup EXCEPT !.timer = @ \/ (homing.depth > 0 /\ cleanup.pending
                                                  /\ cleanup.homing)]
    /\ UNCHANGED <<startup, latch, busy, cut, print, stopped, signalled,
                   clean, faults, losses>>

\* CALIBRATE_CUT_POS starts the cut-position check, takes its latch, and stops it.
CutCheck ==
    /\ Running
    /\ \/ /\ "cut" \in Events /\ g["gcode"] = Idle /\ startup.ready
          /\ print = "standby"
          /\ cut' = "on" /\ Goes("gcode", "cut", {})
       \/ g["gcode"].at = "cut" /\ cut = "latched" /\ cut' = "on" /\ UNCHANGED g
       \/ g["gcode"].at = "cut" /\ cut' = "off" /\ Ends("gcode")
    /\ UNCHANGED <<startup, cleanup, latch, busy, homing, print, stopped,
                   signalled, clean, faults, losses>>

---------------------------------------------------------------------------
\* The steps of a greenlet with an exchange, and those that follow its last answer.
Exchanges(p) == AskSerial(p) \/ ClearSerial(p) \/ SendNozzle(p) \/ NozzleAnswers(p)
RunsOn(p) ==
    \/ p \in Handlers /\ StepEnds(p)
    \/ p \in Axes /\ Verified(p)
    \/ p = "poll" /\ Polled
    \/ p \in Cleaners /\ CleanupEnds(p)
    \/ p = "gcode" /\ (RequireExtruderClear \/ ClearError \/ HomingStarts)
    \/ Recovering(p)
    \/ Recovered(p)

\* A greenlet runs on as soon as its last answer is in: until then no other
\* step is taken.
Quiet == \A p \in Greenlets : g[p].at \in Asking \cup Clearing => g[p].todo # {}

Next ==
    \/ \E p \in Greenlets : RunsOn(p)
    \/ /\ Quiet
       /\ \/ SerialReady
          \/ RetryStartup
          \/ \E p \in Handlers : StartupFires(p)
          \/ \E p \in Greenlets : Exchanges(p)
          \/ \E a \in Axes : Warn(a) \/ Fault(a) \/ Verify(a)
          \/ PollFires
          \/ \E p \in Cleaners : CleanupFires(p)
          \/ PrintStarts
          \/ PauseRuns
          \/ Resume
          \/ ClearErrorBegins
          \/ HomingBegins
          \/ HomingMove
          \/ HomingEnds
          \/ CutCheck

Spec == Init /\ [][Next]_vars

\* The reactor runs every timer and greenlet that is due; commands, homing moves
\* and faults come when they come.  (An action that has to wait for Quiet stays
\* enabled meanwhile: its fairness does not mention Quiet.)
Fairness ==
    /\ WF_vars(SerialReady)
    /\ WF_vars(\E p \in Greenlets : RunsOn(p))
    /\ WF_vars(\E p \in Handlers : StartupFires(p))
    /\ WF_vars(\E p \in Handlers : StepEnds(p))
    /\ \A p \in Greenlets \ {"gcode"} : WF_vars(Exchanges(p))
    /\ \A a \in Axes : WF_vars(Verify(a))
    /\ WF_vars(PollFires)
    /\ WF_vars(\E p \in Cleaners : CleanupFires(p))

FairSpec == Spec /\ Fairness

---------------------------------------------------------------------------
(* Properties.                                                             *)

\* The motors are reported ready only when every startup step has succeeded
\* since the sequence last began: a retry repeats discovery, stall modes,
\* protection check and overrides, whatever the failed attempt had done.
ReadyMeansStarted == startup.ready => startup.passed = Steps

\* A stall event that shuts the printer down was sent to power-loss recovery
\* first, so that the position at the fault can be recovered: an event noted
\* during a homing, which is not sent, never ends in a shutdown, even when the
\* homing is over before the board has answered.
StallStopSignalled == \A a \in Kinematic : stopped = a => a \in signalled

\* RESUME continues a print only if the extruder board was without error at some
\* moment since RESUME began.
ResumeClean == [][print = "paused" /\ print' = "printing" => clean]_vars

\* A startup ends, ready or failed: its automatic attempts run out.
StartupEnds == startup.started ~> (startup.complete \/ ~Running)

\* A latched kinematic error that nobody clears stops the printer, even when no
\* stall event was noted or its handling went astray, unless homing takes over
\* or the motors stop being ready.
KinematicFaultStops ==
    \A a \in Kinematic :
        (latch[a] = "error" /\ startup.ready)
            ~> (~Running \/ latch[a] # "error" \/ ~startup.ready \/ HomingContext)

=============================================================================
