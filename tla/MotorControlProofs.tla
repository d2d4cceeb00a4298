-------------------------- MODULE MotorControlProofs --------------------------
(***************************************************************************)
(* Proofs about MotorControl: the types of its variables, and what the     *)
(* runs motor_startup and motor_faults check of the startup sequence, of   *)
(* RESUME and of a stall that stops the printer.                           *)
(***************************************************************************)
EXTENDS MotorControl, TLAPS

-----------------------------------------------------------------------------
(* The inductive invariants.                                               *)

Places == {"idle", "overrides", "noted", "homing", "cut"} \cup Asking \cup Clearing

\* What a greenlet is.
Greenlet == [at: Places, todo: SUBSET Axes, sent: BOOLEAN, lost: BOOLEAN,
             err: SUBSET Axes, act: SUBSET Axes, stop: SUBSET Axes,
             during: BOOLEAN, step: Steps]

\* What `startup` is.
Startup == [started: BOOLEAN, complete: BOOLEAN, ready: BOOLEAN, failed: BOOLEAN,
            timer: BOOLEAN, mayRetry: BOOLEAN, index: 0..8, retries: 0..AutoRetryLimit,
            active: SUBSET Axes, passed: SUBSET Steps]

\* Runs of the startup handler that are under way: each moves the index once more.
Moving(p) == IF g[p] = Idle THEN 0 ELSE 1
IndexBound == startup.index + Moving("s1") + Moving("s2") <= 8

\* Only the verification of an axis and the poll recover a fault.
RecoverPlaces ==
    \A p \in Greenlets : g[p].at \in {"recover", "recheck"} => p \in Axes \cup {"poll"}

TypeInv == TypeOK /\ IndexBound /\ RecoverPlaces

\* A verification that takes its event for one outside homing is of an event that
\* was sent to recovery.
Handling == {"noted", "verify", "recover", "recheck"}
Heeded ==
    \A a \in Kinematic :
        g[a].at \in Handling /\ ~g[a].during => a \in signalled
StallInv == Heeded /\ StallStopSignalled

\* The places of a run of the startup handler.
StepPlaces == {"probe", "check", "startup_clear", "startup_recheck", "overrides"}

\* One run of the handler at a time, of the step of the index, and only while the
\* startup is neither over nor waits for its timer ...
OneStep ==
    /\ startup.timer => startup.started
    /\ g["s2"] = Idle
    /\ g["s1"] # Idle =>
         /\ g["s1"].at \in StepPlaces
         /\ g["s1"].step = startup.index
         /\ startup.started /\ ~startup.complete /\ ~startup.timer
\* ... so that the steps that have succeeded are the ones before the index.
InOrder ==
    /\ startup.index \in 0..7
    /\ startup.passed = 0..(startup.index - 1)
    /\ startup.ready => startup.complete /\ startup.index = 7
StartInv == OneStep /\ InOrder

\* The answer that lets RESUME go on was given since it began.
AnswerClean ==
    /\ g["gcode"].at \in Requiring => g["gcode"].todo \subseteq {Extruder}
    /\ g["gcode"].at \in Requiring /\ g["gcode"].at # "require_clear"
       /\ g["gcode"].todo = {} /\ ~g["gcode"].lost /\ g["gcode"].err = {}
          => clean

-----------------------------------------------------------------------------
(* Types.                                                                  *)

LEMMA Names ==
    /\ Kinematic \subseteq Axes /\ Extruder \in Axes
    /\ Axes \subseteq Greenlets /\ {"poll", "gcode"} \subseteq Greenlets
    /\ Handlers \subseteq Greenlets /\ Cleaners \subseteq Greenlets
BY DEF Axes, Greenlets

LEMMA IdleGreenlet == Idle \in Greenlet /\ Idle.at = "idle"
BY DEF Idle, Greenlet, Places, Steps

LEMMA TypeOfGreenlets == TypeOK => g \in [Greenlets -> Greenlet]
BY DEF TypeOK, Greenlet, Places

\* Where a greenlet that starts an exchange waits.
LEMMA ExchangeGreenlet ==
    ASSUME NEW r \in Greenlet, NEW at \in Places, NEW axes \in SUBSET Axes
    PROVE  [r EXCEPT !.at = at, !.todo = axes, !.lost = FALSE, !.err = {}, !.act = {}]
               \in Greenlet
BY DEF Greenlet

\* What an answer or its failure leaves of a greenlet.
LEMMA ReadsGreenlet ==
    ASSUME NEW p \in Greenlets, g \in [Greenlets -> Greenlet], NEW a \in Axes
    PROVE  Reads(p, a) \in Greenlet /\ Raises(p, a) \in Greenlet
BY DEF Reads, Raises, Greenlet

LEMMA SetsGreenlet ==
    ASSUME NEW p \in Greenlets, g \in [Greenlets -> Greenlet], NEW r \in Greenlet,
           g' = [g EXCEPT ![p] = r]
    PROVE  /\ g' \in [Greenlets -> Greenlet]
           /\ g'[p] = r /\ \A q \in Greenlets \ {p} : g'[q] = g[q]
OBVIOUS

LEMMA ResetFields ==
    ASSUME NEW s \in Startup, NEW retries \in 0..AutoRetryLimit, NEW may \in BOOLEAN
    PROVE  [s EXCEPT !.started = TRUE, !.complete = FALSE, !.ready = FALSE, !.failed = FALSE,
                     !.index = 0, !.active = {}, !.passed = {},
                     !.retries = retries, !.mayRetry = may] \in Startup
<1>. 0 \in 0..8
  OBVIOUS
<1>. QED BY DEF Startup

LEMMA ResetType ==
    ASSUME TypeOK, NEW again \in BOOLEAN, again => startup.retries < AutoRetryLimit
    PROVE  Reset(startup, again) \in Startup
<1>1. startup \in Startup
  BY DEF TypeOK, Startup
<1>2. (IF again THEN startup.retries + 1 ELSE 0) \in 0..AutoRetryLimit
  BY <1>1, BoundsAssumption DEF Startup
<1>3. (IF again THEN startup.mayRetry ELSE TRUE) \in BOOLEAN
  BY <1>1 DEF Startup
<1>. QED BY <1>1, <1>2, <1>3, ResetFields DEF Reset

\* TypeOK with its records named.
LEMMA TypeParts ==
    TypeOK <=>
      /\ startup \in Startup
      /\ cleanup \in [pending: BOOLEAN, timer: BOOLEAN, axes: SUBSET Axes,
                      homing: BOOLEAN, startup: BOOLEAN]
      /\ latch \in [Axes -> {"none", "warn", "error"}]
      /\ busy \in BOOLEAN
      /\ g \in [Greenlets -> Greenlet]
      /\ homing \in [depth: 0..1, session: BOOLEAN, aborting: BOOLEAN]
      /\ cut \in {"off", "on", "latched"}
      /\ print \in {"standby", "printing", "pausing", "paused"}
      /\ stopped \in {"none", "poll"} \cup Axes
      /\ signalled \subseteq Axes
      /\ clean \in BOOLEAN
      /\ faults \in 0..MaxFaults
      /\ losses \in 0..MaxLosses
BY DEF TypeOK, Startup, Greenlet, Places

LEMMA NoCleanupType ==
    NoCleanup \in [pending: BOOLEAN, timer: BOOLEAN, axes: SUBSET Axes,
                   homing: BOOLEAN, startup: BOOLEAN]
BY DEF NoCleanup

LEMMA ScheduledType ==
    ASSUME TypeOK, NEW axes \in SUBSET Axes, NEW why
    PROVE  Scheduled(axes, why) \in [pending: BOOLEAN, timer: BOOLEAN, axes: SUBSET Axes,
                                     homing: BOOLEAN, startup: BOOLEAN]
<1>1. (cleanup.homing \/ why = "homing") \in BOOLEAN
      /\ (cleanup.startup \/ why = "startup") \in BOOLEAN
  OBVIOUS
<1>2. cleanup.axes \cup axes \in SUBSET Axes
  BY DEF TypeOK
<1>. QED BY <1>1, <1>2 DEF Scheduled, TypeOK

\* A step of a greenlet that runs, or of one that is no startup handler, leaves
\* the bound of the index; the index itself does not grow with it.
LEMMA GreenletStep ==
    ASSUME TypeInv, NEW p \in Greenlets, NEW r \in Greenlet, g' = [g EXCEPT ![p] = r],
           p \notin Handlers \/ g[p] # Idle,
           startup' \in Startup, startup'.index <= startup.index,
           r.at \in {"recover", "recheck"} => p \in Axes \cup {"poll"}
    PROVE  g' \in [Greenlets -> Greenlet] /\ IndexBound' /\ RecoverPlaces'
<1>1. g \in [Greenlets -> Greenlet] /\ startup \in Startup
  BY TypeParts DEF TypeInv
<1>2. g' \in [Greenlets -> Greenlet]
  BY <1>1, SetsGreenlet
<1>3. RecoverPlaces'
  BY <1>1, Names DEF TypeInv, RecoverPlaces
<1>4. IndexBound'
  <2>1. \A h \in Handlers : h \in Greenlets
    BY Names
  <2>2. \A h \in Handlers : g[h] = Idle => g'[h] = Idle
    BY <1>1, <2>1
  <2>3. g["s1"] = Idle => g'["s1"] = Idle
    BY <2>2 DEF Handlers
  <2>4. g["s2"] = Idle => g'["s2"] = Idle
    BY <2>2 DEF Handlers
  <2>5. startup.index \in Nat /\ startup'.index \in Nat
    BY <1>1 DEF Startup
  <2>. QED BY <2>3, <2>4, <2>5 DEF TypeInv, IndexBound, Moving
<1>. QED BY <1>2, <1>3, <1>4

LEMMA InitTypes == Init => TypeInv
<1> SUFFICES ASSUME Init PROVE TypeInv
  OBVIOUS
<1>1. g \in [Greenlets -> Greenlet] /\ \A p \in Greenlets : g[p] = Idle
  BY IdleGreenlet DEF Init
<1>2. startup \in Startup
  BY BoundsAssumption DEF Init, Startup
<1>3. TypeOK
  <2>1. /\ cleanup = NoCleanup /\ busy = FALSE /\ cut = "off" /\ print = "standby"
        /\ stopped = "none" /\ signalled = {} /\ clean = FALSE
    BY DEF Init
  <2>2. latch \in [Axes -> {"none", "warn", "error"}]
    BY DEF Init
  <2>3. homing \in [depth: 0..1, session: BOOLEAN, aborting: BOOLEAN]
    BY DEF Init
  <2>4. faults \in 0..MaxFaults /\ losses \in 0..MaxLosses
    BY BoundsAssumption DEF Init
  <2>. QED BY <1>1, <1>2, <2>1, <2>2, <2>3, <2>4, NoCleanupType, TypeParts
<1>4. g["s1"] = Idle /\ g["s2"] = Idle
  BY <1>1, Names DEF Handlers
<1>5. IndexBound
  BY <1>4 DEF Init, IndexBound, Moving
<1>6. RecoverPlaces
  BY <1>1, IdleGreenlet DEF RecoverPlaces
<1>. QED BY <1>3, <1>5, <1>6 DEF TypeInv

\* An answer or its failure leaves a greenlet where it waits.
LEMMA ReadsAt ==
    ASSUME NEW p \in Greenlets, g \in [Greenlets -> Greenlet], NEW a
    PROVE  Reads(p, a).at = g[p].at /\ Raises(p, a).at = g[p].at
BY DEF Reads, Raises, Greenlet

\* Nobody waits in the place of an idle greenlet.
LEMMA WaitsNotIdle ==
    ASSUME NEW p, g[p].at \in Asking \cup Clearing
    PROVE  g[p] # Idle
BY IdleGreenlet DEF Asking, Clearing

\* A step that changes one greenlet, and nothing else but the latch, the
\* transport, the histories and the counters.
LEMMA ExchangeStep ==
    ASSUME TypeInv, NEW p \in Greenlets, NEW r \in Greenlet, g' = [g EXCEPT ![p] = r],
           g[p].at \in Asking \cup Clearing, r.at = g[p].at,
           UNCHANGED <<startup, cleanup, homing, cut, print, stopped, signalled, faults>>,
           latch' \in [Axes -> {"none", "warn", "error"}], busy' \in BOOLEAN,
           clean' \in BOOLEAN, losses' \in 0..MaxLosses
    PROVE  TypeInv'
<1>1. startup \in Startup /\ startup.index <= startup.index
  BY TypeParts DEF TypeInv, Startup
<1>2. g[p] # Idle
  BY WaitsNotIdle
<1>3. r.at \in {"recover", "recheck"} => p \in Axes \cup {"poll"}
  BY DEF TypeInv, RecoverPlaces
<1>4. g' \in [Greenlets -> Greenlet] /\ IndexBound' /\ RecoverPlaces'
  BY <1>1, <1>2, <1>3, GreenletStep
<1>5. TypeOK'
  BY <1>4 DEF TypeInv, TypeOK, Greenlet, Places
<1>. QED BY <1>4, <1>5 DEF TypeInv

LEMMA ExchangeTypes ==
    ASSUME TypeInv, NEW p \in Greenlets, Exchanges(p)
    PROVE  TypeInv'
<1>1. /\ g \in [Greenlets -> Greenlet] /\ latch \in [Axes -> {"none", "warn", "error"}]
      /\ busy \in BOOLEAN /\ clean \in BOOLEAN /\ losses \in 0..MaxLosses
      /\ MaxLosses \in Nat
  BY TypeParts, BoundsAssumption DEF TypeInv
<1>2. CASE AskSerial(p)
  <2>1. PICK a \in g[p].todo \cap Kinematic :
           \/ g' = [g EXCEPT ![p] = Reads(p, a)] /\ UNCHANGED losses
           \/ losses < MaxLosses /\ losses' = losses + 1
              /\ g' = [g EXCEPT ![p] = Raises(p, a)]
    BY <1>2 DEF AskSerial
  <2>2. losses' \in 0..MaxLosses
    BY <1>1, <2>1
  <2>3. Reads(p, a) \in Greenlet /\ Raises(p, a) \in Greenlet
    BY <1>1, Names, ReadsGreenlet
  <2>4. Reads(p, a).at = g[p].at /\ Raises(p, a).at = g[p].at
    BY <1>1, ReadsAt
  <2>. QED BY <1>1, <1>2, <2>1, <2>2, <2>3, <2>4, ExchangeStep DEF AskSerial
<1>3. CASE ClearSerial(p)
  <2>1. PICK a \in g[p].todo \cap Kinematic :
           /\ latch' \in {latch, [latch EXCEPT ![a] = "none"]}
           /\ g' = [g EXCEPT ![p] = [g[p] EXCEPT !.todo = @ \ {a}]]
    BY <1>3 DEF ClearSerial
  <2>2. [g[p] EXCEPT !.todo = @ \ {a}] \in Greenlet
        /\ [g[p] EXCEPT !.todo = @ \ {a}].at = g[p].at
    BY <1>1 DEF Greenlet
  <2>3. latch' \in [Axes -> {"none", "warn", "error"}]
    BY <1>1, <2>1
  <2>. QED BY <1>1, <1>3, <2>1, <2>2, <2>3, ExchangeStep DEF ClearSerial
<1>4. CASE SendNozzle(p)
  <2>1. Raises(p, Extruder) \in Greenlet /\ Raises(p, Extruder).at = g[p].at
    BY <1>1, Names, ReadsGreenlet, ReadsAt
  <2>2. [g[p] EXCEPT !.sent = TRUE] \in Greenlet /\ [g[p] EXCEPT !.sent = TRUE].at = g[p].at
    BY <1>1 DEF Greenlet
  <2>3. busy' \in BOOLEAN /\ \/ g' = [g EXCEPT ![p] = Raises(p, Extruder)]
                             \/ g' = [g EXCEPT ![p] = [g[p] EXCEPT !.sent = TRUE]]
    BY <1>1, <1>4 DEF SendNozzle
  <2>. QED BY <1>1, <1>4, <2>1, <2>2, <2>3, ExchangeStep DEF SendNozzle
<1>5. CASE NozzleAnswers(p)
  <2>1. Reads(p, Extruder) \in Greenlet /\ Reads(p, Extruder).at = g[p].at
        /\ Raises(p, Extruder) \in Greenlet /\ Raises(p, Extruder).at = g[p].at
    BY <1>1, Names, ReadsGreenlet, ReadsAt
  <2> DEFINE done == [g[p] EXCEPT !.todo = {}, !.sent = FALSE]
  <2>2. done \in Greenlet /\ done.at = g[p].at
    BY <1>1 DEF Greenlet
  <2>3. /\ \/ g' = [g EXCEPT ![p] = Reads(p, Extruder)]
           \/ g' = [g EXCEPT ![p] = Raises(p, Extruder)]
           \/ g' = [g EXCEPT ![p] = done]
        /\ g[p].at \in Asking \cup Clearing
    BY <1>5 DEF NozzleAnswers
  <2>4. latch' \in [Axes -> {"none", "warn", "error"}] /\ losses' \in 0..MaxLosses
    BY <1>1, <1>5 DEF NozzleAnswers
  <2>5. clean' \in BOOLEAN /\ busy' \in BOOLEAN
    BY <1>5, Zenon DEF NozzleAnswers
  <2>6. UNCHANGED <<startup, cleanup, homing, cut, print, stopped, signalled, faults>>
    BY <1>5 DEF NozzleAnswers
  <2>. QED BY <2>1, <2>2, <2>3, <2>4, <2>5, <2>6, ExchangeStep
<1>. QED BY <1>2, <1>3, <1>4, <1>5 DEF Exchanges

\* A startup that begins again has its index at zero.
LEMMA BeginTypes ==
    ASSUME TypeInv, SerialReady \/ RetryStartup
    PROVE  TypeInv'
<1>1. Reset(startup, FALSE) \in Startup /\ Reset(startup, FALSE).index = 0
  BY ResetType, TypeParts DEF TypeInv, Reset, Startup
<1>2. startup' \in Startup /\ startup'.index = 0
  BY <1>1 DEF SerialReady, RetryStartup, Startup
<1>3. cleanup' = NoCleanup
      /\ UNCHANGED <<latch, busy, g, homing, cut, print, stopped, signalled, clean,
                     faults, losses>>
  BY DEF SerialReady, RetryStartup
<1>4. TypeOK'
  BY <1>2, <1>3, NoCleanupType DEF TypeInv, TypeOK, Startup
<1>5. IndexBound'
  BY <1>2, <1>3 DEF IndexBound, Moving
<1>. QED BY <1>3, <1>4, <1>5 DEF TypeInv, RecoverPlaces

\* Two runs at most: the second one begins while the first one runs.
LEMMA StartupFiresTypes ==
    ASSUME TypeInv, NEW p \in Handlers, StartupFires(p)
    PROVE  TypeInv'
<1> DEFINE over == ~startup.complete /\ startup.index \notin Steps
           step == [Idle EXCEPT !.at = StepAt(startup.index),
                                !.todo = StepAxes(startup.index), !.step = startup.index]
<1>1. g \in [Greenlets -> Greenlet] /\ startup \in Startup /\ p \in Greenlets
  BY TypeParts, Names DEF TypeInv
<1>2. /\ startup' = [startup EXCEPT !.timer = FALSE, !.ready = @ \/ over,
                                    !.complete = @ \/ over]
      /\ g' = IF startup.complete \/ over THEN g ELSE [g EXCEPT ![p] = step]
      /\ UNCHANGED <<cleanup, latch, busy, homing, cut, print, stopped, signalled, clean,
                     faults, losses>>
  BY DEF StartupFires
<1>3. startup' \in Startup /\ startup'.index = startup.index
  <2>1. (startup.ready \/ over) \in BOOLEAN /\ (startup.complete \/ over) \in BOOLEAN
    OBVIOUS
  <2>. QED BY <1>1, <1>2, <2>1 DEF Startup
<1>6. UNCHANGED <<cleanup, latch, busy, homing, cut, print, stopped, signalled, clean,
                  faults, losses>>
  BY <1>2
<1>4. CASE startup.complete \/ over
  <2>1. g' = g
    BY <1>2, <1>4, Zenon
  <2>2. TypeOK'
    BY <1>3, <1>6, <2>1 DEF TypeInv, TypeOK, Startup
  <2>. QED BY <1>3, <2>1, <2>2 DEF TypeInv, RecoverPlaces, IndexBound, Moving
<1>5. CASE ~(startup.complete \/ over)
  <2>1. g' = [g EXCEPT ![p] = step] /\ startup.index \in Steps
    BY <1>2, <1>5, Zenon
  <2>2. StepAt(startup.index) \in StepPlaces /\ StepAxes(startup.index) \in SUBSET Axes
    BY <1>1, <2>1, Names DEF StepAt, StepAxes, StepPlaces, Steps, Startup, Check, Clear, Recheck
  <2>3. step \in Greenlet /\ step.at \notin {"recover", "recheck"}
    BY <2>1, <2>2, IdleGreenlet DEF Greenlet, Places, StepPlaces, Asking, Clearing
  <2>4. g' \in [Greenlets -> Greenlet] /\ g'[p] = step
        /\ \A q \in Greenlets \ {p} : g'[q] = g[q]
    BY <1>1, <2>1, <2>3, SetsGreenlet
  <2>5. RecoverPlaces'
    BY <1>1, <2>3, <2>4, Names DEF TypeInv, RecoverPlaces
  <2>6. IndexBound'
    BY <1>1, <1>3, <2>1 DEF IndexBound, Moving, Steps, Startup
  <2>7. TypeOK'
    BY <1>2, <1>3, <2>4 DEF TypeInv, TypeOK, Startup, Greenlet, Places
  <2>. QED BY <2>5, <2>6, <2>7 DEF TypeInv
<1>. QED BY <1>4, <1>5

\* A run that ends has moved the index by one at most, or has reset it.
LEMMA StepEndsTypes ==
    ASSUME TypeInv, NEW p \in Handlers, StepEnds(p)
    PROVE  TypeInv'
<1>1. /\ g \in [Greenlets -> Greenlet] /\ startup \in Startup /\ p \in Greenlets
      /\ startup.index \in Nat
  BY TypeParts, Names DEF TypeInv, Startup
<1>2. g[p] # Idle /\ g' = [g EXCEPT ![p] = Idle] /\ g[p].step \in Steps
  BY <1>1, IdleGreenlet DEF StepEnds, Ends, Answered, Greenlet
<1>3. g' \in [Greenlets -> Greenlet] /\ g'[p] = Idle
      /\ \A q \in Greenlets \ {p} : g'[q] = g[q]
  BY <1>1, <1>2, IdleGreenlet, SetsGreenlet
<1>4. /\ IndexBound /\ {"s1", "s2"} \subseteq Greenlets /\ p \in {"s1", "s2"}
  BY Names DEF TypeInv, Handlers
<1>5. startup.index <= 7
  BY <1>1, <1>2, <1>4 DEF IndexBound, Moving
<1>6. PICK active \in SUBSET Axes : StepSucceeds(p, active) \/ StepFails(p)
  BY <1>1 DEF StepEnds, Startup, Greenlet
<1>7. /\ startup' \in Startup
      /\ startup'.index \in {0, startup.index, startup.index + 1}
      /\ cleanup' \in {cleanup, NoCleanup}
  <2>1. CASE StepSucceeds(p, active)
    <3>1. startup.index + 1 \in 0..8 /\ startup.passed \cup {g[p].step} \in SUBSET Steps
      BY <1>1, <1>2, <1>5 DEF Startup
    <3>. QED BY <1>1, <2>1, <3>1 DEF StepSucceeds, Startup
  <2>2. CASE StepFails(p) /\ startup.mayRetry /\ startup.retries < AutoRetryLimit
    <3>1. startup' = [Reset(startup, TRUE) EXCEPT !.timer = TRUE] /\ cleanup' = NoCleanup
      BY <2>2 DEF StepFails
    <3>2. Reset(startup, TRUE) \in Startup /\ Reset(startup, TRUE).index = 0
      BY <1>1, <2>2, ResetType DEF TypeInv, Reset, Startup
    <3>. QED BY <3>1, <3>2 DEF Startup
  <2>3. CASE StepFails(p) /\ ~(startup.mayRetry /\ startup.retries < AutoRetryLimit)
    <3>1. startup' = [startup EXCEPT !.complete = TRUE, !.ready = FALSE,
                                     !.failed = TRUE, !.timer = FALSE]
          /\ cleanup' = cleanup
      BY <2>3 DEF StepFails
    <3>. QED BY <1>1, <3>1 DEF Startup
  <2>. QED BY <1>6, <2>1, <2>2, <2>3
<1>8. IndexBound'
  BY <1>1, <1>2, <1>3, <1>4, <1>7 DEF IndexBound, Moving
<1>9. RecoverPlaces'
  BY <1>3, IdleGreenlet DEF TypeInv, RecoverPlaces
<1>10. TypeOK'
  <2>1. UNCHANGED <<latch, busy, homing, cut, print, stopped, signalled, clean, faults, losses>>
    BY DEF StepEnds
  <2>. QED BY <1>3, <1>7, <2>1, NoCleanupType, TypeParts DEF TypeInv, TypeOK, Startup, Greenlet, Places
<1>. QED BY <1>8, <1>9, <1>10 DEF TypeInv

\* The types of what is neither a greenlet nor the startup.
OtherTypes ==
    /\ cleanup \in [pending: BOOLEAN, timer: BOOLEAN, axes: SUBSET Axes,
                    homing: BOOLEAN, startup: BOOLEAN]
    /\ latch \in [Axes -> {"none", "warn", "error"}]
    /\ busy \in BOOLEAN
    /\ homing \in [depth: 0..1, session: BOOLEAN, aborting: BOOLEAN]
    /\ cut \in {"off", "on", "latched"}
    /\ print \in {"standby", "printing", "pausing", "paused"}
    /\ stopped \in {"none", "poll"} \cup Axes
    /\ signalled \subseteq Axes
    /\ clean \in BOOLEAN
    /\ faults \in 0..MaxFaults
    /\ losses \in 0..MaxLosses

\* The steps that are not of the startup: a greenlet goes somewhere, or none does.
LEMMA OtherStep ==
    ASSUME TypeInv, NEW p \in Greenlets, NEW r \in Greenlet, g' = [g EXCEPT ![p] = r],
           p \notin Handlers \/ g[p] # Idle, OtherTypes',
           startup' = startup \/ startup' = Down(startup),
           r.at \in {"recover", "recheck"} => p \in Axes \cup {"poll"}
    PROVE  TypeInv'
<1>1. startup \in Startup
  BY TypeParts DEF TypeInv
<1>2. startup' \in Startup /\ startup'.index <= startup.index
  <2>1. Down(startup) \in Startup /\ Down(startup).index = startup.index
    BY <1>1 DEF Down, Startup
  <2>. QED BY <1>1, <2>1 DEF Startup
<1>3. g' \in [Greenlets -> Greenlet] /\ IndexBound' /\ RecoverPlaces'
  BY <1>2, GreenletStep
<1>. QED BY <1>2, <1>3 DEF TypeInv, TypeOK, OtherTypes, Startup, Greenlet, Places

LEMMA NobodyStep ==
    ASSUME TypeInv, g' = g, OtherTypes', startup' = startup
    PROVE  TypeInv'
<1>1. TypeOK'
  BY DEF TypeInv, TypeOK, OtherTypes
<1>. QED BY <1>1 DEF TypeInv, IndexBound, RecoverPlaces, Moving

LEMMA OthersTyped == TypeInv => /\ OtherTypes /\ startup \in Startup
                                /\ g \in [Greenlets -> Greenlet]
BY TypeParts DEF TypeInv, OtherTypes

\* A fault that is handled outside a startup stops the printer, asks the homing to
\* abort or leaves the axes to the cleanup.
LEMMA StopOrAbortTypes ==
    ASSUME TypeInv, NEW p \in Axes \cup {"poll"}, NEW axes \in SUBSET Axes, NEW during,
           StopOrAbort(p, axes, during), print' \in {"standby", "printing", "pausing", "paused"},
           UNCHANGED <<latch, busy, cut, signalled, clean, faults, losses>>
    PROVE  TypeInv'
<1>1. OtherTypes /\ p \in Greenlets /\ p \notin Handlers
  BY OthersTyped, Names, NamesAssumption DEF Handlers
<1>2. g' = [g EXCEPT ![p] = Idle]
  BY DEF StopOrAbort, Ends
<1>3. Scheduled(axes, "homing") \in [pending: BOOLEAN, timer: BOOLEAN, axes: SUBSET Axes,
                                     homing: BOOLEAN, startup: BOOLEAN]
  BY ScheduledType DEF TypeInv
<1>4. startup' = startup \/ startup' = Down(startup)
  BY DEF StopOrAbort
<1>5. [homing EXCEPT !.aborting = homing.session]
         \in [depth: 0..1, session: BOOLEAN, aborting: BOOLEAN]
  BY <1>1 DEF OtherTypes
<1>6. /\ stopped' \in {"none", "poll"} \cup Axes
      /\ homing' \in [depth: 0..1, session: BOOLEAN, aborting: BOOLEAN]
      /\ cleanup' \in [pending: BOOLEAN, timer: BOOLEAN, axes: SUBSET Axes,
                       homing: BOOLEAN, startup: BOOLEAN]
  BY <1>1, <1>3, <1>5 DEF StopOrAbort, OtherTypes
<1>7. OtherTypes'
  BY <1>1, <1>6 DEF OtherTypes
<1>. QED BY <1>1, <1>2, <1>4, <1>7, IdleGreenlet, OtherStep

LEMMA HandleActiveFaultTypes ==
    ASSUME TypeInv, NEW p \in Axes \cup {"poll"}, NEW errors \in SUBSET Axes,
           NEW during \in BOOLEAN, HandleActiveFault(p, errors, during),
           UNCHANGED <<latch, busy, cut, signalled, clean, faults, losses>>
    PROVE  TypeInv'
<1>1. OtherTypes /\ p \in Greenlets /\ p \notin Handlers
  BY OthersTyped, Names, NamesAssumption DEF Handlers
<1>2. CASE errors # {} /\ startup.started /\ ~startup.complete
  <2>1. /\ g' = [g EXCEPT ![p] = Idle] /\ cleanup' = Scheduled(errors, "startup")
        /\ UNCHANGED <<startup, homing, print, stopped>>
    BY <1>2 DEF HandleActiveFault, Ends
  <2>2. Scheduled(errors, "startup") \in [pending: BOOLEAN, timer: BOOLEAN, axes: SUBSET Axes,
                                          homing: BOOLEAN, startup: BOOLEAN]
    BY ScheduledType DEF TypeInv
  <2>3. OtherTypes'
    BY <1>1, <2>1, <2>2 DEF OtherTypes
  <2>. QED BY <1>1, <2>1, <2>3, IdleGreenlet, OtherStep
<1>3. CASE ~(errors # {} /\ startup.started /\ ~startup.complete) /\ Extruder \in errors
  <2> DEFINE r == [Idle EXCEPT !.at = "recover", !.todo = {Extruder},
                               !.stop = errors \cap Kinematic, !.during = during]
  <2>1. /\ g' = [g EXCEPT ![p] = r]
        /\ print' = IF print = "printing" THEN "pausing" ELSE print
        /\ UNCHANGED <<startup, cleanup, homing, stopped>>
    BY <1>3 DEF HandleActiveFault
  <2>2. r \in Greenlet
    BY IdleGreenlet, Names DEF Greenlet, Places, Clearing
  <2>3. OtherTypes'
    BY <1>1, <2>1 DEF OtherTypes
  <2>. QED BY <1>1, <2>1, <2>2, <2>3, OtherStep
<1>4. CASE ~(errors # {} /\ startup.started /\ ~startup.complete) /\ Extruder \notin errors
  <2>1. StopOrAbort(p, errors, during) /\ print' = print
    BY <1>4 DEF HandleActiveFault
  <2>. QED BY <1>1, <2>1, StopOrAbortTypes DEF OtherTypes
<1>. QED BY <1>2, <1>3, <1>4

LEMMA FaultTypes ==
    ASSUME TypeInv, NEW a \in Axes, Warn(a) \/ Fault(a) \/ Verify(a) \/ Verified(a)
    PROVE  TypeInv'
<1>1. /\ OtherTypes /\ a \in Greenlets /\ a \notin Handlers /\ g \in [Greenlets -> Greenlet]
      /\ MaxFaults \in Nat
  BY OthersTyped, Names, NamesAssumption, BoundsAssumption DEF Handlers
<1>2. CASE Warn(a)
  <2>1. g' = g /\ startup' = startup
    BY <1>2 DEF Warn
  <2>2. OtherTypes'
    BY <1>1, <1>2 DEF Warn, OtherTypes
  <2>. QED BY <2>1, <2>2, NobodyStep
<1>3. CASE Fault(a)
  <2> DEFINE noted == [Idle EXCEPT !.at = "noted", !.during = HomingContext]
  <2>1. /\ g' = g \/ g' = [g EXCEPT ![a] = noted]
        /\ cut' \in {cut, "latched"}
        /\ signalled' \in {signalled, signalled \ {a}, signalled \cup {a}}
    BY <1>3 DEF Fault, NoteStallPinEvent
  <2>2. HomingContext \in BOOLEAN
    BY DEF HomingContext
  <2>3. noted \in Greenlet /\ noted.at = "noted"
    BY <2>2, IdleGreenlet DEF Greenlet, Places
  <2>4. OtherTypes' /\ startup' = startup
    BY <1>1, <1>3, <2>1 DEF Fault, OtherTypes
  <2>. QED BY <1>1, <2>1, <2>3, <2>4, OtherStep, NobodyStep
<1>4. CASE Verify(a)
  <2> DEFINE r == [Exchange(a, "verify", {a}) EXCEPT !.during = @ \/ HomingContext]
  <2>1. r \in Greenlet /\ r.at = "verify"
    <3>1. \A x, y : (x \/ y) \in BOOLEAN
      OBVIOUS
    <3>2. "verify" \in Places /\ {a} \in SUBSET Axes
      BY DEF Places, Asking
    <3>3. Exchange(a, "verify", {a}) \in Greenlet
          /\ Exchange(a, "verify", {a}).at = "verify"
      BY <1>1, <3>2 DEF Exchange, Greenlet
    <3>. QED BY <3>1, <3>3 DEF Greenlet
  <2>2. g' = [g EXCEPT ![a] = r] /\ OtherTypes' /\ startup' = startup
    BY <1>1, <1>4 DEF Verify, OtherTypes
  <2>. QED BY <1>1, <2>1, <2>2, OtherStep
<1>5. CASE Verified(a)
  <2> DEFINE errors == IF g[a].lost THEN {a} ELSE g[a].err
  <2>1. errors \in SUBSET Axes /\ g[a].during \in BOOLEAN
    BY <1>1 DEF Greenlet
  <2>2. HandleActiveFault(a, errors, g[a].during)
        /\ UNCHANGED <<latch, busy, cut, signalled, clean, faults, losses>>
    BY <1>5 DEF Verified
  <2>. QED BY <2>1, <2>2, HandleActiveFaultTypes
<1>. QED BY <1>2, <1>3, <1>4, <1>5

LEMMA PollTypes ==
    ASSUME TypeInv, PollFires \/ Polled
    PROVE  TypeInv'
<1>1. /\ OtherTypes /\ "poll" \in Greenlets /\ "poll" \notin Handlers
      /\ g \in [Greenlets -> Greenlet]
  BY OthersTyped, Names DEF Handlers
<1>2. CASE PollFires
  <2>1. Exchange("poll", "poll", Axes) \in Greenlet
        /\ Exchange("poll", "poll", Axes).at = "poll"
    BY <1>1 DEF Exchange, Greenlet, Places, Asking
  <2>2. g' = [g EXCEPT !["poll"] = Exchange("poll", "poll", Axes)]
        /\ OtherTypes' /\ startup' = startup
    BY <1>1, <1>2 DEF PollFires, Goes, OtherTypes
  <2>. QED BY <1>1, <2>1, <2>2, OtherStep
<1>3. CASE Polled
  <2>1. g["poll"].err \in SUBSET Axes /\ HomingContext \in BOOLEAN
    BY <1>1 DEF Greenlet, HomingContext
  <2>2. HandleActiveFault("poll", g["poll"].err, HomingContext)
        /\ UNCHANGED <<latch, busy, cut, signalled, clean, faults, losses>>
    BY <1>3 DEF Polled
  <2>. QED BY <2>1, <2>2, HandleActiveFaultTypes
<1>. QED BY <1>2, <1>3

LEMMA RecoveringTypes ==
    ASSUME TypeInv, NEW p \in Greenlets, Recovering(p) \/ Recovered(p)
    PROVE  TypeInv'
<1>1. /\ OtherTypes /\ g \in [Greenlets -> Greenlet] /\ g[p].at \in {"recover", "recheck"}
  BY OthersTyped DEF Recovering, Recovered, Answered
<1>2. p \in Axes \cup {"poll"} /\ p \notin Handlers
  BY <1>1, NamesAssumption DEF TypeInv, RecoverPlaces, Handlers
<1>3. g[p].stop \in SUBSET Axes
  BY <1>1 DEF Greenlet
<1>4. CASE StopOrAbort(p, g[p].stop, g[p].during) /\ print' = print
           /\ UNCHANGED <<latch, busy, cut, signalled, clean, faults, losses>>
  BY <1>1, <1>2, <1>3, <1>4, StopOrAbortTypes DEF OtherTypes
<1>5. CASE Goes(p, "recheck", {Extruder})
           /\ UNCHANGED <<startup, cleanup, homing, stopped, latch, busy, cut, print,
                          signalled, clean, faults, losses>>
  <2>1. Exchange(p, "recheck", {Extruder}) \in Greenlet
        /\ Exchange(p, "recheck", {Extruder}).at = "recheck"
    <3>1. "recheck" \in Places /\ {Extruder} \in SUBSET Axes
      BY Names DEF Places, Asking
    <3>. QED BY <1>1, <3>1 DEF Exchange, Greenlet
  <2>2. OtherTypes' /\ startup' = startup
    BY <1>1, <1>5 DEF OtherTypes
  <2>. QED BY <1>2, <1>5, <2>1, <2>2, OtherStep DEF Goes
<1>. QED BY <1>4, <1>5 DEF Recovering, Recovered

LEMMA CleanupTypes ==
    ASSUME TypeInv, NEW p \in Cleaners, CleanupFires(p) \/ CleanupEnds(p)
    PROVE  TypeInv'
<1>1. /\ OtherTypes /\ p \in Greenlets /\ p \notin Handlers /\ g \in [Greenlets -> Greenlet]
  BY OthersTyped, Names DEF Handlers, Cleaners
<1>2. CASE CleanupFires(p)
  <2> DEFINE r == [Idle EXCEPT !.at = "cleanup", !.todo = cleanup.axes,
                               !.stop = cleanup.axes, !.during = cleanup.startup]
  <2>1. r \in Greenlet /\ r.at = "cleanup"
    BY <1>1, IdleGreenlet DEF OtherTypes, Greenlet, Places, Clearing
  <2>2. g' = [g EXCEPT ![p] = r] /\ OtherTypes' /\ startup' = startup
    BY <1>1, <1>2 DEF CleanupFires, OtherTypes
  <2>. QED BY <1>1, <2>1, <2>2, OtherStep
<1>3. CASE CleanupEnds(p)
  <2>1. Exchange(p, "confirm", g[p].stop) \in Greenlet
        /\ Exchange(p, "confirm", g[p].stop).at = "confirm"
    BY <1>1 DEF Exchange, Greenlet, Places, Asking
  <2>2. \/ g' = [g EXCEPT ![p] = Exchange(p, "confirm", g[p].stop)]
        \/ g' = [g EXCEPT ![p] = Idle]
    BY <1>3 DEF CleanupEnds, Goes, Ends
  <2>3. OtherTypes' /\ startup' = startup
    BY <1>1, <1>3, NoCleanupType DEF CleanupEnds, OtherTypes
  <2>. QED BY <1>1, <2>1, <2>2, <2>3, IdleGreenlet, OtherStep
<1>. QED BY <1>2, <1>3

LEMMA GcodeGreenlet ==
    ASSUME TypeInv, NEW at \in Places, NEW axes \in SUBSET Axes
    PROVE  Exchange("gcode", at, axes) \in Greenlet /\ Exchange("gcode", at, axes).at = at
<1>1. g["gcode"] \in Greenlet
  BY OthersTyped, Names
<1>. QED BY <1>1 DEF Exchange, Greenlet

\* What a step of a command may do to its greenlet.
GcodeGoes ==
    \/ g' = g
    \/ Ends("gcode")
    \/ \E at \in Places \ {"recover", "recheck"}, axes \in SUBSET Axes : Goes("gcode", at, axes)

LEMMA GcodeStep ==
    ASSUME TypeInv, GcodeGoes, OtherTypes', startup' = startup
    PROVE  TypeInv'
<1>1. "gcode" \in Greenlets /\ "gcode" \notin Handlers
  BY Names DEF Handlers
<1>2. CASE g' = g
  BY <1>2, NobodyStep
<1>3. CASE Ends("gcode")
  BY <1>1, <1>3, IdleGreenlet, OtherStep DEF Ends
<1>4. ASSUME NEW at \in Places \ {"recover", "recheck"}, NEW axes \in SUBSET Axes,
             Goes("gcode", at, axes)
      PROVE  TypeInv'
  BY <1>1, <1>4, GcodeGreenlet, OtherStep DEF Goes
<1>. QED BY <1>2, <1>3, <1>4 DEF GcodeGoes

LEMMA CommandGoes ==
    ASSUME TypeInv,
           \/ PrintStarts \/ PauseRuns \/ Resume \/ RequireExtruderClear
           \/ ClearErrorBegins \/ ClearError \/ HomingBegins \/ HomingStarts
           \/ HomingMove \/ HomingEnds \/ CutCheck
    PROVE  GcodeGoes /\ startup' = startup
<1> USE DEF GcodeGoes
<1>1. /\ {"require", "require_clear", "require_recheck", "precheck", "clear_error", "postcheck",
          "home_before", "home_clear", "home_after", "homing", "cut"}
            \subseteq Places \ {"recover", "recheck"}
      /\ {{}, {Extruder}, Kinematic, Axes} \subseteq SUBSET Axes
      /\ g["gcode"].act \in SUBSET Axes /\ g["gcode"].err \in SUBSET Axes
  BY OthersTyped, Names DEF Places, Asking, Clearing, Greenlet
<1>2. CASE PrintStarts \/ PauseRuns \/ HomingMove
  BY <1>2 DEF PrintStarts, PauseRuns, HomingMove
<1>3. CASE Resume
  BY <1>1, <1>3 DEF Resume
<1>4. CASE RequireExtruderClear
  BY <1>1, <1>4 DEF RequireExtruderClear
<1>5. CASE ClearErrorBegins
  BY <1>1, <1>5 DEF ClearErrorBegins
<1>6. CASE ClearError
  BY <1>1, <1>6 DEF ClearError
<1>7. CASE HomingBegins
  BY <1>1, <1>7 DEF HomingBegins
<1>8. CASE HomingStarts
  BY <1>1, <1>8 DEF HomingStarts
<1>9. CASE HomingEnds
  BY <1>9 DEF HomingEnds
<1>10. CASE CutCheck
  BY <1>1, <1>10 DEF CutCheck
<1>. QED BY <1>2, <1>3, <1>4, <1>5, <1>6, <1>7, <1>8, <1>9, <1>10

LEMMA CommandTypes ==
    ASSUME TypeInv,
           \/ PrintStarts \/ PauseRuns \/ Resume \/ RequireExtruderClear
           \/ ClearErrorBegins \/ ClearError \/ HomingBegins \/ HomingStarts
           \/ HomingMove \/ HomingEnds \/ CutCheck
    PROVE  TypeInv'
<1>1. OtherTypes
  BY OthersTyped
<1>2. OtherTypes'
  <2>1. CASE PrintStarts \/ PauseRuns
    BY <1>1, <2>1 DEF PrintStarts, PauseRuns, OtherTypes
  <2>2. CASE Resume
    BY <1>1, <2>2 DEF Resume, OtherTypes
  <2>3. CASE RequireExtruderClear
    <3>1. clean' \in BOOLEAN
      BY <2>3, Zenon DEF RequireExtruderClear
    <3>2. print' \in {print, "printing"}
          /\ UNCHANGED <<startup, cleanup, latch, busy, homing, cut, stopped, signalled,
                         faults, losses>>
      BY <2>3 DEF RequireExtruderClear
    <3>. QED BY <1>1, <3>1, <3>2 DEF OtherTypes
  <2>4. CASE ClearErrorBegins \/ ClearError
    BY <1>1, <2>4 DEF ClearErrorBegins, ClearError, OtherTypes
  <2>5. CASE HomingBegins
    BY <1>1, <2>5 DEF HomingBegins, OtherTypes
  <2>6. CASE HomingStarts
    <3>1. homing' = homing \/ homing' = [homing EXCEPT !.session = TRUE]
      BY <2>6 DEF HomingStarts
    <3>2. [homing EXCEPT !.session = TRUE]
             \in [depth: 0..1, session: BOOLEAN, aborting: BOOLEAN]
      BY <1>1 DEF OtherTypes
    <3>3. UNCHANGED <<startup, cleanup, latch, busy, cut, print, stopped, signalled,
                      clean, faults, losses>>
      BY <2>6 DEF HomingStarts
    <3>4. homing' \in [depth: 0..1, session: BOOLEAN, aborting: BOOLEAN]
      <4>1. homing \in [depth: 0..1, session: BOOLEAN, aborting: BOOLEAN]
        BY <1>1 DEF OtherTypes
      <4>. QED BY <3>1, <3>2, <4>1
    <3>. QED BY <1>1, <3>3, <3>4 DEF OtherTypes
  <2>7. CASE HomingMove
    <3>1. 1 - homing.depth \in 0..1
      BY <1>1 DEF OtherTypes
    <3>. QED BY <1>1, <2>7, <3>1 DEF HomingMove, OtherTypes
  <2>8. CASE HomingEnds
    <3>1. \A x, y : (x \/ y) \in BOOLEAN
      OBVIOUS
    <3>2. [depth |-> 0, session |-> FALSE, aborting |-> FALSE]
             \in [depth: 0..1, session: BOOLEAN, aborting: BOOLEAN]
      OBVIOUS
    <3>. QED BY <1>1, <2>8, <3>1, <3>2 DEF HomingEnds, OtherTypes
  <2>9. CASE CutCheck
    BY <1>1, <2>9 DEF CutCheck, OtherTypes
  <2>. QED BY <2>1, <2>2, <2>3, <2>4, <2>5, <2>6, <2>7, <2>8, <2>9
<1>. QED BY <1>2, CommandGoes, GcodeStep

LEMMA NextTypes == TypeInv /\ [Next]_vars => TypeInv'
<1> SUFFICES ASSUME TypeInv, [Next]_vars PROVE TypeInv'
  OBVIOUS
<1>1. ASSUME NEW p \in Greenlets, RunsOn(p) PROVE TypeInv'
  BY <1>1, StepEndsTypes, FaultTypes, PollTypes, CleanupTypes, CommandTypes, RecoveringTypes
     DEF RunsOn
<1>2. CASE \/ SerialReady \/ RetryStartup
           \/ \E p \in Handlers : StartupFires(p)
           \/ \E p \in Greenlets : Exchanges(p)
  BY <1>2, BeginTypes, StartupFiresTypes, ExchangeTypes
<1>3. CASE \/ \E a \in Axes : Warn(a) \/ Fault(a) \/ Verify(a)
           \/ PollFires
           \/ \E p \in Cleaners : CleanupFires(p)
  BY <1>3, FaultTypes, PollTypes, CleanupTypes
<1>4. CASE \/ PrintStarts \/ PauseRuns \/ Resume \/ ClearErrorBegins \/ HomingBegins
           \/ HomingMove \/ HomingEnds \/ CutCheck
  BY <1>4, CommandTypes
<1>5. CASE UNCHANGED vars
  BY <1>5, OthersTyped, NobodyStep DEF vars, OtherTypes
<1>. QED BY <1>1, <1>2, <1>3, <1>4, <1>5 DEF Next

\* The variables keep their types: two runs of the startup handler at most move the
\* index on, and only an axis or the poll ever stops the printer.
THEOREM TypeCorrect == Spec => []TypeOK
<1>1. Spec => []TypeInv
  BY InitTypes, NextTypes, PTL DEF Spec
<1>2. TypeInv => TypeOK
  BY DEF TypeInv
<1>. QED BY <1>1, <1>2, PTL

-----------------------------------------------------------------------------
(* A stall that stops the printer was sent to recovery.                    *)

\* Whoever is no kinematic axis.
LEMMA NoAxis ==
    /\ "none" \notin Kinematic /\ "poll" \notin Kinematic /\ "gcode" \notin Kinematic
    /\ Handlers \cap Kinematic = {} /\ Cleaners \cap Kinematic = {}
BY NamesAssumption DEF Axes

\* A step that stops nothing, of a greenlet whose place and homing context do not
\* change, or that heeds the event.
LEMMA HeededStep ==
    ASSUME TypeInv, StallInv, NEW p \in Greenlets, NEW r, g' = [g EXCEPT ![p] = r],
           Running, stopped' = stopped,
           p \in Kinematic /\ r.at \in Handling /\ ~r.during => p \in signalled',
           \A a \in Kinematic \ {p} : a \in signalled => a \in signalled'
    PROVE  StallInv'
<1>1. g \in [Greenlets -> Greenlet]
  BY OthersTyped
<1>2. g'[p] = r /\ \A a \in Kinematic \ {p} : g'[a] = g[a]
  BY <1>1, Names
<1>3. Heeded'
  BY <1>2 DEF StallInv, Heeded
<1>4. StallStopSignalled'
  BY NoAxis DEF Running, StallStopSignalled
<1>. QED BY <1>3, <1>4 DEF StallInv

LEMMA HeededNobody ==
    ASSUME StallInv, Running, g' = g, stopped' = stopped, signalled' = signalled
    PROVE  StallInv'
BY DEF StallInv, Heeded, StallStopSignalled

LEMMA HeededExchange ==
    ASSUME TypeInv, StallInv, NEW p \in Greenlets, Exchanges(p)
    PROVE  StallInv'
<1>1. g[p] \in Greenlet
  BY OthersTyped
<1>2. PICK r : /\ g' = [g EXCEPT ![p] = r]
               /\ r.at = g[p].at /\ r.during = g[p].during
  <2>1. \A a : /\ Reads(p, a).at = g[p].at /\ Reads(p, a).during = g[p].during
               /\ Raises(p, a).at = g[p].at /\ Raises(p, a).during = g[p].during
    BY <1>1 DEF Reads, Raises, Greenlet
  <2>2. CASE AskSerial(p)
    BY <2>1, <2>2 DEF AskSerial
  <2>3. CASE ClearSerial(p)
    <3>1. PICK a : g' = [g EXCEPT ![p] = [g[p] EXCEPT !.todo = @ \ {a}]]
      BY <2>3 DEF ClearSerial
    <3>2. LET r == [g[p] EXCEPT !.todo = @ \ {a}]
          IN  r.at = g[p].at /\ r.during = g[p].during
      BY <1>1 DEF Greenlet
    <3>. QED BY <3>1, <3>2, Zenon
  <2>4. CASE SendNozzle(p)
    <3>1. \/ g' = [g EXCEPT ![p] = Raises(p, Extruder)]
          \/ g' = [g EXCEPT ![p] = [g[p] EXCEPT !.sent = TRUE]]
      BY <2>4 DEF SendNozzle
    <3>. QED BY <1>1, <2>1, <3>1 DEF Greenlet
  <2>5. CASE NozzleAnswers(p)
    <3>1. \/ g' = [g EXCEPT ![p] = Reads(p, Extruder)]
          \/ g' = [g EXCEPT ![p] = Raises(p, Extruder)]
          \/ g' = [g EXCEPT ![p] = [g[p] EXCEPT !.todo = {}, !.sent = FALSE]]
      BY <2>5 DEF NozzleAnswers
    <3>. QED BY <1>1, <2>1, <3>1 DEF Greenlet
  <2>. QED BY <2>2, <2>3, <2>4, <2>5 DEF Exchanges
<1>3. Running /\ stopped' = stopped /\ signalled' = signalled
  BY DEF Exchanges, AskSerial, ClearSerial, SendNozzle, NozzleAnswers
<1>4. p \in Kinematic /\ r.at \in Handling /\ ~r.during => p \in signalled'
  BY <1>2, <1>3 DEF StallInv, Heeded
<1>. QED BY <1>2, <1>3, <1>4, HeededStep

\* The steps of the greenlets that are no axes.
LEMMA HeededOthers ==
    ASSUME TypeInv, StallInv,
           \/ SerialReady \/ RetryStartup
           \/ \E p \in Handlers : StartupFires(p) \/ StepEnds(p)
           \/ PollFires
           \/ \E p \in Cleaners : CleanupFires(p) \/ CleanupEnds(p)
           \/ PrintStarts \/ PauseRuns \/ Resume \/ RequireExtruderClear
           \/ ClearErrorBegins \/ ClearError \/ HomingBegins \/ HomingStarts
           \/ HomingMove \/ HomingEnds \/ CutCheck
    PROVE  StallInv'
<1>1. Running /\ stopped' = stopped /\ signalled' = signalled
  BY DEF SerialReady, RetryStartup, StartupFires, StepEnds, PollFires, CleanupFires, CleanupEnds,
     PrintStarts, PauseRuns, Resume, RequireExtruderClear, ClearErrorBegins, ClearError,
     HomingBegins, HomingStarts, HomingMove, HomingEnds, CutCheck
<1>2. \/ g' = g
      \/ \E p \in Greenlets \ Kinematic : \E r : g' = [g EXCEPT ![p] = r]
  <2>1. CASE SerialReady \/ RetryStartup
    BY <2>1 DEF SerialReady, RetryStartup
  <2>2. ASSUME NEW p \in Handlers, StartupFires(p)
        PROVE  \/ g' = g
               \/ \E q \in Greenlets \ Kinematic : \E r : g' = [g EXCEPT ![q] = r]
    <3>1. p \in Greenlets \ Kinematic
      BY Names, NoAxis
    <3> DEFINE over == ~startup.complete /\ startup.index \notin Steps
               step == [Idle EXCEPT !.at = StepAt(startup.index),
                                    !.todo = StepAxes(startup.index),
                                    !.step = startup.index]
    <3>2. g' = IF startup.complete \/ over THEN g ELSE [g EXCEPT ![p] = step]
      BY <2>2 DEF StartupFires
    <3>3. g' = g \/ g' = [g EXCEPT ![p] = step]
      BY <3>2, Zenon
    <3>. QED BY <3>1, <3>3
  <2>3. ASSUME NEW p \in Handlers, StepEnds(p)
        PROVE  \E q \in Greenlets \ Kinematic : \E r : g' = [g EXCEPT ![q] = r]
    BY <2>3, Names, NoAxis DEF StepEnds, Ends
  <2>4. CASE PollFires
    BY <2>4, Names, NoAxis DEF PollFires, Goes
  <2>5. ASSUME NEW p \in Cleaners, CleanupFires(p) \/ CleanupEnds(p)
        PROVE  \E q \in Greenlets \ Kinematic : \E r : g' = [g EXCEPT ![q] = r]
    BY <2>5, Names, NoAxis DEF CleanupFires, CleanupEnds, Goes, Ends
  <2>6. CASE \/ PrintStarts \/ PauseRuns \/ Resume \/ RequireExtruderClear
             \/ ClearErrorBegins \/ ClearError \/ HomingBegins \/ HomingStarts
             \/ HomingMove \/ HomingEnds \/ CutCheck
    BY <2>6, CommandGoes, Names, NoAxis DEF GcodeGoes, Goes, Ends
  <2>. QED BY <2>1, <2>2, <2>3, <2>4, <2>5, <2>6
<1>. QED BY <1>1, <1>2, HeededStep, HeededNobody

\* A greenlet stops the printer only for an event outside homing: of an axis it was
\* sent.
LEMMA HeededStop ==
    ASSUME TypeInv, StallInv, NEW p \in Axes \cup {"poll"}, NEW axes, NEW during,
           StopOrAbort(p, axes, during), Running, signalled' = signalled,
           p \in Kinematic /\ ~during => p \in signalled
    PROVE  StallInv'
<1>1. p \in Greenlets /\ g \in [Greenlets -> Greenlet]
  BY Names, OthersTyped
<1>2. g' = [g EXCEPT ![p] = Idle]
  BY DEF StopOrAbort, Ends
<1>3. CASE stopped' = stopped
  BY <1>1, <1>2, <1>3, IdleGreenlet, HeededStep DEF Handling
<1>4. CASE stopped' = p /\ ~during
  <2>1. Heeded'
    BY <1>1, <1>2, IdleGreenlet, Names DEF StallInv, Heeded, Handling
  <2>2. StallStopSignalled'
    BY <1>4 DEF StallStopSignalled
  <2>. QED BY <2>1, <2>2 DEF StallInv
<1>. QED BY <1>3, <1>4 DEF StopOrAbort

LEMMA HeededActiveFault ==
    ASSUME TypeInv, StallInv, NEW p \in Axes \cup {"poll"}, NEW errors, NEW during \in BOOLEAN,
           HandleActiveFault(p, errors, during), Running, signalled' = signalled,
           p \in Kinematic /\ ~during => p \in signalled
    PROVE  StallInv'
<1>1. p \in Greenlets /\ g \in [Greenlets -> Greenlet]
  BY Names, OthersTyped
<1>2. CASE errors # {} /\ startup.started /\ ~startup.complete
  <2>1. g' = [g EXCEPT ![p] = Idle] /\ stopped' = stopped
    BY <1>2 DEF HandleActiveFault, Ends
  <2>. QED BY <1>1, <2>1, IdleGreenlet, HeededStep DEF Handling
<1>3. CASE ~(errors # {} /\ startup.started /\ ~startup.complete) /\ Extruder \in errors
  <2> DEFINE r == [Idle EXCEPT !.at = "recover", !.todo = {Extruder},
                               !.stop = errors \cap Kinematic, !.during = during]
  <2>1. g' = [g EXCEPT ![p] = r] /\ stopped' = stopped
    BY <1>3 DEF HandleActiveFault
  <2>2. r.during = during
    BY DEF Idle
  <2>. QED BY <1>1, <2>1, <2>2, HeededStep
<1>4. CASE ~(errors # {} /\ startup.started /\ ~startup.complete) /\ Extruder \notin errors
  BY <1>4, HeededStop DEF HandleActiveFault
<1>. QED BY <1>2, <1>3, <1>4

LEMMA HeededFault ==
    ASSUME TypeInv, StallInv, NEW a \in Axes, Warn(a) \/ Fault(a) \/ Verify(a) \/ Verified(a)
    PROVE  StallInv'
<1>1. a \in Greenlets /\ g \in [Greenlets -> Greenlet] /\ g[a] \in Greenlet
  BY Names, OthersTyped
<1>2. CASE Warn(a)
  BY <1>2, HeededNobody DEF Warn
<1>3. CASE Fault(a)
  <2> DEFINE noted == [Idle EXCEPT !.at = "noted", !.during = HomingContext]
  <2>1. Running /\ stopped' = stopped
    BY <1>3 DEF Fault
  <2>2. CASE g' = g /\ signalled' = signalled
    BY <2>1, <2>2, HeededNobody
  <2>3. CASE /\ g' = [g EXCEPT ![a] = noted]
             /\ signalled' = IF HomingContext \/ a \notin Kinematic
                               THEN signalled \ {a} ELSE signalled \cup {a}
    <3>1. noted.during = HomingContext
      BY DEF Idle
    <3>2. a \in Kinematic /\ ~HomingContext => a \in signalled'
      BY <2>3
    <3>3. \A b \in Kinematic \ {a} : b \in signalled => b \in signalled'
      BY <2>3
    <3>. QED BY <1>1, <2>1, <2>3, <3>1, <3>2, <3>3, HeededStep
  <2>. QED BY <1>3, <2>2, <2>3 DEF Fault, NoteStallPinEvent
<1>4. CASE Verify(a)
  <2> DEFINE r == [Exchange(a, "verify", {a}) EXCEPT !.during = @ \/ HomingContext]
  <2>1. /\ g' = [g EXCEPT ![a] = r] /\ Running /\ g[a].at = "noted"
        /\ stopped' = stopped /\ signalled' = signalled
    BY <1>4 DEF Verify
  <2>2. r.during = (g[a].during \/ HomingContext)
    BY <1>1 DEF Exchange, Greenlet
  <2>3. a \in Kinematic /\ ~r.during => a \in signalled'
    BY <2>1, <2>2 DEF StallInv, Heeded, Handling
  <2>. QED BY <1>1, <2>1, <2>3, HeededStep
<1>5. CASE Verified(a)
  <2>1. a \in Kinematic /\ ~g[a].during => a \in signalled
    BY <1>5 DEF Verified, Answered, StallInv, Heeded, Handling
  <2>2. g[a].during \in BOOLEAN
    BY <1>1 DEF Greenlet
  <2>. QED BY <1>5, <2>1, <2>2, HeededActiveFault DEF Verified
<1>. QED BY <1>2, <1>3, <1>4, <1>5

LEMMA HeededPolled ==
    ASSUME TypeInv, StallInv, Polled
    PROVE  StallInv'
<1>1. HomingContext \in BOOLEAN
  BY OthersTyped DEF HomingContext, OtherTypes
<1>. QED BY <1>1, NoAxis, HeededActiveFault DEF Polled

LEMMA HeededRecovering ==
    ASSUME TypeInv, StallInv, NEW p \in Greenlets, Recovering(p) \/ Recovered(p)
    PROVE  StallInv'
<1>1. /\ g \in [Greenlets -> Greenlet] /\ g[p].at \in {"recover", "recheck"} /\ Running
      /\ signalled' = signalled
  BY OthersTyped DEF Recovering, Recovered, Answered
<1>2. p \in Axes \cup {"poll"}
  BY <1>1 DEF TypeInv, RecoverPlaces
<1>3. p \in Kinematic /\ ~g[p].during => p \in signalled
  BY <1>1 DEF StallInv, Heeded, Handling
<1>4. CASE StopOrAbort(p, g[p].stop, g[p].during)
  BY <1>1, <1>2, <1>3, <1>4, HeededStop
<1>5. CASE Goes(p, "recheck", {Extruder}) /\ stopped' = stopped
  <2>1. Exchange(p, "recheck", {Extruder}).during = g[p].during
    BY <1>1 DEF Exchange, Greenlet
  <2>. QED BY <1>1, <1>3, <1>5, <2>1, HeededStep DEF Goes
<1>. QED BY <1>4, <1>5 DEF Recovering, Recovered

LEMMA NextStall == TypeInv /\ StallInv /\ [Next]_vars => StallInv'
<1> SUFFICES ASSUME TypeInv, StallInv, [Next]_vars PROVE StallInv'
  OBVIOUS
<1>1. ASSUME NEW p \in Greenlets, RunsOn(p) PROVE StallInv'
  BY <1>1, HeededOthers, HeededFault, HeededPolled, HeededRecovering DEF RunsOn
<1>2. CASE \E p \in Greenlets : Exchanges(p)
  BY <1>2, HeededExchange
<1>3. CASE \E a \in Axes : Warn(a) \/ Fault(a) \/ Verify(a)
  BY <1>3, HeededFault
<1>4. CASE \/ SerialReady \/ RetryStartup
           \/ \E p \in Handlers : StartupFires(p)
           \/ PollFires
           \/ \E p \in Cleaners : CleanupFires(p)
           \/ PrintStarts \/ PauseRuns \/ Resume \/ ClearErrorBegins \/ HomingBegins
           \/ HomingMove \/ HomingEnds \/ CutCheck
  BY <1>4, HeededOthers
<1>5. CASE UNCHANGED vars
  BY <1>5 DEF vars, StallInv, Heeded, StallStopSignalled
<1>. QED BY <1>1, <1>2, <1>3, <1>4, <1>5 DEF Next

\* An event that was noted during a homing, and not sent to power-loss recovery,
\* never ends in a shutdown, whenever its verification comes to an end.
THEOREM StallsSignalled == Spec => []StallStopSignalled
<1>1. Init => StallInv
  <2>1. Init => \A p \in Greenlets : g[p].at = "idle"
    BY IdleGreenlet DEF Init
  <2>. QED BY <2>1, Names, NoAxis DEF Init, StallInv, Heeded, StallStopSignalled, Handling
<1>2. Spec => []TypeInv
  BY InitTypes, NextTypes, PTL DEF Spec
<1>3. Spec => []StallInv
  BY <1>1, <1>2, NextStall, PTL DEF Spec
<1>4. StallInv => StallStopSignalled
  BY DEF StallInv
<1>. QED BY <1>3, <1>4, PTL

-----------------------------------------------------------------------------
(* Ready means started.                                                    *)

LEMMA HandlerNames ==
    /\ "s1" \in Handlers /\ "s2" \in Handlers /\ "s1" \in Greenlets /\ "s2" \in Greenlets
    /\ Axes \cap Handlers = {} /\ Cleaners \cap Handlers = {}
    /\ "poll" \notin Handlers /\ "gcode" \notin Handlers
BY Names, NamesAssumption DEF Handlers, Cleaners

\* A handler that is not idle has a place to be in.
LEMMA StartKept ==
    ASSUME TypeInv, StartInv, g'["s2"] = g["s2"],
           \/ g'["s1"] = g["s1"]
           \/ g["s1"] # Idle /\ g'["s1"].at = g["s1"].at /\ g'["s1"].step = g["s1"].step,
           startup' = startup \/ startup' = Down(startup)
    PROVE  StartInv'
<1>1. startup \in Startup
  BY OthersTyped
<1>2. /\ startup'.index = startup.index /\ startup'.passed = startup.passed
      /\ startup'.started = startup.started /\ startup'.complete = startup.complete
      /\ startup'.timer => startup.timer
      /\ startup'.ready => startup.ready
  BY <1>1 DEF Down, Startup
<1>. QED BY <1>2 DEF StartInv, OneStep, InOrder

LEMMA StartExchange ==
    ASSUME TypeInv, StartInv, NEW p \in Greenlets, Exchanges(p)
    PROVE  StartInv'
<1>1. g[p] \in Greenlet /\ g \in [Greenlets -> Greenlet]
  BY OthersTyped
<1>2. g[p].at \in Asking \cup Clearing
  BY DEF Exchanges, AskSerial, ClearSerial, SendNozzle, NozzleAnswers
<1>3. g[p] # Idle
  BY <1>2, WaitsNotIdle
<1>4. p # "s2"
  BY <1>3 DEF StartInv, OneStep
<1>5. PICK r : /\ g' = [g EXCEPT ![p] = r]
               /\ r.at = g[p].at /\ r.step = g[p].step
  <2>1. \A a : /\ Reads(p, a).at = g[p].at /\ Reads(p, a).step = g[p].step
               /\ Raises(p, a).at = g[p].at /\ Raises(p, a).step = g[p].step
    BY <1>1 DEF Reads, Raises, Greenlet
  <2>2. CASE AskSerial(p)
    BY <2>1, <2>2 DEF AskSerial
  <2>3. CASE ClearSerial(p)
    <3>1. PICK a : g' = [g EXCEPT ![p] = [g[p] EXCEPT !.todo = @ \ {a}]]
      BY <2>3 DEF ClearSerial
    <3>2. LET r == [g[p] EXCEPT !.todo = @ \ {a}]
          IN  r.at = g[p].at /\ r.step = g[p].step
      BY <1>1 DEF Greenlet
    <3>. QED BY <3>1, <3>2, Zenon
  <2>4. CASE SendNozzle(p)
    <3>1. \/ g' = [g EXCEPT ![p] = Raises(p, Extruder)]
          \/ g' = [g EXCEPT ![p] = [g[p] EXCEPT !.sent = TRUE]]
      BY <2>4 DEF SendNozzle
    <3>. QED BY <1>1, <2>1, <3>1 DEF Greenlet
  <2>5. CASE NozzleAnswers(p)
    <3>1. \/ g' = [g EXCEPT ![p] = Reads(p, Extruder)]
          \/ g' = [g EXCEPT ![p] = Raises(p, Extruder)]
          \/ g' = [g EXCEPT ![p] = [g[p] EXCEPT !.todo = {}, !.sent = FALSE]]
      BY <2>5 DEF NozzleAnswers
    <3>2. LET r == [g[p] EXCEPT !.todo = {}, !.sent = FALSE]
          IN  r.at = g[p].at /\ r.step = g[p].step
      BY <1>1 DEF Greenlet
    <3>. QED BY <2>1, <3>1, <3>2, Zenon
  <2>. QED BY <2>2, <2>3, <2>4, <2>5 DEF Exchanges
<1>6. startup' = startup
  BY DEF Exchanges, AskSerial, ClearSerial, SendNozzle, NozzleAnswers
<1>. QED BY <1>1, <1>3, <1>4, <1>5, <1>6, HandlerNames, StartKept

\* The steps of the axes, the poll and the cleanup: they move one of them, leave the
\* startup but for a shutdown, and do to a print nothing but pause it.
LEMMA FaultMoves ==
    ASSUME TypeInv,
           \/ \E a \in Axes : Warn(a) \/ Fault(a) \/ Verify(a) \/ Verified(a)
           \/ PollFires \/ Polled
           \/ \E p \in Greenlets : Recovering(p) \/ Recovered(p)
           \/ \E p \in Cleaners : CleanupFires(p) \/ CleanupEnds(p)
    PROVE  /\ startup' = startup \/ startup' = Down(startup)
           /\ \/ g' = g
              \/ \E p \in Greenlets \ (Handlers \cup {"gcode"}) : \E r : g' = [g EXCEPT ![p] = r]
           /\ clean' = clean /\ print' \in {print, "pausing"}
<1> DEFINE Elsewhere == Greenlets \ (Handlers \cup {"gcode"})
           Moves == /\ startup' = startup \/ startup' = Down(startup)
                    /\ g' = g \/ \E p \in Elsewhere : \E r : g' = [g EXCEPT ![p] = r]
<1>1. Axes \subseteq Elsewhere /\ "poll" \in Elsewhere /\ Cleaners \subseteq Elsewhere
  BY Names, NamesAssumption DEF Handlers, Cleaners
<1>2. ASSUME NEW p \in Elsewhere, NEW axes, NEW during, StopOrAbort(p, axes, during)
      PROVE  Moves
  BY <1>2 DEF StopOrAbort, Ends
<1>3. ASSUME NEW p \in Elsewhere, NEW errors, NEW during, HandleActiveFault(p, errors, during)
      PROVE  Moves /\ print' \in {print, "pausing"}
  <2>1. CASE ~(errors # {} /\ startup.started /\ ~startup.complete) /\ Extruder \notin errors
    BY <1>2, <1>3, <2>1 DEF HandleActiveFault
  <2>2. CASE ~(errors # {} /\ startup.started /\ ~startup.complete) /\ Extruder \in errors
    BY <1>3, <2>2 DEF HandleActiveFault
  <2>3. CASE errors # {} /\ startup.started /\ ~startup.complete
    BY <1>3, <2>3 DEF HandleActiveFault, Ends
  <2>. QED BY <2>1, <2>2, <2>3
<1>4. ASSUME NEW a \in Axes, Warn(a) \/ Fault(a) \/ Verify(a) \/ Verified(a)
      PROVE  Moves /\ clean' = clean /\ print' \in {print, "pausing"}
  <2>1. CASE Warn(a)
    BY <2>1 DEF Warn
  <2>2. CASE Fault(a)
    BY <1>1, <2>2 DEF Fault, NoteStallPinEvent
  <2>3. CASE Verify(a)
    BY <1>1, <2>3 DEF Verify
  <2>4. CASE Verified(a)
    BY <1>1, <1>3, <2>4 DEF Verified
  <2>. QED BY <1>4, <2>1, <2>2, <2>3, <2>4
<1>5. CASE PollFires
  BY <1>1, <1>5 DEF PollFires, Goes
<1>6. CASE Polled
  BY <1>1, <1>3, <1>6 DEF Polled
<1>7. ASSUME NEW p \in Greenlets, Recovering(p) \/ Recovered(p)
      PROVE  Moves /\ clean' = clean /\ print' \in {print, "pausing"}
  <2>1. p \in Elsewhere
    BY <1>1, <1>7 DEF TypeInv, RecoverPlaces, Recovering, Recovered, Answered
  <2>. QED BY <1>2, <1>7, <2>1 DEF Recovering, Recovered, Goes
<1>8. ASSUME NEW p \in Cleaners, CleanupFires(p) \/ CleanupEnds(p)
      PROVE  Moves /\ clean' = clean /\ print' \in {print, "pausing"}
  BY <1>1, <1>8 DEF CleanupFires, CleanupEnds, Goes, Ends
<1>. QED BY <1>4, <1>5, <1>6, <1>7, <1>8

\* The steps of the greenlets that are no startup handlers.
LEMMA StartOthers ==
    ASSUME TypeInv, StartInv,
           \/ \E a \in Axes : Warn(a) \/ Fault(a) \/ Verify(a) \/ Verified(a)
           \/ PollFires \/ Polled
           \/ \E p \in Greenlets : Recovering(p) \/ Recovered(p)
           \/ \E p \in Cleaners : CleanupFires(p) \/ CleanupEnds(p)
           \/ PrintStarts \/ PauseRuns \/ Resume \/ RequireExtruderClear
           \/ ClearErrorBegins \/ ClearError \/ HomingBegins \/ HomingStarts
           \/ HomingMove \/ HomingEnds \/ CutCheck
    PROVE  StartInv'
<1>1. /\ startup' = startup \/ startup' = Down(startup)
      /\ g' = g \/ \E p \in Greenlets \ Handlers : \E r : g' = [g EXCEPT ![p] = r]
  <2>1. CASE \/ PrintStarts \/ PauseRuns \/ Resume \/ RequireExtruderClear
             \/ ClearErrorBegins \/ ClearError \/ HomingBegins \/ HomingStarts
             \/ HomingMove \/ HomingEnds \/ CutCheck
    BY <2>1, CommandGoes, Names, HandlerNames DEF GcodeGoes, Goes, Ends
  <2>. QED BY <2>1, FaultMoves
<1>2. g'["s1"] = g["s1"] /\ g'["s2"] = g["s2"]
  BY <1>1, OthersTyped, HandlerNames
<1>. QED BY <1>1, <1>2, StartKept

LEMMA StartBegins ==
    ASSUME TypeInv, StartInv, ~RetryMidStep, SerialReady \/ RetryStartup
    PROVE  StartInv'
<1>1. startup \in Startup /\ g["s1"] = Idle
  BY OthersTyped DEF SerialReady, RetryStartup, StartInv, OneStep
<1>2. /\ startup'.index = 0 /\ startup'.passed = {} /\ ~startup'.ready /\ startup'.started
      /\ UNCHANGED g
  BY <1>1 DEF SerialReady, RetryStartup, Reset, Startup
<1>3. 0..(0 - 1) = {}
  OBVIOUS
<1>. QED BY <1>1, <1>2, <1>3 DEF StartInv, OneStep, InOrder

LEMMA StartFires ==
    ASSUME TypeInv, StartInv, NEW p \in Handlers, StartupFires(p)
    PROVE  StartInv'
<1> DEFINE over == ~startup.complete /\ startup.index \notin Steps
           step == [Idle EXCEPT !.at = StepAt(startup.index),
                                !.todo = StepAxes(startup.index), !.step = startup.index]
<1>1. /\ startup \in Startup /\ g \in [Greenlets -> Greenlet] /\ startup.timer
      /\ startup' = [startup EXCEPT !.timer = FALSE, !.ready = @ \/ over,
                                    !.complete = @ \/ over]
      /\ g' = IF startup.complete \/ over THEN g ELSE [g EXCEPT ![p] = step]
  BY OthersTyped DEF StartupFires
<1>2. g["s1"] = Idle /\ g["s2"] = Idle
  BY <1>1 DEF StartInv, OneStep
<1>3. p = "s1"
  BY <1>2 DEF StartupFires, Handlers
<1>4. /\ startup'.index = startup.index /\ startup'.passed = startup.passed
      /\ ~startup'.timer /\ startup'.started = startup.started
      /\ startup'.complete <=> (startup.complete \/ over)
      /\ startup'.ready <=> (startup.ready \/ over)
  BY <1>1 DEF Startup
<1>5. over => startup.index = 7
  BY DEF StartInv, InOrder, Steps
<1>6. InOrder'
  BY <1>4, <1>5 DEF StartInv, InOrder
<1>7. CASE startup.complete \/ over
  <2>1. g' = g
    BY <1>1, <1>7, Zenon
  <2>. QED BY <1>2, <1>4, <1>6, <2>1 DEF StartInv, OneStep
<1>8. CASE ~(startup.complete \/ over)
  <2>1. g' = [g EXCEPT ![p] = step] /\ startup.index \in Steps
    BY <1>1, <1>8, Zenon
  <2>2. StepAt(startup.index) \in StepPlaces
    BY <2>1 DEF StepAt, StepPlaces, Steps, Check, Clear, Recheck
  <2>3. g'["s1"] = step /\ g'["s2"] = Idle
    BY <1>1, <1>2, <1>3, <2>1, HandlerNames
  <2>4. step.at = StepAt(startup.index) /\ step.step = startup.index
    BY DEF Idle
  <2>5. startup.started
    BY <1>1 DEF StartInv, OneStep
  <2>. QED BY <1>4, <1>6, <1>8, <2>2, <2>3, <2>4, <2>5 DEF StartInv, OneStep
<1>. QED BY <1>7, <1>8

LEMMA StartStepEnds ==
    ASSUME TypeInv, StartInv, NEW p \in Handlers, StepEnds(p)
    PROVE  StartInv'
<1>1. g[p] # Idle
  BY IdleGreenlet DEF StepEnds, Answered
<1>2. p = "s1"
  BY <1>1 DEF Handlers, StartInv, OneStep
<1>3. startup \in Startup /\ g["s1"].step = startup.index /\ startup.index \in Nat
      /\ ~startup.complete
  BY <1>1, <1>2, OthersTyped DEF StartInv, OneStep, Startup
<1>4. g'["s1"] = Idle /\ g'["s2"] = Idle
  BY <1>2, OthersTyped, HandlerNames DEF StepEnds, Ends, StartInv, OneStep
<1>5. startup.index \in Steps
  BY <1>3, OthersTyped, HandlerNames DEF Greenlet
<1>6. PICK active : StepSucceeds(p, active) \/ StepFails(p)
  BY DEF StepEnds
<1>7. CASE StepSucceeds(p, active)
  <2>1. /\ startup'.index = startup.index + 1
        /\ startup'.passed = startup.passed \cup {startup.index}
        /\ startup'.ready = startup.ready /\ startup'.started = startup.started
    BY <1>2, <1>3, <1>7 DEF StepSucceeds, Startup
  <2>2. (0..(startup.index - 1)) \cup {startup.index} = 0..startup.index
    BY <1>3
  <2>3. ~startup.ready /\ startup.started
    BY <1>1, <1>2, <1>3 DEF OneStep, StartInv, InOrder
  <2>. QED BY <1>3, <1>4, <1>5, <2>1, <2>2, <2>3 DEF StartInv, OneStep, InOrder, Steps
<1>8. CASE StepFails(p)
  <2>1. CASE startup.mayRetry /\ startup.retries < AutoRetryLimit
    <3>1. startup'.index = 0 /\ startup'.passed = {} /\ ~startup'.ready /\ startup'.started
      BY <1>3, <1>8, <2>1 DEF StepFails, Reset, Startup
    <3>2. 0..(0 - 1) = {}
      OBVIOUS
    <3>. QED BY <1>4, <3>1, <3>2 DEF StartInv, OneStep, InOrder
  <2>2. CASE ~(startup.mayRetry /\ startup.retries < AutoRetryLimit)
    <3>1. /\ startup'.index = startup.index /\ startup'.passed = startup.passed
          /\ ~startup'.ready /\ ~startup'.timer
      BY <1>3, <1>8, <2>2 DEF StepFails, Startup
    <3>. QED BY <1>4, <3>1 DEF StartInv, OneStep, InOrder
  <2>. QED BY <2>1, <2>2
<1>. QED BY <1>6, <1>7, <1>8

LEMMA NextStart == ~RetryMidStep /\ TypeInv /\ StartInv /\ [Next]_vars => StartInv'
<1> SUFFICES ASSUME ~RetryMidStep, TypeInv, StartInv, [Next]_vars PROVE StartInv'
  OBVIOUS
<1>1. ASSUME NEW p \in Greenlets, RunsOn(p) PROVE StartInv'
  BY <1>1, StartOthers, StartStepEnds DEF RunsOn
<1>2. CASE \E p \in Greenlets : Exchanges(p)
  BY <1>2, StartExchange
<1>3. CASE SerialReady \/ RetryStartup \/ \E p \in Handlers : StartupFires(p)
  BY <1>3, StartBegins, StartFires
<1>4. CASE \/ \E a \in Axes : Warn(a) \/ Fault(a) \/ Verify(a)
           \/ PollFires
           \/ \E p \in Cleaners : CleanupFires(p)
           \/ PrintStarts \/ PauseRuns \/ Resume \/ ClearErrorBegins \/ HomingBegins
           \/ HomingMove \/ HomingEnds \/ CutCheck
  BY <1>4, StartOthers
<1>5. CASE UNCHANGED vars
  BY <1>5 DEF vars, StartInv, OneStep, InOrder
<1>. QED BY <1>1, <1>2, <1>3, <1>4, <1>5 DEF Next

\* The motors are ready only when each step of the last startup has succeeded,
\* provided that a startup is not begun again in the middle of a step.
THEOREM ReadyAfterAllSteps ==
    ASSUME ~RetryMidStep
    PROVE  Spec => []ReadyMeansStarted
<1>1. Init => StartInv
  <2>1. Init => g["s1"] = Idle /\ g["s2"] = Idle
    BY HandlerNames DEF Init
  <2>2. 0..(0 - 1) = {}
    OBVIOUS
  <2>. QED BY <2>1, <2>2 DEF Init, StartInv, OneStep, InOrder
<1>2. Spec => []TypeInv
  BY InitTypes, NextTypes, PTL DEF Spec
<1>3. TypeInv /\ StartInv /\ [Next]_vars => StartInv'
  BY NextStart
<1>4. Spec => []StartInv
  BY <1>1, <1>2, <1>3, PTL DEF Spec
<1>5. StartInv => ReadyMeansStarted
  BY DEF StartInv, InOrder, ReadyMeansStarted, Steps
<1>. QED BY <1>4, <1>5, PTL

-----------------------------------------------------------------------------
(* RESUME needs an answer without an error.                                *)

\* A greenlet other than the command's leaves what the command has read.
LEMMA CleanKept ==
    ASSUME AnswerClean, g'["gcode"] = g["gcode"], clean => clean'
    PROVE  AnswerClean'
BY DEF AnswerClean

\* The extruder's answer without an error makes the history true; a failure is
\* remembered as lost.
LEMMA CleanExchange ==
    ASSUME TypeInv, AnswerClean, NEW p \in Greenlets, Exchanges(p)
    PROVE  AnswerClean' /\ print' = print
<1>1. g \in [Greenlets -> Greenlet] /\ "gcode" \in Greenlets /\ g["gcode"] \in Greenlet
  BY OthersTyped, Names
<1>2. (clean => clean') /\ print' = print
  <2>1. NozzleAnswers(p) => (clean => clean')
    BY Zenon DEF NozzleAnswers
  <2>2. AskSerial(p) \/ ClearSerial(p) \/ SendNozzle(p) => clean' = clean
    BY DEF AskSerial, ClearSerial, SendNozzle
  <2>3. print' = print
    BY DEF Exchanges, AskSerial, ClearSerial, SendNozzle, NozzleAnswers
  <2>. QED BY <2>1, <2>2, <2>3 DEF Exchanges
<1>3. CASE p # "gcode"
  <2>1. \E r : g' = [g EXCEPT ![p] = r]
    BY DEF Exchanges, AskSerial, ClearSerial, SendNozzle, NozzleAnswers
  <2>. QED BY <1>1, <1>2, <1>3, <2>1, CleanKept
<1>4. CASE p = "gcode" /\ g["gcode"].at \notin Requiring
  <2>1. g'["gcode"].at = g["gcode"].at
    <3>1. \A a : Reads(p, a).at = g[p].at /\ Raises(p, a).at = g[p].at
      BY <1>1, <1>4 DEF Reads, Raises, Greenlet
    <3>2. CASE AskSerial(p)
      BY <1>1, <1>4, <3>1, <3>2 DEF AskSerial
    <3>3. CASE ClearSerial(p)
      BY <1>1, <1>4, <3>3 DEF ClearSerial, Greenlet
    <3>4. CASE SendNozzle(p)
      BY <1>1, <1>4, <3>1, <3>4 DEF SendNozzle, Greenlet
    <3>5. CASE NozzleAnswers(p)
      BY <1>1, <1>4, <3>1, <3>5 DEF NozzleAnswers, Greenlet
    <3>. QED BY <3>2, <3>3, <3>4, <3>5 DEF Exchanges
  <2>. QED BY <1>2, <1>4, <2>1 DEF AnswerClean
<1>5. CASE p = "gcode" /\ g["gcode"].at \in Requiring
  <2>1. g[p].todo \subseteq {Extruder} /\ g[p].todo \cap Kinematic = {}
    BY <1>5, AxesAssumption DEF AnswerClean
  <2>2. ~AskSerial(p) /\ ~ClearSerial(p)
    BY <2>1 DEF AskSerial, ClearSerial
  <2> DEFINE reads == Reads(p, Extruder)
             raises == Raises(p, Extruder)
  <2>3. /\ raises.at = g[p].at /\ raises.todo = {} /\ raises.lost
        /\ reads.at = g[p].at /\ reads.todo = g[p].todo \ {Extruder}
        /\ latch[Extruder] = "error" => reads.err # {}
    BY <1>1, <1>5 DEF Reads, Raises, Greenlet, Requiring
  <2>4. CASE g' = [g EXCEPT ![p] = raises]
    BY <1>1, <1>2, <1>5, <2>3, <2>4 DEF AnswerClean
  <2>5. CASE SendNozzle(p) /\ g' = [g EXCEPT ![p].sent = TRUE]
    <3>1. g'[p].at = g[p].at /\ g'[p].todo = g[p].todo /\ g[p].todo = {Extruder}
      BY <1>1, <1>5, <2>5 DEF SendNozzle, Greenlet
    <3>. QED BY <1>2, <1>5, <3>1 DEF AnswerClean
  <2>6. CASE NozzleAnswers(p) /\ g' = [g EXCEPT ![p] = reads] /\ UNCHANGED latch
    <3>1. latch[Extruder] # "error" => clean'
      BY <1>5, <2>6 DEF NozzleAnswers
    <3>2. g'[p] = reads
      BY <1>1, <2>6
    <3>. QED BY <1>2, <1>5, <2>1, <2>3, <3>1, <3>2 DEF AnswerClean
  <2>7. CASE /\ g[p].at \in Clearing
             /\ g' = [g EXCEPT ![p].todo = {}, ![p].sent = FALSE]
    <3>1. g[p].at = "require_clear"
      BY <1>5, <2>7 DEF Requiring, Clearing
    <3>2. g'[p].at = "require_clear" /\ g'[p].todo = {}
      BY <1>1, <1>5, <2>7, <3>1 DEF Greenlet
    <3>. QED BY <1>2, <1>5, <3>2 DEF AnswerClean
  <2>. QED BY <1>2, <2>2, <2>4, <2>5, <2>6, <2>7 DEF Exchanges, SendNozzle, NozzleAnswers
<1>. QED BY <1>3, <1>4, <1>5

\* A command that is not RESUME makes no exchange of RESUME.
LEMMA CleanCommand ==
    ASSUME TypeInv, AnswerClean,
           \/ PrintStarts \/ PauseRuns \/ Resume \/ ClearErrorBegins \/ ClearError
           \/ HomingBegins \/ HomingStarts \/ HomingMove \/ HomingEnds \/ CutCheck
    PROVE  AnswerClean' /\ (print = "paused" => print' # "printing")
<1>1. g \in [Greenlets -> Greenlet] /\ "gcode" \in Greenlets
  BY OthersTyped, Names
<1>2. CASE PrintStarts \/ PauseRuns \/ HomingMove
  BY <1>2, CleanKept DEF PrintStarts, PauseRuns, HomingMove
<1>3. CASE Resume
  <2>1. g'["gcode"] = Exchange("gcode", "require", {Extruder})
    BY <1>1, <1>3 DEF Resume, Goes
  <2>2. g'["gcode"].at = "require" /\ g'["gcode"].todo = {Extruder}
    BY <1>1, <2>1, GcodeGreenlet DEF Exchange, Greenlet, Places, Asking
  <2>. QED BY <1>3, <2>2 DEF AnswerClean, Resume
<1>4. CASE \/ ClearErrorBegins \/ ClearError \/ HomingBegins \/ HomingStarts
           \/ HomingEnds \/ CutCheck
  <2>1. \A at, axes : Exchange("gcode", at, axes).at = at
    BY <1>1 DEF Exchange, Greenlet
  <2>2. g'["gcode"] = g["gcode"] \/ g'["gcode"].at \notin Requiring
    BY <1>1, <1>4, <2>1, IdleGreenlet
       DEF ClearErrorBegins, ClearError, HomingBegins, HomingStarts, HomingEnds, CutCheck,
           Goes, Ends, Requiring
  <2>3. clean' = clean /\ print' = print
    BY <1>4 DEF ClearErrorBegins, ClearError, HomingBegins, HomingStarts, HomingEnds, CutCheck
  <2>. QED BY <2>2, <2>3, CleanKept DEF AnswerClean
<1>. QED BY <1>2, <1>3, <1>4

\* RESUME goes on with an answer that has come and shows no error.
LEMMA CleanRequire ==
    ASSUME TypeInv, AnswerClean, RequireExtruderClear
    PROVE  AnswerClean' /\ (print = "paused" /\ print' = "printing" => clean)
<1>1. g \in [Greenlets -> Greenlet] /\ "gcode" \in Greenlets
  BY OthersTyped, Names
<1>2. \A at : LET r == Exchange("gcode", at, {Extruder})
              IN  r.todo = {Extruder}
  BY <1>1 DEF Exchange, Greenlet
<1>3. g'["gcode"].at \in Requiring => g'["gcode"].todo = {Extruder}
  BY <1>1, <1>2, IdleGreenlet DEF RequireExtruderClear, Goes, Ends, Requiring
<1>4. print = "paused" /\ print' = "printing" => clean
  BY DEF RequireExtruderClear, Answered, AnswerClean, Requiring
<1>. QED BY <1>3, <1>4 DEF AnswerClean

LEMMA NextClean ==
    TypeInv /\ AnswerClean /\ [Next]_vars
        => AnswerClean' /\ [print = "paused" /\ print' = "printing" => clean]_vars
<1> SUFFICES ASSUME TypeInv, AnswerClean, [Next]_vars
             PROVE  AnswerClean' /\ (print = "paused" /\ print' = "printing" => clean)
  OBVIOUS
<1>1. g \in [Greenlets -> Greenlet] /\ {"gcode", "s1", "s2"} \subseteq Greenlets
      /\ "gcode" \notin Handlers
  BY OthersTyped, Names, HandlerNames
<1>2. CASE \/ \E a \in Axes : Warn(a) \/ Fault(a) \/ Verify(a) \/ Verified(a)
           \/ PollFires \/ Polled
           \/ \E p \in Greenlets : Recovering(p) \/ Recovered(p)
           \/ \E p \in Cleaners : CleanupFires(p) \/ CleanupEnds(p)
  <2>1. g'["gcode"] = g["gcode"] /\ clean' = clean /\ print' \in {print, "pausing"}
    BY <1>1, <1>2, FaultMoves
  <2>. QED BY <2>1, CleanKept
<1>3. CASE SerialReady \/ RetryStartup \/ \E p \in Handlers : StartupFires(p) \/ StepEnds(p)
  <2>1. g'["gcode"] = g["gcode"]
    <3>1. CASE SerialReady \/ RetryStartup
      BY <3>1 DEF SerialReady, RetryStartup
    <3>2. ASSUME NEW p \in Handlers, StartupFires(p)
          PROVE  g'["gcode"] = g["gcode"]
      <4>1. g' = g \/ \E r : g' = [g EXCEPT ![p] = r]
        BY <3>2, Zenon DEF StartupFires
      <4>. QED BY <1>1, <4>1
    <3>3. ASSUME NEW p \in Handlers, StepEnds(p)
          PROVE  g'["gcode"] = g["gcode"]
      BY <1>1, <3>3 DEF StepEnds, Ends
    <3>. QED BY <1>3, <3>1, <3>2, <3>3
  <2>2. clean' = clean /\ print' = print
    BY <1>3 DEF SerialReady, RetryStartup, StartupFires, StepEnds
  <2>. QED BY <2>1, <2>2, CleanKept
<1>4. CASE \E p \in Greenlets : Exchanges(p)
  BY <1>4, CleanExchange
<1>5. CASE \/ PrintStarts \/ PauseRuns \/ Resume \/ ClearErrorBegins \/ ClearError
           \/ HomingBegins \/ HomingStarts \/ HomingMove \/ HomingEnds \/ CutCheck
  BY <1>5, CleanCommand
<1>6. CASE RequireExtruderClear
  BY <1>6, CleanRequire
<1>7. CASE UNCHANGED vars
  BY <1>7, CleanKept DEF vars
<1>. QED BY <1>2, <1>3, <1>4, <1>5, <1>6, <1>7 DEF Next, RunsOn

\* RESUME continues a print only when the extruder board was without error at a
\* moment since it began: a lost answer, a refused transport or an unacknowledged
\* clear does not let it go on.
THEOREM ResumesClean == Spec => ResumeClean
<1>1. Init => AnswerClean
  <2>1. Init => g["gcode"].at = "idle"
    BY Names, IdleGreenlet DEF Init
  <2>. QED BY <2>1 DEF AnswerClean, Requiring
<1>2. Spec => []TypeInv
  BY InitTypes, NextTypes, PTL DEF Spec
<1>. QED
  BY <1>1, <1>2, NextClean, PTL DEF Spec, ResumeClean

===============================================================================
