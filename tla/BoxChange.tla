----------------------------- MODULE BoxChange -----------------------------
(***************************************************************************)
(* The filament change engine (extras/box_change.py) and the physical      *)
(* operations of the box controller it calls (extras/box.py).              *)
(*                                                                         *)
(* One G-code command runs at a time: op is its program counter and its    *)
(* locals.  Between two of its steps the printer goes on: a pause is       *)
(* requested, the box latches a fault, the user inserts or pulls the       *)
(* external filament; and any step may fail, leaving the filament path     *)
(* somewhere between its two ends.  A failed change leaves its request     *)
(* pending with checkpoints, blocks the resume, and pauses the print; the  *)
(* next command or RESUME continues from there.                            *)
(*                                                                         *)
(* Left out: temperatures, the purge volumes, tool numbers, and spool      *)
(* bookkeeping.  Z is homed.  The filament sensor can always be read.      *)
(***************************************************************************)
EXTENDS Naturals

CONSTANTS Slots,       \* physical slots of the boxes online
          External,    \* the slot number of the external spool
          NoSlot,      \* -1, and None
          Selectable,  \* the slots that commands name
          Calibrated,  \* cut_x is set: the cutter may be used
          Manual       \* which of BOX_LOAD and BOX_UNLOAD are used

ASSUME BoxAssumption ==
    /\ External \notin Slots
    /\ NoSlot \notin Slots \cup {External}
    /\ Selectable \subseteq Slots \cup {External}
    /\ Calibrated \in BOOLEAN
    /\ Manual \subseteq {"load", "unload"}

VARIABLES
    (* the print, as pause_resume and print_stats show it *)
    print,           \* "pausing": pause_command_sent and not is_paused
    head,            \* where the print head is
    pausePos,        \* the position in the saved state PAUSE_STATE
    savedPos,        \* the position in the saved state box_change_recovery
    (* the filament path *)
    path,            \* what a coherent read of sensor and boxes returns
    sensor,          \* the filament sensor is enabled
    (* the controller's persistent settings *)
    feedPending,     \* slot whose filament is short of the hotend
    lastLoaded,      \* last_loaded_slot
    primed,          \* prepared_epoch is the epoch of this print
    (* the engine *)
    pending,         \* the change request that is not finished
    recovery,        \* why RESUME is blocked, and what it may retry
    resumePrepared,  \* filament was prepared during this pause
    op,              \* the command that is running
    (* what no variable of the code knows *)
    strand,          \* how far the filament in the print head reaches
    cuts             \* cuts of it that the requests of one recovery completed

vars == <<print, head, pausePos, savedPos, path, sensor, feedPending,
          lastLoaded, primed, pending, recovery, resumePrepared, op,
          strand, cuts>>

printVars  == <<print, head, pausePos>>
memory     == <<feedPending, lastLoaded, primed>>

AnySlot == Slots \cup {External, NoSlot}

Prints    == {"none", "printing", "pausing", "paused"}
Positions == {"none", "print", "park", "service", "stale"}
Strands   == {"none", "gears", "hotend", "cut"}
Steps     == {"idle", "route", "retract", "cut", "unload", "pull", "verify",
              "load", "insert", "commit", "tail", "rexec", "flush", "final",
              "return", "finish", "prime", "recheck"}
LastSteps == {"none", "attendance", "retract", "cut", "unload", "load",
              "flush", "final_temperature", "restore", "return"}

Paths == [slot : AnySlot, seen : BOOLEAN, tracked : BOOLEAN]
Gone  == [slot |-> NoSlot, seen |-> FALSE, tracked |-> FALSE]
Loaded(s, t) == [slot |-> s, seen |-> TRUE, tracked |-> t]

(* ChangeRequest.  ret and svc stand for return_position and service_z.    *)
Requests ==
    [target : AnySlot, flush : BOOLEAN, print : BOOLEAN,
     kind : {"normal", "runout"}, retracted : AnySlot, cut : AnySlot,
     flushDone : BOOLEAN, prepared : BOOLEAN, last : LastSteps,
     runout : BOOLEAN, ret : Positions, svc : BOOLEAN, rebase : BOOLEAN]

NoRequest ==
    [target |-> NoSlot, flush |-> FALSE, print |-> FALSE, kind |-> "normal",
     retracted |-> NoSlot, cut |-> NoSlot, flushDone |-> FALSE,
     prepared |-> FALSE, last |-> "none", runout |-> FALSE, ret |-> "none",
     svc |-> FALSE, rebase |-> FALSE]

HasPending == pending.target # NoSlot

(* ResumeRecovery, or none. *)
Recoveries == [on : BOOLEAN, target : AnySlot, automatic : BOOLEAN]
NoRecovery == [on |-> FALSE, target |-> NoSlot, automatic |-> FALSE]

(* cmd: "change", "resume" (a change within RESUME), "runout", "unload",   *)
(* "manual" (BOX_UNLOAD MANUAL=1) or "load".  stale: fault_generation is   *)
(* no longer the one the command started with.  live: the read it started  *)
(* from.  armed: previous_sensor.                                          *)
Operations ==
    [at : Steps, target : AnySlot, stale : BOOLEAN, live : Paths,
     armed : BOOLEAN,
     cmd : {"none", "change", "resume", "runout", "unload", "manual", "load"}]

Idle == [at |-> "idle", cmd |-> "none", target |-> NoSlot, stale |-> FALSE,
         live |-> Gone, armed |-> FALSE]

IsIdle  == op.at = "idle"
Active  == print # "none"
Changes == op.cmd \in {"change", "resume", "runout"}

Init ==
    /\ print = "none" /\ head = "service"
    /\ pausePos = "none" /\ savedPos = "none"
    /\ path \in {Gone} \cup {Loaded(s, s # External) : s \in Selectable}
    /\ strand = IF path.slot = NoSlot THEN "none" ELSE "hotend"
    /\ cuts = 0
    /\ sensor = TRUE
    /\ feedPending = NoSlot
    /\ lastLoaded = path.slot
    /\ primed = FALSE
    /\ pending = NoRequest
    /\ recovery = NoRecovery
    /\ resumePrepared = FALSE
    /\ op = Idle

----------------------------------------------------------------------------
(***************************************************************************)
(* Around the engine.                                                      *)
(***************************************************************************)

(* reset_print_recovery, on the events of a print that starts or ends.  An *)
(* earlier print's saved positions mean nothing in a new one.              *)
ResetRecovery ==
    /\ pending' = NoRequest
    /\ recovery' = NoRecovery
    /\ resumePrepared' = FALSE
    /\ cuts' = 0
    /\ pausePos' = "stale" /\ savedPos' = "stale"

PrintStart ==
    /\ IsIdle /\ print = "none"
    /\ print' = "printing" /\ head' = "print"
    /\ primed' = FALSE
    /\ ResetRecovery
    /\ UNCHANGED <<path, strand, sensor, feedPending, lastLoaded, op>>

PrintEnd ==
    /\ IsIdle /\ Active
    /\ print' = "none" /\ head' = "service"
    /\ primed' = FALSE
    /\ ResetRecovery
    /\ UNCHANGED <<path, strand, sensor, feedPending, lastLoaded, op>>

(* The user, or any other part of the printer, asks for a pause.           *)
RequestPause ==
    /\ print = "printing"
    /\ print' = "pausing"
    /\ UNCHANGED <<head, pausePos, savedPos, path, sensor, memory, pending,
                   recovery, resumePrepared, op, strand, cuts>>

(* PAUSE runs when no other command does: it saves PAUSE_STATE, parks the  *)
(* head and calls _BOX_PAUSE_CAPTURE.                                      *)
Pause ==
    /\ IsIdle /\ print = "pausing"
    /\ print' = "paused"
    /\ pausePos' = head /\ head' = "park"
    /\ resumePrepared' = FALSE
    /\ UNCHANGED <<savedPos, path, sensor, memory, pending, recovery, op,
                   strand, cuts>>

BlockResumeNamed(target, automatic) ==
    /\ recovery' = [on |-> TRUE, target |-> target, automatic |-> automatic]
    /\ resumePrepared' = FALSE

(* block_resume, with the target and the flag its caller names.            *)
BlockResume(target, automatic) ==
    /\ recovery' = IF HasPending /\ pending.print
                   THEN [on |-> TRUE, target |-> pending.target,
                         automatic |-> TRUE]
                   ELSE [on |-> TRUE, target |-> target,
                         automatic |-> automatic]
    /\ resumePrepared' = FALSE

SoonPausedNever == print

(* pause_print, which only asks: the pause comes when the command has ended. *)
SoonPaused == IF print = "printing" THEN "pausing" ELSE print

(* A poll, or a read of the running command, latches a fatal fault of the  *)
(* box that owns the path; the path may lose its tracking.                 *)
Fault ==
    /\ path.slot \in Slots
    /\ \E t \in BOOLEAN : path' = [path EXCEPT !.tracked = @ /\ t]
    /\ op' = [op EXCEPT !.stale = ~IsIdle]
    /\ IF Active THEN BlockResume(path.slot, ~HasPending)
                 ELSE UNCHANGED <<recovery, resumePrepared>>
    /\ print' = SoonPaused
    /\ UNCHANGED <<head, pausePos, savedPos, sensor, memory, pending,
                   strand, cuts>>

(* A poll finds the extruder moving and the filament standing still.       *)
Clog ==
    /\ print = "printing" /\ path.tracked
    /\ BlockResume(path.slot, TRUE)
    /\ print' = "pausing"
    /\ UNCHANGED <<head, pausePos, savedPos, path, sensor, memory, pending,
                   op, strand, cuts>>

(* The user's hand at the external spool.                                  *)
InsertExternal ==
    /\ External \in Selectable /\ path = Gone
    /\ path' = Loaded(External, FALSE)
    /\ strand' = "gears" /\ cuts' = 0
    /\ UNCHANGED <<printVars, savedPos, sensor, memory, pending, recovery,
                   resumePrepared, op>>

PullExternal ==
    /\ path.slot = External
    /\ op.at = "pull"
    /\ path' = Gone
    /\ strand' = "none" /\ cuts' = 0
    /\ UNCHANGED <<printVars, savedPos, sensor, memory, pending, recovery,
                   resumePrepared, op>>

----------------------------------------------------------------------------
(***************************************************************************)
(* Requests, checkpoints and failures.                                     *)
(***************************************************************************)

TargetReadyUnseen(t, p) == p.slot = t /\ (t = External \/ p.tracked)

TargetReady(t, p) == p.slot = t /\ p.seen /\ (t = External \/ p.tracked)

(* A fault was latched since the command started, or a pause waits for it. *)
Aborted == op.stale \/ print = "pausing"

Inherits(p, t) ==
    p.target \notin {t, NoSlot} /\ (p.runout \/ p.ret # "none" \/ p.svc)

RequestFor(p, t, flush) ==
    IF p.target = t THEN p
    ELSE IF Inherits(p, t)
         THEN [p EXCEPT !.target = t, !.flush = flush, !.kind = "normal",
                        !.flushDone = FALSE, !.prepared = FALSE,
                        !.last = "none"]
         ELSE [NoRequest EXCEPT !.target = t, !.flush = flush,
                                !.print = Active]

(* _capture_service_origin: the position to return to is taken once.       *)
CapturedHeight(q) ==
    IF q.print /\ q.ret = "none"
    THEN [q EXCEPT !.ret = IF q.svc THEN "raised" ELSE "level"]
    ELSE q

CapturedRebases(q) ==
    IF q.print /\ q.ret = "none"
    THEN [q EXCEPT !.ret = head, !.rebase = TRUE] ELSE q

Captured(q) ==
    IF q.print /\ q.ret = "none"
    THEN [q EXCEPT !.ret = head, !.rebase = print # "paused"]
    ELSE q

SavedBy(q) == IF q.print /\ q.ret = "none" THEN head ELSE savedPos

(* _enter_service: the origin is captured and the head raised. *)
Served(q) == [Captured(q) EXCEPT !.svc = TRUE]

At(step) == op.at = step /\ ~Aborted
Goto(step) == op' = [op EXCEPT !.at = step]

(* _operation_failed, and for a runout _pause_runout, which pauses at once.*)
(* h is where the failure leaves the head.                                 *)
ChangeFails(q, h) ==
    /\ pending' = q
    /\ IF q.print
       THEN /\ recovery' = [on |-> TRUE, target |-> q.target,
                            automatic |-> TRUE]
            /\ resumePrepared' = FALSE
            /\ IF op.cmd = "runout" /\ print # "paused"
               THEN print' = "paused" /\ pausePos' = h /\ head' = "park"
               ELSE print' = SoonPaused /\ head' = h /\ UNCHANGED pausePos
       ELSE /\ head' = h
            /\ UNCHANGED <<print, pausePos, recovery, resumePrepared>>

(* BOX_LOAD, BOX_UNLOAD and the priming of RESUME only report.             *)
CommandFails(h) ==
    /\ head' = h
    /\ UNCHANGED <<print, pausePos, pending, recovery, resumePrepared>>

(* A failure inside an unload puts the sensor back to what it was.         *)
SensorLeft == sensor

SensorAfterFailure ==
    IF op.at \in {"retract", "cut", "unload", "pull"} THEN op.armed
                                                      ELSE sensor

(* The feed from the extruder's gears to the hotend is only made when it   *)
(* is pending.                                                             *)
Fed(slot) == IF feedPending = slot /\ strand # "none" THEN "hotend" ELSE strand

(* What a failing step leaves of path and strand: any point between its    *)
(* start and its end.                                                      *)
Leftovers ==
    {<<path, strand>>} \cup
    CASE op.at = "retract" -> {<<[path EXCEPT !.tracked = FALSE], strand>>}
      [] op.at = "cut" /\ Calibrated -> {<<path, "cut">>}
      [] op.at = "unload" /\ path.slot \in Slots ->
            {<<Gone, "none">>, <<[path EXCEPT !.tracked = FALSE], strand>>,
             <<[path EXCEPT !.tracked = FALSE, !.seen = FALSE], "none">>}
      [] op.at = "load" /\ op.target \in Slots /\ path.slot = op.target
                        /\ path.seen ->
            {<<[path EXCEPT !.tracked = t], strand>> : t \in BOOLEAN}
      [] op.at = "load" /\ op.target \in Slots
                        /\ path.slot \in {NoSlot, op.target}
                        /\ ~(path.slot = op.target /\ path.seen) ->
            {<<[Gone EXCEPT !.slot = op.target], "none">>}
            \cup {<<Loaded(op.target, t), "gears">> : t \in BOOLEAN}
      [] op.at \in {"flush", "prime"} -> {<<path, Fed(op.target)>>}
      [] OTHER -> {}

(* The steps that take the head to the service area. *)
Serving == {"retract", "cut", "unload", "pull", "load", "tail", "rexec",
            "flush", "final", "prime"}

(* Where a failing step may leave the head. *)
HeadsAfterFailure ==
    {head} \cup (IF op.at \in Serving THEN {"service"} ELSE {})
           \cup (IF op.at = "return" /\ print # "paused"
                                     /\ pending.ret # "none"
                 THEN {pending.ret} ELSE {})

(* The last step that the request names when a step fails: the one before, *)
(* or the failing one, which is noted when it starts.                      *)
LastAfterFailure ==
    {pending.last} \cup
    CASE op.at = "retract" /\ path.slot # External -> {"retract"}
      [] op.at = "cut" /\ path.slot # External /\ Calibrated -> {"cut"}
      [] op.at \in {"unload", "load"} -> {op.at}
      [] op.at = "return" ->
            (IF pending.kind = "runout" /\ pending.runout /\ pending.prepared
             THEN {"restore"} ELSE {})
            \cup (IF pending.ret # "none" /\ pending.svc THEN {"return"} ELSE {})
      [] OTHER -> {}

(* The request of a change that fails with the head at h. *)
Failed(h, last) ==
    [IF h = "service" THEN Served(pending) ELSE pending EXCEPT !.last = last]

(* Any step may fail at any point.  What was already moved stays.          *)
StepFails ==
    /\ ~IsIdle
    /\ \E left \in Leftovers, h \in HeadsAfterFailure, last \in LastAfterFailure :
        /\ path' = left[1] /\ strand' = left[2]
        /\ cuts' = IF left[1].slot = NoSlot THEN 0 ELSE cuts
        /\ IF Changes /\ op.at \notin {"prime", "recheck"}
           THEN /\ ChangeFails(Failed(h, last), h)
                /\ savedPos' = IF h = "service" THEN SavedBy(pending)
                                                ELSE savedPos
           ELSE CommandFails(h) /\ UNCHANGED savedPos
    /\ sensor' = SensorAfterFailure
    /\ op' = Idle
    /\ UNCHANGED memory

(* The reasons for which a step must fail. *)
MustFailPatient == Aborted /\ op.at # "return"

MustFail ==
    \/ Aborted /\ op.at # "return"
    \/ op.at \in {"verify", "load", "rexec"}
       /\ path.slot \notin {NoSlot, op.target}
       /\ ~(op.at = "rexec" /\ path.slot \in Slots)
    \/ op.at = "insert"
    \/ op.at = "prime" /\ lastLoaded = NoSlot
    \/ op.at = "recheck" /\ recovery.on

Refuse == ~IsIdle /\ MustFail /\ StepFails

----------------------------------------------------------------------------
(***************************************************************************)
(* Commands.                                                               *)
(***************************************************************************)

Begin(step, cmd, t) ==
    op' = [at |-> step, cmd |-> cmd, target |-> t, stale |-> FALSE,
           live |-> path, armed |-> sensor]

(* T<n> or BOX_SELECT_SLOT, from the file or the console. *)
Change(t, flush) ==
    /\ IsIdle
    /\ pending' = RequestFor(pending, t, flush)
    /\ Begin("route", "change", t)
    /\ UNCHANGED <<printVars, savedPos, path, sensor, memory, recovery,
                   resumePrepared, strand, cuts>>

(* The first read of the boxes fails: only a retry of the pending change   *)
(* is a failed change.                                                     *)
Unreadable(t) ==
    /\ IsIdle /\ pending.target = t
    /\ ChangeFails(pending, head)
    /\ UNCHANGED <<savedPos, path, sensor, memory, op, strand, cuts>>

(* prepare_resume and resume_check.  RESUME is for a paused print.         *)
Resume ==
    /\ IsIdle /\ print = "paused" /\ ~recovery.on
    /\ Begin("prime", "resume", lastLoaded)
    /\ UNCHANGED <<printVars, savedPos, path, sensor, memory, pending,
                   recovery, resumePrepared, strand, cuts>>

Attended ==
    [NoRequest EXCEPT !.target = External, !.flush = TRUE, !.print = TRUE,
                      !.last = "attendance"]

ResumeRetries ==
    /\ IsIdle /\ print = "paused"
    /\ recovery.on /\ recovery.automatic /\ recovery.target # NoSlot
    /\ resumePrepared' = FALSE
    /\ LET p == IF ~HasPending /\ recovery.target = External
                THEN Attended ELSE pending
       IN  pending' = RequestFor(p, recovery.target, TRUE)
    /\ Begin("route", "resume", recovery.target)
    /\ UNCHANGED <<printVars, savedPos, path, sensor, memory, recovery,
                   strand, cuts>>

----------------------------------------------------------------------------
(***************************************************************************)
(* The steps of a change.                                                  *)
(***************************************************************************)

Waits(t) == t = External /\ op.live.slot # t /\ print = "printing"

RouteAttend ==
    /\ At("route") /\ Waits(op.target)
    /\ LET q == [Captured(pending) EXCEPT !.last = "attendance"]
       IN  ChangeFails(q, head)
    /\ savedPos' = SavedBy(pending)
    /\ op' = Idle
    /\ UNCHANGED <<path, sensor, memory, strand, cuts>>

(* A change of kind runout goes on where it was, or only has to return.    *)
RouteRunout ==
    /\ At("route") /\ ~Waits(op.target) /\ pending.kind = "runout"
    /\ IF pending.runout /\ pending.last # "restore"
       THEN /\ pending' = Served(pending) /\ savedPos' = SavedBy(pending)
            /\ head' = "service"
            /\ Goto("rexec")
       ELSE /\ Goto(IF pending.runout THEN "return" ELSE "finish")
            /\ UNCHANGED <<pending, savedPos, head>>
    /\ UNCHANGED <<print, pausePos, path, sensor, memory, recovery,
                   resumePrepared, strand, cuts>>

ExternalCapture ==
    /\ op.target = External /\ TargetReady(External, op.live)
    /\ pending.last \in {"attendance", "load"}
    /\ feedPending # External

AlreadyPrepared ==
    /\ TargetReady(op.target, op.live) /\ ~ExternalCapture
    /\ ~(pending.flush /\ (\/ pending.runout /\ ~pending.flushDone
                           \/ feedPending = op.target
                           \/ Active /\ ~primed))
    /\ pending.last \notin {"flush", "final_temperature"}

RouteReady ==
    /\ At("route") /\ ~Waits(op.target) /\ pending.kind = "normal"
    /\ AlreadyPrepared
    /\ path' = [path EXCEPT !.tracked = op.target # External]
    /\ sensor' = (sensor \/ op.target # External)
    /\ lastLoaded' = op.target
    /\ Goto("return")
    /\ UNCHANGED <<printVars, savedPos, feedPending, primed, pending, recovery,
                   resumePrepared, strand, cuts>>

(* The steps of an unload that are still to do, the checkpoints being r    *)
(* and c.  A path that has left the sensor is neither retracted nor cut.   *)
UnloadStep(s, seen, r, c) ==
    IF s # External /\ ~seen THEN "unload"
    ELSE IF r # s THEN "retract"
    ELSE IF c # s THEN "cut"
    ELSE IF s = External THEN "pull" ELSE "unload"

Route ==
    /\ At("route") /\ ~Waits(op.target) /\ pending.kind = "normal"
    /\ ~AlreadyPrepared
    /\ pending' = Captured(pending) /\ savedPos' = SavedBy(pending)
    /\ LET s == op.live.slot
       IN  IF s = op.target
           THEN /\ Goto(IF TargetReady(s, op.live) /\ ~ExternalCapture
                        THEN "commit" ELSE "load")
                /\ UNCHANGED sensor
           ELSE IF s = NoSlot
           THEN Goto("verify") /\ UNCHANGED sensor
           ELSE /\ Goto(UnloadStep(s, op.live.seen, pending.retracted,
                                   pending.cut))
                /\ sensor' = FALSE
    /\ UNCHANGED <<printVars, path, memory, recovery, resumePrepared, strand,
                   cuts>>

(* Retract, cut and unload are also the steps of BOX_UNLOAD, which has no  *)
(* request and no checkpoints.                                             *)
Records(q) ==
    IF Changes THEN pending' = q /\ savedPos' = SavedBy(pending)
               ELSE UNCHANGED <<pending, savedPos>>

Retract ==
    /\ At("retract")
    /\ LET s == path.slot
       IN  /\ Records([Served(pending) EXCEPT
                         !.retracted = s,
                         !.last = IF s = External THEN @ ELSE "retract"])
           /\ Goto(IF Changes THEN UnloadStep(s, TRUE, s, pending.cut)
                              ELSE "cut")
    /\ path' = [path EXCEPT !.tracked = FALSE]
    /\ head' = "service"
    /\ UNCHANGED <<print, pausePos, sensor, memory, recovery, resumePrepared,
                   strand, cuts>>

CutForgets ==
    /\ At("cut")
    /\ Records([Served(pending) EXCEPT !.last = "cut"])
    /\ Goto(UnloadStep(path.slot, TRUE, path.slot, path.slot))
    /\ strand' = IF Calibrated THEN "cut" ELSE strand
    /\ cuts' = IF Calibrated /\ Changes /\ cuts < 2 THEN cuts + 1 ELSE cuts
    /\ head' = "service"
    /\ UNCHANGED <<print, pausePos, path, sensor, memory, recovery,
                   resumePrepared>>

Cut ==
    /\ At("cut")
    /\ LET s == path.slot
       IN  /\ Records([Served(pending) EXCEPT
                         !.cut = s,
                         !.last = IF s # External /\ Calibrated THEN "cut"
                                                                ELSE @])
           /\ Goto(UnloadStep(s, TRUE, s, s))
    /\ strand' = IF Calibrated THEN "cut" ELSE strand
    /\ cuts' = IF Calibrated /\ Changes /\ cuts < 2 THEN cuts + 1 ELSE cuts
    /\ head' = "service"
    /\ UNCHANGED <<print, pausePos, path, sensor, memory, recovery,
                   resumePrepared>>

(* physical_unload: the box winds the filament back.                       *)
Unload ==
    /\ At("unload")
    /\ LET served == op.live.seen /\ op.cmd # "manual"
       IN  /\ head' = IF served THEN "service" ELSE head
           /\ IF served THEN Records([Served(pending) EXCEPT !.last = "unload"])
              ELSE IF Changes
              THEN /\ pending' = [pending EXCEPT !.last = "unload"]
                   /\ UNCHANGED savedPos
              ELSE UNCHANGED <<pending, savedPos>>
    /\ IF path.slot \in Slots
       THEN /\ path' = Gone /\ strand' = "none" /\ cuts' = 0
            /\ feedPending' = IF feedPending = path.slot THEN NoSlot
                                                         ELSE feedPending
       ELSE UNCHANGED <<path, strand, cuts, feedPending>>
    /\ sensor' = TRUE
    /\ IF Changes THEN Goto("verify") ELSE op' = Idle
    /\ UNCHANGED <<print, pausePos, lastLoaded, primed, recovery,
                   resumePrepared>>

(* The external filament is pulled out by hand; the wait has no timeout.   *)
Pulled ==
    /\ At("pull") /\ ~path.seen
    /\ Records(Served(pending))
    /\ head' = "service"
    /\ sensor' = TRUE
    /\ feedPending' = IF feedPending = External THEN NoSlot ELSE feedPending
    /\ IF Changes THEN Goto("verify") ELSE op' = Idle
    /\ UNCHANGED <<print, pausePos, path, lastLoaded, primed, recovery,
                   resumePrepared, strand, cuts>>

Verify ==
    /\ At("verify") /\ path.slot \in {NoSlot, op.target}
    /\ Goto(IF TargetReady(op.target, path) THEN "commit" ELSE "load")
    /\ UNCHANGED <<printVars, savedPos, path, sensor, memory, pending,
                   recovery, resumePrepared, strand, cuts>>

(* physical_load.  A path that is loaded already is only tracked again.    *)
Load ==
    /\ At("load") /\ op.target \in Slots /\ path.slot \in {NoSlot, op.target}
    /\ IF path.slot = op.target /\ path.seen
       THEN /\ path' = Loaded(op.target, TRUE)
            /\ UNCHANGED <<strand, cuts, feedPending>>
       ELSE /\ path' = Loaded(op.target, TRUE)
            /\ strand' = "gears" /\ cuts' = 0
            /\ feedPending' = op.target
    /\ sensor' = TRUE
    /\ IF Changes
       THEN LET served == pending.flush \/ pending.kind = "runout"
                q == IF served THEN Served(pending) ELSE pending
            IN  /\ pending' = [q EXCEPT !.last = "load"]
                /\ savedPos' = IF served THEN SavedBy(pending) ELSE savedPos
                /\ head' = IF served THEN "service" ELSE head
                /\ Goto("commit")
                /\ UNCHANGED lastLoaded
       ELSE /\ lastLoaded' = op.target
            /\ op' = Idle
            /\ UNCHANGED <<pending, savedPos, head>>
    /\ UNCHANGED <<print, pausePos, primed, recovery, resumePrepared>>

LoadExternal ==
    /\ At("load") /\ op.target = External /\ path.slot \in {NoSlot, External}
    /\ pending' = [Served(pending) EXCEPT !.last = "load"]
    /\ savedPos' = SavedBy(pending)
    /\ head' = "service"
    /\ sensor' = TRUE
    /\ Goto("insert")
    /\ UNCHANGED <<print, pausePos, path, memory, recovery, resumePrepared,
                   strand, cuts>>

Inserted ==
    /\ At("insert") /\ path.seen
    /\ feedPending' = External
    /\ Goto("commit")
    /\ UNCHANGED <<printVars, savedPos, path, sensor, lastLoaded, primed,
                   pending, recovery, resumePrepared, strand, cuts>>

(* The target is loaded: what is left of preparing it.                     *)
Commit ==
    /\ At("commit")
    /\ lastLoaded' = op.target
    /\ LET flushes == ~pending.flushDone
                      /\ (pending.flush \/ pending.kind = "runout")
           settles == /\ pending.flush /\ pending.flushDone /\ pending.print
                      /\ pending.last = "final_temperature"
       IN  /\ pending' = IF flushes THEN [pending EXCEPT !.last = "flush"]
                                    ELSE pending
           /\ Goto(IF flushes THEN "flush"
                   ELSE IF settles THEN "final" ELSE "return")
    /\ UNCHANGED <<printVars, savedPos, path, sensor, feedPending, primed,
                   recovery, resumePrepared, strand, cuts>>

(* _prepare_filament: feed what is pending, then purge or prime if there   *)
(* is anything to do.                                                      *)
Flush ==
    /\ At("flush")
    /\ \E did \in BOOLEAN :
        /\ feedPending = op.target \/ (Active /\ ~primed) => did
        /\ LET q == IF did THEN Served(pending) ELSE pending
               settles == q.kind = "normal" /\ q.print
           IN  /\ pending' = [q EXCEPT !.prepared = @ \/ did,
                                       !.flushDone = TRUE,
                                       !.last = IF settles
                                                THEN "final_temperature" ELSE @]
               /\ Goto(IF settles THEN "final" ELSE "return")
        /\ savedPos' = IF did THEN SavedBy(pending) ELSE savedPos
        /\ head' = IF did THEN "service" ELSE head
        /\ strand' = Fed(op.target)
        /\ feedPending' = IF did THEN NoSlot ELSE feedPending
    /\ primed' = (primed \/ pending.print)
    /\ UNCHANGED <<print, pausePos, path, sensor, lastLoaded, recovery,
                   resumePrepared, cuts>>

Final ==
    /\ At("final")
    /\ \E cleaned \in BOOLEAN :
        /\ pending' = IF cleaned THEN Served(pending) ELSE pending
        /\ savedPos' = IF cleaned THEN SavedBy(pending) ELSE savedPos
        /\ head' = IF cleaned THEN "service" ELSE head
    /\ Goto("return")
    /\ UNCHANGED <<print, pausePos, path, sensor, memory, recovery,
                   resumePrepared, strand, cuts>>

(* _return_from_service: a paused print is sent back by RESUME, so only    *)
(* its saved position is put right.  Nothing is checked on the way.        *)
Return ==
    /\ op.at = "return"
    /\ LET back == pending.ret # "none" /\ pending.svc
       IN  /\ pending' = [pending EXCEPT
                            !.runout = FALSE,
                            !.last = IF back THEN "return"
                                     ELSE IF pending.runout THEN "restore"
                                     ELSE @]
           /\ head' = IF back /\ print # "paused" THEN pending.ret ELSE head
           /\ pausePos' = IF back /\ print = "paused" /\ pending.rebase
                          THEN savedPos ELSE pausePos
    /\ Goto("finish")
    /\ UNCHANGED <<print, savedPos, path, sensor, memory, recovery,
                   resumePrepared, strand, cuts>>

Finish ==
    /\ At("finish")
    /\ pending' = NoRequest
    /\ cuts' = 0
    /\ resumePrepared' = IF op.cmd = "runout" THEN resumePrepared
                                              ELSE pending.prepared
    /\ recovery' = NoRecovery
    /\ IF op.cmd = "resume" THEN Goto("prime") ELSE op' = Idle
    /\ UNCHANGED <<printVars, savedPos, path, sensor, memory, strand>>

----------------------------------------------------------------------------
(***************************************************************************)
(* The end of RESUME, the runout, and the manual commands.                 *)
(***************************************************************************)

(* The head is heated and primed at the wastebin.                          *)
Prime ==
    /\ At("prime") /\ lastLoaded # NoSlot
    /\ LET primes == ~resumePrepared \/ feedPending = lastLoaded
       IN  /\ strand' = IF primes THEN Fed(lastLoaded) ELSE strand
           /\ feedPending' = IF primes THEN NoSlot ELSE feedPending
    /\ head' = "service"
    /\ Goto("recheck")
    /\ UNCHANGED <<print, pausePos, savedPos, path, sensor, lastLoaded, primed,
                   pending, recovery, resumePrepared, cuts>>

(* The second resume_check; then RESUME_BASE goes to PAUSE_STATE and the   *)
(* print goes on.                                                          *)
ResumeBase ==
    /\ op.at = "recheck" /\ ~recovery.on
    /\ print' = "printing" /\ head' = pausePos
    /\ resumePrepared' = FALSE
    /\ op' = Idle
    /\ UNCHANGED <<pausePos, savedPos, path, sensor, memory, pending, recovery,
                   strand, cuts>>

(* The tail of the filament passes the sensor: BOX_RUNOUT_CHECK.           *)
Tails == {Gone} \cup (IF path.slot = External THEN {}
                      ELSE {[path EXCEPT !.seen = FALSE]})

RunsOut ==
    /\ IsIdle /\ print = "printing" /\ sensor /\ path.seen
    /\ path' \in Tails
    /\ strand' = "none" /\ cuts' = 0

RunoutSwap(t) ==
    /\ path.slot \in Slots \ {t}
    /\ RunsOut
    /\ LET s == path.slot
           q == [NoRequest EXCEPT !.target = t, !.flush = TRUE, !.print = TRUE,
                                  !.kind = "runout", !.runout = TRUE,
                                  !.retracted = s, !.cut = s]
       IN  pending' = Captured(q)
    /\ savedPos' = head
    /\ Begin("tail", "runout", t)
    /\ UNCHANGED <<printVars, sensor, memory, recovery, resumePrepared>>

RunoutPauses ==
    /\ RunsOut
    /\ LET t == IF HasPending THEN pending.target
                ELSE IF path.slot \in Slots THEN path.slot ELSE lastLoaded
       IN  BlockResume(t, t # NoSlot)
    /\ print' = "paused" /\ pausePos' = head /\ head' = "park"
    /\ UNCHANGED <<savedPos, sensor, memory, pending, op>>

(* What is left in the print head is fed out at the wastebin.              *)
FeedTail ==
    /\ At("tail")
    /\ pending' = Served(pending) /\ savedPos' = SavedBy(pending)
    /\ head' = "service"
    /\ Goto("rexec")
    /\ UNCHANGED <<print, pausePos, path, sensor, memory, recovery,
                   resumePrepared, strand, cuts>>

(* _execute_runout, up to its unload or load.                              *)
ExecuteRunout ==
    /\ At("rexec") /\ path.slot # External
    /\ op' = [op EXCEPT !.at = IF path.slot = op.target
                               THEN IF TargetReady(op.target, path)
                                    THEN "commit" ELSE "load"
                               ELSE IF path.slot = NoSlot THEN "load"
                               ELSE "unload",
                        !.live = [path EXCEPT !.seen = FALSE],
                        !.armed = sensor]
    /\ UNCHANGED <<printVars, savedPos, path, sensor, memory, pending,
                   recovery, resumePrepared, strand, cuts>>

(* BOX_LOAD and BOX_UNLOAD move the head and do not return it: a user gives *)
(* them when no print moves.                                               *)
ByHand(cmd) == cmd \in Manual /\ IsIdle /\ print \in {"none", "paused"}

BoxLoad(t) ==
    /\ ByHand("load") /\ t \in Slots
    /\ Begin("load", "load", t)
    /\ UNCHANGED <<printVars, savedPos, path, sensor, memory, pending,
                   recovery, resumePrepared, strand, cuts>>

BoxUnload(cmd) ==
    /\ ByHand("unload")
    /\ \/ path.slot \in Slots \/ (path.slot = External /\ cmd = "unload")
    /\ Begin(IF cmd = "manual" \/ (path.slot \in Slots /\ ~Calibrated)
             THEN "unload"
             ELSE UnloadStep(path.slot, path.seen, NoSlot, NoSlot),
             cmd, NoSlot)
    /\ sensor' = FALSE
    /\ UNCHANGED <<printVars, savedPos, path, memory, pending, recovery,
                   resumePrepared, strand, cuts>>

UnloadNothing ==
    /\ ByHand("unload") /\ path = Gone
    /\ sensor' = TRUE /\ feedPending' = NoSlot
    /\ UNCHANGED <<printVars, savedPos, path, lastLoaded, primed, pending,
                   recovery, resumePrepared, op, strand, cuts>>

----------------------------------------------------------------------------

Commands ==
    \/ \E t \in Selectable :
          \/ \E flush \in BOOLEAN : Change(t, flush)
          \/ Unreadable(t)
          \/ BoxLoad(t)
    \/ \E cmd \in {"unload", "manual"} : BoxUnload(cmd)
    \/ UnloadNothing
    \/ Resume
    \/ ResumeRetries

Around ==
    \/ PrintStart \/ PrintEnd \/ RequestPause \/ Pause
    \/ Fault \/ Clog
    \/ InsertExternal \/ PullExternal
    \/ \E t \in Slots : RunoutSwap(t)
    \/ RunoutPauses

EngineStep ==
    \/ RouteAttend \/ RouteRunout \/ RouteReady \/ Route
    \/ Retract \/ Cut \/ Unload \/ Pulled \/ Verify
    \/ Load \/ LoadExternal \/ Inserted
    \/ Commit \/ Flush \/ Final \/ Return \/ Finish
    \/ Prime \/ ResumeBase
    \/ FeedTail \/ ExecuteRunout

Next == Commands \/ Around \/ EngineStep \/ StepFails

Spec == Init /\ [][Next]_vars

(* The running command goes on, a wait or a check that must fail it does,  *)
(* and PAUSE, queued for the G-code mutex, gets its turn among commands.   *)
FairSpec == Spec /\ WF_vars(EngineStep \/ Refuse) /\ SF_vars(Pause)

----------------------------------------------------------------------------
(***************************************************************************)
(* Properties.                                                             *)
(***************************************************************************)

(* Every variable holds a value the code may give it.                      *)
TypeOK ==
    /\ print \in Prints
    /\ head \in Positions /\ pausePos \in Positions /\ savedPos \in Positions
    /\ path \in Paths /\ strand \in Strands /\ cuts \in 0..2
    /\ sensor \in BOOLEAN
    /\ feedPending \in AnySlot /\ lastLoaded \in AnySlot
    /\ primed \in BOOLEAN /\ resumePrepared \in BOOLEAN
    /\ pending \in Requests /\ recovery \in Recoveries
    /\ op \in Operations

(* An unfinished change of a print blocks RESUME until it is finished, and *)
(* RESUME knows its target: between commands, and when RESUME is about to  *)
(* let the print go on.                                                    *)
PendingBlocks ==
    op.at \in {"idle", "prime", "recheck"} /\ HasPending /\ pending.print =>
        recovery.on /\ recovery.automatic /\ recovery.target = pending.target

(* However a change is interrupted, retried or replaced, the print goes on *)
(* where it was left: the head is over the print whenever a print runs and *)
(* no command does.                                                        *)
ResumeAtPrint == print = "printing" /\ IsIdle => head = "print"

(* Retries never cut the same filament twice: a cut that was completed is  *)
(* a checkpoint of the request, and of those that take over its recovery.  *)
CutOnce == cuts <= 1

(* A change that ends has its target loaded up to the sensor, whatever     *)
(* steps its checkpoints and its shortcuts skipped.                        *)
ActiveLoaded == At("finish") => path.slot = op.target /\ path.seen

(* A command that disables the filament sensor enables it again, whichever *)
(* way it ends.                                                            *)
SensorArmed == IsIdle => sensor

(* A blocked print pauses.                                                 *)
BlockedPauses == recovery.on /\ Active ~> print \in {"paused", "none"}

(* Every command ends, but for the wait for a hand to pull the external    *)
(* filament.                                                               *)
CommandEnds == ~IsIdle ~> IsIdle \/ op.at = "pull"

(* A change that flushes ends with its filament fed to the hotend.         *)
ActiveFed == op.at = "finish" /\ pending.flush => strand # "gears"

(* A change that flushes never ends with a strand that was cut off.        *)
ActiveWhole == op.at = "finish" /\ pending.flush => strand # "cut"

(* The box never winds back filament that is in the hotend and was not cut *)
(* although the cutter is ready.                                           *)
CutBeforePull ==
    [][Unload /\ Calibrated /\ op.cmd # "manual" => strand # "hotend"]_vars

=============================================================================
