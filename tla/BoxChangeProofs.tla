--------------------------- MODULE BoxChangeProofs ---------------------------
(***************************************************************************)
(* Proofs about BoxChange, for any slots, spools and settings.             *)
(***************************************************************************)
EXTENDS BoxChange, TLAPS

-----------------------------------------------------------------------------
(* What the operators on requests return.                                  *)

(* Capturing the origin changes what says where to return, nothing else.   *)
LEMMA CapturedRequest ==
    ASSUME TypeOK, NEW q \in Requests
    PROVE  /\ Captured(q) \in Requests
           /\ Captured(q).target = q.target /\ Captured(q).print = q.print
           /\ Captured(q).cut = q.cut /\ Captured(q).svc = q.svc
BY DEF Captured, TypeOK, Requests

LEMMA ServedRequest ==
    ASSUME TypeOK, NEW q \in Requests
    PROVE  /\ Served(q) \in Requests
           /\ Served(q).target = q.target /\ Served(q).print = q.print
           /\ Served(q).cut = q.cut /\ Served(q).svc = TRUE
<1>1. Captured(q) \in Requests
  BY CapturedRequest
<1>. QED BY <1>1, CapturedRequest DEF Served, Requests

LEMMA NoRequestType == NoRequest \in Requests /\ Gone \in Paths /\ Idle \in Operations
BY DEF NoRequest, Requests, AnySlot, LastSteps, Positions, Gone, Paths, Idle, Operations, Steps

LEMMA RequestForType ==
    ASSUME NEW p \in Requests, NEW t \in AnySlot, NEW f \in BOOLEAN
    PROVE  RequestFor(p, t, f) \in Requests
<1>1. CASE p.target = t
  BY <1>1 DEF RequestFor
<1>2. CASE p.target # t /\ Inherits(p, t)
  BY <1>2 DEF RequestFor, Requests, LastSteps
<1>3. CASE p.target # t /\ ~Inherits(p, t)
  <2>1. Active \in BOOLEAN
    BY DEF Active
  <2>2. RequestFor(p, t, f) =
            [NoRequest EXCEPT !.target = t, !.flush = f, !.print = Active]
    BY <1>3 DEF RequestFor
  <2>. QED BY <2>1, <2>2, NoRequestType DEF Requests
<1>. QED BY <1>1, <1>2, <1>3

-----------------------------------------------------------------------------
(* What the parts that actions share leave of the types.                   *)

LEMMA LoadedPath ==
    ASSUME NEW s \in AnySlot, NEW t \in BOOLEAN PROVE Loaded(s, t) \in Paths
BY DEF Loaded, Paths

LEMMA GotoType ==
    ASSUME TypeOK, NEW step \in Steps, Goto(step) PROVE op' \in Operations
BY DEF TypeOK, Goto, Operations

LEMMA BeginType ==
    ASSUME TypeOK, NEW step \in Steps, NEW t \in AnySlot, NEW cmd,
           cmd \in {"change", "resume", "runout", "unload", "manual", "load"},
           Begin(step, cmd, t)
    PROVE  op' \in Operations
BY DEF TypeOK, Begin, Operations

LEMMA SoonPausedType == TypeOK => SoonPaused \in Prints
BY DEF TypeOK, SoonPaused, Prints

LEMMA SavedByType == ASSUME TypeOK, NEW q PROVE SavedBy(q) \in Positions
BY DEF TypeOK, SavedBy

LEMMA BlockResumeType ==
    ASSUME TypeOK, NEW t \in AnySlot, NEW a \in BOOLEAN, BlockResume(t, a)
    PROVE  recovery' \in Recoveries /\ resumePrepared' \in BOOLEAN
<1>1. pending.target \in AnySlot
  BY DEF TypeOK, Requests
<1>. QED BY <1>1 DEF BlockResume, Recoveries

LEMMA ChangeFailsType ==
    ASSUME TypeOK, NEW q \in Requests, NEW h \in Positions, ChangeFails(q, h)
    PROVE  /\ pending' \in Requests /\ recovery' \in Recoveries
           /\ resumePrepared' \in BOOLEAN /\ print' \in Prints
           /\ pausePos' \in Positions /\ head' \in Positions
<1>1. q.target \in AnySlot
  BY DEF Requests
<1>2. recovery' \in Recoveries /\ resumePrepared' \in BOOLEAN
  <2>1. CASE q.print
    <3>1. /\ recovery' = [on |-> TRUE, target |-> q.target, automatic |-> TRUE]
          /\ resumePrepared' = FALSE
      BY <2>1 DEF ChangeFails
    <3>. QED BY <1>1, <3>1 DEF Recoveries
  <2>2. CASE ~q.print
    BY <2>2 DEF ChangeFails, TypeOK
  <2>. QED BY <2>1, <2>2
<1>3. print' \in Prints /\ pausePos' \in Positions /\ head' \in Positions
  BY SoonPausedType DEF ChangeFails, TypeOK, Prints, Positions
<1>. QED BY <1>2, <1>3 DEF ChangeFails

LEMMA RecordsType ==
    ASSUME TypeOK, NEW q \in Requests, Records(q)
    PROVE  pending' \in Requests /\ savedPos' \in Positions
BY SavedByType DEF Records, TypeOK

LEMMA UnloadStepType ==
    ASSUME NEW s, NEW seen, NEW r, NEW c
    PROVE  UnloadStep(s, seen, r, c) \in {"retract", "cut", "pull", "unload"}
BY DEF UnloadStep

-----------------------------------------------------------------------------
(* Types.                                                                  *)

LEMMA TypeInit == Init => TypeOK
<1>. SUFFICES ASSUME Init PROVE TypeOK
  OBVIOUS
<1>1. path \in Paths
  <2>1. CASE path = Gone
    BY <2>1, NoRequestType
  <2>2. CASE \E s \in Selectable : path = Loaded(s, s # External)
    BY <2>2, BoxAssumption, LoadedPath DEF AnySlot
  <2>. QED BY <2>1, <2>2 DEF Init
<1>2. path.slot \in AnySlot
  BY <1>1 DEF Paths
<1>3. NoRecovery \in Recoveries
  BY DEF NoRecovery, Recoveries, AnySlot
<1>4. /\ print \in Prints /\ head \in Positions /\ pausePos \in Positions
      /\ savedPos \in Positions /\ strand \in Strands
  BY DEF Init, Prints, Positions, Strands
<1>5. cuts \in 0..2
  BY DEF Init
<1>6. /\ sensor \in BOOLEAN /\ primed \in BOOLEAN /\ resumePrepared \in BOOLEAN
      /\ feedPending \in AnySlot /\ lastLoaded \in AnySlot
  BY <1>2 DEF Init, AnySlot
<1>7. pending \in Requests /\ recovery \in Recoveries /\ op \in Operations
  BY <1>3, NoRequestType DEF Init
<1>. QED BY <1>1, <1>4, <1>5, <1>6, <1>7 DEF TypeOK

LEMMA AroundType == TypeOK /\ Around => TypeOK'
<1>. SUFFICES ASSUME TypeOK, Around PROVE TypeOK'
  OBVIOUS
<1>1. ASSUME PrintStart \/ PrintEnd PROVE TypeOK'
  <2>1. NoRecovery \in Recoveries
    BY DEF NoRecovery, Recoveries, AnySlot
  <2>2. /\ pending' \in Requests /\ recovery' \in Recoveries
        /\ resumePrepared' \in BOOLEAN /\ primed' \in BOOLEAN
    BY <1>1, <2>1, NoRequestType DEF PrintStart, PrintEnd, ResetRecovery
  <2>3. /\ print' \in Prints /\ head' \in Positions
        /\ pausePos' \in Positions /\ savedPos' \in Positions
    BY <1>1 DEF PrintStart, PrintEnd, ResetRecovery, Prints, Positions
  <2>4. cuts' \in 0..2
    BY <1>1 DEF PrintStart, PrintEnd, ResetRecovery
  <2>5. UNCHANGED <<path, strand, sensor, feedPending, lastLoaded, op>>
    BY <1>1 DEF PrintStart, PrintEnd
  <2>. QED BY <2>2, <2>3, <2>4, <2>5 DEF TypeOK
<1>2. CASE RequestPause
  BY <1>2 DEF RequestPause, TypeOK, Prints, memory
<1>3. CASE Pause
  BY <1>3 DEF Pause, TypeOK, Prints, Positions, memory
<1>4. CASE Fault
  <2>1. path' \in Paths /\ op' \in Operations
    BY <1>4 DEF Fault, TypeOK, Paths, Operations, IsIdle
  <2>2. recovery' \in Recoveries /\ resumePrepared' \in BOOLEAN
    <3>1. CASE Active
      <4>1. BlockResume(path.slot, ~HasPending)
        BY <1>4, <3>1 DEF Fault
      <4>2. path.slot \in AnySlot
        BY DEF TypeOK, Paths
      <4>3. (~HasPending) \in BOOLEAN
        OBVIOUS
      <4>. QED BY <4>1, <4>2, <4>3, BlockResumeType
    <3>2. CASE ~Active
      BY <1>4, <3>2 DEF Fault, TypeOK
    <3>. QED BY <3>1, <3>2
  <2>. QED BY <1>4, <2>1, <2>2, SoonPausedType DEF Fault, TypeOK, memory
<1>5. CASE Clog
  <2>1. path.slot \in AnySlot
    BY DEF TypeOK, Paths
  <2>2. recovery' \in Recoveries /\ resumePrepared' \in BOOLEAN
    BY <1>5, <2>1, BlockResumeType DEF Clog
  <2>. QED BY <1>5, <2>2 DEF Clog, TypeOK, Prints, memory
<1>6. CASE InsertExternal
  <2>1. path' \in Paths
    BY <1>6, LoadedPath DEF InsertExternal, AnySlot
  <2>2. strand' \in Strands /\ cuts' \in 0..2
    BY <1>6 DEF InsertExternal, Strands
  <2>. QED BY <1>6, <2>1, <2>2 DEF InsertExternal, TypeOK, memory, printVars
<1>7. CASE PullExternal
  BY <1>7, NoRequestType DEF PullExternal, TypeOK, Strands, memory, printVars
<1>8. ASSUME RunsOut PROVE path' \in Paths /\ strand' \in Strands /\ cuts' \in 0..2
  <2>1. path' \in Tails /\ strand' = "none" /\ cuts' = 0
    BY <1>8 DEF RunsOut
  <2>2. Tails \subseteq Paths
    BY NoRequestType DEF Tails, TypeOK, Paths
  <2>. QED BY <2>1, <2>2 DEF Strands
<1>9. ASSUME NEW t \in Slots, RunoutSwap(t) PROVE TypeOK'
  <2> DEFINE q == [NoRequest EXCEPT !.target = t, !.flush = TRUE, !.print = TRUE,
                                    !.kind = "runout", !.runout = TRUE,
                                    !.retracted = path.slot, !.cut = path.slot]
  <2>1. t \in AnySlot /\ path.slot \in AnySlot
    BY <1>9 DEF RunoutSwap, AnySlot
  <2>2. q \in Requests
    BY <2>1, NoRequestType DEF Requests
  <2>3. pending' \in Requests
    BY <1>9, <2>2, CapturedRequest DEF RunoutSwap
  <2>4. op' \in Operations
    BY <1>9, <2>1, BeginType DEF RunoutSwap, Steps
  <2>. QED BY <1>8, <1>9, <2>3, <2>4 DEF RunoutSwap, TypeOK, printVars, memory
<1>10. CASE RunoutPauses
  <2> DEFINE t == IF HasPending THEN pending.target
                  ELSE IF path.slot \in Slots THEN path.slot ELSE lastLoaded
  <2>1. t \in AnySlot
    BY DEF TypeOK, Paths, Requests
  <2>2. BlockResume(t, t # NoSlot)
    BY <1>10 DEF RunoutPauses
  <2>3. (t # NoSlot) \in BOOLEAN
    OBVIOUS
  <2>4. recovery' \in Recoveries /\ resumePrepared' \in BOOLEAN
    BY <2>1, <2>2, <2>3, BlockResumeType
  <2>. QED BY <1>8, <1>10, <2>4
           DEF RunoutPauses, TypeOK, Prints, Positions, memory
<1>. QED BY <1>1, <1>2, <1>3, <1>4, <1>5, <1>6, <1>7, <1>9, <1>10 DEF Around

LEMMA CommandsType == TypeOK /\ Commands => TypeOK'
<1>. SUFFICES ASSUME TypeOK, Commands PROVE TypeOK'
  OBVIOUS
<1>0. Selectable \subseteq AnySlot /\ Slots \subseteq AnySlot /\ NoSlot \in AnySlot
  BY BoxAssumption DEF AnySlot
<1>1. ASSUME NEW t \in Selectable, NEW f \in BOOLEAN, Change(t, f) PROVE TypeOK'
  <2>1. pending' \in Requests
    BY <1>0, <1>1, RequestForType DEF Change, TypeOK
  <2>2. op' \in Operations
    BY <1>0, <1>1, BeginType DEF Change, Steps
  <2>. QED BY <1>1, <2>1, <2>2 DEF Change, TypeOK, printVars, memory
<1>2. ASSUME NEW t \in Selectable, Unreadable(t) PROVE TypeOK'
  <2>1. pending \in Requests /\ head \in Positions
    BY DEF TypeOK
  <2>2. ChangeFails(pending, head)
    BY <1>2 DEF Unreadable
  <2>. QED BY <1>2, <2>1, <2>2, ChangeFailsType DEF Unreadable, TypeOK, memory
<1>3. ASSUME NEW t \in Selectable, BoxLoad(t) PROVE TypeOK'
  <2>1. op' \in Operations
    BY <1>0, <1>3, BeginType DEF BoxLoad, Steps
  <2>. QED BY <1>3, <2>1 DEF BoxLoad, TypeOK, printVars, memory
<1>4. ASSUME NEW cmd \in {"unload", "manual"}, BoxUnload(cmd) PROVE TypeOK'
  <2>1. op' \in Operations
    BY <1>0, <1>4, BeginType, UnloadStepType DEF BoxUnload, Steps
  <2>. QED BY <1>4, <2>1 DEF BoxUnload, TypeOK, printVars, memory
<1>5. CASE UnloadNothing
  BY <1>0, <1>5 DEF UnloadNothing, TypeOK, printVars
<1>6. CASE Resume
  <2>1. op' \in Operations
    BY <1>6, BeginType DEF Resume, Steps, TypeOK
  <2>. QED BY <1>6, <2>1 DEF Resume, TypeOK, printVars, memory
<1>7. CASE ResumeRetries
  <2>1. recovery.target \in AnySlot
    BY DEF TypeOK, Recoveries
  <2>2. Attended \in Requests
    BY NoRequestType DEF Attended, Requests, AnySlot, LastSteps
  <2>3. pending' \in Requests
    BY <1>7, <2>1, <2>2, RequestForType DEF ResumeRetries, TypeOK
  <2>4. op' \in Operations
    BY <1>7, <2>1, BeginType DEF ResumeRetries, Steps
  <2>. QED BY <1>7, <2>3, <2>4 DEF ResumeRetries, TypeOK, printVars, memory
<1>. QED BY <1>1, <1>2, <1>3, <1>4, <1>5, <1>6, <1>7 DEF Commands

LEMMA FedType == ASSUME TypeOK, NEW s PROVE Fed(s) \in Strands
BY DEF TypeOK, Fed, Strands

(* What any failing step leaves is well typed. *)
LEMMA LeftoversType ==
    ASSUME TypeOK, NEW left \in Leftovers
    PROVE  left[1] \in Paths /\ left[2] \in Strands
<1>1. path \in Paths /\ strand \in Strands /\ op.target \in AnySlot
  BY DEF TypeOK, Operations
<1>2. [path EXCEPT !.tracked = FALSE] \in Paths
  BY <1>1 DEF Paths
<1>3. [path EXCEPT !.tracked = FALSE, !.seen = FALSE] \in Paths
  BY <1>1 DEF Paths
<1>4. \A t \in BOOLEAN : [path EXCEPT !.tracked = t] \in Paths
  BY <1>1 DEF Paths
<1>5. [Gone EXCEPT !.slot = op.target] \in Paths
  BY <1>1, NoRequestType DEF Paths
<1>6. \A t \in BOOLEAN : Loaded(op.target, t) \in Paths
  BY <1>1, LoadedPath
<1>7. {"none", "gears", "cut"} \subseteq Strands
  BY DEF Strands
<1> DEFINE Simple == {<<path, strand>>, <<[path EXCEPT !.tracked = FALSE], strand>>,
                      <<path, "cut">>, <<Gone, "none">>,
                      <<[path EXCEPT !.tracked = FALSE, !.seen = FALSE], "none">>,
                      <<[Gone EXCEPT !.slot = op.target], "none">>,
                      <<path, Fed(op.target)>>}
           Tracked == {<<[path EXCEPT !.tracked = t], strand>> : t \in BOOLEAN}
           Fresh == {<<Loaded(op.target, t), "gears">> : t \in BOOLEAN}
<1>8. left \in Simple \cup Tracked \cup Fresh
  BY DEF Leftovers
<1>9. CASE left \in Simple
  <2> DEFINE loose == [path EXCEPT !.tracked = FALSE]
             out == [path EXCEPT !.tracked = FALSE, !.seen = FALSE]
             short == [Gone EXCEPT !.slot = op.target]
  <2>1. loose \in Paths /\ out \in Paths /\ short \in Paths
    BY <1>2, <1>3, <1>5
  <2>2. left \in {<<path, strand>>, <<loose, strand>>, <<path, "cut">>, <<Gone, "none">>,
                  <<out, "none">>, <<short, "none">>, <<path, Fed(op.target)>>}
    BY <1>9
  <2>. HIDE DEF loose, out, short
  <2>. QED BY <1>1, <1>7, <2>1, <2>2, FedType, NoRequestType
<1>10. CASE left \in Tracked
  BY <1>1, <1>4, <1>10
<1>11. CASE left \in Fresh
  BY <1>6, <1>7, <1>11
<1>. QED BY <1>8, <1>9, <1>10, <1>11

(* What the request of a failed change keeps. *)
LEMMA FailedFields ==
    ASSUME TypeOK, NEW h, NEW last \in LastAfterFailure
    PROVE  LET q == Failed(h, last)
           IN  /\ q \in Requests /\ q.last = last
               /\ q.target = pending.target /\ q.print = pending.print
               /\ q.kind = pending.kind /\ q.runout = pending.runout
               /\ q.cut = pending.cut
               /\ h = "service" =>
                      /\ q.svc = Served(pending).svc /\ q.ret = Served(pending).ret
                      /\ q.rebase = Served(pending).rebase
               /\ h # "service" =>
                      /\ q.svc = pending.svc /\ q.ret = pending.ret
                      /\ q.rebase = pending.rebase
<1> DEFINE p == IF h = "service" THEN Served(pending) ELSE pending
<1>1. pending \in Requests /\ head \in Positions
  BY DEF TypeOK
<1>2. last \in LastSteps
  BY <1>1 DEF LastAfterFailure, LastSteps, Requests
<1>3. /\ p \in Requests /\ p.target = pending.target /\ p.print = pending.print
      /\ p.kind = pending.kind /\ p.runout = pending.runout /\ p.cut = pending.cut
  BY <1>1 DEF Served, Captured, Requests
<1>4. Failed(h, last) = [p EXCEPT !.last = last]
  BY DEF Failed
<1>5. /\ h = "service" => p = Served(pending)
      /\ h # "service" => p = pending
  OBVIOUS
<1>. HIDE DEF p
<1>. QED BY <1>2, <1>3, <1>4, <1>5 DEF Requests

LEMMA StepFailsType == TypeOK /\ StepFails => TypeOK'
<1>. SUFFICES ASSUME TypeOK, StepFails PROVE TypeOK'
  OBVIOUS
<1>1. PICK left \in Leftovers, h \in HeadsAfterFailure, last \in LastAfterFailure :
        /\ path' = left[1] /\ strand' = left[2]
        /\ cuts' = IF left[1].slot = NoSlot THEN 0 ELSE cuts
        /\ IF Changes /\ op.at \notin {"prime", "recheck"}
           THEN /\ ChangeFails(Failed(h, last), h)
                /\ savedPos' = IF h = "service" THEN SavedBy(pending)
                                                ELSE savedPos
           ELSE CommandFails(h) /\ UNCHANGED savedPos
  BY DEF StepFails
<1>2. h \in Positions
  BY DEF HeadsAfterFailure, TypeOK, Positions, Requests
<1>3. path' \in Paths /\ strand' \in Strands
  BY <1>1, LeftoversType
<1>4. cuts' \in 0..2
  BY <1>1 DEF TypeOK
<1>5. /\ pending' \in Requests /\ recovery' \in Recoveries
      /\ resumePrepared' \in BOOLEAN /\ print' \in Prints
      /\ pausePos' \in Positions /\ head' \in Positions /\ savedPos' \in Positions
  <2>1. CASE Changes /\ op.at \notin {"prime", "recheck"}
    <3> DEFINE q == Failed(h, last)
    <3>1. q \in Requests
      BY FailedFields
    <3>2. ChangeFails(q, h)
      BY <1>1, <2>1
    <3>3. savedPos' \in Positions
      BY <1>1, <2>1, SavedByType DEF TypeOK
    <3>. HIDE DEF q
    <3>. QED BY <1>2, <3>1, <3>2, <3>3, ChangeFailsType
  <2>2. CASE ~(Changes /\ op.at \notin {"prime", "recheck"})
    BY <1>1, <1>2, <2>2 DEF CommandFails, TypeOK
  <2>. QED BY <2>1, <2>2
<1>6. sensor' \in BOOLEAN
  BY DEF StepFails, SensorAfterFailure, TypeOK, Operations
<1>7. op' \in Operations /\ UNCHANGED memory
  BY NoRequestType DEF StepFails
<1>. QED BY <1>3, <1>4, <1>5, <1>6, <1>7 DEF TypeOK, memory

LEMMA EngineType == TypeOK /\ EngineStep => TypeOK'
<1>. SUFFICES ASSUME TypeOK, EngineStep PROVE TypeOK'
  OBVIOUS
<1>0. /\ pending \in Requests /\ path \in Paths /\ op \in Operations
      /\ op.target \in AnySlot /\ path.slot \in AnySlot
      /\ NoSlot \in AnySlot /\ External \in AnySlot
  BY DEF TypeOK, Operations, Paths, AnySlot
<1>1. CASE RouteAttend
  <2> DEFINE q == [Captured(pending) EXCEPT !.last = "attendance"]
  <2>1. q \in Requests /\ head \in Positions
    BY <1>0, CapturedRequest DEF Requests, LastSteps, TypeOK
  <2>2. ChangeFails(q, head)
    BY <1>1 DEF RouteAttend
  <2>. HIDE DEF q
  <2>. QED BY <1>1, <2>1, <2>2, ChangeFailsType, SavedByType, NoRequestType
           DEF RouteAttend, TypeOK, memory
<1>2. CASE RouteRunout
  <2>1. op' \in Operations
    BY <1>2, GotoType DEF RouteRunout, Steps
  <2>2. /\ pending' \in Requests /\ savedPos' \in Positions
        /\ head' \in Positions
    BY <1>0, <1>2, ServedRequest, SavedByType DEF RouteRunout, TypeOK, Positions
  <2>. QED BY <1>2, <2>1, <2>2 DEF RouteRunout, TypeOK, memory
<1>3. CASE RouteReady
  <2>1. op' \in Operations
    BY <1>3, GotoType DEF RouteReady, Steps
  <2>2. path' \in Paths
    BY <1>0, <1>3 DEF RouteReady, Paths
  <2>3. sensor' \in BOOLEAN
    BY <1>3 DEF RouteReady
  <2>. QED BY <1>0, <1>3, <2>1, <2>2, <2>3 DEF RouteReady, TypeOK, printVars
<1>4. CASE Route
  <2>1. op' \in Operations
    BY <1>4, GotoType, UnloadStepType DEF Route, Steps
  <2>2. pending' \in Requests /\ savedPos' \in Positions
    BY <1>0, <1>4, CapturedRequest, SavedByType DEF Route
  <2>3. sensor' \in BOOLEAN
    BY <1>4 DEF Route, TypeOK
  <2>. QED BY <1>4, <2>1, <2>2, <2>3 DEF Route, TypeOK, printVars, memory
<1>5. CASE Retract
  <2> DEFINE q == [Served(pending) EXCEPT
                     !.retracted = path.slot,
                     !.last = IF path.slot = External THEN @ ELSE "retract"]
  <2>1. q \in Requests
    BY <1>0, ServedRequest DEF Requests, LastSteps
  <2>2. Records(q)
    BY <1>5 DEF Retract
  <2>. HIDE DEF q
  <2>3. pending' \in Requests /\ savedPos' \in Positions
    BY <2>1, <2>2, RecordsType
  <2>4. op' \in Operations
    BY <1>5, GotoType, UnloadStepType DEF Retract, Steps
  <2>5. path' \in Paths
    BY <1>0, <1>5 DEF Retract, Paths
  <2>. QED BY <1>5, <2>3, <2>4, <2>5 DEF Retract, TypeOK, Positions, memory
<1>6. CASE Cut
  <2> DEFINE q == [Served(pending) EXCEPT
                     !.cut = path.slot,
                     !.last = IF path.slot # External /\ Calibrated THEN "cut"
                                                                   ELSE @]
  <2>1. q \in Requests
    BY <1>0, ServedRequest DEF Requests, LastSteps
  <2>2. Records(q)
    BY <1>6 DEF Cut
  <2>. HIDE DEF q
  <2>3. pending' \in Requests /\ savedPos' \in Positions
    BY <2>1, <2>2, RecordsType
  <2>4. op' \in Operations
    BY <1>6, GotoType, UnloadStepType DEF Cut, Steps
  <2>5. cuts' \in 0..2
    BY <1>6 DEF Cut, TypeOK
  <2>6. strand' \in Strands
    BY <1>6 DEF Cut, TypeOK, Strands
  <2>. QED BY <1>6, <2>3, <2>4, <2>5, <2>6 DEF Cut, TypeOK, Positions, memory
<1>7. CASE Unload
  <2> DEFINE served == op.live.seen /\ op.cmd # "manual"
             q == [Served(pending) EXCEPT !.last = "unload"]
             r == [pending EXCEPT !.last = "unload"]
  <2>1. q \in Requests /\ r \in Requests
    BY <1>0, ServedRequest DEF Requests, LastSteps
  <2>2. pending' \in Requests /\ savedPos' \in Positions
    <3>1. CASE served
      <4>1. Records(q)
        BY <1>7, <3>1 DEF Unload
      <4>. HIDE DEF q
      <4>. QED BY <2>1, <4>1, RecordsType
    <3>2. CASE ~served /\ Changes
      <4>1. pending' = r /\ UNCHANGED savedPos
        BY <1>7, <3>2 DEF Unload
      <4>. QED BY <2>1, <4>1 DEF TypeOK
    <3>3. CASE ~served /\ ~Changes
      BY <1>7, <3>3 DEF Unload, TypeOK
    <3>. QED BY <3>1, <3>2, <3>3
  <2>3. op' \in Operations
    BY <1>7, GotoType, NoRequestType DEF Unload, Steps
  <2>4. /\ path' \in Paths /\ strand' \in Strands /\ cuts' \in 0..2
        /\ feedPending' \in AnySlot
    BY <1>0, <1>7, NoRequestType DEF Unload, TypeOK, Strands
  <2>5. head' \in Positions
    BY <1>7 DEF Unload, TypeOK, Positions
  <2>. QED BY <1>7, <2>2, <2>3, <2>4, <2>5 DEF Unload, TypeOK
<1>8. CASE Pulled
  <2>1. Served(pending) \in Requests /\ Records(Served(pending))
    BY <1>0, <1>8, ServedRequest DEF Pulled
  <2>2. pending' \in Requests /\ savedPos' \in Positions
    BY <2>1, RecordsType
  <2>3. op' \in Operations
    BY <1>8, GotoType, NoRequestType DEF Pulled, Steps
  <2>4. feedPending' \in AnySlot
    BY <1>0, <1>8 DEF Pulled, TypeOK
  <2>. QED BY <1>8, <2>2, <2>3, <2>4 DEF Pulled, TypeOK, Positions
<1>9. CASE Verify
  <2>1. op' \in Operations
    BY <1>9, GotoType DEF Verify, Steps
  <2>. QED BY <1>9, <2>1 DEF Verify, TypeOK, printVars, memory
<1>10. CASE Load
  <2> DEFINE served == pending.flush \/ pending.kind = "runout"
             q == IF served THEN Served(pending) ELSE pending
  <2>1. q \in Requests
    BY <1>0, ServedRequest
  <2>2. /\ pending' \in Requests /\ savedPos' \in Positions
        /\ head' \in Positions /\ lastLoaded' \in AnySlot /\ op' \in Operations
    <3>1. CASE Changes
      <4>1. /\ pending' = [q EXCEPT !.last = "load"]
            /\ savedPos' = IF served THEN SavedBy(pending) ELSE savedPos
            /\ head' = IF served THEN "service" ELSE head
            /\ Goto("commit")
            /\ UNCHANGED lastLoaded
        BY <1>10, <3>1 DEF Load
      <4>. HIDE DEF q, served
      <4>2. pending' \in Requests
        BY <2>1, <4>1 DEF Requests, LastSteps
      <4>. QED BY <4>1, <4>2, SavedByType, GotoType DEF TypeOK, Positions, Steps
    <3>2. CASE ~Changes
      BY <1>0, <1>10, <3>2, NoRequestType DEF Load, TypeOK
    <3>. QED BY <3>1, <3>2
  <2>3. path' \in Paths
    BY <1>0, <1>10, LoadedPath DEF Load
  <2>4. strand' \in Strands /\ cuts' \in 0..2 /\ feedPending' \in AnySlot
    <3>1. CASE path.slot = op.target /\ path.seen
      BY <1>10, <3>1 DEF Load, TypeOK
    <3>2. CASE ~(path.slot = op.target /\ path.seen)
      <4>1. strand' = "gears" /\ cuts' = 0 /\ feedPending' = op.target
        BY <1>10, <3>2 DEF Load
      <4>. QED BY <1>0, <4>1 DEF Strands
    <3>. QED BY <3>1, <3>2
  <2>. QED BY <1>10, <2>2, <2>3, <2>4 DEF Load, TypeOK
<1>11. CASE LoadExternal
  <2>1. pending' \in Requests
    BY <1>0, <1>11, ServedRequest DEF LoadExternal, Requests, LastSteps
  <2>2. op' \in Operations
    BY <1>11, GotoType DEF LoadExternal, Steps
  <2>. QED BY <1>11, <2>1, <2>2, SavedByType DEF LoadExternal, TypeOK, Positions, memory
<1>12. CASE Inserted
  <2>1. op' \in Operations
    BY <1>12, GotoType DEF Inserted, Steps
  <2>. QED BY <1>0, <1>12, <2>1 DEF Inserted, TypeOK, printVars
<1>13. CASE Commit
  <2>1. pending' \in Requests
    BY <1>0, <1>13 DEF Commit, Requests, LastSteps
  <2>2. op' \in Operations
    BY <1>13, GotoType DEF Commit, Steps
  <2>. QED BY <1>0, <1>13, <2>1, <2>2 DEF Commit, TypeOK, printVars
<1>14. CASE Flush
  <2>1. PICK did \in BOOLEAN :
          /\ LET q == IF did THEN Served(pending) ELSE pending
                 settles == q.kind = "normal" /\ q.print
             IN  /\ pending' = [q EXCEPT !.prepared = @ \/ did,
                                         !.flushDone = TRUE,
                                         !.last = IF settles
                                                  THEN "final_temperature" ELSE @]
                 /\ Goto(IF settles THEN "final" ELSE "return")
          /\ savedPos' = IF did THEN SavedBy(pending) ELSE savedPos
          /\ head' = IF did THEN "service" ELSE head
          /\ strand' = Fed(op.target)
          /\ feedPending' = IF did THEN NoSlot ELSE feedPending
    BY <1>14 DEF Flush
  <2> DEFINE q == IF did THEN Served(pending) ELSE pending
  <2>2. q \in Requests
    BY <1>0, ServedRequest
  <2>3. pending' = [q EXCEPT !.prepared = @ \/ did, !.flushDone = TRUE,
                             !.last = IF q.kind = "normal" /\ q.print
                                      THEN "final_temperature" ELSE @]
    BY <2>1
  <2>. HIDE DEF q
  <2>4. pending' \in Requests
    BY <2>2, <2>3 DEF Requests, LastSteps
  <2>5. op' \in Operations
    BY <2>1, GotoType DEF Steps
  <2>6. primed' \in BOOLEAN
    BY <1>14 DEF Flush
  <2>. QED BY <1>0, <1>14, <2>1, <2>4, <2>5, <2>6, SavedByType, FedType
           DEF Flush, TypeOK, Positions
<1>15. CASE Final
  <2>1. op' \in Operations
    BY <1>15, GotoType DEF Final, Steps
  <2>2. pending' \in Requests /\ savedPos' \in Positions /\ head' \in Positions
    BY <1>0, <1>15, ServedRequest, SavedByType DEF Final, TypeOK, Positions
  <2>. QED BY <1>15, <2>1, <2>2 DEF Final, TypeOK, memory
<1>16. CASE Return
  <2>1. op' \in Operations
    BY <1>16, GotoType DEF Return, Steps
  <2>2. pending' \in Requests
    BY <1>0, <1>16 DEF Return, Requests, LastSteps
  <2>3. pending.ret \in Positions
    BY <1>0 DEF Requests
  <2>4. head' \in Positions /\ pausePos' \in Positions
    BY <1>16, <2>3 DEF Return, TypeOK
  <2>. QED BY <1>16, <2>1, <2>2, <2>4 DEF Return, TypeOK, memory
<1>17. CASE Finish
  <2>1. op' \in Operations
    BY <1>17, GotoType, NoRequestType DEF Finish, Steps
  <2>2. resumePrepared' \in BOOLEAN /\ cuts' \in 0..2
    BY <1>0, <1>17 DEF Finish, TypeOK, Requests
  <2>3. recovery' \in Recoveries /\ pending' \in Requests
    BY <1>0, <1>17, NoRequestType DEF Finish, NoRecovery, Recoveries
  <2>. QED BY <1>17, <2>1, <2>2, <2>3 DEF Finish, TypeOK, printVars, memory
<1>18. CASE Prime
  <2>1. op' \in Operations
    BY <1>18, GotoType DEF Prime, Steps
  <2>2. strand' \in Strands /\ feedPending' \in AnySlot
    BY <1>0, <1>18, FedType DEF Prime, TypeOK
  <2>. QED BY <1>18, <2>1, <2>2 DEF Prime, TypeOK, Positions
<1>19. CASE ResumeBase
  BY <1>19, NoRequestType DEF ResumeBase, TypeOK, Prints, memory
<1>20. CASE FeedTail
  <2>1. op' \in Operations
    BY <1>20, GotoType DEF FeedTail, Steps
  <2>. QED BY <1>0, <1>20, <2>1, ServedRequest, SavedByType
           DEF FeedTail, TypeOK, Positions, memory
<1>21. CASE ExecuteRunout
  <2>1. op' \in Operations
    <3> DEFINE at == IF path.slot = op.target
                     THEN IF TargetReady(op.target, path) THEN "commit" ELSE "load"
                     ELSE IF path.slot = NoSlot THEN "load" ELSE "unload"
               live == [path EXCEPT !.seen = FALSE]
    <3>1. at \in Steps /\ live \in Paths /\ sensor \in BOOLEAN
      BY <1>0 DEF Steps, Paths, TypeOK
    <3>2. op' = [op EXCEPT !.at = at, !.live = live, !.armed = sensor]
      BY <1>21 DEF ExecuteRunout
    <3>. HIDE DEF at, live
    <3>. QED BY <1>0, <3>1, <3>2 DEF Operations
  <2>. QED BY <1>21, <2>1 DEF ExecuteRunout, TypeOK, printVars, memory
<1>. QED BY <1>1, <1>2, <1>3, <1>4, <1>5, <1>6, <1>7, <1>8, <1>9, <1>10, <1>11,
            <1>12, <1>13, <1>14, <1>15, <1>16, <1>17, <1>18, <1>19, <1>20, <1>21
         DEF EngineStep

(* Every reachable state holds values the code may give its variables.     *)
THEOREM TypeCorrect == Spec => []TypeOK
<1>1. TypeOK /\ [Next]_vars => TypeOK'
  <2>1. TypeOK /\ UNCHANGED vars => TypeOK'
    BY DEF vars, TypeOK
  <2>. QED BY <2>1, AroundType, CommandsType, EngineType, StepFailsType DEF Next
<1>. QED BY <1>1, TypeInit, PTL DEF Spec
-----------------------------------------------------------------------------
(* The inductive invariant.                                                *)

(* Where each command may be.  A change keeps its request until it ends.   *)
CommandPlaces ==
    /\ IsIdle <=> op.cmd = "none"
    /\ op.cmd \in {"unload", "manual"} =>
           op.at \in {"retract", "cut", "unload", "pull"}
    /\ op.cmd = "load" => op.at = "load" /\ op.target \in Slots
    /\ op.at \in {"prime", "recheck"} => op.cmd = "resume"
    /\ Changes /\ op.at \notin {"prime", "recheck"} => HasPending

(* The sensor is off only while something is unloaded, and every command   *)
(* found it on.                                                            *)
SensorOff ==
    /\ ~IsIdle => op.armed
    /\ op.at \notin {"retract", "cut", "unload", "pull"} => sensor

(* PendingBlocks holds all through a command that is not a change.         *)
Blocked ==
    HasPending /\ pending.print =>
        recovery.on /\ recovery.automatic /\ recovery.target = pending.target

Blocks == op.at \in {"prime", "recheck"} \/ ~Changes => Blocked

(* A strand that was cut is the one the checkpoint of the pending request  *)
(* names, and a cut that is still to come is not: the path keeps its slot  *)
(* from the read a change starts with to the cut.                          *)
CutChecked ==
    /\ path.slot = NoSlot => cuts = 0
    /\ cuts <= 1
    /\ cuts # 0 => HasPending /\ pending.svc /\ pending.cut = path.slot
    /\ op.at = "route" /\ op.live.slot # NoSlot => path.slot = op.live.slot
    /\ Changes /\ op.at \in {"retract", "cut"} => path.slot # NoSlot
    /\ Changes /\ op.at = "cut" => pending.cut # path.slot

Inv == CommandPlaces /\ SensorOff /\ Blocks /\ CutChecked

-----------------------------------------------------------------------------
(* What steps do to the command and to its request.                        *)

LEMMA GotoFields ==
    ASSUME TypeOK, NEW step \in Steps, Goto(step)
    PROVE  /\ op'.at = step /\ op'.cmd = op.cmd /\ op'.target = op.target
           /\ op'.armed = op.armed /\ op'.live = op.live
BY DEF TypeOK, Goto, Operations

LEMMA BeginFields ==
    ASSUME NEW step, NEW cmd, NEW t, Begin(step, cmd, t)
    PROVE  /\ op'.at = step /\ op'.cmd = cmd /\ op'.target = t
           /\ op'.armed = sensor /\ op'.live = path
BY DEF Begin

LEMMA IdleFields == Idle.at = "idle" /\ Idle.cmd = "none"
BY DEF Idle

(* A command takes up the recovery of the request it replaces.             *)
LEMMA RequestForFields ==
    ASSUME NEW p \in Requests, NEW t \in AnySlot, NEW f \in BOOLEAN
    PROVE  LET q == RequestFor(p, t, f)
           IN  /\ q.target = t
               /\ p.target # NoSlot /\ p.svc => q.cut = p.cut /\ q.svc
<1>1. CASE p.target = t
  BY <1>1 DEF RequestFor
<1>2. CASE p.target # t /\ Inherits(p, t)
  <2>1. RequestFor(p, t, f) =
            [p EXCEPT !.target = t, !.flush = f, !.kind = "normal",
                      !.flushDone = FALSE, !.prepared = FALSE, !.last = "none"]
    BY <1>2 DEF RequestFor
  <2>. QED BY <2>1 DEF Requests
<1>3. CASE p.target # t /\ ~Inherits(p, t)
  <2>1. RequestFor(p, t, f) =
            [NoRequest EXCEPT !.target = t, !.flush = f, !.print = Active]
    BY <1>3 DEF RequestFor
  <2>2. RequestFor(p, t, f).target = t
    BY <2>1, NoRequestType DEF Requests
  <2>3. ~(p.target # NoSlot /\ p.svc)
    BY <1>3 DEF Inherits
  <2>. QED BY <2>2, <2>3
<1>. QED BY <1>1, <1>2, <1>3

(* Until it ends, a step of the engine leaves the request its target; only *)
(* the cut sets its checkpoint.                                            *)
LEMMA EngineRequest ==
    ASSUME TypeOK, EngineStep, ~Finish
    PROVE  /\ pending'.target = pending.target /\ pending'.print = pending.print
           /\ pending.svc => pending'.svc
           /\ ~Cut => pending'.cut = pending.cut
<1>0. pending \in Requests
  BY DEF TypeOK
<1>1. CASE RouteAttend
  <2> DEFINE q == [Captured(pending) EXCEPT !.last = "attendance"]
  <2>1. ChangeFails(q, head)
    BY <1>1 DEF RouteAttend
  <2>2. pending' = q
    BY <2>1 DEF ChangeFails
  <2>. QED BY <1>0, <2>2, CapturedRequest DEF Requests
<1>2. CASE RouteRunout
  BY <1>0, <1>2, ServedRequest DEF RouteRunout
<1>3. CASE Route
  BY <1>0, <1>3, CapturedRequest DEF Route
<1>4. CASE Retract
  <2> DEFINE q == [Served(pending) EXCEPT
                     !.retracted = path.slot,
                     !.last = IF path.slot = External THEN @ ELSE "retract"]
  <2>1. pending' = q \/ pending' = pending
    BY <1>4 DEF Retract, Records
  <2>2. /\ q.target = pending.target /\ q.print = pending.print
        /\ q.cut = pending.cut /\ q.svc
    BY <1>0, ServedRequest DEF Requests
  <2>. HIDE DEF q
  <2>. QED BY <2>1, <2>2
<1>5. CASE Cut
  <2> DEFINE q == [Served(pending) EXCEPT
                     !.cut = path.slot,
                     !.last = IF path.slot # External /\ Calibrated THEN "cut"
                                                                   ELSE @]
  <2>1. pending' = q \/ pending' = pending
    BY <1>5 DEF Cut, Records
  <2>2. q.target = pending.target /\ q.print = pending.print /\ q.svc
    BY <1>0, ServedRequest DEF Requests
  <2>. HIDE DEF q
  <2>. QED BY <1>5, <2>1, <2>2
<1>6. CASE Unload
  <2> DEFINE q == [Served(pending) EXCEPT !.last = "unload"]
             k == [pending EXCEPT !.last = "unload"]
  <2>1. pending' = q \/ pending' = k \/ pending' = pending
    BY <1>6 DEF Unload, Records
  <2>2. /\ q.target = pending.target /\ q.print = pending.print
        /\ q.cut = pending.cut /\ q.svc
    BY <1>0, ServedRequest DEF Requests
  <2>3. /\ k.target = pending.target /\ k.print = pending.print
        /\ k.cut = pending.cut /\ k.svc = pending.svc
    BY <1>0 DEF Requests
  <2>. HIDE DEF q, k
  <2>. QED BY <2>1, <2>2, <2>3
<1>7. CASE Pulled
  <2>1. pending' = Served(pending) \/ pending' = pending
    BY <1>7 DEF Pulled, Records
  <2>. QED BY <1>0, <2>1, ServedRequest
<1>8. CASE Load
  <2> DEFINE q == [Served(pending) EXCEPT !.last = "load"]
             k == [pending EXCEPT !.last = "load"]
  <2>1. pending' = q \/ pending' = k \/ pending' = pending
    BY <1>8 DEF Load
  <2>2. /\ q.target = pending.target /\ q.print = pending.print
        /\ q.cut = pending.cut /\ q.svc
    BY <1>0, ServedRequest DEF Requests
  <2>3. /\ k.target = pending.target /\ k.print = pending.print
        /\ k.cut = pending.cut /\ k.svc = pending.svc
    BY <1>0 DEF Requests
  <2>. HIDE DEF q, k
  <2>. QED BY <2>1, <2>2, <2>3
<1>9. CASE LoadExternal
  BY <1>0, <1>9, ServedRequest DEF LoadExternal, Requests
<1>10. CASE Commit
  BY <1>0, <1>10 DEF Commit, Requests
<1>11. CASE Flush
  <2> DEFINE flushed(q, p, l) == [q EXCEPT !.prepared = p, !.flushDone = TRUE,
                                           !.last = l]
  <2>1. \E did \in BOOLEAN :
          LET q == IF did THEN Served(pending) ELSE pending
          IN  \E p, l : pending' = flushed(q, p, l)
    BY <1>11 DEF Flush
  <2>2. PICK q \in {pending, Served(pending)} : \E p, l : pending' = flushed(q, p, l)
    <3>. HIDE DEF flushed
    <3>. QED BY <2>1
  <2>3. q \in Requests /\ q.target = pending.target /\ q.print = pending.print
        /\ q.cut = pending.cut /\ (pending.svc => q.svc)
    BY <1>0, <2>2, ServedRequest
  <2>4. PICK p, l : pending' = flushed(q, p, l)
    BY <2>2
  <2>. QED BY <2>3, <2>4 DEF Requests
<1>12. CASE Final
  BY <1>0, <1>12, ServedRequest DEF Final
<1>13. CASE Return
  BY <1>0, <1>13 DEF Return, Requests
<1>14. CASE FeedTail
  BY <1>0, <1>14, ServedRequest DEF FeedTail
<1>15. ASSUME RouteReady \/ Verify \/ Inserted \/ Prime \/ ResumeBase \/ ExecuteRunout
       PROVE  pending' = pending
  BY <1>15 DEF RouteReady, Verify, Inserted, Prime, ResumeBase, ExecuteRunout
<1>. QED BY <1>1, <1>2, <1>3, <1>4, <1>5, <1>6, <1>7, <1>8, <1>9, <1>10, <1>11,
            <1>12, <1>13, <1>14, <1>15 DEF EngineStep
-----------------------------------------------------------------------------
(* Where commands are.                                                     *)

LEMMA IdlePlaces == ASSUME op' = Idle PROVE CommandPlaces'
BY IdleFields DEF CommandPlaces, IsIdle, Changes

LEMMA KeptPlaces ==
    ASSUME CommandPlaces, op'.at = op.at, op'.cmd = op.cmd, op'.target = op.target,
           HasPending => HasPending'
    PROVE  CommandPlaces'
BY DEF CommandPlaces, IsIdle, Changes

LEMMA MovedPlaces ==
    ASSUME TypeOK, Changes, NEW step \in Steps \ {"idle", "prime", "recheck"},
           Goto(step), HasPending'
    PROVE  CommandPlaces'
BY GotoFields DEF CommandPlaces, IsIdle, Changes

LEMMA BegunPlaces ==
    ASSUME NEW step \in {"route", "tail"}, NEW cmd \in {"change", "resume", "runout"},
           NEW t, Begin(step, cmd, t), HasPending'
    PROVE  CommandPlaces'
BY BeginFields DEF CommandPlaces, IsIdle, Changes

LEMMA PlacesAround ==
    ASSUME TypeOK, CommandPlaces, Around PROVE CommandPlaces'
<1>1. ASSUME PrintStart \/ PrintEnd PROVE CommandPlaces'
  <2>1. op' = op /\ op.at = "idle"
    BY <1>1 DEF PrintStart, PrintEnd, IsIdle
  <2>. QED BY <2>1 DEF CommandPlaces, IsIdle, Changes
<1>2. ASSUME RequestPause \/ Pause \/ Clog \/ InsertExternal \/ PullExternal \/ RunoutPauses
      PROVE  CommandPlaces'
  <2>1. op' = op /\ pending' = pending
    BY <1>2 DEF RequestPause, Pause, Clog, InsertExternal, PullExternal, RunoutPauses
  <2>. QED BY <2>1, KeptPlaces DEF HasPending
<1>3. CASE Fault
  <2>1. /\ op'.at = op.at /\ op'.cmd = op.cmd /\ op'.target = op.target
        /\ pending' = pending
    BY <1>3 DEF Fault, TypeOK, Operations
  <2>. QED BY <2>1, KeptPlaces DEF HasPending
<1>4. ASSUME NEW t \in Slots, RunoutSwap(t) PROVE CommandPlaces'
  <2> DEFINE q == [NoRequest EXCEPT !.target = t, !.flush = TRUE, !.print = TRUE,
                                    !.kind = "runout", !.runout = TRUE,
                                    !.retracted = path.slot, !.cut = path.slot]
  <2>1. t \in AnySlot /\ path.slot \in AnySlot /\ t # NoSlot
    BY <1>4, BoxAssumption DEF RunoutSwap, AnySlot
  <2>2. q \in Requests /\ q.target = t
    BY <2>1, NoRequestType DEF Requests
  <2>3. pending'.target = t
    BY <1>4, <2>2, CapturedRequest DEF RunoutSwap
  <2>. QED BY <1>4, <2>1, <2>3, BegunPlaces DEF RunoutSwap, HasPending
<1>. QED BY <1>1, <1>2, <1>3, <1>4 DEF Around

LEMMA PlacesCommands ==
    ASSUME TypeOK, CommandPlaces, Commands PROVE CommandPlaces'
<1>0. /\ Selectable \subseteq AnySlot \ {NoSlot} /\ pending \in Requests
      /\ recovery.target \in AnySlot
  BY BoxAssumption DEF AnySlot, TypeOK, Recoveries
<1>1. ASSUME NEW t \in Selectable, NEW f \in BOOLEAN, Change(t, f) PROVE CommandPlaces'
  <2>1. pending'.target = t
    BY <1>0, <1>1, RequestForFields DEF Change
  <2>. QED BY <1>0, <1>1, <2>1, BegunPlaces DEF Change, HasPending
<1>2. ASSUME NEW t \in Selectable, Unreadable(t) PROVE CommandPlaces'
  <2>1. op' = op /\ pending' = pending
    BY <1>2 DEF Unreadable, ChangeFails
  <2>. QED BY <2>1, KeptPlaces DEF HasPending
<1>3. ASSUME NEW t \in Selectable, BoxLoad(t) PROVE CommandPlaces'
  <2>1. op'.at = "load" /\ op'.cmd = "load" /\ op'.target = t /\ t \in Slots
    BY <1>3, BeginFields DEF BoxLoad
  <2>. QED BY <2>1 DEF CommandPlaces, IsIdle, Changes
<1>4. ASSUME NEW cmd \in {"unload", "manual"}, BoxUnload(cmd) PROVE CommandPlaces'
  <2>1. op'.at \in {"retract", "cut", "unload", "pull"} /\ op'.cmd = cmd
    BY <1>4, BeginFields, UnloadStepType DEF BoxUnload
  <2>. QED BY <2>1 DEF CommandPlaces, IsIdle, Changes
<1>5. CASE UnloadNothing
  BY <1>5, KeptPlaces DEF UnloadNothing, HasPending
<1>6. CASE Resume
  <2>1. op'.at = "prime" /\ op'.cmd = "resume"
    BY <1>6, BeginFields DEF Resume
  <2>. QED BY <2>1 DEF CommandPlaces, IsIdle, Changes
<1>7. CASE ResumeRetries
  <2>1. Attended \in Requests
    BY NoRequestType DEF Attended, Requests, AnySlot, LastSteps
  <2>2. pending'.target = recovery.target
    BY <1>0, <1>7, <2>1, RequestForFields DEF ResumeRetries
  <2>. QED BY <1>7, <2>2, BegunPlaces DEF ResumeRetries, HasPending
<1>. QED BY <1>1, <1>2, <1>3, <1>4, <1>5, <1>6, <1>7 DEF Commands

LEMMA PlacesEngine ==
    ASSUME TypeOK, CommandPlaces, EngineStep PROVE CommandPlaces'
<1>0. ~Finish /\ HasPending => HasPending'
  BY EngineRequest DEF HasPending
<1>1. CASE RouteAttend
  BY <1>1, IdlePlaces DEF RouteAttend
<1>2. ASSUME RouteRunout \/ RouteReady \/ Route \/ Verify \/ LoadExternal \/ Inserted
             \/ Commit \/ Flush \/ Final \/ Return \/ FeedTail
      PROVE  CommandPlaces'
  <2>1. op.at \in {"route", "verify", "load", "insert", "commit", "flush", "final",
                   "return", "tail"}
    BY <1>2 DEF RouteRunout, RouteReady, Route, Verify, LoadExternal, Inserted, Commit,
                Flush, Final, Return, FeedTail, At
  <2>2. op.cmd # "load"
    <3>1. ASSUME op.cmd = "load" PROVE FALSE
      <4>1. op.at = "load" /\ op.target # External
        BY <3>1, BoxAssumption DEF CommandPlaces
      <4>. QED BY <1>2, <4>1
               DEF RouteRunout, RouteReady, Route, Verify, LoadExternal, Inserted, Commit,
                   Flush, Final, Return, FeedTail, At
    <3>. QED BY <3>1
  <2>3. Changes
    BY <2>1, <2>2 DEF CommandPlaces, IsIdle, Changes, TypeOK, Operations
  <2>4. HasPending'
    BY <1>0, <1>2, <2>1, <2>3
       DEF CommandPlaces, RouteRunout, RouteReady, Route, Verify, LoadExternal, Inserted,
           Commit, Flush, Final, Return, FeedTail, At, Finish
  <2>5. PICK step \in Steps \ {"idle", "prime", "recheck"} : Goto(step)
    <3>1. ASSUME RouteRunout \/ RouteReady PROVE \E step \in {"rexec", "return", "finish"} : Goto(step)
      BY <3>1 DEF RouteRunout, RouteReady
    <3>2. ASSUME Route
          PROVE  \E step \in {"commit", "load", "verify", "retract", "cut", "unload", "pull"} : Goto(step)
      BY <3>2, UnloadStepType DEF Route
    <3>3. ASSUME Verify \/ LoadExternal \/ Inserted
          PROVE  \E step \in {"commit", "load", "insert"} : Goto(step)
      BY <3>3 DEF Verify, LoadExternal, Inserted
    <3>4. ASSUME Commit \/ Flush \/ Final \/ Return \/ FeedTail
          PROVE  \E step \in {"flush", "final", "return", "finish", "rexec"} : Goto(step)
      BY <3>4 DEF Commit, Flush, Final, Return, FeedTail
    <3>. QED BY <1>2, <3>1, <3>2, <3>3, <3>4 DEF Steps
  <2>. QED BY <2>3, <2>4, <2>5, MovedPlaces
<1>3. ASSUME Retract \/ Cut PROVE CommandPlaces'
  <2>1. PICK step \in {"retract", "cut", "unload", "pull"} : Goto(step)
    BY <1>3, UnloadStepType DEF Retract, Cut
  <2>2. op.at \in {"retract", "cut"}
    BY <1>3 DEF Retract, Cut, At
  <2>3. HasPending => HasPending'
    BY <1>0, <2>2 DEF Finish, At
  <2>. QED BY <2>1, <2>2, <2>3, GotoFields DEF CommandPlaces, IsIdle, Changes, Steps
<1>4. ASSUME Unload \/ Pulled \/ Load PROVE CommandPlaces'
  <2>1. CASE ~Changes
    <3>1. op' = Idle
      BY <1>4, <2>1 DEF Unload, Pulled, Load
    <3>. QED BY <3>1, IdlePlaces
  <2>2. CASE Changes
    <3>1. PICK step \in {"verify", "commit"} : Goto(step)
      BY <1>4, <2>2 DEF Unload, Pulled, Load
    <3>2. HasPending'
      BY <1>0, <1>4, <2>2 DEF Unload, Pulled, Load, At, Finish, CommandPlaces
    <3>. QED BY <2>2, <3>1, <3>2, MovedPlaces DEF Steps
  <2>. QED BY <2>1, <2>2
<1>5. CASE Finish
  <2>1. CASE op.cmd = "resume"
    <3>1. op'.at = "prime" /\ op'.cmd = "resume"
      BY <1>5, <2>1, GotoFields DEF Finish, Steps
    <3>. QED BY <3>1 DEF CommandPlaces, IsIdle, Changes
  <2>2. CASE op.cmd # "resume"
    BY <1>5, <2>2, IdlePlaces DEF Finish
  <2>. QED BY <2>1, <2>2
<1>6. CASE Prime
  <2>1. op'.at = "recheck" /\ op'.cmd = "resume"
    BY <1>6, GotoFields DEF Prime, At, CommandPlaces, Steps
  <2>. QED BY <2>1 DEF CommandPlaces, IsIdle, Changes
<1>7. CASE ResumeBase
  BY <1>7, IdlePlaces DEF ResumeBase
<1>8. CASE ExecuteRunout
  <2>1. op'.at \in {"commit", "load", "unload"} /\ op'.cmd = op.cmd
    BY <1>8 DEF ExecuteRunout, TypeOK, Operations
  <2>2. Changes /\ HasPending'
    BY <1>0, <1>8 DEF ExecuteRunout, At, CommandPlaces, IsIdle, Changes, TypeOK, Operations,
                      Finish
  <2>. QED BY <2>1, <2>2 DEF CommandPlaces, IsIdle, Changes
<1>. QED BY <1>1, <1>2, <1>3, <1>4, <1>5, <1>6, <1>7, <1>8 DEF EngineStep

LEMMA PlacesStep == TypeOK /\ CommandPlaces /\ [Next]_vars => CommandPlaces'
<1>. SUFFICES ASSUME TypeOK, CommandPlaces, [Next]_vars PROVE CommandPlaces'
  OBVIOUS
<1>1. CASE StepFails
  BY <1>1, IdlePlaces DEF StepFails
<1>2. CASE UNCHANGED vars
  BY <1>2, KeptPlaces DEF vars, HasPending
<1>. QED BY <1>1, <1>2, PlacesAround, PlacesCommands, PlacesEngine DEF Next

-----------------------------------------------------------------------------
(* The filament sensor.                                                    *)

Unloads == {"retract", "cut", "unload", "pull"}

LEMMA KeptSensor ==
    ASSUME SensorOff, op'.at = op.at, op'.armed = op.armed, sensor' = sensor
    PROVE  SensorOff'
BY DEF SensorOff, IsIdle

LEMMA SensorOn ==
    ASSUME op'.armed \/ op'.at = "idle", sensor' PROVE SensorOff'
BY DEF SensorOff, IsIdle

LEMMA SensorAround ==
    ASSUME TypeOK, SensorOff, Around PROVE SensorOff'
<1>1. ASSUME PrintStart \/ PrintEnd \/ RequestPause \/ Pause \/ Clog \/ InsertExternal
             \/ PullExternal \/ RunoutPauses
      PROVE  SensorOff'
  BY <1>1, KeptSensor DEF PrintStart, PrintEnd, RequestPause, Pause, Clog, InsertExternal,
                          PullExternal, RunoutPauses
<1>2. CASE Fault
  <2>1. op'.at = op.at /\ op'.armed = op.armed /\ sensor' = sensor
    BY <1>2 DEF Fault, TypeOK, Operations
  <2>. QED BY <2>1, KeptSensor
<1>3. ASSUME NEW t \in Slots, RunoutSwap(t) PROVE SensorOff'
  <2>1. op'.armed /\ sensor'
    BY <1>3, BeginFields DEF RunoutSwap, RunsOut
  <2>. QED BY <2>1, SensorOn
<1>. QED BY <1>1, <1>2, <1>3 DEF Around

LEMMA SensorCommands ==
    ASSUME TypeOK, SensorOff, Commands PROVE SensorOff'
<1>0. IsIdle => sensor
  BY DEF SensorOff, IsIdle
<1>1. ASSUME NEW t \in Selectable, NEW f \in BOOLEAN, Change(t, f) \/ BoxLoad(t)
      PROVE  SensorOff'
  <2>1. sensor /\ sensor' = sensor
    BY <1>0, <1>1 DEF Change, BoxLoad, ByHand
  <2>2. op'.armed = sensor
    BY <1>1, BeginFields DEF Change, BoxLoad
  <2>. QED BY <2>1, <2>2, SensorOn
<1>2. ASSUME NEW t \in Selectable, Unreadable(t) PROVE SensorOff'
  BY <1>2, KeptSensor DEF Unreadable
<1>3. ASSUME NEW cmd \in {"unload", "manual"}, BoxUnload(cmd) PROVE SensorOff'
  <2>1. op'.at \in Unloads
    BY <1>3, BeginFields, UnloadStepType DEF BoxUnload, Unloads
  <2>2. sensor /\ op'.armed = sensor
    BY <1>0, <1>3, BeginFields DEF BoxUnload, ByHand
  <2>. QED BY <2>1, <2>2 DEF SensorOff, Unloads
<1>4. CASE UnloadNothing
  <2>1. op'.at = "idle" /\ sensor'
    BY <1>4 DEF UnloadNothing, ByHand, IsIdle
  <2>. QED BY <2>1, SensorOn
<1>5. ASSUME Resume \/ ResumeRetries PROVE SensorOff'
  <2>1. op'.armed /\ sensor'
    BY <1>0, <1>5, BeginFields DEF Resume, ResumeRetries
  <2>. QED BY <2>1, SensorOn
<1>. QED BY <1>1, <1>2, <1>3, <1>4, <1>5 DEF Commands

LEMMA SensorEngine ==
    ASSUME TypeOK, CommandPlaces, SensorOff, EngineStep PROVE SensorOff'
<1>1. ASSUME RouteAttend \/ ResumeBase PROVE SensorOff'
  <2>1. op'.at = "idle" /\ sensor'
    BY <1>1, IdleFields DEF RouteAttend, ResumeBase, At, SensorOff
  <2>. QED BY <2>1, SensorOn
<1>2. ASSUME NEW step \in Steps, op.at \notin Unloads, Goto(step), sensor' = sensor
             \/ step \in Unloads \/ sensor', op.at # "idle"
      PROVE  SensorOff'
  <2>1. op'.at = step /\ op'.armed
    BY <1>2, GotoFields DEF SensorOff, IsIdle
  <2>. QED BY <1>2, <2>1 DEF SensorOff, Unloads
<1>3. ASSUME RouteRunout \/ Verify \/ Inserted \/ Commit \/ Flush \/ Final \/ Return \/ Prime
             \/ FeedTail \/ RouteReady \/ LoadExternal
      PROVE  SensorOff'
  <2>1. op.at \notin Unloads /\ op.at # "idle" /\ sensor'
    BY <1>3 DEF RouteRunout, Verify, Inserted, Commit, Flush, Final, Return, Prime,
                FeedTail, RouteReady, LoadExternal, At, Unloads, SensorOff, memory, printVars
  <2>2. PICK step \in Steps : Goto(step)
    <3>1. ASSUME RouteRunout \/ RouteReady PROVE \E step \in Steps : Goto(step)
      BY <3>1 DEF RouteRunout, RouteReady, Steps
    <3>2. ASSUME Verify \/ LoadExternal \/ Inserted \/ Prime PROVE \E step \in Steps : Goto(step)
      BY <3>2 DEF Verify, LoadExternal, Inserted, Prime, Steps
    <3>3. ASSUME Commit \/ Flush \/ Final \/ Return \/ FeedTail
          PROVE  \E step \in Steps : Goto(step)
      BY <3>3 DEF Commit, Flush, Final, Return, FeedTail, Steps
    <3>. QED BY <1>3, <3>1, <3>2, <3>3
  <2>. QED BY <1>2, <2>1, <2>2
<1>4. CASE Route
  <2>1. PICK step \in Steps : Goto(step) /\ (step \in Unloads \/ sensor' = sensor)
    BY <1>4, UnloadStepType DEF Route, Steps, Unloads
  <2>2. op.at = "route"
    BY <1>4 DEF Route, At
  <2>. QED BY <1>2, <2>1, <2>2 DEF Unloads
<1>5. ASSUME Retract \/ Cut PROVE SensorOff'
  <2>1. PICK step \in Unloads : Goto(step)
    BY <1>5, UnloadStepType DEF Retract, Cut, Unloads
  <2>2. op'.at \in Unloads /\ op'.armed
    BY <1>5, <2>1, GotoFields DEF Retract, Cut, At, SensorOff, IsIdle, Unloads, Steps
  <2>. QED BY <2>2 DEF SensorOff, Unloads
<1>6. ASSUME Unload \/ Pulled \/ Load PROVE SensorOff'
  <2>1. sensor' /\ op.armed
    BY <1>6 DEF Unload, Pulled, Load, At, SensorOff, IsIdle
  <2>2. op' = Idle \/ \E step \in {"verify", "commit"} : Goto(step)
    BY <1>6 DEF Unload, Pulled, Load
  <2>3. op'.at = "idle" \/ op'.armed
    BY <2>1, <2>2, IdleFields, GotoFields DEF Steps
  <2>. QED BY <2>1, <2>3, SensorOn
<1>7. CASE Finish
  <2>1. sensor' /\ op.armed
    BY <1>7 DEF Finish, At, SensorOff, IsIdle
  <2>2. op' = Idle \/ Goto("prime")
    BY <1>7 DEF Finish
  <2>3. op'.at = "idle" \/ op'.armed
    BY <2>1, <2>2, IdleFields, GotoFields DEF Steps
  <2>. QED BY <2>1, <2>3, SensorOn
<1>8. CASE ExecuteRunout
  <2>1. op'.armed = sensor /\ sensor' = sensor /\ sensor
    BY <1>8 DEF ExecuteRunout, At, SensorOff, TypeOK, Operations
  <2>. QED BY <2>1, SensorOn
<1>. QED BY <1>1, <1>3, <1>4, <1>5, <1>6, <1>7, <1>8 DEF EngineStep

LEMMA SensorStep ==
    TypeOK /\ CommandPlaces /\ SensorOff /\ [Next]_vars => SensorOff'
<1>. SUFFICES ASSUME TypeOK, CommandPlaces, SensorOff, [Next]_vars PROVE SensorOff'
  OBVIOUS
<1>1. CASE StepFails
  <2>1. op'.at = "idle" /\ sensor'
    BY <1>1, IdleFields DEF StepFails, SensorAfterFailure, SensorOff
  <2>. QED BY <2>1, SensorOn
<1>2. CASE UNCHANGED vars
  BY <1>2, KeptSensor DEF vars
<1>. QED BY <1>1, <1>2, SensorAround, SensorCommands, SensorEngine DEF Next

-----------------------------------------------------------------------------
(* The blocked resume.                                                     *)

LEMMA KeptBlocks ==
    ASSUME Blocks, op'.at = op.at, op'.cmd = op.cmd, pending' = pending,
           recovery' = recovery
    PROVE  Blocks'
BY DEF Blocks, Blocked, Changes, HasPending

LEMMA BlockedBlocks == ASSUME Blocked' PROVE Blocks'
BY DEF Blocks

LEMMA ChangingBlocks ==
    ASSUME op'.cmd \in {"change", "resume", "runout"}, op'.at \notin {"prime", "recheck"}
    PROVE  Blocks'
BY DEF Blocks, Changes

LEMMA BlockResumeBlocks ==
    ASSUME NEW t, NEW a, BlockResume(t, a), pending' = pending PROVE Blocked'
BY DEF BlockResume, Blocked, HasPending

LEMMA ChangeFailsBlocks ==
    ASSUME NEW q, NEW h, ChangeFails(q, h) PROVE Blocked'
<1>1. pending' = q
  BY DEF ChangeFails
<1>2. CASE q.print
  <2>1. recovery' = [on |-> TRUE, target |-> q.target, automatic |-> TRUE]
    BY <1>2 DEF ChangeFails
  <2>. QED BY <1>1, <2>1 DEF Blocked
<1>3. CASE ~q.print
  BY <1>1, <1>3 DEF Blocked
<1>. QED BY <1>2, <1>3

LEMMA NothingBlocks == ASSUME pending' = NoRequest PROVE Blocked'
BY DEF Blocked, HasPending, NoRequest

LEMMA BlocksAround ==
    ASSUME TypeOK, CommandPlaces, Blocks, Around PROVE Blocks'
<1>1. ASSUME PrintStart \/ PrintEnd PROVE Blocks'
  BY <1>1, NothingBlocks, BlockedBlocks DEF PrintStart, PrintEnd, ResetRecovery
<1>2. ASSUME RequestPause \/ Pause \/ InsertExternal \/ PullExternal PROVE Blocks'
  BY <1>2, KeptBlocks DEF RequestPause, Pause, InsertExternal, PullExternal
<1>3. CASE Fault
  <2>1. CASE Active
    <3>1. BlockResume(path.slot, ~HasPending) /\ pending' = pending
      BY <1>3, <2>1 DEF Fault
    <3>. QED BY <3>1, BlockResumeBlocks, BlockedBlocks
  <2>2. CASE ~Active
    <3>1. op'.at = op.at /\ op'.cmd = op.cmd /\ pending' = pending /\ recovery' = recovery
      BY <1>3, <2>2 DEF Fault, TypeOK, Operations
    <3>. QED BY <3>1, KeptBlocks
  <2>. QED BY <2>1, <2>2
<1>4. ASSUME Clog \/ RunoutPauses PROVE Blocks'
  <2>1. /\ \E t, a : BlockResume(t, a)
        /\ pending' = pending
    BY <1>4 DEF Clog, RunoutPauses
  <2>. QED BY <2>1, BlockResumeBlocks, BlockedBlocks
<1>5. ASSUME NEW t \in Slots, RunoutSwap(t) PROVE Blocks'
  BY <1>5, BeginFields, ChangingBlocks DEF RunoutSwap
<1>. QED BY <1>1, <1>2, <1>3, <1>4, <1>5 DEF Around

LEMMA BlocksCommands ==
    ASSUME TypeOK, CommandPlaces, Blocks, Commands PROVE Blocks'
<1>0. IsIdle => Blocked
  BY DEF Blocks, CommandPlaces, Changes
<1>1. ASSUME NEW t \in Selectable, NEW f \in BOOLEAN, Change(t, f) PROVE Blocks'
  BY <1>1, BeginFields, ChangingBlocks DEF Change
<1>2. ASSUME NEW t \in Selectable, Unreadable(t) PROVE Blocks'
  BY <1>2, ChangeFailsBlocks, BlockedBlocks DEF Unreadable
<1>3. ASSUME IsIdle, pending' = pending, recovery' = recovery PROVE Blocks'
  BY <1>0, <1>3, BlockedBlocks DEF Blocked, HasPending
<1>4. CASE ResumeRetries
  BY <1>4, BeginFields, ChangingBlocks DEF ResumeRetries
<1>. QED BY <1>1, <1>2, <1>3, <1>4
         DEF Commands, BoxLoad, BoxUnload, UnloadNothing, Resume, ByHand

LEMMA BlocksEngine ==
    ASSUME TypeOK, CommandPlaces, CommandPlaces', Blocks, EngineStep PROVE Blocks'
<1>1. CASE RouteAttend
  <2>1. \E q, h : ChangeFails(q, h)
    BY <1>1 DEF RouteAttend
  <2>. QED BY <2>1, ChangeFailsBlocks, BlockedBlocks
<1>2. CASE Finish
  BY <1>2, NothingBlocks, BlockedBlocks DEF Finish
<1>3. ASSUME ~RouteAttend, ~Finish PROVE Blocks'
  <2>1. pending'.target = pending.target /\ pending'.print = pending.print
    BY <1>3, EngineRequest
  <2>2. recovery' = recovery
    BY <1>3 DEF EngineStep, RouteRunout, RouteReady, Route, Retract, Cut, Unload, Pulled,
                Verify, Load, LoadExternal, Inserted, Commit, Flush, Final, Return, Prime,
                ResumeBase, FeedTail, ExecuteRunout
  <2>3. CASE Blocked
    BY <2>1, <2>2, <2>3, BlockedBlocks DEF Blocked, HasPending
  <2>4. CASE ~Blocked
    <3>1. Changes /\ op.at \notin {"prime", "recheck"}
      BY <2>4 DEF Blocks
    <3>2. ~Prime /\ ~ResumeBase
      BY <3>1 DEF Prime, ResumeBase, At
    <3>3. op'.cmd = op.cmd /\ op'.at \notin {"prime", "recheck"}
      <4>1. CASE ExecuteRunout
        BY <4>1 DEF ExecuteRunout, TypeOK, Operations
      <4>2. CASE ~ExecuteRunout
        <5>1. PICK step \in Steps \ {"prime", "recheck"} : Goto(step)
          <6>1. ASSUME RouteRunout \/ RouteReady \/ Verify \/ LoadExternal \/ Inserted
                PROVE  \E step \in Steps \ {"prime", "recheck"} : Goto(step)
            BY <6>1 DEF RouteRunout, RouteReady, Verify, LoadExternal, Inserted, Steps
          <6>2. ASSUME Commit \/ Flush \/ Final \/ Return \/ FeedTail
                PROVE  \E step \in Steps \ {"prime", "recheck"} : Goto(step)
            BY <6>2 DEF Commit, Flush, Final, Return, FeedTail, Steps
          <6>3. ASSUME Route \/ Retract \/ Cut
                PROVE  \E step \in Steps \ {"prime", "recheck"} : Goto(step)
            BY <6>3, UnloadStepType DEF Route, Retract, Cut, Steps
          <6>4. ASSUME Unload \/ Pulled \/ Load
                PROVE  \E step \in Steps \ {"prime", "recheck"} : Goto(step)
            BY <3>1, <6>4 DEF Unload, Pulled, Load, Steps
          <6>. QED BY <1>3, <3>2, <4>2, <6>1, <6>2, <6>3, <6>4 DEF EngineStep
        <5>. QED BY <5>1, GotoFields
      <4>. QED BY <4>1, <4>2
    <3>. QED BY <3>1, <3>3, ChangingBlocks DEF Changes
  <2>. QED BY <2>3, <2>4
<1>. QED BY <1>1, <1>2, <1>3

LEMMA BlocksStep ==
    TypeOK /\ CommandPlaces /\ CommandPlaces' /\ Blocks /\ [Next]_vars => Blocks'
<1>. SUFFICES ASSUME TypeOK, CommandPlaces, CommandPlaces', Blocks, [Next]_vars
              PROVE  Blocks'
  OBVIOUS
<1>1. CASE StepFails
  <2>1. CASE Changes /\ op.at \notin {"prime", "recheck"}
    <3>1. \E q, h : ChangeFails(q, h)
      BY <1>1, <2>1 DEF StepFails
    <3>. QED BY <3>1, ChangeFailsBlocks, BlockedBlocks
  <2>2. CASE ~(Changes /\ op.at \notin {"prime", "recheck"})
    <3>1. Blocked
      BY <2>2 DEF Blocks
    <3>2. pending' = pending /\ recovery' = recovery
      BY <1>1, <2>2 DEF StepFails, CommandFails
    <3>. QED BY <3>1, <3>2, BlockedBlocks DEF Blocked, HasPending
  <2>. QED BY <2>1, <2>2
<1>2. CASE UNCHANGED vars
  BY <1>2, KeptBlocks DEF vars
<1>. QED BY <1>1, <1>2, BlocksAround, BlocksCommands, BlocksEngine DEF Next

-----------------------------------------------------------------------------
(* The cut.                                                                *)

(* The request goes on with the checkpoint of the cut it has. *)
KeepsCut == HasPending /\ pending.svc =>
                HasPending' /\ pending'.svc /\ pending'.cut = pending.cut

LEMMA SameCut ==
    ASSUME CutChecked, path'.slot = path.slot, cuts' = cuts,
           op'.at = op.at, op'.cmd = op.cmd, op'.live = op.live, pending' = pending
    PROVE  CutChecked'
BY DEF CutChecked, HasPending, Changes

LEMMA MovedCut ==
    ASSUME CutChecked, path'.slot = path.slot, cuts' = cuts, KeepsCut,
           op'.at \notin {"route", "retract", "cut"}
    PROVE  CutChecked'
BY DEF CutChecked, KeepsCut

LEMMA NewStrand ==
    ASSUME cuts' = 0, op'.at \notin {"route", "retract", "cut"} PROVE CutChecked'
BY DEF CutChecked

LEMMA UnloadStepCut ==
    ASSUME NEW s, NEW seen, NEW r, NEW c, UnloadStep(s, seen, r, c) = "cut"
    PROVE  c # s
BY DEF UnloadStep

LEMMA CutAround ==
    ASSUME TypeOK, CommandPlaces, CutChecked, Around PROVE CutChecked'
<1>1. ASSUME PrintStart \/ PrintEnd \/ RunoutPauses PROVE CutChecked'
  <2>1. cuts' = 0 /\ op' = op /\ op.at = "idle"
    BY <1>1 DEF PrintStart, PrintEnd, ResetRecovery, RunoutPauses, RunsOut, IsIdle
  <2>. QED BY <2>1, NewStrand
<1>2. ASSUME RequestPause \/ Pause \/ Clog PROVE CutChecked'
  BY <1>2, SameCut DEF RequestPause, Pause, Clog
<1>3. CASE Fault
  <2>1. /\ op'.at = op.at /\ op'.cmd = op.cmd /\ op'.live = op.live
        /\ pending' = pending /\ cuts' = cuts
    BY <1>3 DEF Fault, TypeOK, Operations
  <2>2. path'.slot = path.slot
    BY <1>3 DEF Fault, TypeOK, Paths
  <2>. QED BY <2>1, <2>2, SameCut
<1>4. CASE InsertExternal
  <2>1. path.slot = NoSlot /\ cuts' = 0 /\ op' = op /\ pending' = pending
    BY <1>4 DEF InsertExternal, Gone
  <2>. QED BY <2>1 DEF CutChecked, Changes
<1>5. CASE PullExternal
  BY <1>5, NewStrand DEF PullExternal
<1>6. ASSUME NEW t \in Slots, RunoutSwap(t) PROVE CutChecked'
  <2>1. cuts' = 0 /\ op'.at = "tail"
    BY <1>6, BeginFields DEF RunoutSwap, RunsOut
  <2>. QED BY <2>1, NewStrand
<1>. QED BY <1>1, <1>2, <1>3, <1>4, <1>5, <1>6 DEF Around

LEMMA CutCommands ==
    ASSUME TypeOK, CommandPlaces, CutChecked, Commands PROVE CutChecked'
<1>0. /\ Selectable \subseteq AnySlot \ {NoSlot} /\ pending \in Requests
      /\ recovery.target \in AnySlot
  BY BoxAssumption DEF AnySlot, TypeOK, Recoveries
<1>1. ASSUME op'.at = "route", op'.live = path, path' = path, cuts' = cuts, KeepsCut
      PROVE  CutChecked'
  BY <1>1 DEF CutChecked, KeepsCut
<1>2. ASSUME NEW t \in Selectable, NEW f \in BOOLEAN, Change(t, f) PROVE CutChecked'
  <2>1. op'.at = "route" /\ op'.live = path /\ path' = path /\ cuts' = cuts
    BY <1>2, BeginFields DEF Change
  <2>2. pending' = RequestFor(pending, t, f)
    BY <1>2 DEF Change
  <2>3. KeepsCut
    BY <1>0, <2>2, RequestForFields DEF KeepsCut, HasPending
  <2>. QED BY <1>1, <2>1, <2>3
<1>3. ASSUME NEW t \in Selectable, Unreadable(t) PROVE CutChecked'
  <2>1. op' = op /\ path' = path /\ cuts' = cuts /\ pending' = pending
    BY <1>3 DEF Unreadable, ChangeFails
  <2>. QED BY <2>1, SameCut
<1>4. ASSUME NEW t \in Selectable, BoxLoad(t) PROVE CutChecked'
  <2>1. op'.at = "load" /\ path' = path /\ cuts' = cuts /\ pending' = pending
    BY <1>4, BeginFields DEF BoxLoad
  <2>. QED BY <2>1, MovedCut DEF KeepsCut, HasPending
<1>5. ASSUME NEW cmd \in {"unload", "manual"}, BoxUnload(cmd) PROVE CutChecked'
  <2>1. op'.cmd = cmd /\ op'.at # "route"
    BY <1>5, BeginFields, UnloadStepType DEF BoxUnload
  <2>2. path' = path /\ cuts' = cuts /\ pending' = pending
    BY <1>5 DEF BoxUnload
  <2>. QED BY <2>1, <2>2 DEF CutChecked, Changes, HasPending
<1>6. CASE UnloadNothing
  BY <1>6, SameCut DEF UnloadNothing
<1>7. CASE Resume
  <2>1. op'.at = "prime" /\ path' = path /\ cuts' = cuts /\ pending' = pending
    BY <1>7, BeginFields DEF Resume
  <2>. QED BY <2>1, MovedCut DEF KeepsCut, HasPending
<1>8. CASE ResumeRetries
  <2>1. op'.at = "route" /\ op'.live = path /\ path' = path /\ cuts' = cuts
    BY <1>8, BeginFields DEF ResumeRetries
  <2>2. HasPending => pending' = RequestFor(pending, recovery.target, TRUE)
    BY <1>8 DEF ResumeRetries
  <2>3. recovery.target # NoSlot
    BY <1>8 DEF ResumeRetries
  <2>4. ASSUME HasPending, pending.svc
        PROVE  HasPending' /\ pending'.svc /\ pending'.cut = pending.cut
    <3> DEFINE q == RequestFor(pending, recovery.target, TRUE)
    <3>1. q.target = recovery.target /\ q.cut = pending.cut /\ q.svc
      BY <1>0, <2>4, RequestForFields DEF HasPending
    <3>2. pending' = q
      BY <2>2, <2>4
    <3>. HIDE DEF q
    <3>. QED BY <2>3, <3>1, <3>2 DEF HasPending
  <2>. QED BY <1>1, <2>1, <2>4 DEF KeepsCut
<1>. QED BY <1>2, <1>3, <1>4, <1>5, <1>6, <1>7, <1>8 DEF Commands

LEMMA CutEngine ==
    ASSUME TypeOK, CommandPlaces, CutChecked, EngineStep PROVE CutChecked'
<1>0. ~Finish /\ ~Cut => KeepsCut
  BY EngineRequest DEF KeepsCut, HasPending
<1>1. ASSUME RouteAttend \/ ResumeBase PROVE CutChecked'
  <2>1. op'.at = "idle" /\ path' = path /\ cuts' = cuts
    BY <1>1, IdleFields DEF RouteAttend, ResumeBase
  <2>2. ~Finish /\ ~Cut
    BY <1>1 DEF RouteAttend, ResumeBase, Finish, Cut, At
  <2>. QED BY <1>0, <2>1, <2>2, MovedCut
<1>2. ASSUME NEW step \in Steps \ {"route", "retract", "cut"}, Goto(step),
             ~Finish, ~Cut, path'.slot = path.slot, cuts' = cuts
      PROVE  CutChecked'
  BY <1>0, <1>2, GotoFields, MovedCut
<1>3. ASSUME RouteRunout \/ Verify \/ Inserted \/ Commit \/ Flush \/ Final \/ Return
             \/ Prime \/ FeedTail \/ LoadExternal
      PROVE  CutChecked'
  <2>1. path' = path /\ cuts' = cuts
    BY <1>3 DEF RouteRunout, Verify, Inserted, Commit, Flush, Final, Return, Prime,
                FeedTail, LoadExternal
  <2>2. ~Finish /\ ~Cut
    BY <1>3 DEF RouteRunout, Verify, Inserted, Commit, Flush, Final, Return, Prime,
                FeedTail, LoadExternal, Finish, Cut, At
  <2>3. ASSUME RouteRunout \/ Verify \/ Inserted \/ Prime \/ FeedTail \/ LoadExternal
        PROVE  \E step \in Steps \ {"route", "retract", "cut"} : Goto(step)
    BY <2>3 DEF RouteRunout, Verify, Inserted, Prime, FeedTail, LoadExternal, Steps
  <2>4. ASSUME Commit \/ Flush \/ Final \/ Return
        PROVE  \E step \in Steps \ {"route", "retract", "cut"} : Goto(step)
    BY <2>4 DEF Commit, Flush, Final, Return, Steps
  <2>. QED BY <1>2, <1>3, <2>1, <2>2, <2>3, <2>4
<1>4. CASE RouteReady
  <2>1. path'.slot = path.slot
    BY <1>4 DEF RouteReady, TypeOK, Paths
  <2>. QED BY <1>2, <1>4, <2>1 DEF RouteReady, Finish, Cut, At, Steps
<1>5. CASE Route
  <2>1. path' = path /\ cuts' = cuts /\ ~Finish /\ ~Cut
    BY <1>5 DEF Route, Finish, Cut, At
  <2>2. KeepsCut /\ pending'.cut = pending.cut
    BY <1>0, <2>1, EngineRequest
  <2>3. CASE op.live.slot \in {op.target, NoSlot}
    <3>1. PICK step \in {"commit", "load", "verify"} : Goto(step)
      BY <1>5, <2>3 DEF Route
    <3>. QED BY <1>2, <2>1, <3>1 DEF Steps
  <2>4. CASE op.live.slot \notin {op.target, NoSlot}
    <3> DEFINE step == UnloadStep(op.live.slot, op.live.seen, pending.retracted,
                                  pending.cut)
    <3>1. step \in {"retract", "cut", "pull", "unload"} /\ Goto(step)
      BY <1>5, <2>4, UnloadStepType DEF Route
    <3>2. step = "cut" => pending.cut # op.live.slot
      BY UnloadStepCut
    <3>3. path.slot = op.live.slot
      BY <1>5, <2>4 DEF Route, At, CutChecked
    <3>4. op'.at = step
      <4>. HIDE DEF step
      <4>. QED BY <3>1, GotoFields DEF Steps
    <3>. HIDE DEF step
    <3>. QED BY <2>1, <2>2, <2>4, <3>1, <3>2, <3>3, <3>4 DEF CutChecked, KeepsCut
  <2>. QED BY <2>3, <2>4
<1>6. CASE Retract
  <2>1. cuts' = cuts /\ ~Finish /\ ~Cut /\ op.at = "retract"
    BY <1>6 DEF Retract, Finish, Cut, At
  <2>2. path'.slot = path.slot
    BY <1>6 DEF Retract, TypeOK, Paths
  <2>3. KeepsCut /\ pending'.cut = pending.cut
    BY <1>0, <2>1, EngineRequest
  <2>4. CASE Changes
    <3> DEFINE step == UnloadStep(path.slot, TRUE, path.slot, pending.cut)
    <3>1. step \in {"retract", "cut", "pull", "unload"} /\ Goto(step)
      BY <1>6, <2>4, UnloadStepType DEF Retract
    <3>2. step = "cut" => pending.cut # path.slot
      BY UnloadStepCut
    <3>3. op'.at = step
      <4>. HIDE DEF step
      <4>. QED BY <3>1, GotoFields DEF Steps
    <3>. HIDE DEF step
    <3>. QED BY <2>1, <2>2, <2>3, <2>4, <3>1, <3>2, <3>3 DEF CutChecked, KeepsCut
  <2>5. CASE ~Changes
    <3>1. op'.at = "cut" /\ op'.cmd = op.cmd
      BY <1>6, <2>5, GotoFields DEF Retract, Steps
    <3>. QED BY <2>1, <2>2, <2>3, <2>5, <3>1 DEF CutChecked, KeepsCut, Changes
  <2>. QED BY <2>4, <2>5
<1>7. CASE Cut
  <2> DEFINE step == UnloadStep(path.slot, TRUE, path.slot, path.slot)
  <2>1. step \in {"pull", "unload"} /\ Goto(step) /\ path' = path /\ op.at = "cut"
    BY <1>7 DEF Cut, UnloadStep, At
  <2>2. op'.at \in {"pull", "unload"}
    <3>. HIDE DEF step
    <3>. QED BY <2>1, GotoFields DEF Steps
  <2>3. CASE Changes
    <3> DEFINE q == [Served(pending) EXCEPT
                       !.cut = path.slot,
                       !.last = IF path.slot # External /\ Calibrated THEN "cut"
                                                                     ELSE @]
    <3>1. pending' = q
      BY <1>7, <2>3 DEF Cut, Records
    <3>2. q.target = pending.target /\ q.svc = TRUE /\ q.cut = path.slot
      BY ServedRequest DEF Requests, TypeOK
    <3>. HIDE DEF q, step
    <3>3. HasPending /\ path.slot # NoSlot /\ pending.cut # path.slot
      BY <2>1, <2>3 DEF CutChecked, CommandPlaces
    <3>4. cuts = 0
      BY <3>3 DEF CutChecked, TypeOK
    <3>5. cuts' \in {0, 1}
      BY <1>7, <3>4 DEF Cut
    <3>. QED BY <2>1, <2>2, <3>1, <3>2, <3>3, <3>5 DEF CutChecked, HasPending
  <2>4. CASE ~Changes
    <3>1. cuts' = cuts /\ pending' = pending
      BY <1>7, <2>4 DEF Cut, Records
    <3>. QED BY <2>1, <2>2, <3>1, MovedCut DEF KeepsCut, HasPending
  <2>. QED BY <2>3, <2>4
<1>8. ASSUME Unload \/ Pulled \/ Load PROVE CutChecked'
  <2>1. KeepsCut
    BY <1>0, <1>8 DEF Unload, Pulled, Load, Finish, Cut, At
  <2>2. op'.at \in {"idle", "verify", "commit"}
    <3>1. op' = Idle \/ Goto("verify") \/ Goto("commit")
      BY <1>8 DEF Unload, Pulled, Load
    <3>. QED BY <3>1, IdleFields, GotoFields DEF Steps
  <2>3. cuts' = 0 \/ (cuts' = cuts /\ path'.slot = path.slot)
    BY <1>8 DEF Unload, Pulled, Load, Loaded
  <2>. QED BY <2>1, <2>2, <2>3, NewStrand, MovedCut
<1>9. CASE Finish
  <2>1. op' = Idle \/ Goto("prime")
    BY <1>9 DEF Finish
  <2>2. op'.at \in {"idle", "prime"}
    BY <2>1, IdleFields, GotoFields DEF Steps
  <2>. QED BY <1>9, <2>2, NewStrand DEF Finish
<1>10. CASE ExecuteRunout
  <2>1. op'.at \in {"commit", "load", "unload"}
    BY <1>10 DEF ExecuteRunout, TypeOK, Operations
  <2>2. path' = path /\ cuts' = cuts /\ ~Finish /\ ~Cut
    BY <1>10 DEF ExecuteRunout, Finish, Cut, At
  <2>. QED BY <1>0, <2>1, <2>2, MovedCut
<1>. QED BY <1>1, <1>3, <1>4, <1>5, <1>6, <1>7, <1>8, <1>9, <1>10 DEF EngineStep

LEMMA LeftoversSlot ==
    ASSUME TypeOK, NEW left \in Leftovers
    PROVE  left[1].slot \in {path.slot, NoSlot} \/ path.slot = NoSlot
<1> DEFINE loose == [path EXCEPT !.tracked = FALSE]
           out == [path EXCEPT !.tracked = FALSE, !.seen = FALSE]
           short == [Gone EXCEPT !.slot = op.target]
<1>1. /\ loose.slot = path.slot /\ out.slot = path.slot /\ Gone.slot = NoSlot
      /\ short.slot = op.target
      /\ \A t \in BOOLEAN : [path EXCEPT !.tracked = t].slot = path.slot
      /\ \A t \in BOOLEAN : Loaded(op.target, t).slot = op.target
  BY DEF TypeOK, Paths, Gone, Loaded
<1>2. \/ left \in {<<path, strand>>, <<path, "cut">>, <<path, Fed(op.target)>>}
      \/ left \in {<<loose, strand>>, <<out, "none">>, <<Gone, "none">>}
      \/ left \in {<<[path EXCEPT !.tracked = t], strand>> : t \in BOOLEAN}
      \/ /\ path.slot \in {NoSlot, op.target}
         /\ left \in {<<short, "none">>}
                     \cup {<<Loaded(op.target, t), "gears">> : t \in BOOLEAN}
  BY DEF Leftovers
<1>3. ASSUME NEW t \in BOOLEAN
      PROVE  /\ left = <<[path EXCEPT !.tracked = t], strand>> =>
                    left[1].slot = path.slot
             /\ left = <<Loaded(op.target, t), "gears">> =>
                    left[1].slot = op.target
  <2> DEFINE tracked == [path EXCEPT !.tracked = t]
             fresh == Loaded(op.target, t)
  <2>1. tracked.slot = path.slot /\ fresh.slot = op.target
    BY <1>1
  <2>2. /\ left = <<tracked, strand>> => left[1].slot = path.slot
        /\ left = <<fresh, "gears">> => left[1].slot = op.target
    <3>. HIDE DEF tracked, fresh
    <3>. QED BY <2>1
  <2>. QED BY <2>2
<1>. HIDE DEF loose, out, short
<1>4. ASSUME left \in {<<path, strand>>, <<path, "cut">>, <<path, Fed(op.target)>>}
             \/ left \in {<<loose, strand>>, <<out, "none">>, <<Gone, "none">>}
      PROVE  left[1].slot \in {path.slot, NoSlot}
  BY <1>1, <1>4
<1>5. ASSUME left = <<short, "none">> PROVE left[1].slot = op.target
  BY <1>1, <1>5
<1>. QED BY <1>2, <1>3, <1>4, <1>5

LEMMA CutStep ==
    TypeOK /\ CommandPlaces /\ CutChecked /\ [Next]_vars => CutChecked'
<1>. SUFFICES ASSUME TypeOK, CommandPlaces, CutChecked, [Next]_vars PROVE CutChecked'
  OBVIOUS
<1>1. CASE StepFails
  <2>1. PICK left \in Leftovers :
          /\ path' = left[1]
          /\ cuts' = IF left[1].slot = NoSlot THEN 0 ELSE cuts
    BY <1>1 DEF StepFails
  <2>2. cuts' = 0 \/ (cuts' = cuts /\ path'.slot = path.slot)
    BY <2>1, LeftoversSlot DEF CutChecked
  <2>3. op'.at = "idle"
    BY <1>1, IdleFields DEF StepFails
  <2>4. pending' = pending
        \/ \E h, last : last \in LastAfterFailure /\ pending' = Failed(h, last)
    BY <1>1 DEF StepFails, ChangeFails, CommandFails
  <2>5. KeepsCut
    <3>1. CASE pending' = pending
      BY <3>1 DEF KeepsCut, HasPending
    <3>2. ASSUME NEW h, NEW last \in LastAfterFailure, pending' = Failed(h, last)
          PROVE  KeepsCut
      <4>1. /\ pending'.target = pending.target /\ pending'.cut = pending.cut
            /\ h = "service" => pending'.svc = Served(pending).svc
            /\ h # "service" => pending'.svc = pending.svc
        BY <3>2, FailedFields, Zenon
      <4>2. pending.svc => Served(pending).svc
        BY ServedRequest DEF TypeOK
      <4>. QED BY <4>1, <4>2 DEF KeepsCut, HasPending
    <3>. QED BY <2>4, <3>1, <3>2
  <2>. QED BY <2>2, <2>3, <2>5, NewStrand, MovedCut
<1>2. CASE UNCHANGED vars
  BY <1>2, SameCut DEF vars
<1>. QED BY <1>1, <1>2, CutAround, CutCommands, CutEngine DEF Next

-----------------------------------------------------------------------------
(* The theorems.                                                           *)

LEMMA InvInit == Init => Inv
<1>. SUFFICES ASSUME Init PROVE Inv
  OBVIOUS
<1>1. op.at = "idle" /\ op.cmd = "none" /\ ~HasPending
  BY IdleFields DEF Init, HasPending, NoRequest
<1>. QED BY <1>1
         DEF Init, Inv, CommandPlaces, SensorOff, Blocks, Blocked, CutChecked, IsIdle, Changes

LEMMA Inductive == Spec => []Inv
<1>1. TypeOK /\ TypeOK' /\ Inv /\ [Next]_vars => Inv'
  BY PlacesStep, SensorStep, BlocksStep, CutStep DEF Inv
<1>. QED BY <1>1, InvInit, TypeCorrect, PTL DEF Spec

(* However a change of a print fails, is retried, replaced or interrupted  *)
(* by faults and pauses, RESUME is blocked for as long as it is unfinished.*)
THEOREM PendingBlocked == Spec => []PendingBlocks
<1>1. Inv => PendingBlocks
  BY DEF Inv, Blocks, Blocked, PendingBlocks, CommandPlaces, IsIdle, Changes
<1>. QED BY <1>1, Inductive, PTL

(* Every command that turned the filament sensor off leaves it on, even    *)
(* when one of its steps fails.                                            *)
THEOREM SensorsArmed == Spec => []SensorArmed
<1>1. Inv => SensorArmed
  BY DEF Inv, SensorOff, SensorArmed, IsIdle
<1>. QED BY <1>1, Inductive, PTL

(* No number of failures and retries, of any targets, makes the requests   *)
(* of one recovery complete a second cut of the same filament.             *)
THEOREM CutsOnce == Spec => []CutOnce
<1>1. Inv => CutOnce
  BY DEF Inv, CutChecked, CutOnce
<1>. QED BY <1>1, Inductive, PTL

-----------------------------------------------------------------------------
(* Where the print goes on.                                                *)

Running == print \in {"printing", "pausing"}

(* The head is over the print, or RESUME returns it there. *)
AtPrint == /\ Running => head = "print"
           /\ print = "paused" => pausePos = "print"

(* The requests of a print are those that are made while it is active.  A  *)
(* command that ends the pause, and those given by hand, find it standing. *)
PrintRequest ==
    /\ HasPending /\ Active => pending.print
    /\ pending.print => Active /\ HasPending
    /\ op.cmd = "resume" => print = "paused"
    /\ op.cmd \in {"unload", "manual", "load"} => print \in {"none", "paused"}

(* A change of kind runout that has only to return, or to finish. *)
Restored(q) == q.kind = "runout" /\ (q.runout => q.last = "restore")

(* It does not go through the steps of a change again. *)
RunoutRequest ==
    /\ pending.kind = "runout" => pending.print
    /\ Restored(pending) /\ Changes =>
           op.at \in {"route", "return", "finish", "prime", "recheck"}

(* What the request q knows of where to return to, when the head is at h   *)
(* and the two saved states hold sp and pp: a request that has served took *)
(* its origin first, and one that took it before the pause puts right what *)
(* PAUSE saved.                                                            *)
OriginOf(q, h, sp, pp) ==
    /\ h # "none"
    /\ q.print /\ q.svc => q.ret # "none"
    /\ q.print /\ q.ret # "none" /\ q.rebase => q.ret = "print" /\ sp = "print"
    /\ q.print /\ q.ret # "none" /\ ~q.rebase => print = "paused"
    /\ Running /\ ~(q.print /\ q.svc) => h = "print"
    /\ print = "paused" /\ ~(q.print /\ q.svc /\ q.rebase) => pp = "print"

Origin == OriginOf(pending, head, savedPos, pausePos)

Returned == op.at = "finish" \/ (pending.kind = "runout" /\ ~pending.runout) => AtPrint

BlockedStands == recovery.on => print # "printing"

ResumeInv == PrintRequest /\ RunoutRequest /\ Origin /\ Returned /\ BlockedStands

(* Two requests that differ only in how far they are. *)
Alike(p, q) ==
    /\ p.target = q.target /\ p.print = q.print /\ p.kind = q.kind
    /\ p.runout = q.runout /\ p.svc = q.svc /\ p.ret = q.ret /\ p.rebase = q.rebase
    /\ p.last = "restore" => q.last = "restore"

LEMMA CapturedFields ==
    ASSUME TypeOK, NEW q \in Requests
    PROVE  /\ Captured(q) \in Requests
           /\ Captured(q).target = q.target /\ Captured(q).print = q.print
           /\ Captured(q).kind = q.kind /\ Captured(q).runout = q.runout
           /\ Captured(q).last = q.last /\ Captured(q).svc = q.svc
           /\ q.print /\ q.ret = "none" =>
                  Captured(q).ret = head /\ (Captured(q).rebase <=> print # "paused")
           /\ ~(q.print /\ q.ret = "none") =>
                  Captured(q).ret = q.ret /\ Captured(q).rebase = q.rebase
<1>1. CASE q.print /\ q.ret = "none"
  <2>1. Captured(q) = [q EXCEPT !.ret = head, !.rebase = print # "paused"]
    BY <1>1 DEF Captured
  <2>. QED BY <1>1, <2>1, CapturedRequest DEF Requests
<1>2. CASE ~(q.print /\ q.ret = "none")
  <2>1. Captured(q) = q
    BY <1>2 DEF Captured
  <2>. QED BY <1>2, <2>1
<1>. QED BY <1>1, <1>2

LEMMA ServedFields ==
    ASSUME TypeOK, NEW q \in Requests
    PROVE  /\ Served(q) \in Requests
           /\ Served(q).target = q.target /\ Served(q).print = q.print
           /\ Served(q).kind = q.kind /\ Served(q).runout = q.runout
           /\ Served(q).last = q.last /\ Served(q).svc = TRUE
           /\ Served(q).ret = Captured(q).ret /\ Served(q).rebase = Captured(q).rebase
<1>1. Captured(q) \in Requests
  BY CapturedRequest
<1>. QED BY <1>1, CapturedFields, ServedRequest DEF Served, Requests

LEMMA CapturedOrigin ==
    ASSUME TypeOK, PrintRequest, Origin
    PROVE  OriginOf(Captured(pending), head, SavedBy(pending), pausePos)
<1>1. pending \in Requests
  BY DEF TypeOK
<1>2. pending.print => Running \/ print = "paused"
  BY DEF PrintRequest, Active, Running, TypeOK, Prints
<1>. QED BY <1>1, <1>2, CapturedFields DEF Origin, OriginOf, SavedBy, Running, TypeOK, Positions

LEMMA ServedOrigin ==
    ASSUME TypeOK, PrintRequest, Origin, HasPending
    PROVE  OriginOf(Served(pending), "service", SavedBy(pending), pausePos)
<1>1. pending \in Requests
  BY DEF TypeOK
<1>2. OriginOf(Captured(pending), head, SavedBy(pending), pausePos)
  BY CapturedOrigin
<1>3. Active => pending.print
  BY DEF PrintRequest
<1>4. pending.print => Captured(pending).ret # "none"
  BY <1>1, CapturedFields DEF Origin, OriginOf
<1>5. Running => Active
  BY DEF Running, Active
<1>6. print = "paused" => Active
  BY DEF Active
<1>. QED BY <1>1, <1>2, <1>3, <1>4, <1>5, <1>6, CapturedFields, ServedFields DEF OriginOf

(* A change that fails asks for a pause, which a runout does not wait for. *)
LEMMA FailsOrigin ==
    ASSUME TypeOK, NEW q \in Requests, NEW h \in Positions,
           OriginOf(q, h, savedPos', pausePos), q.print => Active, ChangeFails(q, h)
    PROVE  /\ Origin'
           /\ Running' => Running /\ head' = h
           /\ print' = "paused" => \/ print = "paused" /\ pausePos' = pausePos
                                   \/ Running /\ pausePos' = h
           /\ Active' <=> Active
<1>1. pending' = q
  BY DEF ChangeFails
<1>2. CASE ~q.print
  <2>1. head' = h /\ print' = print /\ pausePos' = pausePos
    BY <1>2 DEF ChangeFails
  <2>. QED BY <1>1, <1>2, <2>1 DEF Origin, OriginOf, Running, Active
<1>3. CASE q.print /\ op.cmd = "runout" /\ print # "paused"
  <2>1. print' = "paused" /\ pausePos' = h /\ head' = "park"
    BY <1>3 DEF ChangeFails
  <2>2. Running
    BY <1>3 DEF Active, Running, TypeOK, Prints
  <2>3. ~(q.svc /\ q.rebase) => h = "print"
    BY <1>3, <2>2 DEF OriginOf
  <2>. QED BY <1>1, <1>3, <2>1, <2>2, <2>3 DEF Origin, OriginOf, Running, Active
<1>4. CASE q.print /\ ~(op.cmd = "runout" /\ print # "paused")
  <2>1. print' = SoonPaused /\ head' = h /\ pausePos' = pausePos
    BY <1>4 DEF ChangeFails
  <2>2. print' = IF print = "printing" THEN "pausing" ELSE print
    BY <2>1 DEF SoonPaused
  <2>. QED BY <1>1, <1>4, <2>1, <2>2 DEF Origin, OriginOf, Running, Active
<1>. QED BY <1>2, <1>3, <1>4

LEMMA FailsStands ==
    ASSUME BlockedStands, NEW q, NEW h, ChangeFails(q, h)
    PROVE  BlockedStands'
<1>1. CASE q.print
  <2>1. print' # "printing"
    BY <1>1 DEF ChangeFails, SoonPaused
  <2>. QED BY <2>1 DEF BlockedStands
<1>2. CASE ~q.print
  BY <1>2 DEF ChangeFails, BlockedStands
<1>. QED BY <1>1, <1>2

(* Between commands a print that runs has no unfinished change. *)
LEMMA RunsAtPrint ==
    ASSUME Inv, ResumeInv, IsIdle, print = "printing"
    PROVE  head = "print" /\ ~pending.print
<1>1. Blocked
  BY DEF Inv, CommandPlaces, Blocks, Changes
<1>2. ~pending.print
  BY <1>1 DEF Blocked, ResumeInv, BlockedStands, PrintRequest
<1>. QED BY <1>2 DEF ResumeInv, Origin, OriginOf, Running

(***************************************************************************)
(* Around the engine.                                                      *)
(***************************************************************************)
LEMMA NoRequestOrigin ==
    /\ NoRequest.target = NoSlot /\ NoRequest.print = FALSE /\ NoRequest.kind = "normal"
    /\ NoRequest.runout = FALSE /\ NoRequest.last = "none" /\ NoRequest.svc = FALSE
    /\ NoRequest.ret = "none" /\ NoRequest.rebase = FALSE
BY DEF NoRequest

LEMMA ForgottenResume ==
    ASSUME CommandPlaces, IsIdle, op' = op, pending' = NoRequest, ~recovery'.on,
           head' # "none", print' \in {"none", "printing"},
           print' = "printing" => head' = "print"
    PROVE  ResumeInv'
<1>1. op'.cmd = "none" /\ op'.at = "idle"
  BY DEF CommandPlaces, IsIdle
<1>. QED BY <1>1, NoRequestOrigin
         DEF ResumeInv, PrintRequest, RunoutRequest, Origin, OriginOf, Returned,
             AtPrint, Running, BlockedStands, HasPending, Active, Changes

(* Nothing but the path, or the tracking of a command's faults, changes. *)
LEMMA KeptResume ==
    ASSUME ResumeInv, op'.at = op.at, op'.cmd = op.cmd,
           UNCHANGED <<pending, head, savedPos, pausePos>>,
           print' = print \/ (print = "printing" /\ print' = "pausing"),
           recovery'.on => recovery.on \/ print' # "printing"
    PROVE  ResumeInv'
<1>1. PrintRequest'
  BY DEF ResumeInv, PrintRequest, HasPending, Active
<1>2. RunoutRequest'
  BY DEF ResumeInv, RunoutRequest, Changes
<1>3. Origin'
  BY DEF ResumeInv, Origin, OriginOf, Running
<1>4. Returned'
  BY DEF ResumeInv, Returned, AtPrint, Running
<1>5. BlockedStands'
  BY DEF ResumeInv, BlockedStands
<1>. QED BY <1>1, <1>2, <1>3, <1>4, <1>5 DEF ResumeInv

LEMMA PauseResume ==
    ASSUME TypeOK, CommandPlaces, ResumeInv, Pause
    PROVE  ResumeInv'
<1>1. /\ op' = op /\ op.cmd = "none" /\ op.at = "idle" /\ print = "pausing"
      /\ print' = "paused" /\ pausePos' = head /\ head' = "park"
      /\ UNCHANGED <<pending, savedPos, recovery>>
  BY DEF Pause, CommandPlaces, IsIdle
<1>2. PrintRequest' /\ RunoutRequest' /\ BlockedStands'
  BY <1>1 DEF ResumeInv, PrintRequest, RunoutRequest, BlockedStands, HasPending, Active,
              Changes
<1>3. ~(pending.print /\ pending.svc /\ pending.rebase) => head = "print"
  BY <1>1 DEF ResumeInv, Origin, OriginOf, Running
<1>4. Origin'
  BY <1>1, <1>3 DEF ResumeInv, Origin, OriginOf, Running
<1>5. Returned'
  BY <1>1 DEF ResumeInv, Returned, AtPrint, Running
<1>. QED BY <1>2, <1>4, <1>5 DEF ResumeInv

LEMMA RunoutSwapResume ==
    ASSUME TypeOK, Inv, ResumeInv, NEW t \in Slots, RunoutSwap(t)
    PROVE  ResumeInv'
<1> DEFINE q == [NoRequest EXCEPT !.target = t, !.flush = TRUE, !.print = TRUE,
                                  !.kind = "runout", !.runout = TRUE,
                                  !.retracted = path.slot, !.cut = path.slot]
<1>1. /\ IsIdle /\ print = "printing" /\ UNCHANGED <<print, head, pausePos, recovery>>
      /\ pending' = Captured(q) /\ savedPos' = head
      /\ op'.at = "tail" /\ op'.cmd = "runout"
  BY BeginFields DEF RunoutSwap, RunsOut, printVars
<1>2. t \in AnySlot /\ path.slot \in AnySlot /\ t # NoSlot
  BY BoxAssumption DEF RunoutSwap, AnySlot
<1>3. /\ q \in Requests /\ q.target = t /\ q.print = TRUE /\ q.kind = "runout"
      /\ q.runout = TRUE /\ q.last = "none" /\ q.svc = FALSE /\ q.ret = "none"
  BY <1>2, NoRequestType, NoRequestOrigin DEF Requests
<1>. HIDE DEF q
<1>4. /\ pending'.target = t /\ pending'.print = TRUE /\ pending'.kind = "runout"
      /\ pending'.runout = TRUE /\ pending'.last = "none" /\ pending'.svc = FALSE
      /\ pending'.ret = head /\ pending'.rebase
  BY <1>1, <1>3, CapturedFields
<1>5. head = "print"
  BY <1>1, RunsAtPrint
<1>6. PrintRequest' /\ RunoutRequest'
  BY <1>1, <1>2, <1>4 DEF Restored, PrintRequest, RunoutRequest, HasPending, Active
<1>7. Origin' /\ Returned' /\ BlockedStands'
  BY <1>1, <1>4, <1>5 DEF Origin, OriginOf, Returned, AtPrint, Running, ResumeInv,
                          BlockedStands
<1>. QED BY <1>6, <1>7 DEF ResumeInv

LEMMA RunoutPausesResume ==
    ASSUME TypeOK, Inv, ResumeInv, RunoutPauses
    PROVE  ResumeInv'
<1>1. /\ IsIdle /\ print = "printing" /\ op' = op /\ UNCHANGED <<pending, savedPos>>
      /\ print' = "paused" /\ pausePos' = head /\ head' = "park"
  BY DEF RunoutPauses, RunsOut
<1>2. head = "print" /\ ~pending.print
  BY <1>1, RunsAtPrint
<1>3. op.cmd = "none"
  BY <1>1 DEF Inv, CommandPlaces
<1>4. PrintRequest' /\ RunoutRequest'
  BY <1>1, <1>2, <1>3 DEF ResumeInv, PrintRequest, RunoutRequest, HasPending, Active,
                          Changes
<1>5. Origin' /\ Returned' /\ BlockedStands'
  BY <1>1, <1>2 DEF Origin, OriginOf, Returned, AtPrint, Running, BlockedStands
<1>. QED BY <1>4, <1>5 DEF ResumeInv

LEMMA ResumeAround ==
    ASSUME TypeOK, Inv, ResumeInv, Around PROVE ResumeInv'
<1>0. CommandPlaces
  BY DEF Inv
<1>1. ASSUME PrintStart \/ PrintEnd PROVE ResumeInv'
  BY <1>0, <1>1, ForgottenResume DEF PrintStart, PrintEnd, ResetRecovery, NoRecovery
<1>2. ASSUME RequestPause \/ InsertExternal \/ PullExternal PROVE ResumeInv'
  BY <1>2, KeptResume DEF RequestPause, InsertExternal, PullExternal, printVars
<1>3. CASE Fault
  <2>1. /\ op'.at = op.at /\ op'.cmd = op.cmd
        /\ UNCHANGED <<pending, head, savedPos, pausePos>>
        /\ print' = SoonPaused
    BY <1>3 DEF Fault, TypeOK, Operations
  <2>. QED BY <2>1, KeptResume DEF SoonPaused
<1>4. CASE Clog
  BY <1>4, KeptResume DEF Clog
<1>. QED BY <1>0, <1>1, <1>2, <1>3, <1>4, PauseResume, RunoutSwapResume,
            RunoutPausesResume DEF Around

(***************************************************************************)
(* Commands.                                                               *)
(***************************************************************************)

(* A command that changes to t begins: what it makes of the request r keeps *)
(* its origin, or there was none to keep.                                   *)
LEMMA BegunResume ==
    ASSUME TypeOK, CommandPlaces, ResumeInv, IsIdle,
           NEW t \in AnySlot \ {NoSlot}, NEW f \in BOOLEAN, NEW r \in Requests,
           r = pending \/ (~HasPending /\ print = "paused" /\ r = Attended /\ t = External),
           pending' = RequestFor(r, t, f),
           UNCHANGED <<print, head, savedPos, pausePos, recovery>>,
           NEW cmd \in {"change", "resume"}, Begin("route", cmd, t),
           cmd = "resume" => print = "paused"
    PROVE  ResumeInv'
<1>1. /\ op'.at = "route" /\ op'.cmd = cmd
  BY BeginFields
<1>2. Attended.target = External /\ Attended.print = TRUE /\ Attended.svc = FALSE
      /\ Attended.ret = "none" /\ Attended.kind = "normal" /\ Attended.runout = FALSE
  BY NoRequestOrigin DEF Attended, NoRequest
<1>3. pending \in Requests
  BY DEF TypeOK
<1>4. /\ pending'.target = t
      /\ \/ /\ r = pending /\ HasPending
            /\ pending'.print = pending.print /\ pending'.svc = pending.svc
            /\ pending'.ret = pending.ret /\ pending'.rebase = pending.rebase
            /\ pending'.runout = pending.runout
            /\ \/ pending' = pending
               \/ pending'.kind = "normal" /\ pending'.last = "none"
         \/ /\ ~HasPending \/ ~pending.svc
            /\ (pending'.print <=> Active)
            /\ pending'.svc = FALSE /\ pending'.ret = "none"
            /\ pending'.kind = "normal" /\ pending'.runout = FALSE
  <2>1. CASE r.target = t
    <3>1. pending' = r
      BY <2>1 DEF RequestFor
    <3>2. CASE r = pending
      BY <2>1, <3>1, <3>2 DEF HasPending
    <3>3. CASE ~HasPending /\ print = "paused" /\ r = Attended /\ t = External
      BY <1>2, <2>1, <3>1, <3>3 DEF Active
    <3>. QED BY <3>2, <3>3
  <2>2. CASE r.target # t /\ Inherits(r, t)
    <3>1. pending' = [r EXCEPT !.target = t, !.flush = f, !.kind = "normal",
                               !.flushDone = FALSE, !.prepared = FALSE, !.last = "none"]
      BY <2>2 DEF RequestFor
    <3>2. r = pending /\ HasPending
      BY <1>2, <2>2 DEF Inherits, HasPending
    <3>. QED BY <1>3, <3>1, <3>2 DEF Requests
  <2>3. CASE r.target # t /\ ~Inherits(r, t)
    <3>1. pending' = [NoRequest EXCEPT !.target = t, !.flush = f, !.print = Active]
      BY <2>3 DEF RequestFor
    <3>2. /\ pending'.target = t /\ pending'.svc = FALSE /\ pending'.ret = "none"
          /\ pending'.kind = "normal" /\ pending'.runout = FALSE
          /\ (pending'.print <=> Active)
      BY <3>1, NoRequestType, NoRequestOrigin DEF Requests
    <3>3. ~HasPending \/ ~pending.svc
      BY <1>2, <2>3 DEF Inherits, HasPending
    <3>. QED BY <3>2, <3>3
  <2>. QED BY <2>1, <2>2, <2>3
<1>5. PrintRequest'
  BY <1>1, <1>4 DEF ResumeInv, PrintRequest, HasPending, Active
<1>6. RunoutRequest'
  BY <1>1, <1>4 DEF ResumeInv, RunoutRequest
<1>7. ~HasPending => ~pending.print
  BY DEF ResumeInv, PrintRequest
<1>8. Origin'
  BY <1>4, <1>7 DEF ResumeInv, Origin, OriginOf, Running
<1>9. Returned' /\ BlockedStands'
  BY <1>1, <1>4 DEF ResumeInv, Returned, BlockedStands, AtPrint, Running
<1>. QED BY <1>5, <1>6, <1>8, <1>9 DEF ResumeInv

(* A command that the user gives by hand begins. *)
LEMMA ByHandResume ==
    ASSUME ResumeInv, NEW cmd \in {"load", "unload", "manual"}, print \in {"none", "paused"},
           UNCHANGED <<pending, print, head, savedPos, pausePos, recovery>>,
           op'.cmd = cmd, op'.at # "finish"
    PROVE  ResumeInv'
BY DEF ResumeInv, PrintRequest, RunoutRequest, Origin, OriginOf, Returned, AtPrint, Running,
       BlockedStands, HasPending, Active, Changes

LEMMA ResumeCommands ==
    ASSUME TypeOK, Inv, ResumeInv, Commands PROVE ResumeInv'
<1>0. CommandPlaces /\ pending \in Requests /\ recovery.target \in AnySlot
      /\ Selectable \subseteq AnySlot \ {NoSlot}
  BY BoxAssumption DEF Inv, TypeOK, Recoveries, AnySlot
<1>1. ASSUME NEW t \in Selectable, NEW f \in BOOLEAN, Change(t, f) PROVE ResumeInv'
  BY <1>0, <1>1, BegunResume DEF Change, printVars
<1>2. ASSUME NEW t \in Selectable, Unreadable(t) PROVE ResumeInv'
  <2>1. /\ IsIdle /\ ChangeFails(pending, head) /\ UNCHANGED <<op, savedPos>>
        /\ head \in Positions
    BY <1>2 DEF Unreadable, TypeOK
  <2>2. op.cmd = "none" /\ pending' = pending
    BY <1>0, <2>1 DEF CommandPlaces, ChangeFails
  <2>3. /\ head' = head /\ pausePos' = pausePos
        /\ print' = print \/ (print = "printing" /\ print' = "pausing")
    BY <2>1, <2>2 DEF ChangeFails, SoonPaused
  <2>4. recovery'.on => recovery.on \/ print' # "printing"
    BY <2>1, FailsStands DEF ResumeInv, BlockedStands
  <2>. QED BY <2>1, <2>2, <2>3, <2>4, KeptResume
<1>3. ASSUME NEW t \in Selectable, BoxLoad(t) PROVE ResumeInv'
  <2>1. op'.cmd = "load" /\ op'.at = "load" /\ print \in {"none", "paused"}
    BY <1>3, BeginFields DEF BoxLoad, ByHand
  <2>. QED BY <1>3, <2>1, ByHandResume DEF BoxLoad, printVars
<1>4. ASSUME NEW cmd \in {"unload", "manual"}, BoxUnload(cmd) PROVE ResumeInv'
  <2>1. op'.cmd = cmd /\ op'.at # "finish" /\ print \in {"none", "paused"}
    BY <1>4, BeginFields, UnloadStepType DEF BoxUnload, ByHand
  <2>. QED BY <1>4, <2>1, ByHandResume DEF BoxUnload, printVars
<1>5. CASE UnloadNothing
  BY <1>5, KeptResume DEF UnloadNothing, printVars
<1>6. CASE Resume
  <2>1. /\ op'.at = "prime" /\ op'.cmd = "resume" /\ print = "paused"
        /\ UNCHANGED <<print, head, pausePos, savedPos, pending, recovery>>
    BY <1>6, BeginFields DEF Resume, printVars
  <2>. QED BY <2>1 DEF ResumeInv, PrintRequest, RunoutRequest, Origin, OriginOf, Returned,
                       AtPrint, Running, BlockedStands, HasPending, Active
<1>7. CASE ResumeRetries
  <2> DEFINE p == IF ~HasPending /\ recovery.target = External THEN Attended ELSE pending
  <2>1. Attended \in Requests
    BY NoRequestType DEF Attended, Requests, AnySlot, LastSteps
  <2>2. /\ IsIdle /\ print = "paused" /\ recovery.target # NoSlot
        /\ pending' = RequestFor(p, recovery.target, TRUE)
        /\ Begin("route", "resume", recovery.target)
        /\ UNCHANGED <<print, head, savedPos, pausePos, recovery>>
    BY <1>7 DEF ResumeRetries, printVars
  <2>3. p \in Requests
        /\ (p = pending \/ (~HasPending /\ p = Attended /\ recovery.target = External))
    BY <1>0, <2>1
  <2>. HIDE DEF p
  <2>. QED BY <1>0, <2>2, <2>3, BegunResume
<1>. QED BY <1>1, <1>2, <1>3, <1>4, <1>5, <1>6, <1>7 DEF Commands

(***************************************************************************)
(* The steps of a change.                                                  *)
(***************************************************************************)

(* Those that neither fail the change nor end it keep its request's origin, *)
(* or take it, and take the head to the service area only with it.          *)
KeepsRequest(q) == \E p \in Requests : pending' = p /\ Alike(p, q)

Kept     == KeepsRequest(pending) /\ UNCHANGED <<head, savedPos>>
Captures == KeepsRequest(Captured(pending)) /\ savedPos' = SavedBy(pending) /\ UNCHANGED head
Serves   == /\ Changes /\ KeepsRequest(Served(pending))
            /\ savedPos' = SavedBy(pending) /\ head' = "service"
Aside    == ~Changes /\ UNCHANGED <<pending, savedPos>> /\ head' = "service"

Ends == RouteAttend \/ Return \/ Finish \/ Prime \/ ResumeBase

LEMMA EngineAt ==
    ASSUME EngineStep, ~Ends
    PROVE  op.at \in {"route", "tail", "rexec", "retract", "cut", "unload", "pull",
                      "verify", "load", "insert", "commit", "flush", "final"}
<1>1. ASSUME RouteRunout \/ RouteReady \/ Route PROVE op.at = "route"
  BY <1>1, Zenon DEF RouteRunout, RouteReady, Route, At
<1>2. ASSUME Verify \/ LoadExternal \/ Inserted \/ FeedTail \/ Load \/ ExecuteRunout
      PROVE  op.at \in {"verify", "load", "insert", "tail", "rexec"}
  BY <1>2 DEF Verify, LoadExternal, Inserted, FeedTail, Load, ExecuteRunout, At
<1>3. ASSUME Retract \/ Cut \/ Unload \/ Pulled
      PROVE  op.at \in {"retract", "cut", "unload", "pull"}
  BY <1>3 DEF Retract, Cut, Unload, Pulled, At
<1>4. Commit => op.at = "commit"
  BY Zenon DEF Commit, At
<1>5. Flush => op.at = "flush"
  BY Zenon DEF Flush, At
<1>6. Final => op.at = "final"
  BY Zenon DEF Final, At
<1>. QED BY <1>1, <1>2, <1>3, <1>4, <1>5, <1>6 DEF EngineStep, Ends

LEMMA AlikeItself == ASSUME NEW q \in Requests PROVE Alike(q, q)
BY DEF Alike

LEMMA RecordsServed ==
    ASSUME NEW q \in Requests, Alike(q, Served(pending)), Records(q), head' = "service"
    PROVE  Serves \/ Aside
BY DEF Records, Serves, Aside, KeepsRequest

LEMMA EngineOrigin ==
    ASSUME TypeOK, CommandPlaces, EngineStep, ~Ends
    PROVE  /\ UNCHANGED <<print, pausePos, recovery>>
           /\ Kept \/ Captures \/ Serves \/ Aside
<1>0. pending \in Requests /\ Captured(pending) \in Requests /\ Served(pending) \in Requests
      /\ path.slot \in AnySlot
  BY CapturedFields, ServedFields DEF TypeOK, Paths
<1>1. ASSUME RouteReady \/ Verify \/ Inserted \/ ExecuteRunout
      PROVE  UNCHANGED <<print, pausePos, recovery>> /\ Kept
  BY <1>0, <1>1, AlikeItself
     DEF RouteReady, Verify, Inserted, ExecuteRunout, printVars, Kept, KeepsRequest
<1>2. CASE RouteRunout
  <2>1. UNCHANGED <<print, pausePos, recovery>>
    BY <1>2 DEF RouteRunout
  <2>2. \/ UNCHANGED <<pending, savedPos, head>>
        \/ /\ pending' = Served(pending) /\ savedPos' = SavedBy(pending)
           /\ head' = "service"
    BY <1>2 DEF RouteRunout
  <2>3. Changes
    BY <1>2, BoxAssumption
       DEF RouteRunout, At, CommandPlaces, IsIdle, Changes, TypeOK, Operations
  <2>. QED BY <1>0, <2>1, <2>2, <2>3, AlikeItself DEF Kept, Serves, KeepsRequest
<1>3. CASE Route
  <2>1. /\ UNCHANGED <<print, pausePos, recovery, head>>
        /\ pending' = Captured(pending) /\ savedPos' = SavedBy(pending)
    BY <1>3 DEF Route, printVars
  <2>. QED BY <1>0, <2>1, AlikeItself DEF Captures, KeepsRequest
<1>4. CASE Retract
  <2> DEFINE q == [Served(pending) EXCEPT
                     !.retracted = path.slot,
                     !.last = IF path.slot = External THEN @ ELSE "retract"]
  <2>1. Records(q) /\ head' = "service" /\ UNCHANGED <<print, pausePos, recovery>>
    BY <1>4 DEF Retract
  <2>2. q \in Requests /\ Alike(q, Served(pending))
    BY <1>0 DEF Requests, Alike, LastSteps
  <2>. HIDE DEF q
  <2>. QED BY <2>1, <2>2, RecordsServed
<1>5. CASE Cut
  <2> DEFINE q == [Served(pending) EXCEPT
                     !.cut = path.slot,
                     !.last = IF path.slot # External /\ Calibrated THEN "cut"
                                                                   ELSE @]
  <2>1. Records(q) /\ head' = "service" /\ UNCHANGED <<print, pausePos, recovery>>
    BY <1>5 DEF Cut
  <2>2. q \in Requests /\ Alike(q, Served(pending))
    BY <1>0 DEF Requests, Alike, LastSteps
  <2>. HIDE DEF q
  <2>. QED BY <2>1, <2>2, RecordsServed
<1>6. CASE Unload
  <2> DEFINE q == [Served(pending) EXCEPT !.last = "unload"]
             k == [pending EXCEPT !.last = "unload"]
  <2>1. /\ UNCHANGED <<print, pausePos, recovery>>
        /\ \/ Records(q) /\ head' = "service"
           \/ pending' = k /\ UNCHANGED <<head, savedPos>>
           \/ UNCHANGED <<pending, head, savedPos>>
    BY <1>6 DEF Unload
  <2>2. q \in Requests /\ Alike(q, Served(pending))
    BY <1>0 DEF Requests, Alike, LastSteps
  <2>3. k \in Requests /\ Alike(k, pending)
    BY <1>0 DEF Requests, Alike, LastSteps
  <2>. HIDE DEF q, k
  <2>. QED BY <1>0, <2>1, <2>2, <2>3, RecordsServed, AlikeItself DEF Kept, KeepsRequest
<1>7. CASE Pulled
  <2>1. /\ Records(Served(pending)) /\ head' = "service"
        /\ UNCHANGED <<print, pausePos, recovery>>
    BY <1>7 DEF Pulled
  <2>. QED BY <1>0, <2>1, RecordsServed, AlikeItself
<1>8. CASE Load
  <2> DEFINE q == [Served(pending) EXCEPT !.last = "load"]
             k == [pending EXCEPT !.last = "load"]
             served == pending.flush \/ pending.kind = "runout"
  <2>1. /\ UNCHANGED <<print, pausePos, recovery>>
        /\ \/ /\ Changes
              /\ pending' = [(IF served THEN Served(pending) ELSE pending)
                                 EXCEPT !.last = "load"]
              /\ savedPos' = IF served THEN SavedBy(pending) ELSE savedPos
              /\ head' = IF served THEN "service" ELSE head
           \/ UNCHANGED <<pending, head, savedPos>>
    BY <1>8 DEF Load
  <2>2. q \in Requests /\ Alike(q, Served(pending))
    BY <1>0 DEF Requests, Alike, LastSteps
  <2>3. k \in Requests /\ Alike(k, pending)
    BY <1>0 DEF Requests, Alike, LastSteps
  <2>4. \/ /\ Changes /\ pending' = q /\ savedPos' = SavedBy(pending)
           /\ head' = "service"
        \/ pending' = k /\ UNCHANGED <<head, savedPos>>
        \/ UNCHANGED <<pending, head, savedPos>>
    BY <2>1
  <2>. HIDE DEF q, k, served
  <2>. QED BY <1>0, <2>1, <2>2, <2>3, <2>4, AlikeItself DEF Kept, Serves, KeepsRequest
<1>9. CASE LoadExternal
  <2> DEFINE q == [Served(pending) EXCEPT !.last = "load"]
  <2>1. /\ pending' = q /\ savedPos' = SavedBy(pending) /\ head' = "service"
        /\ UNCHANGED <<print, pausePos, recovery>>
    BY <1>9 DEF LoadExternal
  <2>2. q \in Requests /\ Alike(q, Served(pending))
    BY <1>0 DEF Requests, Alike, LastSteps
  <2>3. op.at = "load" /\ op.target = External
    BY <1>9 DEF LoadExternal, At
  <2>4. Changes
    BY <2>3, BoxAssumption DEF CommandPlaces, IsIdle, Changes, TypeOK, Operations
  <2>. HIDE DEF q
  <2>. QED BY <2>1, <2>2, <2>4 DEF Serves, KeepsRequest
<1>10. CASE Commit
  <2> DEFINE k == [pending EXCEPT !.last = "flush"]
  <2>1. (pending' = k \/ pending' = pending)
        /\ UNCHANGED <<print, pausePos, recovery, head, savedPos>>
    BY <1>10 DEF Commit, printVars
  <2>2. k \in Requests /\ Alike(k, pending)
    BY <1>0 DEF Requests, Alike, LastSteps
  <2>. HIDE DEF k
  <2>. QED BY <1>0, <2>1, <2>2, AlikeItself DEF Kept, KeepsRequest
<1>11. CASE Flush
  <2>1. PICK did \in BOOLEAN :
          LET q == IF did THEN Served(pending) ELSE pending
              settles == q.kind = "normal" /\ q.print
          IN  /\ pending' = [q EXCEPT !.prepared = @ \/ did, !.flushDone = TRUE,
                                      !.last = IF settles THEN "final_temperature" ELSE @]
              /\ savedPos' = IF did THEN SavedBy(pending) ELSE savedPos
              /\ head' = IF did THEN "service" ELSE head
    BY <1>11, Zenon DEF Flush
  <2> DEFINE r == IF did THEN Served(pending) ELSE pending
             w == [r EXCEPT !.prepared = @ \/ did, !.flushDone = TRUE,
                            !.last = IF r.kind = "normal" /\ r.print
                                     THEN "final_temperature" ELSE @]
  <2>2. r \in Requests
    BY <1>0
  <2>3. pending' = w
    BY <2>1
  <2>4. w \in Requests /\ Alike(w, r)
    <3>. HIDE DEF r
    <3>. QED BY <2>2 DEF Requests, Alike, LastSteps
  <2>5. Changes /\ UNCHANGED <<print, pausePos, recovery>>
    BY <1>11 DEF Flush, At, CommandPlaces, IsIdle, Changes, TypeOK, Operations
  <2>6. KeepsRequest(r)
    BY <2>3, <2>4 DEF KeepsRequest
  <2>. HIDE DEF w
  <2>. QED BY <2>1, <2>5, <2>6 DEF Kept, Serves
<1>12. CASE Final
  <2>1. /\ UNCHANGED <<print, pausePos, recovery>>
        /\ \/ UNCHANGED <<pending, head, savedPos>>
           \/ /\ pending' = Served(pending) /\ savedPos' = SavedBy(pending)
              /\ head' = "service"
    BY <1>12 DEF Final
  <2>2. Changes
    BY <1>12 DEF Final, At, CommandPlaces, IsIdle, Changes, TypeOK, Operations
  <2>. QED BY <1>0, <2>1, <2>2, AlikeItself DEF Kept, Serves, KeepsRequest
<1>13. CASE FeedTail
  <2>1. /\ UNCHANGED <<print, pausePos, recovery>>
        /\ pending' = Served(pending) /\ savedPos' = SavedBy(pending)
        /\ head' = "service"
    BY <1>13 DEF FeedTail
  <2>2. Changes
    BY <1>13 DEF FeedTail, At, CommandPlaces, IsIdle, Changes, TypeOK, Operations
  <2>. QED BY <1>0, <2>1, <2>2, AlikeItself DEF Serves, KeepsRequest
<1>. QED BY <1>1, <1>2, <1>3, <1>4, <1>5, <1>6, <1>7, <1>8, <1>9, <1>10, <1>11, <1>12,
            <1>13 DEF EngineStep, Ends

(* Where they go: only a runout that was returned from goes on to the end. *)
LEMMA EngineGoes ==
    ASSUME TypeOK, CommandPlaces, RunoutRequest, EngineStep, ~Ends
    PROVE  /\ op'.cmd = op.cmd \/ op' = Idle
           /\ op'.at = "finish" => /\ pending.kind = "runout" /\ ~pending.runout
                                   /\ UNCHANGED <<pending, head>>
           /\ pending.kind = "runout" /\ ~pending.runout =>
                  ~Changes \/ (op'.at \in {"return", "finish"} /\ UNCHANGED <<pending, head>>)
           /\ Restored(pending) => ~Changes \/ op'.at \in {"return", "finish"}
<1>0. pending.kind \in {"normal", "runout"} /\ pending.runout \in BOOLEAN
  BY DEF TypeOK, Requests
<1>1. CASE RouteRunout
  <2>1. \/ pending.runout /\ pending.last # "restore" /\ op'.at = "rexec"
        \/ pending.runout /\ op'.at = "return"
        \/ ~pending.runout /\ op'.at = "finish" /\ UNCHANGED <<pending, head>>
    BY <1>0, <1>1, GotoFields DEF RouteRunout, Steps
  <2>2. op'.cmd = op.cmd /\ pending.kind = "runout"
    BY <1>1, GotoFields DEF RouteRunout, Steps
  <2>. QED BY <2>1, <2>2 DEF Restored
<1>2. ASSUME RouteReady \/ Route
      PROVE  /\ op'.cmd = op.cmd /\ op'.at # "finish" /\ pending.kind = "normal"
  <2>1. PICK step \in {"return", "commit", "load", "verify", "retract", "cut", "pull",
                       "unload"} : Goto(step)
    BY <1>2, UnloadStepType DEF RouteReady, Route
  <2>. QED BY <1>2, <2>1, GotoFields DEF RouteReady, Route, Steps
<1>3. ASSUME Verify \/ LoadExternal \/ Inserted \/ Commit \/ Flush \/ Final \/ FeedTail
             \/ Retract \/ Cut \/ Unload \/ Pulled \/ Load
      PROVE  /\ op'.cmd = op.cmd \/ op' = Idle
             /\ op'.at # "finish"
             /\ op.at \notin {"route", "return", "finish", "prime", "recheck"}
  <2>1. \/ op' = Idle
        \/ \E step \in {"return", "commit", "load", "insert", "verify", "retract", "cut",
                        "pull", "unload", "flush", "final", "rexec"} : Goto(step)
    <3>1. ASSUME Verify \/ LoadExternal \/ Inserted \/ FeedTail
          PROVE  \E step \in {"commit", "load", "insert", "rexec"} : Goto(step)
      BY <3>1 DEF Verify, LoadExternal, Inserted, FeedTail
    <3>2. ASSUME Commit \/ Flush \/ Final
          PROVE  \E step \in {"flush", "final", "return"} : Goto(step)
      <4>1. CASE Commit
        <5>1. \/ Goto("flush")
              \/ Goto("final")
              \/ Goto("return")
          BY <4>1 DEF Commit
        <5>. QED BY <5>1
      <4>2. CASE Flush
        <5>1. Goto("final") \/ Goto("return")
          BY <4>2 DEF Flush
        <5>. QED BY <5>1
      <4>3. CASE Final
        BY <4>3 DEF Final
      <4>. QED BY <3>2, <4>1, <4>2, <4>3
    <3>3. ASSUME Retract \/ Cut
          PROVE  \E step \in {"retract", "cut", "pull", "unload"} : Goto(step)
      BY <3>3, UnloadStepType DEF Retract, Cut
    <3>4. ASSUME Unload \/ Pulled \/ Load
          PROVE  op' = Idle \/ \E step \in {"verify", "commit"} : Goto(step)
      BY <3>4 DEF Unload, Pulled, Load
    <3>. QED BY <1>3, <3>1, <3>2, <3>3, <3>4
  <2>2. op.at \notin {"route", "return", "finish", "prime", "recheck"}
    <3>1. CASE Flush
      BY <3>1, Zenon DEF Flush, At
    <3>2. CASE ~Flush
      BY <1>3, <3>2 DEF Verify, LoadExternal, Inserted, Commit, Final, FeedTail, Retract,
                        Cut, Unload, Pulled, Load, At
    <3>. QED BY <3>1, <3>2
  <2>. QED BY <2>1, <2>2, GotoFields, IdleFields DEF Steps
<1>4. CASE ExecuteRunout
  <2>1. op'.cmd = op.cmd /\ op'.at # "finish"
    BY <1>4 DEF ExecuteRunout, TypeOK, Operations
  <2>2. op.at = "rexec"
    BY <1>4 DEF ExecuteRunout, At
  <2>. QED BY <2>1, <2>2 DEF RunoutRequest, Restored
<1>. QED BY <1>1, <1>2, <1>3, <1>4 DEF EngineStep, Ends, RunoutRequest, Restored

LEMMA OriginAlike ==
    ASSUME TypeOK, NEW p \in Requests, NEW q \in Requests, Alike(p, q),
           NEW h, NEW sp, NEW pp, OriginOf(q, h, sp, pp)
    PROVE  OriginOf(p, h, sp, pp)
BY DEF OriginOf, Alike

LEMMA EngineAlike ==
    ASSUME TypeOK, CommandPlaces, EngineStep, ~Ends
    PROVE  /\ pending'.target = pending.target /\ pending'.print = pending.print
           /\ pending'.kind = pending.kind /\ pending'.runout = pending.runout
           /\ pending'.last = "restore" => pending.last = "restore"
<1>1. pending \in Requests
  BY DEF TypeOK
<1>. QED BY <1>1, EngineOrigin, CapturedFields, ServedFields
         DEF Kept, Captures, Serves, Aside, KeepsRequest, Alike

LEMMA EngineResume ==
    ASSUME TypeOK, CommandPlaces, ResumeInv, EngineStep, ~Ends
    PROVE  ResumeInv'
<1>0. /\ pending \in Requests /\ Captured(pending) \in Requests
      /\ Served(pending) \in Requests
      /\ Alike(Captured(pending), Captured(pending)) /\ Alike(pending, pending)
  BY CapturedFields, ServedFields, AlikeItself DEF TypeOK
<1>1. /\ PrintRequest /\ RunoutRequest /\ Origin /\ Returned /\ BlockedStands
  BY DEF ResumeInv
<1>2. UNCHANGED <<print, pausePos, recovery>> /\ (Kept \/ Captures \/ Serves \/ Aside)
  BY EngineOrigin
<1>3. /\ op'.cmd = op.cmd \/ op' = Idle
      /\ op'.at = "finish" => /\ pending.kind = "runout" /\ ~pending.runout
                              /\ UNCHANGED <<pending, head>>
      /\ pending.kind = "runout" /\ ~pending.runout =>
             ~Changes \/ (op'.at \in {"return", "finish"} /\ UNCHANGED <<pending, head>>)
      /\ Restored(pending) => ~Changes \/ op'.at \in {"return", "finish"}
  BY <1>1, EngineGoes
<1>4. /\ pending'.target = pending.target /\ pending'.print = pending.print
      /\ pending'.kind = pending.kind /\ pending'.runout = pending.runout
      /\ pending'.last = "restore" => pending.last = "restore"
  BY EngineAlike
<1>5. ~Changes => op.cmd \in {"unload", "manual", "load"}
  BY EngineAt DEF Changes, CommandPlaces, IsIdle, TypeOK, Operations
<1>6. PrintRequest'
  BY <1>1, <1>2, <1>3, <1>4, IdleFields DEF PrintRequest, HasPending, Active
<1>7. RunoutRequest'
  BY <1>1, <1>3, <1>4, <1>5, IdleFields DEF RunoutRequest, Restored, Changes
<1>8. Origin'
  <2>1. CASE Kept
    <3>1. PICK p \in Requests : pending' = p /\ Alike(p, pending)
      BY <2>1 DEF Kept, KeepsRequest
    <3>2. OriginOf(p, head, savedPos, pausePos)
      BY <1>0, <1>1, <3>1, OriginAlike DEF Origin
    <3>. QED BY <1>2, <2>1, <3>1, <3>2 DEF Kept, Origin, OriginOf, Running
  <2>2. CASE Captures
    <3>1. PICK p \in Requests : pending' = p /\ Alike(p, Captured(pending))
      BY <2>2 DEF Captures, KeepsRequest
    <3>2. OriginOf(p, head, SavedBy(pending), pausePos)
      BY <1>0, <1>1, <3>1, OriginAlike, CapturedOrigin
    <3>. QED BY <1>2, <2>2, <3>1, <3>2 DEF Captures, Origin, OriginOf, Running
  <2>3. CASE Serves
    <3>1. PICK p \in Requests : pending' = p /\ Alike(p, Served(pending))
      BY <2>3 DEF Serves, KeepsRequest
    <3>2. HasPending
      <4>1. op.at \notin {"prime", "recheck"}
        BY EngineAt
      <4>. QED BY <2>3, <4>1 DEF Serves, CommandPlaces
    <3>3. OriginOf(p, "service", SavedBy(pending), pausePos)
      BY <1>0, <1>1, <3>1, <3>2, OriginAlike, ServedOrigin
    <3>. QED BY <1>2, <2>3, <3>1, <3>3 DEF Serves, Origin, OriginOf, Running
  <2>4. CASE Aside
    <3>1. ~Running
      BY <1>1, <1>5, <2>4 DEF Aside, PrintRequest, Running
    <3>. QED BY <1>1, <1>2, <2>4, <3>1 DEF Aside, Origin, OriginOf, Running
  <2>. QED BY <1>2, <2>1, <2>2, <2>3, <2>4
<1>9. Returned'
  <2>1. CASE pending.kind = "runout" /\ ~pending.runout /\ UNCHANGED <<pending, head>>
    BY <1>1, <1>2, <2>1 DEF Returned, AtPrint, Running
  <2>2. CASE pending.kind = "runout" /\ ~pending.runout /\ ~Changes
    <3>1. print' = print /\ pausePos' = pausePos /\ AtPrint
      BY <1>1, <1>2, <2>2 DEF Returned
    <3>2. head' = head \/ ~Running
      <4>1. CASE Aside
        BY <1>1, <1>5, <2>2 DEF PrintRequest, Running
      <4>2. CASE Kept \/ Captures
        BY <4>2 DEF Kept, Captures
      <4>. QED BY <1>2, <2>2, <4>1, <4>2 DEF Serves
    <3>. QED BY <3>1, <3>2 DEF Returned, AtPrint, Running
  <2>3. CASE ~(pending.kind = "runout" /\ ~pending.runout)
    BY <1>3, <1>4, <2>3 DEF Returned
  <2>. QED BY <1>3, <2>1, <2>2, <2>3
<1>10. BlockedStands'
  BY <1>1, <1>2 DEF BlockedStands
<1>. QED BY <1>6, <1>7, <1>8, <1>9, <1>10 DEF ResumeInv

LEMMA RouteAttendResume ==
    ASSUME TypeOK, Inv, ResumeInv, RouteAttend
    PROVE  ResumeInv'
<1> DEFINE q == [Captured(pending) EXCEPT !.last = "attendance"]
<1>1. /\ op.at = "route" /\ ChangeFails(q, head) /\ savedPos' = SavedBy(pending)
      /\ op' = Idle
  BY DEF RouteAttend, At
<1>2. pending \in Requests /\ Captured(pending) \in Requests /\ head \in Positions
  BY CapturedFields DEF TypeOK
<1>3. q \in Requests /\ Alike(q, Captured(pending))
  BY <1>2 DEF Requests, Alike, LastSteps
<1>4. OriginOf(q, head, SavedBy(pending), pausePos)
  BY <1>2, <1>3, CapturedOrigin, OriginAlike DEF ResumeInv
<1>5. /\ q.target = pending.target /\ q.print = pending.print /\ q.kind = pending.kind
      /\ q.runout = pending.runout /\ (q.last = "restore" => pending.last = "restore")
  BY <1>2, <1>3, CapturedFields DEF Alike
<1>. HIDE DEF q
<1>6. pending' = q
  BY <1>1 DEF ChangeFails
<1>7. OriginOf(q, head, savedPos', pausePos)
  BY <1>1, <1>4
<1>8. /\ Origin' /\ (Active' <=> Active)
      /\ Running' => Running /\ head' = head
      /\ print' = "paused" => \/ print = "paused" /\ pausePos' = pausePos
                              \/ Running /\ pausePos' = head
  BY <1>1, <1>2, <1>3, <1>4, <1>5, <1>7, FailsOrigin DEF ResumeInv, PrintRequest
<1>9. PrintRequest' /\ RunoutRequest'
  BY <1>1, <1>5, <1>6, <1>8, IdleFields
     DEF ResumeInv, PrintRequest, RunoutRequest, HasPending, Changes
<1>10. Returned'
  BY <1>1, <1>5, <1>6, <1>8, IdleFields DEF ResumeInv, Returned, AtPrint
<1>11. BlockedStands'
  BY <1>1, FailsStands DEF ResumeInv
<1>. QED BY <1>8, <1>9, <1>10, <1>11 DEF ResumeInv

LEMMA ReturnResume ==
    ASSUME TypeOK, Inv, ResumeInv, Return
    PROVE  ResumeInv'
<1> DEFINE back == pending.ret # "none" /\ pending.svc
<1>1. /\ op.at = "return" /\ op'.at = "finish" /\ op'.cmd = op.cmd
      /\ head' = IF back /\ print # "paused" THEN pending.ret ELSE head
      /\ pausePos' = IF back /\ print = "paused" /\ pending.rebase THEN savedPos
                                                                   ELSE pausePos
      /\ UNCHANGED <<print, savedPos, recovery>>
  BY GotoFields DEF Return, Steps
<1>2. /\ pending'.target = pending.target /\ pending'.print = pending.print
      /\ pending'.kind = pending.kind /\ pending'.runout = FALSE
      /\ pending'.svc = pending.svc /\ pending'.ret = pending.ret
      /\ pending'.rebase = pending.rebase
  BY DEF Return, TypeOK, Requests
<1>3. PrintRequest' /\ RunoutRequest' /\ BlockedStands'
  BY <1>1, <1>2 DEF ResumeInv, PrintRequest, RunoutRequest, BlockedStands, HasPending,
                    Active, Changes
<1>4. HasPending
  BY <1>1 DEF Inv, CommandPlaces, IsIdle, Changes, TypeOK, Operations
<1>5. Active => pending.print
  BY <1>4 DEF ResumeInv, PrintRequest
<1>6. AtPrint' /\ head' # "none"
  BY <1>1, <1>5 DEF ResumeInv, Origin, OriginOf, AtPrint, Running, Active
<1>7. Origin'
  BY <1>1, <1>2, <1>6 DEF ResumeInv, Origin, OriginOf, AtPrint, Running
<1>. QED BY <1>3, <1>6, <1>7 DEF ResumeInv, Returned

LEMMA FinishResume ==
    ASSUME TypeOK, Inv, ResumeInv, Finish
    PROVE  ResumeInv'
<1>1. /\ op.at = "finish" /\ pending' = NoRequest /\ recovery' = NoRecovery
      /\ UNCHANGED <<print, head, pausePos, savedPos>>
      /\ op' = Idle \/ (op'.at = "prime" /\ op'.cmd = "resume" /\ op.cmd = "resume")
  BY GotoFields DEF Finish, At, printVars, Steps
<1>2. AtPrint /\ head # "none"
  BY <1>1 DEF ResumeInv, Returned, Origin, OriginOf
<1>3. op.cmd = "resume" => print = "paused"
  BY DEF ResumeInv, PrintRequest
<1>. QED BY <1>1, <1>2, <1>3, NoRequestOrigin, IdleFields
         DEF Restored, ResumeInv, PrintRequest, RunoutRequest, Origin, OriginOf, Returned, AtPrint,
             Running, BlockedStands, NoRecovery, HasPending, Active

LEMMA PrimeResume ==
    ASSUME TypeOK, Inv, ResumeInv, Prime
    PROVE  ResumeInv'
<1>1. /\ op.at = "prime" /\ op'.at = "recheck" /\ op'.cmd = op.cmd /\ head' = "service"
      /\ UNCHANGED <<print, pausePos, savedPos, pending, recovery>>
  BY GotoFields DEF Prime, At, Steps
<1>2. op.cmd = "resume" /\ print = "paused"
  BY <1>1 DEF Inv, CommandPlaces, ResumeInv, PrintRequest
<1>. QED BY <1>1, <1>2
         DEF ResumeInv, PrintRequest, RunoutRequest, Origin, OriginOf, Returned, AtPrint,
             Running, BlockedStands, HasPending, Active

(* RESUME lets the print go on only when no change of it is unfinished. *)
LEMMA ResumeBaseResume ==
    ASSUME TypeOK, Inv, ResumeInv, ResumeBase
    PROVE  ResumeInv'
<1>1. /\ op.at = "recheck" /\ ~recovery.on /\ print' = "printing" /\ head' = pausePos
      /\ op' = Idle /\ UNCHANGED <<pausePos, savedPos, pending, recovery>>
  BY DEF ResumeBase
<1>2. print = "paused"
  BY <1>1 DEF Inv, CommandPlaces, ResumeInv, PrintRequest
<1>3. ~pending.print
  BY <1>1 DEF Inv, Blocks, Blocked, ResumeInv, PrintRequest
<1>4. ~HasPending
  BY <1>2, <1>3 DEF ResumeInv, PrintRequest, Active
<1>5. pausePos = "print"
  BY <1>2, <1>3 DEF ResumeInv, Origin, OriginOf
<1>6. pending.kind # "runout"
  BY <1>3 DEF ResumeInv, RunoutRequest
<1>. QED BY <1>1, <1>3, <1>4, <1>5, <1>6, IdleFields
         DEF ResumeInv, PrintRequest, RunoutRequest, Origin, OriginOf, Returned, AtPrint,
             Running, BlockedStands, HasPending, Active, Changes

(* Wherever a step fails, what the request knows of its origin still leads *)
(* back to the print.                                                      *)
LEMMA FailingResume ==
    ASSUME TypeOK, Inv, ResumeInv, StepFails
    PROVE  ResumeInv'
<1>1. PICK h \in HeadsAfterFailure, last \in LastAfterFailure :
          /\ IF Changes /\ op.at \notin {"prime", "recheck"}
             THEN /\ ChangeFails(Failed(h, last), h)
                  /\ savedPos' = IF h = "service" THEN SavedBy(pending) ELSE savedPos
             ELSE CommandFails(h) /\ UNCHANGED savedPos
  BY DEF StepFails
<1>2. op' = Idle /\ ~IsIdle
  BY DEF StepFails
<1>3. pending \in Requests /\ Served(pending) \in Requests /\ pending.ret \in Positions
  BY ServedFields DEF TypeOK, Requests
<1>4. h \in Positions
  BY <1>3 DEF HeadsAfterFailure, TypeOK, Positions
<1>5. CASE Changes /\ op.at \notin {"prime", "recheck"}
  <2> DEFINE q == Failed(h, last)
             sp == IF h = "service" THEN SavedBy(pending) ELSE savedPos
  <2>1. ChangeFails(q, h) /\ savedPos' = sp
    BY <1>1, <1>5
  <2>2. /\ q \in Requests /\ q.target = pending.target /\ q.print = pending.print
        /\ q.kind = pending.kind /\ q.runout = pending.runout
        /\ q.last \in LastAfterFailure
    BY FailedFields
  <2>3. HasPending
    BY <1>5 DEF Inv, CommandPlaces
  <2>4. h = head \/ h = "service"
        \/ (h = pending.ret /\ op.at = "return" /\ print # "paused" /\ h # "none")
    BY DEF HeadsAfterFailure
  <2>5. ASSUME h # "service", h # head
        PROVE  h # "none" /\ (Running => h = "print")
    <3>1. h = pending.ret /\ print # "paused" /\ h # "none"
      BY <2>4, <2>5
    <3>2. Running => pending.print
      BY <2>3 DEF ResumeInv, PrintRequest, Running, Active
    <3>. QED BY <3>1, <3>2 DEF ResumeInv, Origin, OriginOf
  <2>6. OriginOf(q, h, sp, pausePos)
    <3>1. CASE h = "service"
      <4>1. OriginOf(Served(pending), h, SavedBy(pending), pausePos)
        BY <2>3, <3>1, ServedOrigin DEF ResumeInv
      <4>2. Served(pending).print = pending.print
        BY <1>3, ServedFields
      <4>. QED BY <2>2, <3>1, <4>1, <4>2, FailedFields DEF OriginOf
    <3>2. CASE h # "service"
      BY <2>2, <2>5, <3>2, FailedFields DEF ResumeInv, Origin, OriginOf
    <3>. QED BY <3>1, <3>2
  <2>7. q.print => Active
    BY <2>2 DEF ResumeInv, PrintRequest
  <2>8. pending.kind = "runout" /\ ~pending.runout => (Running => h = "print")
    <3>1. ASSUME pending.kind = "runout", ~pending.runout, Running PROVE h = "print"
      <4>1. op.at \in {"route", "return", "finish"} /\ head = "print"
        BY <1>5, <3>1 DEF ResumeInv, RunoutRequest, Restored, Returned, AtPrint
      <4>2. h = head \/ h = pending.ret
        BY <4>1 DEF HeadsAfterFailure, Serving
      <4>3. h = pending.ret /\ h # head => print # "paused" /\ h # "none"
        BY <4>1 DEF HeadsAfterFailure, Serving
      <4>4. pending.print
        BY <2>3, <3>1 DEF ResumeInv, PrintRequest, Running, Active
      <4>. QED BY <4>1, <4>2, <4>3, <4>4 DEF ResumeInv, Origin, OriginOf
    <3>. QED BY <3>1
  <2>. HIDE DEF q, sp
  <2>9. OriginOf(q, h, savedPos', pausePos)
    BY <2>1, <2>6
  <2>10. /\ Origin' /\ (Active' <=> Active)
         /\ Running' => Running /\ head' = h
         /\ print' = "paused" => \/ print = "paused" /\ pausePos' = pausePos
                                 \/ Running /\ pausePos' = h
    BY <1>4, <2>1, <2>2, <2>7, <2>9, FailsOrigin
  <2>11. pending' = q
    BY <2>1 DEF ChangeFails
  <2>12. PrintRequest' /\ RunoutRequest'
    BY <1>2, <2>2, <2>10, <2>11, IdleFields
       DEF ResumeInv, PrintRequest, RunoutRequest, HasPending, Changes
  <2>13. Returned'
    BY <1>2, <2>2, <2>8, <2>10, <2>11, IdleFields DEF ResumeInv, Returned, AtPrint
  <2>14. BlockedStands'
    BY <2>1, FailsStands DEF ResumeInv
  <2>. QED BY <2>10, <2>12, <2>13, <2>14 DEF ResumeInv
<1>6. CASE ~(Changes /\ op.at \notin {"prime", "recheck"})
  <2>1. /\ head' = h /\ UNCHANGED <<print, pausePos, pending, recovery, savedPos>>
    BY <1>1, <1>6 DEF CommandFails
  <2>2. print \in {"none", "paused"}
    BY <1>2, <1>6 DEF Inv, CommandPlaces, Changes, ResumeInv, PrintRequest, TypeOK, Operations
  <2>3. h # "none"
    BY DEF HeadsAfterFailure, ResumeInv, Origin, OriginOf
  <2>. QED BY <1>2, <2>1, <2>2, <2>3, IdleFields
           DEF ResumeInv, PrintRequest, RunoutRequest, Origin, OriginOf, Returned, AtPrint,
               Running, BlockedStands, HasPending, Active, Changes
<1>. QED BY <1>5, <1>6

LEMMA ResumeStep == TypeOK /\ Inv /\ ResumeInv /\ [Next]_vars => ResumeInv'
<1>. SUFFICES ASSUME TypeOK, Inv, ResumeInv, [Next]_vars PROVE ResumeInv'
  OBVIOUS
<1>1. CASE EngineStep
  <2>1. CASE ~Ends
    BY <1>1, <2>1, EngineResume DEF Inv
  <2>2. CASE Ends
    BY <2>2, RouteAttendResume, ReturnResume, FinishResume, PrimeResume, ResumeBaseResume
       DEF Ends
  <2>. QED BY <2>1, <2>2
<1>2. CASE UNCHANGED vars
  BY <1>2, KeptResume DEF vars
<1>. QED BY <1>1, <1>2, ResumeAround, ResumeCommands, FailingResume DEF Next

LEMMA ResumeInit == Init => ResumeInv
BY NoRequestOrigin, IdleFields
   DEF Init, ResumeInv, PrintRequest, RunoutRequest, Origin, OriginOf, Returned, AtPrint,
       Running, BlockedStands, NoRecovery, HasPending, Active, Changes

LEMMA ResumeInductive == Spec => []ResumeInv
<1>. QED BY ResumeInit, ResumeStep, Inductive, TypeCorrect, PTL DEF Spec

(* Through failures, retries by command or by RESUME, changes of target,   *)
(* pauses in the middle and runouts, for any slots and steps, the print    *)
(* never goes on elsewhere than where it was left.                         *)
THEOREM ResumesAtPrint == Spec => []ResumeAtPrint
<1>1. Inv /\ ResumeInv => ResumeAtPrint
  BY RunsAtPrint DEF ResumeAtPrint
<1>. QED BY <1>1, Inductive, ResumeInductive, PTL

-----------------------------------------------------------------------------
(* What is loaded when a change ends.                                      *)

Late == {"commit", "flush", "final", "return", "finish"}

(* The request names the command's target, what a change read when it began *)
(* is still so, and once it has found its target loaded that stays.        *)
TargetLoaded ==
    /\ path.slot = NoSlot => ~path.seen
    /\ Changes /\ op.at \notin {"prime", "recheck"} => op.target = pending.target
    /\ op.at = "route" /\ op.live.seen => path.slot = op.live.slot /\ path.seen
    /\ op.at = "insert" => op.target = External /\ path.slot \in {NoSlot, External}
    /\ op.at \in Late => path.slot = op.target /\ path.seen

(* A runout that has only to return has its target loaded, and nobody      *)
(* takes it out again by hand.                                             *)
RunoutLoaded ==
    /\ op.cmd \notin {"unload", "manual"}
    /\ Restored(pending) =>
           path.slot = pending.target /\ path.seen

LoadedInv == TargetLoaded /\ RunoutLoaded

LEMMA PathFields ==
    /\ Gone.slot = NoSlot /\ ~Gone.seen
    /\ \A s, t : Loaded(s, t).slot = s /\ Loaded(s, t).seen
BY DEF Gone, Loaded

(* The path is the same but for its tracking, and the command stays. *)
LEMMA SamePlaceLoaded ==
    ASSUME LoadedInv, path'.slot = path.slot, path'.seen = path.seen,
           op'.at = op.at, op'.cmd = op.cmd, op'.target = op.target, op'.live = op.live,
           \/ pending' = pending
           \/ pending' = NoRequest /\ op.cmd = "none"
    PROVE  LoadedInv'
BY NoRequestOrigin DEF Restored, LoadedInv, TargetLoaded, RunoutLoaded, Late, Changes

LEMMA TailsOut ==
    ASSUME TypeOK, NEW p \in Tails PROVE ~p.seen
<1>1. [path EXCEPT !.seen = FALSE].seen = FALSE
  BY DEF TypeOK, Paths
<1>. QED BY <1>1, PathFields DEF Tails

LEMMA LoadedAround ==
    ASSUME TypeOK, Inv, ResumeInv, LoadedInv, Around PROVE LoadedInv'
<1>0. CommandPlaces
  BY DEF Inv
<1>1. ASSUME PrintStart \/ PrintEnd PROVE LoadedInv'
  <2>1. IsIdle /\ pending' = NoRequest /\ UNCHANGED <<path, op>>
    BY <1>1 DEF PrintStart, PrintEnd, ResetRecovery
  <2>. QED BY <1>0, <2>1, SamePlaceLoaded DEF CommandPlaces
<1>2. ASSUME RequestPause \/ Pause \/ Clog PROVE LoadedInv'
  BY <1>2, SamePlaceLoaded DEF RequestPause, Pause, Clog
<1>3. CASE Fault
  <2>1. /\ path'.slot = path.slot /\ path'.seen = path.seen /\ pending' = pending
        /\ op'.at = op.at /\ op'.cmd = op.cmd /\ op'.target = op.target
        /\ op'.live = op.live
    BY <1>3 DEF Fault, TypeOK, Paths, Operations
  <2>. QED BY <2>1, SamePlaceLoaded
<1>4. CASE InsertExternal
  <2>1. ~path.seen /\ path'.slot = External /\ UNCHANGED <<op, pending>>
    BY <1>4, PathFields DEF InsertExternal
  <2>. QED BY <2>1, BoxAssumption DEF LoadedInv, TargetLoaded, RunoutLoaded, Changes
<1>5. CASE PullExternal
  <2>1. op.at = "pull" /\ path' = Gone /\ UNCHANGED <<op, pending>>
    BY <1>5 DEF PullExternal
  <2>2. Changes
    BY <1>0, <2>1 DEF LoadedInv, RunoutLoaded, CommandPlaces, IsIdle, Changes, TypeOK,
                      Operations
  <2>3. ~Restored(pending)
    BY <2>1, <2>2 DEF ResumeInv, RunoutRequest
  <2>. QED BY <2>1, <2>3, PathFields DEF LoadedInv, TargetLoaded, RunoutLoaded, Late, Changes
<1>6. ASSUME NEW t \in Slots, RunoutSwap(t) PROVE LoadedInv'
  <2> DEFINE q == [NoRequest EXCEPT !.target = t, !.flush = TRUE, !.print = TRUE,
                                    !.kind = "runout", !.runout = TRUE,
                                    !.retracted = path.slot, !.cut = path.slot]
  <2>1. t \in AnySlot /\ path.slot \in AnySlot
    BY <1>6 DEF RunoutSwap, AnySlot
  <2>2. q \in Requests /\ q.target = t /\ q.runout /\ q.last = "none"
    BY <2>1, NoRequestType, NoRequestOrigin DEF Requests
  <2>3. pending' = Captured(q) /\ path' \in Tails
    BY <1>6 DEF RunoutSwap, RunsOut
  <2>. HIDE DEF q
  <2>4. pending'.target = t /\ pending'.runout /\ pending'.last = "none"
    BY <2>2, <2>3, CapturedFields
  <2>5. op'.at = "tail" /\ op'.cmd = "runout" /\ op'.target = t
    BY <1>6, BeginFields DEF RunoutSwap
  <2>6. ~path'.seen
    BY <2>3, TailsOut
  <2>. QED BY <2>4, <2>5, <2>6 DEF Restored, LoadedInv, TargetLoaded, RunoutLoaded, Late
<1>7. CASE RunoutPauses
  <2>1. /\ IsIdle /\ print = "printing" /\ path' \in Tails
        /\ UNCHANGED <<op, pending>>
    BY <1>7 DEF RunoutPauses, RunsOut
  <2>2. ~pending.print
    BY <2>1, RunsAtPrint
  <2>3. pending.kind # "runout"
    BY <2>2 DEF ResumeInv, RunoutRequest
  <2>4. ~path'.seen /\ op.at = "idle"
    BY <2>1, TailsOut DEF IsIdle
  <2>5. op.cmd = "none"
    BY <1>0, <2>1 DEF CommandPlaces
  <2>. QED BY <2>1, <2>3, <2>4, <2>5
           DEF Restored, LoadedInv, TargetLoaded, RunoutLoaded, Late, Changes
<1>. QED BY <1>1, <1>2, <1>3, <1>4, <1>5, <1>6, <1>7 DEF Around

LEMMA BegunLoaded ==
    ASSUME TypeOK, LoadedInv, NEW t \in AnySlot, NEW f \in BOOLEAN, NEW r \in Requests,
           r = pending \/ (r.kind = "normal"),
           pending' = RequestFor(r, t, f), path' = path,
           NEW cmd \in {"change", "resume"}, Begin("route", cmd, t)
    PROVE  LoadedInv'
<1>1. /\ op'.at = "route" /\ op'.cmd = cmd /\ op'.target = t /\ op'.live = path
  BY BeginFields
<1>2. /\ pending'.target = t
      /\ pending' = pending \/ pending'.kind = "normal"
  <2>1. CASE r.target = t
    BY <2>1 DEF RequestFor
  <2>2. CASE r.target # t /\ Inherits(r, t)
    BY <2>2 DEF RequestFor, Requests
  <2>3. CASE r.target # t /\ ~Inherits(r, t)
    <3>1. pending' = [NoRequest EXCEPT !.target = t, !.flush = f, !.print = Active]
      BY <2>3 DEF RequestFor
    <3>. QED BY <3>1, NoRequestType, NoRequestOrigin DEF Requests
  <2>. QED BY <2>1, <2>2, <2>3
<1>. QED BY <1>1, <1>2 DEF Restored, LoadedInv, TargetLoaded, RunoutLoaded, Late

LEMMA LoadedCommands ==
    ASSUME "unload" \notin Manual, TypeOK, Inv, ResumeInv, LoadedInv, Commands
    PROVE  LoadedInv'
<1>0. CommandPlaces /\ pending \in Requests /\ recovery.target \in AnySlot
      /\ Selectable \subseteq AnySlot
  BY BoxAssumption DEF Inv, TypeOK, Recoveries, AnySlot
<1>1. ASSUME NEW t \in Selectable, NEW f \in BOOLEAN, Change(t, f) PROVE LoadedInv'
  BY <1>0, <1>1, BegunLoaded DEF Change
<1>2. ASSUME NEW t \in Selectable, Unreadable(t) PROVE LoadedInv'
  BY <1>2, SamePlaceLoaded DEF Unreadable, ChangeFails
<1>3. ASSUME NEW t \in Selectable, BoxLoad(t) PROVE LoadedInv'
  <2>1. op'.cmd = "load" /\ op'.at = "load" /\ UNCHANGED <<path, pending>>
    BY <1>3, BeginFields DEF BoxLoad
  <2>. QED BY <2>1 DEF LoadedInv, TargetLoaded, RunoutLoaded, Late, Changes
<1>4. ASSUME NEW cmd \in {"unload", "manual"} PROVE ~BoxUnload(cmd) /\ ~UnloadNothing
  BY DEF BoxUnload, UnloadNothing, ByHand
<1>5. CASE Resume
  <2>1. op'.cmd = "resume" /\ op'.at = "prime" /\ UNCHANGED <<path, pending>>
    BY <1>5, BeginFields DEF Resume
  <2>. QED BY <2>1 DEF LoadedInv, TargetLoaded, RunoutLoaded, Late, Changes
<1>6. CASE ResumeRetries
  <2> DEFINE p == IF ~HasPending /\ recovery.target = External THEN Attended ELSE pending
  <2>1. Attended \in Requests /\ Attended.kind = "normal"
    BY NoRequestType DEF Attended, Requests, AnySlot, LastSteps, NoRequest
  <2>2. /\ pending' = RequestFor(p, recovery.target, TRUE) /\ path' = path
        /\ Begin("route", "resume", recovery.target)
    BY <1>6 DEF ResumeRetries
  <2>3. p \in Requests /\ (p = pending \/ p.kind = "normal")
    BY <1>0, <2>1
  <2>. HIDE DEF p
  <2>. QED BY <1>0, <2>2, <2>3, BegunLoaded
<1>. QED BY <1>1, <1>2, <1>3, <1>4, <1>5, <1>6 DEF Commands

(* A step of a change from a place where its runout, if it is one, is still *)
(* to be returned from.                                                     *)
LEMMA MovedLoaded ==
    ASSUME TypeOK, CommandPlaces, RunoutRequest, LoadedInv, EngineStep, ~Ends, Changes,
           op.at # "route", NEW step \in Steps \ {"idle", "route", "prime", "recheck"},
           op'.at = step, op'.cmd = op.cmd, op'.target = op.target,
           path'.slot = NoSlot => ~path'.seen,
           step = "insert" => op.target = External /\ path'.slot \in {NoSlot, External},
           step \in Late => path'.slot = op.target /\ path'.seen
    PROVE  LoadedInv'
<1>1. /\ pending'.target = pending.target /\ pending'.kind = pending.kind
      /\ pending'.runout = pending.runout
      /\ pending'.last = "restore" => pending.last = "restore"
  BY EngineAlike
<1>2. op.at \notin {"route", "return", "finish", "prime", "recheck"}
  BY EngineAt
<1>3. ~Restored(pending)
  BY <1>2 DEF RunoutRequest
<1>. QED BY <1>1, <1>2, <1>3 DEF Restored, LoadedInv, TargetLoaded, RunoutLoaded, Changes

(* Where a change has found its target, or has not and goes on. *)
LEMMA RouteLoaded ==
    ASSUME TypeOK, CommandPlaces, RunoutRequest, LoadedInv, RouteRunout \/ RouteReady \/ Route
    PROVE  LoadedInv'
<1>0. /\ op.at = "route" /\ EngineStep /\ ~Ends
  BY DEF RouteRunout, RouteReady, Route, At, EngineStep, Ends, RouteAttend, Return, Finish,
         Prime, ResumeBase
<1>1. /\ pending'.target = pending.target /\ pending'.kind = pending.kind
      /\ pending'.runout = pending.runout
      /\ pending'.last = "restore" => pending.last = "restore"
  BY <1>0, EngineAlike
<1>2. Changes
  BY <1>0 DEF CommandPlaces, IsIdle, Changes, TypeOK, Operations
<1>3. TargetReady(op.target, op.live) => path.slot = op.target /\ path.seen
  BY <1>0 DEF TargetReady, LoadedInv, TargetLoaded
<1>4. pending.runout \in BOOLEAN
  BY DEF TypeOK, Requests
<1>5. /\ op'.at \in Steps \ {"idle", "route", "prime", "recheck", "insert"}
      /\ op'.cmd = op.cmd /\ op'.target = op.target
      /\ path'.slot = path.slot /\ path'.seen = path.seen
      /\ op'.at \in Late => path.slot = op.target /\ path.seen
  <2>1. CASE RouteRunout
    <3>1. \/ op'.at = "rexec"
          \/ ~pending.runout /\ op'.at = "finish"
          \/ pending.runout /\ pending.last = "restore" /\ op'.at = "return"
      BY <1>4, <2>1, GotoFields DEF RouteRunout, Steps
    <3>2. op'.at # "rexec" => Restored(pending)
      BY <2>1, <3>1 DEF Restored, RouteRunout
    <3>3. /\ op'.cmd = op.cmd /\ op'.target = op.target /\ path' = path
          /\ pending.kind = "runout"
      BY <2>1, GotoFields DEF RouteRunout, Steps
    <3>. QED BY <1>0, <1>2, <3>1, <3>2, <3>3
             DEF LoadedInv, TargetLoaded, RunoutLoaded, Late, Steps
  <2>2. CASE RouteReady
    <3>1. AlreadyPrepared /\ Goto("return")
      BY <2>2 DEF RouteReady
    <3>2. op'.at = "return" /\ op'.cmd = op.cmd /\ op'.target = op.target
      BY <3>1, GotoFields DEF Steps
    <3>3. path'.slot = path.slot /\ path'.seen = path.seen
      BY <2>2 DEF RouteReady, TypeOK, Paths
    <3>. QED BY <1>3, <3>1, <3>2, <3>3 DEF AlreadyPrepared, Late, Steps
  <2>3. CASE Route
    <3>1. \/ Goto("commit") /\ op.live.slot = op.target /\ TargetReady(op.live.slot, op.live)
          \/ \E step \in {"load", "verify", "retract", "cut", "pull", "unload"} : Goto(step)
      BY <2>3, UnloadStepType DEF Route
    <3>2. path' = path
      BY <2>3 DEF Route
    <3>3. CASE Goto("commit") /\ op.live.slot = op.target /\ TargetReady(op.live.slot, op.live)
      BY <1>3, <3>2, <3>3, GotoFields DEF Late, Steps
    <3>4. CASE \E step \in {"load", "verify", "retract", "cut", "pull", "unload"} : Goto(step)
      BY <3>2, <3>4, GotoFields DEF Late, Steps
    <3>. QED BY <3>1, <3>3, <3>4
  <2>. QED BY <2>1, <2>2, <2>3
<1>. QED BY <1>0, <1>1, <1>2, <1>5
         DEF Restored, LoadedInv, TargetLoaded, RunoutLoaded, Changes

(* What is wound back or pulled out is gone. *)
LEMMA UnloadsLoaded ==
    ASSUME TypeOK, CommandPlaces, RunoutRequest, LoadedInv,
           Retract \/ Cut \/ Unload \/ Pulled
    PROVE  LoadedInv'
<1>0. /\ op.at \in {"retract", "cut", "unload", "pull"} /\ EngineStep /\ ~Ends
  BY DEF Retract, Cut, Unload, Pulled, At, EngineStep, Ends, RouteAttend, Return, Finish,
         Prime, ResumeBase
<1>1. Changes
  BY <1>0 DEF CommandPlaces, IsIdle, Changes, TypeOK, Operations, LoadedInv, RunoutLoaded
<1>2. PICK step \in {"retract", "cut", "unload", "pull", "verify"} : Goto(step)
  <2>1. ASSUME Retract \/ Cut
        PROVE  \E step \in {"retract", "cut", "unload", "pull"} : Goto(step)
    BY <2>1, UnloadStepType DEF Retract, Cut
  <2>2. ASSUME Unload \/ Pulled PROVE Goto("verify")
    BY <1>1, <2>2 DEF Unload, Pulled
  <2>. QED BY <2>1, <2>2
<1>3. path'.slot = NoSlot => ~path'.seen
  <2>1. path' = path \/ path' = Gone
        \/ (path'.slot = path.slot /\ path'.seen = path.seen)
    BY DEF Retract, Cut, Unload, Pulled, TypeOK, Paths
  <2>. QED BY <2>1, PathFields DEF LoadedInv, TargetLoaded
<1>. QED BY <1>0, <1>1, <1>2, <1>3, GotoFields, MovedLoaded DEF Late, Steps

LEMMA LoadLoaded ==
    ASSUME TypeOK, CommandPlaces, RunoutRequest, LoadedInv, Load
    PROVE  LoadedInv'
<1>0. /\ op.at = "load" /\ op.target \in Slots /\ path.slot \in {NoSlot, op.target}
      /\ EngineStep /\ ~Ends
  BY DEF Load, At, EngineStep, Ends, RouteAttend, Return, Finish, Prime, ResumeBase
<1>1. path'.slot = op.target /\ path'.seen /\ op.target # NoSlot
  <2>1. path' = Loaded(op.target, TRUE)
    BY Zenon DEF Load
  <2>2. Loaded(op.target, TRUE).slot = op.target /\ Loaded(op.target, TRUE).seen
    BY DEF Loaded
  <2>. QED BY <1>0, <2>1, <2>2, BoxAssumption
<1>2. CASE Changes
  <2>1. Goto("commit")
    BY <1>2 DEF Load
  <2>. QED BY <1>0, <1>1, <1>2, <2>1, GotoFields, MovedLoaded DEF Late, Steps
<1>3. CASE ~Changes
  <2>1. op' = Idle /\ pending' = pending
    BY <1>3 DEF Load
  <2>. QED BY <1>0, <1>1, <2>1, IdleFields
           DEF LoadedInv, TargetLoaded, RunoutLoaded, Late, Changes
<1>. QED BY <1>2, <1>3

LEMMA FoundLoaded ==
    ASSUME TypeOK, CommandPlaces, RunoutRequest, LoadedInv,
           Verify \/ LoadExternal \/ Inserted \/ FeedTail \/ ExecuteRunout
    PROVE  LoadedInv'
<1>0. /\ op.at \in {"verify", "load", "insert", "tail", "rexec"} /\ EngineStep /\ ~Ends
      /\ path' = path
  BY DEF Verify, LoadExternal, Inserted, FeedTail, ExecuteRunout, At, EngineStep, Ends,
         RouteAttend, Return, Finish, Prime, ResumeBase
<1>1. Changes
  <2>1. op.cmd # "load"
    <3>1. CASE LoadExternal
      BY <3>1, BoxAssumption DEF LoadExternal, CommandPlaces
    <3>2. CASE ~LoadExternal
      BY <3>2 DEF Verify, Inserted, FeedTail, ExecuteRunout, At, CommandPlaces
    <3>. QED BY <3>1, <3>2
  <2>. QED BY <1>0, <2>1 DEF CommandPlaces, IsIdle, Changes, TypeOK, Operations,
                             LoadedInv, RunoutLoaded
<1>2. /\ op'.at \in Steps \ {"idle", "route", "prime", "recheck"}
      /\ op'.cmd = op.cmd /\ op'.target = op.target
      /\ op'.at = "insert" => op.target = External /\ path.slot \in {NoSlot, External}
      /\ op'.at \in Late => path.slot = op.target /\ path.seen
  <2>1. CASE Verify
    <3>1. Goto("load") \/ (Goto("commit") /\ TargetReady(op.target, path))
      BY <2>1 DEF Verify
    <3>. QED BY <3>1, GotoFields DEF TargetReady, Late, Steps
  <2>2. CASE LoadExternal
    <3>1. /\ Goto("insert") /\ op.target = External
          /\ path.slot \in {NoSlot, External}
      BY <2>2 DEF LoadExternal
    <3>. QED BY <3>1, GotoFields DEF Late, Steps
  <2>3. CASE Inserted
    <3>1. Goto("commit") /\ path.seen /\ op.at = "insert"
      BY <2>3 DEF Inserted, At
    <3>. QED BY <3>1, GotoFields DEF LoadedInv, TargetLoaded, Late, Steps
  <2>4. CASE FeedTail
    <3>1. Goto("rexec")
      BY <2>4 DEF FeedTail
    <3>. QED BY <3>1, GotoFields DEF Late, Steps
  <2>5. CASE ExecuteRunout
    <3>1. /\ op'.cmd = op.cmd /\ op'.target = op.target
          /\ op'.at \in {"load", "unload"}
             \/ (op'.at = "commit" /\ TargetReady(op.target, path))
      BY <2>5 DEF ExecuteRunout, TypeOK, Operations
    <3>. QED BY <3>1 DEF TargetReady, Late, Steps
  <2>. QED BY <2>1, <2>2, <2>3, <2>4, <2>5
<1>. QED BY <1>0, <1>1, <1>2, MovedLoaded DEF LoadedInv, TargetLoaded

(* The last steps leave the path alone. *)
LEMMA LateLoaded ==
    ASSUME TypeOK, CommandPlaces, RunoutRequest, LoadedInv, Commit \/ Flush \/ Final
    PROVE  LoadedInv'
<1>0. /\ op.at \in {"commit", "flush", "final"} /\ EngineStep /\ ~Ends
      /\ path' = path
      /\ Goto("flush") \/ Goto("final") \/ Goto("return")
  <2>1. CASE Commit
    BY <2>1 DEF Commit, At, EngineStep, Ends, RouteAttend, Return, Finish, Prime, ResumeBase
  <2>2. CASE Flush
    <3>1. op.at = "flush" /\ path' = path
      BY <2>2, Zenon DEF Flush, At
    <3>2. Goto("final") \/ Goto("return")
      <4>1. \E settles : Goto(IF settles THEN "final" ELSE "return")
        BY <2>2, Zenon DEF Flush
      <4>. QED BY <4>1 DEF Goto
    <3>. QED BY <2>2, <3>1, <3>2 DEF EngineStep, Ends, RouteAttend, Return, Finish, Prime,
                                     ResumeBase, At
  <2>3. CASE Final
    BY <2>3 DEF Final, At, EngineStep, Ends, RouteAttend, Return, Finish, Prime, ResumeBase
  <2>. QED BY <2>1, <2>2, <2>3
<1>1. Changes
  BY <1>0 DEF CommandPlaces, IsIdle, Changes, TypeOK, Operations
<1>2. path.slot = op.target /\ path.seen
  BY <1>0 DEF LoadedInv, TargetLoaded, Late
<1>. QED BY <1>0, <1>1, <1>2, GotoFields, MovedLoaded DEF LoadedInv, TargetLoaded, Late, Steps

LEMMA EndsLoaded ==
    ASSUME TypeOK, CommandPlaces, LoadedInv, Ends
    PROVE  LoadedInv'
<1>1. CASE RouteAttend
  <2> DEFINE q == [Captured(pending) EXCEPT !.last = "attendance"]
  <2>1. ChangeFails(q, head) /\ op' = Idle /\ path' = path
    BY <1>1 DEF RouteAttend
  <2>2. pending' = q
    BY <2>1 DEF ChangeFails
  <2>3. pending \in Requests /\ Captured(pending) \in Requests
    BY CapturedFields DEF TypeOK
  <2>4. /\ q.target = pending.target /\ q.kind = pending.kind
        /\ q.runout = pending.runout /\ q.last = "attendance"
    BY <2>3, CapturedFields DEF Requests
  <2>. HIDE DEF q
  <2>. QED BY <2>1, <2>2, <2>4, IdleFields
           DEF Restored, LoadedInv, TargetLoaded, RunoutLoaded, Late, Changes
<1>2. CASE Return
  <2>1. /\ op.at = "return" /\ op'.at = "finish" /\ op'.cmd = op.cmd
        /\ op'.target = op.target /\ path' = path
    BY <1>2, GotoFields DEF Return, Steps
  <2>2. pending'.target = pending.target
    BY <1>2 DEF Return, TypeOK, Requests
  <2>3. Changes
    BY <2>1 DEF CommandPlaces, IsIdle, Changes, TypeOK, Operations
  <2>. QED BY <2>1, <2>2, <2>3 DEF LoadedInv, TargetLoaded, RunoutLoaded, Late, Changes
<1>3. CASE Finish
  <2>1. pending' = NoRequest /\ path' = path
        /\ (op' = Idle \/ (op'.at = "prime" /\ op'.cmd = op.cmd))
    BY <1>3, GotoFields DEF Finish, Steps
  <2>. QED BY <2>1, NoRequestOrigin, IdleFields
           DEF Restored, LoadedInv, TargetLoaded, RunoutLoaded, Late, Changes
<1>4. CASE Prime \/ ResumeBase
  <2>1. UNCHANGED <<pending, path>>
        /\ (op' = Idle \/ (op'.at = "recheck" /\ op'.cmd = op.cmd))
    BY <1>4, GotoFields DEF Prime, ResumeBase, Steps
  <2>. QED BY <2>1, IdleFields DEF LoadedInv, TargetLoaded, RunoutLoaded, Late, Changes
<1>. QED BY <1>1, <1>2, <1>3, <1>4 DEF Ends

LEMMA LeftoversSeen ==
    ASSUME TypeOK, LoadedInv, NEW left \in Leftovers
    PROVE  /\ left[1].slot = NoSlot => ~left[1].seen
           /\ op.at \notin {"unload", "load"} =>
                  left[1].slot = path.slot /\ left[1].seen = path.seen
           /\ op.at = "load" /\ path.seen =>
                  left[1].slot = path.slot /\ left[1].seen = path.seen
<1> DEFINE loose == [path EXCEPT !.tracked = FALSE]
           out == [path EXCEPT !.tracked = FALSE, !.seen = FALSE]
           short == [Gone EXCEPT !.slot = op.target]
           tracked(t) == [path EXCEPT !.tracked = t]
           fresh(t) == Loaded(op.target, t)
<1>1. /\ loose.slot = path.slot /\ loose.seen = path.seen /\ ~out.seen
      /\ ~short.seen /\ Gone.slot = NoSlot /\ ~Gone.seen
      /\ \A t \in BOOLEAN : tracked(t).slot = path.slot /\ tracked(t).seen = path.seen
      /\ \A t : fresh(t).slot = op.target
  BY DEF TypeOK, Paths, Gone, Loaded
<1>2. \/ left \in {<<path, strand>>, <<path, "cut">>, <<path, Fed(op.target)>>}
      \/ op.at = "retract" /\ left = <<loose, strand>>
      \/ op.at = "unload" /\ left \in {<<loose, strand>>, <<out, "none">>, <<Gone, "none">>}
      \/ \E t \in BOOLEAN : left = <<tracked(t), strand>>
      \/ /\ op.at = "load" /\ op.target \in Slots /\ path.slot \in {NoSlot, op.target}
         /\ ~(path.slot = op.target /\ path.seen)
         /\ \/ left = <<short, "none">>
            \/ \E t \in BOOLEAN : left = <<fresh(t), "gears">>
  <2>1. \/ left = <<path, strand>>
        \/ op.at = "retract" /\ left \in {<<loose, strand>>}
        \/ op.at = "cut" /\ left \in {<<path, "cut">>}
        \/ op.at = "unload" /\ left \in {<<Gone, "none">>, <<loose, strand>>, <<out, "none">>}
        \/ left \in {<<tracked(t), strand>> : t \in BOOLEAN}
        \/ /\ op.at = "load" /\ op.target \in Slots /\ path.slot \in {NoSlot, op.target}
           /\ ~(path.slot = op.target /\ path.seen)
           /\ left \in {<<short, "none">>} \cup {<<fresh(t), "gears">> : t \in BOOLEAN}
        \/ left \in {<<path, Fed(op.target)>>}
    <3>1. CASE op.at = "retract"
      BY <3>1, Zenon DEF Leftovers
    <3>2. CASE op.at = "cut"
      BY <3>2 DEF Leftovers
    <3>3. CASE op.at = "unload"
      BY <3>3 DEF Leftovers
    <3>4. CASE op.at = "load" /\ op.target \in Slots /\ path.slot = op.target /\ path.seen
      <4>1. left \in {<<path, strand>>} \cup {<<[path EXCEPT !.tracked = t], strand>> : t \in BOOLEAN}
        BY <3>4, Zenon DEF Leftovers
      <4>. QED BY <4>1
    <3>5. CASE op.at = "load" /\ op.target \in Slots /\ path.slot \in {NoSlot, op.target}
               /\ ~(path.slot = op.target /\ path.seen)
      BY <3>5 DEF Leftovers
    <3>6. CASE op.at \in {"flush", "prime"}
      BY <3>6 DEF Leftovers
    <3>. QED BY <3>1, <3>2, <3>3, <3>4, <3>5, <3>6 DEF Leftovers
  <2>. HIDE DEF loose, out, short, tracked, fresh
  <2>. QED BY <2>1
<1>3. path.slot = NoSlot => ~path.seen
  BY DEF LoadedInv, TargetLoaded
<1>. HIDE DEF loose, out, short, tracked, fresh
<1>4. \A p, x : left = <<p, x>> => left[1] = p
  OBVIOUS
<1>5. NoSlot \notin Slots
  BY BoxAssumption
<1>. QED BY <1>1, <1>2, <1>3, <1>4, <1>5

(* A runout that fails on its way back has its target loaded. *)
LEMMA FailingLoaded ==
    ASSUME TypeOK, CommandPlaces, RunoutRequest, LoadedInv, StepFails
    PROVE  LoadedInv'
<1>1. /\ op' = Idle /\ ~IsIdle
      /\ \/ pending' = pending
         \/ /\ Changes /\ op.at \notin {"prime", "recheck"}
            /\ \E h, last : last \in LastAfterFailure /\ pending' = Failed(h, last)
  BY DEF StepFails, ChangeFails, CommandFails
<1>2. PICK left \in Leftovers : path' = left[1]
  BY DEF StepFails
<1>3. pending'.target = pending.target /\ pending'.kind = pending.kind
      /\ pending'.runout = pending.runout
      /\ \/ pending'.last = pending.last
         \/ pending'.last \in LastAfterFailure /\ Changes
  BY <1>1, FailedFields
<1>4. path'.slot = NoSlot => ~path'.seen
  BY <1>2, LeftoversSeen
<1>5. Restored(pending) => path'.slot = path.slot /\ path'.seen = path.seen
  <2>1. ASSUME Restored(pending) PROVE op.at # "unload" /\ path.seen
    BY <1>1, <2>1 DEF RunoutRequest, CommandPlaces, Changes, LoadedInv, RunoutLoaded, TypeOK,
                      Operations
  <2>. QED BY <1>2, <2>1, LeftoversSeen
<1>6. ASSUME Restored(pending)', ~Restored(pending)
      PROVE  path'.slot = pending.target /\ path'.seen
  <2>1. pending'.last = "restore" /\ pending.last # "restore"
    BY <1>3, <1>6 DEF Restored
  <2>2. op.at = "return" /\ Changes
    BY <1>3, <2>1 DEF LastAfterFailure
  <2>3. path.slot = pending.target /\ path.seen
    BY <2>2 DEF LoadedInv, TargetLoaded, Late
  <2>. QED BY <1>2, <2>2, <2>3, LeftoversSeen
<1>. QED BY <1>1, <1>3, <1>4, <1>5, <1>6, IdleFields
         DEF Restored, LoadedInv, TargetLoaded, RunoutLoaded, Late, Changes

LEMMA LoadedStep ==
    "unload" \notin Manual =>
        (TypeOK /\ Inv /\ ResumeInv /\ LoadedInv /\ [Next]_vars => LoadedInv')
<1>. SUFFICES ASSUME "unload" \notin Manual, TypeOK, Inv, ResumeInv, LoadedInv, [Next]_vars
              PROVE  LoadedInv'
  OBVIOUS
<1>0. CommandPlaces /\ RunoutRequest
  BY DEF Inv, ResumeInv
<1>1. CASE EngineStep
  BY <1>0, <1>1, RouteLoaded, UnloadsLoaded, LoadLoaded, FoundLoaded, LateLoaded, EndsLoaded
     DEF EngineStep, Ends
<1>2. CASE UNCHANGED vars
  BY <1>2, SamePlaceLoaded DEF vars
<1>. QED BY <1>0, <1>1, <1>2, LoadedAround, LoadedCommands, FailingLoaded DEF Next

LEMMA LoadedInit == Init => LoadedInv
<1>. SUFFICES ASSUME Init PROVE LoadedInv
  OBVIOUS
<1>1. /\ op.at = "idle" /\ op.cmd = "none" /\ pending.kind = "normal"
  BY NoRequestOrigin, IdleFields DEF Init
<1>2. path.slot = NoSlot => ~path.seen
  BY PathFields, BoxAssumption DEF Init
<1>. QED BY <1>1, <1>2 DEF Restored, LoadedInv, TargetLoaded, RunoutLoaded, Late, Changes

(* Unless BOX_UNLOAD is given by hand, whatever steps the checkpoints of a *)
(* failed change and its shortcuts skip, for any slots, and whatever fails *)
(* on the way: a change that ends has its target loaded up to the sensor.  *)
(* (By hand, the target of a runout that has only to return or to finish   *)
(* can be taken out before it is retried.)                                 *)
THEOREM ChangesEndLoaded ==
    ASSUME "unload" \notin Manual PROVE Spec => []ActiveLoaded
<1>1. TypeOK /\ Inv /\ ResumeInv /\ LoadedInv /\ [Next]_vars => LoadedInv'
  BY LoadedStep
<1>2. LoadedInv => ActiveLoaded
  BY DEF LoadedInv, TargetLoaded, Late, ActiveLoaded, At
<1>. QED BY <1>1, <1>2, LoadedInit, TypeCorrect, Inductive, ResumeInductive, PTL DEF Spec

==============================================================================
