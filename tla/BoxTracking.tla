---------------------------- MODULE BoxTracking ----------------------------
(***************************************************************************)
(* Whose filament it is and what a reported status means (extras/box.py):  *)
(* the tracking owner, the owner of the path, the episodes of faults and   *)
(* the runout that is under way.  Two greenlets read the boxes, one box    *)
(* after the other: the status poll and the operation of a command.  What  *)
(* a read returned is handled after the last answer, in the same turn,     *)
(* when an operation may have changed the box that answered first.  The    *)
(* steps of an operation are the exchanges on the bus of physical_unload   *)
(* and physical_load; those of the two greenlets come in any order, as a   *)
(* read makes several exchanges per box (_query_box_snapshot).             *)
(*                                                                         *)
(* A fault key holds tracking_epoch and print_start_time.  Both only grow, *)
(* so an episode keeps whether they are still the current ones.            *)
(***************************************************************************)
EXTENDS PrintState, FiniteSets

CONSTANTS NBoxes,       \* boxes, at the addresses 1..NBoxes
          Slots, BoxOf, \* their slots
          MaxOps,       \* bound: operations started
          MaxReports,   \* bound: faults that boxes and commands report
          MaxLost       \* bound: exchanges without an answer, enumerations
                        \* and disconnects

Boxes == 1..NBoxes

ASSUME TrackingAssumption ==
    /\ NBoxes \in Nat \ {0} /\ BoxOf \in [Slots -> Boxes]
    /\ {MaxOps, MaxReports, MaxLost} \subseteq Nat

VARIABLES
    path,    \* hardware: the slot whose filament is past its box
    head,    \* hardware: filament_detected at the printhead
    cfs,     \* hardware: state and status of each box
    fw,      \* tracking_owner, path_owner, fault_episodes, and runout_active,
             \* runout_origin and the box of runout_key
    blocked, \* resume_recovery of the change engine
    reads,   \* read_live_state of the poll and of the operation: the box that
             \* is asked next, or Done; and then, for an operation that has
             \* yet to ask for the buffer and the encoder, the loaded slot
    op,      \* the operation: its next step, the slot it loads (NoSlot for an
             \* unload) and the one it unloads, whether it is BOX_RUNOUT_CHECK
             \* and whether fault_generation has moved since it began
    ops,
    faults   \* how often each of the bounded things has happened

boxVars == <<path, head, cfs, fw, blocked, reads, op, ops, faults>>

NoSlot  == "no slot"
NoReply == [state |-> "none", status |-> "none", slot |-> NoSlot]
Readers == {"poll", "op"}

NoEpisode == [status |-> "ok", kind |-> "none", current |-> FALSE]
NoRunout  == [active |-> FALSE, origin |-> NoSlot, box |-> 0]
NoOp      == [at |-> "none", to |-> NoSlot, from |-> NoSlot,
              runout |-> FALSE, aborted |-> FALSE]
NotReading == [next |-> 0, head |-> FALSE, loaded |-> NoSlot,
               got |-> [b \in Boxes |-> NoReply]]

NoTracking == [owner |-> NoSlot, path |-> NoSlot, runout |-> NoRunout,
               episode |-> [b \in Boxes |-> NoEpisode]]

BoxInit ==
    /\ path \in Slots \cup {NoSlot} /\ head = (path # NoSlot)
    /\ "box" \notin installed => path = NoSlot
    /\ cfs \in [Boxes -> [state : {"idle", "print"}, status : {"ok"}]]
    /\ \A b \in Boxes : cfs[b].state = "print" => path # NoSlot /\ BoxOf[path] = b
    /\ fw = NoTracking
    /\ blocked = FALSE
    /\ reads = [r \in Readers |-> NotReading]
    /\ op = NoOp
    /\ ops = 0 /\ faults = [reports |-> 0, lost |-> 0]

----------------------------------------------------------------------------
(***************************************************************************)
(* The owner.                                                              *)
(***************************************************************************)
\* tracking_epoch or print_start_time changes.
NextEpoch(f) == [f EXCEPT !.episode =
                    [b \in Boxes |-> [f.episode[b] EXCEPT !.current = FALSE]]]

ClearRunout(f) == [f EXCEPT !.runout = NoRunout]

\* Mutant: the runout of the slot before is kept.
SetOwnerOnly(f, s, renew) ==
    IF ~renew /\ f.owner = s THEN f
    ELSE [NextEpoch(f) EXCEPT !.owner = s, !.path = s,
                              !.episode[BoxOf[s]] = NoEpisode]

SetOwner(f, s, renew) ==
    IF ~renew /\ f.owner = s THEN f
    ELSE [ClearRunout(NextEpoch(f)) EXCEPT !.owner = s, !.path = s,
                                           !.episode[BoxOf[s]] = NoEpisode]

ClearOwner(f, b) ==
    IF f.owner # NoSlot /\ BoxOf[f.owner] = b
    THEN [NextEpoch(f) EXCEPT !.owner = NoSlot, !.episode[b] = NoEpisode]
    ELSE f

\* note_external_source.
ExternalSource(f) ==
    [ClearRunout(IF f.owner = NoSlot
                 THEN [f EXCEPT !.episode = NoTracking.episode]
                 ELSE ClearOwner(f, BoxOf[f.owner])) EXCEPT !.path = NoSlot]

----------------------------------------------------------------------------
(***************************************************************************)
(* What a read returned, got, is handled.                                  *)
(***************************************************************************)
Loaded(got) == {s \in Slots : got[BoxOf[s]] # NoReply /\ got[BoxOf[s]].slot = s}

Candidates(got) ==
    {s \in Loaded(got) : /\ got[BoxOf[s]].status = "ok"
                         /\ got[BoxOf[s]].state = "print"}

\* _reconcile_tracking_owner: an owner whose box no longer tracks is dropped.
Lapsed(f, got) ==
    /\ f.owner # NoSlot
    /\ LET reply == got[BoxOf[f.owner]]
       IN  IF reply = NoReply THEN Candidates(got) # {}
           ELSE reply.status = "ok" /\ reply.state = "idle"

Settled(f, got) == IF Lapsed(f, got) THEN ClearOwner(f, BoxOf[f.owner]) ELSE f

Conflict(f, got) ==
    /\ Cardinality(Candidates(got)) = 1
    /\ Settled(f, got).owner \notin {NoSlot} \cup Candidates(got)

Reconcile(f, got) ==
    IF Cardinality(Candidates(got)) = 1
    THEN SetOwner(Settled(f, got), CHOOSE s \in Candidates(got) : TRUE, FALSE)
    ELSE Settled(f, got)

\* The path, as of a read with the printhead sensor at detected.
SeePath(f, got, detected) ==
    IF Loaded(got) # {} THEN [f EXCEPT !.path = CHOOSE s \in Loaded(got) : TRUE]
    ELSE IF detected THEN f ELSE [f EXCEPT !.path = NoSlot]

----------------------------------------------------------------------------
(***************************************************************************)
(* Faults: _observe_fault and _latch_fatal_fault.                          *)
(***************************************************************************)
Tracks(f, b)   == f.owner # NoSlot /\ BoxOf[f.owner] = b
OnPath(f, b)   == f.path # NoSlot /\ BoxOf[f.path] = b
RunsOut(f, b, reply) ==
    reply.status = "runout" /\ Tracks(f, b) /\ reply.state = "print"

Kind(f, b, reply) ==
    CASE reply.status = "runout" -> IF RunsOut(f, b, reply) THEN "runout"
                                    ELSE "advisory"
      [] reply.status = "stalled" /\ f.runout.box = b -> "runout"
      [] OTHER -> IF OnPath(f, b) THEN "fatal" ELSE "advisory"

\* _fault_key.
Key(status, kind) == [status |-> status, kind |-> kind, current |-> TRUE]

Observed(f, b, reply) ==
    IF reply = NoReply THEN f.episode[b]
    ELSE IF reply.status = "ok" THEN NoEpisode
    ELSE Key(reply.status, Kind(f, b, reply))

Latches(f, b, reply) ==
    LET episode == Observed(f, b, reply)
    IN  episode.kind = "fatal" /\ episode # f.episode[b]

\* Box b answers for no other: the boxes are observed together.
Observe(f, got) ==
    LET out == {b \in Boxes : got[b] # NoReply /\ RunsOut(f, b, got[b])}
    IN  [f EXCEPT !.episode = [b \in Boxes |-> Observed(f, b, got[b])],
                  !.runout = IF out = {} THEN @
                             ELSE [active |-> TRUE, origin |-> f.owner,
                                   box |-> BoxOf[f.owner]]]

\* What a latched fault does to the print and to the operation.
Latch(latched) ==
    /\ blocked' = (blocked \/ (latched /\ print # "standby"))
    /\ print' = IF latched THEN AskPause(print) ELSE print

Tangled(got) == Cardinality({BoxOf[s] : s \in Loaded(got)}) > 1

\* read_live_state after its queries; a BoxError leaves the rest undone.
Handled(r) ==
    LET got  == reads[r].got
        seen == SeePath(fw, got, reads[r].head)
    IN  IF Tangled(got) THEN fw
        ELSE IF Conflict(seen, got) THEN Settled(seen, got)
        ELSE Observe(Reconcile(seen, got), got)

Raises(r) == LET got == reads[r].got
             IN  Tangled(got) \/ Conflict(SeePath(fw, got, reads[r].head), got)

Latched(r) ==
    LET got == reads[r].got
        f   == Reconcile(SeePath(fw, got, reads[r].head), got)
    IN  ~Raises(r) /\ \E b \in Boxes : Latches(f, b, got[b])

----------------------------------------------------------------------------
(***************************************************************************)
(* Reads.                                                                  *)
(***************************************************************************)
Reading(r)  == reads[r].next # 0
Answered(r) == reads[r].next = NBoxes + 1   \* to be handled, in the same turn
Seen        == reads["op"].next = NBoxes + 2 \* the operation goes on with it

StartRead(r, detected) ==
    reads' = [reads EXCEPT ![r] = [NotReading EXCEPT !.next = 1, !.head = detected]]

EndRead(r) == reads' = [reads EXCEPT ![r] = NotReading]

Reply(b) == [state |-> cfs[b].state, status |-> cfs[b].status,
             slot |-> IF path # NoSlot /\ BoxOf[path] = b THEN path ELSE NoSlot]

Happens(thing, bound) ==
    faults[thing] < bound /\ faults' = [faults EXCEPT ![thing] = @ + 1]

Lost == Happens("lost", MaxLost)

\* A second loaded path ends the read: the boxes that are left are not asked.
Query(r) ==
    /\ reads[r].next \in Boxes
    /\ \/ /\ LET got == [reads[r].got EXCEPT ![reads[r].next] = Reply(reads[r].next)]
             IN  reads' = [reads EXCEPT ![r].got = got,
                              ![r].next = IF Tangled(got) THEN NBoxes + 1 ELSE @ + 1]
          /\ UNCHANGED faults
       \/ Lost /\ reads' = [reads EXCEPT ![r].next = @ + 1]
    /\ UNCHANGED <<path, head, cfs, fw, blocked, op, ops, printVars>>

\* operation_depth is 0 when the poll begins.
StartPoll ==
    /\ ~down /\ ~Reading("poll") /\ op.at \in {"none", "look", "ready"}
    /\ StartRead("poll", head)
    /\ UNCHANGED <<path, head, cfs, fw, blocked, op, ops, faults, printVars>>

\* A fault that is latched aborts the operation, whoever read it.
Handle(r) ==
    /\ fw' = Handled(r)
    /\ Latch(Latched(r))
    /\ op' = [op EXCEPT !.aborted = @ \/ (op # NoOp /\ Latched(r))]

HandlePoll ==
    /\ Answered("poll")
    /\ Handle("poll") /\ EndRead("poll")
    /\ UNCHANGED <<path, head, cfs, ops, faults, prints, down>>

----------------------------------------------------------------------------
(***************************************************************************)
(* Operations.  A change is an unload, when a slot is loaded, and a load.  *)
(***************************************************************************)
Begin(to, runout) ==
    /\ ~down /\ op = NoOp /\ ops < MaxOps /\ ops' = ops + 1
    /\ op' = [NoOp EXCEPT !.at = "look", !.to = to, !.runout = runout]
    /\ StartRead("op", head)
    /\ UNCHANGED <<path, head, cfs, fw, blocked, faults, printVars>>

Change(to) == print \in {"standby", "printing", "paused"} /\ Begin(to, FALSE)

\* BOX_RUNOUT_CHECK, with a matching slot to swap to.
RunoutCheck(to) == print = "printing" /\ ~head /\ Begin(to, TRUE)

\* _operation_failed, and _pause_runout, whose PAUSE runs at once; latched is
\* whether it was a fault of a command that failed it.
Fails(latched) ==
    /\ op' = NoOp
    /\ IF op.runout
       THEN /\ blocked' = TRUE
            /\ print' = IF print = "standby" THEN print ELSE "paused"
       ELSE Latch(latched \/ op.to # NoSlot)

\* A change whose first read raises is only refused.
Refused == ~op.runout /\ op.at = "look" /\ op' = NoOp /\ UNCHANGED <<blocked, print>>

Succeeds ==
    /\ op' = NoOp
    /\ blocked' = (blocked /\ op.to = NoSlot)
    /\ UNCHANGED print

Goto(at, s) ==
    op' = [op EXCEPT !.at = at, !.from = s] /\ UNCHANGED <<blocked, print>>

\* check_operation_abort.
Aborts == op.aborted \/ Pausing

AtStep(at) == op.at = at /\ ~Reading("op")

\* The loaded slot of the snapshot, f being what the read made of fw.
OpLoaded(f) == IF reads["op"].head \/ Loaded(reads["op"].got) # {} THEN f.path
               ELSE NoSlot

\* The snapshot: the loaded slot, and what the box of its path has answered.
Snapshot(s) ==
    [reads["op"] EXCEPT
        !.next = NBoxes + 2, !.loaded = s,
        !.got = [b \in Boxes |-> IF s # NoSlot /\ b = BoxOf[s] THEN @[b]
                                 ELSE NoReply]]

HandleOp ==
    /\ Answered("op")
    /\ \/ /\ Raises("op") /\ fw' = Handled("op")
          /\ Fails(FALSE) \/ Refused
          /\ EndRead("op")
       \/ /\ ~Raises("op") /\ Handle("op")
          /\ reads' = [reads EXCEPT !["op"] = Snapshot(OpLoaded(fw'))]
    /\ UNCHANGED <<path, head, cfs, ops, faults, prints, down>>

\* _fatal_episode; a snapshot without a reply has no status.
Fatal(f, b, reply) ==
    /\ f.episode[b].kind = "fatal"
    /\ reply # NoReply => f.episode[b].status = reply.status

\* snap.tracking, with the owner and the episodes of after the last query.
OpTracking(s) ==
    LET reply == reads["op"].got[BoxOf[s]]
    IN  /\ Tracks(fw, BoxOf[s]) /\ reply.state = "print"
        /\ ~Fatal(fw, BoxOf[s], reply)

\* runout_recovery.
Recovery ==
    LET s == reads["op"].loaded
    IN  IF /\ op.runout /\ s # NoSlot /\ Tracks(fw, BoxOf[s])
           /\ reads["op"].got[BoxOf[s]].status = "runout"
        THEN [fw EXCEPT !.runout = [active |-> TRUE, origin |-> fw.owner,
                                    box |-> BoxOf[fw.owner]]]
        ELSE fw

\* The slot that is loaded is unloaded first; one that is to be loaded again
\* is only tracked, unless it has to recover from a fault.
Look ==
    LET s == reads["op"].loaded
    IN  /\ op.at = "look" /\ fw' = Recovery /\ EndRead("op")
        /\ \/ op.runout /\ ~fw'.runout.active /\ Fails(FALSE)
           \/ /\ op.runout => fw'.runout.active
              /\ \/ s = NoSlot /\ reads["op"].head /\ Fails(FALSE)
                 \/ s = NoSlot /\ ~reads["op"].head
                       /\ IF op.to = NoSlot THEN Succeeds ELSE Goto("ready", s)
                 \/ s \notin {NoSlot, op.to} /\ Goto("untrack", s)
                 \/ /\ s = op.to /\ s # NoSlot
                    /\ \/ reads["op"].head /\ OpTracking(s) /\ Succeeds
                       \/ IF /\ reads["op"].head
                             /\ ~Fatal(fw, BoxOf[s], reads["op"].got[BoxOf[s]])
                          THEN Goto("track", s) ELSE Goto("ready", s)

\* _wait_for_state reads again until it finds what it waits for, STATE_TIMEOUT
\* has passed or the box of the path has a fatal episode.
Await ==
    LET s == reads["op"].loaded
    IN  \/ fw' = fw /\ EndRead("op") /\ Fails(FALSE)
        \/ /\ s # NoSlot => fw.episode[BoxOf[s]].kind # "fatal"
           /\ StartRead("op", head) /\ UNCHANGED <<fw, op, blocked, print>>

Out ==
    /\ op.at = "out"
    /\ IF reads["op"].loaded = NoSlot /\ ~reads["op"].head
       THEN /\ fw' = ClearRunout([fw EXCEPT !.path = NoSlot])
            /\ EndRead("op")
            /\ IF op.to = NoSlot THEN Succeeds ELSE Goto("ready", NoSlot)
       ELSE Await

In ==
    /\ op.at = "in"
    /\ IF /\ reads["op"].loaded = op.to /\ reads["op"].head /\ OpTracking(op.to)
          /\ fw.episode[BoxOf[op.to]].kind # "fatal"
       THEN /\ fw' = [fw EXCEPT !.runout.active = FALSE,
                                !.runout.origin = NoSlot]
            /\ EndRead("op") /\ Succeeds
       ELSE Await

\* What the operation makes of the snapshot.
Decide ==
    /\ Seen
    /\ IF Aborts THEN UNCHANGED fw /\ EndRead("op") /\ Fails(FALSE)
       ELSE Look \/ Out \/ In
    /\ UNCHANGED <<path, head, cfs, ops, faults, prints, down>>

\* No filament of another slot is in the way.
Free == path \in {NoSlot, op.from, op.to}

\* _set_tracking(None), for the slot that is unloaded or loaded.
Untrack(at, s, next) ==
    LET b == BoxOf[s]
    IN  /\ AtStep(at)
        /\ cfs' = [cfs EXCEPT ![b] = [state |-> "idle", status |-> "ok"]]
        /\ \/ /\ fw' = ClearOwner(fw, b)
              /\ IF Aborts THEN Fails(FALSE) ELSE Goto(next, s)
              /\ UNCHANGED faults
           \/ Lost /\ Fails(FALSE) /\ UNCHANGED fw
        /\ UNCHANGED <<path, head, reads, ops, prints, down>>

\* A status of CFS_COMMAND_FATAL_STATUSES, the one that the box goes on to
\* report or another: _record_command_fault.
CommandFault(b) ==
    \E status \in {"fault", "command"} :
        /\ fw' = [fw EXCEPT !.episode[b] = Key(status, "fatal")]
        /\ Fails(fw' # fw)

\* The filament moves; or the box does not answer, and may have moved it; or
\* the command says that it did not.
Move(at, b, slot, next) ==
    /\ AtStep(at)
    /\ \/ /\ Free
          /\ path' = slot /\ head' = (slot # NoSlot)
          /\ IF Aborts THEN Fails(FALSE) /\ UNCHANGED reads
             ELSE /\ Goto(next, op.from)
                  /\ IF next = "out" THEN StartRead("op", head') ELSE UNCHANGED reads
          /\ UNCHANGED <<fw, faults>>
       \/ /\ Free /\ Lost
          /\ \/ UNCHANGED <<path, head>>
             \/ path' = slot /\ head' = (slot # NoSlot)
          /\ Fails(FALSE)
          /\ UNCHANGED <<fw, reads>>
       \/ /\ IF Free THEN Happens("reports", MaxReports) ELSE UNCHANGED faults
          /\ CommandFault(b)
          /\ UNCHANGED <<path, head, reads>>
    /\ UNCHANGED <<cfs, ops, prints, down>>

\* activate_tracking.
Track ==
    LET b == BoxOf[op.to]
    IN  /\ AtStep("track")
        /\ cfs' = [cfs EXCEPT ![b] = [state |-> "print", status |-> "ok"]]
        /\ UNCHANGED <<path, head>>
        /\ \/ /\ fw' = SetOwner(fw, op.to, TRUE)
              /\ Goto("in", op.to) /\ StartRead("op", head)
              /\ UNCHANGED faults
           \/ Lost /\ Fails(FALSE) /\ UNCHANGED <<fw, reads>>
        /\ UNCHANGED <<ops, prints, down>>

Operation ==
    \/ Decide
    \/ Untrack("untrack", op.from, "retract")
    \/ Move("retract", BoxOf[op.from], NoSlot, "out")
    \/ Untrack("ready", op.to, "feed")
    \/ Move("feed", BoxOf[op.to], op.to, "track")
    \/ Track

----------------------------------------------------------------------------
(***************************************************************************)
(* The boxes and the user (outside src/), and the rest of the Box section. *)
(***************************************************************************)
\* A spool runs out, the buffer stalls, or a box reports another error.
BoxReports(b, status) ==
    /\ cfs[b].status = "ok" /\ Happens("reports", MaxReports)
    /\ status # "fault" => cfs[b].state = "print"
    /\ cfs' = [cfs EXCEPT ![b].status = status]
    /\ UNCHANGED <<path, head, fw, blocked, reads, op, ops, printVars>>

BoxRecovers(b) ==
    /\ cfs[b].status # "ok" /\ cfs' = [cfs EXCEPT ![b].status = "ok"]
    /\ UNCHANGED <<path, head, fw, blocked, reads, op, ops, faults,
                   printVars>>

\* The end of the filament passes the printhead sensor.
TailPasses ==
    /\ print = "printing" /\ head /\ path # NoSlot
    /\ cfs[BoxOf[path]].status \in {"runout", "stalled"}
    /\ head' = FALSE
    /\ UNCHANGED <<path, cfs, fw, blocked, reads, op, ops, faults,
                   printVars>>

\* The user pulls the filament of a slot that has run out or stalled, out by
\* hand.
PulledOut ==
    /\ op = NoOp /\ path # NoSlot /\ print = "paused"
    /\ cfs[BoxOf[path]].status # "ok"
    /\ path' = NoSlot /\ head' = FALSE
    /\ UNCHANGED <<cfs, fw, blocked, reads, op, ops, faults, printVars>>

\* A change to the external spool, with no filament loaded and outside a print
\* (a bound), and its removal.
External ==
    /\ op = NoOp /\ path = NoSlot /\ print = "standby"
    /\ head' = ~head
    /\ fw' = IF head THEN fw ELSE ExternalSource(fw)
    /\ UNCHANGED <<path, cfs, blocked, reads, op, ops, faults, printVars>>

\* _enumerate and _disconnect: _invalidate_tracking_session.
NewSession ==
    /\ Lost
    /\ fw' = NoTracking
    /\ UNCHANGED <<path, head, cfs, blocked, reads, op, ops, printVars>>

\* Mutant: a fault that was latched in one print is not new in the next.
ResetRecoveryOnly ==
    /\ blocked' = FALSE
    /\ UNCHANGED <<path, head, cfs, fw, reads, op, ops, faults>>

\* A print begins, ends or is cancelled: reset_print_recovery.
ResetRecovery ==
    /\ blocked' = FALSE
    /\ fw' = IF print = "standby" THEN NextEpoch(fw) ELSE fw
    /\ UNCHANGED <<path, head, cfs, reads, op, ops, faults>>

\* The rest of a read follows its last answer without a yield.
Handling == HandlePoll \/ HandleOp

NoYield == \E r \in Readers : Answered(r)

BoxNext ==
    \/ StartPoll \/ \E r \in Readers : Query(r)
    \/ \E to \in Slots \cup {NoSlot} : Change(to)
    \/ \E to \in Slots : RunoutCheck(to)
    \/ Operation
    \/ \E b \in Boxes : \/ \E status \in {"runout", "stalled", "fault"} :
                              BoxReports(b, status)
                        \/ BoxRecovers(b)
    \/ TailPasses \/ PulledOut \/ External \/ NewSession

----------------------------------------------------------------------------
(***************************************************************************)
(* A runout that is under way is that of the filament that is tracked: a   *)
(* swap looks for a spool like its origin (runout_recovery and             *)
(* _runout_status), also when the slot changed while a read was under way. *)
(***************************************************************************)
RunoutOfOwner ==
    fw.runout.active /\ fw.owner # NoSlot =>
        fw.runout.origin = fw.owner /\ fw.runout.box = BoxOf[fw.owner]

(***************************************************************************)
(* A poll that is told of a fault of the box whose filament is loaded      *)
(* leaves the print not running, and its resume blocked: no episode from   *)
(* before the print, from an operation or an earlier session, and no reply *)
(* that was lost, keeps the fault from being latched (_fault_key and       *)
(* _latch_fatal_fault).  The exception is a poll that was told of two      *)
(* loaded paths, as it can be while a change goes on: that ends it with a  *)
(* BoxError before it observes any fault (box.py:2633-2639), and what this *)
(* poll leaves unobserved is up to the next.                               *)
(***************************************************************************)
FaultStops ==
    [][\A b \in Boxes :
          /\ Answered("poll") /\ ~Answered("poll")'
          /\ ~Tangled(reads["poll"].got)
          /\ reads["poll"].got[b].status = "fault"
          /\ reads["poll"].got[b].slot # NoSlot
          => print' # "printing" /\ (print # "standby" => blocked')]_reads
============================================================================
