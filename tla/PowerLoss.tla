----------------------------- MODULE PowerLoss -----------------------------
(***************************************************************************)
(* Power-loss recovery (PowerLossRecovery of                               *)
(* extras/power_loss_recovery.py) over its store.                          *)
(*                                                                         *)
(* While a file prints, the tracker notes byte positions (candidates),     *)
(* waits until the machine has made the moves before them, and hands them  *)
(* to the store: as a checkpoint, and as an emergency record staged for    *)
(* the moment the supply fails.  A print that starts, ends or cannot be    *)
(* resumed discards what is stored.  PLR_RECOVER resumes a stored print.   *)
(*                                                                         *)
(* The file is read up to file and the machine has executed up to ran;     *)
(* done[s] is the furthest it ever got in print s.  Coordinates,           *)
(* temperatures and the CFS state in a snapshot are left out.              *)
(***************************************************************************)
EXTENDS SnapshotStore

CONSTANTS MaxGen,    \* bound: generations of the journal
          MaxStops,  \* bound: power cuts and restarts
          Flaps      \* a context may return to what it was

VARIABLES
    tr,       \* the tracker: the attributes of PowerLossRecovery
    state,    \* the file and the print, as virtual_sdcard sees them
    file,     \* what has been read of the file
    context,  \* what the context says now
    ran,      \* what has been executed of it
    done,     \* how far each print was ever executed
    begun,    \* identities given to prints
    stops     \* power cuts and restarts

vars == <<storeVars, tr, state, file, context, ran, done, begun, stops>>

trackVars == <<tr, state, file, context, ran, done, begun>>

States == {"none", "loaded", "printing", "complete", "recovering", "down"}

(* sig: _context_signature; ctx: context_id; cands: the candidates not     *)
(* submitted yet; safe: safe_candidate; prep: it was prepared.             *)
Trackers ==
    [ses : Sessions \cup {0}, started : BOOLEAN, fresh : BOOLEAN,
     recovered : BOOLEAN, inhibited : BOOLEAN,
     sig : AnyContext, ctx : AnyContext, cands : SUBSET Positions,
     safe : Positions \cup {0}, prep : BOOLEAN, completion : BOOLEAN]

NoSession ==
    [ses |-> 0, started |-> FALSE, fresh |-> FALSE,
     recovered |-> FALSE, inhibited |-> FALSE, sig |-> NoContext,
     ctx |-> NoContext, cands |-> {}, safe |-> 0, prep |-> FALSE,
     completion |-> FALSE]

Init ==
    /\ StoreInit
    /\ tr = NoSession /\ state = "none" /\ file = 0 /\ ran = 0
    /\ context = 1
    /\ done = [s \in Sessions |-> 0] /\ begun = 0 /\ stops = 0

(* What has been executed of print s, when p is now. *)
Furthest(s, p) ==
    IF s = 0 THEN done ELSE [done EXCEPT ![s] = IF p > @ THEN p ELSE @]

(* Bounds the discards and checkpoints of a run. *)
Room == mem.gen < MaxGen

Forget(t) == [t EXCEPT !.cands = {}, !.safe = 0, !.prep = FALSE]

StoreUnchanged == UNCHANGED storeVars

OnlyMemory == UNCHANGED <<disk, w, poisoned, gone, faults>>

DiscardIf(b) ==
    /\ b => Room
    /\ mem' = IF b THEN Discarded(mem) ELSE mem
    /\ OnlyMemory

----------------------------------------------------------------------------
(***************************************************************************)
(* The life of a print.                                                    *)
(***************************************************************************)

(* _start_loaded_session: the print gets a new identity s, or none when    *)
(* the file cannot be read.                                                *)
Begins(s) ==
    /\ s \in {0, begun + 1} \cap (Sessions \cup {0})
    /\ begun' = IF s = 0 THEN begun ELSE s

(* _handle_load_file: nothing is discarded yet.                            *)
LoadFile ==
    /\ state \in {"none", "loaded", "complete"} /\ begun + 1 \in Sessions
    /\ DiscardIf(tr.started)
    /\ \E s \in Sessions \cup {0} :
        Begins(s) /\ tr' = [NoSession EXCEPT !.fresh = TRUE, !.ses = s]
    /\ state' = "loaded" /\ file' = 0 /\ ran' = 0 /\ context' = 1
    /\ UNCHANGED <<done, stops>>

(* _handle_reset_file *)
ResetFile ==
    /\ state \in {"loaded", "complete"}
    /\ DiscardIf(tr.started)
    /\ tr' = NoSession /\ state' = "none" /\ file' = 0 /\ ran' = 0
    /\ UNCHANGED <<context, done, begun, stops>>

(* A print that has no identity yet gets one when it starts. *)
Starts ==
    \E s \in Sessions \cup {0} :
        /\ IF tr.ses = 0 THEN Begins(s) ELSE s = tr.ses /\ UNCHANGED begun
        /\ tr' = [tr EXCEPT !.started = TRUE, !.fresh = FALSE, !.ses = s]

(* _handle_print_start of a loaded file: it discards the old recovery.     *)
PrintStartKeeps ==
    /\ state = "loaded"
    /\ StoreUnchanged
    /\ Starts
    /\ state' = "printing"
    /\ UNCHANGED <<file, context, ran, done, stops>>

PrintStart ==
    /\ state = "loaded"
    /\ DiscardIf(tr.fresh)
    /\ Starts
    /\ state' = "printing"
    /\ UNCHANGED <<file, context, ran, done, stops>>

(* A context is still to be written, and will then be the current one.     *)
Awaited == mem.newContext # NoContext \/ w.at = "context"

(* Unless contexts flap, what a line changes is not what it was before, nor *)
(* (a recovery reads lines again) what is current while another is awaited. *)
Returns(c) ==
    c # context /\ (c < context \/ (Awaited /\ mem.ctx = Context(tr.ses, c)))

(* A line of the file is read; its moves are executed later.  It may       *)
(* change the mesh, the objects or the CFS data.                           *)
ReadLine ==
    /\ state = "printing" /\ file + 1 \in Positions
    /\ file' = file + 1
    /\ \E c \in Contexts : (Flaps \/ ~Returns(c)) /\ context' = c
    /\ StoreUnchanged
    /\ UNCHANGED <<tr, state, ran, done, begun, stops>>

Execute ==
    /\ tr.ses # 0 /\ state \in {"printing", "complete"}
    /\ ran < file /\ ran' = ran + 1
    /\ done' = Furthest(tr.ses, ran')
    /\ StoreUnchanged
    /\ UNCHANGED <<tr, state, file, context, begun, stops>>

(* _after_sd_line and _capture_candidate, when a candidate is due. A new   *)
(* context must be on disk before there are candidates with it.            *)
Capture ==
    /\ state = "printing" /\ tr.ses # 0 /\ ~tr.inhibited /\ file # 0
    /\ LET sig == Context(tr.ses, context)
       IN  IF sig # tr.sig
           THEN /\ mem' = RequestedContext(mem, sig)
                /\ tr' = [Forget(tr) EXCEPT
                            !.sig = sig,
                            !.ctx = IF Accepts(mem) /\ mem.ctx = sig THEN sig
                                                                ELSE NoContext]
           ELSE IF tr.ctx = NoContext /\ mem.ctx # sig
           THEN /\ mem' = IF mem.newContext = sig \/ w.ctx = sig THEN mem
                          ELSE RequestedContext(mem, sig)
                /\ UNCHANGED tr
           ELSE /\ tr' = [tr EXCEPT !.ctx = sig, !.cands = @ \cup {file}]
                /\ UNCHANGED mem
    /\ <<mem', tr'>> # <<mem, tr>>
    /\ OnlyMemory
    /\ UNCHANGED <<state, file, context, ran, done, begun, stops>>

(* _mature: the moves before the position have been executed.              *)
MatureEarly(p) == p <= file

Mature(p) == p <= ran

(* _promote: the newest mature candidate is staged, and submitted when the *)
(* last checkpoint is long enough ago.                                     *)
Promote ==
    /\ state \in {"printing", "complete"} /\ mem.on /\ ~mem.stopping
    /\ \E p \in tr.cands :
        /\ Mature(p) /\ \A q \in tr.cands : Mature(q) => q <= p
        /\ LET snap == [ses |-> tr.ses, pos |-> p, ctx |-> tr.ctx]
               ready == (tr.safe = p /\ tr.prep) \/ Prepares(mem, snap)
               staged == IF ready THEN StagedEmergency(mem, snap) ELSE mem
               noted == [tr EXCEPT !.safe = p, !.prep = ready]
           IN  \/ /\ tr' = noted
                  /\ mem' = IF ready THEN staged
                            ELSE [mem EXCEPT !.emError = @ \/ Accepts(mem)]
               \/ /\ ready /\ Accepts(mem) /\ Room
                  /\ mem' = Submitted(staged, snap)
                  /\ tr' = [noted EXCEPT
                              !.cands = {q \in @ : q > p}]
    /\ <<mem', tr'>> # <<mem, tr>>
    /\ OnlyMemory
    /\ UNCHANGED <<state, file, context, ran, done, begun, stops>>

(* _handle_power_signal: the supply or a motor reports that power fails.   *)
PowerSignal ==
    /\ tr.ses # 0 /\ ~tr.inhibited /\ tr.safe # 0
    /\ state \in {"printing", "complete"}
    /\ mem' = QueuedEmergency(mem) /\ mem' # mem
    /\ OnlyMemory
    /\ UNCHANGED <<trackVars, stops>>

(* _handle_print_complete; when the last moves are made, the timer         *)
(* discards.                                                               *)
Complete ==
    /\ state = "printing" /\ state' = "complete"
    /\ tr' = [tr EXCEPT !.completion = tr.ses # 0]
    /\ StoreUnchanged
    /\ UNCHANGED <<file, context, ran, done, begun, stops>>

CompletionMatures ==
    /\ tr.completion /\ ran = file /\ mem.on
    /\ DiscardIf(TRUE)
    /\ tr' = NoSession /\ UNCHANGED state
    /\ UNCHANGED <<file, context, ran, done, begun, stops>>

(* _handle_print_cancel, _handle_print_error *)
Cancel ==
    /\ state = "printing"
    /\ DiscardIf(TRUE)
    /\ tr' = NoSession /\ state' = "none" /\ file' = 0 /\ ran' = 0
    /\ UNCHANGED <<context, done, begun, stops>>

ErrorEnds ==
    /\ state = "printing"
    /\ DiscardIf(~tr.recovered)
    /\ tr' = NoSession /\ state' = "none" /\ file' = 0 /\ ran' = 0
    /\ UNCHANGED <<context, done, begun, stops>>

(* _inhibit: an object is excluded, a tuning tower runs, or the print is   *)
(* too high; PLR_DISCARD.                                                  *)
Inhibit ==
    /\ state = "printing" /\ ~tr.inhibited
    /\ DiscardIf(TRUE)
    /\ tr' = [Forget(tr) EXCEPT !.inhibited = TRUE]
    /\ UNCHANGED <<state, file, context, ran, done, begun, stops>>

CmdDiscard ==
    /\ state # "recovering" /\ state # "down"
    /\ ~None(Selected)
    /\ DiscardIf(TRUE)
    /\ tr' = [Forget(tr) EXCEPT !.inhibited = TRUE, !.completion = FALSE]
    /\ UNCHANGED <<state, file, context, ran, done, begun, stops>>

----------------------------------------------------------------------------
(***************************************************************************)
(* Recovery, restarts and power cuts.                                      *)
(***************************************************************************)

(* PLR_RECOVER, up to the motion: the tracker takes up the stored print.   *)
(* Moves still queued are made before those of the recovery.               *)
RecoverBegins ==
    /\ state \in {"none", "loaded", "complete"} /\ ~None(Selected)
    /\ tr' = [Forget(tr) EXCEPT
                !.ses = Selected.ses, !.completion = FALSE,
                !.fresh = FALSE, !.inhibited = FALSE]
    /\ file' = Selected.pos /\ ran' = Selected.pos
    /\ done' = Furthest(tr.ses, file)
    /\ context' = Selected.ctx[2]
    /\ state' = "recovering"
    /\ StoreUnchanged
    /\ UNCHANGED <<begun, stops>>

(* The print goes on at the saved position: do_resume, and with it         *)
(* _handle_print_start, whose _bind_box_state may fail, which pauses it.   *)
(* Heating and homing take minutes: a context asked for before is written  *)
(* by then.                                                                *)
RecoverEnds ==
    /\ state = "recovering" /\ state' = "printing"
    /\ Flaps \/ ~Awaited
    /\ \E bound \in BOOLEAN :
        tr' = [tr EXCEPT !.started = TRUE, !.recovered = bound]
    /\ StoreUnchanged
    /\ UNCHANGED <<file, context, ran, done, begun, stops>>

(* _cleanup_failed_recovery: the file is closed, the checkpoint stays.     *)
RecoverFails ==
    /\ state = "recovering" /\ state' = "none"
    /\ file' = 0
    /\ StoreUnchanged
    /\ UNCHANGED <<tr, context, ran, done, begun, stops>>

Stop == stops < MaxStops /\ stops' = stops + 1

(* klippy:disconnect, and the next start within the same process.          *)
Close ==
    /\ state # "down" /\ Stop
    /\ StoreCloses
    /\ tr' = NoSession /\ state' = "down" /\ file' = 0 /\ ran' = 0
    /\ UNCHANGED <<context, done, begun>>

Reopen ==
    /\ state = "down"
    /\ StoreOpens
    /\ state' = "none"
    /\ UNCHANGED <<tr, file, context, ran, done, begun, stops>>

CutPower ==
    /\ Stop
    /\ PowerCut
    /\ tr' = NoSession /\ state' = "none" /\ file' = 0 /\ ran' = 0
    /\ UNCHANGED <<context, done, begun>>

Work ==
    /\ \/ Worker \/ SeedFails \/ EmergencyFails \/ WriteFails \/ ClearFails
    /\ UNCHANGED <<trackVars, stops>>

Next ==
    \/ LoadFile \/ ResetFile \/ PrintStart \/ ReadLine \/ Execute \/ Capture \/ Promote
    \/ PowerSignal \/ Complete \/ CompletionMatures \/ Cancel \/ ErrorEnds
    \/ Inhibit \/ CmdDiscard
    \/ RecoverBegins \/ RecoverEnds \/ RecoverFails
    \/ Close \/ Reopen \/ CutPower
    \/ Work

Spec == Init /\ [][Next]_vars

(* The storage thread goes on. *)
FairSpec == Spec /\ WF_vars(Worker /\ UNCHANGED <<trackVars, stops>>)

----------------------------------------------------------------------------
(***************************************************************************)
(* Properties.                                                             *)
(***************************************************************************)

TypeOK ==
    /\ journal \in [{0, 1} -> Records] /\ temp \subseteq {0, 1}
    /\ emFile \in EmFiles /\ ctxFiles \subseteq Sessions \X Contexts
    /\ tr \in Trackers /\ state \in States /\ file \in Positions \cup {0}
    /\ ran \in Positions \cup {0}
    /\ context \in Contexts /\ done \in [Sessions -> Positions \cup {0}]
    /\ begun \in Sessions \cup {0} /\ gone \subseteq Sessions

(* Whenever the power fails, the print resumes at a position whose moves   *)
(* had been made: nothing is left out.                                     *)
ResumesNotAhead == ~None(DiskPoint) => DiskPoint.pos <= done[DiskPoint.ses]

(* What a finished discard covered is never offered again, whatever was in *)
(* flight, failed or was cut off since; and this session offers nothing it *)
(* was told to discard, also when its last checkpoint was being written.   *)
DiscardedStaysGone ==
    /\ DiskPoint.ses \notin gone
    /\ Selected.ses \notin gone \cup mem.dropped

(* What the journal has acknowledged survives a power cut, but for a cut   *)
(* while the journal is written, which suppresses recovery; an emergency   *)
(* write that is cut short costs nothing of it.                            *)
AcknowledgedKept ==
    mem.on /\ mem.kind = "checkpoint" /\ temp = {} =>
        /\ DiskPoint.ses = mem.normal.ses
        /\ DiskPoint.pos >= mem.normal.pos

(* A record in the journal has its context on disk, however the cleanup of *)
(* contexts is cut off.                                                    *)
ContextKept == \A i \in {0, 1} : Readable(journal[i], ctxFiles)

(* While a print runs, what could be recovered is that print. *)
OfferIsThisPrint ==
    state = "printing" /\ ~None(Selected) => Selected.ses = tr.ses

(* A discard reaches the disk, unless the power fails first or the store   *)
(* has failed for good.                                                    *)
DiscardEnds ==
    mem.tombstone ~>
        DiskPoint.ses \notin mem.dropped \/ (~mem.on /\ w.at = "ended")

(* command-reference.md: PLR_DISCARD deletes the saved checkpoint.         *)
DiscardDeletes ==
    mem.tombstone ~> DiskPoint.ses \notin mem.dropped \/ poisoned

=============================================================================
