--------------------------- MODULE SnapshotStore ---------------------------
(***************************************************************************)
(* The durable store of power-loss recovery (AtomicSnapshotStore of        *)
(* extras/power_loss_recovery.py).                                         *)
(*                                                                         *)
(* The disk holds two journal slots, written in turn with a growing        *)
(* generation, one emergency record that is overwritten in place, and the  *)
(* context files that records refer to.  A worker thread writes them; the  *)
(* reactor hands it work under a lock.  The power may fail between any two *)
(* of its steps, and any of its writes may fail.                           *)
(*                                                                         *)
(* A snapshot is the print it belongs to, the byte position it resumes at  *)
(* and its context; a file is what _decode_record makes of it.             *)
(***************************************************************************)
EXTENDS Naturals, FiniteSets

CONSTANTS Sessions,   \* identities of prints, 1..n in the order they begin
          Positions,  \* byte positions of a file, 1..n
          Contexts,   \* what else a context says: mesh, objects, CFS
          MaxFaults   \* bound: writes that fail

ASSUME StoreAssumption ==
    /\ Sessions \subseteq Nat \ {0} /\ Positions \subseteq Nat \ {0}
    /\ Contexts \subseteq Nat
    /\ MaxFaults \in Nat

VARIABLES
    journal,   \* the two slots
    temp,      \* slots whose .tmp file exists
    emFile,    \* the emergency record
    ctxFiles,  \* the context files
    mem,       \* what the store keeps in memory
    w,         \* the worker thread
    poisoned,  \* the directory is in _STORE_POISONED
    gone,      \* prints that a completed tombstone has covered
    faults     \* writes that have failed

disk      == <<journal, temp, emFile, ctxFiles>>
storeVars == <<journal, temp, emFile, ctxFiles, mem, w, poisoned, gone, faults>>

Context(s, c) == <<s, c>>
NoContext     == <<0, 0>>
AnyContext    == (Sessions \X Contexts) \cup {NoContext}

Snapshots  == [ses : Sessions, pos : Positions, ctx : Sessions \X Contexts]
NoSnapshot == [ses |-> 0, pos |-> 0, ctx |-> NoContext]

None(s) == s.ses = 0

Records == [kind : {"none", "checkpoint", "tombstone"}, gen : Nat,
            snap : Snapshots \cup {NoSnapshot}]
NoRecord == [kind |-> "none", gen |-> 0, snap |-> NoSnapshot]

EmFiles == [kind : {"none", "torn", "emergency"},
            snap : Snapshots \cup {NoSnapshot}]
NoEmFile == [kind |-> "none", snap |-> NoSnapshot]

(* dropped: the prints that discard() was called for since the last start. *)
EmptyMemory ==
    [on |-> TRUE, stopping |-> FALSE, gen |-> 0, kind |-> "tombstone",
     normal |-> NoSnapshot, emergency |-> NoSnapshot, staged |-> NoSnapshot,
     newCheckpoint |-> NoSnapshot, newContext |-> NoContext,
     newEmergency |-> NoSnapshot, tombstone |-> FALSE,
     ctx |-> NoContext, contexts |-> {}, emError |-> FALSE, dropped |-> {}]

IdleWorker == [at |-> "idle", snap |-> NoSnapshot, ctx |-> NoContext, gen |-> 0]

----------------------------------------------------------------------------
(***************************************************************************)
(* Reading.                                                                *)
(***************************************************************************)

(* _select: the emergency record is preferred when it is further on in the *)
(* same print as the journal's checkpoint.                                 *)
SelectEmergency(kind, normal, emergency) ==
    IF kind # "checkpoint" THEN NoSnapshot
    ELSE IF ~None(emergency) THEN emergency ELSE normal

Select(kind, normal, emergency) ==
    IF kind # "checkpoint" THEN NoSnapshot
    ELSE IF emergency.ses = normal.ses /\ emergency.pos > normal.pos
         THEN emergency ELSE normal

Selected == Select(mem.kind, mem.normal, mem.emergency)

(* _load of the files j, t, e and c: a journal that cannot be trusted is   *)
(* suppressed as a whole.                                                  *)
Readable(r, c) == r.kind = "checkpoint" => r.snap.ctx \in c

Ambiguous(j, t, c) == t # {} \/ \E i \in {0, 1} : ~Readable(j[i], c)

Generation(j, c) ==
    LET gens == {j[i].gen : i \in {k \in {0, 1} : Readable(j[k], c)}}
    IN  IF gens = {} THEN 0 ELSE CHOOSE g \in gens : \A h \in gens : g >= h

Latest(j) == IF j[0].gen >= j[1].gen THEN j[0] ELSE j[1]

LoadedEmergency(e, c) ==
    IF e.kind = "emergency" /\ e.snap.ctx \in c THEN e.snap ELSE NoSnapshot

Loaded(j, t, e, c) ==
    LET em   == LoadedEmergency(e, c)
        base == [EmptyMemory EXCEPT
                   !.gen = Generation(j, c), !.emergency = em,
                   !.emError = e.kind # "none" /\ None(em),
                   !.contexts = c \cap {s.ctx : s \in {j[0].snap, j[1].snap, em}},
                   !.dropped = gone]
    IN  IF Ambiguous(j, t, c) THEN [base EXCEPT !.tombstone = TRUE]
        ELSE LET r == Latest(j)
                 chk == r.kind = "checkpoint"
             IN  [base EXCEPT
                    !.kind = IF chk THEN "checkpoint" ELSE "tombstone",
                    !.normal = IF chk THEN r.snap ELSE NoSnapshot]

(* What a restart would offer to recover, the disk being as it is. *)
DiskPoint ==
    IF Ambiguous(journal, temp, ctxFiles) THEN NoSnapshot
    ELSE LET r == Latest(journal)
         IN  Select(r.kind, r.snap, LoadedEmergency(emFile, ctxFiles))

----------------------------------------------------------------------------
(***************************************************************************)
(* The calls of the reactor thread, each under the lock.                   *)
(***************************************************************************)

Accepts(m) == ~m.stopping /\ m.on /\ ~m.tombstone

(* request_context; it returns the context when it is the current one. *)
RequestedContext(m, c) ==
    IF Accepts(m) /\ c # m.ctx THEN [m EXCEPT !.newContext = c] ELSE m

(* prepare finds the context in memory. *)
Prepares(m, s) == Accepts(m) /\ s.ctx \in m.contexts

Submitted(m, s) == [m EXCEPT !.newCheckpoint = s]

Eligible(m, s) ==
    /\ m.kind = "checkpoint" /\ ~m.tombstone
    /\ m.normal.ses = s.ses /\ s.pos > m.normal.pos

StagedEmergency(m, s) ==
    IF ~m.stopping /\ Eligible(m, s) THEN [m EXCEPT !.staged = s] ELSE m

QueuedEmergency(m) ==
    IF Accepts(m) /\ ~None(m.staged) /\ Eligible(m, m.staged)
    THEN [m EXCEPT !.newEmergency = m.staged] ELSE m

(* _set_tombstone_state *)
Tombstoned(m) ==
    [m EXCEPT !.kind = "tombstone", !.normal = NoSnapshot,
              !.emergency = NoSnapshot, !.staged = NoSnapshot,
              !.newCheckpoint = NoSnapshot, !.newContext = NoContext,
              !.newEmergency = NoSnapshot, !.ctx = NoContext]

(* The prints with a record on the disk, in memory, or on its way there.   *)
Recorded ==
    {s.ses : s \in {journal[0].snap, journal[1].snap, emFile.snap, mem.normal,
                    mem.newCheckpoint, mem.newEmergency, mem.staged, w.snap}}
    \ {0}

DiscardedLazily(m) ==
    IF m.stopping \/ ~m.on THEN m
    ELSE [m EXCEPT !.kind = "tombstone", !.tombstone = TRUE,
                   !.dropped = @ \cup Recorded]

Discarded(m) ==
    IF m.stopping \/ ~m.on THEN m
    ELSE [Tombstoned(m) EXCEPT !.tombstone = TRUE, !.dropped = @ \cup Recorded]

----------------------------------------------------------------------------
(***************************************************************************)
(* The worker thread.  It takes a task under the lock, writes without it,  *)
(* and takes note of what it wrote under the lock again.  A task is split  *)
(* where a power cut or a call of the reactor thread makes a difference.   *)
(***************************************************************************)

NothingPending ==
    /\ ~mem.tombstone /\ None(mem.newCheckpoint) /\ None(mem.newEmergency)
    /\ mem.newContext = NoContext

WorkerEndsAtOnce ==
    /\ w.at = "idle" /\ (mem.stopping \/ ~mem.on)
    /\ w' = [w EXCEPT !.at = "ended"]
    /\ UNCHANGED <<disk, mem, poisoned, gone, faults>>

WorkerEnds ==
    /\ w.at = "idle" /\ NothingPending /\ (mem.stopping \/ ~mem.on)
    /\ w' = [w EXCEPT !.at = "ended"]
    /\ UNCHANGED <<disk, mem, poisoned, gone, faults>>

Task(at, snap, ctx) == [at |-> at, snap |-> snap, ctx |-> ctx, gen |-> mem.gen + 1]

(* A slot of the journal alternates with the generation; _atomic_write     *)
(* writes its .tmp file and replaces it.                                   *)
Slot(gen) == gen % 2

PickTombstone ==
    /\ w.at = "idle" /\ mem.tombstone
    /\ mem' = [mem EXCEPT !.tombstone = FALSE]
    /\ w' = Task("tomb", NoSnapshot, NoContext)
    /\ temp' = temp \cup {Slot(w'.gen)}
    /\ UNCHANGED <<journal, emFile, ctxFiles, poisoned, gone, faults>>

(* _write_direct truncates the record before it writes it. *)
PickEmergency ==
    /\ w.at = "idle" /\ ~mem.tombstone /\ ~None(mem.newEmergency)
    /\ mem' = [mem EXCEPT !.newEmergency = NoSnapshot]
    /\ IF Eligible(mem, mem.newEmergency)
       THEN /\ w' = Task("emergency", mem.newEmergency, NoContext)
            /\ emFile' = [kind |-> "torn", snap |-> NoSnapshot]
       ELSE /\ w' = [IdleWorker EXCEPT !.at = "prune"]
            /\ UNCHANGED emFile
    /\ UNCHANGED <<journal, temp, ctxFiles, poisoned, gone, faults>>

PickContext ==
    /\ w.at = "idle" /\ ~mem.tombstone /\ None(mem.newEmergency)
    /\ mem.newContext # NoContext
    /\ mem' = [mem EXCEPT !.newContext = NoContext]
    /\ w' = Task("context", NoSnapshot, mem.newContext)
    /\ UNCHANGED <<disk, poisoned, gone, faults>>

PickCheckpoint ==
    /\ w.at = "idle" /\ ~mem.tombstone /\ None(mem.newEmergency)
    /\ mem.newContext = NoContext /\ ~None(mem.newCheckpoint)
    /\ mem' = [mem EXCEPT !.newCheckpoint = NoSnapshot]
    /\ w' = Task("checkpoint", mem.newCheckpoint, NoContext)
    /\ temp' = temp \cup {Slot(w'.gen)}
    /\ UNCHANGED <<journal, emFile, ctxFiles, poisoned, gone, faults>>

Replaced(slot, kind) ==
    journal' = [journal EXCEPT ![slot] =
                  [kind |-> kind, gen |-> w.gen, snap |-> w.snap]]

(* _seed_emergency: the first checkpoint is the first emergency record.    *)
Seeded ==
    emFile' = IF emFile.kind = "none" /\ ~mem.emError
              THEN [kind |-> "emergency", snap |-> w.snap] ELSE emFile

(* A discard that came while the checkpoint was written wins. *)
Committed ==
    IF mem.tombstone THEN [mem EXCEPT !.gen = w.gen]
    ELSE [mem EXCEPT !.gen = w.gen, !.kind = "checkpoint", !.normal = w.snap]

Finished == w' = [IdleWorker EXCEPT !.at = "prune"]

WriteCheckpoint ==
    /\ w.at = "checkpoint"
    /\ Replaced(Slot(w.gen), "checkpoint") /\ temp' = temp \ {Slot(w.gen)}
    /\ Seeded
    /\ mem' = Committed
    /\ Finished
    /\ UNCHANGED <<ctxFiles, poisoned, gone, faults>>

WriteContext ==
    /\ w.at = "context"
    /\ ctxFiles' = ctxFiles \cup {w.ctx}
    /\ mem' = [mem EXCEPT !.contexts = @ \cup {w.ctx},
                          !.ctx = IF mem.tombstone THEN @ ELSE w.ctx]
    /\ Finished
    /\ UNCHANGED <<journal, temp, emFile, poisoned, gone, faults>>

WriteEmergency ==
    /\ w.at = "emergency"
    /\ emFile' = [kind |-> "emergency", snap |-> w.snap]
    /\ mem' = IF mem.tombstone THEN mem
              ELSE [mem EXCEPT !.emergency = w.snap, !.emError = FALSE,
                               !.staged = IF @ = w.snap THEN NoSnapshot ELSE @]
    /\ Finished
    /\ UNCHANGED <<journal, temp, ctxFiles, poisoned, gone, faults>>

(* _prune_contexts: what no record and no request needs any more. *)
NeededInMemory ==
    {mem.ctx} \cup {s.ctx : s \in {mem.normal, mem.emergency, mem.staged,
                                   mem.newEmergency, mem.newCheckpoint}}

Needed ==
    NeededInMemory
    \cup {s.ctx : s \in {journal[0].snap, journal[1].snap, emFile.snap}}

Prune ==
    /\ w.at = "prune"
    /\ IF emFile.kind = "torn" THEN UNCHANGED <<mem, ctxFiles>>
       ELSE /\ ctxFiles' = ctxFiles \cap Needed
            /\ mem' = [mem EXCEPT !.contexts = @ \cap Needed]
    /\ w' = IdleWorker
    /\ UNCHANGED <<journal, temp, emFile, poisoned, gone, faults>>

(* _commit of a tombstone: one slot, the other, then the emergency record  *)
(* and the contexts.                                                       *)
WriteTombstone ==
    \/ /\ w.at = "tomb"
       /\ Replaced(Slot(w.gen), "tombstone")
       /\ temp' = (temp \ {Slot(w.gen)}) \cup {1 - Slot(w.gen)}
       /\ w' = [w EXCEPT !.at = "other"]
       /\ UNCHANGED <<emFile, ctxFiles, mem, poisoned, gone, faults>>
    \/ /\ w.at = "other"
       /\ Replaced(1 - Slot(w.gen), "tombstone") /\ temp' = {}
       /\ w' = [w EXCEPT !.at = "remove"]
       /\ UNCHANGED <<emFile, ctxFiles, mem, poisoned, gone, faults>>

(* _remove_session_files, and _worker taking note of it. *)
RemoveSession ==
    /\ w.at = "remove"
    /\ emFile' = NoEmFile /\ ctxFiles' = {}
    /\ mem' = [mem EXCEPT !.contexts = {}, !.gen = w.gen, !.kind = "tombstone",
                          !.normal = NoSnapshot]
    /\ gone' = gone \cup mem.dropped
    /\ w' = IdleWorker
    /\ UNCHANGED <<journal, temp, poisoned, faults>>

----------------------------------------------------------------------------
(***************************************************************************)
(* Failing writes.                                                         *)
(***************************************************************************)

MayFail == faults < MaxFaults /\ faults' = faults + 1

(* A failed emergency write is only remembered, also that of the seed. *)
SeedFails ==
    /\ w.at = "checkpoint" /\ MayFail
    /\ emFile.kind = "none" /\ ~mem.emError
    /\ Replaced(Slot(w.gen), "checkpoint") /\ temp' = temp \ {Slot(w.gen)}
    /\ mem' = [Committed EXCEPT !.emError = TRUE]
    /\ Finished
    /\ UNCHANGED <<emFile, ctxFiles, poisoned, gone>>

EmergencyFails ==
    /\ w.at = "emergency" /\ MayFail
    /\ mem' = [mem EXCEPT !.emError = TRUE]
    /\ w' = IdleWorker
    /\ UNCHANGED <<disk, poisoned, gone>>

Burying == w.at \in {"tomb", "other", "remove"}

(* Any other failure ends the store's service: nothing is recoverable any  *)
(* more, and its files are removed.                                        *)
WriteFails ==
    /\ Burying \/ w.at \in {"checkpoint", "context"}
    /\ MayFail
    /\ mem' = [Tombstoned(mem) EXCEPT
                 !.on = FALSE, !.tombstone = @ \/ Burying]
    /\ poisoned' = (poisoned \/ (mem.stopping /\ Burying))
    /\ w' = [w EXCEPT !.at = IF Burying THEN "clear tomb"
                             ELSE IF w.at = "context" THEN "clear context"
                             ELSE "clear"]
    /\ UNCHANGED <<disk, gone>>

Clearing == w.at \in {"clear tomb", "clear context", "clear"}

AfterClearing ==
    w' = [IdleWorker EXCEPT
            !.at = IF w.at = "clear context"
                      \/ (mem.stopping /\ w.at = "clear tomb")
                   THEN "ended" ELSE "idle"]

(* _invalidate_recovery_files: of the journal, its temporary files and the *)
(* emergency record those in kept could not be removed.                    *)
Invalidate(kept) ==
    /\ journal' = [i \in {0, 1} |-> IF i \in kept THEN journal[i] ELSE NoRecord]
    /\ temp' = temp \cap kept
    /\ emFile' = IF 2 \in kept THEN emFile ELSE NoEmFile

Cleared ==
    /\ Clearing /\ Invalidate({}) /\ AfterClearing
    /\ mem' = [mem EXCEPT !.tombstone = FALSE]
    /\ gone' = gone \cup (IF w.at = "clear tomb" THEN mem.dropped ELSE {})
    /\ UNCHANGED <<ctxFiles, poisoned, faults>>

(* A tombstone is tried again; a checkpoint's or a context's failure is not. *)
ClearFails ==
    /\ Clearing /\ MayFail /\ AfterClearing
    /\ \E kept \in SUBSET {0, 1, 2} : kept # {} /\ Invalidate(kept)
    /\ poisoned' = (poisoned \/ (mem.stopping /\ w.at = "clear tomb"))
    /\ UNCHANGED <<ctxFiles, mem, gone>>

Worker ==
    \/ WorkerEnds
    \/ PickTombstone \/ PickEmergency \/ PickContext \/ PickCheckpoint
    \/ WriteCheckpoint \/ WriteContext \/ WriteEmergency \/ Prune
    \/ WriteTombstone \/ RemoveSession
    \/ Cleared

----------------------------------------------------------------------------
(***************************************************************************)
(* Starting, stopping and losing power.                                    *)
(***************************************************************************)

StoreInit ==
    /\ journal = [i \in {0, 1} |-> NoRecord]
    /\ temp = {} /\ emFile = NoEmFile /\ ctxFiles = {}
    /\ mem = EmptyMemory /\ w = IdleWorker
    /\ poisoned = FALSE /\ gone = {} /\ faults = 0

(* close *)
StoreCloses ==
    /\ ~mem.stopping
    /\ mem' = [mem EXCEPT !.stopping = TRUE]
    /\ UNCHANGED <<disk, w, poisoned, gone, faults>>

(* A new store is of use only when the worker of the last one has ended:   *)
(* _STORE_OWNERS and _STORE_POISONED.                                      *)
StoreOpens ==
    /\ mem.stopping /\ w.at = "ended" /\ ~poisoned
    /\ mem' = Loaded(journal, temp, emFile, ctxFiles)
    /\ w' = IdleWorker
    /\ UNCHANGED <<disk, poisoned, gone, faults>>

(* The power fails and comes back: of what was not synchronised yet each   *)
(* part may be there or not.                                               *)
PowerCut ==
    /\ \E t \in SUBSET temp : temp' = t
    /\ IF w.at = "remove"
       THEN /\ emFile' \in {emFile, NoEmFile}
            /\ \E c \in SUBSET ctxFiles : ctxFiles' = c
       ELSE IF w.at = "prune" /\ emFile.kind # "torn"
       THEN /\ \E c \in SUBSET (ctxFiles \ Needed) : ctxFiles' = ctxFiles \ c
            /\ UNCHANGED emFile
       ELSE UNCHANGED <<emFile, ctxFiles>>
    /\ mem' = Loaded(journal, temp', emFile', ctxFiles')
    /\ w' = IdleWorker
    /\ poisoned' = FALSE
    /\ UNCHANGED <<journal, gone, faults>>

=============================================================================
