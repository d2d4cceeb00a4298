-------------------------- MODULE PowerLossProofs --------------------------
(***************************************************************************)
(* Proofs about PowerLoss, for any prints, positions, contexts, failing    *)
(* writes, power cuts and restarts.                                        *)
(***************************************************************************)
EXTENDS PowerLoss, TLAPS

MemFields == {"on", "stopping", "gen", "kind", "normal", "emergency", "staged",
              "newCheckpoint", "newContext", "newEmergency", "tombstone", "ctx",
              "contexts", "emError", "dropped"}

TrackFields == {"ses", "started", "fresh", "recovered", "inhibited",
                "sig", "ctx", "cands", "safe", "prep", "completion"}

\* The records have the fields the program's objects have.
StoreShapes ==
    /\ DOMAIN mem = MemFields /\ DOMAIN w = {"at", "snap", "ctx", "gen"}
    /\ DOMAIN journal = {0, 1}

\* Every snapshot there is: in memory, on the disk, and on its way.
MemSnaps(m) == {m.normal, m.emergency, m.staged, m.newCheckpoint, m.newEmergency}
DiskSnaps == {journal[0].snap, journal[1].snap, emFile.snap, w.snap}
Snaps == MemSnaps(mem) \cup DiskSnaps

\* The moves before the position of s had been made, d being done.
Made(s, d) == s.ses = 0 \/ (s.ses \in Sessions /\ s.pos \in Nat /\ s.pos <= d[s.ses])

Progress ==
    /\ DOMAIN tr = TrackFields
    /\ done \in [Sessions -> Nat] /\ file \in Nat /\ ran \in Nat
    /\ tr.ses \in Sessions \cup {0} /\ tr.cands \subseteq Nat
    /\ tr.ses # 0 => ran <= done[tr.ses]
    /\ state = "loaded" => ran = 0

\* ResumesNotAhead, of every snapshot and not only of the one a restart offers.
IInv == StoreShapes /\ Progress /\ \A s \in Snaps : Made(s, done)

-----------------------------------------------------------------------------
(* The operators.                                                          *)

\* What has been executed only grows.
LEMMA FurthestGrows ==
    ASSUME done \in [Sessions -> Nat], NEW s \in Sessions \cup {0}, NEW p \in Nat
    PROVE  /\ Furthest(s, p) \in [Sessions -> Nat]
           /\ \A t \in Sessions : Furthest(s, p)[t] >= done[t]
           /\ s # 0 => Furthest(s, p)[s] >= p
BY StoreAssumption DEF Furthest

\* A made snapshot stays made when more is executed.
LEMMA MadeStays ==
    ASSUME NEW s, NEW d \in [Sessions -> Nat], NEW e \in [Sessions -> Nat],
           \A t \in Sessions : e[t] >= d[t], Made(s, d)
    PROVE  Made(s, e)
BY DEF Made

LEMMA NoneMade == \A d : Made(NoSnapshot, d)
BY DEF Made, NoSnapshot

\* What memory and the disk would offer is one of the snapshots, or nothing.
LEMMA SelectedAmong == Selected \in Snaps \cup {NoSnapshot}
BY DEF Selected, Select, Snaps, MemSnaps

LEMMA DiskPointAmong == DiskPoint \in Snaps \cup {NoSnapshot}
BY DEF DiskPoint, Select, Latest, LoadedEmergency, Snaps, DiskSnaps

\* A store that is opened holds what the files hold.
LEMMA LoadedAmong ==
    ASSUME NEW j, NEW t, NEW e, NEW c
    PROVE  /\ DOMAIN Loaded(j, t, e, c) = MemFields
           /\ MemSnaps(Loaded(j, t, e, c)) \subseteq
                {j[0].snap, j[1].snap, e.snap, NoSnapshot}
BY DEF Loaded, LoadedEmergency, Latest, EmptyMemory, MemFields, MemSnaps

\* A discard takes snapshots out of memory and puts none there.
LEMMA DiscardedAmong ==
    ASSUME NEW m, DOMAIN m = MemFields
    PROVE  /\ DOMAIN Tombstoned(m) = MemFields /\ DOMAIN Discarded(m) = MemFields
           /\ MemSnaps(Tombstoned(m)) = {NoSnapshot}
           /\ MemSnaps(Discarded(m)) \subseteq MemSnaps(m) \cup {NoSnapshot}
<1>1. DOMAIN Tombstoned(m) = MemFields /\ MemSnaps(Tombstoned(m)) = {NoSnapshot}
  BY DEF Tombstoned, MemFields, MemSnaps
<1>2. CASE m.stopping \/ ~m.on
  BY <1>1, <1>2 DEF Discarded
<1>3. CASE ~(m.stopping \/ ~m.on)
  <2> DEFINE n == [Tombstoned(m) EXCEPT !.tombstone = TRUE, !.dropped = @ \cup Recorded]
  <2>1. Discarded(m) = n
    BY <1>3 DEF Discarded
  <2>2. DOMAIN n = MemFields /\ MemSnaps(n) = MemSnaps(Tombstoned(m))
    BY <1>1 DEF MemSnaps
  <2>. QED BY <1>1, <2>1, <2>2
<1>. QED BY <1>2, <1>3

-----------------------------------------------------------------------------
(* The store.  No step of it makes up a snapshot.                          *)

FromBefore == StoreShapes' /\ Snaps' \subseteq Snaps \cup {NoSnapshot}

LEMMA ReplacedAmong ==
    ASSUME DOMAIN journal = {0, 1}, NEW slot, NEW kind, Replaced(slot, kind)
    PROVE  /\ DOMAIN journal' = {0, 1}
           /\ {journal'[0].snap, journal'[1].snap} \subseteq
                {journal[0].snap, journal[1].snap, w.snap}
BY DEF Replaced

\* The worker takes a task.
LEMMA PickAmong ==
    ASSUME StoreShapes, PickTombstone \/ PickEmergency \/ PickContext \/ PickCheckpoint
    PROVE  FromBefore
<1> USE DEF StoreShapes, MemFields, Snaps, MemSnaps, DiskSnaps, FromBefore, Task, disk,
        IdleWorker
<1>1. CASE PickTombstone
  BY <1>1 DEF PickTombstone
<1>2. CASE PickEmergency
  BY <1>2 DEF PickEmergency
<1>3. CASE PickContext
  BY <1>3 DEF PickContext
<1>4. CASE PickCheckpoint
  BY <1>4 DEF PickCheckpoint
<1>. QED BY <1>1, <1>2, <1>3, <1>4

\* The worker writes a file and takes note of it.
LEMMA WriteAmong ==
    ASSUME StoreShapes, WriteCheckpoint \/ SeedFails \/ WriteContext \/ WriteEmergency
    PROVE  FromBefore
<1> USE DEF StoreShapes, MemFields, Snaps, MemSnaps, DiskSnaps, FromBefore, Finished, IdleWorker
<1>1. CASE WriteCheckpoint \/ SeedFails
  <2>1. {journal'[0].snap, journal'[1].snap} \subseteq {journal[0].snap, journal[1].snap, w.snap}
        /\ DOMAIN journal' = {0, 1}
    BY <1>1, ReplacedAmong DEF WriteCheckpoint, SeedFails
  <2>2. emFile'.snap \in {emFile.snap, w.snap}
    BY <1>1 DEF WriteCheckpoint, SeedFails, Seeded
  <2>3. DOMAIN mem' = MemFields /\ MemSnaps(mem') \subseteq MemSnaps(mem) \cup {w.snap}
    <3>1. DOMAIN Committed = MemFields /\ MemSnaps(Committed) \subseteq MemSnaps(mem) \cup {w.snap}
      BY DEF Committed
    <3>2. mem' \in {Committed, [Committed EXCEPT !.emError = TRUE]}
      BY <1>1 DEF WriteCheckpoint, SeedFails
    <3>. QED BY <3>1, <3>2
  <2>4. DOMAIN w' = DOMAIN w /\ w'.snap = NoSnapshot
    BY <1>1 DEF WriteCheckpoint, SeedFails
  <2>. QED BY <2>1, <2>2, <2>3, <2>4
<1>2. CASE WriteContext
  BY <1>2 DEF WriteContext
<1>3. CASE WriteEmergency
  <2>1. DOMAIN mem' = MemFields
        /\ MemSnaps(mem') \subseteq MemSnaps(mem) \cup {w.snap, NoSnapshot}
    BY <1>3 DEF WriteEmergency
  <2>2. emFile'.snap = w.snap /\ w'.snap = NoSnapshot /\ DOMAIN w' = DOMAIN w
        /\ journal' = journal
    BY <1>3 DEF WriteEmergency
  <2>. QED BY <2>1, <2>2
<1>. QED BY <1>1, <1>2, <1>3

\* The worker buries a print, prunes contexts or ends.
LEMMA BuryAmong ==
    ASSUME StoreShapes, WriteTombstone \/ RemoveSession \/ Prune \/ WorkerEnds
    PROVE  FromBefore
<1> USE DEF StoreShapes, MemFields, Snaps, MemSnaps, DiskSnaps, FromBefore, IdleWorker, disk
<1>1. CASE WriteTombstone
  <2>1. {journal'[0].snap, journal'[1].snap} \subseteq {journal[0].snap, journal[1].snap, w.snap}
        /\ DOMAIN journal' = {0, 1}
    BY <1>1, ReplacedAmong DEF WriteTombstone
  <2>2. UNCHANGED <<emFile, mem>> /\ DOMAIN w' = DOMAIN w /\ w'.snap = w.snap
    BY <1>1 DEF WriteTombstone
  <2>. QED BY <2>1, <2>2
<1>2. CASE RemoveSession
  BY <1>2 DEF RemoveSession, NoEmFile
<1>3. CASE Prune
  BY <1>3 DEF Prune
<1>4. CASE WorkerEnds
  BY <1>4 DEF WorkerEnds
<1>. QED BY <1>1, <1>2, <1>3, <1>4

\* A write fails, and the files are removed as far as they can be.
LEMMA FailAmong ==
    ASSUME StoreShapes, EmergencyFails \/ WriteFails \/ Cleared \/ ClearFails
    PROVE  FromBefore
<1> USE DEF StoreShapes, MemFields, Snaps, MemSnaps, DiskSnaps, FromBefore, IdleWorker, disk
<1>1. CASE EmergencyFails
  BY <1>1 DEF EmergencyFails
<1>2. CASE WriteFails
  <2>1. DOMAIN Tombstoned(mem) = MemFields /\ MemSnaps(Tombstoned(mem)) = {NoSnapshot}
    BY DiscardedAmong
  <2>2. DOMAIN mem' = MemFields /\ MemSnaps(mem') = MemSnaps(Tombstoned(mem))
    BY <1>2, <2>1 DEF WriteFails
  <2>3. DOMAIN w' = DOMAIN w /\ w'.snap = w.snap /\ UNCHANGED <<journal, emFile>>
    BY <1>2 DEF WriteFails
  <2>. QED BY <2>1, <2>2, <2>3
<1>3. ASSUME NEW kept, Invalidate(kept)
      PROVE  /\ DOMAIN journal' = {0, 1}
             /\ {journal'[0].snap, journal'[1].snap, emFile'.snap} \subseteq
                  {journal[0].snap, journal[1].snap, emFile.snap, NoSnapshot}
  BY <1>3 DEF Invalidate, NoRecord, NoEmFile
<1>4. CASE Cleared
  <2>1. DOMAIN w' = DOMAIN w /\ w'.snap = NoSnapshot
    BY <1>4 DEF Cleared, AfterClearing
  <2>2. DOMAIN mem' = MemFields /\ MemSnaps(mem') = MemSnaps(mem)
    BY <1>4 DEF Cleared
  <2>. QED BY <1>3, <1>4, <2>1, <2>2 DEF Cleared
<1>5. CASE ClearFails
  <2>1. DOMAIN w' = DOMAIN w /\ w'.snap = NoSnapshot /\ mem' = mem
    BY <1>5 DEF ClearFails, AfterClearing
  <2>. QED BY <1>3, <1>5, <2>1 DEF ClearFails
<1>. QED BY <1>1, <1>2, <1>4, <1>5

\* Stopping, starting and losing power.
LEMMA StopAmong ==
    ASSUME StoreShapes, StoreCloses \/ StoreOpens \/ PowerCut
    PROVE  FromBefore
<1> USE DEF StoreShapes, FromBefore
<1>1. CASE StoreCloses
  BY <1>1 DEF StoreCloses, disk, Snaps, MemSnaps, DiskSnaps, MemFields
<1>2. CASE StoreOpens
  <2>1. DOMAIN mem' = MemFields
        /\ MemSnaps(mem') \subseteq {journal[0].snap, journal[1].snap, emFile.snap, NoSnapshot}
    BY <1>2, LoadedAmong DEF StoreOpens
  <2>2. w' = IdleWorker /\ UNCHANGED <<journal, emFile>>
    BY <1>2 DEF StoreOpens, disk
  <2>. QED BY <2>1, <2>2 DEF IdleWorker, Snaps, DiskSnaps
<1>3. CASE PowerCut
  <2>1. UNCHANGED journal /\ emFile'.snap \in {emFile.snap, NoSnapshot}
    BY <1>3 DEF PowerCut, NoEmFile
  <2>2. DOMAIN mem' = MemFields
        /\ MemSnaps(mem') \subseteq
             {journal[0].snap, journal[1].snap, emFile'.snap, NoSnapshot}
    BY <1>3, LoadedAmong DEF PowerCut
  <2>3. w' = IdleWorker
    BY <1>3 DEF PowerCut
  <2>. QED BY <2>1, <2>2, <2>3 DEF IdleWorker, Snaps, DiskSnaps
<1>. QED BY <1>1, <1>2, <1>3

\* What the reactor thread does to memory alone.
LEMMA DiscardIfAmong ==
    ASSUME StoreShapes, NEW b, DiscardIf(b)
    PROVE  FromBefore
<1>1. DOMAIN mem' = MemFields /\ MemSnaps(mem') \subseteq MemSnaps(mem) \cup {NoSnapshot}
  BY DiscardedAmong DEF DiscardIf, StoreShapes
<1>. QED BY <1>1 DEF DiscardIf, OnlyMemory, disk, FromBefore, StoreShapes, Snaps, DiskSnaps

LEMMA UnchangedAmong ==
    ASSUME StoreShapes, StoreUnchanged
    PROVE  FromBefore
BY DEF StoreUnchanged, storeVars, FromBefore, StoreShapes, Snaps, MemSnaps, DiskSnaps

LEMMA RequestAmong ==
    ASSUME NEW m, DOMAIN m = MemFields, NEW c
    PROVE  /\ DOMAIN RequestedContext(m, c) = MemFields
           /\ MemSnaps(RequestedContext(m, c)) = MemSnaps(m)
BY DEF RequestedContext, MemSnaps, MemFields

LEMMA StagedAmong ==
    ASSUME NEW m, DOMAIN m = MemFields, NEW s
    PROVE  /\ DOMAIN StagedEmergency(m, s) = MemFields
           /\ DOMAIN Submitted(m, s) = MemFields
           /\ MemSnaps(StagedEmergency(m, s)) \subseteq MemSnaps(m) \cup {s}
           /\ MemSnaps(Submitted(m, s)) \subseteq MemSnaps(m) \cup {s}
BY DEF StagedEmergency, Submitted, MemSnaps, MemFields

LEMMA QueuedAmong ==
    ASSUME NEW m, DOMAIN m = MemFields
    PROVE  /\ DOMAIN QueuedEmergency(m) = MemFields
           /\ MemSnaps(QueuedEmergency(m)) \subseteq MemSnaps(m)
BY DEF QueuedEmergency, MemSnaps, MemFields

-----------------------------------------------------------------------------
(* Every snapshot is of moves that were made.                              *)

Grows == \A t \in Sessions : done'[t] >= done[t]

\* A step that makes up no snapshot and undoes nothing keeps the invariant.
LEMMA IInvStep ==
    ASSUME IInv, FromBefore, Progress', Grows
    PROVE  IInv'
<1>1. ASSUME NEW s \in Snaps'
      PROVE  Made(s, done')
  <2>1. Made(s, done)
    BY NoneMade DEF FromBefore, IInv
  <2>. QED BY <2>1, MadeStays DEF IInv, Progress, Grows
<1>. QED BY <1>1 DEF IInv, FromBefore

LEMMA SameGrows ==
    ASSUME Progress, UNCHANGED done
    PROVE  Grows
<1>1. done \in [Sessions -> Nat]
  BY DEF Progress
<1>2. \A t \in Sessions : done[t] \in Nat
  BY <1>1
<1>. QED BY <1>2 DEF Grows

\* A step of no print, of the same print with nothing executed, or of one that
\* has just begun.
LEMMA SameProgress ==
    ASSUME Progress, UNCHANGED done, DOMAIN tr' = TrackFields,
           tr'.cands \subseteq tr.cands \cup {file}, file' \in Nat,
           \/ tr'.ses = 0 /\ ran' \in Nat
           \/ tr'.ses = tr.ses /\ ran' = ran
           \/ tr'.ses \in Sessions /\ ran' = 0,
           state' = "loaded" => ran' = 0 \/ (state = "loaded" /\ ran' = ran)
    PROVE  Progress'
<1>1. done \in [Sessions -> Nat] /\ 0 \notin Sessions
  BY StoreAssumption DEF Progress
<1>2. \A t \in Sessions : 0 <= done[t]
  BY <1>1
<1>3. tr'.cands \subseteq Nat
  BY DEF Progress
<1>. QED BY <1>1, <1>2, <1>3 DEF Progress

LEMMA InitIInv == Init => IInv
<1> SUFFICES ASSUME Init PROVE IInv
  OBVIOUS
<1>1. StoreShapes /\ \A s \in Snaps : s = NoSnapshot
  BY DEF Init, StoreInit, StoreShapes, EmptyMemory, MemFields, IdleWorker, NoRecord, NoEmFile,
     Snaps, MemSnaps, DiskSnaps
<1>2. Progress
  BY StoreAssumption DEF Init, Progress, NoSession, TrackFields
<1>. QED BY <1>1, <1>2, NoneMade DEF IInv

\* Work of the storage thread, and what it and the tracker leave alone.
LEMMA WorkIInv ==
    ASSUME IInv, Work
    PROVE  IInv'
<1>1. FromBefore
  BY PickAmong, WriteAmong, BuryAmong, FailAmong DEF Work, Worker, IInv
<1>2. UNCHANGED <<tr, state, file, ran, done>> /\ Progress
  BY DEF Work, trackVars, IInv
<1>3. Progress'
  BY <1>2 DEF Progress
<1>. QED BY <1>1, <1>2, <1>3, SameGrows, IInvStep

\* A print gets an identity when it is loaded or, had it none, when it starts.
LEMMA BeginsWith ==
    ASSUME NEW s, Begins(s)
    PROVE  \/ s = 0 /\ begun' = begun
           \/ s = begun + 1 /\ s \in Sessions /\ begun' = s
BY StoreAssumption DEF Begins

LEMMA StartsWith ==
    ASSUME DOMAIN tr = TrackFields, Starts
    PROVE  /\ DOMAIN tr' = TrackFields
           /\ tr'.sig = tr.sig /\ tr'.ctx = tr.ctx /\ tr'.cands = tr.cands
           /\ tr'.prep = tr.prep /\ tr'.inhibited = tr.inhibited
           /\ tr'.completion = tr.completion
           /\ \/ tr'.ses = tr.ses /\ begun' = begun
              \/ tr'.ses = begun + 1 /\ tr'.ses \in Sessions /\ begun' = begun + 1
<1>1. PICK s : /\ IF tr.ses = 0 THEN Begins(s) ELSE s = tr.ses /\ UNCHANGED begun
               /\ tr' = [tr EXCEPT !.started = TRUE, !.fresh = FALSE, !.ses = s]
  BY DEF Starts
<1>2. \/ s = tr.ses /\ begun' = begun
      \/ s = begun + 1 /\ s \in Sessions /\ begun' = begun + 1
  BY <1>1, BeginsWith
<1>. QED BY <1>1, <1>2 DEF TrackFields

\* The print begins, is read, is executed and ends.
LEMMA PrintIInv ==
    ASSUME IInv,
           \/ LoadFile \/ ResetFile \/ PrintStart \/ ReadLine \/ Execute \/ Complete
           \/ CompletionMatures \/ Cancel \/ ErrorEnds \/ Inhibit \/ CmdDiscard
    PROVE  IInv'
<1>0. Progress /\ DOMAIN tr = TrackFields /\ file \in Nat /\ ran \in Nat
  BY DEF IInv, Progress
<1>1. CASE LoadFile
  <2>1. FromBefore
    BY <1>1, DiscardIfAmong DEF LoadFile, IInv
  <2>2. /\ DOMAIN tr' = TrackFields /\ tr'.cands = {} /\ tr'.ses \in Sessions \cup {0}
        /\ UNCHANGED done /\ file' = 0 /\ ran' = 0
    BY <1>1 DEF LoadFile, NoSession, TrackFields
  <2>3. Progress'
    BY <1>0, <2>2, SameProgress
  <2>. QED BY <1>0, <1>1, <2>1, <2>3, SameGrows, IInvStep DEF LoadFile
<1>2. CASE ResetFile \/ Cancel \/ ErrorEnds \/ CompletionMatures
  <2>1. FromBefore
    BY <1>2, DiscardIfAmong DEF ResetFile, Cancel, ErrorEnds, CompletionMatures, IInv
  <2>2. /\ tr' = NoSession /\ UNCHANGED done
        /\ (file' = 0 /\ ran' = 0) \/ UNCHANGED <<state, file, ran>>
    BY <1>2, Zenon DEF ResetFile, Cancel, ErrorEnds, CompletionMatures
  <2>3. /\ DOMAIN tr' = TrackFields /\ tr'.cands = {} /\ tr'.ses = 0
        /\ file' \in Nat /\ ran' \in Nat
    BY <1>0, <2>2 DEF NoSession, TrackFields
  <2>. QED BY <1>0, <2>1, <2>2, <2>3, SameProgress, SameGrows, IInvStep
<1>6. CASE PrintStart
  <2>1. FromBefore
    BY <1>6, DiscardIfAmong DEF PrintStart, IInv
  <2>2. state = "loaded" /\ UNCHANGED <<file, ran, done>> /\ Starts
    BY <1>6 DEF PrintStart
  <2>3. DOMAIN tr' = TrackFields /\ tr'.cands = tr.cands /\ tr'.ses \in Sessions \cup {tr.ses}
    BY <1>0, <2>2, StartsWith
  <2>4. ran' = 0
    BY <1>0, <2>2 DEF Progress
  <2>. QED BY <1>0, <2>1, <2>2, <2>3, <2>4, SameProgress, SameGrows, IInvStep
<1>3. CASE Inhibit \/ CmdDiscard
  <2>1. FromBefore
    BY <1>3, DiscardIfAmong DEF Inhibit, CmdDiscard, IInv
  <2>2. DOMAIN tr' = TrackFields /\ tr'.cands \subseteq tr.cands /\ tr'.ses = tr.ses
    BY <1>0, <1>3 DEF Inhibit, CmdDiscard, Forget, TrackFields
  <2>3. UNCHANGED <<state, file, ran, done>>
    BY <1>3 DEF Inhibit, CmdDiscard
  <2>. QED BY <1>0, <2>1, <2>2, <2>3, SameProgress, SameGrows, IInvStep
<1>4. CASE ReadLine \/ Complete
  <2>1. FromBefore
    BY <1>4, UnchangedAmong DEF ReadLine, Complete, IInv
  <2>2. DOMAIN tr' = TrackFields /\ tr'.cands = tr.cands /\ tr'.ses = tr.ses
    BY <1>0, <1>4 DEF ReadLine, Complete, TrackFields
  <2>3. UNCHANGED <<ran, done>> /\ file' \in Nat /\ state' # "loaded"
    BY <1>0, <1>4, StoreAssumption DEF ReadLine, Complete
  <2>. QED BY <1>0, <2>1, <2>2, <2>3, SameProgress, SameGrows, IInvStep
<1>5. CASE Execute
  <2>1. FromBefore
    BY <1>5, UnchangedAmong DEF Execute, IInv
  <2>2. /\ ran' \in Nat /\ UNCHANGED <<tr, state, file>> /\ state # "loaded"
        /\ done' = Furthest(tr.ses, ran') /\ tr.ses # 0
    BY <1>0, <1>5 DEF Execute
  <2>3. done' \in [Sessions -> Nat] /\ Grows /\ ran' <= done'[tr.ses]
    <3>1. done \in [Sessions -> Nat] /\ tr.ses \in Sessions
      BY <1>0, <2>2 DEF Progress
    <3>2. /\ Furthest(tr.ses, ran') \in [Sessions -> Nat]
          /\ \A t \in Sessions : Furthest(tr.ses, ran')[t] >= done[t]
          /\ Furthest(tr.ses, ran')[tr.ses] >= ran'
      BY <2>2, <3>1, FurthestGrows
    <3>3. done'[tr.ses] \in Nat
      BY <2>2, <3>1, <3>2
    <3>. QED BY <2>2, <3>2, <3>3 DEF Grows
  <2>4. Progress'
    BY <1>0, <2>2, <2>3 DEF Progress
  <2>. QED BY <2>1, <2>3, <2>4, IInvStep
<1>. QED BY <1>1, <1>2, <1>3, <1>4, <1>5, <1>6

\* Recovery takes up a snapshot, whose moves have been made.
LEMMA RecoverIInv ==
    ASSUME IInv, RecoverBegins \/ RecoverEnds \/ RecoverFails
    PROVE  IInv'
<1>0. Progress /\ DOMAIN tr = TrackFields /\ file \in Nat /\ ran \in Nat
  BY DEF IInv, Progress
<1>1. FromBefore
  BY UnchangedAmong DEF IInv, RecoverBegins, RecoverEnds, RecoverFails
<1>2. CASE RecoverBegins
  <2>1. Selected.ses # 0 /\ Made(Selected, done)
    BY <1>2, SelectedAmong, NoneMade DEF IInv, RecoverBegins, None
  <2>2. done' \in [Sessions -> Nat] /\ Grows /\ done \in [Sessions -> Nat]
    BY <1>2, FurthestGrows DEF RecoverBegins, IInv, Progress, Grows
  <2>3. Made(Selected, done')
    BY <2>1, <2>2, MadeStays DEF Grows
  <2>4. /\ DOMAIN tr' = TrackFields /\ tr'.ses = Selected.ses /\ tr'.cands = {}
        /\ file' = Selected.pos /\ ran' = Selected.pos /\ state' = "recovering"
    BY <1>0, <1>2 DEF RecoverBegins, Forget, TrackFields
  <2>5. Progress'
    BY <2>1, <2>2, <2>3, <2>4 DEF Progress, Made
  <2>. QED BY <1>1, <2>2, <2>5, IInvStep
<1>3. CASE RecoverEnds \/ RecoverFails
  <2>1. DOMAIN tr' = TrackFields /\ tr'.cands = tr.cands /\ tr'.ses = tr.ses
    BY <1>0, <1>3 DEF RecoverEnds, RecoverFails, TrackFields
  <2>2. UNCHANGED <<ran, done>> /\ file' \in {file, 0} /\ state' # "loaded"
    BY <1>3 DEF RecoverEnds, RecoverFails
  <2>. QED BY <1>0, <1>1, <2>1, <2>2, SameProgress, SameGrows, IInvStep
<1>. QED BY <1>2, <1>3

\* The tracker notes a candidate where the file has been read to, and asks for
\* its context.
LEMMA CaptureIInv ==
    ASSUME IInv, Capture
    PROVE  IInv'
<1> DEFINE sig == Context(tr.ses, context)
<1>0. Progress /\ DOMAIN tr = TrackFields /\ DOMAIN mem = MemFields
  BY DEF IInv, Progress, StoreShapes
<1>1. mem' \in {mem, RequestedContext(mem, sig)}
  BY DEF Capture
<1>2. UNCHANGED <<journal, emFile, w, state, file, ran, done>>
  BY DEF Capture, OnlyMemory, disk
<1>3. DOMAIN mem' = MemFields /\ MemSnaps(mem') = MemSnaps(mem)
  BY <1>0, <1>1, RequestAmong
<1>4. FromBefore
  BY <1>2, <1>3 DEF IInv, FromBefore, StoreShapes, Snaps, DiskSnaps
<1>5. DOMAIN tr' = TrackFields /\ tr'.cands \subseteq tr.cands \cup {file} /\ tr'.ses = tr.ses
  BY <1>0 DEF Capture, Forget, TrackFields
<1>6. file' \in Nat
  BY <1>0, <1>2 DEF Progress
<1>. QED BY <1>0, <1>2, <1>4, <1>5, <1>6, SameProgress, SameGrows, IInvStep

\* The tracker hands a candidate to the store only when the moves before it
\* have been made: the snapshot is new and made.
LEMMA PromoteIInv ==
    ASSUME IInv, Promote
    PROVE  IInv'
<1>0. Progress /\ DOMAIN tr = TrackFields /\ DOMAIN mem = MemFields
  BY DEF IInv, Progress, StoreShapes
<1>1. PICK p \in tr.cands :
        /\ Mature(p)
        /\ LET snap == [ses |-> tr.ses, pos |-> p, ctx |-> tr.ctx]
               ready == (tr.safe = p /\ tr.prep) \/ Prepares(mem, snap)
               staged == IF ready THEN StagedEmergency(mem, snap) ELSE mem
               noted == [tr EXCEPT !.safe = p, !.prep = ready]
           IN  \/ /\ tr' = noted
                  /\ mem' = IF ready THEN staged
                            ELSE [mem EXCEPT !.emError = @ \/ Accepts(mem)]
               \/ /\ ready /\ Accepts(mem) /\ Room
                  /\ mem' = Submitted(staged, snap)
                  /\ tr' = [noted EXCEPT !.cands = {q \in @ : q > p}]
  BY DEF Promote
<1> DEFINE snap == [ses |-> tr.ses, pos |-> p, ctx |-> tr.ctx]
<1>2. UNCHANGED <<journal, emFile, w, state, file, ran, done>>
  BY DEF Promote, OnlyMemory, disk
<1>3. Made(snap, done)
  BY <1>0, <1>1, StoreAssumption DEF Made, Mature, Progress
<1>4. DOMAIN mem' = MemFields /\ MemSnaps(mem') \subseteq MemSnaps(mem) \cup {snap}
  <2>1. \A m : DOMAIN m = MemFields =>
          /\ DOMAIN [m EXCEPT !.emError = @ \/ Accepts(m)] = MemFields
          /\ MemSnaps([m EXCEPT !.emError = @ \/ Accepts(m)]) = MemSnaps(m)
    BY DEF MemFields, MemSnaps
  <2>. QED BY <1>0, <1>1, <2>1, StagedAmong
<1>5. DOMAIN tr' = TrackFields /\ tr'.cands \subseteq tr.cands /\ tr'.ses = tr.ses
  BY <1>0, <1>1 DEF TrackFields
<1>6. file' \in Nat
  BY <1>0, <1>2 DEF Progress
<1>7. Progress'
  BY <1>0, <1>2, <1>5, <1>6, SameProgress
<1>8. Snaps' \subseteq Snaps \cup {snap}
  BY <1>2, <1>4 DEF Snaps, DiskSnaps
<1>. QED BY <1>2, <1>3, <1>4, <1>7, <1>8 DEF IInv, StoreShapes

\* The signal of a failing supply queues what is staged.
LEMMA PowerSignalIInv ==
    ASSUME IInv, PowerSignal
    PROVE  IInv'
<1>1. UNCHANGED <<journal, emFile, w, tr, state, file, ran, done>>
  BY DEF PowerSignal, OnlyMemory, disk, trackVars
<1>2. DOMAIN mem' = MemFields /\ MemSnaps(mem') \subseteq MemSnaps(mem)
  BY QueuedAmong DEF PowerSignal, IInv, StoreShapes
<1>3. FromBefore
  BY <1>1, <1>2 DEF IInv, FromBefore, StoreShapes, Snaps, DiskSnaps
<1>4. Progress /\ Progress'
  BY <1>1 DEF IInv, Progress
<1>. QED BY <1>1, <1>3, <1>4, SameGrows, IInvStep

\* A stop or a start loses the tracker, and of the store what was not written.
LEMMA StopIInv ==
    ASSUME IInv, Close \/ Reopen \/ CutPower
    PROVE  IInv'
<1>0. Progress /\ DOMAIN tr = TrackFields /\ file \in Nat /\ ran \in Nat
  BY DEF IInv, Progress
<1>1. FromBefore
  BY StopAmong DEF Close, Reopen, CutPower, IInv
<1>2. UNCHANGED done /\ state' # "loaded"
  BY DEF Close, Reopen, CutPower
<1>3. CASE Reopen
  <2>1. UNCHANGED <<tr, file, ran>>
    BY <1>3 DEF Reopen
  <2>. QED BY <1>0, <1>1, <1>2, <2>1, SameProgress, SameGrows, IInvStep
<1>4. CASE Close \/ CutPower
  <2>1. tr' = NoSession /\ file' = 0 /\ ran' = 0
    BY <1>4 DEF Close, CutPower
  <2>2. DOMAIN tr' = TrackFields /\ tr'.cands = {} /\ tr'.ses = 0
    BY <2>1 DEF NoSession, TrackFields
  <2>. QED BY <1>0, <1>1, <1>2, <2>1, <2>2, SameProgress, SameGrows, IInvStep
<1>. QED BY <1>3, <1>4

LEMMA NextIInv == IInv /\ [Next]_vars => IInv'
<1> SUFFICES ASSUME IInv, [Next]_vars PROVE IInv'
  OBVIOUS
<1>1. CASE Next
  BY <1>1, PrintIInv, CaptureIInv, PromoteIInv, PowerSignalIInv, RecoverIInv, StopIInv,
     WorkIInv DEF Next
<1>2. CASE UNCHANGED vars
  <2>1. FromBefore
    BY <1>2, UnchangedAmong DEF vars, StoreUnchanged, IInv
  <2>2. Progress /\ Progress' /\ UNCHANGED done
    BY <1>2 DEF vars, IInv, Progress
  <2>. QED BY <2>1, <2>2, SameGrows, IInvStep
<1>. QED BY <1>1, <1>2

\* Whenever the power fails, what a restart offers resumes at a position whose
\* moves had been made, however the writes of the two records were cut off or
\* failed and whatever was recovered before: no line of the file is left out.
THEOREM NeverResumesAhead == Spec => []ResumesNotAhead
<1>1. Spec => []IInv
  BY InitIInv, NextIInv, PTL DEF Spec
<1>2. IInv => ResumesNotAhead
  BY DiskPointAmong, NoneMade DEF IInv, ResumesNotAhead, Made, None
<1>. QED BY <1>1, <1>2, PTL

-----------------------------------------------------------------------------
(* What could be recovered while a print runs is that print.               *)

OfPrint(s, p) == None(s) \/ s.ses = p

\* Whatever is, or may become, the journal's checkpoint is of print p.
AllOf(p) ==
    /\ OfPrint(mem.newCheckpoint, p)
    /\ mem.kind = "checkpoint" => OfPrint(mem.normal, p)
    /\ w.at = "checkpoint" /\ ~mem.tombstone => OfPrint(w.snap, p)

\* A store that has failed has nothing to write or to offer; it stops only when
\* the printer is down; a file just loaded is fresh; only a print whose last
\* line was read waits for its last moves.
StoreStates ==
    /\ ~mem.on => /\ mem.kind = "tombstone" /\ None(mem.newCheckpoint)
                  /\ w.at # "checkpoint"
    /\ mem.stopping => state = "down"
    /\ state = "loaded" => tr.fresh
    /\ tr.completion => state = "complete"

\* All of it is of one print, and of the one that runs when one does.
PrintInv ==
    /\ StoreStates
    /\ \E p : AllOf(p)
    /\ state \in {"printing", "complete", "recovering"} => AllOf(tr.ses)

LEMMA NoneOfPrint == \A p : OfPrint(NoSnapshot, p)
BY DEF OfPrint, None, NoSnapshot

\* The storage thread changes nothing about whose its work is.
LEMMA WorkOfPrint ==
    ASSUME StoreShapes, StoreStates, Work
    PROVE  /\ \A p : AllOf(p) => AllOf(p)'
           /\ StoreStates'
<1> SUFFICES ASSUME NEW p
             PROVE  /\ AllOf(p) => AllOf(p)'
                    /\ StoreStates'
  OBVIOUS
<1> USE DEF StoreShapes, MemFields, AllOf, StoreStates, trackVars, IdleWorker, None
<1>0. UNCHANGED <<tr, state>> /\ OfPrint(NoSnapshot, p)
  BY NoneOfPrint DEF Work
<1>1. CASE PickTombstone \/ PickEmergency \/ PickContext
  BY <1>0, <1>1 DEF PickTombstone, PickEmergency, PickContext, Task
<1>2. CASE PickCheckpoint
  BY <1>0, <1>2 DEF PickCheckpoint, Task, NoSnapshot
<1>3. CASE WriteCheckpoint \/ SeedFails
  <2>1. /\ w.at = "checkpoint" /\ w'.at = "prune"
        /\ mem' \in {Committed, [Committed EXCEPT !.emError = TRUE]}
    BY <1>3 DEF WriteCheckpoint, SeedFails, Finished
  <2>2. /\ mem'.on = mem.on /\ mem'.stopping = mem.stopping
        /\ mem'.newCheckpoint = mem.newCheckpoint /\ mem'.tombstone = mem.tombstone
        /\ \/ mem'.kind = mem.kind /\ mem'.normal = mem.normal
           \/ ~mem.tombstone /\ mem'.normal = w.snap
    BY <2>1 DEF Committed
  <2>. QED BY <1>0, <2>1, <2>2 DEF OfPrint
<1>4. CASE WriteContext \/ WriteEmergency
  BY <1>0, <1>4 DEF WriteContext, WriteEmergency, Finished
<1>5. CASE WriteTombstone \/ WorkerEnds
  BY <1>0, <1>5 DEF WriteTombstone, WorkerEnds
<1>5a. CASE RemoveSession
  BY <1>0, <1>5a DEF RemoveSession
<1>5b. CASE Prune
  BY <1>0, <1>5b DEF Prune
<1>6. CASE EmergencyFails
  BY <1>0, <1>6 DEF EmergencyFails
<1>7. CASE WriteFails
  <2>1. /\ DOMAIN Tombstoned(mem) = MemFields /\ Tombstoned(mem).kind = "tombstone"
        /\ Tombstoned(mem).newCheckpoint = NoSnapshot /\ Tombstoned(mem).stopping = mem.stopping
    BY DEF Tombstoned
  <2>2. /\ mem'.kind = "tombstone" /\ mem'.newCheckpoint = NoSnapshot
        /\ mem'.stopping = mem.stopping /\ w'.at # "checkpoint"
    BY <1>7, <2>1 DEF WriteFails
  <2>. QED BY <1>0, <2>2 DEF NoSnapshot
<1>8. CASE Cleared \/ ClearFails
  BY <1>0, <1>8 DEF Cleared, ClearFails, AfterClearing
<1>. QED
  BY <1>1, <1>2, <1>3, <1>4, <1>5, <1>6, <1>5a, <1>5b, <1>7, <1>8 DEF Work, Worker

\* A discard leaves nothing that could become recoverable; a store that has
\* failed held nothing of the kind.
LEMMA DiscardedClears ==
    ASSUME StoreShapes, StoreStates, mem' = Discarded(mem), w' = w, state # "down"
    PROVE  /\ \A p : AllOf(p)'
           /\ mem'.on = mem.on /\ mem'.stopping = mem.stopping
           /\ ~mem'.on => /\ mem'.kind = "tombstone" /\ None(mem'.newCheckpoint)
                          /\ w'.at # "checkpoint"
<1>1. mem' = Discarded(mem) /\ w' = w
  OBVIOUS
<1>2. ~mem.stopping
  BY DEF StoreStates
<1>3. CASE mem.on
  <2>1. Discarded(mem) = [Tombstoned(mem) EXCEPT !.tombstone = TRUE, !.dropped = @ \cup Recorded]
    BY <1>2, <1>3 DEF Discarded
  <2>2. /\ DOMAIN Tombstoned(mem) = MemFields /\ Tombstoned(mem).kind = "tombstone"
        /\ Tombstoned(mem).newCheckpoint = NoSnapshot
        /\ Tombstoned(mem).stopping = mem.stopping /\ Tombstoned(mem).on = mem.on
    BY DEF Tombstoned, StoreShapes, MemFields
  <2>3. /\ mem'.kind = "tombstone" /\ mem'.newCheckpoint = NoSnapshot /\ mem'.tombstone = TRUE
        /\ mem'.stopping = mem.stopping /\ mem'.on = mem.on
    BY <1>1, <2>1, <2>2 DEF MemFields
  <2>. QED BY <1>3, <2>3, NoneOfPrint DEF AllOf
<1>4. CASE ~mem.on
  <2>1. mem' = mem
    BY <1>1, <1>4 DEF Discarded
  <2>. QED BY <1>1, <1>4, <2>1 DEF StoreStates, AllOf, OfPrint
<1>. QED BY <1>3, <1>4

\* What a step that touches neither the checkpoint nor its way to the disk
\* leaves alone.
SameStore ==
    /\ mem'.on = mem.on /\ mem'.stopping = mem.stopping /\ mem'.kind = mem.kind
    /\ mem'.normal = mem.normal /\ mem'.newCheckpoint = mem.newCheckpoint
    /\ mem'.tombstone = mem.tombstone /\ w' = w

LEMMA SameStoreKeeps ==
    ASSUME StoreStates, SameStore, state' = "loaded" => tr'.fresh,
           tr'.completion => state' = "complete",
           mem.stopping => state' = "down"
    PROVE  StoreStates' /\ \A p : AllOf(p) => AllOf(p)'
BY DEF StoreStates, SameStore, AllOf, OfPrint

LEMMA InitPrintInv == Init => PrintInv
<1> SUFFICES ASSUME Init PROVE PrintInv
  OBVIOUS
<1>1. mem.on /\ ~mem.stopping /\ w.at = "idle" /\ mem.kind = "tombstone"
      /\ mem.newCheckpoint = NoSnapshot /\ state = "none" /\ ~tr.completion
  BY DEF Init, StoreInit, EmptyMemory, IdleWorker, NoSession
<1>. QED BY <1>1, NoneOfPrint DEF PrintInv, StoreStates, AllOf

\* A step of the tracker between the ends of a print.
LEMMA TrackerPrintInv ==
    ASSUME StoreShapes, PrintInv, SameStore, tr'.ses = tr.ses, tr'.fresh = tr.fresh,
           tr'.completion => tr.completion \/ state' = "complete",
           state' = state \/ (state = "printing" /\ state' = "complete")
             \/ (state = "recovering" /\ state' \in {"printing", "none"})
    PROVE  PrintInv'
<1>1. StoreStates' /\ \A p : AllOf(p) => AllOf(p)'
  BY SameStoreKeeps DEF PrintInv, StoreStates
<1>. QED BY <1>1 DEF PrintInv

LEMMA DiscardIfEither ==
    ASSUME NEW b, DiscardIf(b)
    PROVE  /\ w' = w /\ mem' \in {mem, Discarded(mem)}
           /\ b => mem' = Discarded(mem)
BY DEF DiscardIf, OnlyMemory

\* A step that may discard, and does if a print then runs.
LEMMA DiscardPrintInv ==
    ASSUME StoreShapes, PrintInv, state # "down", w' = w, mem' \in {mem, Discarded(mem)},
           state' = "loaded" => tr'.fresh, tr'.completion => state' = "complete",
           state' \in {"printing", "complete", "recovering"} => mem' = Discarded(mem)
    PROVE  PrintInv'
<1>1. CASE mem' = Discarded(mem)
  BY <1>1, DiscardedClears DEF PrintInv, StoreStates
<1>2. CASE mem' # Discarded(mem)
  <2>1. SameStore
    BY <1>2 DEF SameStore
  <2>2. StoreStates' /\ \A p : AllOf(p) => AllOf(p)'
    BY <2>1, SameStoreKeeps DEF PrintInv, StoreStates
  <2>. QED BY <1>2, <2>2 DEF PrintInv
<1>. QED BY <1>1, <1>2

LEMMA EndsPrintInv ==
    ASSUME IInv, PrintInv,
           \/ LoadFile \/ ResetFile \/ PrintStart \/ CompletionMatures \/ Cancel
           \/ ErrorEnds \/ Inhibit \/ CmdDiscard
    PROVE  PrintInv'
<1>0. StoreShapes /\ DOMAIN tr = TrackFields /\ StoreStates
  BY DEF IInv, Progress, PrintInv
<1>1. NoSession.completion = FALSE
  BY DEF NoSession
<1>2. CASE LoadFile
  <2>1. state # "down" /\ tr'.fresh /\ ~tr'.completion
    BY <1>2 DEF LoadFile, NoSession
  <2>. QED BY <1>0, <1>2, <2>1, DiscardIfEither, DiscardPrintInv DEF LoadFile
<1>3. CASE ResetFile
  BY <1>0, <1>1, <1>3, DiscardIfEither, DiscardPrintInv DEF ResetFile
<1>4. CASE PrintStart
  <2>1. mem' = Discarded(mem) /\ w' = w /\ state = "loaded" /\ state' = "printing"
    BY <1>0, <1>4, DiscardIfEither DEF PrintStart, StoreStates
  <2>2. tr'.completion = tr.completion /\ ~tr.completion
    BY <1>0, <1>4, StartsWith DEF PrintStart, StoreStates
  <2>. QED BY <1>0, <2>1, <2>2, DiscardPrintInv
<1>5. CASE Cancel \/ ErrorEnds
  <2>1. /\ w' = w /\ mem' \in {mem, Discarded(mem)} /\ state = "printing" /\ state' = "none"
        /\ tr' = NoSession
    BY <1>5, DiscardIfEither, Zenon DEF Cancel, ErrorEnds
  <2>. QED BY <1>0, <1>1, <2>1, DiscardPrintInv
<1>6. CASE Inhibit
  <2>1. /\ w' = w /\ mem' = Discarded(mem) /\ state = "printing" /\ state' = state
        /\ tr' = [Forget(tr) EXCEPT !.inhibited = TRUE]
    BY <1>6, DiscardIfEither, Zenon DEF Inhibit
  <2>2. tr'.completion = tr.completion
    BY <1>0, <2>1 DEF Forget, TrackFields
  <2>. QED BY <1>0, <2>1, <2>2, DiscardPrintInv DEF StoreStates
<1>7. CASE CompletionMatures
  <2>1. /\ w' = w /\ mem' = Discarded(mem) /\ state' = state /\ tr.completion
        /\ tr' = NoSession
    BY <1>7, DiscardIfEither, Zenon DEF CompletionMatures
  <2>2. state = "complete"
    BY <1>0, <2>1 DEF StoreStates
  <2>. QED BY <1>0, <1>1, <2>1, <2>2, DiscardPrintInv
<1>8. CASE CmdDiscard
  <2>1. /\ w' = w /\ mem' = Discarded(mem) /\ state' = state /\ state # "down"
        /\ tr' = [Forget(tr) EXCEPT !.inhibited = TRUE, !.completion = FALSE]
    BY <1>8, DiscardIfEither, Zenon DEF CmdDiscard
  <2>2. tr'.fresh = tr.fresh /\ ~tr'.completion
    BY <1>0, <2>1 DEF Forget, TrackFields
  <2>. QED BY <1>0, <2>1, <2>2, DiscardPrintInv DEF StoreStates
<1>. QED BY <1>2, <1>3, <1>4, <1>5, <1>6, <1>7, <1>8

\* The steps of the tracker that hand no checkpoint to the store.
LEMMA FollowPrintInv ==
    ASSUME IInv, PrintInv,
           ReadLine \/ Execute \/ Complete \/ Capture \/ PowerSignal \/ RecoverEnds
             \/ RecoverFails
    PROVE  PrintInv'
<1>0. StoreShapes /\ DOMAIN tr = TrackFields /\ DOMAIN mem = MemFields
  BY DEF IInv, Progress, StoreShapes
<1>1. ASSUME StoreUnchanged PROVE SameStore
  BY <1>1 DEF StoreUnchanged, storeVars, SameStore
<1>2. CASE ReadLine \/ Execute
  <2>1. SameStore /\ UNCHANGED <<tr, state>>
    BY <1>1, <1>2 DEF ReadLine, Execute
  <2>. QED BY <1>0, <2>1, TrackerPrintInv
<1>3. CASE Complete
  <2>1. SameStore /\ state = "printing" /\ state' = "complete"
    BY <1>1, <1>3 DEF Complete
  <2>2. tr'.ses = tr.ses /\ tr'.fresh = tr.fresh
    BY <1>0, <1>3 DEF Complete, TrackFields
  <2>. QED BY <1>0, <2>1, <2>2, TrackerPrintInv
<1>4. CASE Capture
  <2>1. mem' \in {mem, RequestedContext(mem, Context(tr.ses, context))} /\ state' = state
        /\ w' = w
    BY <1>4 DEF Capture, OnlyMemory
  <2>2. SameStore
    BY <1>0, <2>1 DEF RequestedContext, SameStore, MemFields
  <2>3. tr'.ses = tr.ses /\ tr'.fresh = tr.fresh /\ tr'.completion = tr.completion
    BY <1>0, <1>4 DEF Capture, Forget, TrackFields
  <2>. QED BY <1>0, <2>1, <2>2, <2>3, TrackerPrintInv
<1>5. CASE PowerSignal
  <2>1. mem' = QueuedEmergency(mem) /\ w' = w /\ UNCHANGED <<tr, state>>
    BY <1>5 DEF PowerSignal, OnlyMemory, trackVars
  <2>2. SameStore
    BY <1>0, <2>1 DEF QueuedEmergency, SameStore, MemFields
  <2>. QED BY <1>0, <2>1, <2>2, TrackerPrintInv
<1>6. CASE RecoverEnds \/ RecoverFails
  <2>1. SameStore /\ state = "recovering" /\ state' \in {"printing", "none"}
    BY <1>1, <1>6 DEF RecoverEnds, RecoverFails
  <2>2. tr'.ses = tr.ses /\ tr'.fresh = tr.fresh /\ tr'.completion = tr.completion
    BY <1>0, <1>6 DEF RecoverEnds, RecoverFails, TrackFields
  <2>. QED BY <1>0, <2>1, <2>2, TrackerPrintInv
<1>. QED BY <1>2, <1>3, <1>4, <1>5, <1>6

\* A candidate becomes a checkpoint of the print that runs.
LEMMA PromotePrintInv ==
    ASSUME IInv, PrintInv, Promote
    PROVE  PrintInv'
<1>0. StoreShapes /\ DOMAIN tr = TrackFields /\ DOMAIN mem = MemFields
  BY DEF IInv, Progress, StoreShapes
<1>1. PICK p \in tr.cands :
        LET snap == [ses |-> tr.ses, pos |-> p, ctx |-> tr.ctx]
            ready == (tr.safe = p /\ tr.prep) \/ Prepares(mem, snap)
            staged == IF ready THEN StagedEmergency(mem, snap) ELSE mem
            noted == [tr EXCEPT !.safe = p, !.prep = ready]
        IN  \/ /\ tr' = noted
               /\ mem' = IF ready THEN staged
                         ELSE [mem EXCEPT !.emError = @ \/ Accepts(mem)]
            \/ /\ ready /\ Accepts(mem) /\ Room
               /\ mem' = Submitted(staged, snap)
               /\ tr' = [noted EXCEPT !.cands = {q \in @ : q > p}]
  BY DEF Promote
<1> DEFINE snap == [ses |-> tr.ses, pos |-> p, ctx |-> tr.ctx]
           staged == StagedEmergency(mem, snap)
<1>2. /\ w' = w /\ state' = state /\ state \in {"printing", "complete"}
      /\ mem.on /\ ~mem.stopping
  BY DEF Promote, OnlyMemory
<1>3. tr'.ses = tr.ses /\ tr'.fresh = tr.fresh /\ tr'.completion = tr.completion
  BY <1>0, <1>1 DEF TrackFields
<1>4. /\ DOMAIN staged = MemFields
      /\ staged.on = mem.on /\ staged.stopping = mem.stopping /\ staged.kind = mem.kind
      /\ staged.normal = mem.normal /\ staged.newCheckpoint = mem.newCheckpoint
      /\ staged.tombstone = mem.tombstone
  BY <1>0 DEF StagedEmergency, MemFields
<1>5. CASE mem' \in {staged, mem, [mem EXCEPT !.emError = @ \/ Accepts(mem)]}
  <2>1. SameStore
    BY <1>0, <1>2, <1>4, <1>5 DEF SameStore, MemFields
  <2>. QED BY <1>0, <1>2, <1>3, <2>1, TrackerPrintInv
<1>6. CASE mem' \in {Submitted(staged, snap), Submitted(mem, snap)}
  <2>1. /\ mem'.on = mem.on /\ mem'.stopping = mem.stopping /\ mem'.kind = mem.kind
        /\ mem'.normal = mem.normal /\ mem'.tombstone = mem.tombstone
        /\ mem'.newCheckpoint.ses = tr.ses
    BY <1>0, <1>4, <1>6 DEF Submitted, MemFields
  <2>2. AllOf(tr.ses)
    BY <1>2 DEF PrintInv
  <2>3. AllOf(tr.ses)'
    BY <1>2, <1>3, <2>1, <2>2 DEF AllOf, OfPrint
  <2>. QED BY <1>2, <1>3, <2>1, <2>3 DEF PrintInv, StoreStates
<1>. QED BY <1>1, <1>5, <1>6

\* A recovery takes up the print of the checkpoint, which is that of all there is.
LEMMA RecoverPrintInv ==
    ASSUME IInv, PrintInv, RecoverBegins
    PROVE  PrintInv'
<1>0. DOMAIN tr = TrackFields
  BY DEF IInv, Progress
<1>1. SameStore /\ state # "down" /\ state' = "recovering"
  BY DEF RecoverBegins, StoreUnchanged, storeVars, SameStore
<1>2. tr'.ses = Selected.ses /\ ~tr'.completion
  BY <1>0 DEF RecoverBegins, Forget, TrackFields
<1>3. mem.kind = "checkpoint" /\ mem.normal.ses = Selected.ses /\ Selected.ses # 0
  BY DEF RecoverBegins, Selected, Select, None, NoSnapshot
<1>4. AllOf(Selected.ses)
  <2>1. PICK p : AllOf(p)
    BY DEF PrintInv
  <2>. QED BY <1>3, <2>1 DEF AllOf, OfPrint, None
<1>5. StoreStates' /\ \A p : AllOf(p) => AllOf(p)'
  BY <1>1, <1>2, SameStoreKeeps DEF PrintInv, StoreStates
<1>. QED BY <1>2, <1>4, <1>5 DEF PrintInv

\* A start finds the checkpoint of the files and nothing on its way.
LEMMA LoadedStates ==
    ASSUME NEW j, NEW t, NEW e, NEW c
    PROVE  LET m == Loaded(j, t, e, c)
           IN  m.on /\ ~m.stopping /\ m.newCheckpoint = NoSnapshot
BY DEF Loaded, EmptyMemory

LEMMA StopPrintInv ==
    ASSUME IInv, PrintInv, Close \/ Reopen \/ CutPower
    PROVE  PrintInv'
<1>1. CASE Close
  <2>1. mem' = [mem EXCEPT !.stopping = TRUE] /\ w' = w /\ state' = "down" /\ tr' = NoSession
    BY <1>1 DEF Close, StoreCloses
  <2>2. /\ mem'.on = mem.on /\ mem'.kind = mem.kind /\ mem'.normal = mem.normal
        /\ mem'.newCheckpoint = mem.newCheckpoint /\ mem'.tombstone = mem.tombstone
    BY <2>1 DEF IInv, StoreShapes, MemFields
  <2>. QED BY <2>1, <2>2 DEF PrintInv, StoreStates, AllOf, NoSession
<1>2. CASE Reopen \/ CutPower
  <2>1. /\ mem'.on /\ ~mem'.stopping /\ mem'.newCheckpoint = NoSnapshot
        /\ w' = IdleWorker /\ state' = "none"
    BY <1>2, LoadedStates DEF Reopen, StoreOpens, CutPower, PowerCut
  <2>2. ~tr'.completion
    BY <1>2 DEF Reopen, CutPower, PrintInv, StoreStates, NoSession
  <2>3. AllOf(mem.normal.ses)' \/ \E p : AllOf(p)'
    <3>1. OfPrint(mem'.normal, mem'.normal.ses)
      BY DEF OfPrint
    <3>2. \A p : OfPrint(NoSnapshot, p)
      BY NoneOfPrint
    <3>. QED BY <2>1, <3>1, <3>2 DEF AllOf, IdleWorker
  <2>. QED BY <2>1, <2>2, <2>3 DEF PrintInv, StoreStates
<1>. QED BY <1>1, <1>2

LEMMA NextPrintInv == IInv /\ PrintInv /\ [Next]_vars => PrintInv'
<1> SUFFICES ASSUME IInv, PrintInv, [Next]_vars PROVE PrintInv'
  OBVIOUS
<1>1. CASE Work
  <2>1. UNCHANGED <<tr, state>> /\ StoreShapes /\ StoreStates
    BY <1>1 DEF Work, trackVars, IInv, PrintInv
  <2>2. StoreStates' /\ \A p : AllOf(p) => AllOf(p)'
    BY <1>1, <2>1, WorkOfPrint
  <2>. QED BY <2>1, <2>2 DEF PrintInv
<1>2. CASE Next /\ ~Work
  BY <1>2, EndsPrintInv, FollowPrintInv, PromotePrintInv, RecoverPrintInv, StopPrintInv DEF Next
<1>3. CASE UNCHANGED vars
  <2>1. SameStore /\ UNCHANGED <<tr, state>>
    BY <1>3 DEF vars, storeVars, SameStore
  <2>. QED BY <2>1, TrackerPrintInv DEF IInv
<1>. QED BY <1>1, <1>2, <1>3

\* While a print runs, what PLR_RECOVER or a restart of the host would offer is
\* that print: neither a checkpoint of an older one that was still being written
\* when this one began nor one that another file left behind.
THEOREM OffersThisPrint == Spec => []OfferIsThisPrint
<1>1. Spec => [](IInv /\ PrintInv)
  BY InitIInv, NextIInv, InitPrintInv, NextPrintInv, PTL DEF Spec
<1>2. PrintInv => OfferIsThisPrint
  BY DEF PrintInv, OfferIsThisPrint, AllOf, OfPrint, Selected, Select, None, NoSnapshot
<1>. QED BY <1>1, <1>2, PTL

-----------------------------------------------------------------------------
(* What was discarded is not offered again.                                *)

Generations ==
    /\ mem.gen \in Nat /\ w.gen \in Nat
    /\ journal[0].gen \in Nat /\ journal[1].gen \in Nat

\* No print that a completed discard covered is in the journal, and none that
\* this session discarded is, or may become, its checkpoint; a tombstone is in
\* both slots before the rest is removed.
StoreGone ==
    /\ Generations
    /\ gone \subseteq mem.dropped /\ 0 \notin mem.dropped
    /\ mem.kind = "checkpoint" => mem.normal.ses \notin mem.dropped
    /\ mem.newCheckpoint.ses \notin mem.dropped
    /\ w.at = "checkpoint" => /\ w.snap.ses \notin gone
                              /\ ~mem.tombstone => w.snap.ses \notin mem.dropped
    /\ \A i \in {0, 1} : journal[i].kind = "checkpoint" => journal[i].snap.ses \notin gone
    /\ w.at = "other" => journal[Slot(w.gen)].kind = "tombstone"
    /\ w.at = "remove" => \A i \in {0, 1} : journal[i].kind = "tombstone"

LEMMA SlotRange == \A g \in Nat : Slot(g) \in {0, 1}
BY DEF Slot

\* The journal's slots after a record was written to one of them.
LEMMA ReplacedSlots ==
    ASSUME DOMAIN journal = {0, 1}, NEW slot \in {0, 1}, NEW kind, Replaced(slot, kind)
    PROVE  /\ journal'[slot] = [kind |-> kind, gen |-> w.gen, snap |-> w.snap]
           /\ \A i \in {0, 1} : i # slot => journal'[i] = journal[i]
BY DEF Replaced

LEMMA PickGone ==
    ASSUME StoreShapes, StoreGone,
           PickTombstone \/ PickEmergency \/ PickContext \/ PickCheckpoint
    PROVE  StoreGone'
<1> USE DEF StoreShapes, MemFields, StoreGone, Generations, Task, disk, IdleWorker
<1>1. CASE PickTombstone
  BY <1>1 DEF PickTombstone
<1>2. CASE PickEmergency
  BY <1>2 DEF PickEmergency
<1>3. CASE PickContext
  BY <1>3 DEF PickContext
<1>4. CASE PickCheckpoint
  BY <1>4 DEF PickCheckpoint, NoSnapshot
<1>. QED BY <1>1, <1>2, <1>3, <1>4

LEMMA WriteGone ==
    ASSUME StoreShapes, StoreGone,
           WriteCheckpoint \/ SeedFails \/ WriteContext \/ WriteEmergency
    PROVE  StoreGone'
<1> USE DEF StoreShapes, MemFields
<1>0. Slot(w.gen) \in {0, 1} /\ 1 - Slot(w.gen) \in {0, 1}
  BY SlotRange DEF StoreGone, Generations
<1>1. CASE WriteCheckpoint \/ SeedFails
  <2>1. /\ journal'[Slot(w.gen)] = [kind |-> "checkpoint", gen |-> w.gen, snap |-> w.snap]
        /\ \A i \in {0, 1} : i # Slot(w.gen) => journal'[i] = journal[i]
    BY <1>0, <1>1, ReplacedSlots DEF WriteCheckpoint, SeedFails
  <2>2. /\ mem'.gen = w.gen /\ mem'.dropped = mem.dropped
        /\ mem'.newCheckpoint = mem.newCheckpoint
        /\ \/ mem'.kind = mem.kind /\ mem'.normal = mem.normal
           \/ ~mem.tombstone /\ mem'.normal = w.snap
    <3>1. mem' \in {Committed, [Committed EXCEPT !.emError = TRUE]}
      BY <1>1 DEF WriteCheckpoint, SeedFails
    <3>. QED BY <3>1 DEF Committed
  <2>3. w'.at = "prune" /\ w'.gen = 0 /\ gone' = gone /\ w.at = "checkpoint"
    BY <1>1 DEF WriteCheckpoint, SeedFails, Finished, IdleWorker
  <2>4. \A i \in {0, 1} : journal'[i].gen \in Nat
    BY <2>1 DEF StoreGone, Generations
  <2>5. \A i \in {0, 1} : journal'[i].kind = "checkpoint" => journal'[i].snap.ses \notin gone
    BY <2>1, <2>3 DEF StoreGone
  <2>. QED BY <2>2, <2>3, <2>4, <2>5 DEF StoreGone, Generations
<1>2. CASE WriteContext
  BY <1>2 DEF WriteContext, StoreGone, Generations, Finished, IdleWorker
<1>3. CASE WriteEmergency
  <2>1. /\ mem'.gen = mem.gen /\ mem'.dropped = mem.dropped /\ mem'.kind = mem.kind
        /\ mem'.newCheckpoint = mem.newCheckpoint /\ mem'.normal = mem.normal
        /\ journal' = journal /\ gone' = gone /\ w'.at = "prune" /\ w'.gen = 0
    BY <1>3 DEF WriteEmergency, Finished, IdleWorker
  <2>. QED BY <2>1 DEF StoreGone, Generations
<1>. QED BY <1>1, <1>2, <1>3

\* A discard counts as complete once a tombstone is in both slots, or the
\* journal is gone.
LEMMA BuryGone ==
    ASSUME StoreShapes, StoreGone, WriteTombstone \/ RemoveSession \/ Prune \/ WorkerEnds
    PROVE  StoreGone'
<1> USE DEF StoreShapes, MemFields
<1>0. Slot(w.gen) \in {0, 1} /\ 1 - Slot(w.gen) \in {0, 1}
      /\ \A i \in {0, 1} : i = Slot(w.gen) \/ i = 1 - Slot(w.gen)
  BY SlotRange DEF StoreGone, Generations
<1>1. CASE WriteTombstone
  <2>1. PICK slot \in {0, 1} :
          /\ Replaced(slot, "tombstone") /\ UNCHANGED <<mem, gone>>
          /\ \/ slot = Slot(w.gen) /\ w' = [w EXCEPT !.at = "other"]
             \/ slot = 1 - Slot(w.gen) /\ w.at = "other" /\ w' = [w EXCEPT !.at = "remove"]
    BY <1>0, <1>1 DEF WriteTombstone
  <2>2. /\ journal'[slot] = [kind |-> "tombstone", gen |-> w.gen, snap |-> w.snap]
        /\ \A i \in {0, 1} : i # slot => journal'[i] = journal[i]
    BY <2>1, ReplacedSlots
  <2>3. w'.gen = w.gen /\ w'.at \in {"other", "remove"}
        /\ (w'.at = "other" <=> w' = [w EXCEPT !.at = "other"])
    BY <2>1
  <2>4. \A i \in {0, 1} : journal'[i].gen \in Nat
    BY <2>2 DEF StoreGone, Generations
  <2>5. \A i \in {0, 1} : journal'[i].kind = "checkpoint" => journal'[i].snap.ses \notin gone
    BY <2>2 DEF StoreGone
  <2>6. w'.at = "other" => journal'[Slot(w'.gen)].kind = "tombstone"
    BY <2>1, <2>2, <2>3
  <2>7. w'.at = "remove" => \A i \in {0, 1} : journal'[i].kind = "tombstone"
    BY <1>0, <2>1, <2>2, <2>3 DEF StoreGone
  <2>. QED BY <2>1, <2>3, <2>4, <2>5, <2>6, <2>7 DEF StoreGone, Generations
<1>2. CASE RemoveSession
  BY <1>2 DEF RemoveSession, StoreGone, Generations, IdleWorker
<1>3. CASE Prune
  BY <1>3 DEF Prune, StoreGone, Generations, IdleWorker
<1>4. CASE WorkerEnds
  BY <1>4 DEF WorkerEnds, StoreGone, Generations, disk
<1>. QED BY <1>1, <1>2, <1>3, <1>4

\* A write that fails makes nothing recoverable, and what is then removed as far
\* as it can be is of no print that was buried before.
LEMMA FailGone ==
    ASSUME StoreShapes, StoreGone, EmergencyFails \/ WriteFails \/ Cleared \/ ClearFails
    PROVE  StoreGone'
<1> USE DEF StoreShapes
<1>1. CASE EmergencyFails
  BY <1>1 DEF EmergencyFails, disk, StoreGone, Generations, IdleWorker, MemFields
<1>2. CASE WriteFails
  <2>1. /\ DOMAIN Tombstoned(mem) = MemFields /\ Tombstoned(mem).kind = "tombstone"
        /\ Tombstoned(mem).newCheckpoint = NoSnapshot /\ Tombstoned(mem).gen = mem.gen
        /\ Tombstoned(mem).dropped = mem.dropped
    BY DEF Tombstoned, MemFields
  <2>2. /\ mem'.kind = "tombstone" /\ mem'.newCheckpoint = NoSnapshot
        /\ mem'.gen = mem.gen /\ mem'.dropped = mem.dropped
        /\ w'.gen = w.gen /\ w'.at \in {"clear tomb", "clear context", "clear"}
        /\ UNCHANGED <<journal, gone>>
    BY <1>2, <2>1 DEF WriteFails, disk, MemFields
  <2>3. journal' = journal /\ gone' = gone /\ w'.at \notin {"checkpoint", "other", "remove"}
    BY <2>2
  <2>4. mem'.newCheckpoint.ses = 0
    <3>1. NoSnapshot.ses = 0
      BY DEF NoSnapshot
    <3>. QED BY <2>2, <3>1, Zenon
  <2>5. Generations'
    BY <2>2, <2>3 DEF StoreGone, Generations
  <2>. QED BY <2>2, <2>3, <2>4, <2>5 DEF StoreGone
<1>3. ASSUME NEW kept, Invalidate(kept)
      PROVE  \A i \in {0, 1} : journal'[i] \in {journal[i], NoRecord}
  BY <1>3 DEF Invalidate
<1>4. CASE Cleared
  <2>1. \A i \in {0, 1} : journal'[i] = NoRecord
    BY <1>4 DEF Cleared, Invalidate
  <2>2. /\ mem'.kind = mem.kind /\ mem'.newCheckpoint = mem.newCheckpoint
        /\ mem'.gen = mem.gen /\ mem'.dropped = mem.dropped /\ mem'.normal = mem.normal
        /\ w'.gen = 0 /\ w'.at \in {"ended", "idle"} /\ gone' \subseteq gone \cup mem.dropped
    BY <1>4 DEF Cleared, AfterClearing, IdleWorker, MemFields
  <2>. QED BY <2>1, <2>2 DEF StoreGone, Generations, NoRecord
<1>5. CASE ClearFails
  <2>1. /\ \A i \in {0, 1} : journal'[i] \in {journal[i], NoRecord}
        /\ UNCHANGED <<mem, gone>> /\ w'.gen = 0 /\ w'.at \in {"ended", "idle"}
    BY <1>3, <1>5 DEF ClearFails, AfterClearing, IdleWorker
  <2>. QED BY <2>1 DEF StoreGone, Generations, NoRecord
<1>. QED BY <1>1, <1>2, <1>4, <1>5

\* A discard covers every print there is a snapshot of, and leaves none of them
\* to be written.
LEMMA DiscardGone ==
    ASSUME StoreShapes, StoreGone, mem' \in {mem, Discarded(mem)},
           UNCHANGED <<disk, w, gone>>
    PROVE  /\ StoreGone'
           /\ mem'.dropped \subseteq mem.dropped \cup Recorded
<1>1. CASE mem' = mem
  BY <1>1 DEF StoreGone, Generations, disk
<1>2. CASE mem' = Discarded(mem) /\ ~(mem.stopping \/ ~mem.on)
  <2>1. Discarded(mem) = [Tombstoned(mem) EXCEPT !.tombstone = TRUE, !.dropped = @ \cup Recorded]
    BY <1>2 DEF Discarded
  <2>2. /\ DOMAIN Tombstoned(mem) = MemFields /\ Tombstoned(mem).kind = "tombstone"
        /\ Tombstoned(mem).newCheckpoint = NoSnapshot /\ Tombstoned(mem).gen = mem.gen
        /\ Tombstoned(mem).dropped = mem.dropped
    BY DEF Tombstoned, StoreShapes, MemFields
  <2>3. /\ mem'.kind = "tombstone" /\ mem'.newCheckpoint = NoSnapshot /\ mem'.tombstone = TRUE
        /\ mem'.gen = mem.gen /\ mem'.dropped = mem.dropped \cup Recorded
    BY <1>2, <2>1, <2>2 DEF MemFields
  <2>4. 0 \notin Recorded
    BY DEF Recorded
  <2>. QED BY <2>3, <2>4 DEF StoreGone, Generations, disk, NoSnapshot
<1>3. CASE mem' = Discarded(mem) /\ (mem.stopping \/ ~mem.on)
  BY <1>1, <1>3 DEF Discarded
<1>. QED BY <1>1, <1>2, <1>3

\* A store that is opened offers nothing that was buried.
LEMMA LoadedGone ==
    ASSUME StoreShapes, StoreGone, NEW t, NEW e, NEW c,
           mem' = Loaded(journal, t, e, c), w' = IdleWorker, UNCHANGED <<journal, gone>>
    PROVE  StoreGone' /\ mem'.dropped = gone
<1> DEFINE gens == {journal[i].gen : i \in {k \in {0, 1} : Readable(journal[k], c)}}
<1>1. Generation(journal, c) \in Nat
  <2>1. gens \subseteq {journal[0].gen, journal[1].gen}
    OBVIOUS
  <2>2. gens = {} \/ \E g \in gens : \A h \in gens : g >= h
    BY <2>1 DEF StoreGone, Generations
  <2>3. CASE gens = {}
    BY <2>3 DEF Generation
  <2>4. CASE gens # {}
    <3>1. (CHOOSE g \in gens : \A h \in gens : g >= h) \in gens
      BY <2>2, <2>4
    <3>. QED BY <2>1, <2>4, <3>1 DEF Generation, StoreGone, Generations
  <2>. QED BY <2>3, <2>4
<1>2. Latest(journal) \in {journal[0], journal[1]}
  BY DEF Latest
<1>3. /\ mem'.gen = Generation(journal, c) /\ mem'.dropped = gone
      /\ mem'.newCheckpoint = NoSnapshot
      /\ mem'.kind = "checkpoint" => /\ Latest(journal).kind = "checkpoint"
                                     /\ mem'.normal = Latest(journal).snap
  BY DEF Loaded, EmptyMemory
<1>4. w'.gen = 0 /\ w'.at = "idle"
  BY DEF IdleWorker
<1>. QED BY <1>1, <1>2, <1>3, <1>4 DEF StoreGone, Generations, NoSnapshot

\* The rest of memory may change as it likes.
SameGone ==
    /\ SameStore /\ mem'.gen = mem.gen /\ mem'.dropped = mem.dropped
    /\ UNCHANGED <<journal, gone>>

LEMMA SameGoneKeeps == ASSUME StoreGone, SameGone PROVE StoreGone'
BY DEF StoreGone, Generations, SameGone, SameStore

\* Identities are given out in turn, so that a print just loaded has no snapshot;
\* the print that runs was not discarded, unless it hands out no candidates.
Unseen(p) == p \notin mem.dropped /\ \A s \in Snaps : s.ses = p => p = 0

TrackGone ==
    /\ begun \in Nat /\ tr.ses \in Nat /\ tr.ses <= begun
    /\ \A s \in Snaps : s.ses \in Nat /\ s.ses <= begun
    /\ \A p \in mem.dropped : p \in Nat /\ p <= begun
    /\ state = "loaded" => Unseen(tr.ses)
    /\ state \in {"printing", "complete", "recovering"} /\ ~tr.inhibited =>
           tr.ses \notin mem.dropped
    /\ tr.inhibited => tr.cands = {}

GoneInv == StoreGone /\ TrackGone

\* A step that makes up no snapshot and drops at most what was recorded.
LEMMA KnownStays ==
    ASSUME StoreGone, TrackGone, FromBefore, mem'.dropped \subseteq mem.dropped \cup Recorded,
           begun' \in Nat, begun' >= begun
    PROVE  /\ \A s \in Snaps' : s.ses \in Nat /\ s.ses <= begun'
           /\ \A p \in mem'.dropped : p \in Nat /\ p <= begun'
           /\ \A p : Unseen(p) /\ 0 \notin mem'.dropped => Unseen(p)'
<1>1. \A p \in Recorded : p # 0 /\ \E s \in Snaps : p = s.ses
  BY DEF Recorded, Snaps, MemSnaps, DiskSnaps
<1>2. \A s \in Snaps : s.ses \in Nat /\ s.ses <= begun
  BY DEF TrackGone
<1>3. NoSnapshot.ses = 0 /\ begun \in Nat /\ \A x \in Nat : x <= begun => x <= begun'
  BY DEF NoSnapshot, TrackGone
<1>4. ASSUME NEW s \in Snaps'
      PROVE  s.ses = 0 \/ s \in Snaps
  BY <1>3 DEF FromBefore
<1>5. \A s \in Snaps' : s.ses \in Nat /\ s.ses <= begun'
  BY <1>2, <1>3, <1>4
<1>6. \A p \in mem'.dropped : p \in Nat /\ p <= begun'
  <2> TAKE p \in mem'.dropped
  <2>1. CASE p \in Recorded
    BY <1>1, <1>2, <1>3, <2>1
  <2>2. CASE p \in mem.dropped
    BY <1>3, <2>2 DEF TrackGone, StoreGone
  <2>. QED BY <2>1, <2>2
<1>7. \A p : Unseen(p) /\ 0 \notin mem'.dropped => Unseen(p)'
  BY <1>1, <1>4 DEF Unseen
<1>. QED BY <1>5, <1>6, <1>7

LEMMA GoneStep ==
    ASSUME GoneInv, FromBefore, StoreGone', mem'.dropped \subseteq mem.dropped \cup Recorded,
           begun' \in Nat, begun' >= begun, tr'.ses \in Nat, tr'.ses <= begun',
           state' = "loaded" => Unseen(tr.ses)',
           state' \in {"printing", "complete", "recovering"} /\ ~tr'.inhibited =>
               tr'.ses \notin mem'.dropped,
           tr'.inhibited => tr'.cands = {}
    PROVE  GoneInv'
BY KnownStays DEF GoneInv, TrackGone

\* The tracker goes on with its print, and nothing more is discarded.
LEMMA GoneFollows ==
    ASSUME IInv, GoneInv, FromBefore, StoreGone', mem'.dropped \subseteq mem.dropped,
           begun' = begun, tr'.ses = tr.ses, tr'.inhibited = tr.inhibited,
           tr.inhibited => tr'.cands = {},
           state' = state \/ (state = "loaded" /\ state' = "printing")
             \/ (state = "printing" /\ state' = "complete") \/ state' = "none"
             \/ (state = "recovering" /\ state' = "printing")
    PROVE  GoneInv'
<1>1. 0 \notin mem'.dropped /\ begun \in Nat /\ begun' \in Nat /\ begun' >= begun
  BY DEF GoneInv, StoreGone, TrackGone
<1>2. state' = "loaded" => Unseen(tr.ses)'
  BY <1>1, KnownStays DEF GoneInv, TrackGone
<1>3. state' \in {"printing", "complete", "recovering"} /\ ~tr'.inhibited =>
          tr'.ses \notin mem'.dropped
  BY DEF GoneInv, TrackGone, Unseen
<1>. QED BY <1>1, <1>2, <1>3, GoneStep DEF GoneInv, TrackGone

\* The storage thread discards nothing of its own accord.
LEMMA WorkDropped == ASSUME StoreShapes, Work PROVE mem'.dropped = mem.dropped
<1> USE DEF StoreShapes, MemFields
<1>1. CASE PickTombstone \/ PickEmergency \/ PickContext \/ PickCheckpoint
  BY <1>1 DEF PickTombstone, PickEmergency, PickContext, PickCheckpoint
<1>2. CASE WriteCheckpoint \/ SeedFails \/ WriteContext \/ WriteEmergency
  BY <1>2 DEF WriteCheckpoint, SeedFails, Committed, WriteContext, WriteEmergency
<1>3. CASE WriteTombstone \/ RemoveSession \/ Prune \/ WorkerEnds
  BY <1>3 DEF WriteTombstone, RemoveSession, Prune, WorkerEnds
<1>4. CASE EmergencyFails \/ Cleared \/ ClearFails
  BY <1>4 DEF EmergencyFails, Cleared, ClearFails
<1>5. CASE WriteFails
  <2>1. DOMAIN Tombstoned(mem) = MemFields /\ Tombstoned(mem).dropped = mem.dropped
    BY DEF Tombstoned
  <2>. QED BY <1>5, <2>1 DEF WriteFails
<1>. QED BY <1>1, <1>2, <1>3, <1>4, <1>5 DEF Work, Worker

LEMMA WorkGoneInv == ASSUME IInv, GoneInv, Work PROVE GoneInv'
<1>1. FromBefore /\ StoreGone'
  BY PickAmong, WriteAmong, BuryAmong, FailAmong, PickGone, WriteGone, BuryGone, FailGone
     DEF Work, Worker, IInv, GoneInv
<1>2. mem'.dropped = mem.dropped
  BY WorkDropped DEF IInv
<1>3. UNCHANGED <<tr, state, begun>>
  BY DEF Work, trackVars
<1>. QED BY <1>1, <1>2, <1>3, GoneFollows DEF GoneInv, TrackGone

LEMMA InitGoneInv == Init => GoneInv
<1> SUFFICES ASSUME Init PROVE GoneInv
  OBVIOUS
<1>1. /\ mem.gen = 0 /\ mem.kind = "tombstone" /\ mem.dropped = {} /\ gone = {}
      /\ mem.newCheckpoint = NoSnapshot /\ w.at = "idle" /\ w.gen = 0 /\ state = "none"
      /\ tr.ses = 0 /\ ~tr.inhibited /\ begun = 0
      /\ \A i \in {0, 1} : journal[i] = NoRecord
  BY DEF Init, StoreInit, EmptyMemory, IdleWorker, NoSession
<1>2. \A s \in Snaps : s = NoSnapshot
  BY DEF Init, StoreInit, EmptyMemory, IdleWorker, NoRecord, NoEmFile, Snaps, MemSnaps, DiskSnaps
<1>3. NoSnapshot.ses = 0 /\ NoRecord.gen = 0 /\ NoRecord.kind = "none"
  BY DEF NoSnapshot, NoRecord
<1>4. StoreGone
  BY <1>1, <1>3 DEF StoreGone, Generations
<1>. QED BY <1>1, <1>2, <1>3, <1>4 DEF GoneInv, TrackGone

\* A discard covers only prints that have begun.
LEMMA DroppedBegun ==
    ASSUME GoneInv, mem'.dropped \subseteq mem.dropped \cup Recorded
    PROVE  \A p \in mem'.dropped : p \in Nat /\ p <= begun
<1>1. \A p \in Recorded : \E s \in Snaps : p = s.ses
  BY DEF Recorded, Snaps, MemSnaps, DiskSnaps
<1>. QED BY <1>1 DEF GoneInv, TrackGone

\* A new file has an identity above all those there is anything of, or none.
LEMMA LoadGoneInv == ASSUME IInv, GoneInv, LoadFile PROVE GoneInv'
<1>1. /\ UNCHANGED <<disk, w, gone>> /\ mem' \in {mem, Discarded(mem)}
      /\ state' = "loaded"
  BY DiscardIfEither, Zenon DEF LoadFile, DiscardIf, OnlyMemory
<1>2. PICK s : Begins(s) /\ tr' = [NoSession EXCEPT !.fresh = TRUE, !.ses = s]
  BY Zenon DEF LoadFile
<1>3. /\ tr'.ses = s /\ ~tr'.inhibited
      /\ \/ s = 0 /\ begun' = begun
         \/ s = begun + 1 /\ begun' = begun + 1
  <2>1. tr'.ses = s /\ ~tr'.inhibited
    BY <1>2 DEF NoSession
  <2>. QED BY <1>2, <2>1, BeginsWith
<1>4. begun \in Nat /\ begun' \in Nat /\ begun' >= begun
  BY <1>3 DEF GoneInv, TrackGone
<1>5. FromBefore
  BY DiscardIfAmong DEF LoadFile, IInv
<1>6. StoreGone' /\ mem'.dropped \subseteq mem.dropped \cup Recorded
  BY <1>1, DiscardGone DEF IInv, GoneInv
<1>7. Unseen(tr.ses)'
  <2>1. \A r \in Snaps : r.ses \in Nat /\ r.ses <= begun
    BY DEF GoneInv, TrackGone
  <2>2. \A r \in Snaps' : r.ses \in Nat /\ r.ses <= begun
    BY <1>4, <1>5, <2>1 DEF FromBefore, NoSnapshot
  <2>3. \A p \in mem'.dropped : p \in Nat /\ p <= begun
    BY <1>6, DroppedBegun
  <2>4. 0 \notin mem'.dropped
    BY <1>6 DEF StoreGone
  <2>. QED BY <1>3, <1>4, <2>2, <2>3, <2>4 DEF Unseen
<1>. QED BY <1>1, <1>3, <1>4, <1>5, <1>6, <1>7, GoneStep

\* A step that may discard: what then runs was not recorded, or is inhibited.
LEMMA DiscardGoneInv ==
    ASSUME IInv, GoneInv,
           \/ ResetFile \/ PrintStart \/ CompletionMatures \/ Cancel \/ ErrorEnds
           \/ Inhibit \/ CmdDiscard
    PROVE  GoneInv'
<1>0. DOMAIN tr = TrackFields
  BY DEF IInv, Progress
<1>1. FromBefore
  BY DiscardIfAmong DEF ResetFile, PrintStart, CompletionMatures, Cancel, ErrorEnds, Inhibit,
     CmdDiscard, IInv
<1>2. UNCHANGED <<disk, w, gone>> /\ mem' \in {mem, Discarded(mem)}
  BY DiscardIfEither, Zenon
     DEF ResetFile, PrintStart, CompletionMatures, Cancel, ErrorEnds, Inhibit, CmdDiscard,
         DiscardIf, OnlyMemory
<1>3. StoreGone' /\ mem'.dropped \subseteq mem.dropped \cup Recorded
  BY <1>2, DiscardGone DEF IInv, GoneInv
<1>4. 0 \notin mem'.dropped /\ begun \in Nat /\ begun' \in Nat /\ begun' >= begun
  <2>1. CASE PrintStart
    BY <1>0, <1>3, <2>1, StartsWith DEF PrintStart, StoreGone, GoneInv, TrackGone
  <2>2. CASE ~PrintStart
    <3>1. begun' = begun
      BY <2>2 DEF ResetFile, CompletionMatures, Cancel, ErrorEnds, Inhibit, CmdDiscard
    <3>. QED BY <1>3, <3>1 DEF StoreGone, GoneInv, TrackGone
  <2>. QED BY <2>1, <2>2
<1>5. CASE ResetFile \/ CompletionMatures \/ Cancel \/ ErrorEnds
  <2>1. tr' = NoSession
    BY <1>5, Zenon DEF ResetFile, CompletionMatures, Cancel, ErrorEnds
  <2>2. tr'.ses = 0 /\ ~tr'.inhibited
    BY <2>1 DEF NoSession
  <2>3. Unseen(tr.ses)'
    BY <1>4, <2>2 DEF Unseen
  <2>. QED BY <1>1, <1>3, <1>4, <2>2, <2>3, GoneStep
<1>6. CASE PrintStart
  <2>1. state = "loaded" /\ state' = "printing" /\ Starts
    BY <1>6, Zenon DEF PrintStart
  <2>2. /\ tr'.inhibited = tr.inhibited /\ tr'.cands = tr.cands
        /\ tr'.ses = tr.ses \/ (tr'.ses = begun + 1 /\ begun' = begun + 1)
    BY <1>0, <2>1, StartsWith
  <2>3. tr'.ses \notin mem'.dropped
    <3>1. Unseen(tr.ses)
      BY <2>1 DEF GoneInv, TrackGone
    <3>2. tr.ses \notin mem'.dropped
      BY <1>1, <1>3, <1>4, <3>1, KnownStays DEF GoneInv, Unseen
    <3>3. \A p \in mem'.dropped : p \in Nat /\ p <= begun
      BY <1>3, DroppedBegun
    <3>. QED BY <1>4, <2>2, <3>2, <3>3
  <2>4. tr'.ses \in Nat /\ tr'.ses <= begun' /\ (tr.inhibited => tr.cands = {})
    BY <1>4, <2>2 DEF GoneInv, TrackGone
  <2>. QED BY <1>1, <1>3, <1>4, <2>1, <2>2, <2>3, <2>4, GoneStep
<1>7. CASE Inhibit \/ CmdDiscard
  <2>1. tr'.ses = tr.ses /\ tr'.inhibited /\ tr'.cands = {}
    BY <1>0, <1>7 DEF Inhibit, CmdDiscard, Forget, TrackFields
  <2>2. state' = state
    BY <1>7, Zenon DEF Inhibit, CmdDiscard
  <2>3. state' = "loaded" => Unseen(tr.ses)'
    <3>1. Unseen(tr.ses) => Unseen(tr.ses)'
      BY <1>1, <1>3, <1>4, <2>1, KnownStays DEF GoneInv
    <3>. QED BY <2>2, <3>1 DEF GoneInv, TrackGone
  <2>4. tr.ses \in Nat /\ tr.ses <= begun
    BY DEF GoneInv, TrackGone
  <2>. QED BY <1>1, <1>3, <1>4, <2>1, <2>2, <2>3, <2>4, GoneStep
<1>. QED BY <1>5, <1>6, <1>7

\* The steps of the tracker that hand no checkpoint to the store and discard nothing.
LEMMA FollowGoneInv ==
    ASSUME IInv, GoneInv,
           ReadLine \/ Execute \/ Complete \/ Capture \/ PowerSignal \/ RecoverEnds
             \/ RecoverFails
    PROVE  GoneInv'
<1>0. /\ StoreShapes /\ DOMAIN tr = TrackFields /\ DOMAIN mem = MemFields /\ StoreGone
      /\ (tr.inhibited => tr.cands = {})
  BY DEF IInv, Progress, StoreShapes, GoneInv, TrackGone
<1>1. ASSUME StoreUnchanged PROVE SameGone /\ FromBefore
  BY <1>0, <1>1, UnchangedAmong DEF StoreUnchanged, storeVars, SameStore, SameGone
<1>2. CASE ReadLine \/ Execute
  <2>1. SameGone /\ FromBefore /\ UNCHANGED <<tr, state, begun>>
    BY <1>1, <1>2 DEF ReadLine, Execute
  <2>. QED BY <1>0, <2>1, SameGoneKeeps, GoneFollows DEF SameGone
<1>3. CASE Complete \/ RecoverEnds \/ RecoverFails
  <2>1. SameGone /\ FromBefore /\ begun' = begun
        /\ \/ state = "printing" /\ state' = "complete"
           \/ state' = "none"
           \/ state = "recovering" /\ state' = "printing"
    BY <1>1, <1>3 DEF Complete, RecoverEnds, RecoverFails
  <2>2. tr'.ses = tr.ses /\ tr'.inhibited = tr.inhibited /\ tr'.cands = tr.cands
    BY <1>0, <1>3 DEF Complete, RecoverEnds, RecoverFails, TrackFields
  <2>. QED BY <1>0, <2>1, <2>2, SameGoneKeeps, GoneFollows DEF SameGone
<1>4. CASE Capture
  <2>1. mem' \in {mem, RequestedContext(mem, Context(tr.ses, context))} /\ state' = state
        /\ UNCHANGED <<disk, w, gone, begun>> /\ ~tr.inhibited
    BY <1>4 DEF Capture, OnlyMemory
  <2>2. SameGone
    BY <1>0, <2>1 DEF RequestedContext, SameStore, SameGone, MemFields, disk
  <2>3. FromBefore
    <3>1. DOMAIN mem' = MemFields /\ MemSnaps(mem') = MemSnaps(mem)
      BY <1>0, <2>1, RequestAmong
    <3>. QED BY <1>0, <2>1, <3>1 DEF FromBefore, StoreShapes, Snaps, DiskSnaps, disk
  <2>4. tr'.ses = tr.ses /\ tr'.inhibited = tr.inhibited
    BY <1>0, <1>4 DEF Capture, Forget, TrackFields
  <2>. QED BY <1>0, <2>1, <2>2, <2>3, <2>4, SameGoneKeeps, GoneFollows DEF SameGone
<1>5. CASE PowerSignal
  <2>1. mem' = QueuedEmergency(mem) /\ UNCHANGED <<disk, w, gone, tr, state, begun>>
    BY <1>5 DEF PowerSignal, OnlyMemory, trackVars
  <2>2. SameGone
    BY <1>0, <2>1 DEF QueuedEmergency, SameStore, SameGone, MemFields, disk
  <2>3. FromBefore
    <3>1. DOMAIN mem' = MemFields /\ MemSnaps(mem') \subseteq MemSnaps(mem)
      BY <1>0, <2>1, QueuedAmong
    <3>. QED BY <1>0, <2>1, <3>1 DEF FromBefore, StoreShapes, Snaps, DiskSnaps, disk
  <2>. QED BY <1>0, <2>1, <2>2, <2>3, SameGoneKeeps, GoneFollows DEF SameGone
<1>. QED BY <1>2, <1>3, <1>4, <1>5

\* A print hands out candidates only while it was not discarded.
LEMMA PromoteGoneInv == ASSUME IInv, GoneInv, Promote PROVE GoneInv'
<1>0. StoreShapes /\ DOMAIN tr = TrackFields /\ DOMAIN mem = MemFields
  BY DEF IInv, Progress, StoreShapes
<1>1. PICK p \in tr.cands :
        LET snap == [ses |-> tr.ses, pos |-> p, ctx |-> tr.ctx]
            ready == (tr.safe = p /\ tr.prep) \/ Prepares(mem, snap)
            staged == IF ready THEN StagedEmergency(mem, snap) ELSE mem
            noted == [tr EXCEPT !.safe = p, !.prep = ready]
        IN  \/ /\ tr' = noted
               /\ mem' = IF ready THEN staged
                         ELSE [mem EXCEPT !.emError = @ \/ Accepts(mem)]
            \/ /\ ready /\ Accepts(mem) /\ Room
               /\ mem' = Submitted(staged, snap)
               /\ tr' = [noted EXCEPT !.cands = {q \in @ : q > p}]
  BY DEF Promote
<1> DEFINE snap == [ses |-> tr.ses, pos |-> p, ctx |-> tr.ctx]
           staged == StagedEmergency(mem, snap)
<1>2. UNCHANGED <<disk, w, gone, state, begun>> /\ state \in {"printing", "complete"}
  BY DEF Promote, OnlyMemory
<1>3. tr'.ses = tr.ses /\ tr'.inhibited = tr.inhibited
  BY <1>0, <1>1 DEF TrackFields
<1>4. ~tr.inhibited /\ tr.ses \notin mem.dropped /\ tr.ses \in Nat /\ tr.ses <= begun
  BY <1>1, <1>2 DEF GoneInv, TrackGone
<1>5. /\ DOMAIN staged = MemFields /\ staged.gen = mem.gen /\ staged.dropped = mem.dropped
      /\ staged.kind = mem.kind /\ staged.normal = mem.normal
      /\ staged.newCheckpoint = mem.newCheckpoint /\ staged.tombstone = mem.tombstone
  BY <1>0 DEF StagedEmergency, MemFields
<1>6. /\ mem'.gen = mem.gen /\ mem'.dropped = mem.dropped
      /\ mem'.kind = mem.kind /\ mem'.normal = mem.normal /\ mem'.tombstone = mem.tombstone
      /\ mem'.newCheckpoint \in {mem.newCheckpoint, snap}
  BY <1>0, <1>1, <1>5 DEF Submitted, MemFields
<1>7. MemSnaps(mem') \subseteq MemSnaps(mem) \cup {snap}
  <2>1. \A m : DOMAIN m = MemFields =>
          MemSnaps([m EXCEPT !.emError = @ \/ Accepts(m)]) = MemSnaps(m)
    BY DEF MemFields, MemSnaps
  <2>. QED BY <1>0, <1>1, <2>1, StagedAmong
<1>8. StoreGone'
  BY <1>2, <1>4, <1>6 DEF GoneInv, StoreGone, Generations, disk
<1>9. \A s \in Snaps' : s.ses \in Nat /\ s.ses <= begun
  <2>1. \A s \in Snaps' : s \in Snaps \/ s.ses = tr.ses
    BY <1>2, <1>7 DEF Snaps, DiskSnaps, disk
  <2>. QED BY <1>4, <2>1 DEF GoneInv, TrackGone
<1>. QED BY <1>2, <1>3, <1>4, <1>6, <1>8, <1>9 DEF GoneInv, TrackGone

\* What is recovered was not discarded.
LEMMA RecoverGoneInv == ASSUME IInv, GoneInv, RecoverBegins PROVE GoneInv'
<1>1. DOMAIN tr = TrackFields
  BY DEF IInv, Progress
<1>2. SameGone /\ FromBefore /\ begun' = begun /\ state' = "recovering"
  BY UnchangedAmong DEF RecoverBegins, StoreUnchanged, storeVars, SameStore, SameGone, IInv
<1>3. tr'.ses = Selected.ses /\ ~tr'.inhibited
  BY <1>1 DEF RecoverBegins, Forget, TrackFields
<1>4. mem.kind = "checkpoint" /\ mem.normal.ses = Selected.ses /\ mem.normal \in Snaps
  BY DEF RecoverBegins, Selected, Select, None, NoSnapshot, Snaps, MemSnaps
<1>5. Selected.ses \notin mem.dropped /\ Selected.ses \in Nat /\ Selected.ses <= begun
  BY <1>4 DEF GoneInv, StoreGone, TrackGone
<1>6. StoreGone' /\ mem'.dropped = mem.dropped /\ begun \in Nat
  BY <1>2, SameGoneKeeps DEF SameGone, GoneInv, TrackGone
<1>. QED BY <1>2, <1>3, <1>5, <1>6, GoneStep

LEMMA StopGoneInv == ASSUME IInv, GoneInv, Close \/ Reopen \/ CutPower PROVE GoneInv'
<1>1. FromBefore /\ begun' = begun
  BY StopAmong DEF Close, Reopen, CutPower, IInv
<1>2. StoreGone' /\ mem'.dropped \subseteq mem.dropped
  <2>1. CASE Close
    <3>1. mem' = [mem EXCEPT !.stopping = TRUE] /\ UNCHANGED <<disk, w, gone>>
      BY <2>1 DEF Close, StoreCloses
    <3>2. /\ mem'.gen = mem.gen /\ mem'.dropped = mem.dropped /\ mem'.kind = mem.kind
          /\ mem'.normal = mem.normal /\ mem'.newCheckpoint = mem.newCheckpoint
          /\ mem'.tombstone = mem.tombstone
      BY <3>1 DEF IInv, StoreShapes, MemFields
    <3>. QED BY <3>1, <3>2 DEF GoneInv, StoreGone, Generations, disk
  <2>2. CASE Reopen \/ CutPower
    <3>1. PICK t, e, c : /\ mem' = Loaded(journal, t, e, c) /\ w' = IdleWorker
                         /\ UNCHANGED <<journal, gone>>
      BY <2>2 DEF Reopen, StoreOpens, CutPower, PowerCut, disk
    <3>2. StoreGone' /\ mem'.dropped = gone
      BY <3>1, LoadedGone DEF IInv, GoneInv
    <3>. QED BY <3>2 DEF GoneInv, StoreGone
  <2>. QED BY <2>1, <2>2
<1>3. CASE Reopen
  BY <1>1, <1>2, <1>3, GoneFollows DEF Reopen, GoneInv, TrackGone
<1>4. CASE Close \/ CutPower
  <2>1. tr' = NoSession /\ state' \in {"down", "none"}
    BY <1>4 DEF Close, CutPower
  <2>2. tr'.ses = 0 /\ ~tr'.inhibited /\ begun \in Nat
    BY <2>1 DEF NoSession, GoneInv, TrackGone
  <2>. QED BY <1>1, <1>2, <2>1, <2>2, GoneStep
<1>. QED BY <1>3, <1>4

LEMMA NextGoneInv == IInv /\ GoneInv /\ [Next]_vars => GoneInv'
<1> SUFFICES ASSUME IInv, GoneInv, [Next]_vars PROVE GoneInv'
  OBVIOUS
<1>1. CASE Next
  BY <1>1, LoadGoneInv, DiscardGoneInv, FollowGoneInv, PromoteGoneInv, RecoverGoneInv,
     StopGoneInv, WorkGoneInv DEF Next
<1>2. CASE UNCHANGED vars
  <2>1. SameGone /\ FromBefore /\ UNCHANGED <<tr, state, begun>>
    BY <1>2, UnchangedAmong DEF vars, StoreUnchanged, storeVars, SameStore, SameGone, IInv
  <2>. QED BY <2>1, SameGoneKeeps, GoneFollows DEF SameGone, GoneInv, TrackGone
<1>. QED BY <1>1, <1>2

\* What a finished discard covered is offered by no restart, and what this session
\* was told to discard not by PLR_RECOVER, whatever was being written when the
\* discard came, and whatever failed or was cut off since.
THEOREM NeverOfferedAgain == Spec => []DiscardedStaysGone
<1>1. Spec => [](IInv /\ GoneInv)
  BY InitIInv, NextIInv, InitGoneInv, NextGoneInv, PTL DEF Spec
<1>2. GoneInv => DiscardedStaysGone
  <2> SUFFICES ASSUME GoneInv PROVE DiscardedStaysGone
    OBVIOUS
  <2>1. NoSnapshot.ses = 0 /\ 0 \notin gone \cup mem.dropped /\ gone \subseteq mem.dropped
    BY DEF GoneInv, StoreGone, NoSnapshot
  <2>2. Selected.ses \notin mem.dropped
    BY <2>1 DEF GoneInv, StoreGone, Selected, Select
  <2>3. DiskPoint.ses \notin gone
    BY <2>1 DEF GoneInv, StoreGone, DiskPoint, Select, Latest
  <2>. QED BY <2>1, <2>2, <2>3 DEF DiscardedStaysGone
<1>. QED BY <1>1, <1>2, PTL
-----------------------------------------------------------------------------
(* The records of the journal, and the contexts they need.                 *)

\* What the code keeps from the files while it writes, and once it has failed.
OffInv ==
    /\ mem.tombstone \/ Burying =>
           mem.kind = "tombstone" /\ mem.ctx = NoContext /\ None(mem.newCheckpoint)
    /\ mem.tombstone => mem.newContext = NoContext
    /\ ~mem.on => /\ mem.ctx = NoContext /\ mem.newContext = NoContext
                  /\ w.at \notin {"context", "checkpoint"}
    /\ Clearing => ~mem.on

\* A record lies in the slot of its generation, above what the other slot holds
\* of earlier ones; the checkpoint that memory keeps is the newest of them.
RecordPlaces ==
    \A i \in {0, 1} : journal[i].kind = "checkpoint" =>
        /\ Slot(journal[i].gen) = i /\ journal[i].gen # 0 /\ journal[i].snap.ses # 0
        /\ journal[1 - i].gen # journal[i].gen

JournalInv ==
    /\ w.at \in {"checkpoint", "tomb", "other", "remove"} => w.gen = mem.gen + 1
    /\ w.at = "checkpoint" => w.snap.ses # 0
    /\ RecordPlaces
    /\ mem.on => \A i \in {0, 1} :
                     journal[i].gen <= IF Burying THEN w.gen ELSE mem.gen
    /\ mem.kind = "checkpoint" =>
           LET newest == journal[Slot(mem.gen)]
           IN  /\ newest.kind = "checkpoint" /\ newest.gen = mem.gen
               /\ newest.snap = mem.normal

\* What memory counts as written is, and so is what the records need.
FilesInv ==
    /\ mem.contexts \subseteq ctxFiles
    /\ mem.ctx # NoContext => mem.ctx \in mem.contexts
    /\ ~None(mem.newCheckpoint) => mem.newCheckpoint.ctx \in mem.contexts
    /\ w.at = "checkpoint" => w.snap.ctx \in ctxFiles
    /\ \A i \in {0, 1} : Readable(journal[i], ctxFiles)

\* Contexts are numbered in the order a print comes to them.
ContextTypes ==
    /\ context \in Nat /\ tr.sig \in Nat \X Nat
    /\ mem.newContext \in Nat \X Nat /\ w.ctx \in Nat \X Nat
    /\ \A s \in Snaps : s.ctx \in Nat \X Nat

\* The tracker hands out candidates only with the context that is current, and
\* only while no other is awaited.
TrackInv ==
    /\ tr.ctx \in {NoContext, tr.sig}
    /\ tr.ctx = NoContext \/ tr.inhibited => tr.cands = {} /\ ~tr.prep
    /\ state \in {"loaded", "down"} => tr.ctx = NoContext
    /\ state = "down" => ~tr.inhibited
    /\ tr.inhibited => /\ mem.kind = "tombstone" /\ None(mem.newCheckpoint)
                       /\ w.at = "checkpoint" => mem.tombstone
    /\ mem.on /\ ~tr.inhibited /\ tr.ctx # NoContext => mem.ctx = tr.ctx /\ ~Awaited

\* Contexts that are awaited were asked for in turn, and none of them is current.
\* AsOf(c): c is of the print that runs, and not newer than what it asked for last.
AsOf(c) == c[1] = tr.ses /\ c[2] <= tr.sig[2]

OrderInv ==
    state = "printing" /\ Awaited /\ ~mem.tombstone =>
        /\ tr.sig[1] = tr.ses /\ tr.sig[2] <= context
        /\ mem.newContext # NoContext => AsOf(mem.newContext)
        /\ w.at = "context" => AsOf(w.ctx)
        /\ mem.newContext # NoContext /\ w.at = "context" => w.ctx[2] < mem.newContext[2]
        /\ mem.ctx # Context(tr.ses, context)

-----------------------------------------------------------------------------
(* The operators that read the files.                                      *)

LEMMA SlotNext ==
    ASSUME NEW g \in Nat
    PROVE  Slot(g) \in {0, 1} /\ Slot(g + 1) = 1 - Slot(g) /\ Slot(0) = 0
BY DEF Slot

\* When all records can be read, the newest generation is found, in the newest
\* record.
LEMMA NewestFound ==
    ASSUME Generations, NEW c, \A i \in {0, 1} : Readable(journal[i], c)
    PROVE  /\ Generation(journal, c) \in Nat
           /\ \A i \in {0, 1} : journal[i].gen <= Generation(journal, c)
           /\ Latest(journal).gen = Generation(journal, c)
<1> DEFINE gens == {journal[i].gen : i \in {k \in {0, 1} : Readable(journal[k], c)}}
           newest == CHOOSE g \in gens : \A h \in gens : g >= h
<1>1. gens = {journal[0].gen, journal[1].gen}
  OBVIOUS
<1>2. journal[0].gen \in Nat /\ journal[1].gen \in Nat
  BY DEF Generations
<1>3. \E g \in gens : \A h \in gens : g >= h
  <2>1. CASE journal[0].gen >= journal[1].gen
    BY <1>1, <1>2, <2>1
  <2>2. CASE ~(journal[0].gen >= journal[1].gen)
    BY <1>1, <1>2, <2>2
  <2>. QED BY <2>1, <2>2
<1>4. newest \in gens /\ \A h \in gens : newest >= h
  <2>. HIDE DEF gens
  <2>. QED BY <1>3
<1>5. Generation(journal, c) = newest
  BY <1>1 DEF Generation
<1>. HIDE DEF gens, newest
<1>6. newest \in {journal[0].gen, journal[1].gen}
      /\ newest >= journal[0].gen /\ newest >= journal[1].gen
  BY <1>1, <1>4
<1>. QED BY <1>2, <1>5, <1>6 DEF Latest

\* The newest record, being a checkpoint, is the only one of its generation.
LEMMA NewestSlot ==
    ASSUME Generations, RecordPlaces, Latest(journal).kind = "checkpoint"
    PROVE  /\ journal[Slot(Latest(journal).gen)] = Latest(journal)
           /\ Latest(journal).snap.ses # 0
BY DEF Generations, RecordPlaces, Latest

LEMMA NoneReadable == \A c : Readable(NoRecord, c)
BY DEF Readable, NoRecord

-----------------------------------------------------------------------------
(* What the thread does to the journal and to memory.                      *)
Works == {"idle", "ended", "prune", "emergency", "context", "checkpoint", "tomb", "other",
          "remove"}

\* A thread that works does not clear.
LEMMA WorksNotClears ==
    /\ w.at \in Works => ~Clearing
    /\ w'.at \in Works => ~Clearing'
    /\ w' = w => (Clearing <=> Clearing')
BY Zenon DEF Works, Clearing

StoreInv == OffInv /\ JournalInv /\ FilesInv

\* A step that leaves the journal, the contexts and all that is said of memory alone.
LEMMA SameStoreInv ==
    ASSUME StoreInv, UNCHANGED <<journal, ctxFiles>>,
           mem'.contexts = mem.contexts, mem'.ctx = mem.ctx,
           mem'.on = mem.on, mem'.tombstone = mem.tombstone, mem'.gen = mem.gen,
           mem'.newContext = mem.newContext, mem'.newCheckpoint = mem.newCheckpoint,
           mem'.kind = mem.kind, mem'.normal = mem.normal,
           \/ w' = w
           \/ /\ ~Burying /\ w'.at \in {"idle", "emergency", "prune", "ended"}
    PROVE  StoreInv'
<1>1. CASE w' = w
  <2>1. OffInv'
    BY <1>1, WorksNotClears DEF StoreInv, OffInv, Burying, Works
  <2>2. JournalInv'
    BY <1>1 DEF StoreInv, JournalInv, RecordPlaces, Burying
  <2>3. FilesInv'
    BY <1>1 DEF StoreInv, FilesInv, Readable
  <2>. QED BY <2>1, <2>2, <2>3 DEF StoreInv
<1>2. CASE ~Burying /\ w'.at \in {"idle", "emergency", "prune", "ended"}
  <2>0. ~Burying' /\ ~Clearing' /\ w'.at \notin {"checkpoint", "context", "tomb", "other", "remove"}
    BY <1>2, WorksNotClears DEF Burying, Works
  <2>1. OffInv'
    BY <1>2, <2>0 DEF StoreInv, OffInv
  <2>2. JournalInv'
    BY <1>2, <2>0 DEF StoreInv, JournalInv, RecordPlaces
  <2>3. FilesInv'
    BY <1>2, <2>0 DEF StoreInv, FilesInv, Readable
  <2>. QED BY <2>1, <2>2, <2>3 DEF StoreInv
<1>. QED BY <1>1, <1>2

\* The worker takes a task.
LEMMA PickStore ==
    ASSUME StoreShapes, StoreStates, StoreInv, Generations,
           PickTombstone \/ PickEmergency \/ PickContext \/ PickCheckpoint
    PROVE  StoreInv'
<1> USE DEF StoreInv, OffInv, JournalInv, FilesInv, RecordPlaces, Generations, StoreShapes, MemFields,
        Burying, None, Task, disk, StoreStates, Works
<1>1. CASE PickTombstone
  BY <1>1, WorksNotClears DEF PickTombstone, NoContext, NoSnapshot
<1>2. CASE PickEmergency
  <2>. HIDE DEF StoreInv
  <2>1. /\ mem' = [mem EXCEPT !.newEmergency = NoSnapshot] /\ w.at = "idle"
        /\ UNCHANGED <<journal, ctxFiles>>
        /\ w'.at \in {"emergency", "prune"}
    BY <1>2 DEF PickEmergency, IdleWorker
  <2>. QED BY <2>1, SameStoreInv
<1>3. CASE PickContext
  BY <1>3, WorksNotClears DEF PickContext
<1>4. CASE PickCheckpoint
  BY <1>4, WorksNotClears DEF PickCheckpoint, NoSnapshot
<1>. HIDE DEF StoreInv
<1>. QED BY <1>1, <1>2, <1>3, <1>4

LEMMA WriteStore ==
    ASSUME StoreShapes, StoreStates, StoreInv, Generations, WriteCheckpoint \/ SeedFails
    PROVE  StoreInv'
<1> DEFINE at == Slot(w.gen)
           record == [kind |-> "checkpoint", gen |-> w.gen, snap |-> w.snap]
<1>1. /\ w.at = "checkpoint" /\ mem.on /\ w.gen = mem.gen + 1 /\ w.snap.ses # 0
      /\ w.snap.ctx \in ctxFiles
      /\ \A i \in {0, 1} : journal[i].gen \in Nat /\ journal[i].gen <= mem.gen
      /\ mem.gen \in Nat /\ ~Burying
  BY DEF WriteCheckpoint, SeedFails, StoreInv, OffInv, JournalInv, FilesInv, Generations, Burying
<1>2. /\ at \in {0, 1} /\ at = 1 - Slot(mem.gen) /\ Slot(mem.gen) \in {0, 1}
      /\ w.gen \in Nat /\ w.gen # 0
  BY <1>1, SlotNext
<1>3. /\ journal'[at] = record /\ \A i \in {0, 1} : i # at => journal'[i] = journal[i]
  BY <1>1, <1>2, ReplacedSlots DEF WriteCheckpoint, SeedFails, StoreShapes
<1>4. /\ mem'.gen = w.gen /\ mem'.on = mem.on /\ mem'.tombstone = mem.tombstone
      /\ mem'.ctx = mem.ctx /\ mem'.newContext = mem.newContext
      /\ mem'.contexts = mem.contexts /\ mem'.newCheckpoint = mem.newCheckpoint
      /\ IF mem.tombstone THEN mem'.kind = mem.kind
         ELSE mem'.kind = "checkpoint" /\ mem'.normal = w.snap
  <2>1. mem' \in {Committed, [Committed EXCEPT !.emError = TRUE]}
    BY DEF WriteCheckpoint, SeedFails
  <2>. QED BY <2>1 DEF Committed, StoreShapes, MemFields
<1>5. w'.at = "prune" /\ ctxFiles' = ctxFiles
  BY DEF WriteCheckpoint, SeedFails, Finished, IdleWorker
<1>6. OffInv'
  BY <1>1, <1>4, <1>5, WorksNotClears DEF StoreInv, OffInv, Burying, Works
<1>7. JournalInv'
  <2>1. RecordPlaces'
    <3>1. ASSUME NEW i \in {0, 1}, journal'[i].kind = "checkpoint"
          PROVE  /\ Slot(journal'[i].gen) = i /\ journal'[i].gen # 0
                 /\ journal'[i].snap.ses # 0 /\ journal'[1 - i].gen # journal'[i].gen
      <4>1. CASE i = at
        <5>1. journal'[i] = record /\ journal'[1 - i] = journal[1 - i] /\ 1 - i \in {0, 1}
          BY <1>2, <1>3, <4>1
        <5>. QED BY <1>1, <1>2, <4>1, <5>1
      <4>2. CASE i # at
        <5>1. journal'[i] = journal[i] /\ journal'[1 - i] = record
          BY <1>2, <1>3, <4>2
        <5>. QED BY <1>1, <3>1, <5>1 DEF StoreInv, JournalInv, RecordPlaces
      <4>. QED BY <4>1, <4>2
    <3>. QED BY <3>1 DEF RecordPlaces
  <2>2. \A i \in {0, 1} : journal'[i].gen <= mem'.gen
    BY <1>1, <1>2, <1>3, <1>4
  <2>3. mem'.kind = "checkpoint" =>
            /\ journal'[Slot(mem'.gen)].kind = "checkpoint"
            /\ journal'[Slot(mem'.gen)].gen = mem'.gen
            /\ journal'[Slot(mem'.gen)].snap = mem'.normal
    BY <1>3, <1>4 DEF StoreInv, OffInv
  <2>. QED BY <1>5, <2>1, <2>2, <2>3 DEF JournalInv, Burying
<1>8. FilesInv'
  <2>1. \A i \in {0, 1} : Readable(journal'[i], ctxFiles)
    BY <1>1, <1>2, <1>3 DEF StoreInv, FilesInv, Readable
  <2>. QED BY <1>4, <1>5, <2>1 DEF StoreInv, FilesInv
<1>. QED BY <1>6, <1>7, <1>8 DEF StoreInv

\* A context, an emergency record, or nothing.
LEMMA NoteStore ==
    ASSUME StoreShapes, StoreStates, StoreInv, Generations,
           WriteContext \/ WriteEmergency \/ WorkerEnds
    PROVE  StoreInv'
<1>1. CASE WriteContext
  <2>1. /\ w.at = "context" /\ w'.at = "prune" /\ ctxFiles' = ctxFiles \cup {w.ctx}
        /\ mem'.contexts = mem.contexts \cup {w.ctx}
        /\ mem'.ctx = IF mem.tombstone THEN mem.ctx ELSE w.ctx
        /\ mem'.on = mem.on /\ mem'.tombstone = mem.tombstone /\ mem'.gen = mem.gen
        /\ mem'.newContext = mem.newContext /\ mem'.newCheckpoint = mem.newCheckpoint
        /\ mem'.kind = mem.kind /\ mem'.normal = mem.normal /\ journal' = journal
    BY <1>1 DEF WriteContext, Finished, IdleWorker, StoreShapes, MemFields
  <2>2. OffInv'
    BY <2>1, WorksNotClears DEF StoreInv, OffInv, Burying, Works
  <2>3. JournalInv'
    BY <2>1 DEF StoreInv, JournalInv, RecordPlaces, Burying
  <2>4. FilesInv'
    BY <2>1 DEF StoreInv, FilesInv, Readable
  <2>. QED BY <2>2, <2>3, <2>4 DEF StoreInv
<1>2. CASE WriteEmergency
  <2>1. /\ mem' = mem \/ mem' = [mem EXCEPT !.emergency = w.snap, !.emError = FALSE,
                                            !.staged = IF @ = w.snap THEN NoSnapshot ELSE @]
        /\ w.at = "emergency" /\ w'.at = "prune" /\ UNCHANGED <<journal, ctxFiles>>
    BY <1>2 DEF WriteEmergency, Finished, IdleWorker
  <2>2. /\ mem'.contexts = mem.contexts /\ mem'.ctx = mem.ctx
        /\ mem'.on = mem.on /\ mem'.tombstone = mem.tombstone /\ mem'.gen = mem.gen
        /\ mem'.newContext = mem.newContext /\ mem'.newCheckpoint = mem.newCheckpoint
        /\ mem'.kind = mem.kind /\ mem'.normal = mem.normal
    BY <2>1 DEF StoreShapes, MemFields
  <2>. QED BY <2>1, <2>2, SameStoreInv DEF Burying
<1>3. CASE WorkerEnds
  <2>1. /\ mem' = mem /\ w.at = "idle" /\ w'.at = "ended" /\ UNCHANGED <<journal, ctxFiles>>
    BY <1>3 DEF WorkerEnds, disk, StoreShapes
  <2>. QED BY <2>1, SameStoreInv DEF Burying
<1>. QED BY <1>1, <1>2, <1>3

\* The clean-up leaves what a record or memory needs.
LEMMA PruneStore ==
    ASSUME StoreShapes, StoreInv, Prune
    PROVE  StoreInv'
<1>1. /\ w.at = "prune" /\ w'.at = "idle" /\ journal' = journal
      /\ mem'.ctx = mem.ctx /\ mem'.on = mem.on /\ mem'.tombstone = mem.tombstone
      /\ mem'.gen = mem.gen /\ mem'.newContext = mem.newContext
      /\ mem'.newCheckpoint = mem.newCheckpoint /\ mem'.kind = mem.kind
      /\ mem'.normal = mem.normal
      /\ \/ mem'.contexts = mem.contexts /\ ctxFiles' = ctxFiles
         \/ mem'.contexts = mem.contexts \cap Needed /\ ctxFiles' = ctxFiles \cap Needed
  BY DEF Prune, IdleWorker, StoreShapes, MemFields
<1>2. mem.ctx \in Needed /\ mem.newCheckpoint.ctx \in Needed
      /\ \A i \in {0, 1} : journal[i].snap.ctx \in Needed
  BY DEF Needed, NeededInMemory
<1>3. OffInv'
  BY <1>1, WorksNotClears DEF StoreInv, OffInv, Burying, Works
<1>4. JournalInv'
  BY <1>1 DEF StoreInv, JournalInv, RecordPlaces, Burying
<1>5. FilesInv'
  <2>. HIDE DEF Needed
  <2>. QED BY <1>1, <1>2 DEF StoreInv, FilesInv, Readable
<1>. QED BY <1>3, <1>4, <1>5 DEF StoreInv

\* A tombstone goes over both slots, the older record last.
LEMMA BuryStore ==
    ASSUME StoreShapes, StoreInv, StoreGone, WriteTombstone \/ RemoveSession
    PROVE  StoreInv'
<1>0. /\ Burying /\ mem.kind = "tombstone" /\ mem.ctx = NoContext /\ None(mem.newCheckpoint)
      /\ w.gen = mem.gen + 1 /\ w.gen \in Nat /\ w.gen # 0 /\ mem.gen \in Nat
      /\ \A i \in {0, 1} : journal[i].gen \in Nat
      /\ mem.on => \A i \in {0, 1} : journal[i].gen <= w.gen
      /\ RecordPlaces
  BY DEF WriteTombstone, RemoveSession, StoreInv, OffInv, JournalInv, Burying, StoreGone, Generations
<1>1. CASE WriteTombstone
  <2>1. PICK slot \in {0, 1} :
            /\ Replaced(slot, "tombstone") /\ UNCHANGED <<ctxFiles, mem>>
            /\ \/ slot = Slot(w.gen) /\ w' = [w EXCEPT !.at = "other"]
               \/ /\ slot = 1 - Slot(w.gen) /\ w.at = "other"
                  /\ w' = [w EXCEPT !.at = "remove"]
    BY <1>0, <1>1, SlotNext DEF WriteTombstone
  <2>2. /\ journal'[slot] = [kind |-> "tombstone", gen |-> w.gen, snap |-> w.snap]
        /\ \A i \in {0, 1} : i # slot => journal'[i] = journal[i]
    BY <2>1, ReplacedSlots DEF StoreShapes
  <2>3. w'.at \in {"other", "remove"} /\ w'.gen = w.gen
    BY <2>1 DEF StoreShapes
  <2>4. OffInv'
    BY <1>0, <2>1, <2>3, WorksNotClears DEF StoreInv, OffInv, Burying, Works
  <2>5. RecordPlaces'
    <3>1. ASSUME NEW i \in {0, 1}, journal'[i].kind = "checkpoint"
          PROVE  /\ Slot(journal'[i].gen) = i /\ journal'[i].gen # 0
                 /\ journal'[i].snap.ses # 0 /\ journal'[1 - i].gen # journal'[i].gen
      <4>1. i # slot /\ journal'[i] = journal[i] /\ 1 - i = slot
        BY <2>1, <2>2, <3>1
      <4>2. slot = Slot(w.gen)
        BY <1>0, <2>1, <3>1, <4>1, SlotNext DEF StoreGone
      <4>3. Slot(w.gen) # i
        BY <4>1, <4>2
      <4>. QED BY <1>0, <2>2, <3>1, <4>1, <4>3 DEF RecordPlaces
    <3>. QED BY <3>1 DEF RecordPlaces
  <2>6. JournalInv'
    BY <1>0, <2>1, <2>2, <2>3, <2>5 DEF JournalInv, Burying
  <2>7. FilesInv'
    BY <2>1, <2>2, <2>3 DEF StoreInv, FilesInv, Readable
  <2>. QED BY <2>4, <2>6, <2>7 DEF StoreInv
<1>2. CASE RemoveSession
  <2>1. /\ mem'.contexts = {} /\ mem'.gen = w.gen /\ mem'.kind = "tombstone"
        /\ mem'.on = mem.on /\ mem'.tombstone = mem.tombstone /\ mem'.ctx = mem.ctx
        /\ mem'.newContext = mem.newContext /\ mem'.newCheckpoint = mem.newCheckpoint
        /\ journal' = journal /\ ctxFiles' = {} /\ w'.at = "idle" /\ w.at = "remove"
    BY <1>2 DEF RemoveSession, IdleWorker, StoreShapes, MemFields
  <2>2. \A i \in {0, 1} : journal[i].kind = "tombstone"
    BY <2>1 DEF StoreGone
  <2>3. OffInv'
    BY <1>0, <2>1, WorksNotClears DEF StoreInv, OffInv, Burying, Works
  <2>4. JournalInv'
    BY <1>0, <2>1 DEF JournalInv, RecordPlaces, Burying
  <2>5. FilesInv'
    BY <1>0, <2>1, <2>2 DEF FilesInv, Readable
  <2>. QED BY <2>3, <2>4, <2>5 DEF StoreInv
<1>. QED BY <1>1, <1>2

\* A write fails, and the files are removed as far as they can be.
LEMMA FailStore ==
    ASSUME StoreShapes, StoreStates, StoreInv, Generations,
           EmergencyFails \/ WriteFails \/ Cleared \/ ClearFails
    PROVE  StoreInv'
<1>1. CASE EmergencyFails
  <2>1. /\ mem' = [mem EXCEPT !.emError = TRUE] /\ w.at = "emergency" /\ w'.at = "idle"
        /\ UNCHANGED <<journal, ctxFiles>>
    BY <1>1 DEF EmergencyFails, IdleWorker, disk
  <2>. QED BY <2>1, SameStoreInv DEF Burying, StoreShapes, MemFields
<1>2. CASE WriteFails
  <2>1. /\ mem'.on = FALSE /\ mem'.kind = "tombstone" /\ mem'.ctx = NoContext
        /\ mem'.newContext = NoContext /\ mem'.newCheckpoint = NoSnapshot
        /\ mem'.contexts = mem.contexts /\ UNCHANGED <<journal, ctxFiles>>
    <3>1. /\ DOMAIN Tombstoned(mem) = MemFields /\ Tombstoned(mem).kind = "tombstone"
          /\ Tombstoned(mem).newCheckpoint = NoSnapshot /\ Tombstoned(mem).ctx = NoContext
          /\ Tombstoned(mem).newContext = NoContext
          /\ Tombstoned(mem).contexts = mem.contexts
      BY DEF Tombstoned, StoreShapes, MemFields
    <3>2. /\ UNCHANGED <<journal, ctxFiles>>
          /\ \E b : mem' = [Tombstoned(mem) EXCEPT !.on = FALSE, !.tombstone = b]
      BY <1>2, Zenon DEF WriteFails, disk
    <3>. QED BY <3>1, <3>2 DEF MemFields
  <2>2. Clearing'
    BY <1>2, Zenon DEF WriteFails, Clearing, Burying, StoreShapes
  <2>3. w'.at \notin Works
    BY <2>2, WorksNotClears
  <2>4. OffInv'
    BY <2>1, <2>3 DEF OffInv, Works, None, NoSnapshot
  <2>5. JournalInv'
    BY <2>1, <2>3 DEF StoreInv, JournalInv, RecordPlaces, Works
  <2>6. FilesInv'
    BY <2>1, <2>3 DEF StoreInv, FilesInv, Readable, Works, None, NoSnapshot
  <2>. QED BY <2>4, <2>5, <2>6 DEF StoreInv
<1>3. CASE Cleared \/ ClearFails
  <2>1. /\ \A i \in {0, 1} : journal'[i] \in {journal[i], NoRecord}
        /\ w'.at \in {"ended", "idle"} /\ ctxFiles' = ctxFiles
        /\ mem' = mem \/ mem' = [mem EXCEPT !.tombstone = FALSE]
    <3>1. PICK kept : Invalidate(kept)
      BY <1>3, Zenon DEF Cleared, ClearFails
    <3>2. /\ AfterClearing /\ ctxFiles' = ctxFiles
          /\ mem' = mem \/ mem' = [mem EXCEPT !.tombstone = FALSE]
      BY <1>3, Zenon DEF Cleared, ClearFails
    <3>3. \E at \in {"ended", "idle"} : w' = [IdleWorker EXCEPT !.at = at]
      BY <3>2, Zenon DEF AfterClearing
    <3>. QED BY <3>1, <3>2, <3>3 DEF Invalidate, IdleWorker
  <2>2. Clearing
    BY <1>3, Zenon DEF Cleared, ClearFails
  <2>3. /\ ~mem.on /\ mem.kind = "tombstone" /\ None(mem.newCheckpoint)
        /\ mem.ctx = NoContext /\ mem.newContext = NoContext
    BY <2>2 DEF StoreInv, OffInv, StoreStates
  <2>4. /\ mem'.on = mem.on /\ mem'.kind = mem.kind /\ mem'.ctx = mem.ctx
        /\ mem'.newContext = mem.newContext /\ mem'.newCheckpoint = mem.newCheckpoint
        /\ mem'.contexts = mem.contexts
    BY <2>1 DEF StoreShapes, MemFields
  <2>5. OffInv'
    BY <2>1, <2>3, <2>4, WorksNotClears DEF OffInv, Works
  <2>6. RecordPlaces'
    BY <2>1 DEF StoreInv, JournalInv, RecordPlaces, NoRecord
  <2>7. JournalInv'
    BY <2>1, <2>3, <2>4, <2>6 DEF JournalInv
  <2>8. FilesInv'
    BY <2>1, <2>3, <2>4, NoneReadable DEF StoreInv, FilesInv
  <2>. QED BY <2>5, <2>7, <2>8 DEF StoreInv
<1>. QED BY <1>1, <1>2, <1>3

\* A start reads what the last session wrote.
LEMMA LoadedStore ==
    ASSUME StoreShapes, StoreInv, Generations, NEW t, NEW e, NEW c,
           \A i \in {0, 1} : Readable(journal[i], c),
           mem' = Loaded(journal, t, e, c), w' = IdleWorker, ctxFiles' = c, journal' = journal
    PROVE  StoreInv'
<1>1. /\ mem'.on /\ mem'.gen = Generation(journal, c) /\ mem'.ctx = NoContext
      /\ mem'.newContext = NoContext /\ mem'.newCheckpoint = NoSnapshot
      /\ mem'.contexts \subseteq c
      /\ mem'.tombstone => mem'.kind = "tombstone"
      /\ mem'.kind = "checkpoint" =>
             Latest(journal).kind = "checkpoint" /\ mem'.normal = Latest(journal).snap
  BY DEF Loaded, EmptyMemory
<1>2. w'.at = "idle"
  BY DEF IdleWorker
<1>3. OffInv'
  BY <1>1, <1>2, WorksNotClears DEF OffInv, Burying, Works, None, NoSnapshot
<1>4. JournalInv'
  <2>1. RecordPlaces /\ RecordPlaces'
    BY DEF StoreInv, JournalInv, RecordPlaces
  <2>2. mem'.kind = "checkpoint" =>
            /\ journal[Slot(mem'.gen)].kind = "checkpoint"
            /\ journal[Slot(mem'.gen)].gen = mem'.gen
            /\ journal[Slot(mem'.gen)].snap = mem'.normal
    BY <1>1, <2>1, NewestFound, NewestSlot
  <2>. QED BY <1>1, <1>2, <2>1, <2>2, NewestFound DEF JournalInv, Burying
<1>5. FilesInv'
  BY <1>1, <1>2 DEF FilesInv, None, NoSnapshot
<1>. QED BY <1>3, <1>4, <1>5 DEF StoreInv

\* A cut of the power in the clean-up leaves what the records need, and a cut while
\* everything is removed finds no record that needs anything.
LEMMA StopStore ==
    ASSUME StoreShapes, StoreInv, StoreGone, StoreCloses \/ StoreOpens \/ PowerCut
    PROVE  StoreInv'
<1>1. CASE StoreCloses
  <2>1. mem' = [mem EXCEPT !.stopping = TRUE] /\ w' = w /\ UNCHANGED <<journal, ctxFiles>>
    BY <1>1 DEF StoreCloses, disk
  <2>. QED BY <2>1, SameStoreInv DEF StoreShapes, MemFields
<1>2. CASE StoreOpens
  <2>1. /\ mem' = Loaded(journal, temp, emFile, ctxFiles) /\ w' = IdleWorker
        /\ UNCHANGED <<journal, ctxFiles>>
    BY <1>2 DEF StoreOpens, disk
  <2>2. \A i \in {0, 1} : Readable(journal[i], ctxFiles)
    BY DEF StoreInv, FilesInv
  <2>. QED BY <2>1, <2>2, LoadedStore DEF StoreGone
<1>3. CASE PowerCut
  <2>1. /\ mem' = Loaded(journal, temp', emFile', ctxFiles') /\ w' = IdleWorker
        /\ journal' = journal
    BY <1>3 DEF PowerCut
  <2>2. \A i \in {0, 1} : Readable(journal[i], ctxFiles) /\ journal[i].snap.ctx \in Needed
    BY DEF StoreInv, FilesInv, Needed
  <2>3. \A i \in {0, 1} : Readable(journal[i], ctxFiles')
    <3>1. CASE w.at = "remove"
      BY <3>1 DEF StoreGone, Readable
    <3>2. CASE w.at # "remove"
      <4>. HIDE DEF Needed
      <4>1. ctxFiles' = ctxFiles \/ \E c \in SUBSET (ctxFiles \ Needed) : ctxFiles' = ctxFiles \ c
        BY <1>3, <3>2 DEF PowerCut
      <4>. QED BY <2>2, <4>1 DEF Readable
    <3>. QED BY <3>1, <3>2
  <2>. QED BY <2>1, <2>3, LoadedStore DEF StoreGone
<1>. QED BY <1>1, <1>2, <1>3

LEMMA WorkStore ==
    ASSUME StoreShapes, StoreStates, StoreInv, StoreGone, Work
    PROVE  StoreInv'
<1>1. Generations
  BY DEF StoreGone
<1>2. CASE Worker
  BY <1>1, <1>2, PickStore, WriteStore, NoteStore, PruneStore, BuryStore, FailStore DEF Worker
<1>3. CASE ~Worker
  BY <1>1, <1>3, FailStore, WriteStore DEF Work
<1>. QED BY <1>2, <1>3

\* A discard keeps nothing of what was to be written.
LEMMA DiscardStore ==
    ASSUME StoreShapes, StoreInv, mem' \in {mem, Discarded(mem)}, UNCHANGED <<disk, w>>
    PROVE  StoreInv'
<1>1. CASE mem' = mem
  BY <1>1, SameStoreInv DEF disk
<1>2. CASE mem' # mem
  <2> DEFINE m == Tombstoned(mem)
             d == [m EXCEPT !.tombstone = TRUE, !.dropped = @ \cup Recorded]
  <2>1. mem' = d
    BY <1>2 DEF Discarded
  <2>2. /\ DOMAIN m = MemFields /\ m.kind = "tombstone" /\ m.ctx = NoContext
        /\ m.newContext = NoContext /\ m.newCheckpoint = NoSnapshot
        /\ m.on = mem.on /\ m.gen = mem.gen /\ m.contexts = mem.contexts
    BY DEF Tombstoned, StoreShapes, MemFields
  <2>. HIDE DEF m
  <2>3. /\ mem'.kind = "tombstone" /\ mem'.ctx = NoContext
        /\ mem'.newContext = NoContext /\ mem'.newCheckpoint = NoSnapshot
        /\ mem'.on = mem.on /\ mem'.gen = mem.gen /\ mem'.contexts = mem.contexts
    BY <2>1, <2>2 DEF MemFields
  <2>4. w' = w /\ UNCHANGED <<journal, ctxFiles>>
    BY DEF disk
  <2>5. OffInv'
    BY <2>3, <2>4, WorksNotClears DEF StoreInv, OffInv, None, NoSnapshot, Burying
  <2>6. JournalInv'
    BY <2>3, <2>4 DEF StoreInv, JournalInv, RecordPlaces, Burying
  <2>7. FilesInv'
    BY <2>3, <2>4 DEF StoreInv, FilesInv, Readable, None, NoSnapshot
  <2>. QED BY <2>5, <2>6, <2>7 DEF StoreInv
<1>. QED BY <1>1, <1>2

-----------------------------------------------------------------------------
(* What the records offer.                                                 *)

\* The checkpoint that memory keeps is the newest record.
LEMMA NewestKept ==
    ASSUME StoreInv, Generations, mem.on, mem.kind = "checkpoint"
    PROVE  Latest(journal).kind = "checkpoint" /\ Latest(journal).snap = mem.normal
           /\ mem.normal.ses # 0
<1> DEFINE s == Slot(mem.gen)
<1>1. ~Burying /\ mem.gen \in Nat /\ \A i \in {0, 1} : journal[i].gen \in Nat
  BY DEF StoreInv, OffInv, Generations
<1>2. /\ s \in {0, 1} /\ journal[s].kind = "checkpoint" /\ journal[s].gen = mem.gen
      /\ journal[s].snap = mem.normal
      /\ \A i \in {0, 1} : journal[i].gen <= mem.gen
  BY <1>1, SlotNext DEF StoreInv, JournalInv
<1>3. journal[1 - s].gen # mem.gen /\ journal[s].snap.ses # 0
  BY <1>2 DEF StoreInv, JournalInv, RecordPlaces
<1>. HIDE DEF s
<1>4. CASE s = 0
  BY <1>1, <1>2, <1>3, <1>4 DEF Latest
<1>5. CASE s = 1
  BY <1>1, <1>2, <1>3, <1>5 DEF Latest
<1>. QED BY <1>2, <1>4, <1>5

LEMMA KeptAcknowledged ==
    ASSUME StoreInv, IInv, Generations
    PROVE  AcknowledgedKept
<1> SUFFICES ASSUME mem.on, mem.kind = "checkpoint", temp = {}
             PROVE  DiskPoint.ses = mem.normal.ses /\ DiskPoint.pos >= mem.normal.pos
  BY DEF AcknowledgedKept
<1> DEFINE em == LoadedEmergency(emFile, ctxFiles)
           r == Latest(journal)
<1>1. r.kind = "checkpoint" /\ r.snap = mem.normal /\ mem.normal.ses # 0
  BY NewestKept
<1>2. ~Ambiguous(journal, temp, ctxFiles)
  BY DEF Ambiguous, StoreInv, FilesInv
<1>3. DiskPoint = Select("checkpoint", mem.normal, em)
  BY <1>1, <1>2 DEF DiskPoint
<1>4. mem.normal.pos \in Nat
  BY <1>1 DEF IInv, Snaps, MemSnaps, Made
<1>5. em.ses = mem.normal.ses => em.pos \in Nat
  BY <1>1 DEF LoadedEmergency, IInv, Snaps, DiskSnaps, Made, NoSnapshot
<1>. HIDE DEF em, r
<1>. QED BY <1>3, <1>4, <1>5 DEF Select

-----------------------------------------------------------------------------
(* The contexts that are awaited, and the tracker.                         *)

\* What a step of the storage thread may do to them.
Effect ==
    /\ mem'.newContext \in {mem.newContext, NoContext}
    /\ w'.ctx \in {w.ctx, NoContext, mem.newContext}
    /\ mem'.on => mem.on
    /\ \/ mem'.ctx = mem.ctx \/ ~mem'.on
       \/ /\ w.at = "context" /\ ~mem.tombstone /\ w'.at # "context"
          /\ mem'.ctx = w.ctx /\ mem'.newContext = mem.newContext
    /\ w'.at = "context" =>
           /\ mem.newContext # NoContext /\ w'.ctx = mem.newContext
           /\ mem'.newContext = NoContext
    /\ \/ mem'.tombstone = mem.tombstone \/ ~mem'.on
       \/ w.at = "idle" /\ w'.at = "tomb"
    /\ mem'.kind \in {mem.kind, "tombstone"} \/ (w.at = "checkpoint" /\ ~mem.tombstone)
    /\ mem'.newCheckpoint \in {mem.newCheckpoint, NoSnapshot}
    /\ w'.at = "checkpoint" => ~None(mem.newCheckpoint)

LEMMA PickEffect ==
    ASSUME StoreShapes, PickTombstone \/ PickEmergency \/ PickContext \/ PickCheckpoint
    PROVE  Effect
<1> USE DEF Effect, StoreShapes, MemFields, Task
<1>1. CASE PickTombstone
  BY <1>1 DEF PickTombstone
<1>2. CASE PickEmergency
  <2>1. /\ mem' = [mem EXCEPT !.newEmergency = NoSnapshot]
        /\ w'.at \in {"emergency", "prune"} /\ w'.ctx = NoContext
    BY <1>2 DEF PickEmergency, IdleWorker
  <2>. QED BY <2>1
<1>3. CASE PickContext
  BY <1>3 DEF PickContext
<1>4. CASE PickCheckpoint
  BY <1>4 DEF PickCheckpoint
<1>. HIDE DEF Effect
<1>. QED BY <1>1, <1>2, <1>3, <1>4

LEMMA WriteEffect ==
    ASSUME StoreShapes,
           \/ WriteCheckpoint \/ SeedFails \/ WriteContext \/ WriteEmergency \/ Prune
           \/ WorkerEnds
    PROVE  Effect
<1> USE DEF Effect, StoreShapes, MemFields, Finished, IdleWorker
<1>1. CASE WriteCheckpoint \/ SeedFails
  <2>1. /\ w.at = "checkpoint" /\ w'.at = "prune" /\ w'.ctx = NoContext
        /\ mem' \in {Committed, [Committed EXCEPT !.emError = TRUE]}
    BY <1>1 DEF WriteCheckpoint, SeedFails
  <2>. QED BY <2>1 DEF Committed
<1>2. CASE WriteContext
  BY <1>2 DEF WriteContext
<1>3. CASE WriteEmergency
  <2>1. /\ mem' = mem \/ mem' = [mem EXCEPT !.emergency = w.snap, !.emError = FALSE,
                                            !.staged = IF @ = w.snap THEN NoSnapshot ELSE @]
        /\ w'.at = "prune" /\ w'.ctx = NoContext
    BY <1>3 DEF WriteEmergency
  <2>. QED BY <2>1
<1>4. CASE Prune
  <2>1. /\ mem' = mem \/ mem' = [mem EXCEPT !.contexts = @ \cap Needed]
        /\ w'.at = "idle" /\ w'.ctx = NoContext
    BY <1>4 DEF Prune
  <2>. QED BY <2>1
<1>5. CASE WorkerEnds
  BY <1>5 DEF WorkerEnds
<1>. HIDE DEF Effect
<1>. QED BY <1>1, <1>2, <1>3, <1>4, <1>5

LEMMA BuryEffect ==
    ASSUME StoreShapes, WriteTombstone \/ RemoveSession \/ EmergencyFails
    PROVE  Effect
<1> USE DEF Effect, StoreShapes, MemFields, IdleWorker
<1>1. CASE WriteTombstone
  <2>1. mem' = mem /\ w'.at \in {"other", "remove"} /\ w'.ctx = w.ctx
    BY <1>1 DEF WriteTombstone
  <2>. QED BY <2>1
<1>2. CASE RemoveSession
  BY <1>2 DEF RemoveSession
<1>3. CASE EmergencyFails
  BY <1>3 DEF EmergencyFails
<1>. HIDE DEF Effect
<1>. QED BY <1>1, <1>2, <1>3

LEMMA FailEffect ==
    ASSUME StoreShapes, OffInv, WriteFails \/ Cleared \/ ClearFails
    PROVE  Effect
<1>1. CASE WriteFails
  <2>1. /\ Tombstoned(mem).kind = "tombstone" /\ DOMAIN Tombstoned(mem) = MemFields
        /\ Tombstoned(mem).newCheckpoint = NoSnapshot
        /\ Tombstoned(mem).newContext = NoContext
    BY DEF Tombstoned, StoreShapes, MemFields
  <2>2. /\ \E b : mem' = [Tombstoned(mem) EXCEPT !.on = FALSE, !.tombstone = b]
        /\ Clearing' /\ \E at : w' = [w EXCEPT !.at = at]
    BY <1>1, Zenon DEF WriteFails, Clearing, Burying, StoreShapes
  <2>3. w'.at \notin Works /\ w'.ctx = w.ctx
    BY <2>2, WorksNotClears DEF StoreShapes
  <2>4. /\ mem'.on = FALSE /\ mem'.kind = "tombstone" /\ mem'.newCheckpoint = NoSnapshot
        /\ mem'.newContext = NoContext
    BY <2>1, <2>2 DEF MemFields
  <2>. QED BY <2>3, <2>4 DEF Effect, Works
<1>2. CASE Cleared \/ ClearFails
  <2>1. /\ AfterClearing /\ Clearing
        /\ mem' = mem \/ mem' = [mem EXCEPT !.tombstone = FALSE]
    BY <1>2, Zenon DEF Cleared, ClearFails
  <2>2. \E at \in {"ended", "idle"} : w' = [IdleWorker EXCEPT !.at = at]
    BY <2>1, Zenon DEF AfterClearing
  <2>3. ~mem.on
    BY <2>1 DEF OffInv
  <2>4. w'.at \in {"ended", "idle"} /\ w'.ctx = NoContext
    BY <2>2 DEF IdleWorker
  <2>5. /\ mem'.on = mem.on /\ mem'.kind = mem.kind /\ mem'.ctx = mem.ctx
        /\ mem'.newContext = mem.newContext /\ mem'.newCheckpoint = mem.newCheckpoint
    BY <2>1 DEF StoreShapes, MemFields
  <2>. QED BY <2>3, <2>4, <2>5 DEF Effect
<1>. QED BY <1>1, <1>2

LEMMA WorkEffect ==
    ASSUME StoreShapes, OffInv, Work
    PROVE  Effect
BY PickEffect, WriteEffect, BuryEffect, FailEffect DEF Work, Worker

TrackerInv == ContextTypes /\ TrackInv /\ OrderInv

LEMMA WorkTracker ==
    ASSUME StoreShapes, StoreStates, StoreInv, StoreInv', TrackerInv, FromBefore, Work
    PROVE  TrackerInv'
<1>1. Effect /\ UNCHANGED <<tr, state, context>>
  BY WorkEffect DEF Work, StoreInv, trackVars
<1>2. ContextTypes'
  <2>1. NoContext \in Nat \X Nat /\ NoSnapshot.ctx = NoContext
    BY DEF NoContext, NoSnapshot
  <2>. HIDE DEF NoContext
  <2>2. \A s \in Snaps' : s.ctx \in Nat \X Nat
    BY <2>1 DEF FromBefore, TrackerInv, ContextTypes
  <2>. QED BY <1>1, <2>1, <2>2 DEF Effect, TrackerInv, ContextTypes
<1>3. TrackInv'
  <2>1. ASSUME tr.inhibited
        PROVE  /\ mem'.kind = "tombstone" /\ None(mem'.newCheckpoint)
               /\ w'.at = "checkpoint" => mem'.tombstone
    BY <1>1, <2>1 DEF Effect, TrackerInv, TrackInv, None, NoSnapshot
  <2>2. ASSUME mem'.on, ~tr.inhibited, tr.ctx # NoContext
        PROVE  mem'.ctx = tr.ctx /\ ~Awaited'
    BY <1>1, <2>2 DEF Effect, TrackerInv, TrackInv, Awaited
  <2>. QED BY <1>1, <2>1, <2>2 DEF TrackerInv, TrackInv
<1>4. OrderInv'
  <2> SUFFICES ASSUME state = "printing", Awaited', ~mem'.tombstone
               PROVE  OrderInv'
    BY <1>1 DEF OrderInv
  <2>1. mem'.on /\ mem.on
    BY <1>1 DEF Effect, StoreInv, OffInv, Awaited
  <2>2. mem.newContext # NoContext
    BY <1>1 DEF Effect, Awaited
  <2>3. ~mem.tombstone /\ Awaited
    BY <2>2 DEF StoreInv, OffInv, Awaited
  <2>4. /\ tr.sig[1] = tr.ses /\ tr.sig[2] <= context
        /\ AsOf(mem.newContext)
        /\ w.at = "context" => AsOf(w.ctx) /\ w.ctx[2] < mem.newContext[2]
        /\ mem.ctx # Context(tr.ses, context)
    BY <2>2, <2>3 DEF TrackerInv, OrderInv
  <2>5. mem'.ctx # Context(tr.ses, context)
    <3>1. CASE mem'.ctx = mem.ctx
      BY <2>4, <3>1
    <3>2. CASE mem'.ctx # mem.ctx
      <4>1. w.at = "context" /\ mem'.ctx = w.ctx
        BY <1>1, <2>1, <3>2 DEF Effect
      <4>2. w.ctx[2] < context
        BY <2>4, <4>1 DEF AsOf, TrackerInv, ContextTypes
      <4>. QED BY <4>1, <4>2 DEF Context, TrackerInv, ContextTypes
    <3>. QED BY <3>1, <3>2
  <2>6. /\ mem'.newContext # NoContext => mem'.newContext = mem.newContext
        /\ w'.at = "context" => w'.ctx = mem.newContext /\ mem'.newContext = NoContext
    BY <1>1 DEF Effect
  <2>. QED BY <1>1, <2>4, <2>5, <2>6 DEF OrderInv, AsOf
<1>. QED BY <1>2, <1>3, <1>4 DEF TrackerInv

LEMMA InitCtxInv == Init => StoreInv /\ TrackerInv
<1> SUFFICES ASSUME Init PROVE StoreInv /\ TrackerInv
  OBVIOUS
<1>1. /\ mem.on /\ ~mem.tombstone /\ mem.gen = 0 /\ mem.kind = "tombstone"
      /\ mem.newContext = NoContext /\ mem.newCheckpoint = NoSnapshot /\ mem.ctx = NoContext
      /\ mem.contexts = {} /\ w.at = "idle" /\ w.ctx = NoContext /\ ~Burying
      /\ \A i \in {0, 1} : journal[i] = NoRecord
  BY DEF Init, StoreInit, EmptyMemory, IdleWorker, Burying
<1>2. /\ tr.ctx = NoContext /\ tr.sig = NoContext /\ tr.cands = {} /\ ~tr.prep
      /\ ~tr.inhibited /\ state = "none" /\ context = 1
  BY DEF Init, NoSession
<1>3. NoRecord.kind = "none" /\ NoRecord.gen = 0 /\ NoSnapshot.ses = 0
      /\ NoSnapshot.ctx = NoContext /\ NoContext \in Nat \X Nat
  BY DEF NoRecord, NoSnapshot, NoContext
<1>4. OffInv
  BY <1>1, WorksNotClears DEF OffInv, Works
<1>5. JournalInv
  BY <1>1, <1>3 DEF JournalInv, RecordPlaces
<1>6. FilesInv
  BY <1>1, <1>3, NoneReadable DEF FilesInv, None
<1>7. ContextTypes
  <2>1. \A s \in Snaps : s = NoSnapshot
    BY DEF Init, StoreInit, EmptyMemory, IdleWorker, NoRecord, NoEmFile, Snaps, MemSnaps, DiskSnaps
  <2>. QED BY <1>1, <1>2, <1>3, <2>1 DEF ContextTypes
<1>8. TrackInv /\ OrderInv
  BY <1>1, <1>2 DEF TrackInv, OrderInv
<1>. QED BY <1>4, <1>5, <1>6, <1>7, <1>8 DEF StoreInv, TrackerInv

\* A step that makes no snapshot, and no context but an awaited one.
LEMMA TypesFollow ==
    ASSUME ContextTypes, FromBefore, context' \in Nat, tr'.sig \in Nat \X Nat,
           mem'.newContext \in Nat \X Nat, w'.ctx \in {w.ctx, NoContext}
    PROVE  ContextTypes'
<1>1. NoContext \in Nat \X Nat /\ NoSnapshot.ctx = NoContext
  BY DEF NoContext, NoSnapshot
<1>2. \A s \in Snaps' : s.ctx \in Nat \X Nat
  BY <1>1 DEF FromBefore, ContextTypes
<1>. HIDE DEF NoContext
<1>. QED BY <1>1, <1>2 DEF ContextTypes

\* Without a print, nothing is handed out.
LEMMA NoTracker ==
    ASSUME ContextTypes, FromBefore, context' \in Nat, tr'.sig \in Nat \X Nat,
           mem'.newContext \in Nat \X Nat, w'.ctx \in {w.ctx, NoContext},
           tr'.ctx = NoContext, tr'.cands = {}, ~tr'.prep, ~tr'.inhibited,
           state' # "printing"
    PROVE  TrackerInv'
<1>1. ContextTypes'
  BY TypesFollow
<1>. QED BY <1>1 DEF TrackerInv, TrackInv, OrderInv

\* What is left of a discarded store.
LEMMA DiscardedRest ==
    ASSUME StoreShapes, mem' \in {mem, Discarded(mem)}
    PROVE  mem'.newContext \in {mem.newContext, NoContext}
<1>1. DOMAIN Tombstoned(mem) = MemFields /\ Tombstoned(mem).newContext = NoContext
  BY DEF Tombstoned, StoreShapes, MemFields
<1>. QED BY <1>1 DEF Discarded, MemFields

LEMMA DiscardedDone ==
    ASSUME StoreShapes, StoreStates, OffInv, mem' = Discarded(mem), w' = w, state # "down"
    PROVE  /\ mem'.kind = "tombstone" /\ None(mem'.newCheckpoint)
           /\ w'.at = "checkpoint" => mem'.tombstone
           /\ Awaited' => mem'.tombstone
<1>1. ~mem.stopping /\ mem' = Discarded(mem) /\ w' = w
  BY DEF StoreStates
<1>2. CASE mem.on
  <2>1. /\ DOMAIN Tombstoned(mem) = MemFields /\ Tombstoned(mem).kind = "tombstone"
        /\ Tombstoned(mem).newCheckpoint = NoSnapshot
    BY DEF Tombstoned, StoreShapes, MemFields
  <2>2. mem' = [Tombstoned(mem) EXCEPT !.tombstone = TRUE, !.dropped = @ \cup Recorded]
    BY <1>1, <1>2 DEF Discarded
  <2>3. mem'.kind = "tombstone" /\ mem'.newCheckpoint = NoSnapshot /\ mem'.tombstone
    BY <2>1, <2>2 DEF MemFields
  <2>. QED BY <2>3 DEF None, NoSnapshot
<1>3. CASE ~mem.on
  <2>1. mem' = mem
    BY <1>1, <1>3 DEF Discarded
  <2>. QED BY <1>1, <1>3, <2>1 DEF StoreStates, OffInv, Awaited
<1>. QED BY <1>2, <1>3

\* A print ends, or the printer goes down.
LEMMA EndsTracker ==
    ASSUME IInv, PrintInv, StoreInv, TrackerInv,
           LoadFile \/ ResetFile \/ CompletionMatures \/ Cancel \/ ErrorEnds
    PROVE  StoreInv' /\ TrackerInv'
<1>1. FromBefore /\ mem' \in {mem, Discarded(mem)} /\ UNCHANGED <<disk, w>>
  BY DiscardIfAmong, DiscardIfEither, Zenon
     DEF LoadFile, ResetFile, CompletionMatures, Cancel, ErrorEnds, IInv, DiscardIf, OnlyMemory
<1>2. StoreInv'
  BY <1>1, DiscardStore DEF IInv
<1>3. tr' = NoSession \/ \E s : tr' = [NoSession EXCEPT !.fresh = TRUE, !.ses = s]
  BY Zenon DEF LoadFile, ResetFile, CompletionMatures, Cancel, ErrorEnds
<1>4. /\ tr'.ctx = NoContext /\ tr'.cands = {} /\ ~tr'.prep /\ ~tr'.inhibited
      /\ tr'.sig = NoContext
  <2>1. /\ NoSession.ctx = NoContext /\ NoSession.cands = {} /\ ~NoSession.prep
        /\ ~NoSession.inhibited /\ NoSession.sig = NoContext
        /\ DOMAIN NoSession = TrackFields
    BY DEF NoSession, TrackFields
  <2>2. CASE tr' = NoSession
    BY <2>1, <2>2
  <2>3. ASSUME NEW s, tr' = [NoSession EXCEPT !.fresh = TRUE, !.ses = s]
        PROVE  /\ tr'.ctx = NoContext /\ tr'.cands = {} /\ ~tr'.prep /\ ~tr'.inhibited
               /\ tr'.sig = NoContext
    BY <2>1, <2>3 DEF TrackFields
  <2>. QED BY <1>3, <2>2, <2>3, Zenon
<1>5. state' # "printing" /\ context' \in {context, 1}
  BY Zenon DEF LoadFile, ResetFile, CompletionMatures, Cancel, ErrorEnds, PrintInv, StoreStates
<1>6. mem'.newContext \in {mem.newContext, NoContext}
  BY <1>1, DiscardedRest DEF IInv
<1>7. NoContext \in Nat \X Nat
  BY DEF NoContext
<1>8. context' \in Nat /\ mem'.newContext \in Nat \X Nat /\ ContextTypes
  <2>. HIDE DEF NoContext
  <2>. QED BY <1>5, <1>6, <1>7 DEF TrackerInv, ContextTypes
<1>. QED BY <1>1, <1>2, <1>4, <1>5, <1>7, <1>8, NoTracker

\* A discard that leaves the print: nothing is handed out, or nothing had been.
LEMMA DiscardTracker ==
    ASSUME IInv, PrintInv, StoreInv, TrackerInv, PrintStart \/ Inhibit \/ CmdDiscard
    PROVE  StoreInv' /\ TrackerInv'
<1>0. DOMAIN tr = TrackFields
  BY DEF IInv, Progress
<1>1. /\ FromBefore /\ mem' = Discarded(mem) /\ UNCHANGED <<disk, w>> /\ state # "down"
      /\ context' = context
  BY DiscardIfAmong, DiscardIfEither, Zenon
     DEF PrintStart, Inhibit, CmdDiscard, IInv, PrintInv, StoreStates, DiscardIf, OnlyMemory
<1>2. StoreInv'
  BY <1>1, DiscardStore DEF IInv
<1>3. /\ tr'.ctx = tr.ctx /\ tr'.sig = tr.sig /\ state' # "down"
      /\ \/ tr'.cands = {} /\ ~tr'.prep /\ tr'.inhibited /\ state' = state
         \/ /\ tr'.cands = tr.cands /\ tr'.prep = tr.prep /\ tr.ctx = NoContext
            /\ tr'.inhibited = tr.inhibited /\ state' = "printing"
  <2>1. CASE PrintStart
    <3>1. state = "loaded" /\ state' = "printing" /\ Starts
      BY <2>1, Zenon DEF PrintStart
    <3>2. /\ tr'.sig = tr.sig /\ tr'.ctx = tr.ctx /\ tr'.cands = tr.cands
          /\ tr'.prep = tr.prep /\ tr'.inhibited = tr.inhibited
      BY <1>0, <3>1, StartsWith
    <3>. QED BY <3>1, <3>2 DEF TrackerInv, TrackInv
  <2>2. CASE Inhibit \/ CmdDiscard
    <3>1. state' = state /\ state # "down"
      BY <1>1, <2>2, Zenon DEF Inhibit, CmdDiscard
    <3>2. tr' = [Forget(tr) EXCEPT !.inhibited = TRUE]
          \/ tr' = [Forget(tr) EXCEPT !.inhibited = TRUE, !.completion = FALSE]
      BY <2>2, Zenon DEF Inhibit, CmdDiscard
    <3>. QED BY <1>0, <3>1, <3>2 DEF TrackFields, Forget
  <2>. QED BY <2>1, <2>2
<1>4. /\ mem'.kind = "tombstone" /\ None(mem'.newCheckpoint)
      /\ w'.at = "checkpoint" => mem'.tombstone
      /\ Awaited' => mem'.tombstone
  BY <1>1, DiscardedDone DEF IInv, PrintInv, StoreInv
<1>5. ContextTypes'
  <2>1. mem'.newContext \in {mem.newContext, NoContext} /\ NoContext \in Nat \X Nat
    BY <1>1, DiscardedRest DEF IInv, NoContext
  <2>. HIDE DEF NoContext
  <2>. QED BY <1>1, <1>3, <2>1, TypesFollow DEF TrackerInv, ContextTypes
<1>6. TrackInv'
  BY <1>3, <1>4 DEF TrackerInv, TrackInv
<1>7. OrderInv'
  BY <1>4 DEF OrderInv
<1>. QED BY <1>2, <1>5, <1>6, <1>7 DEF TrackerInv

\* The steps that leave the store alone. Only a line that is read changes the context
\* of a print, and never to one that was current before.
LEMMA FollowTracker ==
    ASSUME IInv, StoreInv, TrackerInv, ~Flaps,
           ReadLine \/ Execute \/ Complete \/ RecoverEnds \/ RecoverFails
    PROVE  StoreInv' /\ TrackerInv'
<1>0. DOMAIN tr = TrackFields
  BY DEF IInv, Progress
<1>1. FromBefore /\ UNCHANGED <<journal, ctxFiles, mem, w>>
  BY UnchangedAmong DEF ReadLine, Execute, Complete, RecoverEnds, RecoverFails, IInv,
     StoreUnchanged, storeVars
<1>2. StoreInv'
  BY <1>1, SameStoreInv
<1>3. /\ tr'.ctx = tr.ctx /\ tr'.sig = tr.sig /\ tr'.cands = tr.cands /\ tr'.prep = tr.prep
      /\ tr'.inhibited = tr.inhibited /\ tr'.ses = tr.ses
      /\ state' = state \/ state' \in {"complete", "printing", "none"}
  BY <1>0 DEF ReadLine, Execute, Complete, RecoverEnds, RecoverFails, TrackFields
<1>4. context' \in Nat
  BY StoreAssumption
     DEF ReadLine, Execute, Complete, RecoverEnds, RecoverFails, TrackerInv, ContextTypes
<1>5. ContextTypes'
  BY <1>1, <1>3, <1>4, TypesFollow DEF TrackerInv, ContextTypes
<1>6. TrackInv'
  BY <1>1, <1>3 DEF TrackerInv, TrackInv, Awaited
<1>7. OrderInv'
  <2> SUFFICES ASSUME state' = "printing", Awaited', ~mem'.tombstone
               PROVE  OrderInv'
    BY DEF OrderInv
  <2>1. Awaited /\ ~mem.tombstone
    BY <1>1 DEF Awaited
  <2>2. state = "printing" /\ (context' = context \/ ~Returns(context'))
    BY <2>1 DEF ReadLine, Execute, Complete, RecoverEnds, RecoverFails
  <2>3. context' = context
        \/ (context' >= context /\ mem.ctx # Context(tr.ses, context'))
    BY <1>4, <2>1, <2>2 DEF Returns, TrackerInv, ContextTypes
  <2>4. /\ tr.sig[1] = tr.ses /\ tr.sig[2] <= context
        /\ mem.newContext # NoContext => AsOf(mem.newContext)
        /\ w.at = "context" => AsOf(w.ctx)
        /\ mem.newContext # NoContext /\ w.at = "context" => w.ctx[2] < mem.newContext[2]
        /\ mem.ctx # Context(tr.ses, context)
    BY <2>1, <2>2 DEF TrackerInv, OrderInv
  <2>5. tr.sig[2] \in Nat /\ context \in Nat
    BY DEF TrackerInv, ContextTypes
  <2>6. tr'.sig[2] <= context' /\ mem'.ctx # Context(tr'.ses, context')
    BY <1>1, <1>3, <1>4, <2>3, <2>4, <2>5
  <2>. QED BY <1>1, <1>3, <2>4, <2>6 DEF OrderInv, AsOf
<1>. QED BY <1>2, <1>5, <1>6, <1>7 DEF TrackerInv

\* A recovery takes up a checkpoint, which there is only when nothing was inhibited.
LEMMA RecoverTracker ==
    ASSUME IInv, StoreInv, TrackerInv, RecoverBegins
    PROVE  StoreInv' /\ TrackerInv'
<1>0. DOMAIN tr = TrackFields
  BY DEF IInv, Progress
<1>1. FromBefore /\ UNCHANGED <<journal, ctxFiles, mem, w>>
  BY UnchangedAmong DEF RecoverBegins, IInv, StoreUnchanged, storeVars
<1>2. StoreInv'
  BY <1>1, SameStoreInv
<1>3. Selected.ses # 0 /\ context' = Selected.ctx[2] /\ state' = "recovering"
  BY DEF RecoverBegins, None
<1>4. context' \in Nat
  <2>1. Selected \in Snaps
    BY <1>3, SelectedAmong DEF NoSnapshot
  <2>2. Selected.ctx \in Nat \X Nat
    BY <2>1 DEF TrackerInv, ContextTypes
  <2>. QED BY <1>3, <2>2
<1>5. mem.kind = "checkpoint"
  BY <1>3 DEF Selected, Select, NoSnapshot
<1>6. ~tr.inhibited
  BY <1>5 DEF TrackerInv, TrackInv
<1>7. /\ tr'.ctx = tr.ctx /\ tr'.sig = tr.sig /\ tr'.cands = {} /\ ~tr'.prep
      /\ ~tr'.inhibited
  BY <1>0 DEF RecoverBegins, TrackFields, Forget
<1>8. ContextTypes'
  BY <1>1, <1>4, <1>7, TypesFollow DEF TrackerInv, ContextTypes
<1>9. TrackInv' /\ OrderInv'
  BY <1>1, <1>3, <1>6, <1>7 DEF TrackerInv, TrackInv, OrderInv, Awaited
<1>. QED BY <1>2, <1>8, <1>9 DEF TrackerInv

\* The signal queues a staged record and touches nothing else.
LEMMA SignalTracker ==
    ASSUME IInv, StoreInv, TrackerInv, PowerSignal
    PROVE  StoreInv' /\ TrackerInv'
<1>1. UNCHANGED <<journal, emFile, ctxFiles, w, tr, state, context>>
  BY DEF PowerSignal, OnlyMemory, disk, trackVars
<1>2. /\ DOMAIN mem' = MemFields /\ MemSnaps(mem') \subseteq MemSnaps(mem)
      /\ mem'.contexts = mem.contexts /\ mem'.ctx = mem.ctx
      /\ mem'.on = mem.on /\ mem'.tombstone = mem.tombstone /\ mem'.gen = mem.gen
      /\ mem'.newContext = mem.newContext /\ mem'.newCheckpoint = mem.newCheckpoint
      /\ mem'.kind = mem.kind /\ mem'.normal = mem.normal
  <2>1. mem' = mem \/ mem' = [mem EXCEPT !.newEmergency = mem.staged]
    BY DEF PowerSignal, QueuedEmergency
  <2>. QED BY <2>1 DEF IInv, StoreShapes, MemFields, MemSnaps
<1>3. FromBefore
  BY <1>1, <1>2 DEF IInv, FromBefore, StoreShapes, Snaps, DiskSnaps
<1>4. StoreInv'
  BY <1>1, <1>2, SameStoreInv
<1>5. ContextTypes'
  BY <1>1, <1>2, <1>3, TypesFollow DEF TrackerInv, ContextTypes
<1>6. TrackInv' /\ OrderInv'
  BY <1>1, <1>2 DEF TrackerInv, TrackInv, OrderInv, Awaited, AsOf
<1>. QED BY <1>4, <1>5, <1>6 DEF TrackerInv

\* A start awaits no context.
LEMMA StopTracker ==
    ASSUME IInv, StoreInv, TrackerInv, StoreGone, Close \/ Reopen \/ CutPower
    PROVE  StoreInv' /\ TrackerInv'
<1>1. FromBefore
  BY StopAmong DEF Close, Reopen, CutPower, IInv
<1>2. StoreInv'
  BY StopStore DEF Close, Reopen, CutPower, IInv
<1>3. /\ tr' = NoSession \/ (tr' = tr /\ state = "down")
      /\ context' = context /\ state' # "printing"
  BY DEF Close, Reopen, CutPower
<1>4. /\ tr'.ctx = NoContext /\ tr'.cands = {} /\ ~tr'.prep /\ ~tr'.inhibited
      /\ tr'.sig \in {tr.sig, NoContext}
  BY <1>3 DEF NoSession, TrackerInv, TrackInv
<1>5. mem'.newContext \in {mem.newContext, NoContext} /\ w'.ctx \in {w.ctx, NoContext}
  <2>1. CASE Close
    <3>1. mem' = [mem EXCEPT !.stopping = TRUE] /\ w' = w
      BY <2>1 DEF Close, StoreCloses
    <3>. QED BY <3>1 DEF IInv, StoreShapes, MemFields
  <2>2. CASE Reopen \/ CutPower
    <3>1. /\ \E j, t, e, c : mem' = Loaded(j, t, e, c)
          /\ w' = IdleWorker
      BY <2>2 DEF Reopen, CutPower, StoreOpens, PowerCut
    <3>. QED BY <3>1 DEF Loaded, EmptyMemory, IdleWorker
  <2>. QED BY <2>1, <2>2
<1>6. NoContext \in Nat \X Nat
  BY DEF NoContext
<1>7. context' \in Nat /\ mem'.newContext \in Nat \X Nat /\ ContextTypes
      /\ tr'.sig \in Nat \X Nat
  <2>. HIDE DEF NoContext
  <2>. QED BY <1>3, <1>4, <1>5, <1>6 DEF TrackerInv, ContextTypes
<1>. QED BY <1>1, <1>2, <1>3, <1>4, <1>5, <1>7, NoTracker

\* What is asked for follows what was: only then can it be told apart from it.
LEMMA CaptureTracker ==
    ASSUME IInv, StoreInv, TrackerInv, Capture
    PROVE  StoreInv' /\ TrackerInv'
<1> DEFINE sig == Context(tr.ses, context)
<1>0. Progress /\ DOMAIN tr = TrackFields /\ DOMAIN mem = MemFields
  BY DEF IInv, Progress, StoreShapes
<1>1. /\ UNCHANGED <<journal, emFile, ctxFiles, w, state, context>>
      /\ state = "printing" /\ tr.ses # 0 /\ ~tr.inhibited
  BY DEF Capture, OnlyMemory, disk
<1>2. mem' = mem \/ (Accepts(mem) /\ sig # mem.ctx /\ mem' = [mem EXCEPT !.newContext = sig])
  BY DEF Capture, RequestedContext
<1>3. /\ mem'.contexts = mem.contexts /\ mem'.ctx = mem.ctx
      /\ mem'.on = mem.on /\ mem'.tombstone = mem.tombstone /\ mem'.gen = mem.gen
      /\ mem'.newCheckpoint = mem.newCheckpoint
      /\ mem'.kind = mem.kind /\ mem'.normal = mem.normal
      /\ \/ mem'.newContext = mem.newContext
         \/ /\ mem'.newContext = sig /\ Accepts(mem) /\ sig # mem.ctx
  BY <1>0, <1>2 DEF MemFields
<1>4. /\ tr'.ses = tr.ses /\ tr'.inhibited = tr.inhibited /\ tr'.sig = sig
      /\ \/ /\ sig # tr.sig /\ tr'.cands = {} /\ ~tr'.prep
            /\ tr'.ctx = NoContext \/ (tr'.ctx = sig /\ Accepts(mem) /\ mem.ctx = sig)
         \/ /\ sig = tr.sig /\ tr' = tr /\ tr.ctx = NoContext
            /\ mem' = mem \/ w.ctx # sig
         \/ /\ sig = tr.sig /\ mem' = mem /\ tr'.ctx = sig
            /\ tr.ctx # NoContext \/ mem.ctx = sig
  BY <1>0 DEF Capture, Forget, TrackFields
<1>5. sig \in Nat \X Nat /\ sig # NoContext /\ sig[1] = tr.ses /\ sig[2] = context
      /\ context \in Nat /\ tr.ses \in Nat /\ tr.sig \in Nat \X Nat /\ w.ctx \in Nat \X Nat
  BY <1>0, <1>1, StoreAssumption DEF Progress, TrackerInv, ContextTypes, Context, NoContext
<1>6. Awaited /\ ~mem.tombstone =>
        /\ tr.sig[1] = tr.ses /\ tr.sig[2] <= context
        /\ mem.newContext # NoContext => AsOf(mem.newContext)
        /\ w.at = "context" => AsOf(w.ctx)
        /\ mem.newContext # NoContext /\ w.at = "context" => w.ctx[2] < mem.newContext[2]
        /\ mem.ctx # sig
  BY <1>1 DEF TrackerInv, OrderInv
<1>. HIDE DEF sig
<1>7. StoreInv'
  <2>1. OffInv'
    BY <1>1, <1>3, WorksNotClears DEF StoreInv, OffInv, Burying, Accepts
  <2>2. JournalInv'
    BY <1>1, <1>3 DEF StoreInv, JournalInv, RecordPlaces, Burying
  <2>3. FilesInv'
    BY <1>1, <1>3 DEF StoreInv, FilesInv, Readable
  <2>. QED BY <2>1, <2>2, <2>3 DEF StoreInv
<1>8. ContextTypes'
  <2>1. DOMAIN mem' = MemFields /\ MemSnaps(mem') = MemSnaps(mem)
    BY <1>0, <1>2 DEF MemFields, MemSnaps
  <2>2. FromBefore
    BY <1>1, <2>1 DEF IInv, FromBefore, StoreShapes, Snaps, DiskSnaps
  <2>3. mem'.newContext \in Nat \X Nat
    BY <1>3, <1>5 DEF TrackerInv, ContextTypes
  <2>. QED BY <1>1, <1>4, <1>5, <2>2, <2>3, TypesFollow DEF TrackerInv
<1>9. TrackInv'
  <2>1. CASE sig # tr.sig
    <3>1. tr'.ctx # NoContext => mem' = mem /\ mem.ctx = sig /\ tr'.ctx = sig /\ ~Awaited
      BY <1>2, <1>4, <1>6, <2>1 DEF Accepts
    <3>2. mem' = mem => (Awaited' <=> Awaited)
      BY <1>1 DEF Awaited
    <3>. QED BY <1>1, <1>4, <2>1, <3>1, <3>2 DEF TrackInv
  <2>2. CASE tr' = tr /\ tr.ctx = NoContext
    BY <1>1, <2>2 DEF TrackInv, TrackerInv
  <2>3. CASE sig = tr.sig /\ mem' = mem /\ tr'.ctx = sig /\ (tr.ctx # NoContext \/ mem.ctx = sig)
    <3>1. mem.on => mem.ctx = sig /\ ~Awaited
      <4>1. CASE tr.ctx # NoContext
        BY <1>1, <2>3, <4>1 DEF TrackInv, TrackerInv
      <4>2. CASE mem.ctx = sig
        BY <1>5, <1>6, <4>2 DEF StoreInv, OffInv
      <4>. QED BY <2>3, <4>1, <4>2
    <3>2. Awaited' <=> Awaited
      BY <1>1, <2>3 DEF Awaited
    <3>. QED BY <1>1, <1>4, <1>5, <2>3, <3>1, <3>2 DEF TrackInv
  <2>. QED BY <1>4, <2>1, <2>2, <2>3
<1>10. OrderInv'
  <2> SUFFICES ASSUME Awaited', ~mem'.tombstone
               PROVE  OrderInv'
    BY DEF OrderInv
  <2>1. ~mem.tombstone
    BY <1>3
  <2> DEFINE In(c) == c[1] = tr.ses /\ c[2] <= context
  <2>2. \A c \in Nat \X Nat : AsOf(c) /\ Awaited => In(c)
    BY <1>5, <1>6, <2>1 DEF AsOf
  <2>3. tr'.sig[1] = tr'.ses /\ tr'.sig[2] <= context'
    BY <1>1, <1>4, <1>5
  <2>4. mem'.newContext # NoContext => In(mem'.newContext)
    <3>1. CASE mem'.newContext = sig
      BY <1>5, <3>1
    <3>2. CASE mem'.newContext = mem.newContext
      <4>1. mem.newContext \in Nat \X Nat
        BY DEF TrackerInv, ContextTypes
      <4>. QED BY <1>6, <2>1, <2>2, <3>2, <4>1 DEF Awaited
    <3>. QED BY <1>3, <3>1, <3>2
  <2>5. w.at = "context" => In(w.ctx)
    BY <1>5, <1>6, <2>1, <2>2 DEF Awaited
  <2>6. mem'.newContext # NoContext /\ w'.at = "context" => w'.ctx[2] < mem'.newContext[2]
    <3> SUFFICES ASSUME mem'.newContext # NoContext, w.at = "context"
                 PROVE  w.ctx[2] < mem'.newContext[2]
      BY <1>1
    <3>1. tr.sig[1] = tr.ses /\ tr.sig[2] <= context /\ AsOf(w.ctx) /\ Awaited
      BY <1>6, <2>1 DEF Awaited
    <3>2. CASE mem'.newContext = mem.newContext
      BY <1>6, <2>1, <3>1, <3>2
    <3>3. CASE mem'.newContext # mem.newContext
      <4>1. mem'.newContext = sig /\ mem' # mem
        BY <1>3, <3>3
      <4>2. sig # tr.sig \/ w.ctx # sig
        BY <1>4, <4>1
      <4>3. w.ctx[2] < context
        <5>1. w.ctx[1] = tr.ses /\ w.ctx[2] <= tr.sig[2]
          BY <3>1 DEF AsOf
        <5>. QED BY <1>5, <3>1, <4>2, <5>1 DEF sig, Context
      <4>. QED BY <1>5, <4>1, <4>3
    <3>. QED BY <3>2, <3>3
  <2>7. mem'.ctx # Context(tr'.ses, context')
    <3>1. mem.ctx # sig
      <4>1. CASE Awaited
        BY <1>6, <2>1, <4>1
      <4>2. CASE ~Awaited
        BY <1>1, <1>3, <4>2 DEF Awaited
      <4>. QED BY <4>1, <4>2
    <3>. QED BY <1>1, <1>3, <1>4, <3>1 DEF sig
  <2>. QED BY <1>1, <1>4, <1>5, <2>3, <2>4, <2>5, <2>6, <2>7 DEF OrderInv, AsOf
<1>. QED BY <1>7, <1>8, <1>9, <1>10 DEF TrackerInv

\* A snapshot that is handed over has the current context, which is on disk, and no
\* other context is awaited.
LEMMA PromoteTracker ==
    ASSUME IInv, StoreInv, TrackerInv, Promote
    PROVE  StoreInv' /\ TrackerInv'
<1>0. DOMAIN tr = TrackFields /\ DOMAIN mem = MemFields
  BY DEF IInv, Progress, StoreShapes
<1>1. PICK p \in tr.cands :
        LET snap == [ses |-> tr.ses, pos |-> p, ctx |-> tr.ctx]
            ready == (tr.safe = p /\ tr.prep) \/ Prepares(mem, snap)
            staged == IF ready THEN StagedEmergency(mem, snap) ELSE mem
            noted == [tr EXCEPT !.safe = p, !.prep = ready]
        IN  \/ /\ tr' = noted
               /\ mem' = IF ready THEN staged
                         ELSE [mem EXCEPT !.emError = @ \/ Accepts(mem)]
            \/ /\ ready /\ Accepts(mem) /\ Room
               /\ mem' = Submitted(staged, snap)
               /\ tr' = [noted EXCEPT !.cands = {q \in @ : q > p}]
  BY Zenon DEF Promote
<1> DEFINE snap == [ses |-> tr.ses, pos |-> p, ctx |-> tr.ctx]
           staged == StagedEmergency(mem, snap)
           failed == [mem EXCEPT !.emError = @ \/ Accepts(mem)]
<1>2. /\ UNCHANGED <<journal, emFile, ctxFiles, w, state, context>>
      /\ mem.on
  BY DEF Promote, OnlyMemory, disk
<1>3. tr'.ses = tr.ses /\ tr'.ctx = tr.ctx /\ tr'.sig = tr.sig /\ tr'.inhibited = tr.inhibited
  BY <1>0, <1>1 DEF TrackFields
<1>4. /\ ~tr.inhibited /\ tr.ctx # NoContext /\ tr.ctx = tr.sig
      /\ mem.ctx = tr.ctx /\ ~Awaited
  BY <1>2 DEF TrackerInv, TrackInv
<1>5. ~Burying /\ mem.ctx \in mem.contexts
  BY <1>4 DEF StoreInv, OffInv, FilesInv
<1>6. /\ mem' \in {staged, mem, failed}
         \/ (mem' \in {Submitted(staged, snap), Submitted(mem, snap)} /\ Accepts(mem))
  BY <1>1
<1>7. \A m \in {staged, mem, failed} :
        /\ DOMAIN m = MemFields /\ MemSnaps(m) \subseteq MemSnaps(mem) \cup {snap}
        /\ m.contexts = mem.contexts /\ m.ctx = mem.ctx
        /\ m.on = mem.on /\ m.tombstone = mem.tombstone /\ m.gen = mem.gen
        /\ m.newContext = mem.newContext /\ m.newCheckpoint = mem.newCheckpoint
        /\ m.kind = mem.kind /\ m.normal = mem.normal
  BY <1>0 DEF StagedEmergency, MemFields, MemSnaps
<1>8. /\ DOMAIN mem' = MemFields /\ MemSnaps(mem') \subseteq MemSnaps(mem) \cup {snap}
      /\ mem'.contexts = mem.contexts /\ mem'.ctx = mem.ctx
      /\ mem'.on = mem.on /\ mem'.tombstone = mem.tombstone /\ mem'.gen = mem.gen
      /\ mem'.newContext = mem.newContext
      /\ mem'.kind = mem.kind /\ mem'.normal = mem.normal
      /\ \/ mem'.newCheckpoint = mem.newCheckpoint
         \/ mem'.newCheckpoint = snap /\ ~mem.tombstone
  <2>. HIDE DEF staged, failed, snap
  <2>1. CASE mem' \in {staged, mem, failed}
    BY <1>7, <2>1
  <2>2. CASE mem' \in {Submitted(staged, snap), Submitted(mem, snap)} /\ Accepts(mem)
    <3>1. PICK m \in {staged, mem} : mem' = [m EXCEPT !.newCheckpoint = snap]
      BY <2>2 DEF Submitted
    <3>2. ~mem.tombstone
      BY <2>2 DEF Accepts
    <3>. QED BY <1>7, <3>1, <3>2 DEF MemFields, MemSnaps
  <2>. QED BY <1>6, <2>1, <2>2
<1>9. snap.ctx = tr.ctx /\ tr.ctx \in Nat \X Nat
  BY <1>4 DEF TrackerInv, ContextTypes
<1>. HIDE DEF snap, staged, failed
<1>10. StoreInv'
  <2>1. OffInv'
    BY <1>2, <1>5, <1>8, WorksNotClears DEF StoreInv, OffInv, Burying
  <2>2. JournalInv'
    BY <1>2, <1>8 DEF StoreInv, JournalInv, RecordPlaces, Burying
  <2>3. FilesInv'
    BY <1>2, <1>4, <1>5, <1>8, <1>9 DEF StoreInv, FilesInv, Readable
  <2>. QED BY <2>1, <2>2, <2>3 DEF StoreInv
<1>11. ContextTypes'
  <2>1. Snaps' \subseteq Snaps \cup {snap}
    BY <1>2, <1>8 DEF Snaps, DiskSnaps
  <2>. QED BY <1>2, <1>3, <1>8, <1>9, <2>1 DEF TrackerInv, ContextTypes
<1>12. TrackInv' /\ OrderInv'
  BY <1>2, <1>3, <1>4, <1>8 DEF TrackerInv, TrackInv, OrderInv, Awaited
<1>. QED BY <1>10, <1>11, <1>12 DEF TrackerInv

LEMMA NextCtxInv ==
    ASSUME ~Flaps, IInv, PrintInv, GoneInv, StoreInv, TrackerInv, [Next]_vars
    PROVE  StoreInv' /\ TrackerInv'
<1>1. StoreShapes /\ StoreStates /\ StoreGone
  BY DEF IInv, PrintInv, GoneInv
<1>2. CASE Work
  <2>1. FromBefore
    BY <1>1, <1>2, PickAmong, WriteAmong, BuryAmong, FailAmong DEF Work, Worker
  <2>2. StoreInv'
    BY <1>1, <1>2, WorkStore
  <2>. QED BY <1>1, <1>2, <2>1, <2>2, WorkTracker
<1>3. CASE Next /\ ~Work
  BY <1>1, <1>3, EndsTracker, DiscardTracker, FollowTracker, RecoverTracker, SignalTracker,
     StopTracker, CaptureTracker, PromoteTracker DEF Next
<1>4. CASE UNCHANGED vars
  <2>1. StoreInv'
    BY <1>4, SameStoreInv DEF vars, storeVars
  <2>2. FromBefore /\ UNCHANGED <<tr, state, context, mem, w>>
    BY <1>1, <1>4, UnchangedAmong DEF vars, storeVars, StoreUnchanged
  <2>3. ContextTypes'
    BY <2>2, TypesFollow DEF TrackerInv, ContextTypes
  <2>4. TrackInv' /\ OrderInv'
    BY <2>2 DEF TrackerInv, TrackInv, OrderInv, Awaited, AsOf
  <2>. QED BY <2>1, <2>3, <2>4 DEF TrackerInv
<1>. QED BY <1>2, <1>3, <1>4

LEMMA CtxInvAlways ==
    ASSUME ~Flaps
    PROVE  Spec => [](IInv /\ GoneInv /\ StoreInv)
<1>1. Init => IInv /\ PrintInv /\ GoneInv /\ StoreInv /\ TrackerInv
  BY InitIInv, InitPrintInv, InitGoneInv, InitCtxInv
<1>2. IInv /\ PrintInv /\ GoneInv /\ StoreInv /\ TrackerInv /\ [Next]_vars
      => (IInv /\ PrintInv /\ GoneInv /\ StoreInv /\ TrackerInv)'
  BY NextIInv, NextPrintInv, NextGoneInv, NextCtxInv
<1>. QED BY <1>1, <1>2, PTL DEF Spec

\* However the clean-up of contexts (_prune_contexts) is timed, and wherever the power
\* fails, each record of the journal finds the context it names on the disk: by
\* FilesInv, since the file is kept of whatever is in the journal, is about to be
\* written to it, or was handed over to be.
THEOREM RecordsKeepContexts == ASSUME ~Flaps PROVE Spec => []ContextKept
<1>1. StoreInv => ContextKept
  BY DEF StoreInv, FilesInv, ContextKept
<1>. QED BY <1>1, CtxInvAlways, PTL

\* A checkpoint that the store has acknowledged is what a restart finds, or the same
\* print further on, wherever the power fails but within a write to the journal: by
\* JournalInv it is the newest record, in the slot of its generation, and by FilesInv
\* no record makes the journal ambiguous (_load).
THEOREM AcknowledgedStays == ASSUME ~Flaps PROVE Spec => []AcknowledgedKept
<1>1. IInv /\ GoneInv /\ StoreInv => AcknowledgedKept
  BY KeptAcknowledged DEF GoneInv, StoreGone
<1>. QED BY <1>1, CtxInvAlways, PTL

-----------------------------------------------------------------------------
(* The types of the variables.                                             *)

SnapTypes == Snaps \subseteq Snapshots \cup {NoSnapshot}

FileTypes ==
    /\ journal \in [{0, 1} -> Records] /\ temp \subseteq {0, 1} /\ emFile \in EmFiles
    /\ ctxFiles \subseteq Sessions \X Contexts

\* A context that is asked for or written is one of a print.
TaskTypes ==
    /\ mem.newContext \in AnyContext /\ w.ctx \in AnyContext
    /\ w.at = "context" => w.ctx # NoContext
    /\ gone \subseteq Sessions /\ mem.dropped \subseteq Sessions

StoreTyped == SnapTypes /\ FileTypes /\ TaskTypes

\* There are candidates only of a print, with a context that is on the disk.
TrackTyped ==
    /\ tr \in Trackers /\ state \in States
    /\ file \in Positions \cup {0} /\ ran \in Positions \cup {0}
    /\ context \in Contexts /\ done \in [Sessions -> Positions \cup {0}]
    /\ begun \in Sessions \cup {0}
    /\ tr.cands # {} => tr.ses # 0 /\ tr.ctx # NoContext

\* No step of the store makes up a snapshot, hence none makes up one of another type.
LEMMA FromBeforeTypes == ASSUME SnapTypes, FromBefore PROVE SnapTypes'
BY DEF SnapTypes, FromBefore

\* A record of what the worker has taken is a record.
LEMMA ReplacedTypes ==
    ASSUME FileTypes, SnapTypes, Generations,
           NEW slot \in {0, 1}, NEW kind \in {"checkpoint", "tombstone"}, Replaced(slot, kind)
    PROVE  journal' \in [{0, 1} -> Records]
<1>1. w.snap \in Snapshots \cup {NoSnapshot}
  BY DEF SnapTypes, Snaps, DiskSnaps
<1>2. [kind |-> kind, gen |-> w.gen, snap |-> w.snap] \in Records
  BY <1>1 DEF Records, Generations
<1>. QED BY <1>2 DEF FileTypes, Replaced

LEMMA PickTypes ==
    ASSUME StoreShapes, StoreGone, StoreTyped,
           PickTombstone \/ PickEmergency \/ PickContext \/ PickCheckpoint
    PROVE  FileTypes' /\ TaskTypes'
<1>0. NoContext \in AnyContext /\ mem.gen + 1 \in Nat
  BY DEF AnyContext, StoreGone, Generations
<1>1. w'.ctx \in {NoContext, mem.newContext} /\ (w'.at = "context" => w'.ctx # NoContext)
  BY DEF PickTombstone, PickEmergency, PickContext, PickCheckpoint, Task, IdleWorker
<1>2. mem'.newContext \in {mem.newContext, NoContext} /\ mem'.dropped = mem.dropped
      /\ gone' = gone
  BY DEF PickTombstone, PickEmergency, PickContext, PickCheckpoint, StoreShapes, MemFields
<1>3. TaskTypes'
  BY <1>0, <1>1, <1>2 DEF StoreTyped, TaskTypes
<1>4. temp' \subseteq {0, 1} /\ journal' = journal /\ ctxFiles' = ctxFiles
  <2>1. Slot(mem.gen + 1) \in {0, 1}
    BY <1>0, SlotRange
  <2>. QED BY <2>1 DEF PickTombstone, PickEmergency, PickContext, PickCheckpoint, Task, disk,
           StoreTyped, FileTypes
<1>5. emFile' \in EmFiles
  BY DEF PickTombstone, PickEmergency, PickContext, PickCheckpoint, disk, EmFiles, StoreTyped,
         FileTypes
<1>. QED BY <1>3, <1>4, <1>5 DEF StoreTyped, FileTypes

LEMMA WriteTypes ==
    ASSUME StoreShapes, StoreGone, StoreTyped,
           WriteCheckpoint \/ SeedFails \/ WriteContext \/ WriteEmergency
    PROVE  FileTypes' /\ TaskTypes'
<1>0. /\ Slot(w.gen) \in {0, 1} /\ NoContext \in AnyContext
      /\ w.snap \in Snapshots \cup {NoSnapshot}
  BY SlotRange DEF AnyContext, StoreGone, Generations, StoreTyped, SnapTypes, Snaps, DiskSnaps
<1>1. w'.ctx = NoContext /\ w'.at = "prune" /\ gone' = gone
  BY DEF WriteCheckpoint, SeedFails, WriteContext, WriteEmergency, Finished, IdleWorker
<1>2. mem'.newContext = mem.newContext /\ mem'.dropped = mem.dropped
  <2>1. CASE WriteCheckpoint \/ SeedFails
    BY <2>1 DEF WriteCheckpoint, SeedFails, Committed, StoreShapes, MemFields
  <2>2. CASE WriteContext
    BY <2>2 DEF WriteContext, StoreShapes, MemFields
  <2>3. CASE WriteEmergency
    <3>1. \/ mem' = mem
          \/ mem' = [mem EXCEPT !.emergency = w.snap, !.emError = FALSE,
                                !.staged = IF @ = w.snap THEN NoSnapshot ELSE @]
      BY <2>3 DEF WriteEmergency
    <3>. QED BY <3>1 DEF StoreShapes, MemFields
  <2>. QED BY <2>1, <2>2, <2>3
<1>3. TaskTypes'
  BY <1>0, <1>1, <1>2 DEF StoreTyped, TaskTypes
<1>4. CASE WriteCheckpoint \/ SeedFails
  <2>1. journal' \in [{0, 1} -> Records]
    BY <1>0, <1>4, ReplacedTypes DEF WriteCheckpoint, SeedFails, StoreTyped, StoreGone
  <2>2. emFile' \in EmFiles
    BY <1>0, <1>4 DEF WriteCheckpoint, SeedFails, Seeded, EmFiles, StoreTyped, FileTypes
  <2>. QED BY <1>3, <1>4, <2>1, <2>2 DEF WriteCheckpoint, SeedFails, StoreTyped, FileTypes
<1>5. CASE WriteContext
  <2>1. w.ctx \in Sessions \X Contexts
    BY <1>5 DEF WriteContext, StoreTyped, TaskTypes, AnyContext
  <2>. QED BY <1>3, <1>5, <2>1 DEF WriteContext, StoreTyped, FileTypes
<1>6. CASE WriteEmergency
  <2>1. emFile' \in EmFiles
    BY <1>0, <1>6 DEF WriteEmergency, EmFiles
  <2>. QED BY <1>3, <1>6, <2>1 DEF WriteEmergency, StoreTyped, FileTypes
<1>. QED BY <1>4, <1>5, <1>6

LEMMA BuryTypes ==
    ASSUME StoreShapes, StoreGone, StoreTyped,
           WriteTombstone \/ RemoveSession \/ Prune \/ WorkerEnds
    PROVE  FileTypes' /\ TaskTypes'
<1>0. /\ Slot(w.gen) \in {0, 1} /\ 1 - Slot(w.gen) \in {0, 1} /\ NoContext \in AnyContext
  BY SlotRange DEF AnyContext, StoreGone, Generations
<1>1. CASE WriteTombstone
  <2>1. journal' \in [{0, 1} -> Records]
    BY <1>0, <1>1, ReplacedTypes DEF WriteTombstone, StoreTyped, StoreGone
  <2>2. temp' \subseteq {0, 1}
    BY <1>0, <1>1 DEF WriteTombstone, StoreTyped, FileTypes
  <2>3. UNCHANGED <<emFile, ctxFiles, mem, gone>> /\ w'.ctx = w.ctx
        /\ w'.at \in {"other", "remove"}
    BY <1>1 DEF WriteTombstone, StoreShapes
  <2>. QED BY <2>1, <2>2, <2>3 DEF StoreTyped, FileTypes, TaskTypes
<1>2. CASE RemoveSession
  <2>1. /\ emFile' = NoEmFile /\ ctxFiles' = {} /\ UNCHANGED <<journal, temp>>
        /\ mem'.newContext = mem.newContext /\ mem'.dropped = mem.dropped
        /\ gone' = gone \cup mem.dropped /\ w'.ctx = NoContext /\ w'.at = "idle"
    BY <1>2 DEF RemoveSession, StoreShapes, MemFields, IdleWorker
  <2>. QED BY <1>0, <2>1 DEF StoreTyped, FileTypes, TaskTypes, NoEmFile, EmFiles
<1>3. CASE Prune
  <2>1. mem' = mem \/ mem' = [mem EXCEPT !.contexts = @ \cap Needed]
    BY <1>3 DEF Prune
  <2>2. /\ mem'.newContext = mem.newContext /\ mem'.dropped = mem.dropped
        /\ ctxFiles' \subseteq ctxFiles /\ w'.ctx = NoContext /\ w'.at = "idle"
        /\ UNCHANGED <<journal, temp, emFile, gone>>
    BY <1>3, <2>1 DEF Prune, StoreShapes, MemFields, IdleWorker
  <2>. QED BY <1>0, <2>2 DEF StoreTyped, FileTypes, TaskTypes
<1>4. CASE WorkerEnds
  <2>1. UNCHANGED <<journal, temp, emFile, ctxFiles, mem, gone>>
        /\ w'.ctx = w.ctx /\ w'.at = "ended"
    BY <1>4 DEF WorkerEnds, disk, StoreShapes
  <2>. QED BY <2>1 DEF StoreTyped, FileTypes, TaskTypes
<1>. QED BY <1>1, <1>2, <1>3, <1>4

LEMMA FailTypes ==
    ASSUME StoreShapes, StoreTyped, EmergencyFails \/ WriteFails \/ Cleared \/ ClearFails
    PROVE  FileTypes' /\ TaskTypes'
<1>0. NoContext \in AnyContext
  BY DEF AnyContext
<1>1. CASE EmergencyFails
  <2>1. /\ UNCHANGED <<journal, temp, emFile, ctxFiles, gone>> /\ w'.ctx = NoContext
        /\ w'.at = "idle"
        /\ mem'.newContext = mem.newContext /\ mem'.dropped = mem.dropped
    BY <1>1 DEF EmergencyFails, disk, StoreShapes, MemFields, IdleWorker
  <2>. QED BY <1>0, <2>1 DEF StoreTyped, FileTypes, TaskTypes
<1>2. CASE WriteFails
  <2>1. /\ DOMAIN Tombstoned(mem) = MemFields /\ Tombstoned(mem).newContext = NoContext
        /\ Tombstoned(mem).dropped = mem.dropped
    BY DEF Tombstoned, StoreShapes, MemFields
  <2>2. /\ \E b : mem' = [Tombstoned(mem) EXCEPT !.on = FALSE, !.tombstone = b]
        /\ \E at \in {"clear tomb", "clear context", "clear"} : w' = [w EXCEPT !.at = at]
    BY <1>2, Zenon DEF WriteFails
  <2>3. mem'.newContext = NoContext /\ mem'.dropped = mem.dropped
    BY <2>1, <2>2 DEF MemFields
  <2>4. w'.ctx = w.ctx /\ w'.at # "context"
    BY <2>2 DEF StoreShapes
  <2>5. UNCHANGED <<journal, temp, emFile, ctxFiles, gone>>
    BY <1>2 DEF WriteFails, disk
  <2>. QED BY <1>0, <2>3, <2>4, <2>5 DEF StoreTyped, FileTypes, TaskTypes
<1>3. CASE Cleared \/ ClearFails
  <2>1. PICK kept \in SUBSET {0, 1, 2} : Invalidate(kept)
    BY <1>3 DEF Cleared, ClearFails
  <2>2. NoRecord \in Records /\ NoEmFile \in EmFiles
    BY DEF NoRecord, Records, NoEmFile, EmFiles
  <2>3. FileTypes'
    BY <1>3, <2>1, <2>2 DEF Invalidate, Cleared, ClearFails, StoreTyped, FileTypes
  <2>4. w'.ctx = NoContext /\ w'.at \in {"ended", "idle"}
    BY <1>3 DEF Cleared, ClearFails, AfterClearing, IdleWorker
  <2>5. /\ mem'.newContext = mem.newContext /\ mem'.dropped = mem.dropped
        /\ gone' \subseteq gone \cup mem.dropped
    BY <1>3 DEF Cleared, ClearFails, StoreShapes, MemFields
  <2>. QED BY <1>0, <2>3, <2>4, <2>5 DEF StoreTyped, TaskTypes
<1>. QED BY <1>1, <1>2, <1>3

LEMMA StopTypes ==
    ASSUME StoreShapes, StoreTyped, StoreCloses \/ StoreOpens \/ PowerCut
    PROVE  FileTypes' /\ TaskTypes'
<1>0. NoContext \in AnyContext
  BY DEF AnyContext
<1>1. ASSUME NEW t, NEW e, NEW c, mem' = Loaded(journal, t, e, c), w' = IdleWorker,
             UNCHANGED gone
      PROVE  TaskTypes'
  <2>1. mem'.newContext = NoContext /\ mem'.dropped = gone
    BY <1>1 DEF Loaded, EmptyMemory
  <2>2. w'.ctx = NoContext /\ w'.at = "idle"
    BY <1>1 DEF IdleWorker
  <2>. QED BY <1>0, <1>1, <2>1, <2>2 DEF StoreTyped, TaskTypes
<1>2. CASE StoreCloses
  <2>1. UNCHANGED <<journal, temp, emFile, ctxFiles, w, gone>>
        /\ mem'.newContext = mem.newContext /\ mem'.dropped = mem.dropped
    BY <1>2 DEF StoreCloses, disk, StoreShapes, MemFields
  <2>. QED BY <2>1 DEF StoreTyped, FileTypes, TaskTypes
<1>3. CASE StoreOpens
  <2>1. TaskTypes'
    BY <1>1, <1>3 DEF StoreOpens
  <2>. QED BY <1>3, <2>1 DEF StoreOpens, disk, StoreTyped, FileTypes
<1>4. CASE PowerCut
  <2>1. TaskTypes'
    BY <1>1, <1>4 DEF PowerCut
  <2>2. temp' \subseteq temp /\ emFile' \in {emFile, NoEmFile} /\ ctxFiles' \subseteq ctxFiles
        /\ UNCHANGED journal
    BY <1>4 DEF PowerCut
  <2>. QED BY <2>1, <2>2 DEF StoreTyped, FileTypes, NoEmFile, EmFiles
<1>. QED BY <1>2, <1>3, <1>4

\* A print starts in context 1, and its moves take it through every position up to
\* the one that was read.
NumberedFromOne == 1 \in Contexts /\ \A p \in Positions : 1..p \subseteq Positions

TypeInv == StoreTyped /\ TrackTyped

LEMMA InitTypeInv == ASSUME NumberedFromOne, Init PROVE TypeInv
<1>1. \A s \in Snaps : s = NoSnapshot
  BY DEF Init, StoreInit, EmptyMemory, IdleWorker, NoRecord, NoEmFile, Snaps, MemSnaps, DiskSnaps
<1>2. FileTypes
  BY DEF Init, StoreInit, FileTypes, NoRecord, Records, NoEmFile, EmFiles
<1>3. TaskTypes
  BY DEF Init, StoreInit, TaskTypes, EmptyMemory, IdleWorker, AnyContext
<1>4. NoSession \in Trackers
  BY DEF NoSession, Trackers, AnyContext
<1>5. TrackTyped
  BY <1>4 DEF Init, TrackTyped, NoSession, States, NumberedFromOne
<1>. QED BY <1>1, <1>2, <1>3, <1>5 DEF TypeInv, StoreTyped, SnapTypes

LEMMA WorkTypeInv ==
    ASSUME IInv, StoreGone, TypeInv, Work
    PROVE  TypeInv'
<1>1. FromBefore
  BY PickAmong, WriteAmong, BuryAmong, FailAmong DEF Work, Worker, IInv
<1>2. FileTypes' /\ TaskTypes'
  BY PickTypes, WriteTypes, BuryTypes, FailTypes DEF Work, Worker, IInv, TypeInv
<1>3. TrackTyped'
  BY DEF Work, trackVars, TypeInv, TrackTyped
<1>. QED BY <1>1, <1>2, <1>3, FromBeforeTypes DEF TypeInv, StoreTyped

\* A discard asks for nothing and covers only prints.
LEMMA DiscardIfTypes ==
    ASSUME StoreShapes, StoreGone, StoreTyped, NEW b, DiscardIf(b)
    PROVE  StoreTyped'
<1>1. FromBefore
  BY DiscardIfAmong
<1>2. mem' \in {mem, Discarded(mem)} /\ UNCHANGED <<disk, w, gone>>
  BY DEF DiscardIf, OnlyMemory
<1>3. mem'.dropped \subseteq Sessions
  <2>1. Recorded \subseteq Sessions
    BY DEF Recorded, StoreTyped, SnapTypes, Snaps, MemSnaps, DiskSnaps, Snapshots, NoSnapshot
  <2>2. mem'.dropped \subseteq mem.dropped \cup Recorded
    BY <1>2, DiscardGone
  <2>. QED BY <2>1, <2>2 DEF StoreTyped, TaskTypes
<1>4. mem'.newContext \in AnyContext
  <2>1. /\ DOMAIN Tombstoned(mem) = MemFields
        /\ Tombstoned(mem).newContext = NoContext /\ NoContext \in AnyContext
    BY DEF Tombstoned, StoreShapes, MemFields, AnyContext
  <2>2. CASE mem' = mem \/ mem.stopping \/ ~mem.on
    BY <1>2, <2>2 DEF Discarded, StoreTyped, TaskTypes
  <2>3. CASE ~(mem' = mem \/ mem.stopping \/ ~mem.on)
    <3>1. mem' = [Tombstoned(mem) EXCEPT !.tombstone = TRUE, !.dropped = @ \cup Recorded]
      BY <1>2, <2>3 DEF Discarded
    <3>. QED BY <2>1, <3>1 DEF MemFields
  <2>. QED BY <2>2, <2>3
<1>5. FileTypes'
  BY <1>2 DEF disk, StoreTyped, FileTypes
<1>. QED BY <1>1, <1>2, <1>3, <1>4, <1>5, FromBeforeTypes DEF StoreTyped, TaskTypes

LEMMA UnchangedTypes == ASSUME StoreTyped, StoreUnchanged PROVE StoreTyped'
BY DEF StoreUnchanged, storeVars, StoreTyped, SnapTypes, FileTypes, TaskTypes, Snaps, MemSnaps,
       DiskSnaps

\* What has been executed of a print is a position of its file.
LEMMA FurthestTypes ==
    ASSUME done \in [Sessions -> Positions \cup {0}],
           NEW s \in Sessions \cup {0}, NEW p \in Positions \cup {0}
    PROVE  Furthest(s, p) \in [Sessions -> Positions \cup {0}]
BY DEF Furthest

\* The print begins, is read, is executed and ends.
LEMMA PrintTypeInv ==
    ASSUME NumberedFromOne, IInv, StoreGone, TypeInv,
           \/ LoadFile \/ ResetFile \/ PrintStart \/ ReadLine \/ Execute \/ Complete
           \/ CompletionMatures \/ Cancel \/ ErrorEnds \/ Inhibit \/ CmdDiscard
    PROVE  TypeInv'
<1>0. StoreTyped /\ TrackTyped /\ tr \in Trackers
  BY DEF TypeInv, TrackTyped
<1>1. StoreTyped'
  BY <1>0, DiscardIfTypes, UnchangedTypes
     DEF LoadFile, ResetFile, PrintStart, ReadLine, Execute, Complete, CompletionMatures, Cancel,
         ErrorEnds, Inhibit, CmdDiscard, IInv
<1>2. NoSession \in Trackers /\ NoSession.cands = {}
  BY DEF NoSession, Trackers, AnyContext
<1>3. CASE LoadFile
  <2>1. PICK s \in Sessions \cup {0} :
          Begins(s) /\ tr' = [NoSession EXCEPT !.fresh = TRUE, !.ses = s]
    BY <1>3 DEF LoadFile
  <2>2. tr' \in Trackers /\ tr'.cands = {} /\ begun' \in Sessions \cup {0}
    BY <1>0, <2>1, BeginsWith DEF NoSession, Trackers, AnyContext, TrackTyped
  <2>. QED BY <1>0, <1>1, <1>3, <2>2 DEF LoadFile, TypeInv, TrackTyped, States, NumberedFromOne
<1>9. CASE PrintStart
  <2>1. PICK s \in Sessions \cup {0} :
          /\ IF tr.ses = 0 THEN Begins(s) ELSE s = tr.ses /\ UNCHANGED begun
          /\ tr' = [tr EXCEPT !.started = TRUE, !.fresh = FALSE, !.ses = s]
    BY <1>9 DEF PrintStart, Starts
  <2>2. /\ tr' \in Trackers /\ tr'.cands = tr.cands /\ tr'.ctx = tr.ctx
        /\ tr.ses # 0 => tr'.ses = tr.ses
    BY <1>0, <2>1 DEF Trackers
  <2>3. begun' \in Sessions \cup {0}
    BY <1>0, <2>1, BeginsWith DEF TrackTyped
  <2>4. UNCHANGED <<file, ran, context, done>> /\ state' = "printing"
    BY <1>9 DEF PrintStart
  <2>. QED BY <1>0, <1>1, <2>2, <2>3, <2>4 DEF TypeInv, TrackTyped, States
<1>4. CASE ResetFile \/ Cancel \/ ErrorEnds \/ CompletionMatures
  <2>1. /\ tr' = NoSession /\ UNCHANGED <<context, done, begun>> /\ state' \in {state, "none"}
        /\ (file' = 0 /\ ran' = 0) \/ UNCHANGED <<file, ran>>
    BY <1>4, Zenon DEF ResetFile, Cancel, ErrorEnds, CompletionMatures
  <2>. QED BY <1>0, <1>1, <1>2, <2>1 DEF TypeInv, TrackTyped, States
<1>5. CASE Inhibit \/ CmdDiscard
  <2>1. /\ tr' \in Trackers /\ tr'.cands \subseteq tr.cands
        /\ tr'.ses = tr.ses /\ tr'.ctx = tr.ctx
    BY <1>0, <1>5 DEF Inhibit, CmdDiscard, Forget, Trackers
  <2>2. UNCHANGED <<file, ran, context, done, begun, state>>
    BY <1>5 DEF Inhibit, CmdDiscard
  <2>. QED BY <1>0, <1>1, <2>1, <2>2 DEF TypeInv, TrackTyped, States
<1>6. CASE ReadLine
  BY <1>0, <1>1, <1>6 DEF ReadLine, TypeInv, TrackTyped
<1>7. CASE Execute
  <2>1. ran' \in Positions
    <3>1. ran' = ran + 1 /\ ran < file /\ file \in Positions \cup {0} /\ ran \in Nat
      BY <1>0, <1>7, StoreAssumption DEF Execute, TrackTyped
    <3>2. file \in Positions /\ file \in Nat
      BY <3>1, StoreAssumption
    <3>3. ran + 1 \in 1..file
      BY <3>1, <3>2
    <3>. QED BY <3>1, <3>2, <3>3 DEF NumberedFromOne
  <2>2. done' = Furthest(tr.ses, ran') /\ tr.ses \in Sessions \cup {0}
    BY <1>0, <1>7 DEF Execute, Trackers
  <2>3. done' \in [Sessions -> Positions \cup {0}]
    BY <1>0, <2>1, <2>2, FurthestTypes DEF TrackTyped
  <2>. QED BY <1>0, <1>1, <1>7, <2>1, <2>3 DEF Execute, TypeInv, TrackTyped
<1>8. CASE Complete
  <2>1. tr' \in Trackers /\ UNCHANGED <<tr.cands, tr.ses, tr.ctx>>
    BY <1>0, <1>8 DEF Complete, Trackers
  <2>. QED BY <1>0, <1>1, <1>8, <2>1 DEF Complete, TypeInv, TrackTyped, States
<1>. QED BY <1>3, <1>4, <1>5, <1>6, <1>7, <1>8, <1>9

\* Recovery takes up the print, the position and the context of a snapshot.
LEMMA RecoverTypeInv ==
    ASSUME IInv, TypeInv, RecoverBegins \/ RecoverEnds \/ RecoverFails
    PROVE  TypeInv'
<1>0. StoreTyped /\ TrackTyped /\ tr \in Trackers
  BY DEF TypeInv, TrackTyped
<1>1. StoreTyped'
  BY <1>0, UnchangedTypes DEF RecoverBegins, RecoverEnds, RecoverFails
<1>2. CASE RecoverBegins
  <2>1. Selected \in Snapshots
    BY <1>0, <1>2, SelectedAmong DEF RecoverBegins, None, NoSnapshot, StoreTyped, SnapTypes
  <2>2. Selected.ses \in Sessions /\ Selected.pos \in Positions /\ Selected.ctx[2] \in Contexts
    BY <2>1 DEF Snapshots
  <2>3. tr' \in Trackers /\ tr'.cands = {}
    BY <1>0, <1>2, <2>2 DEF RecoverBegins, Forget, Trackers
  <2>4. done' \in [Sessions -> Positions \cup {0}]
    <3>1. done' = Furthest(tr.ses, file) /\ tr.ses \in Sessions \cup {0}
      BY <1>0, <1>2 DEF RecoverBegins, Trackers
    <3>. QED BY <1>0, <3>1, FurthestTypes DEF TrackTyped
  <2>5. file' = Selected.pos /\ ran' = Selected.pos /\ context' = Selected.ctx[2]
        /\ state' = "recovering" /\ begun' = begun
    BY <1>2 DEF RecoverBegins
  <2>. QED BY <1>0, <1>1, <2>2, <2>3, <2>4, <2>5 DEF TypeInv, TrackTyped, States
<1>3. CASE RecoverEnds \/ RecoverFails
  <2>1. tr' \in Trackers /\ tr'.cands = tr.cands /\ tr'.ses = tr.ses /\ tr'.ctx = tr.ctx
    BY <1>0, <1>3 DEF RecoverEnds, RecoverFails, Trackers
  <2>2. /\ UNCHANGED <<context, ran, done, begun>> /\ file' \in {file, 0}
        /\ state' \in {"printing", "none"}
    BY <1>3 DEF RecoverEnds, RecoverFails
  <2>. QED BY <1>0, <1>1, <2>1, <2>2 DEF TypeInv, TrackTyped, States
<1>. QED BY <1>2, <1>3

\* A candidate is noted with the context the tracker has, which is one of its print.
LEMMA CaptureTypeInv ==
    ASSUME IInv, TypeInv, Capture
    PROVE  TypeInv'
<1> DEFINE sig == Context(tr.ses, context)
<1>0. /\ StoreTyped /\ TrackTyped /\ tr \in Trackers /\ DOMAIN mem = MemFields
      /\ tr.ses \in Sessions /\ file \in Positions /\ context \in Contexts
  BY DEF TypeInv, TrackTyped, IInv, StoreShapes, Capture, Trackers
<1>1. mem' \in {mem, RequestedContext(mem, sig)}
  BY DEF Capture
<1>2. UNCHANGED <<journal, temp, emFile, ctxFiles, w, gone, state, file, context, ran, done, begun>>
  BY DEF Capture, OnlyMemory, disk
<1>3. sig \in AnyContext /\ sig # NoContext
  BY <1>0, StoreAssumption DEF Context, AnyContext, NoContext
<1>4. SnapTypes'
  <2>1. DOMAIN mem' = MemFields /\ MemSnaps(mem') = MemSnaps(mem)
    BY <1>0, <1>1, RequestAmong
  <2>. QED BY <1>0, <1>2, <2>1 DEF StoreTyped, SnapTypes, Snaps, DiskSnaps
<1>5. mem'.newContext \in {mem.newContext, sig} /\ mem'.dropped = mem.dropped
  BY <1>0, <1>1 DEF RequestedContext, MemFields
<1>6. FileTypes' /\ TaskTypes'
  BY <1>0, <1>2, <1>3, <1>5 DEF StoreTyped, FileTypes, TaskTypes
<1>7. \/ /\ tr' = [Forget(tr) EXCEPT !.sig = sig,
                      !.ctx = IF Accepts(mem) /\ mem.ctx = sig THEN sig ELSE NoContext]
      \/ tr' = tr
      \/ tr' = [tr EXCEPT !.ctx = sig, !.cands = @ \cup {file}]
  BY DEF Capture
<1>8. NoContext \in AnyContext
  BY DEF AnyContext
<1>. HIDE DEF sig
<1>9. /\ tr' \in Trackers /\ tr'.ses = tr.ses
      /\ tr'.cands # {} => tr'.ctx # NoContext
  <2>1. CASE tr' = tr
    BY <1>0, <2>1 DEF TrackTyped
  <2>2. CASE tr' = [tr EXCEPT !.ctx = sig, !.cands = @ \cup {file}]
    BY <1>0, <1>3, <2>2 DEF Trackers
  <2>3. CASE \E c \in {sig, NoContext} : tr' = [Forget(tr) EXCEPT !.sig = sig, !.ctx = c]
    <3>1. Forget(tr) \in Trackers /\ Forget(tr).cands = {} /\ Forget(tr).ses = tr.ses
      BY <1>0 DEF Trackers, Forget
    <3>2. PICK c \in AnyContext : tr' = [Forget(tr) EXCEPT !.sig = sig, !.ctx = c]
      BY <1>3, <1>8, <2>3
    <3>. QED BY <1>3, <3>1, <3>2 DEF Trackers
  <2>. QED BY <1>7, <2>1, <2>2, <2>3
<1>10. tr.ses # 0
  BY <1>0, StoreAssumption
<1>. QED BY <1>0, <1>2, <1>4, <1>6, <1>9, <1>10 DEF TypeInv, StoreTyped, TrackTyped

\* What is promoted is a snapshot: of a print, at one of its positions, with a context.
LEMMA PromoteTypeInv ==
    ASSUME IInv, TypeInv, Promote
    PROVE  TypeInv'
<1>0. /\ StoreTyped /\ TrackTyped /\ tr \in Trackers /\ DOMAIN mem = MemFields
  BY DEF TypeInv, TrackTyped, IInv, StoreShapes
<1>1. PICK p \in tr.cands :
        LET snap == [ses |-> tr.ses, pos |-> p, ctx |-> tr.ctx]
            ready == (tr.safe = p /\ tr.prep) \/ Prepares(mem, snap)
            staged == IF ready THEN StagedEmergency(mem, snap) ELSE mem
            noted == [tr EXCEPT !.safe = p, !.prep = ready]
        IN  \/ /\ tr' = noted
               /\ mem' = IF ready THEN staged
                         ELSE [mem EXCEPT !.emError = @ \/ Accepts(mem)]
            \/ /\ ready /\ Accepts(mem) /\ Room
               /\ mem' = Submitted(staged, snap)
               /\ tr' = [noted EXCEPT !.cands = {q \in @ : q > p}]
  BY DEF Promote
<1> DEFINE snap == [ses |-> tr.ses, pos |-> p, ctx |-> tr.ctx]
<1>2. UNCHANGED <<journal, temp, emFile, ctxFiles, w, gone, state, file, context, ran, done, begun>>
  BY DEF Promote, OnlyMemory, disk
<1>3. p \in Positions /\ snap \in Snapshots
  <2>1. p \in Positions /\ tr.ses \in Sessions /\ tr.ctx \in Sessions \X Contexts
    BY <1>0 DEF TrackTyped, Trackers, AnyContext
  <2>. QED BY <2>1 DEF Snapshots
<1>4. \A m : DOMAIN m = MemFields =>
        LET failed == [m EXCEPT !.emError = @ \/ Accepts(m)]
        IN  /\ DOMAIN failed = MemFields /\ MemSnaps(failed) = MemSnaps(m)
            /\ failed.newContext = m.newContext /\ failed.dropped = m.dropped
  BY DEF MemFields, MemSnaps
<1>5. \A m : DOMAIN m = MemFields =>
        /\ StagedEmergency(m, snap).newContext = m.newContext
        /\ StagedEmergency(m, snap).dropped = m.dropped
        /\ Submitted(m, snap).newContext = m.newContext
        /\ Submitted(m, snap).dropped = m.dropped
  BY DEF StagedEmergency, Submitted, MemFields
<1>6. /\ MemSnaps(mem') \subseteq MemSnaps(mem) \cup {snap}
      /\ mem'.newContext = mem.newContext /\ mem'.dropped = mem.dropped
  <2>. HIDE DEF snap
  <2>1. PICK m \in {mem, StagedEmergency(mem, snap)} :
          mem' \in {m, Submitted(m, snap), [mem EXCEPT !.emError = @ \/ Accepts(mem)]}
    BY <1>1 DEF snap
  <2>2. /\ DOMAIN m = MemFields /\ MemSnaps(m) \subseteq MemSnaps(mem) \cup {snap}
        /\ m.newContext = mem.newContext /\ m.dropped = mem.dropped
    BY <1>0, <1>5, <2>1, StagedAmong
  <2>. QED BY <1>0, <1>4, <1>5, <2>1, <2>2, StagedAmong
<1>7. SnapTypes'
  BY <1>0, <1>2, <1>3, <1>6 DEF StoreTyped, SnapTypes, Snaps, DiskSnaps
<1>8. FileTypes' /\ TaskTypes'
  BY <1>0, <1>2, <1>6 DEF StoreTyped, FileTypes, TaskTypes
<1>9. tr' \in Trackers /\ tr'.ses = tr.ses /\ tr'.ctx = tr.ctx /\ tr'.cands \subseteq tr.cands
  <2>1. PICK ready \in BOOLEAN :
          LET noted == [tr EXCEPT !.safe = p, !.prep = ready]
          IN  tr' = noted \/ tr' = [noted EXCEPT !.cands = {q \in @ : q > p}]
    BY <1>1 DEF Prepares, Accepts
  <2>. QED BY <1>0, <1>3, <2>1 DEF Trackers
<1>. QED BY <1>0, <1>2, <1>7, <1>8, <1>9 DEF TypeInv, StoreTyped, TrackTyped

LEMMA SignalTypeInv ==
    ASSUME IInv, TypeInv, PowerSignal
    PROVE  TypeInv'
<1>0. StoreTyped /\ TrackTyped /\ DOMAIN mem = MemFields
  BY DEF TypeInv, IInv, StoreShapes
<1>1. UNCHANGED <<journal, temp, emFile, ctxFiles, w, gone, trackVars>>
  BY DEF PowerSignal, OnlyMemory, disk
<1>2. /\ MemSnaps(mem') \subseteq MemSnaps(mem)
      /\ mem'.newContext = mem.newContext /\ mem'.dropped = mem.dropped
  BY <1>0, QueuedAmong DEF PowerSignal, QueuedEmergency, MemFields
<1>3. StoreTyped'
  BY <1>0, <1>1, <1>2 DEF StoreTyped, SnapTypes, FileTypes, TaskTypes, Snaps, DiskSnaps
<1>. QED BY <1>0, <1>1, <1>3 DEF TypeInv, TrackTyped, trackVars

LEMMA StopTypeInv ==
    ASSUME IInv, TypeInv, Close \/ Reopen \/ CutPower
    PROVE  TypeInv'
<1>0. StoreTyped /\ TrackTyped
  BY DEF TypeInv
<1>1. StoreTyped'
  <2>1. StoreCloses \/ StoreOpens \/ PowerCut
    BY DEF Close, Reopen, CutPower
  <2>2. FromBefore
    BY <2>1, StopAmong DEF IInv
  <2>. QED BY <1>0, <2>1, <2>2, StopTypes, FromBeforeTypes DEF IInv, StoreTyped
<1>2. NoSession \in Trackers /\ NoSession.cands = {}
  BY DEF NoSession, Trackers, AnyContext
<1>3. /\ tr' = NoSession \/ tr' = tr
      /\ UNCHANGED <<context, done, begun>> /\ state' \in {"down", "none"}
      /\ (file' = 0 /\ ran' = 0) \/ UNCHANGED <<file, ran>>
  BY Zenon DEF Close, Reopen, CutPower
<1>. QED BY <1>0, <1>1, <1>2, <1>3 DEF TypeInv, TrackTyped, States

LEMMA NextTypeInv ==
    ASSUME NumberedFromOne, IInv, GoneInv, TypeInv, [Next]_vars
    PROVE  TypeInv'
<1>1. CASE Next
  BY <1>1, WorkTypeInv, PrintTypeInv, RecoverTypeInv, CaptureTypeInv, PromoteTypeInv,
     SignalTypeInv, StopTypeInv DEF Next, GoneInv
<1>2. CASE UNCHANGED vars
  <2>1. StoreTyped'
    BY <1>2, UnchangedTypes DEF vars, StoreUnchanged, TypeInv
  <2>. QED BY <1>2, <2>1 DEF vars, TypeInv, TrackTyped
<1>. QED BY <1>1, <1>2

\* Every variable keeps its type, and every snapshot there is keeps that of a
\* snapshot: it is of a print, at one of its positions, with a context of a print,
\* although the tracker that made it may have no print or no context most of the
\* time (_capture_candidate, _promote).
THEOREM TypeCorrect == ASSUME NumberedFromOne PROVE Spec => []TypeOK
<1>1. Init => IInv /\ GoneInv /\ TypeInv
  BY InitIInv, InitGoneInv, InitTypeInv
<1>2. IInv /\ GoneInv /\ TypeInv /\ [Next]_vars => (IInv /\ GoneInv /\ TypeInv)'
  BY NextIInv, NextGoneInv, NextTypeInv
<1>3. TypeInv => TypeOK
  BY DEF TypeInv, StoreTyped, FileTypes, TaskTypes, TrackTyped, TypeOK
<1>. QED BY <1>1, <1>2, <1>3, PTL DEF Spec
=============================================================================
