------------------------- MODULE PrintServicesProofs -------------------------
(***************************************************************************)
(* Proofs about PrintServices: the soak ends as it was asked to, and the   *)
(* runout that is under way is that of the tracked filament, whatever      *)
(* sections are loaded and however their steps interleave.                 *)
(***************************************************************************)
EXTENDS PrintServices, FiniteSetTheorems, TLAPS

-----------------------------------------------------------------------------
(* The soak.                                                               *)

SoakRecord == [active : BOOLEAN, left : Nat, moved : BOOLEAN, sd : BOOLEAN]

\* A skip or an interrupt that comes while a soak runs stays visible to it, and
\* whatever would end the soak as skipped was asked since the last reset.
SoakInv ==
    /\ soak \in SoakRecord
    /\ skip \in BOOLEAN /\ asked \in BOOLEAN /\ during \in BOOLEAN
    /\ soak.active /\ during => skip \/ soak.moved
    /\ skip => asked
    /\ soak.active /\ soak.moved => asked

AskedEnd ==
    /\ ended' = "skipped" => asked
    /\ ended' = "complete" => ~during /\ ~(soak.sd /\ Pausing)

LEMMA NoSoakTyped == NoSoak \in SoakRecord /\ ~NoSoak.active
BY DEF NoSoak, SoakRecord

LEMMA StartedTyped ==
    ASSUME NEW n \in Nat, NEW b \in BOOLEAN
    PROVE  LET r == [active |-> TRUE, left |-> n, moved |-> FALSE, sd |-> b]
           IN  r \in SoakRecord /\ ~r.moved
BY Zenon DEF SoakRecord

LEMMA SoakInit0 == Init => SoakInv
<1> SUFFICES ASSUME Init PROVE SoakInv
  OBVIOUS
<1>1. soak = NoSoak /\ skip = FALSE /\ asked = FALSE /\ during = FALSE
  BY DEF Init, SoakInit
<1>. QED BY <1>1, NoSoakTyped DEF SoakInv

\* All that other sections do leaves the soak alone.
LEMMA SoakSteps ==
    ASSUME [Next]_vars
    PROVE  \/ UNCHANGED soakVars
           \/ ResetSoak \/ StartSoak \/ SkipSoak \/ InterruptSoak \/ LookAtSoak
BY DEF Next, BoxHandles, NewPrint, EndPrint, FollowPrint, Soak, FansNext, Led, Box, Others,
       vars

LEMMA SoakStep ==
    ASSUME SoakInv, [Next]_vars
    PROVE  SoakInv' /\ (ended' = ended \/ AskedEnd)
<1>1. CASE UNCHANGED soakVars
  BY <1>1 DEF SoakInv, soakVars
<1>2. CASE ResetSoak
  BY <1>2 DEF ResetSoak, SoakInv, SoakRecord, AskedEnd
<1>3. CASE StartSoak
  <2>1. CASE skip
    BY <1>3, <2>1 DEF StartSoak, SoakInv, AskedEnd
  <2>2. CASE ~skip
    <3>1. IsPrinting \in BOOLEAN /\ SoakTime \in Nat
      BY SoakAssumption DEF IsPrinting
    <3>2. /\ soak' = [active |-> TRUE, left |-> SoakTime, moved |-> FALSE, sd |-> IsPrinting]
          /\ during' = FALSE /\ ended' = "none" /\ UNCHANGED <<skip, asked>>
      BY <1>3, <2>2, Zenon DEF StartSoak
    <3>3. soak' \in SoakRecord /\ ~soak'.moved
      BY <3>1, <3>2, StartedTyped, Zenon
    <3>. QED BY <3>2, <3>3 DEF SoakInv, AskedEnd
  <2>. QED BY <2>1, <2>2
<1>4. CASE SkipSoak
  BY <1>4 DEF SkipSoak, SoakInv, SoakRecord
<1>5. CASE InterruptSoak
  BY <1>5 DEF InterruptSoak, SoakInv, SoakRecord
<1>6. CASE LookAtSoak
  <2>1. CASE down \/ Interrupted \/ Cancelled \/ soak.left = 0
    <3>1. /\ soak' = NoSoak /\ UNCHANGED <<asked, during>>
          /\ skip' = Interrupted
          /\ ended' = IF Interrupted THEN "skipped"
                      ELSE IF Cancelled THEN "cancelled" ELSE "complete"
      BY <1>6, <2>1, Zenon DEF LookAtSoak
    <3>2. Interrupted \in BOOLEAN /\ (Interrupted => asked)
      BY <1>6 DEF SoakInv, SoakRecord, Interrupted, LookAtSoak
    <3>3. AskedEnd
      <4>1. ~Interrupted => ~during
        BY <1>6 DEF LookAtSoak, SoakInv, Interrupted
      <4>2. ~Cancelled => ~(soak.sd /\ Pausing)
        BY DEF Cancelled, Pausing
      <4>. QED BY <3>1, <3>2, <4>1, <4>2 DEF AskedEnd
    <3>4. skip' \in BOOLEAN /\ (skip' => asked')
      BY <3>1, <3>2, Zenon
    <3>. QED BY <3>1, <3>3, <3>4, NoSoakTyped DEF SoakInv
  <2>2. CASE ~(down \/ Interrupted \/ Cancelled \/ soak.left = 0)
    BY <1>6, <2>2 DEF LookAtSoak, SoakInv, SoakRecord
  <2>. QED BY <2>1, <2>2
<1>. QED BY <1>1, <1>2, <1>3, <1>4, <1>5, <1>6, SoakSteps

(***************************************************************************)
(* SkipsAsAsked, for any sections, durations and inputs: a soak is skipped *)
(* only when that was asked since its print was loaded, and is complete    *)
(* only when no skip was asked and no pause of its print while it ran.     *)
(***************************************************************************)
THEOREM SoakEndsAsAsked == Spec => SkipsAsAsked
<1>1. Init => SoakInv
  BY SoakInit0
<1>2. SoakInv /\ [Next]_vars => SoakInv'
  BY SoakStep
<1>3. SoakInv /\ [Next]_vars => [AskedEnd]_ended
  BY SoakStep
<1>4. Spec => [][AskedEnd]_ended
  BY <1>1, <1>2, <1>3, PTL DEF Spec
<1>. QED BY <1>4 DEF AskedEnd, SkipsAsAsked

-----------------------------------------------------------------------------
(* Whose runout it is: what the operators of the tracking make of it.      *)

Places    == Slots \cup {NoSlot}
Statuses  == {"none", "ok", "runout", "stalled", "fault"}
Episodes  == [status : Statuses \cup {"command"},
              kind : {"none", "runout", "advisory", "fatal"}, current : BOOLEAN]
Runouts   == [active : BOOLEAN, origin : Places, box : Boxes \cup {0}]
Trackings == [owner : Places, path : Places, runout : Runouts,
              episode : [Boxes -> Episodes]]
Replies   == [state : {"none", "idle", "print"}, status : Statuses, slot : Places]
Reads     == [next : Nat, head : BOOLEAN, loaded : Places,
              got : [Boxes -> Replies]]
Ops       == [at : {"none", "look", "untrack", "retract", "out", "ready", "feed",
                    "track", "in"},
              to : Places, from : Places, runout : BOOLEAN, aborted : BOOLEAN]

\* RunoutOfOwner, of any record of the tracking.
OwnRunout(f) ==
    f.runout.active /\ f.owner # NoSlot =>
        f.runout.origin = f.owner /\ f.runout.box = BoxOf[f.owner]

Good(f) == f \in Trackings /\ OwnRunout(f)

LEMMA NothingTyped ==
    /\ NoEpisode \in Episodes /\ NoRunout \in Runouts /\ ~NoRunout.active
    /\ NoReply \in Replies /\ NoOp \in Ops
    /\ NoTracking \in Trackings /\ ~NoTracking.runout.active
    /\ NotReading \in Reads
<1>1. NoEpisode \in Episodes /\ NoRunout \in Runouts /\ ~NoRunout.active
      /\ NoReply \in Replies /\ NoOp \in Ops
  BY DEF NoEpisode, Episodes, Statuses, NoRunout, Runouts, NoReply, Replies, NoOp,
         Ops, Places
<1>2. NoTracking \in Trackings /\ NoTracking.runout = NoRunout
  BY <1>1 DEF NoTracking, Trackings, Places
<1>3. NotReading \in Reads
  BY <1>1 DEF NotReading, Reads, Places
<1>. QED BY <1>1, <1>2, <1>3

LEMMA NextEpochGood ==
    ASSUME NEW f, Good(f)
    PROVE  Good(NextEpoch(f)) /\ NextEpoch(f).owner = f.owner
BY DEF Good, OwnRunout, NextEpoch, Trackings, Episodes

LEMMA ClearRunoutGood ==
    ASSUME NEW f, Good(f)
    PROVE  Good(ClearRunout(f)) /\ ClearRunout(f).owner = f.owner
              /\ ~ClearRunout(f).runout.active
BY NothingTyped DEF Good, OwnRunout, ClearRunout, Trackings

LEMMA NewOwnerGood ==
    ASSUME NEW f \in Trackings, ~f.runout.active, NEW s \in Places, NEW b
    PROVE  LET g == [f EXCEPT !.owner = s, !.path = s, !.episode[b] = NoEpisode]
           IN  Good(g) /\ g.owner = s
BY NothingTyped DEF Good, OwnRunout, Trackings

LEMMA SetOwnerGood ==
    ASSUME NEW f, Good(f), NEW s \in Places, NEW renew \in BOOLEAN
    PROVE  Good(SetOwner(f, s, renew))
<1>1. Good(ClearRunout(NextEpoch(f))) /\ ~ClearRunout(NextEpoch(f)).runout.active
  BY NextEpochGood, ClearRunoutGood
<1>2. ClearRunout(NextEpoch(f)) \in Trackings
  BY <1>1 DEF Good
<1>3. Good([ClearRunout(NextEpoch(f)) EXCEPT !.owner = s, !.path = s,
                                             !.episode[BoxOf[s]] = NoEpisode])
  BY <1>1, <1>2, NewOwnerGood
<1>. QED BY <1>3, Zenon DEF SetOwner

LEMMA ClearOwnerGood ==
    ASSUME NEW f, Good(f), NEW b
    PROVE  Good(ClearOwner(f, b))
<1>1. NextEpoch(f) \in Trackings
  BY NextEpochGood DEF Good
<1>2. Good([NextEpoch(f) EXCEPT !.owner = NoSlot, !.episode[b] = NoEpisode])
  <2>. HIDE DEF NextEpoch
  <2>. QED BY <1>1, NothingTyped DEF Good, OwnRunout, Trackings, Places
<1>. QED BY <1>2, Zenon DEF ClearOwner

LEMMA ExternalSourceGood ==
    ASSUME NEW f, Good(f)
    PROVE  Good(ExternalSource(f))
<1>. DEFINE g == IF f.owner = NoSlot
                 THEN [f EXCEPT !.episode = NoTracking.episode]
                 ELSE ClearOwner(f, BoxOf[f.owner])
<1>1. Good([f EXCEPT !.episode = NoTracking.episode])
  BY NothingTyped DEF Good, OwnRunout, Trackings
<1>2. Good(g)
  BY <1>1, ClearOwnerGood, Zenon
<1>. HIDE DEF g
<1>3. Good(ClearRunout(g)) /\ ~ClearRunout(g).runout.active
  BY <1>2, ClearRunoutGood
<1>4. Good([ClearRunout(g) EXCEPT !.path = NoSlot])
  BY <1>3 DEF Good, OwnRunout, Trackings, Places
<1>. QED BY <1>4 DEF ExternalSource, g

LEMMA SeePathGood ==
    ASSUME NEW f, Good(f), NEW got, NEW detected \in BOOLEAN
    PROVE  Good(SeePath(f, got, detected))
<1>1. \A p \in Places : Good([f EXCEPT !.path = p])
  BY DEF Good, OwnRunout, Trackings
<1>2. Loaded(got) # {} => (CHOOSE s \in Loaded(got) : TRUE) \in Places
  BY DEF Loaded, Places
<1>3. NoSlot \in Places
  BY DEF Places
<1>. QED BY <1>1, <1>2, <1>3, Zenon DEF SeePath

LEMMA SettledGood ==
    ASSUME NEW f, Good(f), NEW got
    PROVE  Good(Settled(f, got))
BY ClearOwnerGood, Zenon DEF Settled

LEMMA ReconcileGood ==
    ASSUME NEW f, Good(f), NEW got
    PROVE  Good(Reconcile(f, got))
<1>1. Cardinality(Candidates(got)) = 1 => Candidates(got) # {}
  BY FS_EmptySet
<1>2. Candidates(got) # {} => (CHOOSE s \in Candidates(got) : TRUE) \in Places
  BY DEF Candidates, Loaded, Places
<1>3. Cardinality(Candidates(got)) = 1
         => Good(SetOwner(Settled(f, got), CHOOSE s \in Candidates(got) : TRUE, FALSE))
  BY <1>1, <1>2, SettledGood, SetOwnerGood
<1>. QED BY <1>3, SettledGood, Zenon DEF Reconcile

LEMMA ObservedTyped ==
    ASSUME NEW f \in Trackings, NEW b \in Boxes, NEW reply \in Replies
    PROVE  Observed(f, b, reply) \in Episodes
<1>1. f.episode[b] \in Episodes /\ NoEpisode \in Episodes
  BY NothingTyped DEF Trackings
<1>2. Kind(f, b, reply) \in {"none", "runout", "advisory", "fatal"}
  BY Zenon DEF Kind
<1>3. reply.status \in Statuses
  BY DEF Replies
<1>4. Key(reply.status, Kind(f, b, reply)) \in Episodes
  <2>. HIDE DEF Kind
  <2>. QED BY <1>2, <1>3 DEF Key, Episodes
<1>. QED BY <1>1, <1>4, Zenon DEF Observed

LEMMA ObserveGood ==
    ASSUME NEW f, Good(f), NEW got \in [Boxes -> Replies]
    PROVE  Good(Observe(f, got))
<1>. DEFINE out == {b \in Boxes : got[b] # NoReply /\ RunsOut(f, b, got[b])}
            e   == [b \in Boxes |-> Observed(f, b, got[b])]
            r   == IF out = {} THEN f.runout
                   ELSE [active |-> TRUE, origin |-> f.owner, box |-> BoxOf[f.owner]]
            g   == [f EXCEPT !.episode = e, !.runout = r]
<1>1. e \in [Boxes -> Episodes]
  BY ObservedTyped DEF Good
<1>2. r \in Runouts /\ (r.active /\ f.owner # NoSlot =>
                            r.origin = f.owner /\ r.box = BoxOf[f.owner])
  <2>1. CASE out = {}
    BY <2>1 DEF Good, OwnRunout, Trackings
  <2>2. CASE out # {}
    <3>1. f.owner \in Places /\ f.owner # NoSlot
      BY <2>2 DEF RunsOut, Tracks, Good, Trackings
    <3>2. BoxOf[f.owner] \in Boxes
      BY <3>1, TrackingAssumption DEF Places
    <3>. HIDE DEF out
    <3>3. r = [active |-> TRUE, origin |-> f.owner, box |-> BoxOf[f.owner]]
      BY <2>2
    <3>4. [active |-> TRUE, origin |-> f.owner, box |-> BoxOf[f.owner]] \in Runouts
      BY <3>1, <3>2 DEF Runouts
    <3>. HIDE DEF r
    <3>. QED BY <3>3, <3>4
  <2>. QED BY <2>1, <2>2
<1>3. Good(g)
  <2>. HIDE DEF e, r
  <2>. QED BY <1>1, <1>2 DEF Good, OwnRunout, Trackings
<1>4. Observe(f, got) = g
  BY DEF Observe, Good, Trackings
<1>. QED BY <1>3, <1>4

\* The invariant of the boxes' tracking.
TrackInv ==
    /\ path \in Places /\ head \in BOOLEAN
    /\ cfs \in [Boxes -> [state : {"idle", "print"}, status : Statuses]]
    /\ reads \in [Readers -> Reads]
    /\ op \in Ops
    /\ Good(fw)

LEMMA HandledGood ==
    ASSUME TrackInv, NEW r \in Readers
    PROVE  Good(Handled(r))
<1>. DEFINE got  == reads[r].got
            seen == SeePath(fw, got, reads[r].head)
<1>1. got \in [Boxes -> Replies] /\ reads[r].head \in BOOLEAN
  BY DEF TrackInv, Reads
<1>2. Good(seen)
  BY <1>1, SeePathGood DEF TrackInv
<1>3. Good(Settled(seen, got)) /\ Good(Reconcile(seen, got))
  BY <1>2, SettledGood, ReconcileGood
<1>4. Good(Observe(Reconcile(seen, got), got))
  BY <1>1, <1>3, ObserveGood
<1>. QED BY <1>3, <1>4, Zenon DEF Handled, TrackInv

LEMMA RecoveryGood ==
    ASSUME TrackInv
    PROVE  Good(Recovery)
<1>. DEFINE r == [active |-> TRUE, origin |-> fw.owner, box |-> BoxOf[fw.owner]]
            g == [fw EXCEPT !.runout = r]
<1>1. Good(fw)
  BY DEF TrackInv
<1>2. fw.owner # NoSlot => Good(g)
  <2>. SUFFICES ASSUME fw.owner # NoSlot PROVE Good(g)
    OBVIOUS
  <2>1. fw.owner \in Places /\ BoxOf[fw.owner] \in Boxes
    BY <1>1, TrackingAssumption DEF Good, Trackings, Places
  <2>2. r \in Runouts /\ r.origin = fw.owner /\ r.box = BoxOf[fw.owner]
    BY <2>1 DEF Runouts
  <2>. HIDE DEF r
  <2>. QED BY <1>1, <2>2 DEF Good, OwnRunout, Trackings
<1>. QED BY <1>1, <1>2, Zenon DEF Recovery, Tracks

-----------------------------------------------------------------------------
(* The steps of the boxes.                                                 *)

LEMMA TrackInit == Init => TrackInv
<1> SUFFICES ASSUME Init PROVE TrackInv
  OBVIOUS
<1>1. path \in Places /\ head = (path # NoSlot) /\ fw = NoTracking /\ op = NoOp
      /\ reads = [r \in Readers |-> NotReading]
      /\ cfs \in [Boxes -> [state : {"idle", "print"}, status : {"ok"}]]
  BY DEF Init, BoxInit, Places
<1>2. head \in BOOLEAN
  BY <1>1, Zenon
<1>3. cfs \in [Boxes -> [state : {"idle", "print"}, status : Statuses]]
  BY <1>1 DEF Statuses
<1>4. Good(fw)
  BY <1>1, NothingTyped DEF Good, OwnRunout
<1>. QED BY <1>1, <1>2, <1>3, <1>4, NothingTyped DEF TrackInv

LEMMA ReadStarts ==
    ASSUME TrackInv, NEW r \in Readers, NEW h \in BOOLEAN
    PROVE  [reads EXCEPT ![r] = [NotReading EXCEPT !.next = 1, !.head = h]]
               \in [Readers -> Reads]
<1>1. [NotReading EXCEPT !.next = 1, !.head = h] \in Reads
  BY NothingTyped DEF Reads
<1>. QED BY <1>1 DEF TrackInv

LEMMA ReplyTyped ==
    ASSUME TrackInv, NEW b \in Boxes
    PROVE  Reply(b) \in Replies
<1>1. (IF path # NoSlot /\ BoxOf[path] = b THEN path ELSE NoSlot) \in Places
  BY DEF TrackInv, Places
<1>2. cfs[b].state \in {"none", "idle", "print"} /\ cfs[b].status \in Statuses
  BY DEF TrackInv
<1>. QED BY <1>1, <1>2 DEF Reply, Replies

LEMMA QueryInv ==
    ASSUME TrackInv, NEW r \in Readers, Query(r)
    PROVE  TrackInv'
<1>. DEFINE n    == reads[r].next
            got  == [reads[r].got EXCEPT ![n] = Reply(n)]
            next == IF Tangled(got) THEN NBoxes + 1 ELSE n + 1
<1>1. UNCHANGED <<path, head, cfs, fw, op>> /\ n \in Boxes
  BY DEF Query
<1>2. reads[r] \in Reads /\ n + 1 \in Nat /\ NBoxes + 1 \in Nat
  BY TrackingAssumption DEF TrackInv, Reads
<1>3. got \in [Boxes -> Replies] /\ next \in Nat
  <2>1. Reply(n) \in Replies
    BY <1>1, ReplyTyped
  <2>2. reads[r].got \in [Boxes -> Replies]
    BY <1>2 DEF Reads
  <2>3. next \in Nat
    <3>. HIDE DEF got, n
    <3>. QED BY <1>2, Zenon
  <2>. HIDE DEF n
  <2>. QED BY <2>1, <2>2, <2>3
<1>4. reads' \in [Readers -> Reads]
  <2>1. CASE reads' = [reads EXCEPT ![r].next = @ + 1]
    BY <1>2, <2>1 DEF TrackInv, Reads
  <2>2. CASE reads' = [reads EXCEPT ![r].got = got, ![r].next = next]
    <3>. DEFINE one == [reads[r] EXCEPT !.got = got, !.next = next]
    <3>. HIDE DEF got, next
    <3>1. one \in Reads
      BY <1>2, <1>3 DEF Reads
    <3>2. reads' = [reads EXCEPT ![r] = one]
      BY <1>2, <2>2 DEF TrackInv, Reads
    <3>. HIDE DEF one
    <3>. QED BY <3>1, <3>2 DEF TrackInv
  <2>3. \/ reads' = [reads EXCEPT ![r].got = got, ![r].next = next]
        \/ reads' = [reads EXCEPT ![r].next = @ + 1]
    <3>1. [reads EXCEPT ![r].got = got, ![r].next = IF Tangled(got) THEN NBoxes + 1 ELSE @ + 1]
             = [reads EXCEPT ![r].got = got, ![r].next = next]
      <4>. HIDE DEF got
      <4>. QED BY <1>2 DEF TrackInv, Reads
    <3>. QED BY <3>1, Zenon DEF Query
  <2>. QED BY <2>1, <2>2, <2>3
<1>. QED BY <1>1, <1>4 DEF TrackInv

LEMMA GotoTyped ==
    ASSUME TrackInv, NEW s \in Places,
           NEW at \in {"untrack", "retract", "out", "ready", "feed", "track", "in"},
           Goto(at, s)
    PROVE  op' \in Ops
BY DEF Goto, TrackInv, Ops

LEMMA EndsTyped ==
    ASSUME TrackInv, Succeeds \/ (\E latched : Fails(latched))
    PROVE  op' \in Ops
BY NothingTyped DEF Succeeds, Fails

LEMMA HandleTyped ==
    ASSUME TrackInv, NEW r \in Readers, Handle(r)
    PROVE  Good(fw') /\ op' \in Ops
<1>1. (op.aborted \/ (op # NoOp /\ Latched(r))) \in BOOLEAN
  BY Zenon
<1>2. \A b \in BOOLEAN : [op EXCEPT !.aborted = b] \in Ops
  BY DEF TrackInv, Ops
<1>3. op' = [op EXCEPT !.aborted = op.aborted \/ (op # NoOp /\ Latched(r))]
  BY Zenon DEF Handle
<1>4. op' \in Ops
  BY <1>1, <1>2, <1>3, Zenon
<1>. QED BY <1>4, HandledGood DEF Handle

LEMMA EndReadTyped ==
    ASSUME TrackInv, NEW r \in Readers, EndRead(r)
    PROVE  reads' \in [Readers -> Reads]
BY NothingTyped DEF TrackInv, EndRead

LEMMA SnapshotTyped ==
    ASSUME TrackInv, NEW s \in Places
    PROVE  Snapshot(s) \in Reads
<1>. DEFINE g == [b \in Boxes |-> IF s # NoSlot /\ b = BoxOf[s]
                                 THEN reads["op"].got[b] ELSE NoReply]
<1>1. reads["op"] \in Reads /\ NBoxes + 2 \in Nat
  BY TrackingAssumption DEF TrackInv, Readers
<1>2. g \in [Boxes -> Replies]
  BY <1>1, NothingTyped DEF Reads
<1>3. Snapshot(s) = [reads["op"] EXCEPT !.next = NBoxes + 2, !.loaded = s, !.got = g]
  BY <1>1 DEF Snapshot, Reads
<1>. HIDE DEF g
<1>. QED BY <1>1, <1>2, <1>3 DEF Reads

LEMMA HandlingInv ==
    ASSUME TrackInv, Handling
    PROVE  TrackInv'
<1>1. UNCHANGED <<path, head, cfs>>
  BY DEF Handling, HandlePoll, HandleOp
<1>2. CASE HandlePoll
  <2>1. reads' \in [Readers -> Reads]
    BY <1>2, EndReadTyped DEF HandlePoll, Readers
  <2>2. Good(fw') /\ op' \in Ops
    BY <1>2, HandleTyped DEF HandlePoll, Readers
  <2>. QED BY <1>1, <2>1, <2>2 DEF TrackInv
<1>3. CASE fw' = Handled("op") /\ (Fails(FALSE) \/ Refused) /\ EndRead("op")
  <2>1. reads' \in [Readers -> Reads]
    BY <1>3, EndReadTyped DEF Readers
  <2>2. Good(fw')
    BY <1>3, HandledGood DEF Readers
  <2>3. op' \in Ops
    BY <1>3, EndsTyped, NothingTyped DEF Refused
  <2>. QED BY <1>1, <2>1, <2>2, <2>3 DEF TrackInv
<1>4. CASE Handle("op") /\ reads' = [reads EXCEPT !["op"] = Snapshot(OpLoaded(fw'))]
  <2>1. Good(fw') /\ op' \in Ops
    BY <1>4, HandleTyped DEF Readers
  <2>2. OpLoaded(fw') \in Places
    BY <2>1 DEF OpLoaded, Good, Trackings, Places
  <2>3. Snapshot(OpLoaded(fw')) \in Reads
    BY <2>2, SnapshotTyped
  <2>4. reads' \in [Readers -> Reads]
    BY <1>4, <2>3 DEF TrackInv
  <2>. QED BY <1>1, <2>1, <2>4 DEF TrackInv
<1>. QED BY <1>2, <1>3, <1>4 DEF Handling, HandleOp

LEMMA AwaitTyped ==
    ASSUME TrackInv, Await
    PROVE  fw' = fw /\ op' \in Ops /\ reads' \in [Readers -> Reads]
<1>1. CASE fw' = fw /\ EndRead("op") /\ Fails(FALSE)
  BY <1>1, EndReadTyped, EndsTyped DEF Readers
<1>2. CASE StartRead("op", head) /\ UNCHANGED <<fw, op, blocked, print>>
  BY <1>2, ReadStarts DEF StartRead, TrackInv, Readers
<1>. QED BY <1>1, <1>2 DEF Await

LEMMA DecideInv ==
    ASSUME TrackInv, Decide
    PROVE  TrackInv'
<1>1. UNCHANGED <<path, head, cfs>> /\ Good(fw)
  BY DEF Decide, TrackInv
<1>2. NoSlot \in Places /\ reads["op"].loaded \in Places
  BY DEF TrackInv, Reads, Readers, Places
<1>3. EndRead("op") => reads' \in [Readers -> Reads]
  BY EndReadTyped DEF Readers
<1>4. CASE UNCHANGED fw /\ EndRead("op") /\ Fails(FALSE)
  BY <1>1, <1>3, <1>4, EndsTyped DEF TrackInv
<1>5. CASE Look
  <2>1. Good(fw') /\ reads' \in [Readers -> Reads]
    BY <1>3, <1>5, RecoveryGood DEF Look
  <2>2. op' \in Ops
    BY <1>2, <1>5, GotoTyped, EndsTyped DEF Look
  <2>. QED BY <1>1, <2>1, <2>2 DEF TrackInv
<1>6. CASE Await
  BY <1>1, <1>6, AwaitTyped DEF TrackInv
<1>7. CASE Out /\ ~Await
  <2>1. fw' = ClearRunout([fw EXCEPT !.path = NoSlot]) /\ EndRead("op")
    BY <1>7 DEF Out
  <2>2. Good([fw EXCEPT !.path = NoSlot])
    BY <1>1, <1>2 DEF Good, OwnRunout, Trackings
  <2>3. Good(fw')
    BY <2>1, <2>2, ClearRunoutGood
  <2>4. op' \in Ops
    BY <1>2, <1>7, GotoTyped, EndsTyped DEF Out
  <2>. QED BY <1>1, <1>3, <2>1, <2>3, <2>4 DEF TrackInv
<1>8. CASE In /\ ~Await
  <2>1. fw' = [fw EXCEPT !.runout.active = FALSE, !.runout.origin = NoSlot]
        /\ EndRead("op") /\ Succeeds
    BY <1>8 DEF In
  <2>2. Good(fw')
    BY <1>1, <1>2, <2>1 DEF Good, OwnRunout, Trackings, Runouts
  <2>. QED BY <1>1, <1>3, <2>1, <2>2, EndsTyped DEF TrackInv
<1>. QED BY <1>4, <1>5, <1>6, <1>7, <1>8, Zenon DEF Decide

LEMMA UntrackInv ==
    ASSUME TrackInv, NEW s \in Places, NEW at, NEW next \in {"retract", "feed"},
           Untrack(at, s, next)
    PROVE  TrackInv'
<1>. DEFINE b == BoxOf[s]
<1>1. UNCHANGED <<path, head, reads>>
         /\ cfs' = [cfs EXCEPT ![b] = [state |-> "idle", status |-> "ok"]]
  BY DEF Untrack
<1>2. cfs' \in [Boxes -> [state : {"idle", "print"}, status : Statuses]]
  BY <1>1 DEF TrackInv, Statuses
<1>3. Good(fw')
  BY ClearOwnerGood DEF Untrack, TrackInv
<1>4. op' \in Ops
  BY GotoTyped, EndsTyped DEF Untrack
<1>. QED BY <1>1, <1>2, <1>3, <1>4 DEF TrackInv

LEMMA MoveInv ==
    ASSUME TrackInv, NEW at, NEW b, NEW slot \in Places,
           NEW next \in {"out", "track"}, Move(at, b, slot, next)
    PROVE  TrackInv'
<1>1. UNCHANGED cfs
  BY DEF Move
<1>2. path' \in Places /\ head' \in BOOLEAN
  <2>1. (slot # NoSlot) \in BOOLEAN
    BY Zenon
  <2>2. (path' = path /\ head' = head) \/ (path' = slot /\ head' = (slot # NoSlot))
    BY Zenon DEF Move
  <2>. QED BY <2>1, <2>2, Zenon DEF TrackInv
<1>3. reads' \in [Readers -> Reads]
  <2>1. reads' = reads \/ StartRead("op", head')
    BY Zenon DEF Move
  <2>. QED BY <1>2, <2>1, ReadStarts DEF StartRead, TrackInv, Readers
<1>4. Good(fw')
  <2>1. \A status \in {"fault", "command"} : Key(status, "fatal") \in Episodes
    BY DEF Key, Episodes, Statuses
  <2>2. \A e \in Episodes : Good([fw EXCEPT !.episode[b] = e])
    BY DEF TrackInv, Good, OwnRunout, Trackings
  <2>3. fw' = fw \/ CommandFault(b)
    BY Zenon DEF Move
  <2>. QED BY <2>1, <2>2, <2>3, Zenon DEF CommandFault, TrackInv
<1>5. op' \in Ops
  <2>1. op.from \in Places
    BY DEF TrackInv, Ops
  <2>2. Goto(next, op.from) \/ \E latched : Fails(latched)
    BY Zenon DEF Move, CommandFault
  <2>. QED BY <2>1, <2>2, GotoTyped, EndsTyped
<1>. QED BY <1>1, <1>2, <1>3, <1>4, <1>5 DEF TrackInv

LEMMA TrackStepInv ==
    ASSUME TrackInv, Track
    PROVE  TrackInv'
<1>1. UNCHANGED <<path, head>> /\ op.to \in Places
         /\ cfs' = [cfs EXCEPT ![BoxOf[op.to]] = [state |-> "print", status |-> "ok"]]
  BY DEF Track, TrackInv, Ops
<1>2. cfs' \in [Boxes -> [state : {"idle", "print"}, status : Statuses]]
  BY <1>1 DEF TrackInv, Statuses
<1>3. Good(fw')
  <2>1. Good(fw) /\ TRUE \in BOOLEAN
    BY DEF TrackInv
  <2>2. Good(SetOwner(fw, op.to, TRUE))
    BY <1>1, <2>1, SetOwnerGood
  <2>3. fw' = fw \/ fw' = SetOwner(fw, op.to, TRUE)
    BY Zenon DEF Track
  <2>. QED BY <2>1, <2>2, <2>3, Zenon
<1>4. op' \in Ops
  BY <1>1, GotoTyped, EndsTyped DEF Track
<1>5. reads' \in [Readers -> Reads]
  <2>1. reads' = reads \/ StartRead("op", head)
    BY DEF Track
  <2>. QED BY <2>1, ReadStarts DEF StartRead, TrackInv, Readers
<1>. QED BY <1>1, <1>2, <1>3, <1>4, <1>5 DEF TrackInv

LEMMA OperationInv ==
    ASSUME TrackInv, Operation
    PROVE  TrackInv'
<1>1. op.to \in Places /\ op.from \in Places /\ NoSlot \in Places
  BY DEF TrackInv, Ops, Places
<1>2. CASE Decide
  BY <1>2, DecideInv
<1>3. CASE Untrack("untrack", op.from, "retract") \/ Untrack("ready", op.to, "feed")
  BY <1>1, <1>3, UntrackInv
<1>4. CASE \/ Move("retract", BoxOf[op.from], NoSlot, "out")
           \/ Move("feed", BoxOf[op.to], op.to, "track")
  BY <1>1, <1>4, MoveInv
<1>5. CASE Track
  BY <1>5, TrackStepInv
<1>. QED BY <1>2, <1>3, <1>4, <1>5 DEF Operation

\* What the boxes and the user do, and what comes with a print.
LEMMA OutsideInv ==
    ASSUME TrackInv,
           \/ StartPoll \/ TailPasses \/ PulledOut \/ External \/ NewSession
           \/ ResetRecovery \/ UNCHANGED boxVars
           \/ \E to \in Places, runout \in BOOLEAN : Begin(to, runout)
           \/ \E b \in Boxes, status \in Statuses : BoxReports(b, status)
           \/ \E b \in Boxes : BoxRecovers(b)
    PROVE  TrackInv'
<1>1. CASE StartPoll
  <2>1. reads' \in [Readers -> Reads]
    BY <1>1, ReadStarts DEF StartPoll, StartRead, TrackInv, Readers
  <2>. QED BY <1>1, <2>1 DEF StartPoll, TrackInv
<1>2. CASE TailPasses \/ PulledOut
  BY <1>2 DEF TailPasses, PulledOut, TrackInv, Places
<1>3. CASE External
  <2>1. fw' = fw \/ fw' = ExternalSource(fw)
    BY <1>3 DEF External
  <2>2. Good(fw')
    BY <2>1, ExternalSourceGood DEF TrackInv
  <2>3. head' \in BOOLEAN
    BY <1>3 DEF External
  <2>. QED BY <1>3, <2>2, <2>3 DEF External, TrackInv
<1>4. CASE NewSession
  <2>1. Good(NoTracking)
    BY NothingTyped DEF Good, OwnRunout
  <2>. QED BY <1>4, <2>1 DEF NewSession, TrackInv
<1>5. CASE ResetRecovery
  <2>1. fw' = fw \/ fw' = NextEpoch(fw)
    BY <1>5 DEF ResetRecovery
  <2>2. Good(fw')
    BY <2>1, NextEpochGood DEF TrackInv
  <2>. QED BY <1>5, <2>2 DEF ResetRecovery, TrackInv
<1>6. CASE UNCHANGED boxVars
  BY <1>6 DEF boxVars, TrackInv
<1>7. ASSUME NEW to \in Places, NEW runout \in BOOLEAN, Begin(to, runout)
      PROVE  TrackInv'
  <2>1. op' \in Ops
    BY <1>7, NothingTyped DEF Begin, Ops
  <2>2. reads' \in [Readers -> Reads]
    BY <1>7, ReadStarts DEF Begin, StartRead, TrackInv, Readers
  <2>. QED BY <1>7, <2>1, <2>2 DEF Begin, TrackInv
<1>8. ASSUME NEW b \in Boxes, NEW status \in Statuses, BoxReports(b, status)
      PROVE  TrackInv'
  BY <1>8 DEF BoxReports, TrackInv
<1>9. ASSUME NEW b \in Boxes, BoxRecovers(b)
      PROVE  TrackInv'
  BY <1>9 DEF BoxRecovers, TrackInv, Statuses
<1>. QED BY <1>1, <1>2, <1>3, <1>4, <1>5, <1>6, <1>7, <1>8, <1>9

LEMMA TrackStep ==
    ASSUME TrackInv, [Next]_vars
    PROVE  TrackInv'
<1>1. CASE BoxNext
  <2>1. CASE \E to \in Slots \cup {NoSlot} : Change(to)
    BY <2>1, OutsideInv DEF Change, Places
  <2>2. CASE \E to \in Slots : RunoutCheck(to)
    BY <2>2, OutsideInv DEF RunoutCheck, Places
  <2>3. CASE \E b \in Boxes : \/ \E status \in {"runout", "stalled", "fault"} :
                                    BoxReports(b, status)
                              \/ BoxRecovers(b)
    BY <2>3, OutsideInv DEF Statuses
  <2>. QED BY <1>1, <2>1, <2>2, <2>3, QueryInv, OperationInv, OutsideInv DEF BoxNext
<1>2. CASE Handling
  BY <1>2, HandlingInv
<1>3. CASE ResetRecovery \/ UNCHANGED boxVars
  BY <1>3, OutsideInv
<1>. QED BY <1>1, <1>2, <1>3
         DEF Next, BoxHandles, NewPrint, EndPrint, FollowPrint, Soak, FansNext, Led, Box,
             Others, vars

(***************************************************************************)
(* RunoutOfOwner, for any boxes, slots and sections: a runout under way is *)
(* that of the filament that is tracked, whatever the poll and an          *)
(* operation read of boxes that change between their queries.              *)
(***************************************************************************)
THEOREM RunoutIsOwners == Spec => []RunoutOfOwner
<1>1. Init => TrackInv
  BY TrackInit
<1>2. TrackInv /\ [Next]_vars => TrackInv'
  BY TrackStep
<1>3. TrackInv => RunoutOfOwner
  BY DEF TrackInv, Good, OwnRunout, RunoutOfOwner
<1>. QED BY <1>1, <1>2, <1>3, PTL DEF Spec

===============================================================================
