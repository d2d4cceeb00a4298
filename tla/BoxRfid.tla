------------------------------ MODULE BoxRfid ------------------------------
(***************************************************************************)
(* RFID metadata of the filament slots (extras/box.py) and the standalone  *)
(* reader (extras/external_rfid_reader.py).                                *)
(*                                                                         *)
(* A CFS box reads the tag of an inserted spool by itself and caches the   *)
(* record; Klipper polls the cache, and has to tell the record of the new  *)
(* spool from what the cache kept of an older one.  Two greenlets send     *)
(* queries, the status poll and a load; a query and the handling of its    *)
(* reply are one step, and spools may be swapped between any two of them.  *)
(* A tag with a Spoolman id is resolved by a thread whose answer may come  *)
(* after the slot has changed.  Only the one box is modelled: the boxes    *)
(* share nothing but the rows of the tables.                               *)
(*                                                                         *)
(* What a greenlet has left to do is a sequence of tasks.                  *)
(***************************************************************************)
EXTENDS Naturals, Sequences, FiniteSets, SequencesExt

CONSTANTS Slots,        \* slots of the box
          Ext,          \* the slot of the external spool
          Tags,         \* tags that can be read
          SpoolmanTags, \* those with a Spoolman id in "reserve"
          KnownTags,    \* those whose material code the catalogue resolves
          EventDrain,   \* STATE_EVENT_DRAIN
          ReadAttempts, \* READ_ATTEMPTS of the external reader
          MaxInputs     \* bound: spools inserted, scans and commands

ASSUME RfidAssumption ==
    /\ IsFiniteSet(Slots) /\ Ext \notin Slots
    /\ SpoolmanTags \subseteq Tags /\ KnownTags \subseteq Tags
    /\ {EventDrain, ReadAttempts} \subseteq Nat \ {0}
    /\ MaxInputs \in Nat

VARIABLES
    spool,      \* hardware: the spool in each slot of the box
    cache,      \* hardware: the record the readers keep of each slot
    event,      \* hardware: the slot event that waits to be drained
    due,        \* hardware: slots whose new spool is still to be read
    presence,   \* rfid_presence
    pending,    \* rfid_pending
    snapshot,   \* rfid_snapshot: the cached record when a spool came in
    invalid,    \* rfid_seen_invalid
    profile,    \* the stored profile of each slot
    unknown,    \* unknown_rfid: the tag that no mapping resolved
    mapped,     \* rfid_mappings: the codes the user has mapped
    token,      \* spoolman_tokens
    generation, \* spoolman_generation
    requests,   \* Spoolman requests whose answer has not been handled
    enabled,    \* rfid_insert_reading_enabled
    todo,       \* the tasks of the greenlets
    attempts,   \* the external reader's attempts left: 0 when not _reading
    after,      \* the records a greenlet was told after its forced read
    since,      \* history: tags in a slot since its last insertion or removal
                \* was handled
    ordered,    \* history: tags in a slot since a greenlet ordered to read it
    scanned,    \* history: the tag taken for the slot's since its last
                \* insertion or removal was handled
    inputs      \* spools inserted, scans and commands so far

hardware == <<spool, cache, event, due>>
watch    == <<pending, snapshot, invalid>>
spoolman == <<token, requests>>
profiles == <<profile, unknown>>
seen     == <<since, ordered>>
vars     == <<hardware, watch, spoolman, profiles, presence, mapped,
              generation, enabled, todo, attempts, after, seen, scanned, inputs>>

Nothing  == "nothing"
NoTag    == "no tag"      \* a spool without a readable tag
NoSpool  == "no spool"
AllSlots == Slots \cup {Ext}
Spools   == Tags \cup {NoTag, NoSpool}
Records  == Tags \cup {"busy", "none", "unknown"}
Threads  == {"poll", "load"}

ASSUME NamesAssumption ==
    Tags \cap {Nothing, NoTag, NoSpool, "busy", "none", "unknown"} = {}

NoRecords == [s \in Slots |-> Nothing]
NoTags    == [s \in Slots |-> {}]
NoProfile == [tag |-> Nothing, by |-> "none"]
Profiles  == [tag : Tags, by : {"rfid", "spoolman"}]
                 \cup {NoProfile, [tag |-> Nothing, by |-> "user"]}

Filled   == {s \in Slots : spool[s] # NoSpool}
Ready(r) == r \in Tags                            \* _rfid_record_ready
TagOf(s) == {spool[s]} \cap Tags
ReadOf(s) == IF spool[s] \in Tags THEN spool[s]
             ELSE IF spool[s] = NoTag THEN "unknown" ELSE "none"

Task(o, S)      == [op |-> o, slots |-> S, n |-> 0]
OfEach(o, S)    == [i \in 1..Cardinality(S) |-> Task(o, {SetToSeq(S)[i]})]
At(g, o)        == todo[g] # <<>> /\ Head(todo[g]).op = o
Its(g)          == Head(todo[g]).slots
Then(g, tasks) == todo' = [todo EXCEPT ![g] = tasks \o Tail(@)]

\* A greenlet handles what the box has read on its order.
Ordering(g) == \E o \in {"records", "apply", "remaining"} : At(g, o)

\* _query_box_snapshot, with n reads of the state left.
Drain(n) == IF n = 0 THEN <<>>
            ELSE <<Task("watch", {}), [op |-> "state", slots |-> {}, n |-> n]>>

Init ==
    /\ spool \in [Slots -> Spools]
    /\ cache \in [AllSlots -> {"none", "unknown"} \cup Tags]
    /\ cache[Ext] = "unknown"
    /\ \A s \in Slots : spool[s] # NoSpool => cache[s] \in {"unknown", ReadOf(s)}
    /\ event = [s \in Slots |-> 0] /\ due = {}
    /\ presence = [known |-> FALSE, slots |-> {}]
    /\ pending = {} /\ invalid = {}
    /\ snapshot = [s \in Slots |-> Nothing]
    /\ profile = [s \in AllSlots |-> NoProfile]
    /\ unknown = [s \in AllSlots |-> Nothing]
    /\ mapped = {}
    /\ token = [s \in AllSlots |-> 0]
    /\ generation = 0
    /\ requests = {}
    /\ enabled \in BOOLEAN
    /\ todo = [g \in Threads |-> IF g = "poll" THEN <<Task("start", {})>>
                                 ELSE <<>>]
    /\ attempts = 0
    /\ after = [g \in Threads |-> NoRecords]
    /\ since = [s \in Slots |-> TagOf(s)]
    /\ ordered = [g \in Threads |-> NoTags]
    /\ scanned = [s \in AllSlots |-> Nothing]
    /\ inputs = 0

----------------------------------------------------------------------------
(***************************************************************************)
(* The box (outside src/): it takes a spool in, reads its tag, and keeps   *)
(* the record after the spool has left until it clears it.                 *)
(***************************************************************************)
SpoolIn(s) ==
    /\ spool[s] = NoSpool
    /\ inputs < MaxInputs /\ inputs' = inputs + 1
    /\ \E t \in Spools \ {NoSpool} :
          LET in == {t} \cap Tags
          IN  /\ spool' = [spool EXCEPT ![s] = t]
              /\ since' = [since EXCEPT ![s] = @ \cup in]
              /\ ordered' = [g \in Threads |->
                     [ordered[g] EXCEPT ![s] = IF Ordering(g) THEN @ \cup in
                                               ELSE @]]
    /\ event' = [event EXCEPT ![s] = 1]
    /\ due' = due \cup {s}
    /\ UNCHANGED <<cache, watch, spoolman, profiles, presence, mapped,
                   generation, enabled, todo, attempts, after, scanned>>

SpoolOut(s) ==
    /\ spool[s] # NoSpool
    /\ spool' = [spool EXCEPT ![s] = NoSpool]
    /\ cache' = [cache EXCEPT ![s] = IF @ = "busy" THEN "unknown" ELSE @]
    /\ event' = [event EXCEPT ![s] = 2]
    /\ due' = due \ {s}
    /\ UNCHANGED <<watch, spoolman, profiles, presence, mapped,
                   generation, enabled, todo, attempts, after, seen, scanned,
                   inputs>>

ReadTag(s) ==
    /\ \/ s \in due
          /\ due' = due \ {s}
          /\ cache' = [cache EXCEPT ![s] = "busy"]
          /\ UNCHANGED event
       \/ spool[s] # NoSpool /\ cache[s] = "busy"
          /\ cache' = [cache EXCEPT ![s] = ReadOf(s)]
          /\ event' = [event EXCEPT ![s] = 3]
          /\ UNCHANGED due
       \/ spool[s] = NoSpool /\ cache[s] # "none"
          /\ cache' = [cache EXCEPT ![s] = "none"]
          /\ UNCHANGED <<event, due>>
    /\ UNCHANGED <<spool, watch, spoolman, profiles, presence, mapped,
                   generation, enabled, todo, attempts, after, seen, scanned,
                   inputs>>

\* After a disconnect nothing looks at the box any more.
Hardware == generation = 0 /\ \E s \in Slots : SpoolIn(s) \/ SpoolOut(s) \/ ReadTag(s)

----------------------------------------------------------------------------
(***************************************************************************)
(* The watch of a slot and its profile.                                    *)
(***************************************************************************)
ClearWatch(S) ==
    /\ pending' = pending \ S
    /\ invalid' = invalid \ S
    /\ snapshot' = [s \in Slots |-> IF s \in S THEN Nothing ELSE snapshot[s]]

\* The code counts on each time.  A token is only compared with those of the
\* requests still out, so that without one any value is as good as another.
NextToken(s) == IF \E r \in requests : r.slot = s THEN token[s] + 1 ELSE token[s]

\* What an insertion and a removal make of a slot, whatever stays pending.
Forget(s) ==
    /\ token' = [token EXCEPT ![s] = NextToken(s)]
    /\ since' = [since EXCEPT ![s] = TagOf(s)]
    /\ scanned' = [scanned EXCEPT ![s] = Nothing]

Removed(s) ==
    /\ ClearWatch({s})
    /\ Forget(s)
    /\ UNCHANGED <<requests, profiles>>

Inserted(s) ==
    /\ Forget(s)
    /\ snapshot' = [snapshot EXCEPT ![s] = Nothing]
    /\ invalid' = invalid \ {s}
    /\ pending' = IF enabled THEN pending \cup {s} ELSE pending
    /\ UNCHANGED <<requests, profiles>>

ShouldApplyReady(s) == Ready(cache[s])

ShouldApply(s) ==
    /\ Ready(cache[s])
    /\ \/ s \in invalid
       \/ snapshot[s] # Nothing /\ snapshot[s] # cache[s]

Resolved(t) == t \in KnownTags \cup mapped

\* _apply_rfid_profile, or _record_unknown_rfid
ApplyTag(s, t) ==
    IF Resolved(t)
    THEN /\ profile' = [profile EXCEPT ![s] = [tag |-> t, by |-> "rfid"]]
         /\ unknown' = [unknown EXCEPT ![s] = Nothing]
    ELSE /\ unknown' = [unknown EXCEPT ![s] = t]
         /\ UNCHANGED profile

\* _apply_rfid_record
ApplyRecord(s, t) ==
    /\ token' = [token EXCEPT ![s] = NextToken(s)]
    /\ scanned' = [scanned EXCEPT ![s] = t]
    /\ IF t \in SpoolmanTags
       THEN /\ requests' = requests \cup {[slot |-> s, tag |-> t, gen |-> generation,
                                           token |-> NextToken(s)]}
            /\ UNCHANGED profiles
       ELSE ApplyTag(s, t) /\ UNCHANGED requests

slotTables == <<watch, spoolman, profiles, since, scanned>>
forced     == <<after, ordered>>

----------------------------------------------------------------------------
(***************************************************************************)
(* The tasks.  A reply that is lost or refused is no reply; one that       *)
(* cannot be decoded raises an exception in the greenlet.                  *)
(***************************************************************************)
PollStarts ==
    /\ generation = 0
    /\ todo["poll"] = <<>> /\ todo["load"] = <<>>
    /\ \E topology \in BOOLEAN :
          todo' = [todo EXCEPT !["poll"] =
              (IF topology THEN <<Task("presence", {})>> ELSE <<>>)
                  \o Drain(EventDrain)]
    /\ UNCHANGED <<hardware, slotTables, presence>>

\* _reconcile_presence, on the reply of _query_presence
Reconcile(g, tasks) ==
    LET before == IF presence.known THEN presence.slots ELSE Filled
    IN  /\ presence' = [known |-> TRUE, slots |-> Filled]
        /\ Then(g, OfEach("inserted", Filled \ before)
                        \o OfEach("removed", before \ Filled) \o tasks)

QueryPresence(g) ==
    /\ At(g, "presence")
    /\ \/ Reconcile(g, <<>>)
       \/ Then(g, <<>>) /\ UNCHANGED presence
    /\ UNCHANGED <<hardware, slotTables>>

HandleInserted(g) ==
    /\ At(g, "inserted")
    /\ \E s \in Its(g) :
          /\ Inserted(s)
          /\ Then(g, IF enabled THEN <<Task("snapshot", {s})>> ELSE <<>>)
    /\ UNCHANGED <<hardware, presence>>

HandleRemoved(g) ==
    /\ At(g, "removed")
    /\ \E s \in Its(g) : Removed(s)
    /\ Then(g, <<>>)
    /\ UNCHANGED <<hardware, presence>>

SnapshotCache(g) ==
    /\ At(g, "snapshot")
    /\ \/ \E s \in Its(g) :
             /\ snapshot' = [snapshot EXCEPT ![s] = cache[s]]
             /\ invalid' = IF Ready(cache[s]) THEN invalid
                           ELSE invalid \cup {s}
       \/ UNCHANGED <<snapshot, invalid>>
    /\ Then(g, <<>>)
    /\ UNCHANGED <<hardware, presence, pending, spoolman, profiles,
                   since, scanned>>

\* Nothing is pending: the box is not asked.
WatchNothing(g) ==
    /\ At(g, "watch") /\ pending = {}
    /\ Then(g, <<>>)
    /\ UNCHANGED <<hardware, presence, slotTables>>

WatchPending(g) ==
    /\ At(g, "watch") /\ pending # {}
    /\ \/ invalid' = invalid \cup {s \in pending : ~Ready(cache[s])}
       \/ UNCHANGED invalid
    /\ Then(g, <<>>)
    /\ UNCHANGED <<hardware, presence, pending, snapshot, spoolman, profiles,
                   since, scanned>>

\* The state of the box, or the slot events that it reports first.
QueryState(g) ==
    LET waiting == {s \in Slots : event[s] # 0}
        handler == <<"inserted", "removed", "result">>
        order   == SetToSeq(waiting)
        handled == [i \in DOMAIN order |->
                        Task(handler[event[order[i]]], {order[i]})]
    IN  /\ At(g, "state")
        /\ \/ /\ Then(g, <<>>)
              /\ event' \in {event, [s \in Slots |-> 0]}
           \/ /\ waiting # {}
              /\ event' = [s \in Slots |-> 0]
              /\ Then(g, <<Task("presence", {})>> \o handled
                              \o Drain(Head(todo[g]).n - 1))
           \/ /\ waiting = {}
              /\ \E preload \in BOOLEAN :
                    Then(g, IF preload THEN <<>> ELSE OfEach("read", pending))
              /\ UNCHANGED event
        /\ UNCHANGED <<spool, cache, due, presence, slotTables>>

\* A handled event of code 3 while insertions are not read.
IgnoreResult(g) ==
    /\ At(g, "result") /\ ~enabled
    /\ Then(g, <<>>)
    /\ UNCHANGED <<hardware, presence, slotTables>>

\* _read_rfid_result
ReadResult(g) ==
    /\ At(g, "read") \/ (At(g, "result") /\ enabled)
    /\ Then(g, <<>>)
    /\ \E s \in Its(g) :
          \/ UNCHANGED slotTables
          \/ cache[s] = "none" /\ Removed(s)
          \/ /\ cache[s] \in {"busy", "unknown"}
             /\ invalid' = invalid \cup {s}
             /\ UNCHANGED <<pending, snapshot, spoolman, profiles, since,
                            scanned>>
          \/ /\ ShouldApply(s)
             /\ ClearWatch({s})
             /\ ApplyRecord(s, cache[s])
             /\ UNCHANGED since
    /\ UNCHANGED <<hardware, presence>>

\* force_rfid_read: the box reads the tags again, or refuses.
ForceRead(g) ==
    /\ At(g, "force")
    /\ \/ /\ cache' = [s \in AllSlots |-> IF s \in Its(g) THEN ReadOf(s)
                                          ELSE cache[s]]
          /\ ordered' = [ordered EXCEPT ![g] = [s \in Slots |-> TagOf(s)]]
          /\ after' = [after EXCEPT ![g] = NoRecords]
          /\ Then(g, <<Task("records", Its(g))>>)
       \/ /\ cache' \in {cache, [s \in AllSlots |-> IF s \in Its(g) THEN ReadOf(s)
                                                   ELSE cache[s]]}
          /\ Then(g, <<>>) /\ UNCHANGED forced
    /\ UNCHANGED <<spool, event, due, presence, slotTables>>

\* The records of the slots of S are of no more use to the greenlet.
Done(g, S) ==
    /\ after' = [after EXCEPT ![g] = [s \in Slots |-> IF s \in S THEN Nothing
                                                     ELSE @[s]]]
    /\ ordered' = [ordered EXCEPT ![g] = [s \in Slots |-> IF s \in S THEN {}
                                                         ELSE @[s]]]

\* The rest of _force_rfid_results: the records after it, which are applied
\* slot by slot while the remaining filament of the others is queried.
ForcedRecords(g) ==
    /\ At(g, "records")
    /\ \/ Then(g, <<>>) /\ Done(g, Slots)
       \/ LET found == {s \in Its(g) : Ready(cache[s])}
          IN  /\ Then(g, OfEach("apply", found))
              /\ after' = [after EXCEPT ![g] =
                     [s \in Slots |-> IF s \in found THEN cache[s] ELSE Nothing]]
              /\ ordered' = [ordered EXCEPT ![g] =
                     [s \in Slots |-> IF s \in found THEN @[s] ELSE {}]]
    /\ UNCHANGED <<hardware, presence, slotTables>>

ApplyForced(g) ==
    /\ At(g, "apply")
    /\ \E s \in Its(g) : ApplyRecord(s, after[g][s])
    /\ Then(g, <<Task("remaining", Its(g))>>)
    /\ UNCHANGED <<hardware, presence, watch, since>>

\* _read_rfid_remaining, and the clearing of the watch after it.
ForcedRemaining(g) ==
    /\ At(g, "remaining")
    /\ ClearWatch(Its(g))
    /\ Then(g, <<>>)
    /\ Done(g, Its(g))
    /\ UNCHANGED <<hardware, presence, spoolman, profiles, since,
                   scanned>>

\* What is left of a box's poll, or of what a load does with its tag, is given
\* up.  Elsewhere that is what a lost reply does.
Malformed(g) ==
    /\ \E o \in {"presence", "state", "result", "read", "remaining"} : At(g, o)
    /\ todo' = [todo EXCEPT ![g] = IF g = "load" THEN <<Last(@)>> ELSE <<>>]
    /\ Done(g, Slots)
    /\ UNCHANGED <<hardware, slotTables, presence>>

(***************************************************************************)
(* _initialize_rfid.                                                       *)
(***************************************************************************)
Start(g) ==
    /\ At(g, "start")
    /\ \/ /\ presence' = [known |-> TRUE, slots |-> Filled]
          /\ \E startup \in BOOLEAN :
                Then(g, IF startup /\ Filled # {}
                         THEN <<Task("cached", Filled)>> ELSE <<>>)
       \/ Then(g, <<>>) /\ UNCHANGED presence
    /\ UNCHANGED <<hardware, slotTables>>

StartCached(g) ==
    LET unread == {s \in Its(g) : cache[s] \in {"none", "unknown"}}
    IN  /\ At(g, "cached")
        /\ \/ Then(g, IF unread = {} THEN <<>>
                       ELSE <<Task("force", unread)>>)
           \/ Then(g, <<>>)
        /\ UNCHANGED <<hardware, presence, watch, spoolman, profiles, since,
                       scanned>>

(***************************************************************************)
(* What physical_load does with the tag of a slot that is still pending.   *)
(***************************************************************************)
LoadStarts(s) ==
    /\ generation = 0 /\ inputs < MaxInputs
    /\ todo["load"] = <<>>
    /\ todo' = [todo EXCEPT !["load"] =
                    Drain(EventDrain) \o <<Task("attend", {s})>>]
    /\ UNCHANGED <<hardware, slotTables, presence>>

LoadAttends(g) ==
    /\ At(g, "attend")
    /\ \/ Reconcile(g, <<[Task("deferred", Its(g)) EXCEPT !.n =
                              IF Its(g) \subseteq Filled THEN 1 ELSE 0]>>)
       \/ todo' = [todo EXCEPT ![g] = <<>>] /\ UNCHANGED presence
    /\ UNCHANGED <<hardware, slotTables>>

LoadDeferred(g) ==
    /\ At(g, "deferred")
    /\ Then(g, IF Its(g) \cap pending = {} THEN <<>>
                ELSE (IF Head(todo[g]).n = 1
                      THEN <<Task("sample", Its(g))>> ELSE <<>>)
                        \o <<Task("clear", Its(g))>>)
    /\ UNCHANGED <<hardware, slotTables, presence>>

\* The sample, or a box that is not idle.
LoadSample(g) ==
    /\ At(g, "sample")
    /\ \/ /\ \E s \in Its(g) : cache[s] # "busy"
          /\ Then(g, <<Task("force", Its(g))>>)
       \/ Then(g, <<>>)
    /\ UNCHANGED <<hardware, slotTables, presence>>

LoadClear(g) ==
    /\ At(g, "clear")
    /\ ClearWatch(Its(g))
    /\ Then(g, <<>>)
    /\ UNCHANGED <<hardware, presence, spoolman, profiles, since,
                   scanned>>

\* A greenlet yields only in a query: these tasks belong to the last reply.
Running ==
    \E g \in Threads :
       \/ \E o \in {"inserted", "removed", "apply", "deferred", "clear"} : At(g, o)
       \/ At(g, "watch") /\ pending = {}
       \/ At(g, "result") /\ ~enabled

Handling(g) ==
    \/ HandleInserted(g) \/ HandleRemoved(g) \/ IgnoreResult(g)
    \/ WatchNothing(g)   \/ ApplyForced(g)
    \/ LoadDeferred(g)   \/ LoadClear(g)

Query(g) ==
    \/ QueryPresence(g) \/ SnapshotCache(g) \/ WatchPending(g)
    \/ QueryState(g)    \/ ReadResult(g)
    \/ Start(g)         \/ StartCached(g)
    \/ LoadAttends(g)   \/ LoadSample(g)

Order(g) == \/ ForceRead(g)       \/ ForcedRecords(g)
            \/ ForcedRemaining(g) \/ Malformed(g)

Greenlets ==
    /\ \/ PollStarts /\ UNCHANGED <<inputs, forced>>
       \/ \E s \in Slots : LoadStarts(s) /\ inputs' = inputs + 1
                                         /\ UNCHANGED forced
       \/ \E g \in Threads : Query(g) /\ UNCHANGED <<inputs, forced>>
       \/ \E g \in Threads : Order(g) /\ UNCHANGED inputs
    /\ UNCHANGED <<mapped, generation, enabled, attempts>>

----------------------------------------------------------------------------
(***************************************************************************)
(* Spoolman: the answer of the thread that asked for a spool is complete,  *)
(* or the fields of the tag have to do.                                    *)
(***************************************************************************)
CurrentGeneration(r) == r.gen = generation

Current(r) == r.gen = generation /\ r.token = token[r.slot]

Answer(r) ==
    /\ requests' = requests \ {r}
    /\ IF ~Current(r) THEN UNCHANGED profiles
       ELSE \/ /\ profile' = [profile EXCEPT
                                 ![r.slot] = [tag |-> r.tag, by |-> "spoolman"]]
               /\ unknown' = [unknown EXCEPT ![r.slot] = Nothing]
            \/ ApplyTag(r.slot, r.tag)
    /\ UNCHANGED <<hardware, watch, token, presence, mapped, generation,
                   enabled, todo, attempts, after, seen, scanned, inputs>>

(***************************************************************************)
(* The commands of the user.  One command runs at a time, a load included. *)
(***************************************************************************)
SetInsertReading ==
    /\ enabled' = ~enabled
    /\ IF enabled THEN ClearWatch(Slots) ELSE UNCHANGED watch
    /\ UNCHANGED <<profiles, token, mapped>>

\* cmd_rfid_map_set with _apply_new_mapping
MapTag(t) ==
    LET named == {s \in AllSlots : unknown[s] = t}
    IN  /\ t \notin KnownTags
        /\ mapped' = mapped \cup {t}
        /\ token' = [s \in AllSlots |-> IF s \in named THEN NextToken(s)
                                        ELSE token[s]]
        /\ profile' = [s \in AllSlots |->
              IF s \in named THEN [tag |-> t, by |-> "rfid"] ELSE profile[s]]
        /\ unknown' = [s \in AllSlots |-> IF s \in named THEN Nothing
                                          ELSE unknown[s]]
        /\ UNCHANGED <<enabled, watch>>

UnmapTag(t) ==
    /\ mapped' = mapped \ {t}
    /\ UNCHANGED <<enabled, watch, profiles, token>>

SetSlot(s) ==
    /\ profile' = [profile EXCEPT ![s] = [tag |-> Nothing, by |-> "user"]]
    /\ UNCHANGED <<enabled, watch, unknown, token, mapped>>

ClearSlot(s) ==
    /\ profile' = [profile EXCEPT ![s] = NoProfile]
    /\ UNCHANGED <<enabled, watch, unknown, token, mapped>>

Commands ==
    /\ generation = 0 /\ inputs < MaxInputs /\ inputs' = inputs + 1
    /\ todo["load"] = <<>>
    /\ \/ SetInsertReading
       \/ \E t \in Tags : MapTag(t) \/ UnmapTag(t)
       \/ \E s \in AllSlots : SetSlot(s) \/ ClearSlot(s)
    /\ UNCHANGED <<hardware, requests, presence, generation, todo,
                   attempts, after, seen, scanned>>

(***************************************************************************)
(* The standalone reader: a tag that is held to it replaces its record and *)
(* presses the button; RFID_READER_READ reads the record again.            *)
(***************************************************************************)
Scan ==
    /\ generation = 0 /\ inputs < MaxInputs /\ inputs' = inputs + 1
    /\ \E t \in Tags : cache' = [cache EXCEPT ![Ext] = t]
    /\ attempts' = IF attempts = 0 THEN ReadAttempts ELSE attempts
    /\ UNCHANGED <<requests, profiles, token, scanned>>

ReadAgain ==
    /\ inputs < MaxInputs /\ inputs' = inputs + 1
    /\ generation = 0 /\ attempts = 0 /\ todo["load"] = <<>>
    /\ attempts' = ReadAttempts
    /\ UNCHANGED <<cache, requests, profiles, token, scanned>>

RequestRecord ==
    /\ attempts > 0
    /\ \/ attempts' = attempts - 1
          /\ UNCHANGED <<requests, profiles, token, scanned>>
       \/ /\ Ready(cache[Ext])
          /\ attempts' = 0
          /\ ApplyRecord(Ext, cache[Ext])
       \/ /\ ~Ready(cache[Ext])
          /\ attempts' = 0
          /\ UNCHANGED <<requests, profiles, token, scanned>>
    /\ UNCHANGED <<cache, inputs>>

Reader ==
    /\ Scan \/ ReadAgain \/ RequestRecord
    /\ UNCHANGED <<spool, event, due, watch, presence, mapped, generation,
                   enabled, todo, after, seen>>

(* klippy:disconnect and klippy:shutdown: the requests that are out answer *)
(* to a generation that is gone, and a greenlet's next query fails.        *)
Disconnect ==
    /\ generation = 0
    /\ generation' = 1
    /\ token' = [s \in AllSlots |-> 0]
    /\ todo' = [g \in Threads |-> <<>>]
    /\ attempts' = 0
    /\ UNCHANGED <<hardware, watch, requests, profiles, presence, mapped,
                   enabled, after, seen, scanned, inputs>>

Next ==
    \/ /\ \E g \in Threads : Handling(g)
       /\ UNCHANGED <<mapped, generation, enabled, attempts, inputs, forced>>
    \/ /\ ~Running
       /\ \/ Hardware \/ Greenlets \/ Commands \/ Reader \/ Disconnect
          \/ \E r \in requests : Answer(r)

Spec == Init /\ [][Next]_vars

----------------------------------------------------------------------------
(* A tag is taken for a slot's own only when the spool that carries it was *)
(* in the slot since Klipper last handled an insertion or a removal there: *)
(* the record that the box still keeps of an earlier spool is not applied  *)
(* (_rfid_should_apply, and what the insertion clears).  Only a read that  *)
(* Klipper ordered (_force_rfid_results) may take the tag of a spool that  *)
(* has been changed for another, if it was there since that order.         *)
ScanIsOfSpool ==
    [][\A s \in Slots :
          scanned'[s] \notin {scanned[s], Nothing}
              => \/ scanned'[s] \in since[s]
                 \/ \E g \in Threads : /\ At(g, "apply") /\ s \in Its(g)
                                       /\ scanned'[s] \in ordered[g][s]]_vars

(* An answer of Spoolman fills the profile of a slot only when its tag is  *)
(* still the last one scanned there: an answer that comes after another    *)
(* scan, an insertion, a removal or a disconnect is discarded              *)
(* (spoolman_tokens and spoolman_generation).                              *)
SpoolmanCurrent ==
    [][\A s \in AllSlots :
          profile'[s].by = "spoolman" /\ profile'[s] # profile[s]
              => profile'[s].tag = scanned[s]]_vars

=============================================================================
