---------------------------- MODULE BoxRfidProofs ----------------------------
(***************************************************************************)
(* Proofs about BoxRfid: a tag that is taken for a slot's own was in the   *)
(* slot since its last insertion or removal was handled, or since the read *)
(* of it was ordered, and an answer of Spoolman fills only the profile of  *)
(* the tag that was scanned last.                                          *)
(***************************************************************************)
EXTENDS BoxRfid, Integers, FiniteSetTheorems, SequenceTheorems, TLAPS

-----------------------------------------------------------------------------
(* The inductive invariant.                                                *)

Ops == {"start", "presence", "inserted", "removed", "snapshot", "watch", "state",
        "result", "read", "force", "cached", "attend", "deferred", "sample", "clear", "apply",
        "remaining"}
Plain   == [op : Ops, slots : SUBSET Slots, n : Int]
AnyTask == [op : Ops \cup {"records"}, slots : SUBSET Slots, n : Int]

\* The records of a forced read are what the greenlet turns to next: they are
\* never behind another task.
Todo == {q \in Seq(AnyTask) : q # <<>> => Tail(q) \in Seq(Plain)}

Types ==
    /\ spool \in [Slots -> Spools]
    /\ cache \in [AllSlots -> Records]
    /\ event \in [Slots -> 0..3]
    /\ due \subseteq Slots /\ pending \subseteq Slots /\ invalid \subseteq Slots
    /\ presence \in [known : BOOLEAN, slots : SUBSET Slots]
    /\ snapshot \in [Slots -> Records \cup {Nothing}]
    /\ since \in [Slots -> SUBSET Tags]
    /\ scanned \in [AllSlots -> Tags \cup {Nothing}]
    /\ mapped \subseteq Tags
    /\ todo \in [Threads -> Todo]
    /\ after \in [Threads -> [Slots -> Tags \cup {Nothing}]]
    /\ ordered \in [Threads -> [Slots -> SUBSET Tags]]

\* The tag of a spool that is in a slot has been there since.
SpoolSeen == \A s \in Slots : spool[s] \in Tags => spool[s] \in since[s]

\* Once the cache was seen without a tag, or with another tag than the one it kept
\* when the spool came in, its tag was read from a spool in the slot since.
FreshRecord ==
    \A s \in Slots :
        cache[s] \in Tags /\ (s \in invalid \/ snapshot[s] \notin {Nothing, cache[s]})
            => cache[s] \in since[s]

\* While a greenlet waits for the records after a read that it ordered, the tags
\* in the slots, and those that the box has read since, were there since the order.
OrderedSeen ==
    \A g \in Threads : At(g, "records") =>
        \A s \in Slots : spool[s] \in Tags => spool[s] \in ordered[g][s]

OrderedRecord ==
    \A g \in Threads : At(g, "records") =>
        \A s \in Its(g) : cache[s] \in Tags => cache[s] \in ordered[g][s]

\* So were those of the records that it was told.
Reported ==
    \A g \in Threads : \A s \in Slots :
        after[g][s] \in Tags => after[g][s] \in ordered[g][s]

OrderInv == OrderedSeen /\ OrderedRecord /\ Reported

ScanInv == Types /\ SpoolSeen /\ FreshRecord /\ OrderInv

-----------------------------------------------------------------------------
(* Sequences of tasks.                                                     *)

LEMMA SetToSeqType ==
    ASSUME NEW S \in SUBSET Slots
    PROVE  SetToSeq(S) \in [1..Cardinality(S) -> S] /\ Cardinality(S) \in Nat
<1>1. IsFiniteSet(S)
  BY FS_Subset, RfidAssumption
<1>2. Cardinality(S) \in Nat /\ ExistsBijection(1..Cardinality(S), S)
  BY <1>1, FS_CardinalityType
<1>3. \E f \in [1..Cardinality(S) -> S] : IsInjective(f)
  BY <1>2 DEF ExistsBijection, Bijection, Injection, IsInjective
<1>. QED BY <1>2, <1>3 DEF SetToSeq

LEMMA TaskPlain ==
    ASSUME NEW o \in Ops, NEW S \in SUBSET Slots
    PROVE  Task(o, S) \in Plain
BY DEF Task, Plain

LEMMA OfEachPlain ==
    ASSUME NEW o \in Ops, NEW S \in SUBSET Slots
    PROVE  OfEach(o, S) \in Seq(Plain)
<1>1. \A i \in 1..Cardinality(S) : {SetToSeq(S)[i]} \in SUBSET Slots
  BY SetToSeqType
<1>2. \A i \in 1..Cardinality(S) : Task(o, {SetToSeq(S)[i]}) \in Plain
  BY <1>1, TaskPlain
<1>3. OfEach(o, S) \in [1..Cardinality(S) -> Plain]
  BY <1>2 DEF OfEach
<1>. QED BY <1>3, SetToSeqType, SeqDef

LEMMA DrainPlain ==
    ASSUME NEW n \in Int
    PROVE  Drain(n) \in Seq(Plain)
<1>1. Task("watch", {}) \in Plain /\ [op |-> "state", slots |-> {}, n |-> n] \in Plain
  BY DEF Task, Plain, Ops
<1>. QED BY <1>1 DEF Drain

LEMMA PlainTodo == Seq(Plain) \subseteq Todo
<1>1. Plain \subseteq AnyTask
  BY DEF Plain, AnyTask
<1>2. Seq(Plain) \subseteq Seq(AnyTask)
  BY <1>1
<1>. QED BY <1>2 DEF Todo

LEMMA HeadTail ==
    ASSUME NEW q \in Todo, q # <<>>
    PROVE  Head(q) \in AnyTask /\ Tail(q) \in Seq(Plain)
BY DEF Todo

LEMMA PlainHead ==
    ASSUME NEW q \in Seq(Plain), q # <<>>
    PROVE  Head(q).op # "records" /\ Tail(q) \in Seq(Plain)
<1>1. Head(q) \in Plain
  OBVIOUS
<1>. QED BY <1>1 DEF Plain, Ops

LEMMA LastPlain ==
    ASSUME NEW q \in Todo, q # <<>>, Head(q).op # "records"
    PROVE  Last(q) \in Plain
<1>1. q \in Seq(AnyTask) /\ Tail(q) \in Seq(Plain)
  BY DEF Todo
<1>2. Head(q) \in AnyTask /\ Head(q) = q[1]
  BY <1>1
<1>3. Head(q) \in Plain
  BY <1>2 DEF AnyTask, Plain
<1>4. Len(q) \in Nat /\ Len(q) # 0
  BY <1>1
<1>5. ASSUME Len(q) = 1 PROVE Last(q) \in Plain
  BY <1>2, <1>3, <1>5 DEF Last
<1>6. ASSUME Len(q) # 1 PROVE Last(q) \in Plain
  <2>1. /\ Len(Tail(q)) = Len(q) - 1
        /\ \A i \in 1 .. Len(Tail(q)) : Tail(q)[i] = q[i + 1]
    BY <1>1, HeadTailProperties
  <2>2. Len(q) - 1 \in 1 .. Len(Tail(q))
    BY <1>4, <1>6, <2>1
  <2>3. Tail(q)[Len(q) - 1] \in Plain /\ Tail(q)[Len(q) - 1] = q[Len(q)]
    BY <1>1, <1>4, <2>1, <2>2, ElementOfSeq
  <2>. QED BY <2>3 DEF Last
<1>. QED BY <1>5, <1>6

LEMMA EmptyPlain == <<>> \in Seq(Plain)
OBVIOUS

LEMMA TaskBefore ==
    ASSUME NEW S, NEW t \in S, NEW rest \in Seq(S)
    PROVE  /\ <<t>> \o rest \in Seq(S) /\ <<t>> \o rest # <<>>
           /\ Head(<<t>> \o rest) = t /\ Tail(<<t>> \o rest) = rest
<1>. DEFINE first == <<t>>
            both  == first \o rest
<1>1. first \in Seq(S) /\ Len(first) = 1 /\ first[1] = t
  OBVIOUS
<1>2. Len(rest) \in Nat
  BY LenProperties
<1>. HIDE DEF first, both
<1>3. /\ both \in Seq(S) /\ Len(both) = 1 + Len(rest)
      /\ \A i \in 1 .. 1 + Len(rest) : both[i] = IF i <= 1 THEN first[i] ELSE rest[i - 1]
  <2>1. /\ first \o rest \in Seq(S) /\ Len(first \o rest) = Len(first) + Len(rest)
        /\ \A i \in 1 .. Len(first) + Len(rest) :
               (first \o rest)[i] = IF i <= Len(first) THEN first[i] ELSE rest[i - Len(first)]
    BY <1>1, ConcatProperties, Zenon
  <2>. QED BY <1>1, <1>2, <2>1, Zenon DEF both
<1>4. both # <<>> /\ both[1] = t
  BY <1>1, <1>2, <1>3, EmptySeq
<1>5. Head(both) = t
  BY <1>3, <1>4
<1>6. /\ Tail(both) \in Seq(S) /\ Len(Tail(both)) = Len(rest)
      /\ \A i \in 1 .. Len(rest) : Tail(both)[i] = both[i + 1]
  BY <1>2, <1>3, <1>4, HeadTailProperties
<1>7. \A i \in 1 .. Len(rest) : Tail(both)[i] = rest[i]
  BY <1>2, <1>3, <1>6
<1>8. Tail(both) = rest
  BY <1>6, <1>7, SeqEqual
<1>. QED BY <1>3, <1>4, <1>5, <1>8 DEF both, first

\* What a greenlet does next when its task leaves plain ones.
LEMMA ThenPlain ==
    ASSUME todo \in [Threads -> Todo], NEW g \in Threads, todo[g] # <<>>,
           NEW tasks \in Seq(Plain), Then(g, tasks)
    PROVE  /\ todo' \in [Threads -> Todo]
           /\ todo'[g] \in Seq(Plain)
           /\ \A h \in Threads : h # g => todo'[h] = todo[h]
<1>1. Tail(todo[g]) \in Seq(Plain)
  BY DEF Todo
<1>2. tasks \o Tail(todo[g]) \in Seq(Plain)
  BY <1>1, ConcatProperties
<1>3. tasks \o Tail(todo[g]) \in Todo
  BY <1>2, PlainTodo
<1>. QED BY <1>2, <1>3 DEF Then

-----------------------------------------------------------------------------
(* Two kinds of steps.                                                     *)

LEMMA ReadOfSpool ==
    ASSUME NEW s \in Slots, SpoolSeen, ReadOf(s) \in Tags
    PROVE  ReadOf(s) \in since[s]
BY NamesAssumption DEF SpoolSeen, ReadOf

LEMMA ReadOfOrdered ==
    ASSUME NEW s \in Slots, NEW g \in Threads, At(g, "records"), OrderedSeen,
           ReadOf(s) \in Tags
    PROVE  ReadOf(s) \in ordered[g][s]
BY NamesAssumption DEF OrderedSeen, ReadOf

\* A step in which no greenlet is told that its order was carried out.
LEMMA OrderKept ==
    ASSUME ScanInv, Reported', todo' \in [Threads -> Todo],
           \A g \in Threads :
               \/ todo'[g] \in Seq(Plain)
               \/ /\ todo'[g] = todo[g]
                  /\ \A s \in Slots : ordered[g][s] \subseteq ordered'[g][s],
           \A g \in Threads, s \in Slots :
               spool'[s] \in Tags /\ spool'[s] # spool[s] /\ At(g, "records")
                   => spool'[s] \in ordered'[g][s],
           \A s \in Slots : cache'[s] \in {cache[s], ReadOf(s)} \/ cache'[s] \notin Tags
    PROVE  OrderInv'
<1>1. ASSUME NEW g \in Threads, At(g, "records")'
      PROVE  /\ At(g, "records") /\ Its(g)' = Its(g) /\ Its(g) \subseteq Slots
             /\ \A s \in Slots : ordered[g][s] \subseteq ordered'[g][s]
  <2>1. todo'[g] # <<>> /\ Head(todo'[g]).op = "records"
    BY <1>1 DEF At
  <2>2. todo'[g] \notin Seq(Plain)
    BY <2>1, PlainHead
  <2>3. todo'[g] = todo[g] /\ todo[g] \in Todo
    BY <2>2 DEF ScanInv, Types
  <2>4. Head(todo[g]) \in AnyTask
    BY <2>1, <2>3, HeadTail
  <2>. QED BY <2>1, <2>2, <2>3, <2>4 DEF At, Its, AnyTask
<1>2. OrderedSeen'
  BY <1>1 DEF ScanInv, OrderInv, OrderedSeen
<1>3. OrderedRecord'
  <2> SUFFICES ASSUME NEW g \in Threads, At(g, "records")', NEW s \in Its(g)',
                      cache'[s] \in Tags
               PROVE  cache'[s] \in ordered'[g][s]
    BY DEF OrderedRecord
  <2>1. s \in Its(g) /\ s \in Slots
    BY <1>1
  <2>2. ReadOf(s) \in Tags => ReadOf(s) \in ordered[g][s]
    BY <1>1, <2>1, ReadOfOrdered DEF ScanInv, OrderInv
  <2>. QED BY <1>1, <2>1, <2>2 DEF ScanInv, OrderInv, OrderedRecord
<1>. QED BY <1>2, <1>3 DEF OrderInv

\* A step that forgets no tag of a slot: the cache changes only to what is read
\* from the spool, and a slot is watched only for the tag it has in the cache.
LEMMA GrowStep ==
    ASSUME ScanInv, Types', OrderInv',
           \A s \in Slots : since[s] \subseteq since'[s],
           \A s \in Slots : spool'[s] = spool[s] \/ spool'[s] \notin Tags
                               \/ spool'[s] \in since'[s],
           \A s \in Slots : cache'[s] \in {cache[s], ReadOf(s)} \/ cache'[s] \notin Tags,
           \A s \in Slots : s \in invalid' => s \in invalid \/ cache[s] \notin Tags,
           \A s \in Slots : snapshot'[s] \in {snapshot[s], Nothing, cache[s]}
    PROVE  ScanInv'
<1>1. SpoolSeen'
  BY DEF ScanInv, SpoolSeen
<1>2. \A s \in Slots : ReadOf(s) \in Tags => ReadOf(s) \in since'[s]
  BY ReadOfSpool DEF ScanInv
<1>3. FreshRecord'
  BY <1>2 DEF ScanInv, FreshRecord
<1>. QED BY <1>1, <1>3 DEF ScanInv

\* A handled insertion or removal: what is known of the slot is forgotten, but
\* for the spool that is in it.
LEMMA ForgetStep ==
    ASSUME ScanInv, Types', OrderInv', NEW x \in Slots,
           spool' = spool, cache' = cache, invalid' = invalid \ {x},
           \A s \in Slots : snapshot'[s] = IF s = x THEN Nothing ELSE snapshot[s],
           \A s \in Slots : since'[s] = IF s = x THEN TagOf(x) ELSE since[s]
    PROVE  ScanInv'
<1>1. SpoolSeen'
  BY DEF ScanInv, SpoolSeen, TagOf
<1>2. FreshRecord'
  BY DEF ScanInv, FreshRecord
<1>. QED BY <1>1, <1>2 DEF ScanInv

\* The task of a greenlet is of slots of the box.
LEMMA TaskAtHand ==
    ASSUME Types, NEW g \in Threads, todo[g] # <<>>
    PROVE  Its(g) \in SUBSET Slots /\ Head(todo[g]).n \in Int
<1>1. todo[g] \in Todo
  BY DEF Types
<1>2. Head(todo[g]) \in AnyTask
  BY <1>1, HeadTail
<1>. QED BY <1>2 DEF AnyTask, Its

LEMMA OneTaskPlain ==
    ASSUME NEW o \in Ops, NEW S \in SUBSET Slots
    PROVE  <<Task(o, S)>> \in Seq(Plain)
BY TaskPlain

LEMMA ReportedKept ==
    ASSUME ScanInv, UNCHANGED forced
    PROVE  Reported'
BY DEF ScanInv, OrderInv, Reported, forced

\* A step that changes what the greenlets have left, and the presence at most.
LEMMA TodoStep ==
    ASSUME ScanInv, UNCHANGED <<spool, cache, event, due, slotTables, mapped, forced>>,
           presence' \in [known : BOOLEAN, slots : SUBSET Slots],
           todo' \in [Threads -> Todo],
           \A g \in Threads : todo'[g] \in Seq(Plain) \/ todo'[g] = todo[g]
    PROVE  ScanInv'
<1>1. Types'
  BY DEF ScanInv, Types, slotTables, watch, forced
<1>2. OrderInv'
  BY ReportedKept, OrderKept DEF forced
<1>. QED BY <1>1, <1>2, GrowStep DEF ScanInv, slotTables, watch

LEMMA ReconcilePlain ==
    ASSUME ScanInv, NEW g \in Threads, todo[g] # <<>>, NEW tasks \in Seq(Plain),
           Reconcile(g, tasks)
    PROVE  /\ presence' \in [known : BOOLEAN, slots : SUBSET Slots]
           /\ todo' \in [Threads -> Todo]
           /\ \A h \in Threads : todo'[h] \in Seq(Plain) \/ todo'[h] = todo[h]
<1> DEFINE before == IF presence.known THEN presence.slots ELSE Filled
           handled == OfEach("inserted", Filled \ before)
                         \o OfEach("removed", before \ Filled) \o tasks
<1>1. Filled \in SUBSET Slots /\ before \in SUBSET Slots
  BY DEF ScanInv, Types, Filled
<1>2. /\ OfEach("inserted", Filled \ before) \in Seq(Plain)
      /\ OfEach("removed", before \ Filled) \in Seq(Plain)
  <2>. HIDE DEF before
  <2>. QED BY <1>1, OfEachPlain DEF Ops
<1>3. handled \in Seq(Plain)
  <2>. HIDE DEF before
  <2>1. OfEach("inserted", Filled \ before) \o OfEach("removed", before \ Filled)
            \in Seq(Plain)
    BY <1>2, ConcatProperties
  <2>2. (OfEach("inserted", Filled \ before) \o OfEach("removed", before \ Filled))
            \o tasks \in Seq(Plain)
    BY <2>1, ConcatProperties
  <2>. QED BY <2>2
<1>4. Then(g, handled) /\ presence' = [known |-> TRUE, slots |-> Filled]
  BY DEF Reconcile
<1>5. todo \in [Threads -> Todo]
  BY DEF ScanInv, Types
<1>. HIDE DEF handled, before
<1>. QED BY <1>1, <1>3, <1>4, <1>5, ThenPlain

-----------------------------------------------------------------------------
(* The steps.                                                              *)

LEMMA InitInv == Init => ScanInv
<1> SUFFICES ASSUME Init PROVE ScanInv
  OBVIOUS
<1>1. Types
  <2>1. <<Task("start", {})>> \in Seq(Plain)
    BY OneTaskPlain DEF Ops
  <2>2. todo \in [Threads -> Todo]
    BY <2>1, EmptyPlain, PlainTodo DEF Init
  <2>. QED BY <2>2 DEF Init, Types, AllSlots, Records, TagOf, NoRecords, NoTags
<1>2. SpoolSeen
  BY DEF Init, SpoolSeen, TagOf
<1>3. FreshRecord
  BY DEF Init, FreshRecord
<1>4. OrderInv
  <2>1. \A g \in Threads : ~At(g, "records")
    BY DEF Init, At, Task, Threads
  <2>2. Reported
    BY NamesAssumption DEF Init, Reported, NoRecords
  <2>. QED BY <2>1, <2>2 DEF OrderInv, OrderedSeen, OrderedRecord
<1>. QED BY <1>1, <1>2, <1>3, <1>4 DEF ScanInv

LEMMA HardwareInv ==
    ASSUME ScanInv, NEW x \in Slots, SpoolIn(x) \/ SpoolOut(x) \/ ReadTag(x)
    PROVE  ScanInv'
<1>1. /\ UNCHANGED <<pending, snapshot, invalid, presence, scanned, todo, mapped, after>>
      /\ \A s \in Slots : since[s] \subseteq since'[s]
  BY DEF SpoolIn, SpoolOut, ReadTag, watch, seen, ScanInv, Types
<1>2. /\ ordered' \in [Threads -> [Slots -> SUBSET Tags]]
      /\ \A g \in Threads, s \in Slots : ordered[g][s] \subseteq ordered'[g][s]
      /\ \A g \in Threads, s \in Slots :
             spool'[s] \in Tags /\ spool'[s] # spool[s] /\ At(g, "records")
                 => spool'[s] \in ordered'[g][s]
  <2>0. spool \in [Slots -> Spools] /\ ordered \in [Threads -> [Slots -> SUBSET Tags]]
    BY DEF ScanInv, Types
  <2>1. CASE SpoolIn(x)
    <3>1. PICK t \in Spools \ {NoSpool} :
             /\ spool' = [spool EXCEPT ![x] = t]
             /\ ordered' = [g \in Threads |->
                    [ordered[g] EXCEPT ![x] =
                        IF Ordering(g) THEN @ \cup ({t} \cap Tags) ELSE @]]
      BY <2>1 DEF SpoolIn
    <3>2. \A g \in Threads : At(g, "records") => Ordering(g)
      BY DEF Ordering
    <3>. QED BY <2>0, <3>1, <3>2
  <2>2. CASE SpoolOut(x) \/ ReadTag(x)
    BY <2>0, <2>2, NamesAssumption DEF SpoolOut, ReadTag, seen
  <2>. QED BY <2>1, <2>2
<1>3. Types'
  <2>1. CASE SpoolIn(x)
    BY <1>1, <1>2, <2>1 DEF SpoolIn, ScanInv, Types, Spools
  <2>2. CASE SpoolOut(x)
    BY <1>1, <1>2, <2>2 DEF SpoolOut, ScanInv, Types, Spools, AllSlots, Records, seen
  <2>3. CASE ReadTag(x)
    <3>1. ReadOf(x) \in Records
      BY DEF ReadOf, Records
    <3>2. /\ cache' \in [AllSlots -> Records] /\ event' \in [Slots -> 0..3]
          /\ due' \subseteq Slots
      BY <2>3, <3>1 DEF ReadTag, ScanInv, Types, AllSlots, Records
    <3>3. UNCHANGED <<spool, since>>
      BY <2>3 DEF ReadTag, seen
    <3>. QED BY <1>1, <1>2, <3>2, <3>3 DEF ScanInv, Types
  <2>. QED BY <2>1, <2>2, <2>3
<1>4. \A s \in Slots : spool'[s] = spool[s] \/ spool'[s] \notin Tags
                          \/ spool'[s] \in since'[s]
  BY NamesAssumption DEF SpoolIn, SpoolOut, ReadTag, ScanInv, Types
<1>5. \A s \in Slots : cache'[s] \in {cache[s], ReadOf(s)} \/ cache'[s] \notin Tags
  BY NamesAssumption DEF SpoolIn, SpoolOut, ReadTag, ScanInv, Types, AllSlots
<1>6. OrderInv'
  <2>1. Reported'
    BY <1>1, <1>2 DEF ScanInv, OrderInv, Reported
  <2>2. todo' \in [Threads -> Todo]
    BY <1>3 DEF Types
  <2>. QED BY <1>1, <1>2, <1>5, <2>1, <2>2, OrderKept
<1>. QED BY <1>1, <1>3, <1>4, <1>5, <1>6, GrowStep DEF ScanInv

LEMMA PollStartsInv ==
    ASSUME ScanInv, PollStarts,
           UNCHANGED <<mapped, forced>>
    PROVE  ScanInv'
<1>1. EventDrain \in Int /\ Drain(EventDrain) \in Seq(Plain)
  BY RfidAssumption, DrainPlain
<1>2. PICK topology \in BOOLEAN :
          todo' = [todo EXCEPT !["poll"] =
              (IF topology THEN <<Task("presence", {})>> ELSE <<>>)
                  \o Drain(EventDrain)]
  BY DEF PollStarts
<1>3. (IF topology THEN <<Task("presence", {})>> ELSE <<>>) \in Seq(Plain)
  BY OneTaskPlain, EmptyPlain DEF Ops
<1>4. (IF topology THEN <<Task("presence", {})>> ELSE <<>>) \o Drain(EventDrain)
         \in Seq(Plain)
  BY <1>1, <1>3, ConcatProperties
<1>5. todo' \in [Threads -> Todo]
         /\ \A g \in Threads : todo'[g] \in Seq(Plain) \/ todo'[g] = todo[g]
  <2>. DEFINE tasks == (IF topology THEN <<Task("presence", {})>> ELSE <<>>)
                           \o Drain(EventDrain)
  <2>1. tasks \in Seq(Plain) /\ todo' = [todo EXCEPT !["poll"] = tasks]
    BY <1>2, <1>4
  <2>. HIDE DEF tasks
  <2>. QED BY <2>1, PlainTodo DEF ScanInv, Types
<1>. QED BY <1>5, TodoStep DEF PollStarts, hardware, ScanInv, Types

LEMMA LoadStartsInv ==
    ASSUME ScanInv, NEW x \in Slots, LoadStarts(x),
           UNCHANGED <<mapped, forced>>
    PROVE  ScanInv'
<1>. DEFINE tasks == Drain(EventDrain) \o <<Task("attend", {x})>>
<1>1. EventDrain \in Int /\ Drain(EventDrain) \in Seq(Plain)
  BY RfidAssumption, DrainPlain
<1>2. <<Task("attend", {x})>> \in Seq(Plain)
  BY OneTaskPlain DEF Ops
<1>3. tasks \in Seq(Plain) /\ todo' = [todo EXCEPT !["load"] = tasks]
  BY <1>1, <1>2, ConcatProperties DEF LoadStarts
<1>. HIDE DEF tasks
<1>4. todo' \in [Threads -> Todo]
         /\ \A g \in Threads : todo'[g] \in Seq(Plain) \/ todo'[g] = todo[g]
  BY <1>3, PlainTodo DEF ScanInv, Types
<1>. QED BY <1>4, TodoStep DEF LoadStarts, hardware, ScanInv, Types

\* A greenlet that turns to plain tasks, and changes the presence at most.
LEMMA ThenStep ==
    ASSUME ScanInv, NEW g \in Threads, todo[g] # <<>>,
           NEW tasks \in Seq(Plain), Then(g, tasks),
           UNCHANGED <<hardware, slotTables, mapped, forced>>,
           presence' \in [known : BOOLEAN, slots : SUBSET Slots]
    PROVE  ScanInv'
<1>1. todo \in [Threads -> Todo]
  BY DEF ScanInv, Types
<1>2. /\ todo' \in [Threads -> Todo]
      /\ \A h \in Threads : todo'[h] \in Seq(Plain) \/ todo'[h] = todo[h]
  BY <1>1, ThenPlain
<1>. QED BY <1>2, TodoStep DEF hardware

LEMMA QueryPresenceInv ==
    ASSUME ScanInv, NEW g \in Threads, QueryPresence(g),
           UNCHANGED <<mapped, forced>>
    PROVE  ScanInv'
<1>1. todo[g] # <<>> /\ UNCHANGED <<hardware, slotTables>>
  BY DEF QueryPresence, At
<1>2. presence \in [known : BOOLEAN, slots : SUBSET Slots]
  BY DEF ScanInv, Types
<1>3. CASE Reconcile(g, <<>>)
  BY <1>1, <1>3, EmptyPlain, ReconcilePlain, TodoStep DEF hardware
<1>4. CASE Then(g, <<>>) /\ UNCHANGED presence
  BY <1>1, <1>2, <1>4, EmptyPlain, ThenStep
<1>. QED BY <1>3, <1>4 DEF QueryPresence

LEMMA LoadAttendsInv ==
    ASSUME ScanInv, NEW g \in Threads, LoadAttends(g),
           UNCHANGED <<mapped, forced>>
    PROVE  ScanInv'
<1>1. todo[g] # <<>> /\ UNCHANGED <<hardware, slotTables>>
  BY DEF LoadAttends, At
<1>2. CASE Reconcile(g, <<[Task("deferred", Its(g)) EXCEPT !.n =
                              IF Its(g) \subseteq Filled THEN 1 ELSE 0]>>)
  <2>. DEFINE found == IF Its(g) \subseteq Filled THEN 1 ELSE 0
              task  == [Task("deferred", Its(g)) EXCEPT !.n = found]
  <2>1. found \in Int
    OBVIOUS
  <2>. HIDE DEF found
  <2>2. task \in Plain
    BY <1>1, <2>1, TaskAtHand DEF ScanInv, Task, Plain, Ops
  <2>3. Reconcile(g, <<task>>)
    BY <1>2 DEF found
  <2>. HIDE DEF task
  <2>4. <<task>> \in Seq(Plain)
    BY <2>2
  <2>. QED BY <1>1, <2>3, <2>4, ReconcilePlain, TodoStep DEF hardware
<1>3. CASE todo' = [todo EXCEPT ![g] = <<>>] /\ UNCHANGED presence
  <2>1. /\ todo' \in [Threads -> Todo]
        /\ \A h \in Threads : todo'[h] \in Seq(Plain) \/ todo'[h] = todo[h]
    BY <1>3, EmptyPlain, PlainTodo DEF ScanInv, Types
  <2>. QED BY <1>1, <1>3, <2>1, TodoStep DEF hardware, ScanInv, Types
<1>. QED BY <1>2, <1>3 DEF LoadAttends

LEMMA LoadDeferredInv ==
    ASSUME ScanInv, NEW g \in Threads, LoadDeferred(g),
           UNCHANGED <<mapped, forced>>
    PROVE  ScanInv'
<1>. DEFINE sample == IF Head(todo[g]).n = 1
                      THEN <<Task("sample", Its(g))>> ELSE <<>>
            tasks  == IF Its(g) \cap pending = {} THEN <<>>
                      ELSE sample \o <<Task("clear", Its(g))>>
<1>1. todo[g] # <<>> /\ UNCHANGED <<hardware, slotTables, presence>>
  BY DEF LoadDeferred, At
<1>2. sample \in Seq(Plain) /\ <<Task("clear", Its(g))>> \in Seq(Plain)
  BY <1>1, TaskAtHand, OneTaskPlain, EmptyPlain DEF ScanInv, Ops
<1>3. sample \o <<Task("clear", Its(g))>> \in Seq(Plain)
  <2>. HIDE DEF sample
  <2>. QED BY <1>2, ConcatProperties
<1>4. tasks \in Seq(Plain)
  <2>. HIDE DEF sample
  <2>. QED BY <1>3, EmptyPlain
<1>5. Then(g, tasks)
  BY DEF LoadDeferred
<1>. HIDE DEF tasks
<1>. QED BY <1>1, <1>4, <1>5, ThenStep DEF ScanInv, Types

LEMMA LoadSampleInv ==
    ASSUME ScanInv, NEW g \in Threads, LoadSample(g),
           UNCHANGED <<mapped, forced>>
    PROVE  ScanInv'
<1>1. todo[g] # <<>> /\ UNCHANGED <<hardware, slotTables, presence>>
  BY DEF LoadSample, At
<1>2. <<Task("force", Its(g))>> \in Seq(Plain)
  BY <1>1, TaskAtHand, OneTaskPlain DEF ScanInv, Ops
<1>. QED BY <1>1, <1>2, EmptyPlain, ThenStep DEF LoadSample, ScanInv, Types

LEMMA IgnoredInv ==
    ASSUME ScanInv, NEW g \in Threads, IgnoreResult(g) \/ WatchNothing(g),
           UNCHANGED <<mapped, forced>>
    PROVE  ScanInv'
BY EmptyPlain, ThenStep DEF IgnoreResult, WatchNothing, At, ScanInv, Types

LEMMA StartInv ==
    ASSUME ScanInv, NEW g \in Threads, Start(g),
           UNCHANGED <<mapped, forced>>
    PROVE  ScanInv'
<1>1. todo[g] # <<>> /\ UNCHANGED <<hardware, slotTables>>
  BY DEF Start, At
<1>2. CASE Then(g, <<>>) /\ UNCHANGED presence
  BY <1>1, <1>2, EmptyPlain, ThenStep DEF ScanInv, Types
<1>3. CASE /\ presence' = [known |-> TRUE, slots |-> Filled]
           /\ \E startup \in BOOLEAN :
                 Then(g, IF startup /\ Filled # {}
                          THEN <<Task("cached", Filled)>> ELSE <<>>)
  <2>1. <<Task("cached", Filled)>> \in Seq(Plain) /\ Filled \in SUBSET Slots
    BY OneTaskPlain DEF Filled, Ops
  <2>2. \E tasks \in Seq(Plain) : Then(g, tasks)
    BY <1>3, <2>1, EmptyPlain
  <2>. QED BY <1>1, <1>3, <2>1, <2>2, ThenStep
<1>. QED BY <1>2, <1>3 DEF Start

\* A step of a greenlet, which may change the watch of slots, take a tag for a
\* slot's, and give up the records of a forced read.
LEMMA GreenletStep ==
    ASSUME ScanInv, NEW g \in Threads,
           todo' \in [Threads -> Todo], todo'[g] \in Seq(Plain),
           \A h \in Threads : h # g => todo'[h] = todo[h],
           UNCHANGED <<hardware, presence, since, mapped>>,
           pending' \subseteq Slots, invalid' \subseteq Slots,
           snapshot' \in [Slots -> Records \cup {Nothing}],
           \A s \in Slots : s \in invalid' => s \in invalid \/ cache[s] \notin Tags,
           \A s \in Slots : snapshot'[s] \in {snapshot[s], Nothing, cache[s]},
           scanned' \in [AllSlots -> Tags \cup {Nothing}],
           after' \in [Threads -> [Slots -> Tags \cup {Nothing}]],
           ordered' \in [Threads -> [Slots -> SUBSET Tags]],
           \A h \in Threads : h # g => ordered'[h] = ordered[h],
           Reported'
    PROVE  ScanInv'
<1>1. Types'
  BY DEF ScanInv, Types, hardware
<1>2. OrderInv'
  BY OrderKept DEF hardware
<1>. QED BY <1>1, <1>2, GrowStep DEF ScanInv, hardware

LEMMA WatchStep ==
    ASSUME ScanInv, NEW g \in Threads, todo[g] # <<>>,
           NEW tasks \in Seq(Plain), Then(g, tasks),
           UNCHANGED <<hardware, presence, since, scanned, mapped, forced>>,
           pending' \subseteq Slots, invalid' \subseteq Slots,
           snapshot' \in [Slots -> Records \cup {Nothing}],
           \A s \in Slots : s \in invalid' => s \in invalid \/ cache[s] \notin Tags,
           \A s \in Slots : snapshot'[s] \in {snapshot[s], Nothing, cache[s]}
    PROVE  ScanInv'
<1>1. /\ todo' \in [Threads -> Todo] /\ todo'[g] \in Seq(Plain)
      /\ \A h \in Threads : h # g => todo'[h] = todo[h]
  BY ThenPlain DEF ScanInv, Types
<1>2. /\ scanned' \in [AllSlots -> Tags \cup {Nothing}]
      /\ after' \in [Threads -> [Slots -> Tags \cup {Nothing}]]
      /\ ordered' \in [Threads -> [Slots -> SUBSET Tags]] /\ ordered' = ordered
  BY DEF ScanInv, Types, forced
<1>. QED BY <1>1, <1>2, ReportedKept, GreenletStep

LEMMA StartCachedInv ==
    ASSUME ScanInv, NEW g \in Threads, StartCached(g),
           UNCHANGED <<mapped, forced>>
    PROVE  ScanInv'
<1>. DEFINE unread == {s \in Its(g) : cache[s] \in {"none", "unknown"}}
<1>1. /\ todo[g] # <<>>
      /\ UNCHANGED <<hardware, presence, watch, since, scanned>>
  BY DEF StartCached, At
<1>2. <<Task("force", unread)>> \in Seq(Plain)
  <2>1. unread \in SUBSET Slots
    BY <1>1, TaskAtHand DEF ScanInv
  <2>. HIDE DEF unread
  <2>. QED BY <2>1, OneTaskPlain DEF Ops
<1>3. \E tasks \in Seq(Plain) : Then(g, tasks)
  BY <1>2, EmptyPlain DEF StartCached
<1>. QED BY <1>1, <1>3, WatchStep DEF watch, ScanInv, Types

LEMMA SnapshotCacheInv ==
    ASSUME ScanInv, NEW g \in Threads, SnapshotCache(g),
           UNCHANGED <<mapped, forced>>
    PROVE  ScanInv'
<1>1. todo[g] # <<>> /\ Then(g, <<>>)
         /\ UNCHANGED <<hardware, presence, since, scanned, pending>>
  BY DEF SnapshotCache, At
<1>2. \A s \in Slots : cache[s] \in Records
  BY DEF ScanInv, Types, AllSlots
<1>3. Its(g) \in SUBSET Slots
  BY <1>1, TaskAtHand DEF ScanInv
<1>4. snapshot' \in [Slots -> Records \cup {Nothing}] /\ invalid' \subseteq Slots
  BY <1>2, <1>3 DEF SnapshotCache, ScanInv, Types
<1>5. \A s \in Slots : s \in invalid' => s \in invalid \/ cache[s] \notin Tags
  BY <1>3 DEF SnapshotCache, Ready
<1>6. \A s \in Slots : snapshot'[s] \in {snapshot[s], Nothing, cache[s]}
  BY <1>3 DEF SnapshotCache, ScanInv, Types
<1>. QED BY <1>1, <1>4, <1>5, <1>6, EmptyPlain, WatchStep DEF ScanInv, Types

LEMMA WatchPendingInv ==
    ASSUME ScanInv, NEW g \in Threads, WatchPending(g),
           UNCHANGED <<mapped, forced>>
    PROVE  ScanInv'
<1>1. todo[g] # <<>> /\ Then(g, <<>>)
         /\ UNCHANGED <<hardware, presence, since, scanned, pending, snapshot>>
  BY DEF WatchPending, At
<1>2. invalid' \subseteq Slots
  BY DEF WatchPending, ScanInv, Types
<1>3. \A s \in Slots : s \in invalid' => s \in invalid \/ cache[s] \notin Tags
  BY DEF WatchPending, Ready
<1>. QED BY <1>1, <1>2, <1>3, EmptyPlain, WatchStep DEF ScanInv, Types

LEMMA LoadClearInv ==
    ASSUME ScanInv, NEW g \in Threads, LoadClear(g),
           UNCHANGED <<mapped, forced>>
    PROVE  ScanInv'
<1>1. todo[g] # <<>> /\ Then(g, <<>>)
         /\ UNCHANGED <<hardware, presence, since, scanned>>
  BY DEF LoadClear, At
<1>2. /\ pending' \subseteq pending /\ invalid' \subseteq invalid
      /\ snapshot' \in [Slots -> Records \cup {Nothing}]
      /\ \A s \in Slots : snapshot'[s] \in {snapshot[s], Nothing, cache[s]}
  BY DEF LoadClear, ClearWatch, ScanInv, Types
<1>. QED BY <1>1, <1>2, EmptyPlain, WatchStep DEF ScanInv, Types

LEMMA QueryStateInv ==
    ASSUME ScanInv, NEW g \in Threads, QueryState(g),
           UNCHANGED <<mapped, forced>>
    PROVE  ScanInv'
<1>. DEFINE waiting == {s \in Slots : event[s] # 0}
            handler == <<"inserted", "removed", "result">>
            order   == SetToSeq(waiting)
            handled == [i \in DOMAIN order |->
                            Task(handler[event[order[i]]], {order[i]})]
<1>1. todo[g] # <<>> /\ UNCHANGED <<spool, cache, due, presence, slotTables>>
  BY DEF QueryState, At
<1>2. event' \in [Slots -> 0..3]
  BY DEF QueryState, ScanInv, Types
<1>3. \E tasks \in Seq(Plain) : Then(g, tasks)
  <2>1. CASE Then(g, <<>>)
    BY <2>1, EmptyPlain
  <2>2. CASE Then(g, <<Task("presence", {})>> \o handled \o Drain(Head(todo[g]).n - 1))
    <3>1. handled \in Seq(Plain)
      <4>1. waiting \in SUBSET Slots
        OBVIOUS
      <4>2. order \in [1..Cardinality(waiting) -> waiting] /\ Cardinality(waiting) \in Nat
        <5>. HIDE DEF waiting
        <5>. QED BY <4>1, SetToSeqType
      <4>3. \A i \in 1..Cardinality(waiting) : event[order[i]] \in 1..3
        BY <4>2 DEF ScanInv, Types
      <4>4. \A i \in 1..Cardinality(waiting) : handler[event[order[i]]] \in Ops
        BY <4>3 DEF Ops
      <4>5. \A i \in 1..Cardinality(waiting) : {order[i]} \in SUBSET Slots
        BY <4>2
      <4>. HIDE DEF handler, order, waiting
      <4>6. handled \in [1..Cardinality(waiting) -> Plain]
        BY <4>2, <4>4, <4>5, TaskPlain
      <4>. HIDE DEF handled
      <4>. QED BY <4>2, <4>6, SeqDef
    <3>2. Drain(Head(todo[g]).n - 1) \in Seq(Plain)
      <4>1. Head(todo[g]).n \in Int
        BY <1>1, TaskAtHand DEF ScanInv
      <4>2. Head(todo[g]).n - 1 \in Int
        BY <4>1
      <4>. QED BY <4>2, DrainPlain
    <3>3. <<Task("presence", {})>> \in Seq(Plain)
      BY OneTaskPlain DEF Ops
    <3>. HIDE DEF handled
    <3>4. <<Task("presence", {})>> \o handled \in Seq(Plain)
      BY <3>1, <3>3, ConcatProperties
    <3>5. (<<Task("presence", {})>> \o handled) \o Drain(Head(todo[g]).n - 1) \in Seq(Plain)
      BY <3>2, <3>4, ConcatProperties
    <3>. QED BY <2>2, <3>5
  <2>3. CASE \E preload \in BOOLEAN :
                Then(g, IF preload THEN <<>> ELSE OfEach("read", pending))
    <3>1. OfEach("read", pending) \in Seq(Plain)
      BY OfEachPlain DEF ScanInv, Types, Ops
    <3>. QED BY <2>3, <3>1, EmptyPlain
  <2>. QED BY <2>1, <2>2, <2>3 DEF QueryState
<1>4. /\ todo' \in [Threads -> Todo]
      /\ \A h \in Threads : todo'[h] \in Seq(Plain) \/ todo'[h] = todo[h]
  BY <1>1, <1>3, ThenPlain DEF ScanInv, Types
<1>5. Types'
  BY <1>1, <1>2, <1>4 DEF ScanInv, Types, slotTables, watch, forced
<1>6. OrderInv'
  BY <1>1, <1>4, ReportedKept, OrderKept DEF forced
<1>. QED BY <1>1, <1>5, <1>6, GrowStep DEF ScanInv, slotTables, watch

\* The handling of an insertion or a removal, and a read that finds no spool.
LEMMA ForgottenInv ==
    ASSUME ScanInv, NEW g \in Threads, todo[g] # <<>>,
           NEW tasks \in Seq(Plain), Then(g, tasks),
           UNCHANGED <<hardware, presence, mapped, forced>>,
           NEW x \in Slots, Inserted(x) \/ Removed(x)
    PROVE  ScanInv'
<1>1. /\ todo' \in [Threads -> Todo]
      /\ \A h \in Threads : todo'[h] \in Seq(Plain) \/ todo'[h] = todo[h]
  BY ThenPlain DEF ScanInv, Types
<1>2. /\ pending' \subseteq Slots
      /\ invalid' = invalid \ {x}
      /\ snapshot' \in [Slots -> Records \cup {Nothing}]
      /\ \A s \in Slots : snapshot'[s] = IF s = x THEN Nothing ELSE snapshot[s]
  BY DEF Inserted, Removed, ClearWatch, ScanInv, Types
<1>3. Forget(x)
  BY DEF Inserted, Removed
<1>4. TagOf(x) \in SUBSET Tags
  BY DEF TagOf
<1>5. /\ since' \in [Slots -> SUBSET Tags]
      /\ \A s \in Slots : since'[s] = IF s = x THEN TagOf(x) ELSE since[s]
      /\ scanned' \in [AllSlots -> Tags \cup {Nothing}]
      /\ \A s \in Slots : scanned'[s] = IF s = x THEN Nothing ELSE scanned[s]
  BY <1>3, <1>4 DEF Forget, ScanInv, Types, AllSlots
<1>6. Types'
  BY <1>1, <1>2, <1>5 DEF ScanInv, Types, hardware, forced
<1>7. OrderInv'
  BY <1>1, ReportedKept, OrderKept DEF hardware, forced
<1>. QED BY <1>2, <1>5, <1>6, <1>7, ForgetStep DEF hardware

LEMMA HandledInv ==
    ASSUME ScanInv, NEW g \in Threads, HandleInserted(g) \/ HandleRemoved(g),
           UNCHANGED <<mapped, forced>>
    PROVE  ScanInv'
<1>1. todo[g] # <<>> /\ UNCHANGED <<hardware, presence>>
  BY DEF HandleInserted, HandleRemoved, At
<1>2. Its(g) \in SUBSET Slots
  BY <1>1, TaskAtHand DEF ScanInv
<1>3. PICK x \in Slots :
          /\ Inserted(x) \/ Removed(x)
          /\ \E tasks \in Seq(Plain) : Then(g, tasks)
  <2>1. CASE HandleInserted(g)
    <3>1. PICK x \in Its(g) :
              /\ Inserted(x)
              /\ Then(g, IF enabled THEN <<Task("snapshot", {x})>> ELSE <<>>)
      BY <2>1 DEF HandleInserted
    <3>2. <<Task("snapshot", {x})>> \in Seq(Plain)
      BY <1>2, OneTaskPlain DEF Ops
    <3>. QED BY <1>2, <3>1, <3>2, EmptyPlain
  <2>2. CASE HandleRemoved(g)
    BY <1>2, <2>2, EmptyPlain DEF HandleRemoved
  <2>. QED BY <2>1, <2>2
<1>. QED BY <1>1, <1>3, ForgottenInv

LEMMA ForceReadInv ==
    ASSUME ScanInv, NEW g \in Threads, ForceRead(g), UNCHANGED mapped
    PROVE  ScanInv'
<1>1. todo[g] # <<>> /\ UNCHANGED <<spool, event, due, presence, slotTables>>
  BY DEF ForceRead, At
<1>2. Its(g) \in SUBSET Slots
  BY <1>1, TaskAtHand DEF ScanInv
<1>3. \A s \in Slots : ReadOf(s) \in Records
  BY DEF ReadOf, Records
<1>4. /\ cache' \in [AllSlots -> Records]
      /\ \A s \in Slots : cache'[s] \in {cache[s], ReadOf(s)}
  BY <1>2, <1>3 DEF ForceRead, AllSlots, ScanInv, Types
<1>5. CASE Then(g, <<>>) /\ UNCHANGED forced
  <2>1. /\ todo' \in [Threads -> Todo]
        /\ \A h \in Threads : todo'[h] \in Seq(Plain) \/ todo'[h] = todo[h]
    BY <1>1, <1>5, EmptyPlain, ThenPlain DEF ScanInv, Types
  <2>2. Types'
    BY <1>1, <1>4, <1>5, <2>1 DEF ScanInv, Types, slotTables, watch, forced
  <2>3. OrderInv'
    BY <1>1, <1>4, <1>5, <2>1, ReportedKept, OrderKept DEF forced
  <2>. QED BY <1>1, <1>4, <2>2, <2>3, GrowStep DEF ScanInv, slotTables, watch
<1>6. CASE /\ cache' = [s \in AllSlots |-> IF s \in Its(g) THEN ReadOf(s)
                                           ELSE cache[s]]
           /\ ordered' = [ordered EXCEPT ![g] = [s \in Slots |-> TagOf(s)]]
           /\ after' = [after EXCEPT ![g] = NoRecords]
           /\ Then(g, <<Task("records", Its(g))>>)
  <2>1. Tail(todo[g]) \in Seq(Plain)
    BY <1>1, HeadTail DEF ScanInv, Types
  <2>2. Task("records", Its(g)) \in AnyTask
    BY <1>2 DEF Task, AnyTask
  <2>. DEFINE first == <<Task("records", Its(g))>>
              rest  == Tail(todo[g])
  <2>3. rest \in Seq(AnyTask)
    <3>1. Plain \subseteq AnyTask
      BY DEF Plain, AnyTask
    <3>. QED BY <2>1, <3>1
  <2>5. /\ first \o rest \in Seq(AnyTask) /\ first \o rest # <<>>
        /\ Head(first \o rest) = Task("records", Its(g))
        /\ Tail(first \o rest) = rest
    <3>. HIDE DEF rest
    <3>. QED BY <2>2, <2>3, TaskBefore
  <2>. HIDE DEF first, rest
  <2>6. first \o rest \in Todo
    BY <2>1, <2>5 DEF Todo, rest
  <2>7. todo' = [todo EXCEPT ![g] = first \o rest]
    BY <1>6 DEF Then, first, rest
  <2>8. todo' \in [Threads -> Todo]
    BY <2>6, <2>7 DEF ScanInv, Types
  <2>9. Its(g)' = Its(g) /\ \A h \in Threads \ {g} : todo'[h] = todo[h]
    BY <2>5, <2>7 DEF Its, Task, ScanInv, Types
  <2>10. /\ ordered' \in [Threads -> [Slots -> SUBSET Tags]]
         /\ \A s \in Slots : ordered'[g][s] = TagOf(s)
         /\ \A h \in Threads \ {g} : ordered'[h] = ordered[h]
    BY <1>6 DEF ScanInv, Types, TagOf
  <2>11. /\ after' \in [Threads -> [Slots -> Tags \cup {Nothing}]]
         /\ \A s \in Slots : after'[g][s] = Nothing
         /\ \A h \in Threads \ {g} : after'[h] = after[h]
    BY <1>6 DEF ScanInv, Types, NoRecords
  <2>12. Types'
    BY <1>1, <1>4, <2>8, <2>10, <2>11 DEF ScanInv, Types, slotTables, watch
  <2>13. Reported'
    BY <2>10, <2>11, NamesAssumption DEF ScanInv, OrderInv, Reported
  <2>14. OrderedSeen'
    BY <1>1, <2>9, <2>10 DEF ScanInv, OrderInv, OrderedSeen, At, TagOf
  <2>15. OrderedRecord'
    <3>1. ASSUME NEW s \in Its(g), cache'[s] \in Tags
          PROVE  cache'[s] \in ordered'[g][s]
      <4>1. s \in Slots /\ cache'[s] = ReadOf(s)
        BY <1>2, <1>6 DEF AllSlots
      <4>. QED BY <2>10, <3>1, <4>1, NamesAssumption DEF ReadOf, TagOf
    <3>2. ASSUME NEW h \in Threads \ {g}, At(h, "records")', NEW s \in Its(h)',
                 cache'[s] \in Tags
          PROVE  cache'[s] \in ordered'[h][s]
      <4>1. At(h, "records") /\ s \in Its(h)
        BY <2>9, <3>2 DEF At, Its
      <4>2. s \in Slots
        BY <4>1, TaskAtHand DEF ScanInv, At
      <4>3. ReadOf(s) \in Tags => ReadOf(s) \in ordered[h][s]
        BY <4>1, <4>2, ReadOfOrdered DEF ScanInv, OrderInv
      <4>. QED BY <1>4, <2>10, <3>2, <4>1, <4>2, <4>3
               DEF ScanInv, OrderInv, OrderedRecord
    <3>. QED BY <2>9, <3>1, <3>2 DEF OrderedRecord
  <2>. QED BY <1>1, <1>4, <2>12, <2>13, <2>14, <2>15, GrowStep
           DEF ScanInv, OrderInv, slotTables, watch
<1>. QED BY <1>5, <1>6 DEF ForceRead

\* The greenlet keeps nothing of the slots that it is done with.
LEMMA DoneOrder ==
    ASSUME ScanInv, NEW g \in Threads, NEW S, Done(g, S)
    PROVE  /\ after' \in [Threads -> [Slots -> Tags \cup {Nothing}]]
           /\ ordered' \in [Threads -> [Slots -> SUBSET Tags]]
           /\ \A h \in Threads : h # g => ordered'[h] = ordered[h]
           /\ Reported'
<1>. USE DEF ScanInv, Types
<1>1. /\ after' \in [Threads -> [Slots -> Tags \cup {Nothing}]]
      /\ \A s \in Slots : after'[g][s] = IF s \in S THEN Nothing ELSE after[g][s]
      /\ \A h \in Threads : h # g => after'[h] = after[h]
  BY DEF Done
<1>2. /\ ordered' \in [Threads -> [Slots -> SUBSET Tags]]
      /\ \A s \in Slots : ordered'[g][s] = IF s \in S THEN {} ELSE ordered[g][s]
      /\ \A h \in Threads : h # g => ordered'[h] = ordered[h]
  BY DEF Done
<1>3. Reported'
  BY <1>1, <1>2, NamesAssumption DEF OrderInv, Reported
<1>. QED BY <1>1, <1>2, <1>3

\* The record of a tag is applied to a slot.
LEMMA AppliedInv ==
    ASSUME ScanInv, NEW g \in Threads, todo[g] # <<>>,
           NEW tasks \in Seq(Plain), Then(g, tasks),
           UNCHANGED <<hardware, presence, since, mapped, forced>>, NEW x \in Slots,
           NEW t \in Tags \cup {Nothing},
           ClearWatch({x}) \/ UNCHANGED watch, ApplyRecord(x, t)
    PROVE  ScanInv'
<1>1. /\ todo' \in [Threads -> Todo] /\ todo'[g] \in Seq(Plain)
      /\ \A h \in Threads : h # g => todo'[h] = todo[h]
  BY ThenPlain DEF ScanInv, Types
<1>2. /\ pending' \subseteq Slots /\ invalid' \subseteq invalid
      /\ snapshot' \in [Slots -> Records \cup {Nothing}]
      /\ \A s \in Slots : snapshot'[s] \in {snapshot[s], Nothing, cache[s]}
  BY DEF ClearWatch, watch, ScanInv, Types
<1>3. scanned' \in [AllSlots -> Tags \cup {Nothing}]
  BY DEF ApplyRecord, ScanInv, Types
<1>4. /\ after' \in [Threads -> [Slots -> Tags \cup {Nothing}]]
      /\ ordered' \in [Threads -> [Slots -> SUBSET Tags]] /\ ordered' = ordered
      /\ invalid \subseteq Slots
  BY DEF ScanInv, Types, forced
<1>. QED BY <1>1, <1>2, <1>3, <1>4, ReportedKept, GreenletStep

\* The record of a slot that was watched for is that of a spool seen since.
LEMMA ReadResultInv ==
    ASSUME ScanInv, NEW g \in Threads, ReadResult(g), UNCHANGED <<mapped, forced>>
    PROVE  ScanInv'
<1>1. todo[g] # <<>> /\ Then(g, <<>>) /\ UNCHANGED <<hardware, presence>>
  BY DEF ReadResult, At
<1>2. Its(g) \in SUBSET Slots
  BY <1>1, TaskAtHand DEF ScanInv
<1>3. PICK x \in Its(g) :
          \/ UNCHANGED slotTables
          \/ cache[x] = "none" /\ Removed(x)
          \/ /\ cache[x] \in {"busy", "unknown"}
             /\ invalid' = invalid \cup {x}
             /\ UNCHANGED <<pending, snapshot, since, scanned>>
          \/ /\ ShouldApply(x) /\ ClearWatch({x}) /\ ApplyRecord(x, cache[x])
             /\ UNCHANGED since
  BY DEF ReadResult
<1>4. CASE UNCHANGED slotTables
  BY <1>1, <1>4, EmptyPlain, ThenStep DEF ScanInv, Types
<1>5. CASE Removed(x)
  BY <1>1, <1>2, <1>5, EmptyPlain, ForgottenInv
<1>6. CASE /\ cache[x] \in {"busy", "unknown"}
           /\ invalid' = invalid \cup {x}
           /\ UNCHANGED <<pending, snapshot, since, scanned>>
  <2>1. cache[x] \notin Tags
    BY <1>6, NamesAssumption
  <2>. QED BY <1>1, <1>2, <1>6, <2>1, EmptyPlain, WatchStep DEF ScanInv, Types
<1>7. CASE /\ ShouldApply(x) /\ ClearWatch({x}) /\ ApplyRecord(x, cache[x])
           /\ UNCHANGED since
  <2>1. cache[x] \in Tags
    BY <1>7 DEF ShouldApply, Ready
  <2>. QED BY <1>1, <1>2, <1>7, <2>1, EmptyPlain, AppliedInv
<1>. QED BY <1>3, <1>4, <1>5, <1>6, <1>7

LEMMA ForcedRecordsInv ==
    ASSUME ScanInv, NEW g \in Threads, ForcedRecords(g), UNCHANGED mapped
    PROVE  ScanInv'
<1>. DEFINE found == {s \in Its(g) : Ready(cache[s])}
<1>1. /\ At(g, "records") /\ todo[g] # <<>>
      /\ UNCHANGED <<hardware, presence, slotTables>>
  BY DEF ForcedRecords, At
<1>2. Its(g) \in SUBSET Slots
  BY <1>1, TaskAtHand DEF ScanInv
<1>3. \E tasks \in Seq(Plain) : Then(g, tasks)
  <2>1. OfEach("apply", found) \in Seq(Plain)
    <3>1. found \in SUBSET Slots /\ "apply" \in Ops
      BY <1>2 DEF Ops
    <3>. HIDE DEF found
    <3>. QED BY <3>1, OfEachPlain
  <2>. QED BY <2>1, EmptyPlain DEF ForcedRecords
<1>4. /\ todo' \in [Threads -> Todo] /\ todo'[g] \in Seq(Plain)
      /\ \A h \in Threads : h # g => todo'[h] = todo[h]
  BY <1>1, <1>3, ThenPlain DEF ScanInv, Types
<1>5. /\ after' \in [Threads -> [Slots -> Tags \cup {Nothing}]]
      /\ ordered' \in [Threads -> [Slots -> SUBSET Tags]]
      /\ \A h \in Threads : h # g => ordered'[h] = ordered[h]
      /\ Reported'
  <2>1. CASE Done(g, Slots)
    BY <2>1, DoneOrder
  <2>2. CASE /\ after' = [after EXCEPT ![g] =
                    [s \in Slots |-> IF s \in found THEN cache[s] ELSE Nothing]]
             /\ ordered' = [ordered EXCEPT ![g] =
                    [s \in Slots |-> IF s \in found THEN @[s] ELSE {}]]
    <3>1. \A s \in found : cache[s] \in Tags /\ cache[s] \in ordered[g][s]
      BY <1>1 DEF Ready, ScanInv, OrderInv, OrderedRecord
    <3>. HIDE DEF found
    <3>2. /\ after' \in [Threads -> [Slots -> Tags \cup {Nothing}]]
          /\ \A s \in Slots : after'[g][s] = IF s \in found THEN cache[s] ELSE Nothing
          /\ \A h \in Threads : h # g => after'[h] = after[h]
      BY <2>2, <3>1 DEF ScanInv, Types
    <3>3. /\ ordered' \in [Threads -> [Slots -> SUBSET Tags]]
          /\ \A s \in Slots : ordered'[g][s] = IF s \in found THEN ordered[g][s] ELSE {}
          /\ \A h \in Threads : h # g => ordered'[h] = ordered[h]
      BY <2>2 DEF ScanInv, Types
    <3>4. Reported'
      BY <3>1, <3>2, <3>3, NamesAssumption DEF ScanInv, OrderInv, Reported
    <3>. QED BY <3>2, <3>3, <3>4
  <2>. QED BY <2>1, <2>2 DEF ForcedRecords
<1>. QED BY <1>1, <1>4, <1>5, GreenletStep DEF slotTables, watch, ScanInv, Types

LEMMA ApplyForcedInv ==
    ASSUME ScanInv, NEW g \in Threads, ApplyForced(g), UNCHANGED <<mapped, forced>>
    PROVE  ScanInv'
<1>1. todo[g] # <<>> /\ Then(g, <<Task("remaining", Its(g))>>)
         /\ UNCHANGED <<hardware, presence, watch, since>>
  BY DEF ApplyForced, At
<1>2. Its(g) \in SUBSET Slots
  BY <1>1, TaskAtHand DEF ScanInv
<1>3. <<Task("remaining", Its(g))>> \in Seq(Plain)
  BY <1>2, OneTaskPlain DEF Ops
<1>4. PICK x \in Its(g) : ApplyRecord(x, after[g][x])
  BY DEF ApplyForced
<1>5. x \in Slots /\ after[g][x] \in Tags \cup {Nothing}
  BY <1>2 DEF ScanInv, Types
<1>. QED BY <1>1, <1>3, <1>4, <1>5, AppliedInv

LEMMA ForcedRemainingInv ==
    ASSUME ScanInv, NEW g \in Threads, ForcedRemaining(g), UNCHANGED mapped
    PROVE  ScanInv'
<1>1. todo[g] # <<>> /\ Then(g, <<>>) /\ Done(g, Its(g))
         /\ UNCHANGED <<hardware, presence, since, scanned>>
  BY DEF ForcedRemaining, At
<1>2. /\ pending' \subseteq pending /\ invalid' \subseteq invalid
      /\ snapshot' \in [Slots -> Records \cup {Nothing}]
      /\ \A s \in Slots : snapshot'[s] \in {snapshot[s], Nothing, cache[s]}
  BY DEF ForcedRemaining, ClearWatch, ScanInv, Types
<1>3. /\ todo' \in [Threads -> Todo] /\ todo'[g] \in Seq(Plain)
      /\ \A h \in Threads : h # g => todo'[h] = todo[h]
  BY <1>1, EmptyPlain, ThenPlain DEF ScanInv, Types
<1>4. /\ after' \in [Threads -> [Slots -> Tags \cup {Nothing}]]
      /\ ordered' \in [Threads -> [Slots -> SUBSET Tags]]
      /\ \A h \in Threads : h # g => ordered'[h] = ordered[h]
      /\ Reported'
  BY <1>1, DoneOrder
<1>. QED BY <1>1, <1>2, <1>3, <1>4, GreenletStep DEF ScanInv, Types

LEMMA MalformedInv ==
    ASSUME ScanInv, NEW g \in Threads, Malformed(g), UNCHANGED mapped
    PROVE  ScanInv'
<1>1. /\ todo[g] # <<>> /\ Head(todo[g]).op # "records"
      /\ todo' = [todo EXCEPT ![g] = IF g = "load" THEN <<Last(@)>> ELSE <<>>]
      /\ Done(g, Slots) /\ UNCHANGED <<hardware, slotTables, presence>>
  BY DEF Malformed, At
<1>2. <<Last(todo[g])>> \in Seq(Plain)
  <2>1. todo[g] \in Todo
    BY DEF ScanInv, Types
  <2>2. Last(todo[g]) \in Plain
    BY <1>1, <2>1, LastPlain
  <2>. QED BY <2>2
<1>3. /\ todo' \in [Threads -> Todo] /\ todo'[g] \in Seq(Plain)
      /\ \A h \in Threads : h # g => todo'[h] = todo[h]
  <2>. DEFINE left == IF g = "load" THEN <<Last(todo[g])>> ELSE <<>>
  <2>1. left \in Seq(Plain) /\ todo' = [todo EXCEPT ![g] = left]
    BY <1>1, <1>2, EmptyPlain
  <2>. HIDE DEF left
  <2>. QED BY <2>1, PlainTodo DEF ScanInv, Types
<1>4. /\ after' \in [Threads -> [Slots -> Tags \cup {Nothing}]]
      /\ ordered' \in [Threads -> [Slots -> SUBSET Tags]]
      /\ \A h \in Threads : h # g => ordered'[h] = ordered[h]
      /\ Reported'
  BY <1>1, DoneOrder
<1>. QED BY <1>1, <1>3, <1>4, GreenletStep DEF slotTables, watch, ScanInv, Types

\* A step that is not of a greenlet, and moves no spool of the box.
LEMMA OutsideStep ==
    ASSUME ScanInv, UNCHANGED <<spool, event, due, presence, since, forced>>,
           mapped' \subseteq Tags,
           todo' = todo \/ todo' = [g \in Threads |-> <<>>],
           cache' \in [AllSlots -> Records],
           pending' \subseteq Slots, invalid' \subseteq invalid,
           snapshot' \in [Slots -> Records \cup {Nothing}],
           scanned' \in [AllSlots -> Tags \cup {Nothing}],
           \A s \in Slots : /\ cache'[s] = cache[s]
                            /\ snapshot'[s] \in {snapshot[s], Nothing}
    PROVE  ScanInv'
<1>1. /\ todo' \in [Threads -> Todo]
      /\ \A h \in Threads : todo'[h] \in Seq(Plain) \/ todo'[h] = todo[h]
  BY EmptyPlain, PlainTodo DEF ScanInv, Types
<1>2. Types'
  BY <1>1 DEF ScanInv, Types, forced
<1>3. OrderInv'
  BY <1>1, ReportedKept, OrderKept DEF forced
<1>. QED BY <1>2, <1>3, GrowStep DEF ScanInv

LEMMA ReaderInv ==
    ASSUME ScanInv, Reader
    PROVE  ScanInv'
<1>1. UNCHANGED <<spool, event, due, watch, presence, todo, since, mapped, forced>>
  BY DEF Reader, seen, forced
<1>2. Ext \notin Slots /\ Ext \in AllSlots
  BY RfidAssumption DEF AllSlots
<1>3. cache' \in [AllSlots -> Records] /\ \A s \in Slots : cache'[s] = cache[s]
  BY <1>2 DEF Reader, Scan, ReadAgain, RequestRecord, ScanInv, Types, Records, AllSlots
<1>4. scanned' \in [AllSlots -> Tags \cup {Nothing}]
  BY <1>2 DEF Reader, Scan, ReadAgain, RequestRecord, Ready, ApplyRecord, ScanInv, Types
<1>. QED BY <1>1, <1>3, <1>4, OutsideStep DEF watch, ScanInv, Types

LEMMA CommandsInv ==
    ASSUME ScanInv, Commands
    PROVE  ScanInv'
<1>1. UNCHANGED <<hardware, presence, todo, since, scanned, forced>>
  BY DEF Commands, seen, forced
<1>2. ClearWatch(Slots) \/ UNCHANGED watch
  BY DEF Commands, SetInsertReading, MapTag, UnmapTag, SetSlot, ClearSlot
<1>3. /\ pending' \subseteq Slots /\ invalid' \subseteq invalid
      /\ snapshot' \in [Slots -> Records \cup {Nothing}]
      /\ \A s \in Slots : snapshot'[s] \in {snapshot[s], Nothing}
  BY <1>2 DEF ClearWatch, watch, ScanInv, Types
<1>4. mapped' \subseteq Tags
  BY DEF Commands, SetInsertReading, MapTag, UnmapTag, SetSlot, ClearSlot, ScanInv, Types
<1>. QED BY <1>1, <1>3, <1>4, OutsideStep DEF hardware, ScanInv, Types

LEMMA RestInv ==
    ASSUME ScanInv, Disconnect \/ (\E r \in requests : Answer(r)) \/ UNCHANGED vars
    PROVE  ScanInv'
BY OutsideStep DEF Disconnect, Answer, hardware, watch, seen, forced, vars,
                       ScanInv, Types

LEMMA StepInv ==
    ASSUME ScanInv, [Next]_vars
    PROVE  ScanInv'
<1>1. ASSUME NEW g \in Threads, Handling(g), UNCHANGED <<mapped, forced>>
      PROVE  ScanInv'
  BY <1>1, HandledInv, IgnoredInv, ApplyForcedInv, LoadDeferredInv, LoadClearInv
     DEF Handling
<1>2. CASE Hardware
  BY <1>2, HardwareInv DEF Hardware
<1>3. CASE Greenlets
  <2>0. UNCHANGED mapped
    BY <1>3 DEF Greenlets
  <2>1. CASE PollStarts /\ UNCHANGED forced
    BY <2>0, <2>1, PollStartsInv
  <2>2. CASE (\E s \in Slots : LoadStarts(s)) /\ UNCHANGED forced
    BY <2>0, <2>2, LoadStartsInv
  <2>3. ASSUME NEW g \in Threads, Query(g), UNCHANGED forced
        PROVE  ScanInv'
    BY <2>0, <2>3, QueryPresenceInv, SnapshotCacheInv, WatchPendingInv, QueryStateInv,
       ReadResultInv, StartInv, StartCachedInv, LoadAttendsInv, LoadSampleInv DEF Query
  <2>4. ASSUME NEW g \in Threads, Order(g)
        PROVE  ScanInv'
    BY <2>0, <2>4, ForceReadInv, ForcedRecordsInv, ForcedRemainingInv, MalformedInv
       DEF Order
  <2>. QED BY <1>3, <2>1, <2>2, <2>3, <2>4 DEF Greenlets
<1>. QED BY <1>1, <1>2, <1>3, CommandsInv, ReaderInv, RestInv DEF Next

-----------------------------------------------------------------------------
(* The tags that a step takes for a slot's own.                            *)

Mine(s) ==
    scanned'[s] \notin {scanned[s], Nothing}
        => \/ scanned'[s] \in since[s]
           \/ \E g \in Threads : /\ At(g, "apply") /\ s \in Its(g)
                                 /\ scanned'[s] \in ordered[g][s]

LEMMA ForgetMine ==
    ASSUME ScanInv, NEW x \in Slots, Forget(x)
    PROVE  \A s \in Slots : Mine(s)
BY DEF Forget, Mine, ScanInv, Types, AllSlots

\* The record that the poll takes is that of a spool seen since.
LEMMA ReadMine ==
    ASSUME ScanInv, NEW g \in Threads, ReadResult(g)
    PROVE  \A s \in Slots : Mine(s)
<1>1. todo[g] # <<>>
  BY DEF ReadResult, At
<1>2. Its(g) \in SUBSET Slots
  BY <1>1, TaskAtHand DEF ScanInv
<1>3. PICK x \in Its(g) :
          \/ UNCHANGED scanned
          \/ Removed(x)
          \/ ShouldApply(x) /\ ApplyRecord(x, cache[x])
  BY DEF ReadResult, slotTables
<1>4. CASE UNCHANGED scanned
  BY <1>4 DEF Mine
<1>5. CASE Removed(x)
  BY <1>2, <1>5, ForgetMine DEF Removed
<1>6. CASE ShouldApply(x) /\ ApplyRecord(x, cache[x])
  <2>1. cache[x] \in since[x]
    BY <1>2, <1>6 DEF ShouldApply, Ready, ScanInv, FreshRecord
  <2>2. \A s \in Slots : scanned'[s] = IF s = x THEN cache[x] ELSE scanned[s]
    BY <1>6 DEF ApplyRecord, ScanInv, Types, AllSlots
  <2>. QED BY <2>1, <2>2 DEF Mine
<1>. QED BY <1>3, <1>4, <1>5, <1>6

\* That of a forced read was there since the order.
LEMMA ForcedMine ==
    ASSUME ScanInv, NEW g \in Threads, ApplyForced(g)
    PROVE  \A s \in Slots : Mine(s)
<1>1. At(g, "apply") /\ todo[g] # <<>>
  BY DEF ApplyForced, At
<1>2. PICK x \in Its(g) : ApplyRecord(x, after[g][x])
  BY DEF ApplyForced
<1>3. x \in Slots
  BY <1>1, TaskAtHand DEF ScanInv
<1>4. \A s \in Slots : scanned'[s] = IF s = x THEN after[g][x] ELSE scanned[s]
  BY <1>2 DEF ApplyRecord, ScanInv, Types, AllSlots
<1>5. after[g][x] = Nothing \/ after[g][x] \in ordered[g][x]
  BY <1>3 DEF ScanInv, Types, OrderInv, Reported
<1>. QED BY <1>1, <1>2, <1>4, <1>5 DEF Mine

LEMMA StepMine ==
    ASSUME ScanInv, [Next]_vars
    PROVE  \A s \in Slots : Mine(s)
<1>1. ASSUME UNCHANGED scanned
      PROVE  \A s \in Slots : Mine(s)
  BY <1>1 DEF Mine
<1>2. ASSUME NEW g \in Threads, Handling(g)
      PROVE  \A s \in Slots : Mine(s)
  <2>1. CASE HandleInserted(g) \/ HandleRemoved(g)
    <3>1. todo[g] # <<>>
      BY <2>1 DEF HandleInserted, HandleRemoved, At
    <3>2. Its(g) \in SUBSET Slots
      BY <3>1, TaskAtHand DEF ScanInv
    <3>3. \E x \in Its(g) : Forget(x)
      BY <2>1 DEF HandleInserted, HandleRemoved, Inserted, Removed
    <3>. QED BY <3>2, <3>3, ForgetMine
  <2>2. CASE ApplyForced(g)
    BY <2>2, ForcedMine
  <2>3. CASE IgnoreResult(g) \/ WatchNothing(g) \/ LoadDeferred(g) \/ LoadClear(g)
    BY <1>1, <2>3 DEF IgnoreResult, WatchNothing, LoadDeferred, LoadClear, slotTables
  <2>. QED BY <1>2, <2>1, <2>2, <2>3 DEF Handling
<1>3. ASSUME NEW g \in Threads, Query(g)
      PROVE  \A s \in Slots : Mine(s)
  <2>1. CASE ReadResult(g)
    BY <2>1, ReadMine
  <2>2. CASE \/ QueryPresence(g) \/ SnapshotCache(g) \/ WatchPending(g)
             \/ QueryState(g)    \/ Start(g)         \/ StartCached(g)
             \/ LoadAttends(g)   \/ LoadSample(g)
    BY <1>1, <2>2 DEF QueryPresence, SnapshotCache, WatchPending, QueryState,
       Start, StartCached, LoadAttends, LoadSample, slotTables
  <2>. QED BY <1>3, <2>1, <2>2 DEF Query
<1>4. CASE Greenlets
  <2>1. CASE PollStarts \/ (\E s \in Slots : LoadStarts(s)) \/ (\E g \in Threads : Order(g))
    BY <1>1, <2>1 DEF PollStarts, LoadStarts, Order, ForceRead, ForcedRecords,
       ForcedRemaining, Malformed, slotTables
  <2>. QED BY <1>3, <1>4, <2>1 DEF Greenlets
<1>5. CASE Reader
  <2>1. Ext \notin Slots
    BY RfidAssumption
  <2>2. \A s \in Slots : scanned'[s] = scanned[s]
    BY <1>5, <2>1 DEF Reader, Scan, ReadAgain, RequestRecord, ApplyRecord, ScanInv,
       Types, AllSlots
  <2>. QED BY <2>2 DEF Mine
<1>6. CASE Hardware \/ Commands \/ Disconnect \/ (\E r \in requests : Answer(r))
           \/ UNCHANGED vars
  BY <1>1, <1>6 DEF Hardware, SpoolIn, SpoolOut, ReadTag, Commands, Disconnect, Answer,
     vars
<1>. QED BY <1>2, <1>4, <1>5, <1>6 DEF Next

(***************************************************************************)
(* ScanIsOfSpool, for any slots, tags, drain and inputs: a tag is taken    *)
(* for a slot's own only when the spool that carries it was in the slot    *)
(* since Klipper last handled an insertion or a removal there, or, where a *)
(* greenlet applies the record of a read that it ordered, since that       *)
(* order, whatever the two greenlets, the box and the user do between two  *)
(* queries.                                                                *)
(***************************************************************************)
THEOREM ScansOwnSpool == Spec => ScanIsOfSpool
<1>. DEFINE Right == \A s \in Slots : Mine(s)
<1>1. Init => ScanInv
  BY InitInv
<1>2. ScanInv /\ [Next]_vars => ScanInv' /\ [Right]_vars
  BY StepInv, StepMine
<1>3. Spec => [][Right]_vars
  BY <1>1, <1>2, PTL DEF Spec
<1>. QED BY <1>3 DEF ScanIsOfSpool, Mine

-----------------------------------------------------------------------------
(* The answers of Spoolman.                                                *)

\* What an answer needs to be the current one: no request is ahead of its slot's
\* token, and the tag of one that is abreast is the last one scanned.  After a
\* disconnect nobody asks any more.
Asked ==
    /\ token \in [AllSlots -> Nat]
    /\ requests \subseteq [slot : AllSlots, tag : Tags, token : Nat, gen : {0}]
    /\ profile \in [AllSlots -> Profiles]
    /\ generation # 0 => attempts = 0 /\ \A g \in Threads : todo[g] = <<>>
    /\ generation = 0 => \A r \in requests :
           /\ r.token <= token[r.slot]
           /\ r.token = token[r.slot] => r.tag = scanned[r.slot]

\* A step that may scan tags: a slot whose scanned tag changes gets a new token,
\* if a request of it is out, and a new request has both.
Asks ==
    /\ token' \in [AllSlots -> Nat]
    /\ \A s \in AllSlots : /\ token[s] <= token'[s]
                           /\ token[s] = token'[s] /\ (\E r \in requests : r.slot = s)
                                  => scanned'[s] = scanned[s]
    /\ \A r \in requests' \ requests :
           /\ r \in [slot : AllSlots, tag : Tags, token : Nat, gen : {0}]
           /\ r.token = token'[r.slot] /\ r.tag = scanned'[r.slot]

\* A step that fills no profile from Spoolman.
FillsNone ==
    /\ profile' \in [AllSlots -> Profiles]
    /\ \A s \in AllSlots : profile'[s] = profile[s] \/ profile'[s].by # "spoolman"

LEMMA AskedInit == Init => Asked
BY DEF Init, Asked, Profiles

LEMMA AsksKeeps ==
    ASSUME Asked, generation = 0, generation' = 0, Asks, FillsNone
    PROVE  Asked'
<1>1. requests' \subseteq [slot : AllSlots, tag : Tags, token : Nat, gen : {0}]
  BY DEF Asked, Asks
<1>2. ASSUME NEW r \in requests'
      PROVE  /\ r.token <= token'[r.slot]
             /\ r.token = token'[r.slot] => r.tag = scanned'[r.slot]
  <2>1. r.slot \in AllSlots /\ r.token \in Nat
    BY <1>1
  <2>2. CASE r \in requests
    <3>1. /\ r.token <= token[r.slot]
          /\ r.token = token[r.slot] => r.tag = scanned[r.slot]
      BY <2>2 DEF Asked
    <3>2. /\ token[r.slot] <= token'[r.slot]
          /\ token[r.slot] = token'[r.slot] => scanned'[r.slot] = scanned[r.slot]
      BY <2>1, <2>2 DEF Asks
    <3>3. token[r.slot] \in Nat /\ token'[r.slot] \in Nat
      BY <2>1 DEF Asked, Asks
    <3>. QED BY <2>1, <3>1, <3>2, <3>3
  <2>3. CASE r \notin requests
    <3>1. r.token = token'[r.slot] /\ r.tag = scanned'[r.slot]
      BY <2>3 DEF Asks
    <3>. QED BY <2>1, <3>1
  <2>. QED BY <2>2, <2>3
<1>. QED BY <1>1, <1>2 DEF Asked, Asks, FillsNone

LEMMA NobodyAsks ==
    ASSUME Asked, UNCHANGED <<token, requests, scanned>>
    PROVE  Asks
BY DEF Asked, Asks

LEMMA TokenNew ==
    ASSUME Asked, NEW s \in AllSlots
    PROVE  /\ token[s] \in Nat /\ NextToken(s) \in Nat /\ token[s] <= NextToken(s)
           /\ (\E r \in requests : r.slot = s) => NextToken(s) # token[s]
BY DEF Asked, NextToken

LEMMA ForgetAsks ==
    ASSUME Types, Asked, NEW x \in AllSlots, Forget(x), UNCHANGED requests
    PROVE  Asks
<1>1. /\ token' = [token EXCEPT ![x] = NextToken(x)]
      /\ scanned' = [scanned EXCEPT ![x] = Nothing]
  BY DEF Forget
<1>. QED BY <1>1, TokenNew DEF Types, Asked, Asks

LEMMA ApplyAsks ==
    ASSUME Types, Asked, generation = 0, NEW x \in AllSlots,
           NEW t \in Tags \cup {Nothing}, ApplyRecord(x, t)
    PROVE  Asks /\ FillsNone
<1>1. /\ token' = [token EXCEPT ![x] = NextToken(x)]
      /\ scanned' = [scanned EXCEPT ![x] = t]
  BY DEF ApplyRecord
<1>2. /\ token' \in [AllSlots -> Nat]
      /\ \A s \in AllSlots : token'[s] = IF s = x THEN NextToken(x) ELSE token[s]
      /\ \A s \in AllSlots : scanned'[s] = IF s = x THEN t ELSE scanned[s]
  BY <1>1, TokenNew DEF Asked, Types
<1>3. \A s \in AllSlots : /\ token[s] <= token'[s]
                          /\ token[s] = token'[s] /\ (\E r \in requests : r.slot = s)
                                 => scanned'[s] = scanned[s]
  BY <1>2, TokenNew
<1>4. CASE t \in SpoolmanTags
  <2>1. /\ requests' = requests \cup {[slot |-> x, tag |-> t, gen |-> generation,
                                       token |-> NextToken(x)]}
        /\ UNCHANGED profile
    BY <1>4 DEF ApplyRecord, profiles
  <2>2. t \in Tags /\ NextToken(x) \in Nat
    BY <1>4, RfidAssumption, TokenNew
  <2>. DEFINE new == [slot |-> x, tag |-> t, gen |-> generation, token |-> NextToken(x)]
  <2>3. /\ new \in [slot : AllSlots, tag : Tags, token : Nat, gen : {0}]
        /\ new.token = token'[new.slot] /\ new.tag = scanned'[new.slot]
    BY <1>2, <2>2
  <2>4. requests' \ requests \subseteq {new}
    BY <2>1
  <2>. HIDE DEF new
  <2>5. \A r \in requests' \ requests :
           /\ r \in [slot : AllSlots, tag : Tags, token : Nat, gen : {0}]
           /\ r.token = token'[r.slot] /\ r.tag = scanned'[r.slot]
    BY <2>3, <2>4
  <2>. QED BY <1>2, <1>3, <2>1, <2>5 DEF Asks, FillsNone, Asked
<1>5. CASE t \notin SpoolmanTags
  <2>1. ApplyTag(x, t) /\ UNCHANGED requests
    BY <1>5 DEF ApplyRecord
  <2>2. Resolved(t) => t \in Tags
    BY RfidAssumption, NamesAssumption DEF Resolved, Types
  <2>3. t \in Tags => [tag |-> t, by |-> "rfid"] \in Profiles
    BY DEF Profiles
  <2>4. FillsNone
    BY <2>1, <2>2, <2>3 DEF ApplyTag, FillsNone, Asked
  <2>. QED BY <1>2, <1>3, <2>1, <2>4 DEF Asks
<1>. QED BY <1>4, <1>5

\* After a disconnect only the answers that are out still come.
LEMMA SilentAfterwards ==
    ASSUME Asked, generation # 0, Next
    PROVE  \E r \in requests : Answer(r)
<1>1. attempts = 0 /\ \A g \in Threads : todo[g] = <<>>
  BY DEF Asked
<1>2. ASSUME NEW g \in Threads
      PROVE  ~Handling(g) /\ ~Query(g) /\ ~Order(g)
  <2>1. \A o : ~At(g, o)
    BY <1>1 DEF At
  <2>2. ~Handling(g)
    BY <2>1 DEF Handling, HandleInserted, HandleRemoved, IgnoreResult, WatchNothing,
       ApplyForced, LoadDeferred, LoadClear
  <2>3. ~Query(g)
    BY <2>1 DEF Query, QueryPresence, SnapshotCache, WatchPending, QueryState,
       ReadResult, Start, StartCached, LoadAttends, LoadSample
  <2>4. ~Order(g)
    BY <2>1 DEF Order, ForceRead, ForcedRecords, ForcedRemaining, Malformed
  <2>. QED BY <2>2, <2>3, <2>4
<1>3. ~Greenlets
  BY <1>2 DEF Greenlets, PollStarts, LoadStarts
<1>4. ~Reader
  BY <1>1 DEF Reader, Scan, ReadAgain, RequestRecord
<1>. QED BY <1>2, <1>3, <1>4 DEF Next, Hardware, Commands, Disconnect

\* What the greenlets do with a reply.
LEMMA HandlingAsks ==
    ASSUME ScanInv, Asked, generation = 0, NEW g \in Threads, Handling(g)
    PROVE  Asks /\ FillsNone
<1>1. Types /\ todo[g] # <<>>
  BY DEF ScanInv, Handling, HandleInserted, HandleRemoved, IgnoreResult, WatchNothing,
     ApplyForced, LoadDeferred, LoadClear, At
<1>2. Its(g) \in SUBSET Slots /\ Slots \subseteq AllSlots
  BY <1>1, TaskAtHand DEF AllSlots
<1>3. CASE HandleInserted(g) \/ HandleRemoved(g)
  <2>1. UNCHANGED profile
    BY <1>3 DEF HandleInserted, HandleRemoved, Inserted, Removed, profiles
  <2>2. PICK s \in Its(g) : Forget(s) /\ UNCHANGED requests
    BY <1>3 DEF HandleInserted, HandleRemoved, Inserted, Removed
  <2>3. s \in AllSlots
    BY <1>2
  <2>. QED BY <1>1, <2>1, <2>2, <2>3, ForgetAsks DEF FillsNone, Asked
<1>4. CASE ApplyForced(g)
  <2>1. PICK s \in Its(g) : ApplyRecord(s, after[g][s])
    BY <1>4 DEF ApplyForced
  <2>2. s \in AllSlots /\ after[g][s] \in Tags \cup {Nothing}
    BY <1>1, <1>2 DEF Types
  <2>. QED BY <1>1, <2>1, <2>2, ApplyAsks
<1>5. CASE IgnoreResult(g) \/ WatchNothing(g) \/ LoadDeferred(g) \/ LoadClear(g)
  BY <1>5, NobodyAsks DEF IgnoreResult, WatchNothing, LoadDeferred, LoadClear, slotTables,
     spoolman, profiles, FillsNone, Asked
<1>. QED BY <1>3, <1>4, <1>5 DEF Handling

LEMMA OrderAsks ==
    ASSUME ScanInv, Asked, NEW g \in Threads, Order(g)
    PROVE  Asks /\ FillsNone
<1>1. UNCHANGED <<token, requests, scanned, profile>>
  BY DEF Order, ForceRead, ForcedRecords, ForcedRemaining, Malformed, slotTables,
     spoolman, profiles
<1>. QED BY <1>1, NobodyAsks DEF FillsNone, Asked

LEMMA QueryAsks ==
    ASSUME ScanInv, Asked, generation = 0, NEW g \in Threads, Query(g)
    PROVE  Asks /\ FillsNone
<1>1. Types
  BY DEF ScanInv
<1>2. CASE UNCHANGED <<spoolman, profiles, scanned>>
  <2>1. UNCHANGED <<token, requests, scanned, profile>>
    BY <1>2 DEF spoolman, profiles
  <2>. QED BY <2>1, NobodyAsks DEF FillsNone, Asked
<1>3. CASE ReadResult(g)
  <2>1. todo[g] # <<>>
    BY <1>3 DEF ReadResult, At
  <2>2. Its(g) \in SUBSET AllSlots
    BY <2>1, TaskAtHand DEF ScanInv, AllSlots
  <2>3. PICK s \in Its(g) :
           \/ UNCHANGED <<spoolman, profiles, scanned>>
           \/ Removed(s)
           \/ ShouldApply(s) /\ ApplyRecord(s, cache[s])
    BY <1>3 DEF ReadResult, slotTables
  <2>4. s \in AllSlots
    BY <2>2
  <2>5. CASE Removed(s)
    BY <1>1, <2>4, <2>5, ForgetAsks DEF Removed, profiles, FillsNone, Asked
  <2>6. CASE ShouldApply(s) /\ ApplyRecord(s, cache[s])
    <3>1. cache[s] \in Tags
      BY <2>6 DEF ShouldApply, Ready
    <3>. QED BY <1>1, <2>4, <2>6, <3>1, ApplyAsks
  <2>. QED BY <1>2, <2>3, <2>5, <2>6
<1>4. CASE \/ QueryPresence(g) \/ SnapshotCache(g) \/ WatchPending(g)
           \/ QueryState(g)    \/ Start(g)         \/ StartCached(g)
           \/ LoadAttends(g)   \/ LoadSample(g)
  <2>1. UNCHANGED <<spoolman, profiles, scanned>>
    BY <1>4 DEF QueryPresence, SnapshotCache, WatchPending, QueryState,
       Start, StartCached, LoadAttends, LoadSample, slotTables
  <2>. QED BY <1>2, <2>1
<1>. QED BY <1>3, <1>4 DEF Query

LEMMA CommandsAsk ==
    ASSUME Types, Asked, Commands
    PROVE  Asks /\ FillsNone
<1>1. UNCHANGED <<requests, scanned>>
  BY DEF Commands
<1>2. Asks
  <2>1. CASE UNCHANGED token
    BY <1>1, <2>1, NobodyAsks
  <2>2. ASSUME NEW t \in Tags, MapTag(t)
        PROVE  Asks
    <3>. DEFINE named == {s \in AllSlots : unknown[s] = t}
    <3>1. token' = [s \in AllSlots |-> IF s \in named THEN NextToken(s) ELSE token[s]]
      BY <2>2 DEF MapTag
    <3>. HIDE DEF named
    <3>. QED BY <1>1, <3>1, TokenNew DEF Asks, Asked
  <2>. QED BY <2>1, <2>2 DEF Commands, SetInsertReading, UnmapTag, SetSlot, ClearSlot
<1>3. FillsNone
  <2>1. CASE UNCHANGED profile
    BY <2>1 DEF FillsNone, Asked
  <2>2. ASSUME NEW t \in Tags, MapTag(t)
        PROVE  FillsNone
    BY <2>2 DEF MapTag, FillsNone, Asked, Profiles
  <2>3. ASSUME NEW s \in AllSlots, SetSlot(s) \/ ClearSlot(s)
        PROVE  FillsNone
    BY <2>3 DEF SetSlot, ClearSlot, NoProfile, FillsNone, Asked, Profiles
  <2>. QED BY <2>1, <2>2, <2>3 DEF Commands, SetInsertReading, UnmapTag, profiles
<1>. QED BY <1>2, <1>3

LEMMA ReaderAsks ==
    ASSUME Types, Asked, generation = 0, Reader
    PROVE  Asks /\ FillsNone
<1>1. CASE UNCHANGED <<requests, profiles, token, scanned>>
  BY <1>1, NobodyAsks DEF profiles, FillsNone, Asked
<1>2. CASE Ready(cache[Ext]) /\ ApplyRecord(Ext, cache[Ext])
  <2>1. Ext \in AllSlots /\ cache[Ext] \in Tags
    BY <1>2 DEF Ready, AllSlots
  <2>. QED BY <1>2, <2>1, ApplyAsks
<1>. QED BY <1>1, <1>2 DEF Reader, Scan, ReadAgain, RequestRecord

LEMMA AnswerIsCurrent ==
    ASSUME Types, Asked, NEW r \in requests, Answer(r)
    PROVE  /\ Asked'
           /\ \A s \in AllSlots :
                  profile'[s].by = "spoolman" /\ profile'[s] # profile[s]
                      => profile'[s].tag = scanned[s]
<1>1. /\ r.slot \in AllSlots /\ r.tag \in Tags /\ r.gen = 0
      /\ requests' = requests \ {r}
      /\ UNCHANGED <<token, scanned, generation, attempts, todo>>
  BY DEF Asked, Answer
<1>2. CASE ~Current(r)
  BY <1>1, <1>2 DEF Answer, profiles, Asked
<1>3. CASE Current(r)
  <2>1. r.tag = scanned[r.slot]
    BY <1>1, <1>3 DEF Current, Asked
  <2>2. \/ UNCHANGED profile
        \/ \E b \in {"rfid", "spoolman"} :
               profile' = [profile EXCEPT ![r.slot] = [tag |-> r.tag, by |-> b]]
    BY <1>3 DEF Answer, ApplyTag
  <2>3. \A b \in {"rfid", "spoolman"} : [tag |-> r.tag, by |-> b] \in Profiles
    BY <1>1 DEF Profiles
  <2>4. profile' \in [AllSlots -> Profiles]
    BY <2>2, <2>3 DEF Asked
  <2>5. \A s \in AllSlots : profile'[s] # profile[s] => s = r.slot /\ profile'[s].tag = r.tag
    BY <1>1, <2>2 DEF Asked
  <2>. QED BY <1>1, <2>1, <2>4, <2>5 DEF Asked
<1>. QED BY <1>2, <1>3

LEMMA AskedStep ==
    ASSUME ScanInv, Asked, [Next]_vars
    PROVE  /\ Asked'
           /\ \A s \in AllSlots :
                  profile'[s].by = "spoolman" /\ profile'[s] # profile[s]
                      => profile'[s].tag = scanned[s]
<1>1. Types
  BY DEF ScanInv
<1>2. CASE \E r \in requests : Answer(r)
  BY <1>1, <1>2, AnswerIsCurrent
<1>3. CASE UNCHANGED vars
  BY <1>3 DEF vars, spoolman, profiles, Asked
<1>4. CASE Disconnect
  BY <1>4 DEF Disconnect, profiles, Asked
<1>5. CASE /\ generation = 0 /\ UNCHANGED generation
           /\ Asks /\ FillsNone
  BY <1>5, AsksKeeps DEF FillsNone
<1>6. CASE generation = 0 /\ ~Disconnect /\ (~\E r \in requests : Answer(r)) /\ Next
  <2>1. UNCHANGED generation
    BY <1>6 DEF Next, Hardware, SpoolIn, SpoolOut, ReadTag, Greenlets, Commands, Reader
  <2>2. CASE Hardware
    <3>1. UNCHANGED <<token, requests, scanned, profile>>
      BY <2>2 DEF Hardware, SpoolIn, SpoolOut, ReadTag, spoolman, profiles
    <3>. QED BY <1>5, <1>6, <2>1, <3>1, NobodyAsks DEF FillsNone, Asked
  <2>3. CASE Greenlets
    <3>1. CASE PollStarts \/ \E s \in Slots : LoadStarts(s)
      <4>1. UNCHANGED <<token, requests, scanned, profile>>
        BY <3>1 DEF PollStarts, LoadStarts, slotTables, spoolman, profiles
      <4>. QED BY <1>5, <1>6, <2>1, <4>1, NobodyAsks DEF FillsNone, Asked
    <3>2. ASSUME NEW g \in Threads, Query(g)
          PROVE  Asks /\ FillsNone
      BY <1>6, <3>2, QueryAsks
    <3>3. ASSUME NEW g \in Threads, Order(g)
          PROVE  Asks /\ FillsNone
      BY <3>3, OrderAsks
    <3>. QED BY <1>5, <1>6, <2>1, <2>3, <3>1, <3>2, <3>3 DEF Greenlets
  <2>4. CASE Commands
    BY <1>1, <1>5, <1>6, <2>1, <2>4, CommandsAsk
  <2>5. CASE Reader
    BY <1>1, <1>5, <1>6, <2>1, <2>5, ReaderAsks
  <2>6. ASSUME NEW g \in Threads, Handling(g)
        PROVE  Asks /\ FillsNone
    BY <1>6, <2>6, HandlingAsks
  <2>. QED BY <1>5, <1>6, <2>1, <2>2, <2>3, <2>4, <2>5, <2>6 DEF Next
<1>. QED BY <1>2, <1>3, <1>4, <1>6, SilentAfterwards

(***************************************************************************)
(* SpoolmanCurrent, for any slots, tags and number of requests: whenever   *)
(* an answer of Spoolman comes, it fills a slot's profile only if its tag  *)
(* is still the last one scanned there.                                    *)
(***************************************************************************)
THEOREM AnswersCurrent == Spec => SpoolmanCurrent
<1>. DEFINE Right == \A s \in AllSlots :
                         profile'[s].by = "spoolman" /\ profile'[s] # profile[s]
                             => profile'[s].tag = scanned[s]
<1>1. Init => ScanInv /\ Asked
  BY InitInv, AskedInit
<1>2. ScanInv /\ Asked /\ [Next]_vars => (ScanInv /\ Asked)' /\ [Right]_vars
  BY StepInv, AskedStep
<1>. QED BY <1>1, <1>2, PTL DEF Spec, SpoolmanCurrent

===============================================================================
