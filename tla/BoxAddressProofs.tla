-------------------------- MODULE BoxAddressProofs --------------------------
(***************************************************************************)
(* Proofs about BoxAddress, for any boxes, addresses, enumerations, losses *)
(* and saved tables.                                                       *)
(***************************************************************************)
EXTENDS BoxAddress, TLAPS, FiniteSetTheorems, WellFoundedInduction

-----------------------------------------------------------------------------
(* The operators.                                                          *)

\* A set of numbers that is not empty has a least one.
LEMMA MinAmong == ASSUME NEW S \in SUBSET Nat, S # {} PROVE Min(S) \in S
<1> DEFINE R == OpToRel(<,Nat)
<1>1. PICK x \in S : \A y \in S : ~(<<y, x>> \in R)
  BY WFMin, NatLessThanWellFounded, Zenon
<1>2. \A a, b \in Nat : b < a => <<b, a>> \in R
  BY DEF OpToRel
<1> HIDE DEF R
<1>3. ASSUME NEW y \in S PROVE x =< y
  <2>1. x \in Nat /\ y \in Nat /\ ~(y < x)
    BY <1>1, <1>2
  <2>. QED BY <2>1
<1>. QED BY <1>1, <1>3 DEF Min

\* A discovered box is given an address at which no box is online.
LEMMA TargetFree ==
    ASSUME NEW p, NEW b, Target(p, b) # {}
    PROVE  (CHOOSE a \in Target(p, b) : TRUE) \in Addresses \ Occupied(online[p])
<1>0. Addresses \subseteq Nat
  BY ConstantsAssumption DEF Addresses
<1>1. Preferred(p, b) \in SUBSET Nat /\ FirstFree(p) \in SUBSET Nat
  BY <1>0 DEF Preferred, FirstFree
<1>2. Target(p, b) \subseteq Addresses \ Occupied(online[p])
  BY <1>1, MinAmong DEF Target, Preferred, FirstFree
<1>. QED BY <1>2

\* An address that does not answer has no box, or two.
LEMMA SilentOrTwo ==
    ASSUME NEW S, Cardinality(S) # 1
    PROVE  S = {} \/ \E x, y \in S : x # y
<1> SUFFICES ASSUME NEW x \in S, \A y \in S : y = x PROVE FALSE
  OBVIOUS
<1>1. S = {x}
  OBVIOUS
<1>. QED BY <1>1, FS_Singleton

\* Remembering a box takes it away from every other address.
LEMMA RememberOnce ==
    ASSUME NEW table \in Tables, OneAddress(table), NEW a \in Addresses,
           NEW b \in Boxes \cup {None}
    PROVE  Remember(table, a, b) \in Tables /\ OneAddress(Remember(table, a, b))
BY DEF Remember, OneAddress, Occupied, Tables

-----------------------------------------------------------------------------
(* The types of the state.                                                 *)

\* An enumeration has a box in hand while it starts or addresses one.
Working == {"startApp", "verifyApp", "assignLoader", "startLoader", "assign",
            "fallback", "verify"}

Types == TypeOK /\ \A p \in Enumerators : pc[p] \in Working => uid[p] \in Boxes

LEMMA InitTypes == Init => Types
<1> SUFFICES ASSUME Init PROVE Types
  OBVIOUS
<1>1. PICK x \in Bounds : /\ losses = x.losses /\ cycles = x.cycles /\ runs = x.runs
                          /\ store \in x.saved
  BY DEF Init
<1>2. losses \in Nat /\ cycles \in Nat /\ runs \in Nat /\ store \in Tables
  BY <1>1, ConstantsAssumption
<1>3. NoTable \in Tables /\ 1 \in Addresses
  BY ConstantsAssumption DEF NoTable, Tables, Addresses
<1>4. TypeOK
  BY <1>2, <1>3 DEF Init, TypeOK, Places
<1>. QED BY <1>4 DEF Init, Types, Working

\* What an exchange with the bus leaves behind.
LEMMA ExchangeTypes ==
    ASSUME losses \in Nat, unheard \subseteq Addresses, NEW a \in Addresses,
           \/ LoseAt(a) \/ UNCHANGED lossVars
           \/ losses > 0 /\ losses' = losses - 1 /\ UNCHANGED unheard
    PROVE  losses' \in Nat /\ unheard' \subseteq Addresses
BY DEF LoseAt, lossVars

LEMMA NextAddressTypes ==
    ASSUME Types, NEW p \in Enumerators, NEW table, NextAddress(p, table)
    PROVE  /\ at' \in [Enumerators -> Addresses] /\ pc' \in [Enumerators -> Places]
           /\ \A q \in Enumerators : q # p => pc'[q] = pc[q]
           /\ pc'[p] \notin Working
BY ConstantsAssumption DEF Types, TypeOK, NextAddress, AfterOnline, Addresses, Places, Working

LEMMA SetOnlineTypes ==
    ASSUME Types, NEW p \in Enumerators, NEW a \in Addresses, NEW b \in Boxes \cup {None},
           SetOnline(p, a, b)
    PROVE  known' \in [Enumerators -> Tables] /\ online' \in [Enumerators -> Tables]
<1>1. Remember(known[p], a, b) \in Tables /\ [online[p] EXCEPT ![a] = b] \in Tables
  BY DEF Types, TypeOK, Remember, Tables
<1>. QED BY <1>1 DEF SetOnline, Types, TypeOK

LEMMA ExchangesTypes ==
    ASSUME Types, NEW a \in Addresses,
           \/ \E b : Query(a, b) \/ Discover(b)
           \/ \E b, answered : Assign(b, a, answered)
           \/ StartApps(a)
    PROVE  losses' \in Nat /\ unheard' \subseteq Addresses
BY ExchangeTypes DEF Types, TypeOK, Query, Discover, Assign, StartApps

LEMMA AssignTypes ==
    ASSUME Types, NEW b \in Boxes, NEW a \in Addresses, NEW answered, Assign(b, a, answered)
    PROVE  addr' \in [Boxes -> 0..MaxAddress]
BY ConstantsAssumption DEF Types, TypeOK, Assign, Addresses

LEMMA StartTypes ==
    ASSUME Types, NEW a \in Addresses, StartApps(a)
    PROVE  addr' \in [Boxes -> 0..MaxAddress] /\ loader' \subseteq loader
BY ConstantsAssumption DEF Types, TypeOK, StartApps

LEMMA QueryingTypes ==
    ASSUME Types, NEW p \in Enumerators,
           QueryNone(p) \/ QueryApp(p) \/ QueryLoader(p) \/ StartApp(p) \/ VerifyApp(p)
    PROVE  Types'
<1>0. at[p] \in Addresses
  BY DEF Types, TypeOK
<1>1. losses' \in Nat /\ unheard' \subseteq Addresses
  BY <1>0, ExchangesTypes DEF QueryNone, QueryApp, QueryLoader, StartApp, VerifyApp
<1>2. CASE QueryNone(p)
  <2>1. NextAddress(p, online[p])
    BY <1>2 DEF QueryNone
  <2>2. UNCHANGED <<boxVars, hostVars, uid, known, online, seen, boundVars>>
    BY <1>2 DEF QueryNone
  <2>. QED BY <1>1, <2>1, <2>2, NextAddressTypes
           DEF Types, TypeOK, boxVars, hostVars, boundVars
<1>3. CASE QueryApp(p)
  <2>1. NextAddress(p, online'[p]) /\ UNCHANGED <<boxVars, hostVars, uid, seen, boundVars>>
    BY <1>3 DEF QueryApp
  <2>2. known' \in [Enumerators -> Tables] /\ online' \in [Enumerators -> Tables]
    BY <1>0, <1>3, SetOnlineTypes DEF QueryApp
  <2>. QED BY <1>1, <2>1, <2>2, NextAddressTypes
           DEF Types, TypeOK, boxVars, hostVars, boundVars
<1>4. CASE QueryLoader(p)
  <2>1. PICK b \in loader : /\ uid' = [uid EXCEPT ![p] = b]
                            /\ known' = [known EXCEPT ![p] = Remember(@, at[p], b)]
    BY <1>4 DEF QueryLoader
  <2>2. Remember(known[p], at[p], b) \in Tables /\ b \in Boxes
    BY <1>0 DEF Types, TypeOK, Remember, Tables
  <2>3. /\ UNCHANGED <<boxVars, hostVars, at, online, seen, boundVars>>
        /\ pc' = [pc EXCEPT ![p] = "startApp"]
    BY <1>4 DEF QueryLoader
  <2>. QED BY <1>1, <2>1, <2>2, <2>3
           DEF Types, TypeOK, boxVars, hostVars, boundVars, Places
<1>5. CASE StartApp(p)
  <2>1. /\ pc[p] = "startApp" /\ pc' = [pc EXCEPT ![p] = "verifyApp"]
        /\ UNCHANGED <<power, hostVars, at, uid, known, online, seen, boundVars>>
    BY <1>5 DEF StartApp
  <2>2. addr' \in [Boxes -> 0..MaxAddress] /\ loader' \subseteq loader
    BY <1>0, <1>5, StartTypes DEF StartApp
  <2>. QED BY <1>1, <2>1, <2>2
           DEF Types, TypeOK, hostVars, boundVars, Places, Working
<1>6. CASE VerifyApp(p)
  <2>1. NextAddress(p, online'[p]) /\ UNCHANGED <<boxVars, hostVars, uid, seen, boundVars>>
    BY <1>6 DEF VerifyApp
  <2>2. known' \in [Enumerators -> Tables] /\ online' \in [Enumerators -> Tables]
    BY <1>0, <1>6, SetOnlineTypes DEF VerifyApp, Types, TypeOK
  <2>. QED BY <1>1, <2>1, <2>2, NextAddressTypes
           DEF Types, TypeOK, boxVars, hostVars, boundVars
<1>. QED BY <1>2, <1>3, <1>4, <1>5, <1>6

LEMMA DiscoveringTypes ==
    ASSUME Types, NEW p \in Enumerators,
           \/ DiscoverNone(p) \/ DiscoverBox(p) \/ AssignLoader(p) \/ StartLoader(p)
           \/ AssignAddress(p) \/ Fallback(p) \/ Verify(p)
    PROVE  Types'
<1>0. at[p] \in Addresses /\ uid[p] \in Boxes \cup {None}
      /\ (pc[p] \in Working => uid[p] \in Boxes)
  BY DEF Types, TypeOK
<1>1. losses' \in Nat /\ unheard' \subseteq Addresses
  BY <1>0, ExchangesTypes
  DEF DiscoverNone, DiscoverBox, AssignLoader, StartLoader, AssignAddress, Fallback, Verify
<1>2. CASE DiscoverNone(p)
  BY <1>1, <1>2 DEF DiscoverNone, Types, TypeOK, boxVars, hostVars, boundVars, Places, Working
<1>3. CASE DiscoverBox(p)
  <2>1. PICK b \in Boxes :
          \/ /\ pc' = [pc EXCEPT ![p] = "finish"] /\ UNCHANGED <<at, uid, seen>>
          \/ /\ Target(p, b) # {}
             /\ uid' = [uid EXCEPT ![p] = b] /\ seen' = [seen EXCEPT ![p] = @ \cup {b}]
             /\ at' = [at EXCEPT ![p] = CHOOSE a \in Target(p, b) : TRUE]
             /\ pc' = [pc EXCEPT ![p] = IF b \in loader THEN "assignLoader" ELSE "assign"]
    BY <1>3 DEF DiscoverBox
  <2>2. UNCHANGED <<boxVars, hostVars, known, online, boundVars>>
    BY <1>3 DEF DiscoverBox
  <2>3. at' \in [Enumerators -> Addresses]
    <3>1. \E a \in Addresses : at' \in {at, [at EXCEPT ![p] = a]}
      BY <1>0, <2>1, TargetFree
    <3>. QED BY <3>1 DEF Types, TypeOK
  <2>4. /\ uid' \in [Enumerators -> Boxes \cup {None}]
        /\ seen' \in [Enumerators -> SUBSET Boxes]
    BY <2>1 DEF Types, TypeOK
  <2>5. PICK x \in Places : pc' = [pc EXCEPT ![p] = x] /\ (x # "finish" => uid'[p] = b)
    BY <2>1 DEF Types, TypeOK, Places
  <2>6. pc' \in [Enumerators -> Places]
    BY <2>5 DEF Types, TypeOK
  <2>7. \A q \in Enumerators : q # p => uid'[q] = uid[q] /\ pc'[q] = pc[q]
    BY <2>1, <2>5 DEF Types, TypeOK
  <2>8. \A q \in Enumerators : pc'[q] \in Working => uid'[q] \in Boxes
    BY <2>5, <2>7 DEF Types, TypeOK, Working
  <2>. QED BY <1>1, <2>2, <2>3, <2>4, <2>6, <2>8 DEF Types, TypeOK, boxVars, hostVars, boundVars
<1>4. CASE AssignLoader(p) \/ AssignAddress(p)
  <2>1. addr' \in [Boxes -> 0..MaxAddress]
    BY <1>0, <1>4, AssignTypes DEF AssignLoader, AssignAddress, Working
  <2>2. /\ UNCHANGED <<power, loader, hostVars, at, uid, known, online, seen, boundVars>>
        /\ pc[p] \in Working
        /\ \E x \in {"startLoader", "verify", "fallback"} : pc' = [pc EXCEPT ![p] = x]
    BY <1>4 DEF AssignLoader, AssignAddress, Working
  <2>. QED BY <1>1, <2>1, <2>2 DEF Types, TypeOK, hostVars, boundVars, Places, Working
<1>5. CASE StartLoader(p)
  <2>1. /\ pc[p] = "startLoader" /\ pc' = [pc EXCEPT ![p] = "assign"]
        /\ UNCHANGED <<power, hostVars, at, uid, known, online, seen, boundVars>>
    BY <1>5 DEF StartLoader
  <2>2. addr' \in [Boxes -> 0..MaxAddress] /\ loader' \subseteq loader
    BY <1>0, <1>5, StartTypes DEF StartLoader
  <2>. QED BY <1>1, <2>1, <2>2
           DEF Types, TypeOK, hostVars, boundVars, Places, Working
<1>6. CASE Fallback(p)
  <2>1. /\ UNCHANGED <<boxVars, hostVars, at, uid, known, online, seen, boundVars>>
        /\ pc[p] = "fallback" /\ \E x \in {"verify", "finish"} : pc' = [pc EXCEPT ![p] = x]
    BY <1>6 DEF Fallback
  <2>. QED BY <1>1, <2>1 DEF Types, TypeOK, boxVars, hostVars, boundVars, Places, Working
<1>7. CASE Verify(p)
  <2>1. known' \in [Enumerators -> Tables] /\ online' \in [Enumerators -> Tables]
    BY <1>0, <1>7, SetOnlineTypes DEF Verify, Types, TypeOK
  <2>2. /\ UNCHANGED <<boxVars, hostVars, at, uid, seen, boundVars>>
        /\ \E x \in {"discover", "finish"} : pc' = [pc EXCEPT ![p] = x]
    BY <1>7 DEF Verify, AfterOnline
  <2>. QED BY <1>1, <2>1, <2>2
           DEF Types, TypeOK, boxVars, hostVars, boundVars, Places, Working
<1>. QED BY <1>2, <1>3, <1>4, <1>5, <1>6, <1>7

LEMMA NextTypes == Types /\ [Next]_vars => Types'
<1> SUFFICES ASSUME Types, [Next]_vars PROVE Types'
  OBVIOUS
<1>1. ASSUME NEW p \in Enumerators, SerialReady(p) \/ CmdEnumerate(p) PROVE Types'
  <2>1. NoTable \in Tables /\ 1 \in Addresses
    BY ConstantsAssumption DEF NoTable, Tables, Addresses
  <2>2. Begin(p)
    BY <1>1 DEF SerialReady, CmdEnumerate
  <2>3. /\ pc' \in [Enumerators -> Places] /\ at' \in [Enumerators -> Addresses]
        /\ uid' \in [Enumerators -> Boxes \cup {None}] /\ seen' \in [Enumerators -> SUBSET Boxes]
        /\ known' \in [Enumerators -> Tables] /\ online' \in [Enumerators -> Tables]
        /\ cycled' \in [Enumerators -> SUBSET Boxes]
    BY <2>1, <2>2 DEF Begin, Types, TypeOK, Places
  <2>4. /\ UNCHANGED <<boxVars, store, snapshot, drivers, cycles, lossVars>>
        /\ runs' \in Nat /\ started' \in BOOLEAN /\ overlap' \in BOOLEAN
    BY <2>2 DEF Begin, Types, TypeOK
  <2>5. \A q \in Enumerators : pc'[q] \in Working => uid'[q] \in Boxes
    BY <2>2 DEF Begin, Types, TypeOK, Working
  <2>. QED BY <2>3, <2>4, <2>5 DEF Types, TypeOK, boxVars, lossVars
<1>2. ASSUME NEW p \in Enumerators, Finish(p) PROVE Types'
  BY <1>2 DEF Finish, Types, TypeOK, boxVars, boundVars, lossVars, Places, Working
<1>3. ASSUME NEW b \in Boxes, PowerOff(b) \/ PowerOn(b) PROVE Types'
  BY <1>3, ConstantsAssumption
     DEF PowerOff, PowerOn, Types, TypeOK, hostVars, localVars, boundVars, lossVars
<1>4. CASE UNCHANGED vars
  BY <1>4 DEF vars, Types, TypeOK, boxVars, hostVars, localVars, boundVars, lossVars
<1>. QED BY <1>1, <1>2, <1>3, <1>4, QueryingTypes, DiscoveringTypes DEF Next, Enumerate

\* Every variable keeps its type: an enumeration stays inside the address range
\* and writes none but whole tables, and a box keeps a valid address, whatever
\* was lost and however two enumerations interleave.
THEOREM TypeCorrect == Spec => []TypeOK
<1>1. Spec => []Types
  BY InitTypes, NextTypes, PTL DEF Spec
<1>2. Types => TypeOK
  BY DEF Types
<1>. QED BY <1>1, <1>2, PTL

-----------------------------------------------------------------------------
(* No box is saved under two addresses.                                    *)

Once == /\ OneAddress(store) /\ OneAddress(snapshot)
        /\ \A p \in Enumerators : OneAddress(known[p])

\* What a step of an enumeration does to its table.
LEMMA KnownSteps ==
    ASSUME Types, NEW p \in Enumerators, Enumerate(p)
    PROVE  \/ known' = known
           \/ \E b \in Boxes \cup {None} : known' = [known EXCEPT ![p] = Remember(@, at[p], b)]
<1>1. CASE QueryApp(p) \/ QueryLoader(p) \/ VerifyApp(p) \/ Verify(p)
  BY <1>1 DEF QueryApp, QueryLoader, VerifyApp, Verify, SetOnline, Types, TypeOK
<1>2. CASE ~(QueryApp(p) \/ QueryLoader(p) \/ VerifyApp(p) \/ Verify(p))
  BY <1>2 DEF Enumerate, QueryNone, StartApp, DiscoverNone, DiscoverBox, AssignLoader,
     StartLoader, AssignAddress, Fallback, Finish
<1>. QED BY <1>1, <1>2

LEMMA NextOnce == Types /\ Once /\ [Next]_vars => Once'
<1> SUFFICES ASSUME Types, Once, [Next]_vars PROVE Once'
  OBVIOUS
<1>1. ASSUME NEW p \in Enumerators, SerialReady(p) \/ CmdEnumerate(p) PROVE Once'
  BY <1>1 DEF SerialReady, CmdEnumerate, Begin, Once, Types, TypeOK
<1>2. ASSUME NEW p \in Enumerators, Enumerate(p) PROVE Once'
  <2>1. \A q \in Enumerators : OneAddress(known'[q])
    <3>1. at[p] \in Addresses /\ known \in [Enumerators -> Tables]
      BY DEF Types, TypeOK
    <3>2. \A b \in Boxes \cup {None} : OneAddress(Remember(known[p], at[p], b))
      BY <3>1, RememberOnce DEF Once
    <3>. QED BY <1>2, <3>1, <3>2, KnownSteps DEF Once
  <2>2. snapshot' = snapshot /\ store' \in {store, known[p]}
    BY <1>2 DEF Enumerate, QueryNone, QueryApp, QueryLoader, StartApp, VerifyApp, DiscoverNone,
       DiscoverBox, AssignLoader, StartLoader, AssignAddress, Fallback, Verify, Finish, hostVars
  <2>. QED BY <2>1, <2>2 DEF Once
<1>3. ASSUME NEW b \in Boxes, PowerOff(b) \/ PowerOn(b) PROVE Once'
  BY <1>3 DEF PowerOff, PowerOn, hostVars, localVars, Once
<1>4. CASE UNCHANGED vars
  BY <1>4 DEF vars, hostVars, localVars, Once
<1>. QED BY <1>1, <1>2, <1>3, <1>4 DEF Next

\* The table saved after an enumeration lists no box twice, if none of the tables
\* it may have started from did, whatever answered where and when.
THEOREM NeverSavedTwice ==
    ASSUME \A x \in Bounds : \A t \in x.saved : OneAddress(t)
    PROVE  Spec => []SavedOnce
<1>1. Init => Types /\ Once
  <2> SUFFICES ASSUME Init PROVE Once
    BY InitTypes
  <2>1. \E x \in Bounds : store \in x.saved
    BY DEF Init
  <2>2. OneAddress(store)
    BY <2>1
  <2>3. OneAddress(NoTable)
    BY DEF NoTable, OneAddress, Occupied
  <2>. QED BY <2>2, <2>3 DEF Init, Once
<1>2. Types /\ Once /\ [Next]_vars => (Types /\ Once)'
  BY NextTypes, NextOnce
<1>3. Once => SavedOnce
  BY DEF Once, SavedOnce
<1>. QED BY <1>1, <1>2, <1>3, PTL DEF Spec

-----------------------------------------------------------------------------
(* An enumeration that runs alone.                                         *)

\* The box in hand was discovered and is being given the address at[p].
Assigning == {"assignLoader", "startLoader", "assign", "fallback", "verify"}

Alone == ~overlap => \A p, q \in Enumerators : pc[p] # "idle" /\ pc[q] # "idle" => p = q

\* A box found online is there and runs its application, and the one in hand is
\* not one of those found.
Found(p) ==
    /\ \A a \in Occupied(online[p]) : online[p][a] \notin cycled[p] =>
         /\ online[p][a] \in power \ loader
         /\ addr[online[p][a]] = a
    /\ pc[p] \in Assigning /\ uid[p] \notin cycled[p] =>
         \A a \in Addresses : online[p][a] # uid[p]

\* No box answers to address a, unless an exchange was lost there.
Silent(a) == a \in unheard \/ Answering(a) = {}

\* At most the box in hand answers to the address it is given.
OnlyOne(p) == at[p] \in unheard \/ Answering(at[p]) \subseteq {uid[p]}

\* Every address asked so far at which nothing was found is silent.
Checked(p) ==
    /\ pc[p] \in {"query", "startApp", "verifyApp"} =>
         \A a \in Addresses \ Occupied(online[p]) : a < at[p] => Silent(a)
    /\ pc[p] \in {"startApp", "verifyApp"} => OnlyOne(p)
    /\ pc[p] = "verifyApp" =>
         at[p] \in unheard \/ uid[p] \notin Answering(at[p]) \cap loader
    /\ pc[p] \in {"discover", "discoverRetry"} =>
         \A a \in Addresses \ Occupied(online[p]) : Silent(a)
    /\ pc[p] \in Assigning =>
         /\ \A a \in Addresses \ Occupied(online[p]) : a = at[p] \/ Silent(a)
         /\ OnlyOne(p)

BoxesApart ==
    /\ \A b \in Boxes \ power : addr[b] = 0
    /\ ~overlap => \A a \in Addresses : a \in unheard \/ \A b, c \in Answering(a) : b = c

\* An identity that this enumeration entered is of a box that is switched on and
\* has no other address, neither on the bus nor in the table.
Entered(p) ==
    \A y \in Addresses : known[p][y] \notin {None, snapshot[y]} =>
        /\ known[p][y] \in power /\ addr[known[p][y]] \in {0, y}
        /\ \A x \in Addresses : known[p][x] = known[p][y] => x = y
        /\ pc[p] \in Assigning /\ uid[p] = known[p][y] => at[p] = y

\* The table knows of no other box where one was found, and nothing was found
\* yet at an address that was not asked.
Entries(p) ==
    /\ \A a \in Addresses : online[p][a] # None => known[p][a] \in {online[p][a], None}
    /\ pc[p] \in {"query", "startApp", "verifyApp"} =>
         \A a \in Addresses : a >= at[p] => online[p][a] = None

\* The saved address of a box that is switched off is kept, or another box's.
Kept(p) ==
    \A a \in Occupied(snapshot) : snapshot[a] \notin power => known[p][a] # None

BusInv ==
    /\ Types /\ Alone /\ BoxesApart
    /\ ~overlap => \A p \in Enumerators : pc[p] # "idle" => Found(p) /\ Checked(p)

KeptInv ==
    ~overlap => \A p \in Enumerators : pc[p] # "idle" /\ cycled[p] = {} =>
        Entered(p) /\ Entries(p) /\ Kept(p)

-----------------------------------------------------------------------------
(* An exchange with the bus.                                               *)

\* No box begins to answer, and no loss is forgotten.
Ebb == /\ \A a \in Addresses : Answering(a)' \subseteq Answering(a)
       /\ unheard \subseteq unheard'

LEMMA EbbApart ==
    ASSUME BoxesApart, Ebb, overlap' = overlap, \A b \in Boxes \ power' : addr'[b] = 0
    PROVE  BoxesApart'
BY DEF BoxesApart, Ebb

LEMMA EbbSilent == ASSUME Ebb, NEW a \in Addresses, Silent(a) PROVE Silent(a)'
BY DEF Ebb, Silent

LEMMA LossesGrow ==
    ASSUME NEW a, LoseAt(a) \/ UNCHANGED lossVars PROVE unheard \subseteq unheard'
BY DEF LoseAt, lossVars

\* What a query that is not garbled tells.
LEMMA QueryTells ==
    ASSUME BusInv, ~overlap, NEW a \in Addresses, NEW b, Query(a, b), UNCHANGED <<power, addr>>
    PROVE  /\ Ebb
           /\ b = None => Silent(a)'
           /\ b # None => Answering(a) = {b} /\ b \in power /\ addr[b] = a
<1>1. Answering(a)' = Answering(a) /\ Answering(a) \subseteq power /\ power \subseteq Boxes
  BY DEF Answering, BusInv, Types, TypeOK
<1>2. unheard \subseteq unheard'
  BY LossesGrow DEF Query
<1>3. Ebb
  BY <1>2 DEF Ebb, Answering
<1>4. ASSUME b = None PROVE Silent(a)'
  <2>1. CASE Cardinality(Answering(a)) # 1 /\ UNCHANGED lossVars
    <3>1. Answering(a) = {} \/ \E x, y \in Answering(a) : x # y
      BY <2>1, SilentOrTwo
    <3>2. a \in unheard \/ Answering(a) = {}
      BY <3>1 DEF BusInv, BoxesApart
    <3>. QED BY <1>1, <1>2, <3>2 DEF Silent
  <2>2. CASE LoseAt(a)
    BY <2>2 DEF LoseAt, Silent
  <2>. QED BY <1>1, <1>4, <2>1, <2>2, ConstantsAssumption DEF Query
<1>5. b # None => Answering(a) = {b} /\ b \in power /\ addr[b] = a
  BY DEF Query, Answering
<1>. QED BY <1>3, <1>4, <1>5

\* Starting the applications takes addresses away and loaders too.
LEMMA StartTells ==
    ASSUME Types, NEW a \in Addresses, StartApps(a), UNCHANGED power
    PROVE  /\ Ebb /\ loader' \subseteq loader
           /\ \A b \in Boxes : addr'[b] \in {addr[b], 0} /\ (b \notin loader => addr'[b] = addr[b])
           /\ a \in unheard' \/ loader' = loader \ power
<1>1. \A b \in Boxes : addr'[b] \in {addr[b], 0} /\ (b \notin loader => addr'[b] = addr[b])
  BY DEF StartApps, Loaders, Types, TypeOK
<1>2. unheard \subseteq unheard' /\ loader' \subseteq loader
      /\ (a \in unheard' \/ loader' = loader \ power)
  BY DEF StartApps, LoseAt, lossVars
<1>3. \A x \in Addresses : x # 0
  BY ConstantsAssumption DEF Addresses
<1>4. Ebb
  BY <1>1, <1>2, <1>3 DEF Ebb, Answering, Types, TypeOK
<1>. QED BY <1>1, <1>2, <1>4

\* A box takes the address it is given, or stays where it is.
LEMMA AssignTells ==
    ASSUME Types, NEW b \in Boxes, NEW a \in Addresses, NEW answered, Assign(b, a, answered), UNCHANGED power
    PROVE  /\ \A x \in Addresses : x # a => Answering(x)' \subseteq Answering(x)
           /\ Answering(a)' \subseteq Answering(a) \cup {b}
           /\ unheard \subseteq unheard'
           /\ \A c \in Boxes : c # b => addr'[c] = addr[c]
           /\ addr'[b] \in {addr[b], a} /\ (b \notin power => addr'[b] = addr[b])
<1>1. addr' = addr \/ (b \in power /\ addr' = [addr EXCEPT ![b] = a])
  BY DEF Assign
<1>2. unheard \subseteq unheard'
  BY LossesGrow DEF Assign
<1>3. /\ \A c \in Boxes : c # b => addr'[c] = addr[c]
      /\ addr'[b] \in {addr[b], a} /\ (b \notin power => addr'[b] = addr[b])
  BY <1>1 DEF Types, TypeOK
<1>. QED BY <1>2, <1>3 DEF Answering, Types, TypeOK

-----------------------------------------------------------------------------
(* The steps of an enumeration that runs alone.                            *)

LEMMA EnumerateSteps ==
    ASSUME Types, NEW p \in Enumerators, Enumerate(p)
    PROVE  /\ UNCHANGED <<power, overlap, cycled, snapshot>> /\ pc[p] # "idle"
           /\ \A q \in Enumerators : q # p => pc'[q] = pc[q]
<1>1. UNCHANGED <<power, overlap, cycled, snapshot>> /\ pc[p] # "idle"
  BY DEF Enumerate, QueryNone, QueryApp, QueryLoader, StartApp, VerifyApp, DiscoverNone,
     DiscoverBox, AssignLoader, StartLoader, AssignAddress, Fallback, Verify, Finish,
     boxVars, hostVars, boundVars
<1>2. \A q \in Enumerators : q # p => pc'[q] = pc[q]
  BY DEF Enumerate, QueryNone, QueryApp, QueryLoader, StartApp, VerifyApp, DiscoverNone,
     DiscoverBox, AssignLoader, StartLoader, AssignAddress, Fallback, Verify, Finish,
     NextAddress, Types, TypeOK
<1>. QED BY <1>1, <1>2

LEMMA AloneStep ==
    ASSUME BusInv, NEW p \in Enumerators, Enumerate(p), Types', BoxesApart',
           ~overlap /\ pc'[p] # "idle" => Found(p)' /\ Checked(p)'
    PROVE  BusInv'
<1>1. /\ overlap' = overlap /\ pc[p] # "idle" /\ \A q \in Enumerators : q # p => pc'[q] = pc[q]
  BY EnumerateSteps DEF BusInv
<1>2. ~overlap => \A q \in Enumerators : q # p => pc[q] = "idle"
  BY <1>1 DEF BusInv, Alone
<1>3. Alone'
  BY <1>1, <1>2 DEF Alone
<1>4. ~overlap' => \A q \in Enumerators : pc'[q] # "idle" => Found(q)' /\ Checked(q)'
  BY <1>1, <1>2
<1>. QED BY <1>3, <1>4 DEF BusInv

LEMMA NextAddressChecked ==
    ASSUME BusInv, NEW p \in Enumerators, NextAddress(p, online'[p]),
           \A a \in Addresses \ Occupied(online'[p]) : a =< at[p] => Silent(a)'
    PROVE  /\ Checked(p)'
           /\ pc'[p] \in {"query", "discover", "finish"}
<1>1. /\ Addresses \subseteq Nat /\ at[p] \in Nat /\ at[p] \in Addresses
      /\ \A a \in Addresses : a =< MaxAddress
  BY ConstantsAssumption DEF BusInv, Types, TypeOK, Addresses
<1>2. \/ pc'[p] = "finish"
      \/ pc'[p] = "discover" /\ at[p] = MaxAddress
      \/ pc'[p] = "query" /\ at'[p] = at[p] + 1
  BY DEF NextAddress, AfterOnline, BusInv, Types, TypeOK
<1>3. ASSUME pc'[p] = "discover", at[p] = MaxAddress PROVE Checked(p)'
  BY <1>1, <1>3 DEF Checked, Assigning
<1>4. ASSUME pc'[p] = "query", at'[p] = at[p] + 1 PROVE Checked(p)'
  <2>1. ASSUME NEW a \in Addresses PROVE a < at[p] + 1 => a =< at[p]
    <3>1. a \in Nat
      BY <1>1
    <3>. QED BY <1>1, <3>1
  <2>. QED BY <1>4, <2>1 DEF Checked, Assigning
<1>5. ASSUME pc'[p] = "finish" PROVE Checked(p)'
  BY <1>5 DEF Checked, Assigning
<1>. QED BY <1>2, <1>3, <1>4, <1>5

\* What was found stays found while only boxes that run their loader may lose
\* their address.
LEMMA FoundStays ==
    ASSUME BusInv, ~overlap, NEW p \in Enumerators, pc[p] # "idle", online'[p] = online[p],
           UNCHANGED <<power, cycled>>, loader' \subseteq loader,
           \A b \in Boxes \ loader : addr'[b] = addr[b],
           pc'[p] \in Assigning => pc[p] \in Assigning /\ uid'[p] = uid[p]
    PROVE  Found(p)'
<1>1. Found(p) /\ online[p] \in Tables
  BY DEF BusInv, Types, TypeOK
<1>2. \A a \in Occupied(online[p]) : online[p][a] \in Boxes
  BY <1>1 DEF Occupied, Tables
<1>. QED BY <1>1, <1>2 DEF Found

\* A box that answered, and runs its application, is online.
LEMMA FoundMore ==
    ASSUME BusInv, ~overlap, NEW p \in Enumerators, pc[p] # "idle", UNCHANGED boxVars,
           cycled' = cycled,
           NEW b \in Boxes, b \in power \ loader, addr[b] = at[p], SetOnline(p, at[p], b),
           pc'[p] \notin Assigning
    PROVE  Found(p)'
<1>1. Found(p) /\ online[p] \in Tables /\ online \in [Enumerators -> Tables]
  BY DEF BusInv, Types, TypeOK
<1>2. online'[p] = [online[p] EXCEPT ![at[p]] = b]
  BY <1>1 DEF SetOnline
<1>3. \A a \in Occupied(online'[p]) : \/ a = at[p] /\ online'[p][a] = b
                                      \/ a \in Occupied(online[p]) /\ online'[p][a] = online[p][a]
  BY <1>1, <1>2 DEF Occupied, Tables
<1>. QED BY <1>1, <1>3 DEF Found, boxVars

\* Where a box is found no other address is touched.
LEMMA OccupiedMore ==
    ASSUME BusInv, NEW p \in Enumerators, NEW b \in Boxes, SetOnline(p, at[p], b)
    PROVE  Occupied(online'[p]) = Occupied(online[p]) \cup {at[p]}
<1>1. online[p] \in Tables /\ online \in [Enumerators -> Tables] /\ at[p] \in Addresses
  BY DEF BusInv, Types, TypeOK
<1>2. online'[p] = [online[p] EXCEPT ![at[p]] = b]
  BY <1>1 DEF SetOnline
<1>. QED BY <1>1, <1>2, ConstantsAssumption DEF Occupied, Tables

\* Asking moves no box.
LEMMA QuietApart ==
    ASSUME BusInv, UNCHANGED <<power, addr, overlap>>, unheard \subseteq unheard'
    PROVE  BoxesApart' /\ Ebb
<1>1. Ebb
  BY DEF Ebb, Answering
<1>. QED BY <1>1, EbbApart DEF BusInv, BoxesApart

LEMMA QueryNoneBus ==
    ASSUME BusInv, Types', NEW p \in Enumerators, QueryNone(p)
    PROVE  BusInv'
<1>0. /\ at[p] \in Addresses /\ UNCHANGED <<power, addr, loader, online, cycled, overlap, uid>>
      /\ Enumerate(p) /\ pc[p] = "query" /\ Query(at[p], None) /\ NextAddress(p, online[p])
  BY DEF BusInv, Types, TypeOK, QueryNone, Enumerate, boxVars, boundVars
<1>1. BoxesApart'
  BY <1>0, LossesGrow, QuietApart DEF Query
<1>2. ASSUME ~overlap PROVE Found(p)' /\ Checked(p)'
  <2>1. Ebb /\ \A x \in Addresses : x = at[p] => Silent(x)'
    BY <1>0, <1>2, QueryTells
  <2>2. \A a \in Addresses \ Occupied(online[p]) : a < at[p] => Silent(a)
    BY <1>0, <1>2 DEF BusInv, Checked
  <2>3. \A a \in Addresses : a =< at[p] => a < at[p] \/ a = at[p]
    BY <1>0 DEF Addresses
  <2>4. Checked(p)' /\ pc'[p] \in {"query", "discover", "finish"}
    BY <1>0, <2>1, <2>2, <2>3, EbbSilent, NextAddressChecked
  <2>5. Found(p)'
    BY <1>0, <1>2, <2>4, FoundStays DEF Assigning
  <2>. QED BY <2>4, <2>5
<1>. QED BY <1>0, <1>1, <1>2, AloneStep

LEMMA QueryAppBus ==
    ASSUME BusInv, Types', NEW p \in Enumerators, QueryApp(p)
    PROVE  BusInv'
<1>0. /\ at[p] \in Addresses /\ UNCHANGED <<boxVars, cycled, overlap, uid>>
      /\ Enumerate(p) /\ pc[p] = "query" /\ NextAddress(p, online'[p])
  BY DEF BusInv, Types, TypeOK, QueryApp, Enumerate, boundVars
<1>1. PICK b \in Boxes \ loader : Query(at[p], b) /\ SetOnline(p, at[p], b)
  BY DEF QueryApp
<1>2. BoxesApart'
  BY <1>0, <1>1, LossesGrow, QuietApart DEF Query, boxVars
<1>3. ASSUME ~overlap PROVE Found(p)' /\ Checked(p)'
  <2>1. b \in power \ loader /\ addr[b] = at[p] /\ Ebb
    BY <1>0, <1>1, <1>3, QueryTells, ConstantsAssumption DEF boxVars
  <2>2. Occupied(online'[p]) = Occupied(online[p]) \cup {at[p]}
    BY <1>1, OccupiedMore
  <2>3. \A a \in Addresses \ Occupied(online[p]) : a < at[p] => Silent(a)
    BY <1>0, <1>3 DEF BusInv, Checked
  <2>4. \A a \in Addresses : a =< at[p] => a < at[p] \/ a = at[p]
    BY <1>0 DEF Addresses
  <2>5. Checked(p)' /\ pc'[p] \in {"query", "discover", "finish"}
    BY <1>0, <2>1, <2>2, <2>3, <2>4, EbbSilent, NextAddressChecked
  <2>6. Found(p)'
    BY <1>0, <1>1, <1>3, <2>1, <2>5, FoundMore DEF Assigning
  <2>. QED BY <2>5, <2>6
<1>. QED BY <1>0, <1>2, <1>3, AloneStep

LEMMA QueryLoaderBus ==
    ASSUME BusInv, Types', NEW p \in Enumerators, QueryLoader(p)
    PROVE  BusInv'
<1>0. /\ at[p] \in Addresses /\ UNCHANGED <<boxVars, cycled, overlap, at, online>>
      /\ Enumerate(p) /\ pc[p] = "query" /\ pc'[p] = "startApp"
  BY DEF BusInv, Types, TypeOK, QueryLoader, Enumerate, boundVars
<1>1. PICK b \in loader : Query(at[p], b) /\ uid'[p] = b /\ b \in Boxes
  BY DEF QueryLoader, BusInv, Types, TypeOK
<1>2. BoxesApart'
  BY <1>0, <1>1, LossesGrow, QuietApart DEF Query, boxVars
<1>3. ASSUME ~overlap PROVE Found(p)' /\ Checked(p)'
  <2>1. Answering(at[p]) = {b} /\ Ebb
    BY <1>0, <1>1, <1>3, QueryTells, ConstantsAssumption DEF boxVars
  <2>2. \A a \in Addresses \ Occupied(online[p]) : a < at[p] => Silent(a)
    BY <1>0, <1>3 DEF BusInv, Checked
  <2>3. Checked(p)'
    BY <1>0, <1>1, <2>1, <2>2, EbbSilent DEF Checked, OnlyOne, Ebb, Assigning
  <2>4. Found(p)'
    BY <1>0, <1>3, FoundStays DEF Assigning, boxVars
  <2>. QED BY <2>3, <2>4
<1>. QED BY <1>0, <1>2, <1>3, AloneStep

\* The applications start, and no box in loader mode is left where that was heard.
LEMMA StartBus ==
    ASSUME BusInv, Types', NEW p \in Enumerators, StartApp(p) \/ StartLoader(p)
    PROVE  BusInv'
<1>0. /\ at[p] \in Addresses /\ StartApps(at[p])
      /\ UNCHANGED <<power, cycled, overlap, at, uid, online>> /\ Enumerate(p)
      /\ \/ pc[p] = "startApp" /\ pc'[p] = "verifyApp"
         \/ pc[p] = "startLoader" /\ pc'[p] = "assign"
  BY DEF BusInv, Types, TypeOK, StartApp, StartLoader, Enumerate, boundVars
<1>1. /\ Ebb /\ loader' \subseteq loader
      /\ \A b \in Boxes : addr'[b] \in {addr[b], 0} /\ (b \notin loader => addr'[b] = addr[b])
      /\ at[p] \in unheard' \/ loader' = loader \ power
  BY <1>0, StartTells DEF BusInv
<1>2. BoxesApart'
  BY <1>0, <1>1, EbbApart DEF BusInv, BoxesApart
<1>3. ASSUME ~overlap PROVE Found(p)' /\ Checked(p)'
  <2>1. Found(p)'
    BY <1>0, <1>1, <1>3, FoundStays DEF Assigning
  <2>2. Checked(p) /\ OnlyOne(p)
    BY <1>0, <1>3 DEF BusInv, Checked, Assigning
  <2>3. OnlyOne(p)'
    BY <1>0, <1>1, <2>2 DEF OnlyOne, Ebb
  <2>4. at'[p] \in unheard' \/ uid'[p] \notin Answering(at[p])' \cap loader'
    BY <1>0, <1>1 DEF Answering
  <2>5. Checked(p)'
    BY <1>0, <1>1, <2>2, <2>3, <2>4, EbbSilent DEF Checked, Assigning
  <2>. QED BY <2>1, <2>5
<1>. QED BY <1>0, <1>2, <1>3, AloneStep

LEMMA VerifyAppBus ==
    ASSUME BusInv, Types', NEW p \in Enumerators, VerifyApp(p)
    PROVE  BusInv'
<1>0. /\ at[p] \in Addresses /\ UNCHANGED <<boxVars, cycled, overlap, uid>>
      /\ Enumerate(p) /\ pc[p] = "verifyApp" /\ NextAddress(p, online'[p])
      /\ uid[p] \in Boxes
  BY DEF BusInv, Types, TypeOK, VerifyApp, Enumerate, boundVars, Working
<1>1. PICK b \in Boxes \cup {None} :
        /\ Query(at[p], b)
        /\ IF b = uid[p] /\ b \notin loader
           THEN SetOnline(p, at[p], b) ELSE UNCHANGED <<known, online>>
  BY DEF VerifyApp
<1>2. BoxesApart'
  BY <1>0, <1>1, LossesGrow, QuietApart DEF Query, boxVars
<1>3. ASSUME ~overlap PROVE Found(p)' /\ Checked(p)'
  <2>1. /\ Ebb /\ \A x \in Addresses : x = at[p] /\ b = None => Silent(x)'
        /\ b # None => Answering(at[p]) = {b} /\ b \in power /\ addr[b] = at[p]
    BY <1>0, <1>1, <1>3, QueryTells DEF boxVars
  <2>2. /\ \A a \in Addresses \ Occupied(online[p]) : a < at[p] => Silent(a)
        /\ OnlyOne(p) /\ (at[p] \in unheard \/ uid[p] \notin Answering(at[p]) \cap loader)
    BY <1>0, <1>3 DEF BusInv, Checked
  <2>3. \A a \in Addresses : a =< at[p] => a < at[p] \/ a = at[p]
    BY <1>0 DEF Addresses
  <2>4. CASE b = uid[p] /\ b \notin loader
    <3>1. SetOnline(p, at[p], b) /\ b \in power \ loader /\ addr[b] = at[p] /\ b \in Boxes
      BY <1>0, <1>1, <2>1, <2>4, ConstantsAssumption
    <3>2. Occupied(online'[p]) = Occupied(online[p]) \cup {at[p]}
      BY <3>1, OccupiedMore
    <3>3. Checked(p)' /\ pc'[p] \in {"query", "discover", "finish"}
      BY <1>0, <2>1, <2>2, <2>3, <3>2, EbbSilent, NextAddressChecked
    <3>4. Found(p)'
      BY <1>0, <1>3, <3>1, <3>3, FoundMore DEF Assigning
    <3>. QED BY <3>3, <3>4
  <2>5. CASE ~(b = uid[p] /\ b \notin loader)
    <3>1. online' = online
      BY <1>1, <2>5
    <3>2. \A x \in Addresses : x = at[p] => Silent(x)'
      <4>1. b = None \/ at[p] \in unheard
        BY <2>1, <2>2, <2>5 DEF OnlyOne
      <4>. QED BY <2>1, <4>1 DEF Silent, Ebb
    <3>3. Checked(p)' /\ pc'[p] \in {"query", "discover", "finish"}
      BY <1>0, <2>1, <2>2, <2>3, <3>1, <3>2, EbbSilent, NextAddressChecked
    <3>4. Found(p)'
      BY <1>0, <1>3, <3>1, <3>3, FoundStays DEF Assigning, boxVars
    <3>. QED BY <3>3, <3>4
  <2>. QED BY <2>4, <2>5
<1>. QED BY <1>0, <1>2, <1>3, AloneStep

LEMMA DiscoverNoneBus ==
    ASSUME BusInv, Types', NEW p \in Enumerators, DiscoverNone(p)
    PROVE  BusInv'
<1>0. /\ UNCHANGED <<boxVars, cycled, overlap, at, online>>
      /\ Enumerate(p) /\ pc[p] \in {"discover", "discoverRetry"}
      /\ pc'[p] \in {"discoverRetry", "finish"} /\ unheard' = unheard
  BY DEF BusInv, Types, TypeOK, DiscoverNone, Enumerate, boundVars, Discover, lossVars
<1>1. BoxesApart' /\ Ebb
  BY <1>0, QuietApart DEF boxVars
<1>2. ASSUME ~overlap PROVE Found(p)' /\ Checked(p)'
  <2>1. Found(p)'
    BY <1>0, <1>2, FoundStays DEF Assigning, boxVars
  <2>2. Checked(p)'
    BY <1>0, <1>1, <1>2, EbbSilent DEF BusInv, Checked, Assigning
  <2>. QED BY <2>1, <2>2
<1>. QED BY <1>0, <1>1, <1>2, AloneStep

\* The box that is discovered has no address, and is given one that is silent.
LEMMA DiscoverBoxBus ==
    ASSUME BusInv, Types', NEW p \in Enumerators, DiscoverBox(p)
    PROVE  BusInv'
<1>0. /\ UNCHANGED <<boxVars, cycled, overlap, online>>
      /\ Enumerate(p) /\ pc[p] \in {"discover", "discoverRetry"}
  BY DEF BusInv, Types, TypeOK, DiscoverBox, Enumerate, boundVars
<1>1. PICK b \in Boxes :
        /\ Discover(b)
        /\ \/ pc'[p] = "finish"
           \/ /\ pc'[p] \in {"assignLoader", "assign"} /\ uid'[p] = b
              /\ at'[p] \in Addresses \ Occupied(online[p])
  <2>1. PICK b \in Boxes :
          /\ Discover(b)
          /\ \/ pc' = [pc EXCEPT ![p] = "finish"]
             \/ /\ pc' = [pc EXCEPT ![p] = IF b \in loader THEN "assignLoader" ELSE "assign"]
                /\ uid' = [uid EXCEPT ![p] = b] /\ Target(p, b) # {}
                /\ at' = [at EXCEPT ![p] = CHOOSE a \in Target(p, b) : TRUE]
    BY DEF DiscoverBox
  <2>2. CASE pc' = [pc EXCEPT ![p] = "finish"]
    BY <2>1, <2>2 DEF BusInv, Types, TypeOK
  <2>3. CASE pc' # [pc EXCEPT ![p] = "finish"]
    <3>1. at'[p] = CHOOSE a \in Target(p, b) : TRUE
      BY <2>1, <2>3 DEF BusInv, Types, TypeOK
    <3>2. at'[p] \in Addresses \ Occupied(online[p])
      BY <2>1, <2>3, <3>1, TargetFree
    <3>. QED BY <2>1, <2>3, <3>2 DEF BusInv, Types, TypeOK
  <2>. QED BY <2>2, <2>3
<1>2. b \in power /\ addr[b] = 0 /\ unheard' = unheard
  BY <1>1, ConstantsAssumption DEF Discover, Answering, lossVars
<1>3. BoxesApart' /\ Ebb
  BY <1>0, <1>2, QuietApart DEF boxVars
<1>4. ASSUME ~overlap PROVE Found(p)' /\ Checked(p)'
  <2>1. Found(p) /\ \A a \in Addresses \ Occupied(online[p]) : Silent(a)
    BY <1>0, <1>4 DEF BusInv, Checked
  <2>2. CASE pc'[p] = "finish"
    <3>1. Found(p)'
      BY <1>0, <1>4, <2>2, FoundStays DEF Assigning, boxVars
    <3>. QED BY <2>2, <3>1 DEF Checked, Assigning
  <2>3. CASE pc'[p] # "finish"
    <3>1. \A a \in Addresses : online[p][a] = b => b \in cycled[p]
      <4>1. \A a \in Addresses : online[p][a] = b => a \in Occupied(online[p]) /\ a # 0
        BY ConstantsAssumption DEF Occupied, Addresses
      <4>. QED BY <1>2, <2>1, <4>1 DEF Found
    <3>2. Found(p)'
      BY <1>0, <1>1, <2>1, <2>3, <3>1 DEF Found, boxVars
    <3>3. OnlyOne(p)'
      BY <1>0, <1>1, <1>2, <2>1, <2>3 DEF OnlyOne, Silent, Answering, boxVars
    <3>4. Checked(p)'
      BY <1>0, <1>1, <1>3, <2>1, <2>3, <3>3, EbbSilent DEF Checked, Assigning
    <3>. QED BY <3>2, <3>4
  <2>. QED BY <2>2, <2>3
<1>. QED BY <1>0, <1>3, <1>4, AloneStep

\* The box in hand goes nowhere but to the address it is given.
LEMMA AssignBus ==
    ASSUME BusInv, Types', NEW p \in Enumerators, AssignLoader(p) \/ AssignAddress(p)
    PROVE  BusInv'
<1>0. /\ UNCHANGED <<power, loader, cycled, overlap, at, uid, online>>
      /\ Enumerate(p) /\ pc[p] \in Assigning /\ pc'[p] \in Assigning
      /\ at[p] \in Addresses /\ uid[p] \in Boxes
      /\ \E answered : Assign(uid[p], at[p], answered)
  BY DEF BusInv, Types, TypeOK, AssignLoader, AssignAddress, Enumerate, boundVars, Assigning,
         Working
<1>1. PICK a \in Addresses, b \in Boxes : a = at[p] /\ b = uid[p]
  BY <1>0
<1>2. /\ \A x \in Addresses : x # a => Answering(x)' \subseteq Answering(x)
      /\ Answering(a)' \subseteq Answering(a) \cup {b}
      /\ unheard \subseteq unheard'
      /\ \A c \in Boxes : c # b => addr'[c] = addr[c]
      /\ addr'[b] \in {addr[b], a} /\ (b \notin power => addr'[b] = addr[b])
  BY <1>0, <1>1, AssignTells DEF BusInv
<1>3. ASSUME ~overlap PROVE a \in unheard' \/ Answering(a)' \subseteq {b}
  <2>1. OnlyOne(p)
    BY <1>0, <1>3 DEF BusInv, Checked, Assigning
  <2>. QED BY <1>1, <1>2, <2>1 DEF OnlyOne
<1>4. BoxesApart'
  BY <1>0, <1>2, <1>3 DEF BusInv, BoxesApart
<1>5. ASSUME ~overlap PROVE Found(p)' /\ Checked(p)'
  <2>1. Found(p) /\ Checked(p) /\ online[p] \in Tables
    BY <1>0, <1>5 DEF BusInv, Types, TypeOK, Assigning
  <2>2. \A x \in Addresses : Silent(x) /\ x # a => Silent(x)'
    BY <1>2 DEF Silent
  <2>3. OnlyOne(p)'
    BY <1>0, <1>1, <1>3, <1>5 DEF OnlyOne, Answering
  <2>4. Checked(p)'
    BY <1>0, <1>1, <2>1, <2>2, <2>3 DEF Checked, Assigning
  <2>5. \A x \in Occupied(online[p]) : x \in Addresses /\ online[p][x] \in Boxes
    BY <2>1 DEF Occupied, Tables
  <2>6. Found(p)'
    BY <1>0, <1>1, <1>2, <2>1, <2>5 DEF Found
  <2>. QED BY <2>4, <2>6
<1>. QED BY <1>0, <1>4, <1>5, AloneStep

LEMMA FallbackBus ==
    ASSUME BusInv, Types', NEW p \in Enumerators, Fallback(p)
    PROVE  BusInv'
<1>0. /\ UNCHANGED <<boxVars, cycled, overlap, at, uid, online>>
      /\ Enumerate(p) /\ pc[p] = "fallback" /\ pc'[p] \in {"verify", "finish"}
      /\ at[p] \in Addresses /\ \E b : Query(at[p], b)
  BY DEF BusInv, Types, TypeOK, Fallback, Enumerate, boundVars
<1>1. BoxesApart' /\ Ebb
  BY <1>0, LossesGrow, QuietApart DEF Query, boxVars
<1>2. ASSUME ~overlap PROVE Found(p)' /\ Checked(p)'
  <2>1. Found(p)'
    BY <1>0, <1>2, FoundStays DEF Assigning, boxVars
  <2>2. Checked(p) /\ OnlyOne(p)
    BY <1>0, <1>2 DEF BusInv, Checked, Assigning
  <2>3. OnlyOne(p)'
    BY <1>0, <1>1, <2>2 DEF OnlyOne, Ebb, Answering, boxVars
  <2>4. Checked(p)'
    BY <1>0, <1>1, <2>2, <2>3, EbbSilent DEF Checked, Assigning
  <2>. QED BY <2>1, <2>4
<1>. QED BY <1>0, <1>1, <1>2, AloneStep

LEMMA VerifyBus ==
    ASSUME BusInv, Types', NEW p \in Enumerators, Verify(p)
    PROVE  BusInv'
<1>0. /\ UNCHANGED <<boxVars, cycled, overlap, at, uid>>
      /\ Enumerate(p) /\ pc[p] = "verify" /\ at[p] \in Addresses /\ uid[p] \in Boxes
  BY DEF BusInv, Types, TypeOK, Verify, Enumerate, boundVars, Working
<1>1. PICK b \in Boxes \cup {None} :
        /\ Query(at[p], b)
        /\ \/ /\ b = uid[p] /\ b \notin loader /\ SetOnline(p, at[p], b)
              /\ pc'[p] \in {"discover", "finish"}
           \/ pc'[p] = "finish" /\ UNCHANGED online
  BY DEF Verify, AfterOnline, BusInv, Types, TypeOK
<1>2. BoxesApart' /\ Ebb
  BY <1>0, <1>1, LossesGrow, QuietApart DEF Query, boxVars
<1>3. ASSUME ~overlap PROVE Found(p)' /\ Checked(p)'
  <2>1. CASE pc'[p] = "finish" /\ UNCHANGED online
    <3>1. Found(p)'
      BY <1>0, <1>3, <2>1, FoundStays DEF Assigning, boxVars
    <3>. QED BY <2>1, <3>1 DEF Checked, Assigning
  <2>2. CASE b = uid[p] /\ b \notin loader /\ SetOnline(p, at[p], b)
             /\ pc'[p] \in {"discover", "finish"}
    <3>1. b \in power \ loader /\ addr[b] = at[p]
      BY <1>0, <1>1, <1>3, <2>2, QueryTells, ConstantsAssumption DEF boxVars
    <3>2. Found(p)'
      BY <1>0, <1>3, <2>2, <3>1, FoundMore DEF Assigning
    <3>3. Occupied(online'[p]) = Occupied(online[p]) \cup {at[p]}
      BY <1>0, <2>2, OccupiedMore
    <3>4. \A a \in Addresses \ Occupied(online[p]) : a = at[p] \/ Silent(a)
      BY <1>0, <1>3 DEF BusInv, Checked, Assigning
    <3>5. Checked(p)'
      BY <1>0, <1>2, <2>2, <3>3, <3>4, EbbSilent DEF Checked, Assigning
    <3>. QED BY <3>2, <3>5
  <2>. QED BY <1>1, <2>1, <2>2
<1>. QED BY <1>0, <1>2, <1>3, AloneStep

\* The rest: an enumeration ends or begins, and boxes come and go.
LEMMA FinishBus ==
    ASSUME BusInv, Types', NEW p \in Enumerators, Finish(p)
    PROVE  BusInv'
<1>0. /\ UNCHANGED <<power, addr, overlap, unheard>> /\ Enumerate(p) /\ pc'[p] = "idle"
  BY DEF BusInv, Types, TypeOK, Finish, Enumerate, boxVars, boundVars, lossVars
<1>. QED BY <1>0, QuietApart, AloneStep

LEMMA BeginBus ==
    ASSUME BusInv, Types', NEW p \in Enumerators, Begin(p)
    PROVE  BusInv'
<1>0. /\ UNCHANGED <<power, addr, loader, unheard>>
      /\ pc' = [pc EXCEPT ![p] = "query"] /\ at'[p] = 1 /\ online'[p] = NoTable
      /\ overlap' = (overlap \/ \E q \in Enumerators : pc[q] # "idle")
  BY DEF BusInv, Types, TypeOK, Begin, boxVars, lossVars
<1>1. /\ pc'[p] = "query" /\ \A q \in Enumerators : q # p => pc'[q] = pc[q]
  BY <1>0 DEF BusInv, Types, TypeOK
<1>2. BoxesApart'
  <2>1. \A a \in Addresses : Answering(a)' = Answering(a)
    BY <1>0 DEF Answering
  <2>. QED BY <1>0, <2>1 DEF BusInv, BoxesApart
<1>3. ~overlap' => ~overlap /\ \A q \in Enumerators : q # p => pc'[q] = "idle"
  BY <1>0, <1>1
<1>4. Found(p)' /\ Checked(p)'
  <2>1. Occupied(online'[p]) = {}
    BY <1>0 DEF Occupied, NoTable
  <2>2. \A a \in Addresses : ~(a < 1)
    BY ConstantsAssumption DEF Addresses
  <2>. QED BY <1>0, <1>1, <2>1, <2>2 DEF Found, Checked, Assigning
<1>. QED BY <1>1, <1>2, <1>3, <1>4 DEF BusInv, Alone

LEMMA PowerBus ==
    ASSUME BusInv, Types', NEW b \in Boxes, PowerOff(b) \/ PowerOn(b)
    PROVE  BusInv'
<1>0. /\ UNCHANGED <<pc, at, uid, online, unheard, overlap>>
      /\ \A c \in Boxes : c # b => addr'[c] = addr[c] /\ (c \in loader' <=> c \in loader)
      /\ \A c \in Boxes : c # b => (c \in power' <=> c \in power)
      /\ addr'[b] = 0
  BY DEF PowerOff, PowerOn, hostVars, localVars, lossVars, boundVars, BusInv, Types, TypeOK,
         BoxesApart
<1>1. \/ b \notin power /\ addr[b] = 0 /\ b \in power' /\ cycled' = cycled
      \/ /\ b \in power /\ b \notin power' /\ loader' = loader
         /\ \A p \in Enumerators : cycled'[p] = cycled[p] \cup {b}
  BY DEF PowerOff, PowerOn, boundVars, BusInv, BoxesApart
<1>2. \A a \in Addresses : a # 0
  BY ConstantsAssumption DEF Addresses
<1>3. Ebb
  BY <1>0, <1>2 DEF Ebb, Answering, BusInv, Types, TypeOK
<1>4. BoxesApart'
  <2>1. \A c \in Boxes \ power' : addr'[c] = 0
    BY <1>0 DEF BusInv, BoxesApart
  <2>. QED BY <1>0, <1>3, <2>1, EbbApart DEF BusInv
<1>5. ASSUME NEW p \in Enumerators, Found(p) PROVE Found(p)'
  <2>1. online[p] \in Tables
    BY DEF BusInv, Types, TypeOK
  <2>2. \A a \in Occupied(online[p]) : a \in Addresses /\ online[p][a] \in Boxes
    BY <2>1 DEF Occupied, Tables
  <2>3. cycled[p] \subseteq cycled'[p]
    BY <1>1
  <2>4. ASSUME NEW a \in Occupied(online[p]), online[p][a] \notin cycled'[p]
        PROVE  online[p][a] \in power' \ loader' /\ addr'[online[p][a]] = a
    <3>1. online[p][a] \in power \ loader /\ addr[online[p][a]] = a
      BY <1>5, <2>3, <2>4 DEF Found
    <3>2. online[p][a] # b
      BY <1>1, <1>2, <2>2, <2>4, <3>1
    <3>. QED BY <1>0, <2>2, <3>1, <3>2
  <2>. QED BY <1>0, <1>5, <2>3, <2>4 DEF Found
<1>6. ASSUME NEW p \in Enumerators, Checked(p) PROVE Checked(p)'
  <2>1. at[p] \in Addresses
    BY DEF BusInv, Types, TypeOK
  <2>2. OnlyOne(p) => OnlyOne(p)'
    BY <1>0, <1>3, <2>1 DEF OnlyOne, Ebb
  <2>3. at[p] \in unheard \/ uid[p] \notin Answering(at[p]) \cap loader
          => at'[p] \in unheard' \/ uid'[p] \notin Answering(at[p])' \cap loader'
    BY <1>0, <1>2, <1>3, <2>1 DEF Ebb, Answering, BusInv, Types, TypeOK
  <2>. QED BY <1>0, <1>3, <1>6, <2>2, <2>3, EbbSilent DEF Checked
<1>. QED BY <1>0, <1>4, <1>5, <1>6 DEF BusInv, Alone

LEMMA InitBus == Init => BusInv
<1> SUFFICES ASSUME Init PROVE BusInv
  OBVIOUS
<1>1. \A p \in Enumerators : pc[p] = "idle"
  BY DEF Init
<1>2. \A a \in Addresses : a # 0
  BY ConstantsAssumption DEF Addresses
<1>3. BoxesApart
  BY <1>2 DEF Init, BoxesApart, Answering
<1>. QED BY <1>1, <1>3, InitTypes DEF BusInv, Alone

LEMMA NextBus == BusInv /\ [Next]_vars => BusInv'
<1> SUFFICES ASSUME BusInv, [Next]_vars PROVE BusInv'
  OBVIOUS
<1>0. Types'
  BY NextTypes DEF BusInv
<1>1. ASSUME NEW p \in Enumerators, Enumerate(p) PROVE BusInv'
  BY <1>0, <1>1, QueryNoneBus, QueryAppBus, QueryLoaderBus, StartBus, VerifyAppBus,
     DiscoverNoneBus, DiscoverBoxBus, AssignBus, FallbackBus, VerifyBus, FinishBus DEF Enumerate
<1>2. ASSUME NEW p \in Enumerators, SerialReady(p) \/ CmdEnumerate(p) PROVE BusInv'
  BY <1>0, <1>2, BeginBus DEF SerialReady, CmdEnumerate
<1>3. ASSUME NEW b \in Boxes, PowerOff(b) \/ PowerOn(b) PROVE BusInv'
  BY <1>0, <1>3, PowerBus
<1>4. CASE UNCHANGED vars
  BY <1>0, <1>4 DEF vars, boxVars, localVars, boundVars, lossVars, BusInv, Alone, BoxesApart, Found,
     Checked, OnlyOne, Silent, Answering
<1>. QED BY <1>1, <1>2, <1>3, <1>4 DEF Next

\* An enumeration that runs alone believes a box to be online only where it is,
\* as long as nobody switches the box off, whatever exchanges are lost.
THEOREM OnlineIsTrue == Spec => []OnlineTrue
<1>1. BusInv => OnlineTrue
  BY DEF BusInv, OnlineTrue, Found
<1>. QED BY <1>1, InitBus, NextBus, PTL DEF Spec

\* And it never makes two boxes answer to one address, unless an exchange at that
\* address was lost: what an address is free of when it is asked it is free of
\* when it is given away.
THEOREM BoxesStayApart == Spec => []NoAddressConflict
<1>1. BusInv => NoAddressConflict
  <2> SUFFICES ASSUME BusInv, NEW b \in power, NEW c \in power, b # c, addr[b] = addr[c],
                      addr[b] # 0, ~overlap
               PROVE  addr[b] \in unheard
    BY DEF NoAddressConflict
  <2>1. addr[b] \in Addresses
    BY ConstantsAssumption DEF BusInv, Types, TypeOK, Addresses
  <2>2. b \in Answering(addr[b]) /\ c \in Answering(addr[b])
    BY DEF Answering
  <2>. QED BY <2>1, <2>2 DEF BusInv, BoxesApart
<1>. QED BY <1>1, InitBus, NextBus, PTL DEF Spec

-----------------------------------------------------------------------------
(* What is saved of the boxes that are switched off.                       *)

KeptTables(p) == Entered(p) /\ Entries(p) /\ Kept(p)

LEMMA KeptStep ==
    ASSUME BusInv, KeptInv, NEW p \in Enumerators, Enumerate(p),
           ~overlap /\ cycled[p] = {} /\ KeptTables(p) => pc'[p] = "idle" \/ KeptTables(p)'
    PROVE  KeptInv'
<1>1. /\ overlap' = overlap /\ cycled' = cycled /\ pc[p] # "idle"
      /\ \A q \in Enumerators : q # p => pc'[q] = pc[q]
  BY EnumerateSteps DEF BusInv
<1>2. ~overlap => \A q \in Enumerators : q # p => pc[q] = "idle"
  BY <1>1 DEF BusInv, Alone
<1>3. ~overlap /\ cycled[p] = {} => KeptTables(p)
  BY <1>1 DEF KeptInv, KeptTables
<1>4. ASSUME ~overlap', NEW q \in Enumerators, pc'[q] # "idle", cycled'[q] = {}
      PROVE  KeptTables(q)'
  BY <1>1, <1>2, <1>3, <1>4
<1>. QED BY <1>4 DEF KeptInv, KeptTables

\* A step that enters nothing and moves no box but to address a.
LEMMA SameTables ==
    ASSUME Types, NEW p \in Enumerators, KeptTables(p), NEW a,
           UNCHANGED <<power, snapshot>>, known'[p] = known[p], online'[p] = online[p],
           \A b \in Boxes : addr'[b] \in {addr[b], 0} \/ (uid[p] = b /\ at[p] = a /\ addr'[b] = a),
           addr' = addr \/ pc[p] \in Assigning \/ \A b \in Boxes : addr'[b] \in {addr[b], 0},
           pc'[p] \in Assigning => pc[p] \in Assigning /\ uid'[p] = uid[p] /\ at'[p] = at[p],
           pc'[p] \in {"query", "startApp", "verifyApp"} =>
             /\ pc[p] \in {"query", "startApp", "verifyApp"}
             /\ \A x \in Addresses : x >= at'[p] => x >= at[p]
    PROVE  KeptTables(p)'
<1>1. power \subseteq Boxes
  BY DEF Types, TypeOK
<1>2. Entries(p)' /\ Kept(p)'
  BY DEF KeptTables, Entries, Kept
<1>3. ASSUME NEW y \in Addresses, known[p][y] \notin {None, snapshot[y]}
      PROVE  addr'[known[p][y]] \in {0, y}
  BY <1>1, <1>3 DEF KeptTables, Entered
<1>4. Entered(p)'
  BY <1>3 DEF KeptTables, Entered
<1>. QED BY <1>2, <1>4 DEF KeptTables

LEMMA NextAddressForward ==
    ASSUME Types, NEW p \in Enumerators, NEW table, NextAddress(p, table)
    PROVE  /\ pc'[p] \in {"query", "discover", "finish"}
           /\ pc'[p] = "query" => \A x \in Addresses : x >= at'[p] => x >= at[p] /\ x # at[p]
<1>1. \/ pc'[p] \in {"discover", "finish"}
      \/ pc'[p] = "query" /\ at'[p] = at[p] + 1
  BY DEF NextAddress, AfterOnline, Types, TypeOK
<1>2. at[p] \in Nat /\ Addresses \subseteq Nat
  BY ConstantsAssumption DEF Types, TypeOK, Addresses
<1>3. ASSUME NEW x \in Addresses PROVE x >= at[p] + 1 => x >= at[p] /\ x # at[p]
  <2>1. x \in Nat
    BY <1>2
  <2>. QED BY <1>2, <2>1
<1>. QED BY <1>1, <1>3

\* A box that answers is entered at the address it has; what it is entered
\* instead of, and what is taken back elsewhere, was of no box that is off.
LEMMA RememberKept ==
    ASSUME Types, NEW p \in Enumerators, KeptTables(p), UNCHANGED <<power, addr, snapshot>>,
           NEW a \in Addresses, a = at[p], NEW b \in Boxes, b \in power, addr[b] = a,
           known'[p] = Remember(known[p], a, b), pc'[p] \notin Assigning
    PROVE  Entered(p)' /\ Kept(p)'
<1>1. known[p] \in Tables /\ a # 0 /\ b # None
  BY ConstantsAssumption DEF Types, TypeOK, Addresses
<1>2. \A x \in Addresses : x # a /\ known[p][x] = b => known[p][x] = snapshot[x]
  BY <1>1, ConstantsAssumption DEF KeptTables, Entered
<1>3. \A x \in Addresses : known'[p][x] = IF x = a THEN b
                                          ELSE IF known[p][x] = b THEN None ELSE known[p][x]
  BY DEF Remember
<1>4. Entered(p)'
  <2> SUFFICES ASSUME NEW y \in Addresses, known'[p][y] \notin {None, snapshot[y]}
               PROVE  /\ known'[p][y] \in power /\ addr[known'[p][y]] \in {0, y}
                      /\ \A x \in Addresses : known'[p][x] = known'[p][y] => x = y
    BY DEF Entered
  <2>1. CASE y = a
    BY <1>1, <1>3, <2>1
  <2>2. CASE y # a
    <3>1. known'[p][y] = known[p][y] /\ known[p][y] # b
      BY <1>3, <2>2
    <3>2. /\ known[p][y] \in power /\ addr[known[p][y]] \in {0, y}
          /\ \A x \in Addresses : known[p][x] = known[p][y] => x = y
      BY <3>1 DEF KeptTables, Entered
    <3>. QED BY <1>3, <3>1, <3>2
  <2>. QED BY <2>1, <2>2
<1>5. Kept(p)'
  <2> SUFFICES ASSUME NEW x \in Occupied(snapshot), snapshot[x] \notin power
               PROVE  known'[p][x] # None
    BY DEF Kept
  <2>1. x \in Addresses /\ snapshot[x] # b /\ known[p][x] # None
    BY DEF Occupied, KeptTables, Kept
  <2>. QED BY <1>1, <1>2, <1>3, <2>1
<1>. QED BY <1>4, <1>5

\* A query of the address tells who has it.
LEMMA AnsweredAt ==
    ASSUME BusInv, ~overlap, NEW p \in Enumerators, NEW b \in Boxes, Query(at[p], b),
           UNCHANGED <<power, addr>>
    PROVE  at[p] \in Addresses /\ b \in power /\ addr[b] = at[p]
<1>1. at[p] \in Addresses /\ b # None
  BY ConstantsAssumption DEF BusInv, Types, TypeOK
<1>. QED BY <1>1, QueryTells

\* A box that is found is entered in both tables.
LEMMA FoundKept ==
    ASSUME BusInv, ~overlap, NEW p \in Enumerators, KeptTables(p), NEW b \in Boxes,
           Query(at[p], b), SetOnline(p, at[p], b), UNCHANGED <<power, addr, snapshot>>,
           pc'[p] \in {"query", "discover", "finish"},
           pc'[p] = "query" =>
             /\ pc[p] \in {"query", "startApp", "verifyApp"}
             /\ \A x \in Addresses : x >= at'[p] => x >= at[p] /\ x # at[p]
    PROVE  KeptTables(p)'
<1>0. at[p] \in Addresses /\ b \in power /\ addr[b] = at[p]
  BY AnsweredAt
<1>1. /\ known'[p] = Remember(known[p], at[p], b) /\ online'[p] = [online[p] EXCEPT ![at[p]] = b]
      /\ online[p] \in Tables
  BY DEF SetOnline, BusInv, Types, TypeOK
<1>2. Entered(p)' /\ Kept(p)'
  BY <1>0, <1>1, RememberKept DEF BusInv, Assigning
<1>3. Entries(p)'
  BY <1>0, <1>1 DEF KeptTables, Entries, Remember, Tables
<1>. QED BY <1>2, <1>3 DEF KeptTables

LEMMA QueryingKept ==
    ASSUME BusInv, KeptInv, NEW p \in Enumerators,
           QueryNone(p) \/ QueryApp(p) \/ QueryLoader(p) \/ StartApp(p) \/ VerifyApp(p)
    PROVE  KeptInv'
<1>0. Enumerate(p) /\ Types /\ UNCHANGED <<power, snapshot>>
      /\ pc[p] \in {"query", "startApp", "verifyApp"} /\ at[p] \in Addresses
  BY DEF Enumerate, QueryNone, QueryApp, QueryLoader, StartApp, VerifyApp, BusInv, Types, TypeOK,
         boxVars, hostVars
<1> SUFFICES ASSUME ~overlap, KeptTables(p) PROVE KeptTables(p)'
  BY <1>0, KeptStep
<1>1. CASE QueryNone(p)
  <2>1. UNCHANGED <<addr, known, online>> /\ NextAddress(p, online[p])
    BY <1>1 DEF QueryNone, boxVars
  <2>. QED BY <1>0, <2>1, NextAddressForward, SameTables DEF Assigning
<1>2. CASE QueryApp(p)
  <2>1. PICK b \in Boxes \ loader : Query(at[p], b) /\ SetOnline(p, at[p], b)
    BY <1>2 DEF QueryApp
  <2>2. UNCHANGED addr /\ NextAddress(p, online'[p])
    BY <1>2 DEF QueryApp, boxVars
  <2>. QED BY <1>0, <2>1, <2>2, NextAddressForward, FoundKept
<1>3. CASE QueryLoader(p)
  <2>1. PICK b \in loader : /\ Query(at[p], b) /\ b \in Boxes
                            /\ known'[p] = Remember(known[p], at[p], b)
    BY <1>3 DEF QueryLoader, BusInv, Types, TypeOK
  <2>2. UNCHANGED <<addr, at, online>> /\ pc'[p] = "startApp"
    BY <1>3 DEF QueryLoader, boxVars, BusInv, Types, TypeOK
  <2>3. b \in power /\ addr[b] = at[p]
    BY <1>0, <2>1, <2>2, AnsweredAt
  <2>4. Entered(p)' /\ Kept(p)'
    BY <1>0, <2>1, <2>2, <2>3, RememberKept DEF Assigning
  <2>5. \A a \in Addresses : a >= at[p] => online[p][a] = None
    BY <1>0 DEF KeptTables, Entries
  <2>6. at[p] >= at[p]
    BY <1>0, ConstantsAssumption DEF Addresses
  <2>7. Entries(p)'
    BY <1>0, <2>1, <2>2, <2>5, <2>6 DEF KeptTables, Entries, Remember
  <2>. QED BY <2>4, <2>7 DEF KeptTables
<1>4. CASE StartApp(p)
  <2>1. /\ UNCHANGED <<known, online, at>> /\ pc'[p] = "verifyApp" /\ StartApps(at[p])
    BY <1>4 DEF StartApp, BusInv, Types, TypeOK
  <2>2. \A b \in Boxes : addr'[b] \in {addr[b], 0}
    BY <1>0, <2>1, StartTells
  <2>. QED BY <1>0, <2>1, <2>2, SameTables DEF Assigning
<1>5. CASE VerifyApp(p)
  <2>1. PICK b \in Boxes \cup {None} :
          /\ Query(at[p], b)
          /\ IF b = uid[p] /\ b \notin loader
             THEN SetOnline(p, at[p], b) ELSE UNCHANGED <<known, online>>
    BY <1>5 DEF VerifyApp
  <2>2. UNCHANGED addr /\ NextAddress(p, online'[p]) /\ uid[p] \in Boxes
    BY <1>5 DEF VerifyApp, boxVars, BusInv, Types, Working
  <2>3. CASE b = uid[p] /\ b \notin loader
    BY <1>0, <2>1, <2>2, <2>3, NextAddressForward, FoundKept
  <2>4. CASE ~(b = uid[p] /\ b \notin loader)
    BY <1>0, <2>1, <2>2, <2>4, NextAddressForward, SameTables DEF Assigning
  <2>. QED BY <2>3, <2>4
<1>. QED BY <1>1, <1>2, <1>3, <1>4, <1>5

\* A box that was entered at an address and lost it is given that address again.
LEMMA DiscoverKept ==
    ASSUME BusInv, KeptInv, NEW p \in Enumerators, DiscoverBox(p)
    PROVE  KeptInv'
<1>0. /\ Enumerate(p) /\ Types /\ UNCHANGED <<power, addr, snapshot, known, online>>
      /\ pc[p] \in {"discover", "discoverRetry"}
  BY DEF Enumerate, DiscoverBox, BusInv, boxVars, hostVars
<1> SUFFICES ASSUME ~overlap, cycled[p] = {}, KeptTables(p) PROVE KeptTables(p)'
  BY <1>0, KeptStep
<1>1. PICK b \in Boxes :
        /\ Discover(b)
        /\ \/ pc' = [pc EXCEPT ![p] = "finish"]
           \/ /\ pc' = [pc EXCEPT ![p] = IF b \in loader THEN "assignLoader" ELSE "assign"]
              /\ uid' = [uid EXCEPT ![p] = b]
              /\ at' = [at EXCEPT ![p] = CHOOSE a \in Target(p, b) : TRUE]
  BY DEF DiscoverBox
<1>2. addr[b] = 0 /\ b \notin cycled[p] /\ Found(p)
  BY <1>0, <1>1, ConstantsAssumption DEF Discover, Answering, BusInv
<1>3. CASE pc' = [pc EXCEPT ![p] = "finish"]
  <2>1. pc'[p] = "finish"
    BY <1>0, <1>3 DEF Types, TypeOK
  <2>. QED BY <1>0, <2>1, SameTables DEF Assigning
<1>4. CASE pc' # [pc EXCEPT ![p] = "finish"]
  <2>1. /\ pc'[p] \in {"assignLoader", "assign"} /\ uid'[p] = b
        /\ at'[p] = CHOOSE a \in Target(p, b) : TRUE
    BY <1>0, <1>1, <1>4 DEF Types, TypeOK
  <2>2. ASSUME NEW y \in Addresses, known[p][y] \notin {None, snapshot[y]}, known[p][y] = b
        PROVE  at'[p] = y
    <3>1. \A x \in Addresses : known[p][x] = b => x = y
      BY <2>2 DEF KeptTables, Entered
    <3>2. y \notin Occupied(online[p])
      <4> SUFFICES ASSUME online[p][y] = b PROVE FALSE
        BY <2>2 DEF Occupied, KeptTables, Entries
      <4>1. y \in Occupied(online[p]) /\ y # 0
        BY <2>2, ConstantsAssumption DEF Occupied, Addresses
      <4>. QED BY <1>2, <4>1 DEF Found
    <3>3. Preferred(p, b) = {y}
      BY <2>2, <3>1, <3>2 DEF Preferred
    <3>4. y \in Nat
      BY ConstantsAssumption DEF Addresses
    <3>5. Min({y}) = y
      BY <3>4, MinAmong
    <3>6. Target(p, b) = {y}
      BY <3>3, <3>5 DEF Target
    <3>. QED BY <2>1, <3>6
  <2>3. Entered(p)'
    BY <1>0, <2>1, <2>2 DEF KeptTables, Entered
  <2>4. Entries(p)' /\ Kept(p)'
    BY <1>0, <2>1 DEF KeptTables, Entries, Kept
  <2>. QED BY <2>3, <2>4 DEF KeptTables
<1>. QED BY <1>3, <1>4

LEMMA AssigningKept ==
    ASSUME BusInv, KeptInv, NEW p \in Enumerators,
           \/ DiscoverNone(p) \/ AssignLoader(p) \/ StartLoader(p) \/ AssignAddress(p)
           \/ Fallback(p) \/ Verify(p)
    PROVE  KeptInv'
<1>0. /\ Enumerate(p) /\ Types /\ UNCHANGED <<power, snapshot>>
      /\ (pc[p] \in Assigning => at[p] \in Addresses /\ uid[p] \in Boxes)
  BY DEF Enumerate, DiscoverNone, AssignLoader, StartLoader, AssignAddress, Fallback, Verify,
         BusInv, Types, TypeOK, boxVars, hostVars, Assigning, Working
<1> SUFFICES ASSUME ~overlap, KeptTables(p) PROVE KeptTables(p)'
  BY <1>0, KeptStep
<1>1. CASE DiscoverNone(p)
  <2>1. UNCHANGED <<addr, known, online>> /\ pc'[p] \in {"discoverRetry", "finish"}
    BY <1>1 DEF DiscoverNone, boxVars, BusInv, Types, TypeOK
  <2>. QED BY <1>0, <2>1, SameTables DEF Assigning
<1>2. CASE AssignLoader(p) \/ AssignAddress(p)
  <2>1. /\ UNCHANGED <<known, online, at, uid>> /\ pc[p] \in Assigning /\ pc'[p] \in Assigning
        /\ \E answered : Assign(uid[p], at[p], answered)
    BY <1>2 DEF AssignLoader, AssignAddress, Assigning, BusInv, Types, TypeOK
  <2>2. \A b \in Boxes : addr'[b] = addr[b] \/ (uid[p] = b /\ addr'[b] = at[p])
    BY <1>0, <2>1, AssignTells
  <2>. QED BY <1>0, <2>1, <2>2, SameTables DEF Assigning
<1>3. CASE StartLoader(p)
  <2>1. /\ UNCHANGED <<known, online, at, uid>> /\ pc[p] = "startLoader" /\ pc'[p] = "assign"
        /\ StartApps(at[p])
    BY <1>3 DEF StartLoader, BusInv, Types, TypeOK
  <2>2. \A b \in Boxes : addr'[b] \in {addr[b], 0}
    BY <1>0, <2>1, StartTells DEF Assigning
  <2>. QED BY <1>0, <2>1, <2>2, SameTables DEF Assigning
<1>4. CASE Fallback(p)
  <2>1. /\ UNCHANGED <<addr, known, online, at, uid>> /\ pc[p] \in Assigning
        /\ pc'[p] \in {"verify", "finish"}
    BY <1>4 DEF Fallback, boxVars, Assigning, BusInv, Types, TypeOK
  <2>. QED BY <1>0, <2>1, SameTables DEF Assigning
<1>5. CASE Verify(p)
  <2>1. PICK b \in Boxes \cup {None} :
          /\ Query(at[p], b)
          /\ \/ /\ b = uid[p] /\ SetOnline(p, at[p], b) /\ pc'[p] \in {"discover", "finish"}
             \/ pc'[p] = "finish" /\ UNCHANGED <<known, online>>
    BY <1>5 DEF Verify, AfterOnline, BusInv, Types, TypeOK
  <2>2. UNCHANGED addr /\ uid[p] \in Boxes
    BY <1>0, <1>5 DEF Verify, boxVars, Assigning
  <2>3. CASE b = uid[p] /\ SetOnline(p, at[p], b) /\ pc'[p] \in {"discover", "finish"}
    BY <1>0, <2>1, <2>2, <2>3, FoundKept
  <2>4. CASE pc'[p] = "finish" /\ UNCHANGED <<known, online>>
    BY <1>0, <2>2, <2>4, SameTables DEF Assigning
  <2>. QED BY <2>1, <2>3, <2>4
<1>. QED BY <1>1, <1>2, <1>3, <1>4, <1>5

LEMMA NextKept == BusInv /\ KeptInv /\ [Next]_vars => KeptInv'
<1> SUFFICES ASSUME BusInv, KeptInv, [Next]_vars PROVE KeptInv'
  OBVIOUS
<1>1. ASSUME NEW p \in Enumerators, Finish(p) PROVE KeptInv'
  <2>1. Enumerate(p) /\ pc'[p] = "idle"
    BY <1>1 DEF Finish, Enumerate, BusInv, Types, TypeOK
  <2>. QED BY <2>1, KeptStep
<1>2. ASSUME NEW p \in Enumerators, SerialReady(p) \/ CmdEnumerate(p) PROVE KeptInv'
  <2>1. /\ UNCHANGED <<power, addr, snapshot>> /\ known'[p] = snapshot /\ online'[p] = NoTable
        /\ pc' = [pc EXCEPT ![p] = "query"]
        /\ overlap' = (overlap \/ \E q \in Enumerators : pc[q] # "idle")
    BY <1>2 DEF SerialReady, CmdEnumerate, Begin, boxVars, BusInv, Types, TypeOK
  <2>2. ~overlap' => \A q \in Enumerators : q # p => pc'[q] = "idle"
    BY <2>1 DEF BusInv, Types, TypeOK
  <2>3. Entered(p)' /\ Entries(p)' /\ Kept(p)'
    BY <2>1 DEF Entered, Entries, Kept, NoTable, Occupied
  <2>. QED BY <2>2, <2>3 DEF KeptInv
<1>3. ASSUME NEW b \in Boxes, PowerOff(b) PROVE KeptInv'
  <2>1. \A p \in Enumerators : cycled'[p] # {}
    BY <1>3 DEF PowerOff
  <2>. QED BY <2>1 DEF KeptInv
<1>4. ASSUME NEW b \in Boxes, PowerOn(b) PROVE KeptInv'
  <2>1. /\ power \subseteq power' /\ UNCHANGED <<addr, snapshot, known, online, pc, at, uid, cycled, overlap>>
    BY <1>4 DEF PowerOn, hostVars, localVars, boundVars
  <2>. QED BY <2>1 DEF KeptInv, Entered, Entries, Kept
<1>5. CASE UNCHANGED vars
  BY <1>5 DEF vars, boxVars, hostVars, localVars, boundVars, KeptInv, Entered, Entries, Kept
<1>. QED BY <1>1, <1>2, <1>3, <1>4, <1>5, QueryingKept, DiscoverKept, AssigningKept
         DEF Next, Enumerate

\* The identities of boxes that are switched off keep their saved addresses,
\* unless another box has one of them, whichever boxes answer, fail to answer or
\* forget their addresses.
THEOREM OfflineBoxesKept == Spec => PersistedKept
<1>1. Init => KeptInv
  BY DEF Init, KeptInv
<1>2. BusInv /\ KeptInv /\ [Next]_vars =>
        [\A p \in Enumerators :
           Finish(p) /\ cycled[p] = {} /\ ~overlap /\ store = snapshot =>
               \A a \in Occupied(store) : store[a] \notin power => store'[a] # None]_vars
  BY DEF KeptInv, Kept, Finish
<1>3. Spec => [](BusInv /\ KeptInv)
  BY <1>1, InitBus, NextBus, NextKept, PTL DEF Spec
<1>. QED BY <1>2, <1>3, PTL DEF Spec, PersistedKept
=============================================================================
