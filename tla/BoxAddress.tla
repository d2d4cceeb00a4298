---------------------------- MODULE BoxAddress ----------------------------
(***************************************************************************)
(* Discovery and address assignment of the filament boxes                  *)
(* (extras/box_addr.py) and the part of extras/box.py that starts it and   *)
(* keeps its result.  An enumeration queries every address, then discovers *)
(* unaddressed boxes one at a time and gives each an address.  It waits at *)
(* every exchange with the bus, so that answers are lost, boxes are        *)
(* switched off and on, and BOX_ENUMERATE starts another enumeration in    *)
(* between.                                                                *)
(***************************************************************************)
EXTENDS Integers, FiniteSets, FiniteSetsExt

CONSTANTS
    Boxes,          \* identities (uniid)
    None,           \* no box
    MaxAddress,     \* MAX_ADDRESSES
    TargetCount,    \* box_count
    Enumerators,    \* greenlets that may run _enumerate at the same time
    Bounds          \* what one behaviour may have at most: exchanges that get
                    \* lost, boxes switched off and enumerations, after a start
                    \* with one of the saved tables

Addresses == 1..MaxAddress
Tables == [Addresses -> Boxes \cup {None}]

ASSUME ConstantsAssumption ==
    /\ None \notin Boxes
    /\ MaxAddress \in Nat \ {0} /\ TargetCount \in Addresses
    /\ Bounds \subseteq [losses : Nat, cycles : Nat, runs : Nat, saved : SUBSET Tables]

VARIABLES
    power,      \* boxes that are switched on
    addr,       \* the address a box answers to, 0 without one
    loader,     \* boxes that run their boot loader
    store,      \* BoxStore: saved addresses
    snapshot,   \* AutoAddressManager._known_input
    started,    \* enumeration_started
    drivers,    \* Box.drivers, by address
    pc,         \* per enumeration: the exchange it makes next
    at,         \* per enumeration: the address it works on
    uid,        \* per enumeration: the box it works on
    known,      \* per enumeration: known
    online,     \* per enumeration: online (its domain is also occupied)
    seen,       \* per enumeration: seen_discoveries
    losses, cycles, runs,   \* what is left of the bounds
    unheard,    \* history: addresses at which an exchange was lost
    overlap,    \* history: two enumerations ran at the same time
    cycled      \* history, per enumeration: boxes switched off since it began

boxVars == <<power, addr, loader>>
hostVars == <<store, snapshot, started, drivers>>
localVars == <<pc, at, uid, known, online, seen>>
boundVars == <<cycles, runs, overlap, cycled>>
lossVars == <<losses, unheard>>
vars == <<boxVars, hostVars, localVars, boundVars, lossVars>>

NoTable == [a \in Addresses |-> None]

Places == {"idle", "query", "startApp", "verifyApp", "discover", "discoverRetry",
           "assignLoader", "startLoader", "assign", "fallback", "verify", "finish"}

TypeOK ==
    /\ power \subseteq Boxes /\ loader \subseteq Boxes
    /\ addr \in [Boxes -> 0..MaxAddress]
    /\ store \in Tables /\ snapshot \in Tables /\ drivers \in Tables
    /\ started \in BOOLEAN
    /\ pc \in [Enumerators -> Places]
    /\ at \in [Enumerators -> Addresses]
    /\ uid \in [Enumerators -> Boxes \cup {None}]
    /\ known \in [Enumerators -> Tables] /\ online \in [Enumerators -> Tables]
    /\ seen \in [Enumerators -> SUBSET Boxes]
    /\ losses \in Nat /\ cycles \in Nat /\ runs \in Nat
    /\ unheard \subseteq Addresses /\ overlap \in BOOLEAN
    /\ cycled \in [Enumerators -> SUBSET Boxes]

Occupied(table) == {a \in Addresses : table[a] # None}

Init ==
    /\ power \in SUBSET Boxes /\ loader \in SUBSET power
    /\ addr \in [Boxes -> 0..MaxAddress]
    /\ \A b, c \in Boxes : b # c => addr[b] = 0 \/ addr[b] # addr[c]
    /\ \A b \in Boxes \ power : addr[b] = 0
    /\ \E x \in Bounds :
         /\ losses = x.losses /\ cycles = x.cycles /\ runs = x.runs
         /\ store \in x.saved
    /\ snapshot = store
    /\ started = FALSE /\ drivers = NoTable
    /\ pc = [p \in Enumerators |-> "idle"] /\ at = [p \in Enumerators |-> 1]
    /\ uid = [p \in Enumerators |-> None]
    /\ known = [p \in Enumerators |-> NoTable] /\ online = [p \in Enumerators |-> NoTable]
    /\ seen = [p \in Enumerators |-> {}]
    /\ unheard = {} /\ overlap = FALSE /\ cycled = [p \in Enumerators |-> {}]

-----------------------------------------------------------------------------
(* The bus.                                                                *)

Loaders == power \cap loader

\* the boxes that answer to an address: two of them garble each other's reply
Answering(a) == {b \in power : addr[b] = a}

\* an exchange with box b at address a is lost
LoseAt(a) ==
    /\ losses > 0
    /\ losses' = losses - 1 /\ unheard' = unheard \cup {a}

\* client.query: the box that answers, or None
Query(a, b) ==
    \/ Answering(a) = {b} /\ UNCHANGED lossVars
    \/ b = None /\ Cardinality(Answering(a)) # 1 /\ UNCHANGED lossVars
    \/ b = None /\ Cardinality(Answering(a)) = 1 /\ LoseAt(a)

\* client.discover: some box without an address, or None
Discover(b) ==
    \/ b \in Answering(0) /\ UNCHANGED lossVars
    \/ b = None /\ Answering(0) = {} /\ UNCHANGED lossVars
    \/ /\ b = None /\ Answering(0) # {} /\ losses > 0
       /\ losses' = losses - 1 /\ UNCHANGED unheard

\* client.assign: the box takes the address if the request reaches it, and
\* the answer may still be lost
Assign(b, a, answered) ==
    \/ /\ b \in power /\ addr' = [addr EXCEPT ![b] = a]
       /\ \/ answered = TRUE /\ UNCHANGED lossVars
          \/ answered = FALSE /\ LoseAt(a)
    \/ b \in power /\ answered = FALSE /\ LoseAt(a) /\ UNCHANGED addr
    \/ b \notin power /\ answered = FALSE /\ UNCHANGED <<addr, lossVars>>

\* client.start_app, a broadcast: boot loaders start their application, which
\* may have forgotten the address
StartApps(a) ==
    \/ /\ loader' = loader \ power
       /\ \E kept \in SUBSET Loaders :
            addr' = [b \in Boxes |-> IF b \in Loaders \ kept THEN 0 ELSE addr[b]]
       /\ UNCHANGED lossVars
    \/ LoseAt(a) /\ UNCHANGED <<loader, addr>>

\* a box is switched off, or comes back without an address
PowerOff(b) ==
    /\ b \in power /\ cycles > 0
    /\ cycles' = cycles - 1
    /\ power' = power \ {b} /\ addr' = [addr EXCEPT ![b] = 0]
    /\ cycled' = [p \in Enumerators |-> cycled[p] \cup {b}]
    /\ UNCHANGED <<loader, hostVars, localVars, lossVars, runs, overlap>>

PowerOn(b) ==
    /\ b \notin power
    /\ power' = power \cup {b}
    /\ loader' \in {loader \cup {b}, loader \ {b}}
    /\ UNCHANGED <<addr, hostVars, localVars, boundVars, lossVars>>

-----------------------------------------------------------------------------
(* Starting an enumeration and keeping its result (box.py).                *)

\* mutant: an enumeration starts with no saved identities
BeginEmpty(p) ==
    /\ pc[p] = "idle" /\ runs > 0
    /\ runs' = runs - 1
    /\ started' = TRUE
    /\ pc' = [pc EXCEPT ![p] = "query"]
    /\ at' = [at EXCEPT ![p] = 1]
    /\ known' = [known EXCEPT ![p] = NoTable]
    /\ online' = [online EXCEPT ![p] = NoTable]
    /\ seen' = [seen EXCEPT ![p] = {}]
    /\ overlap' = (overlap \/ \E q \in Enumerators : pc[q] # "idle")
    /\ cycled' = [cycled EXCEPT ![p] = {}]
    /\ UNCHANGED <<boxVars, store, snapshot, drivers, uid, cycles, lossVars>>

\* _enumerate up to its first exchange: dict(self._known_input)
Begin(p) ==
    /\ pc[p] = "idle" /\ runs > 0
    /\ runs' = runs - 1
    /\ started' = TRUE
    /\ pc' = [pc EXCEPT ![p] = "query"]
    /\ at' = [at EXCEPT ![p] = 1]
    /\ uid' = [uid EXCEPT ![p] = None]
    /\ known' = [known EXCEPT ![p] = snapshot]
    /\ online' = [online EXCEPT ![p] = NoTable]
    /\ seen' = [seen EXCEPT ![p] = {}]
    /\ overlap' = (overlap \/ \E q \in Enumerators : pc[q] # "idle")
    /\ cycled' = [cycled EXCEPT ![p] = {}]
    /\ UNCHANGED <<boxVars, store, snapshot, drivers, cycles, lossVars>>

\* serial_485:ready starts one enumeration ...
SerialReady(p) == ~started /\ Begin(p)

\* ... and BOX_ENUMERATE another, whether or not one is running
CmdEnumerate(p) == started /\ Begin(p)

\* _enumerate after address_manager.enumerate returned
Finish(p) ==
    /\ pc[p] = "finish"
    /\ store' = known[p]
    /\ drivers' = online[p]
    /\ started' = (Occupied(online[p]) # {} /\ started)
    /\ pc' = [pc EXCEPT ![p] = "idle"]
    /\ UNCHANGED <<boxVars, snapshot, at, uid, known, online, seen, boundVars, lossVars>>

-----------------------------------------------------------------------------
(* Querying the addresses.                                                 *)

\* mutant: the other addresses of the box are kept
RememberAlso(table, a, b) == [table EXCEPT ![a] = b]

\* _remember: the box is known at this address only
Remember(table, a, b) ==
    [x \in Addresses |-> IF x = a THEN b ELSE IF table[x] = b THEN None ELSE table[x]]

Full(table) == Cardinality(Occupied(table)) >= TargetCount

\* the top of the discovery loop
AfterOnline(table) == IF Full(table) THEN "finish" ELSE "discover"

\* the next turn of the loop over the addresses
NextAddress(p, table) ==
    IF Full(table) \/ at[p] = MaxAddress
    THEN /\ pc' = [pc EXCEPT ![p] = AfterOnline(table)]
         /\ UNCHANGED at
    ELSE /\ pc' = [pc EXCEPT ![p] = "query"]
         /\ at' = [at EXCEPT ![p] = @ + 1]

SetOnline(p, a, b) ==
    /\ known' = [known EXCEPT ![p] = Remember(@, a, b)]
    /\ online' = [online EXCEPT ![p][a] = b]

QueryNone(p) ==
    /\ pc[p] = "query" /\ Query(at[p], None)
    /\ NextAddress(p, online[p])
    /\ UNCHANGED <<boxVars, hostVars, uid, known, online, seen, boundVars>>

QueryApp(p) ==
    /\ pc[p] = "query"
    /\ \E b \in Boxes \ loader : Query(at[p], b) /\ SetOnline(p, at[p], b)
    /\ NextAddress(p, online'[p])
    /\ UNCHANGED <<boxVars, hostVars, uid, seen, boundVars>>

QueryLoader(p) ==
    /\ pc[p] = "query"
    /\ \E b \in loader :
        /\ Query(at[p], b)
        /\ uid' = [uid EXCEPT ![p] = b]
        /\ known' = [known EXCEPT ![p] = Remember(@, at[p], b)]
    /\ pc' = [pc EXCEPT ![p] = "startApp"]
    /\ UNCHANGED <<boxVars, hostVars, at, online, seen, boundVars>>

StartApp(p) ==
    /\ pc[p] = "startApp" /\ StartApps(at[p])
    /\ pc' = [pc EXCEPT ![p] = "verifyApp"]
    /\ UNCHANGED <<power, hostVars, at, uid, known, online, seen, boundVars>>

\* no answer, another box, or still in loader mode: the address is skipped
VerifyApp(p) ==
    /\ pc[p] = "verifyApp"
    /\ \E b \in Boxes \cup {None} :
        /\ Query(at[p], b)
        /\ IF b = uid[p] /\ b \notin loader
           THEN SetOnline(p, at[p], b)
           ELSE UNCHANGED <<known, online>>
    /\ NextAddress(p, online'[p])
    /\ UNCHANGED <<boxVars, hostVars, uid, seen, boundVars>>

-----------------------------------------------------------------------------
(* Discovering boxes and assigning addresses.                              *)

Preferred(p, b) == {a \in Addresses : known[p][a] = b} \ Occupied(online[p])

\* mutant: free is what the previous enumeration left free
FirstFreeStale(p) == Addresses \ Occupied(drivers)

\* _first_free_address takes the least of these
FirstFree(p) == Addresses \ Occupied(online[p])

\* the address for a discovered box, if any is left
Target(p, b) ==
    IF Preferred(p, b) # {} THEN {Min(Preferred(p, b))}
    ELSE IF FirstFree(p) # {} THEN {Min(FirstFree(p))} ELSE {}

DiscoverNone(p) ==
    /\ pc[p] \in {"discover", "discoverRetry"}
    /\ Discover(None)
    /\ pc' = [pc EXCEPT ![p] =
           IF pc[p] = "discover" /\ Occupied(online[p]) = {} THEN "discoverRetry" ELSE "finish"]
    /\ UNCHANGED <<boxVars, hostVars, at, uid, known, online, seen, boundVars>>

DiscoverBox(p) ==
    /\ pc[p] \in {"discover", "discoverRetry"}
    /\ \E b \in Boxes :
        /\ Discover(b)
        /\ IF b \in seen[p] \/ Target(p, b) = {}
           THEN /\ pc' = [pc EXCEPT ![p] = "finish"]
                /\ UNCHANGED <<at, uid, seen>>
           ELSE /\ uid' = [uid EXCEPT ![p] = b]
                /\ seen' = [seen EXCEPT ![p] = @ \cup {b}]
                /\ at' = [at EXCEPT ![p] = CHOOSE a \in Target(p, b) : TRUE]
                /\ pc' = [pc EXCEPT ![p] = IF b \in loader THEN "assignLoader" ELSE "assign"]
    /\ UNCHANGED <<boxVars, hostVars, known, online, boundVars>>

\* a box in loader mode is addressed before and after its application starts
AssignLoader(p) ==
    /\ pc[p] = "assignLoader"
    /\ \E answered \in BOOLEAN : Assign(uid[p], at[p], answered)
    /\ pc' = [pc EXCEPT ![p] = "startLoader"]
    /\ UNCHANGED <<power, loader, hostVars, at, uid, known, online, seen, boundVars>>

StartLoader(p) ==
    /\ pc[p] = "startLoader" /\ StartApps(at[p])
    /\ pc' = [pc EXCEPT ![p] = "assign"]
    /\ UNCHANGED <<power, hostVars, at, uid, known, online, seen, boundVars>>

AssignAddress(p) ==
    /\ pc[p] = "assign"
    /\ \E answered \in BOOLEAN :
        /\ Assign(uid[p], at[p], answered)
        /\ pc' = [pc EXCEPT ![p] = IF answered THEN "verify" ELSE "fallback"]
    /\ UNCHANGED <<power, loader, hostVars, at, uid, known, online, seen, boundVars>>

\* the assignment was not answered: ask the address who is there
Fallback(p) ==
    /\ pc[p] = "fallback"
    /\ \E b \in Boxes \cup {None} :
        /\ Query(at[p], b)
        /\ pc' = [pc EXCEPT ![p] = IF b = uid[p] THEN "verify" ELSE "finish"]
    /\ UNCHANGED <<boxVars, hostVars, at, uid, known, online, seen, boundVars>>

\* mutant: the assignment is believed without asking
VerifyNothing(p) ==
    /\ pc[p] = "verify"
    /\ SetOnline(p, at[p], uid[p])
    /\ pc' = [pc EXCEPT ![p] = AfterOnline(online'[p])]
    /\ UNCHANGED <<boxVars, hostVars, at, uid, seen, boundVars, lossVars>>

Verify(p) ==
    /\ pc[p] = "verify"
    /\ \E b \in Boxes \cup {None} :
        /\ Query(at[p], b)
        /\ IF b = uid[p] /\ b \notin loader
           THEN /\ SetOnline(p, at[p], b)
                /\ pc' = [pc EXCEPT ![p] = AfterOnline(online'[p])]
           ELSE /\ pc' = [pc EXCEPT ![p] = "finish"]
                /\ UNCHANGED <<known, online>>
    /\ UNCHANGED <<boxVars, hostVars, at, uid, seen, boundVars>>

-----------------------------------------------------------------------------
Enumerate(p) ==
    \/ QueryNone(p) \/ QueryApp(p) \/ QueryLoader(p) \/ StartApp(p) \/ VerifyApp(p)
    \/ DiscoverNone(p) \/ DiscoverBox(p) \/ AssignLoader(p) \/ StartLoader(p)
    \/ AssignAddress(p) \/ Fallback(p) \/ Verify(p) \/ Finish(p)

Next ==
    \/ \E p \in Enumerators : Enumerate(p) \/ SerialReady(p) \/ CmdEnumerate(p)
    \/ \E b \in Boxes : PowerOff(b) \/ PowerOn(b)

Spec == Init /\ [][Next]_vars

-----------------------------------------------------------------------------
(* Properties.                                                             *)

\* What an enumeration believes to be online is there: a box that was not
\* switched off meanwhile still answers to the address it was found at.  Two
\* enumerations at the same time may move each other's boxes (box.py:631).
OnlineTrue ==
    \A p \in Enumerators : pc[p] # "idle" =>
        \A a \in Occupied(online[p]) :
            online[p][a] \notin cycled[p] => overlap \/ addr[online[p][a]] = a

\* Two boxes answer to one address only if an exchange at this address was
\* lost: an enumeration that runs alone never puts a box where it heard another.
NoAddressConflict ==
    \A b, c \in power : b # c /\ addr[b] = addr[c] /\ addr[b] # 0
        => addr[b] \in unheard \/ overlap

OneAddress(table) == \A a, b \in Occupied(table) : table[a] = table[b] => a = b

\* No box is saved under two addresses, whatever was found where and when.
SavedOnce == OneAddress(store)

\* Offline boxes keep their saved address until another box takes it
\* ("treating offline identities as soft reservations",
\* extras/box_addr.py:30), unless a box is found twice: because it was switched
\* off while the enumeration ran or because another enumeration moved it; or
\* unless an earlier enumeration of this session saved another table than the
\* one read at the start, which is all this one knows.
PersistedKept ==
    [][\A p \in Enumerators :
          Finish(p) /\ cycled[p] = {} /\ ~overlap /\ store = snapshot =>
              \A a \in Occupied(store) : store[a] \notin power => store'[a] # None]_vars
=============================================================================
