-------------------------- MODULE SlotSwapProofs --------------------------
(***************************************************************************)
(* Proofs about SlotSwap, for any flag circle longer than two, any         *)
(* environments the printer may have before, and any number of runs, power *)
(* cuts and updates.                                                       *)
(***************************************************************************)
EXTENDS SlotSwap, TLAPS

\* the places between the check of a swap and the end of its last write
Checked == {"quiet", "stop", "enter"} \cup Moving

Jobs == [install : BOOLEAN, fresh : BOOLEAN, seed : BOOLEAN,
         from : Images, toPair : Pairs, todo : SUBSET Names]

Types ==
    /\ kernel \in [Pairs -> Images] /\ rootfs \in [Pairs -> Images]
    /\ env \in [Devices -> Copies]
    /\ running \in Pairs \cup {None}
    /\ job \in Jobs

\* The installer writes the pair the environment does not select.
FlashesOther == pc \in InstallPlaces => job.toPair # Selected(env)

\* The pair a swap is about to select has passed its check.
TargetWhole == pc \in Checked => Whole(job.toPair) \/ fooled

\* BootsWhole needs the two facts about the pair the programs work on.
IInv == Types /\ FlashesOther /\ TargetWhole /\ BootsWhole

-----------------------------------------------------------------------------
(* The environment.                                                        *)

\* The successor of a flag is ahead of it and not behind it.
LEMMA NextFlagAhead ==
    ASSUME NEW f \in 0..(FlagModulus - 1)
    PROVE  /\ NextEnvFlag(f) \in 0..(FlagModulus - 1)
           /\ NotOlder(NextEnvFlag(f), f)
           /\ ~NotOlder(f, NextEnvFlag(f))
<1>. FlagModulus \in Nat /\ FlagModulus > 2
  BY ConstantsAssumption
<1>1. CASE f = FlagModulus - 1
  <2>1. (f + 1) % FlagModulus = 0
    BY <1>1
  <2>2. (0 - f) % FlagModulus = 1
    BY <1>1
  <2>3. (f - 0) % FlagModulus = FlagModulus - 1
    BY <1>1
  <2>. QED BY <1>1, <2>1, <2>2, <2>3 DEF NextEnvFlag, NotOlder
<1>2. CASE f # FlagModulus - 1
  <2>1. (f + 1) % FlagModulus = f + 1
    BY <1>2
  <2>2. ((f + 1) - f) % FlagModulus = 1
    OBVIOUS
  <2>3. (f - (f + 1)) % FlagModulus = FlagModulus - 1
    OBVIOUS
  <2>. QED BY <1>2, <2>1, <2>2, <2>3 DEF NextEnvFlag, NotOlder
<1>. QED BY <1>1, <1>2

\* The current copy of a readable environment is a good one.
LEMMA CurrentGood ==
    ASSUME NEW e \in [Devices -> Copies], Readable(e)
    PROVE  /\ Current(e) \in Devices /\ InactiveDevice(e) \in Devices
           /\ InactiveDevice(e) # Current(e)
           /\ e[Current(e)].ok /\ Selected(e) \in Pairs
           /\ e[Current(e)].flag \in 0..(FlagModulus - 1)
BY DEF Readable, Current, Selected, InactiveDevice, OtherDevice, Devices, Copies

\* A copy that is being written over is not current, so a power cut leaves the
\* old selection.
LEMMA TornCopyIgnored ==
    ASSUME NEW e \in [Devices -> Copies], Readable(e),
           NEW torn \in Copies, ~torn.ok
    PROVE  LET new == [e EXCEPT ![InactiveDevice(e)] = torn]
           IN  /\ new \in [Devices -> Copies] /\ Readable(new)
               /\ Selected(new) = Selected(e)
<1> DEFINE new == [e EXCEPT ![InactiveDevice(e)] = torn]
<1>1. new \in [Devices -> Copies]
  BY CurrentGood
<1>2. CASE Current(e) = "p2"
  <2>1. InactiveDevice(e) = "p3"
    BY <1>2 DEF InactiveDevice, OtherDevice
  <2>2. new["p2"] = e["p2"] /\ new["p3"] = torn
    BY <2>1 DEF Devices
  <2>3. new["p2"].ok
    BY <1>2, <2>2, CurrentGood
  <2>4. Current(new) = "p2"
    BY <2>2, <2>3 DEF Current
  <2>. QED BY <1>1, <1>2, <2>2, <2>3, <2>4 DEF Readable, Selected, Devices
<1>3. CASE Current(e) = "p3"
  <2>1. InactiveDevice(e) = "p2"
    BY <1>3 DEF InactiveDevice, OtherDevice
  <2>2. new["p3"] = e["p3"] /\ new["p2"] = torn
    BY <2>1 DEF Devices
  <2>3. new["p3"].ok
    BY <1>3, <2>2, CurrentGood
  <2>4. Current(new) = "p3"
    BY <2>2 DEF Current
  <2>. QED BY <1>1, <1>3, <2>2, <2>3, <2>4 DEF Readable, Selected, Devices
<1>. QED BY <1>2, <1>3, CurrentGood DEF Devices

\* A copy written with the next flag is the current one, whatever the copy it
\* replaces held.
LEMMA NewCopySelected ==
    ASSUME NEW e \in [Devices -> Copies], Readable(e), NEW pair \in Pairs
    PROVE  LET new == [e EXCEPT ![InactiveDevice(e)] =
                         [ok |-> TRUE, flag |-> NextEnvFlag(e[Current(e)].flag), pair |-> pair]]
           IN  /\ new \in [Devices -> Copies] /\ Readable(new)
               /\ Selected(new) = pair
<1> DEFINE flag == e[Current(e)].flag
           copy == [ok |-> TRUE, flag |-> NextEnvFlag(flag), pair |-> pair]
           new == [e EXCEPT ![InactiveDevice(e)] = copy]
<1>1. flag \in 0..(FlagModulus - 1)
  BY CurrentGood
<1>2. copy \in Copies
  BY <1>1, NextFlagAhead DEF Copies
<1>3. new \in [Devices -> Copies]
  BY <1>2, CurrentGood
<1>4. CASE Current(e) = "p2"
  <2>1. InactiveDevice(e) = "p3"
    BY <1>4 DEF InactiveDevice, OtherDevice
  <2>2. new["p2"] = e["p2"] /\ new["p3"] = copy
    BY <2>1 DEF Devices
  <2>3. ~NotOlder(new["p2"].flag, new["p3"].flag)
    BY <1>1, <1>4, <2>2, NextFlagAhead
  <2>4. Current(new) = "p3"
    BY <2>2, <2>3 DEF Current
  <2>. QED BY <1>3, <2>2, <2>4 DEF Readable, Selected, Devices
<1>5. CASE Current(e) = "p3"
  <2>1. InactiveDevice(e) = "p2"
    BY <1>5 DEF InactiveDevice, OtherDevice
  <2>2. new["p3"] = e["p3"] /\ new["p2"] = copy
    BY <2>1 DEF Devices
  <2>3. NotOlder(new["p2"].flag, new["p3"].flag)
    BY <1>1, <1>5, <2>2, NextFlagAhead
  <2>4. Current(new) = "p2"
    BY <2>2, <2>3 DEF Current
  <2>. QED BY <1>3, <2>2, <2>4 DEF Readable, Selected, Devices
<1>. QED BY <1>4, <1>5, CurrentGood DEF Devices

-----------------------------------------------------------------------------
(* The steps.                                                              *)

LEMMA InitIInv == Init => IInv
<1> SUFFICES ASSUME Init PROVE IInv
  OBVIOUS
<1>1. env \in [Devices -> Copies] /\ Readable(env)
  BY ConstantsAssumption DEF Init, Readable
<1>2. Selected(env) \in Pairs
  BY <1>1, CurrentGood
<1>3. job \in Jobs
  BY DEF Init, NoJob, Jobs, Images, Firmwares, Pairs
<1>4. kernel \in [Pairs -> Images] /\ rootfs \in [Pairs -> Images]
  BY DEF Init, Images, Firmwares
<1>5. Whole(Selected(env))
  BY <1>2 DEF Init, Whole
<1>. QED
  BY <1>1, <1>2, <1>3, <1>4, <1>5 DEF Init, IInv, Types, FlashesOther, TargetWhole,
     BootsWhole, InstallPlaces, Checked, Moving

\* A step that changes neither the partitions, the environment nor the pair of
\* the job, forgets no torn image and enters neither the places of the installer
\* nor those after the check of a swap, keeps the invariant.
LEMMA QuietStep ==
    ASSUME IInv, UNCHANGED <<partitions, env>>, fooled => fooled',
           running' \in Pairs \cup {None}, job' \in Jobs,
           pc' \in InstallPlaces => pc \in InstallPlaces /\ job'.toPair = job.toPair,
           pc' \in Checked => pc \in Checked /\ job'.toPair = job.toPair
    PROVE  IInv'
BY DEF IInv, Types, FlashesOther, TargetWhole, BootsWhole, partitions, Whole, Selected,
       Current, Readable

\* The end of a program is no place of either.
LEMMA EndedQuiet ==
    ASSUME Ended
    PROVE  pc' = "idle" /\ job' \in Jobs
BY DEF Ended, NoJob, Jobs, Images, Firmwares, Pairs

LEMMA InstallQuiet ==
    ASSUME IInv,
           \/ Stage \/ Download \/ Wipe \/ SeedClean \/ SeedBuild \/ SeedAside \/ SeedSwap
           \/ SeedDone \/ SeedFails \/ SeedBootstrap \/ InstallSwap \/ CopyStockWifi
           \/ WriteCustomEnv \/ InstallFails
    PROVE  IInv'
<1> USE DEF IInv, Types, Go, InstallPlaces, Checked, Moving, partitions, disk, machine, history
<1>1. CASE Stage
  BY <1>1, QuietStep DEF Stage
<1>2. CASE Download
  BY <1>2, QuietStep DEF Download, AfterErase
<1>3. CASE Wipe
  BY <1>3, QuietStep DEF Wipe, AfterErase
<1>4. CASE SeedClean \/ SeedBuild \/ SeedAside \/ SeedSwap \/ SeedDone
  BY <1>4, QuietStep DEF SeedClean, SeedBuild, SeedAside, SeedSwap, SeedDone
<1>5. CASE SeedFails
  BY <1>5, QuietStep, EndedQuiet DEF SeedFails
<1>6. CASE SeedBootstrap \/ InstallSwap \/ CopyStockWifi
  BY <1>6, QuietStep DEF SeedBootstrap, InstallSwap, CopyStockWifi
<1>7. CASE WriteCustomEnv
  BY <1>7, QuietStep DEF WriteCustomEnv
<1>8. CASE InstallFails
  BY <1>8, QuietStep, EndedQuiet DEF InstallFails
<1>. QED
  BY <1>1, <1>2, <1>3, <1>4, <1>5, <1>6, <1>7, <1>8

LEMMA SwapQuiet ==
    ASSUME IInv,
           \/ StartSwap \/ Refuse \/ StopWriters \/ Enter \/ Archive \/ Capture
           \/ Restore \/ SwapFails \/ Finish
    PROVE  IInv'
<1> USE DEF IInv, Types, Go, InstallPlaces, Checked, Moving, partitions, disk, machine, history
<1>1. CASE StartSwap
  <2>1. job' \in Jobs
    BY <1>1 DEF StartSwap, NoJob, Jobs, Running, Images, Firmwares, Pairs
  <2>. QED BY <1>1, <2>1, QuietStep DEF StartSwap
<1>2. CASE Refuse \/ SwapFails
  BY <1>2, QuietStep, EndedQuiet DEF Refuse, SwapFails
<1>3. CASE StopWriters
  BY <1>3, QuietStep DEF StopWriters, Quiet
<1>4. CASE Enter
  <2>1. job' \in Jobs /\ job'.toPair = job.toPair
    BY <1>4 DEF Enter, Jobs
  <2>. QED BY <1>4, <2>1, QuietStep DEF Enter
<1>5. CASE Archive
  <2>1. job' \in Jobs /\ job'.toPair = job.toPair
    BY <1>5 DEF Archive, Jobs
  <2>. QED BY <1>5, <2>1, QuietStep DEF Archive
<1>6. CASE Capture
  BY <1>6, QuietStep DEF Capture
<1>7. CASE Restore
  <2>1. job' \in Jobs /\ job'.toPair = job.toPair
    BY <1>7 DEF Restore, Jobs
  <2>. QED BY <1>7, <2>1, QuietStep DEF Restore
<1>8. CASE Finish
  BY <1>8, QuietStep, EndedQuiet DEF Finish
<1>. QED
  BY <1>1, <1>2, <1>3, <1>4, <1>5, <1>6, <1>7, <1>8

\* The installer starts only when the environment selects the pair that runs,
\* so the pair it will write is the other one.
LEMMA StartInstallStep ==
    ASSUME IInv, StartInstall
    PROVE  IInv'
<1>1. Selected(env) = running /\ running \in Pairs
  BY CurrentGood DEF StartInstall, BootContract, IInv, Types, BootsWhole
<1>2. PICK fresh \in ConfirmInstall : \E seed \in SeedHelix(fresh) :
        job' = [install |-> TRUE, fresh |-> fresh, seed |-> seed,
                from |-> "stock", toPair |-> Other(running), todo |-> {}]
  BY DEF StartInstall
<1>3. job' \in Jobs /\ job'.toPair = Other(running)
  <2>1. fresh \in BOOLEAN
    BY DEF ConfirmInstall
  <2>2. SeedHelix(fresh) \subseteq BOOLEAN
    BY DEF SeedHelix
  <2>3. Other(running) \in Pairs /\ "stock" \in Images /\ {} \subseteq Names
    BY DEF Other, Pairs, Images, Firmwares
  <2>. QED BY <1>2, <2>1, <2>2, <2>3 DEF Jobs
<1>4. UNCHANGED <<kernel, rootfs, env, running, fooled>> /\ pc' = "stage"
  BY DEF StartInstall, Go, partitions, machine, history
<1>5. Other(running) # running
  BY <1>1 DEF Other, Pairs
<1>. QED
  BY <1>1, <1>3, <1>4, <1>5 DEF IInv, Types, FlashesOther, TargetWhole, BootsWhole, Checked,
     Moving, Whole, Selected, Current, Readable

\* The partitions being written are not those of the selected pair.
LEMMA FlashStep ==
    ASSUME IInv, FlashRootfs \/ FlashKernel
    PROVE  IInv'
<1>1. pc \in InstallPlaces /\ pc' \in InstallPlaces /\ pc' \notin Checked
  BY DEF FlashRootfs, FlashKernel, Go, InstallPlaces, Checked, Moving
<1>2. UNCHANGED <<env, running, job, fooled>>
  BY DEF FlashRootfs, FlashKernel, machine, history
<1>3. job.toPair \in Pairs /\ job.toPair # Selected(env) /\ Selected(env) \in Pairs
  BY <1>1, CurrentGood DEF IInv, Types, Jobs, FlashesOther, BootsWhole
<1>4. /\ kernel' \in [Pairs -> Images] /\ kernel'[Selected(env)] = kernel[Selected(env)]
      /\ rootfs' \in [Pairs -> Images] /\ rootfs'[Selected(env)] = rootfs[Selected(env)]
  BY <1>3 DEF FlashRootfs, FlashKernel, IInv, Types, Images, Firmwares
<1>. QED
  BY <1>1, <1>2, <1>3, <1>4 DEF IInv, Types, FlashesOther, TargetWhole, BootsWhole, Whole,
     Selected, Current, Readable

\* The check before a swap lets through a whole pair, or takes a torn image for
\* a whole one.
LEMMA CheckStep ==
    ASSUME IInv, Check
    PROVE  IInv'
<1>1. snap[To] \in Pairs /\ job' = [job EXCEPT !.toPair = snap[To]]
  BY DEF Check
<1>2. job' \in Jobs /\ job'.toPair = snap[To]
  BY <1>1 DEF IInv, Types, Jobs
<1>3. Whole(snap[To]) \/ fooled'
  <2>1. CASE "torn" \in {kernel[snap[To]], rootfs[snap[To]]}
    BY <2>1 DEF Check
  <2>2. CASE "torn" \notin {kernel[snap[To]], rootfs[snap[To]]}
    BY <2>2 DEF Check, TargetInstalled, Reads, Whole
  <2>. QED BY <2>1, <2>2
<1>4. UNCHANGED <<kernel, rootfs, env, running>> /\ (fooled => fooled') /\ pc' = "quiet"
  BY DEF Check, Go, partitions, machine
<1>. QED
  BY <1>2, <1>3, <1>4 DEF IInv, Types, FlashesOther, TargetWhole, BootsWhole, InstallPlaces,
     Whole, Selected, Current, Readable

\* While the copy not in use is written the old selection stands; once it is
\* written the checked pair is selected.
LEMMA WriteEnvStep ==
    ASSUME IInv, WriteEnv
    PROVE  IInv'
<1> DEFINE torn == [ok |-> FALSE, flag |-> 0, pair |-> "A"]
<1>1. UNCHANGED <<kernel, rootfs, running, job, fooled>>
  BY DEF WriteEnv, partitions, machine, history
<1>2. env \in [Devices -> Copies] /\ Readable(env) /\ job.toPair \in Pairs
  BY DEF IInv, Types, BootsWhole, Jobs
<1>3. Whole(job.toPair) \/ fooled
  BY DEF WriteEnv, Go, IInv, TargetWhole, Checked, Moving
<1>4. pc' \notin InstallPlaces
  BY DEF WriteEnv, Go, InstallPlaces
<1>5. CASE Go("env", "envEnd") /\ env' = [env EXCEPT ![InactiveDevice(env)] = torn]
  <2>1. torn \in Copies /\ ~torn.ok
    BY ConstantsAssumption DEF Copies, Pairs
  <2>2. env' \in [Devices -> Copies] /\ Readable(env') /\ Selected(env') = Selected(env)
    BY <1>2, <1>5, <2>1, TornCopyIgnored
  <2>. QED
    BY <1>1, <1>3, <1>4, <2>2 DEF IInv, Types, FlashesOther, TargetWhole, BootsWhole, Whole,
       Selected, Current, Readable
<1>6. CASE /\ Go("envEnd", "verify")
           /\ env' = [env EXCEPT ![InactiveDevice(env)] =
                         [ok |-> TRUE, flag |-> NextEnvFlag(env[Current(env)].flag),
                          pair |-> job.toPair]]
  <2>1. env' \in [Devices -> Copies] /\ Readable(env') /\ Selected(env') = job.toPair
    BY <1>2, <1>6, NewCopySelected
  <2>. QED
    BY <1>1, <1>3, <1>4, <2>1 DEF IInv, Types, FlashesOther, TargetWhole, BootsWhole, Whole,
       Selected, Current, Readable
<1>. QED
  BY <1>5, <1>6 DEF WriteEnv

\* An update of the stock firmware writes both partitions of the pair that does
\* not run and then selects it.
LEMMA StockUpdateStep ==
    ASSUME IInv, StockUpdate
    PROVE  IInv'
<1>1. Other(running) \in Pairs
  BY DEF Other, Pairs
<1>2. /\ kernel' \in [Pairs -> Images] /\ kernel'[Other(running)] = "stock"
      /\ rootfs' \in [Pairs -> Images] /\ rootfs'[Other(running)] = "stock"
  BY <1>1 DEF StockUpdate, IInv, Types, Images, Firmwares
<1>3. env' \in [Devices -> Copies] /\ Readable(env') /\ Selected(env') = Other(running)
  BY <1>1, NewCopySelected DEF StockUpdate, IInv, Types, BootsWhole
<1>4. running' = None /\ UNCHANGED <<job, pc, fooled>> /\ pc' = "idle"
  BY DEF StockUpdate, history
<1>. QED
  BY <1>2, <1>3, <1>4 DEF IInv, Types, FlashesOther, TargetWhole, BootsWhole, InstallPlaces,
     Checked, Moving, Whole, Selected, Current, Readable

\* The other steps outside the programs; a power cut leaves every partition and
\* the environment as the programs left them.
LEMMA OutsideQuiet ==
    ASSUME IInv, Boot \/ Restart \/ Create \/ UserWrites \/ UserJoins \/ PowerCut
    PROVE  IInv'
<1> USE DEF IInv, Types, partitions, disk, machine, history
<1>1. CASE Boot
  <2>1. Selected(env) \in Pairs
    BY CurrentGood DEF BootsWhole
  <2>. QED BY <1>1, <2>1, QuietStep DEF Boot
<1>2. CASE Restart \/ Create \/ UserWrites \/ UserJoins
  BY <1>2, QuietStep DEF Restart, Create, UserWrites, UserJoins
<1>3. CASE PowerCut
  <2>1. job' \in Jobs
    BY <1>3 DEF PowerCut, NoJob, Jobs, Images, Firmwares, Pairs
  <2>. QED
    BY <1>3, <2>1, QuietStep DEF PowerCut, InstallPlaces, Checked, Moving
<1>. QED
  BY <1>1, <1>2, <1>3

LEMMA NextIInv == IInv /\ [Next]_vars => IInv'
<1> SUFFICES ASSUME IInv, [Next]_vars PROVE IInv'
  OBVIOUS
<1>1. CASE Install
  BY <1>1, StartInstallStep, FlashStep, InstallQuiet DEF Install
<1>2. CASE Swap
  BY <1>2, CheckStep, WriteEnvStep, SwapQuiet DEF Swap
<1>3. CASE Outside
  BY <1>3, StockUpdateStep, OutsideQuiet DEF Outside
<1>4. CASE UNCHANGED vars
  BY <1>4, QuietStep DEF vars, partitions, machine, history, IInv, Types
<1>. QED
  BY <1>1, <1>2, <1>3, <1>4 DEF Next

\* Power may fail between any two steps of the installer and of swap: U-Boot
\* then finds a readable environment that names a whole pair, unless the check
\* before a swap took a torn image for a whole one.
THEOREM AlwaysBootsWhole == Spec => []BootsWhole
<1>1. Spec => []IInv
  BY InitIInv, NextIInv, PTL DEF Spec
<1>2. IInv => BootsWhole
  BY DEF IInv
<1>. QED BY <1>1, <1>2, PTL

-----------------------------------------------------------------------------
(* Which firmware the entries belong to.                                   *)

\* The firmware that runs or is about to run, the selection and the writers.
MachineInv ==
    /\ running # None => kernel[running] \in Firmwares
    /\ pc # "idle" => running # None /\ job.from = kernel[running]
    /\ pc \in InstallPlaces => job.from = "stock"
    /\ running # None /\ pc # "verify" => Selected(env) = running
    /\ pc = "verify" => Selected(env) = job.toPair
    /\ pc \in Checked \cup {"verify"} /\ Whole(job.toPair) => kernel[job.toPair] = To
    /\ pc = "stop" => ~monitor
    /\ pc \in {"enter", "verify"} \cup Moving => ~writers

StoreTypes ==
    /\ live \in Stores /\ slots \in [Firmwares -> Stores]
    /\ wifi \in {None, Default("custom"), <<"custom", "wifi">>}
    /\ written \in SUBSET Contents
    /\ disturbed \in BOOLEAN /\ seedBroken \in BOOLEAN

Owned(store, f) == \A n \in Names : store[n] # None => store[n][1] = f

\* The live entries are those of firmware f, and all of them.
OwnedBy(f) == Owned(live, f) /\ \A n \in Names : slots[f][n] = None

\* Whose entries are where, while no swap was cut short.  An entry that is to be
\* moved finds its place free, and one that is not in job.todo has been moved.
StoreInv ==
    ~disturbed =>
        /\ \A f \in Firmwares : Owned(slots[f], f)
        /\ running # None /\ pc \notin Moving \cup {"verify"} => OwnedBy(kernel[running])
        /\ running = None /\ Whole(Selected(env)) => OwnedBy(kernel[Selected(env)])
        /\ pc = "archive" =>
              /\ Owned(live, job.from)
              /\ \A n \in Names : IF n \in job.todo THEN slots[job.from][n] = None
                                  ELSE live[n] = None
        /\ pc \in {"capture", "captureEnd", "restore"} => \A n \in Names : live[n] = None
        /\ pc = "restoring" =>
              /\ Owned(live, To)
              /\ \A n \in Names : IF n \in job.todo THEN live[n] = None
                                  ELSE slots[To][n] = None
        /\ pc \in {"env", "envEnd", "verify"} => OwnedBy(To)

-----------------------------------------------------------------------------
(* The firmware that runs.                                                 *)

LEMMA InitMachine == Init => MachineInv
<1> SUFFICES ASSUME Init PROVE MachineInv
  OBVIOUS
<1>1. env \in [Devices -> Copies] /\ Readable(env)
  BY ConstantsAssumption DEF Init, Readable
<1>2. Selected(env) \in Pairs
  BY <1>1, CurrentGood
<1>. QED
  BY <1>2 DEF Init, MachineInv, Firmwares, InstallPlaces, Checked, Moving

\* Steps that leave the machine and the environment alone.
LEMMA MachineQuiet ==
    ASSUME MachineInv, UNCHANGED <<partitions, env, machine>>,
           \/ pc' = "idle" /\ pc # "verify"
           \/ /\ pc' # "idle" /\ job'.from = job.from /\ job'.toPair = job.toPair
              /\ \/ pc \in InstallPlaces /\ pc' \in InstallPlaces \cup {"check"}
                 \/ pc \in {"enter"} \cup Moving /\ pc' \in Moving
    PROVE  MachineInv'
<1> USE DEF partitions, machine, InstallPlaces, Checked, Moving
<1>1. Selected(env)' = Selected(env) /\ UNCHANGED <<kernel, rootfs, running, monitor, writers>>
  BY DEF Selected, Current
<1>2. CASE pc' = "idle" /\ pc # "verify"
  BY <1>1, <1>2 DEF MachineInv
<1>3. CASE /\ pc' # "idle" /\ job'.from = job.from /\ job'.toPair = job.toPair
           /\ pc \in InstallPlaces /\ pc' \in InstallPlaces \cup {"check"}
  BY <1>1, <1>3 DEF MachineInv
<1>4. CASE /\ pc' # "idle" /\ job'.from = job.from /\ job'.toPair = job.toPair
           /\ pc \in {"enter"} \cup Moving /\ pc' \in Moving
  BY <1>1, <1>4 DEF MachineInv, Whole, To
<1>. QED BY <1>2, <1>3, <1>4

LEMMA InstallMachine ==
    ASSUME IInv, MachineInv, Install
    PROVE  MachineInv'
<1> USE DEF Go, InstallPlaces
<1>1. CASE StartInstall
  <2>1. Selected(env) = running /\ running # None /\ kernel[running] = "stock"
        /\ UNCHANGED <<partitions, env, machine>> /\ pc' = "stage"
    BY <1>1 DEF StartInstall, BootContract, CheckStock
  <2>2. PICK fresh \in ConfirmInstall : \E seed \in SeedHelix(fresh) :
          job' = [install |-> TRUE, fresh |-> fresh, seed |-> seed,
                  from |-> "stock", toPair |-> Other(running), todo |-> {}]
    BY <1>1 DEF StartInstall
  <2>3. job'.from = "stock"
    BY <2>2
  <2>. QED BY <2>1, <2>3 DEF MachineInv, partitions, machine, Selected, Current, Firmwares,
           Checked, Moving
<1>2. CASE Stage \/ Download \/ Wipe
  BY <1>2, MachineQuiet DEF Stage, Download, Wipe, AfterErase
<1>3. CASE SeedClean \/ SeedBuild \/ SeedAside \/ SeedSwap \/ SeedDone
  BY <1>3, MachineQuiet DEF SeedClean, SeedBuild, SeedAside, SeedSwap, SeedDone
<1>4. CASE SeedFails \/ InstallFails
  BY <1>4, MachineQuiet DEF SeedFails, InstallFails, Ended
<1>5. CASE SeedBootstrap \/ InstallSwap \/ CopyStockWifi
  BY <1>5, MachineQuiet DEF SeedBootstrap, InstallSwap, CopyStockWifi
<1>6. CASE WriteCustomEnv
  BY <1>6, MachineQuiet DEF WriteCustomEnv
<1>7. CASE FlashRootfs \/ FlashKernel
  <2>1. pc \in InstallPlaces /\ pc' \in InstallPlaces /\ UNCHANGED <<env, machine, job>>
    BY <1>7 DEF FlashRootfs, FlashKernel
  <2>2. running = Selected(env) /\ running # None
    BY <2>1 DEF MachineInv
  <2>3. running \in Pairs /\ job.toPair # running
    BY <2>1, <2>2 DEF IInv, FlashesOther, Types
  <2>4. kernel'[running] = kernel[running]
    BY <1>7, <2>3 DEF FlashRootfs, FlashKernel, IInv, Types
  <2>. QED BY <2>1, <2>2, <2>4 DEF MachineInv, machine, Selected, Current, Checked, Moving
<1>. QED BY <1>1, <1>2, <1>3, <1>4, <1>5, <1>6, <1>7 DEF Install

LEMMA SwapMachine ==
    ASSUME IInv, MachineInv, Swap
    PROVE  MachineInv'
<1> USE DEF Go
<1>1. CASE StartSwap
  <2>1. job'.from = kernel[running] /\ pc' = "check" /\ running # None
        /\ UNCHANGED <<partitions, env, machine>>
    BY <1>1 DEF StartSwap, NoJob, Running
  <2>. QED BY <1>1, <2>1 DEF MachineInv, partitions, machine, Selected, Current, InstallPlaces,
           Checked, Moving, StartSwap
<1>2. CASE Check
  <2>1. snap[To] \in Pairs /\ job' = [job EXCEPT !.toPair = snap[To]] /\ pc = "check"
        /\ pc' = "quiet" /\ UNCHANGED <<partitions, env, machine>>
    BY <1>2 DEF Check
  <2>2. job'.toPair = snap[To] /\ job'.from = job.from
    BY <2>1 DEF IInv, Types, Jobs
  <2>3. Whole(snap[To]) => kernel[snap[To]] = To
    BY <1>2 DEF Check, TargetInstalled, Reads, Whole
  <2>. QED BY <2>1, <2>2, <2>3 DEF MachineInv, partitions, machine, Selected, Current,
           InstallPlaces, Checked, Moving, Whole, To
<1>3. CASE Refuse \/ SwapFails
  BY <1>3, MachineQuiet DEF Refuse, SwapFails, Ended, Moving
<1>4. CASE StopWriters
  <2>1. UNCHANGED <<partitions, env, running, job>>
    BY <1>4 DEF StopWriters
  <2>2. \/ pc = "quiet" /\ pc' = "stop" /\ ~monitor'
        \/ pc = "stop" /\ pc' = "enter" /\ writers' = monitor
    BY <1>4 DEF StopWriters, Quiet
  <2>. QED BY <2>1, <2>2 DEF MachineInv, partitions, Selected, Current,
           InstallPlaces, Checked, Moving, Whole, To
<1>5. CASE Enter \/ Archive
  <2>1. job'.from = job.from /\ job'.toPair = job.toPair
    BY <1>5 DEF Enter, Archive, IInv, Types, Jobs
  <2>. QED BY <1>5, <2>1, MachineQuiet DEF Enter, Archive, Moving
<1>6. CASE Capture
  BY <1>6, MachineQuiet DEF Capture, Moving
<1>7. CASE Restore
  <2>1. job'.from = job.from /\ job'.toPair = job.toPair
    BY <1>7 DEF Restore, IInv, Types, Jobs
  <2>. QED BY <1>7, <2>1, MachineQuiet DEF Restore, Moving
<1>8. CASE WriteEnv
  <2>. DEFINE torn == [ok |-> FALSE, flag |-> 0, pair |-> "A"]
  <2>1. UNCHANGED <<partitions, machine, job>> /\ env \in [Devices -> Copies] /\ Readable(env)
        /\ job.toPair \in Pairs
    BY <1>8 DEF WriteEnv, IInv, Types, BootsWhole, Jobs
  <2>2. CASE Go("env", "envEnd") /\ env' = [env EXCEPT ![InactiveDevice(env)] = torn]
    <3>1. torn \in Copies /\ ~torn.ok
      BY ConstantsAssumption DEF Copies, Pairs
    <3>2. Selected(env') = Selected(env)
      BY <2>1, <2>2, <3>1, TornCopyIgnored
    <3>. QED BY <2>1, <2>2, <3>2 DEF MachineInv, partitions, machine, Selected, Current,
             InstallPlaces, Checked, Moving, Whole, To
  <2>3. CASE /\ Go("envEnd", "verify")
             /\ env' = [env EXCEPT ![InactiveDevice(env)] =
                           [ok |-> TRUE, flag |-> NextEnvFlag(env[Current(env)].flag),
                            pair |-> job.toPair]]
    <3>1. Selected(env') = job.toPair
      BY <2>1, <2>3, NewCopySelected
    <3>. QED BY <2>1, <2>3, <3>1 DEF MachineInv, partitions, machine, Selected, Current,
             InstallPlaces, Checked, Moving, Whole, To
  <2>. QED BY <1>8, <2>2, <2>3 DEF WriteEnv
<1>9. CASE Finish
  <2>1. pc = "verify" /\ pc' = "idle" /\ UNCHANGED <<partitions, env, monitor, writers>>
        /\ running' = None
    BY <1>9 DEF Finish, Ended, MachineInv
  <2>. QED BY <2>1 DEF MachineInv, InstallPlaces, Checked, Moving
<1>. QED BY <1>1, <1>2, <1>3, <1>4, <1>5, <1>6, <1>7, <1>8, <1>9 DEF Swap

LEMMA OutsideMachine ==
    ASSUME IInv, MachineInv, Outside
    PROVE  MachineInv'
<1>1. CASE Boot
  <2>1. running = None /\ running' = Selected(env) /\ Whole(Selected(env))
        /\ UNCHANGED <<partitions, env, pc, job>>
    BY <1>1 DEF Boot
  <2>2. pc = "idle"
    BY <2>1 DEF MachineInv
  <2>3. Selected(env) \in Pairs /\ kernel[Selected(env)] \in Firmwares
    BY <2>1, CurrentGood DEF IInv, Types, BootsWhole, Whole, Images
  <2>. QED BY <2>1, <2>2, <2>3 DEF MachineInv, partitions, Selected, Current, InstallPlaces,
           Checked, Moving
<1>2. CASE Create \/ UserWrites \/ UserJoins
  BY <1>2 DEF Create, UserWrites, UserJoins, MachineInv, partitions, machine, Selected, Current,
     Whole, To
<1>3. CASE StockUpdate \/ Restart
  BY <1>3 DEF StockUpdate, Restart, MachineInv, InstallPlaces, Checked, Moving
<1>4. CASE PowerCut
  BY <1>4 DEF PowerCut, MachineInv, InstallPlaces, Checked, Moving
<1>. QED BY <1>1, <1>2, <1>3, <1>4 DEF Outside

LEMMA NextMachine ==
    ASSUME IInv, MachineInv, [Next]_vars
    PROVE  MachineInv'
<1>1. CASE UNCHANGED vars
  BY <1>1 DEF vars, partitions, machine, MachineInv, Selected, Current, Whole, To
<1>. QED BY <1>1, InstallMachine, SwapMachine, OutsideMachine DEF Next

-----------------------------------------------------------------------------
(* The entries.                                                            *)

LEMMA InitStore == Init => StoreTypes /\ StoreInv
<1> SUFFICES ASSUME Init PROVE StoreTypes /\ StoreInv
  OBVIOUS
<1>1. live = [n \in Names |-> None] /\ slots = [f \in Firmwares |-> live] /\ pc = "idle"
      /\ wifi = None /\ written = {} /\ disturbed = FALSE /\ seedBroken = FALSE
  BY DEF Init
<1>2. live \in Stores /\ slots \in [Firmwares -> Stores]
  BY <1>1 DEF Stores
<1>3. Selected(env) = running
  BY DEF Init
<1>4. running \in Pairs /\ kernel[running] = "stock"
  BY InitIInv, CurrentGood, <1>3 DEF Init, IInv, Types, BootsWhole
<1>5. StoreTypes
  BY <1>1, <1>2 DEF StoreTypes
<1>6. \A n \in Names : live[n] = None /\ \A f \in Firmwares : slots[f][n] = None
  BY <1>1
<1>7. kernel[running] \in Firmwares /\ running = Selected(env)
  BY <1>3, <1>4 DEF Firmwares
<1>8. \A f \in Firmwares : Owned(slots[f], f) /\ OwnedBy(f)
  BY <1>6 DEF Owned, OwnedBy
<1>. QED BY <1>1, <1>5, <1>7, <1>8 DEF StoreInv, Moving

LEMMA EntryTyped ==
    ASSUME StoreTypes, NEW f \in Firmwares, NEW n \in Names, NEW c \in Contents \cup {None}
    PROVE  /\ [live EXCEPT ![n] = c] \in Stores
           /\ [slots EXCEPT ![f][n] = c] \in [Firmwares -> Stores]
           /\ live[n] \in Contents \cup {None} /\ slots[f][n] \in Contents \cup {None}
BY DEF StoreTypes, Stores

LEMMA DefaultTyped ==
    ASSUME NEW f \in Firmwares
    PROVE  Default(f) \in Contents /\ Default(f)[1] = f /\ Default(f)[2] = "default"
BY DEF Default, Contents

\* Steps that move no entry and come to no place where entries move.
LEMMA StoreQuiet ==
    ASSUME StoreTypes, StoreInv, UNCHANGED <<partitions, env, live, slots, running>>,
           wifi' = wifi, written' = written, seedBroken' \in BOOLEAN,
           disturbed' = disturbed,
           pc \notin Moving \cup {"verify"}, pc' \notin Moving \cup {"verify"}
    PROVE  StoreTypes' /\ StoreInv'
<1>1. StoreTypes'
  BY DEF StoreTypes
<1>. QED BY <1>1 DEF StoreInv, Owned, OwnedBy, partitions, Selected, Current, Whole, Moving

\* A step of the installer: at most it moves entries of the custom firmware's slot.
LEMMA InstallerStep ==
    ASSUME StoreTypes', StoreInv, MachineInv,
           pc \in InstallPlaces, pc' \notin Moving \cup {"verify"},
           running' = running, kernel'[running] = kernel[running], live' = live,
           slots'["stock"] = slots["stock"], disturbed' = disturbed,
           Owned(slots["custom"], "custom") => Owned(slots'["custom"], "custom")
    PROVE  StoreInv'
<1>1. running # None /\ kernel[running] = "stock" /\ pc \notin Moving \cup {"verify"}
  BY DEF MachineInv, InstallPlaces, Moving
<1>. SUFFICES ASSUME ~disturbed PROVE StoreInv'
  BY DEF StoreInv
<1>2. /\ Owned(slots["stock"], "stock") /\ Owned(slots["custom"], "custom")
      /\ OwnedBy("stock")
  BY <1>1 DEF StoreInv, Firmwares
<1>3. \A f \in Firmwares : Owned(slots'[f], f)
  BY <1>2 DEF Firmwares
<1>4. Owned(live', "stock") /\ \A n \in Names : slots'["stock"][n] = None
  BY <1>2 DEF OwnedBy
<1>. QED BY <1>1, <1>3, <1>4 DEF StoreInv, OwnedBy, Moving

LEMMA SeedStore ==
    ASSUME MachineInv, StoreTypes, StoreInv,
           SeedClean \/ SeedBuild \/ SeedAside \/ SeedSwap \/ SeedDone \/ SeedFails
    PROVE  StoreTypes' /\ StoreInv'
<1>. DEFINE inside == slots["custom"]
<1>1. pc \in InstallPlaces /\ pc' \notin Moving \cup {"verify"}
      /\ UNCHANGED <<partitions, env, live, running, wifi, written, disturbed>>
  BY DEF SeedClean, SeedBuild, SeedAside, SeedSwap, SeedDone, SeedFails, Go, Ended,
         InstallPlaces, Moving, machine, history
<1>2. seedBroken' \in BOOLEAN
  BY Zenon DEF SeedClean, SeedBuild, SeedAside, SeedSwap, SeedDone, SeedFails, history, StoreTypes
<1>3. inside \in Stores /\ slots["stock"] \in Stores
  BY DEF StoreTypes, Firmwares
<1>4. PICK store \in Stores :
          /\ slots' = [slots EXCEPT !["custom"] = store]
          /\ Owned(inside, "custom") => Owned(store, "custom")
  <2>1. CASE SeedClean
    <3>. DEFINE store == [inside EXCEPT !["helixOld"] = None, !["helixNew"] = None]
    <3>1. store \in Stores /\ (Owned(inside, "custom") => Owned(store, "custom"))
      BY <1>3 DEF Stores, Owned
    <3>2. slots' = [slots EXCEPT !["custom"] = store]
      BY <2>1 DEF SeedClean, StoreTypes, Firmwares
    <3>. QED BY <3>1, <3>2
  <2>2. CASE SeedBuild
    <3>. DEFINE c == IF inside["helix"] # None THEN inside["helix"] ELSE Default("custom")
                store == [inside EXCEPT !["helixNew"] = c]
    <3>1. c \in Contents /\ (Owned(inside, "custom") => c[1] = "custom")
      BY <1>3, DefaultTyped DEF Stores, Owned, Names, Firmwares
    <3>2. store \in Stores /\ (Owned(inside, "custom") => Owned(store, "custom"))
      <4>. HIDE DEF c
      <4>. QED BY <1>3, <3>1 DEF Stores, Owned
    <3>3. slots' = [slots EXCEPT !["custom"] = store]
      BY <2>2 DEF SeedBuild, SetSlot, StoreTypes, Firmwares
    <3>. QED BY <3>2, <3>3
  <2>3. CASE SeedAside
    <3>. DEFINE store == [inside EXCEPT !["helixOld"] = inside["helix"], !["helix"] = None]
    <3>1. store \in Stores /\ (Owned(inside, "custom") => Owned(store, "custom"))
      BY <1>3 DEF Stores, Owned, Names
    <3>2. slots' = [slots EXCEPT !["custom"] = store]
      BY <2>3 DEF SeedAside, StoreTypes, Firmwares
    <3>. QED BY <3>1, <3>2
  <2>4. CASE SeedSwap
    <3>. DEFINE store == [inside EXCEPT !["helix"] = inside["helixNew"], !["helixNew"] = None]
    <3>1. store \in Stores /\ (Owned(inside, "custom") => Owned(store, "custom"))
      BY <1>3 DEF Stores, Owned, Names
    <3>2. slots' = [slots EXCEPT !["custom"] = store]
      BY <2>4 DEF SeedSwap, StoreTypes, Firmwares
    <3>. QED BY <3>1, <3>2
  <2>5. CASE SeedDone
    <3>. DEFINE store == [inside EXCEPT !["helixOld"] = None]
    <3>1. store \in Stores /\ (Owned(inside, "custom") => Owned(store, "custom"))
      BY <1>3 DEF Stores, Owned
    <3>2. slots' = [slots EXCEPT !["custom"] = store]
      BY <2>5 DEF SeedDone, SetSlot, StoreTypes, Firmwares
    <3>. QED BY <3>1, <3>2
  <2>6. CASE SeedFails
    <3>. DEFINE store == [inside EXCEPT !["helix"] = inside["helixOld"],
                                        !["helixOld"] = None, !["helixNew"] = None]
    <3>1. store \in Stores /\ (Owned(inside, "custom") => Owned(store, "custom"))
      BY <1>3 DEF Stores, Owned, Names
    <3>2. slots' = [slots EXCEPT !["custom"] = store]
      BY <2>6 DEF SeedFails, StoreTypes, Firmwares
    <3>. QED BY <3>1, <3>2
  <2>. QED BY <2>1, <2>2, <2>3, <2>4, <2>5, <2>6
<1>5. slots' \in [Firmwares -> Stores] /\ slots'["stock"] = slots["stock"]
      /\ slots'["custom"] = store
  BY <1>4 DEF StoreTypes, Firmwares
<1>6. StoreTypes'
  BY <1>1, <1>2, <1>5 DEF StoreTypes
<1>. QED BY <1>1, <1>4, <1>5, <1>6, InstallerStep DEF partitions

LEMMA InstallStore ==
    ASSUME IInv, MachineInv, StoreTypes, StoreInv, Install
    PROVE  StoreTypes' /\ StoreInv'
<1> USE DEF Go, InstallPlaces, Moving
<1>1. CASE StartInstall \/ Stage \/ Download \/ SeedBootstrap \/ InstallSwap \/ InstallFails
           \/ WriteCustomEnv
  <2>1. UNCHANGED <<partitions, env, live, slots, wifi, running, history>>
        /\ pc \notin Moving \cup {"verify"} /\ pc' \notin Moving \cup {"verify"}
    BY <1>1 DEF StartInstall, Stage, Download, AfterErase, SeedBootstrap, InstallSwap,
       InstallFails, WriteCustomEnv, Ended, machine, disk
  <2>. QED BY <2>1, StoreQuiet DEF history, StoreTypes
<1>2. CASE CopyStockWifi
  <2>1. wifi' \in {None, Default("custom"), <<"custom", "wifi">>}
    BY <1>2 DEF CopyStockWifi, UsableWifi, StoreTypes
  <2>2. StoreTypes'
    BY <1>2, <2>1 DEF CopyStockWifi, StoreTypes, history
  <2>. QED BY <1>2, <2>2, InstallerStep DEF CopyStockWifi, partitions, machine, history
<1>3. CASE FlashRootfs \/ FlashKernel
  <2>1. pc \in InstallPlaces /\ pc' \in InstallPlaces
        /\ UNCHANGED <<env, live, slots, wifi, job, running, history>>
    BY <1>3 DEF FlashRootfs, FlashKernel, machine, disk
  <2>2. running = Selected(env) /\ running # None
    BY <2>1 DEF MachineInv
  <2>3. running \in Pairs /\ job.toPair # running
    BY <2>1, <2>2 DEF IInv, FlashesOther, Types
  <2>4. kernel'[running] = kernel[running]
    BY <1>3, <2>3 DEF FlashRootfs, FlashKernel, IInv, Types
  <2>5. StoreTypes'
    BY <2>1 DEF StoreTypes, history
  <2>. QED BY <2>1, <2>4, <2>5, InstallerStep DEF history
<1>4. CASE Wipe
  <2>1. UNCHANGED <<partitions, live, running, disturbed, seedBroken>> /\ pc = "wipe"
        /\ pc' \in InstallPlaces
    BY <1>4 DEF Wipe, AfterErase, machine
  <2>2. wifi' \in {wifi, None} /\ written' \in SUBSET Contents
    BY <1>4 DEF Wipe, StoreTypes
  <2>3. slots' = slots \/ \E n \in Names : slots' = [slots EXCEPT !["custom"][n] = None]
    BY <1>4 DEF Wipe
  <2>4. /\ slots' \in [Firmwares -> Stores] /\ slots'["stock"] = slots["stock"]
        /\ Owned(slots["custom"], "custom") => Owned(slots'["custom"], "custom")
    BY <2>3 DEF StoreTypes, Stores, Firmwares, Owned
  <2>5. StoreTypes'
    BY <2>1, <2>2, <2>4 DEF StoreTypes
  <2>. QED BY <2>1, <2>4, <2>5, InstallerStep DEF partitions
<1>. QED BY <1>1, <1>2, <1>3, <1>4, SeedStore DEF Install

LEMMA RestoreStore ==
    ASSUME IInv, MachineInv, StoreTypes, StoreInv, Restore
    PROVE  StoreTypes' /\ StoreInv'
<1> USE DEF Go, Moving
<1>1. /\ pc # "idle" /\ UNCHANGED <<partitions, env, running, wifi, written, disturbed, seedBroken>>
      /\ job.from \in Firmwares /\ To \in Firmwares /\ To # job.from /\ running # None
  BY DEF Restore, MachineInv, To, Firmwares, disk, machine, history
<1>2. CASE /\ Go("restore", "restoring") /\ UNCHANGED <<live, slots>>
           /\ job' = [job EXCEPT !.todo = {n \in Names : slots[To][n] # None}]
  <2>1. job'.from = job.from /\ job'.todo = {n \in Names : slots[To][n] # None} /\ To' = To
    BY <1>2 DEF IInv, Types, Jobs, To
  <2>2. StoreTypes'
    BY <1>1, <1>2 DEF StoreTypes
  <2>. QED BY <1>1, <1>2, <2>1, <2>2 DEF StoreInv, Owned
<1>3. ASSUME NEW n \in job.todo, pc = "restoring", pc' = pc,
             job' = [job EXCEPT !.todo = @ \ {n}],
             IF Moves(slots[To], live, n)
             THEN /\ live' = [live EXCEPT ![n] = slots[To][n]]
                  /\ slots' = [slots EXCEPT ![To][n] = None]
             ELSE UNCHANGED <<slots, live>>
      PROVE  StoreTypes' /\ StoreInv'
  <2>1. n \in Names /\ job'.from = job.from /\ job'.todo = job.todo \ {n} /\ To' = To
    BY <1>3 DEF IInv, Types, Jobs, To
  <2>2. slots[To][n] \in Contents \cup {None}
    BY <1>1, <2>1, EntryTyped
  <2>3. live' \in Stores /\ slots' \in [Firmwares -> Stores]
    <3>1. /\ [live EXCEPT ![n] = slots[To][n]] \in Stores
          /\ [slots EXCEPT ![To][n] = None] \in [Firmwares -> Stores]
      BY <1>1, <2>1, <2>2, EntryTyped
    <3>. QED BY <1>3, <3>1, Zenon DEF StoreTypes
  <2>4. StoreTypes'
    BY <1>1, <2>3 DEF StoreTypes
  <2>. SUFFICES ASSUME ~disturbed PROVE StoreInv'
    BY <1>1, <2>4 DEF StoreInv
  <2>5. /\ Owned(live, To)
        /\ \A m \in Names : IF m \in job.todo THEN live[m] = None ELSE slots[To][m] = None
        /\ \A f \in Firmwares : Owned(slots[f], f)
    BY <1>3 DEF StoreInv
  <2>6. /\ live' = [live EXCEPT ![n] = slots[To][n]]
        /\ slots' = [slots EXCEPT ![To][n] = None]
    BY <1>3, <2>1, <2>5 DEF Moves
  <2>7. \A m \in Names :
           /\ live'[m] = IF m = n THEN slots[To][n] ELSE live[m]
           /\ slots'[To][m] = IF m = n THEN None ELSE slots[To][m]
           /\ slots'[job.from][m] = slots[job.from][m]
    BY <1>1, <2>1, <2>6 DEF StoreTypes, Stores
  <2>8. Owned(live', To) /\ Owned(slots'[job.from], job.from) /\ Owned(slots'[To], To)
    BY <1>1, <2>1, <2>5, <2>7 DEF Owned
  <2>9. \A f \in Firmwares : Owned(slots'[f], f)
    BY <1>1, <2>8 DEF To, Firmwares
  <2>. QED BY <1>1, <1>3, <2>1, <2>5, <2>7, <2>8, <2>9 DEF StoreInv
<1>4. ASSUME pc = "restoring", job.todo = {}, pc' = "env", UNCHANGED <<job, slots, live>>
      PROVE  StoreTypes' /\ StoreInv'
  <2>1. StoreTypes'
    BY <1>1, <1>4 DEF StoreTypes
  <2>. QED BY <1>1, <1>4, <2>1 DEF StoreInv, Owned, OwnedBy, To
<1>. QED BY <1>2, <1>3, <1>4 DEF Restore, disk

\* The entries that were restored are those of the pair that is selected now.
LEMMA EnvStore ==
    ASSUME IInv, MachineInv, StoreTypes, StoreInv, WriteEnv \/ Finish
    PROVE  StoreTypes' /\ StoreInv'
<1> USE DEF Go, Moving
<1>1. UNCHANGED <<partitions, live, slots, wifi, written, disturbed, seedBroken>>
  BY DEF WriteEnv, Finish, disk, history
<1>2. StoreTypes'
  BY <1>1 DEF StoreTypes
<1>3. CASE WriteEnv
  <2>1. UNCHANGED <<running, job>> /\ running # None
        /\ pc \in {"env", "envEnd"} /\ pc' \in {"envEnd", "verify"}
    BY <1>3 DEF WriteEnv, machine, MachineInv
  <2>. QED BY <1>1, <1>2, <2>1 DEF StoreInv, Owned, OwnedBy, To
<1>4. CASE Finish
  <2>1. pc = "verify" /\ pc' = "idle" /\ running' = None /\ UNCHANGED env
    BY <1>4 DEF Finish, Ended, MachineInv
  <2>2. Whole(Selected(env)) => kernel[Selected(env)] = To
    BY <2>1 DEF MachineInv
  <2>. QED BY <1>1, <1>2, <2>1, <2>2 DEF StoreInv, Owned, OwnedBy, partitions, Selected,
           Current, Whole
<1>. QED BY <1>3, <1>4

LEMMA SwapStore ==
    ASSUME IInv, MachineInv, StoreTypes, StoreInv, Swap
    PROVE  StoreTypes' /\ StoreInv'
<1> USE DEF Go, Moving
<1>1. CASE StartSwap \/ Check \/ Refuse \/ StopWriters
  <2>1. UNCHANGED <<partitions, env, live, slots, wifi, running, written, disturbed, seedBroken>>
        /\ pc \notin Moving \cup {"verify"} /\ pc' \notin Moving \cup {"verify"}
    BY <1>1 DEF StartSwap, Check, Refuse, StopWriters, Quiet, Ended, machine, disk, history
  <2>. QED BY <2>1, StoreQuiet DEF StoreTypes
<1>2. pc # "idle" => running # None /\ job.from = kernel[running] /\ job.from \in Firmwares
                     /\ To \in Firmwares /\ To # job.from
  BY DEF MachineInv, To, Firmwares
<1>4. CASE SwapFails
  <2>1. UNCHANGED <<partitions, env, live, slots, wifi, running, written, seedBroken>>
        /\ pc # "verify" /\ pc' = "idle" /\ disturbed' = (disturbed \/ pc \in Moving)
    BY <1>4 DEF SwapFails, Ended, machine, disk
  <2>2. CASE pc \in Moving
    BY <2>1, <2>2 DEF StoreTypes, StoreInv, Moving
  <2>3. CASE pc \notin Moving
    BY <2>1, <2>3, StoreQuiet DEF StoreTypes
  <2>. QED BY <2>2, <2>3
<1>3. CASE Enter \/ Archive \/ Capture \/ Restore \/ WriteEnv \/ Finish
  <2>1. UNCHANGED <<partitions, wifi, written, disturbed, seedBroken>> /\ pc # "idle"
    BY <1>3 DEF Enter, Archive, Capture, Restore, WriteEnv, Finish, disk, history
  <2>2. CASE Enter
    <3>1. job' = [job EXCEPT !.todo = {n \in Names : live[n] # None}]
          /\ UNCHANGED <<live, slots, env, running>> /\ pc = "enter" /\ pc' = "archive"
      BY <2>2 DEF Enter, disk, machine
    <3>2. job'.from = job.from /\ job'.todo = {n \in Names : live[n] # None}
      BY <3>1 DEF IInv, Types, Jobs
    <3>3. StoreTypes'
      BY <2>1, <3>1 DEF StoreTypes
    <3>. QED BY <1>2, <2>1, <3>1, <3>2, <3>3 DEF StoreInv, Owned, OwnedBy
  <2>3. CASE Archive
    <3>1. pc = "archive" /\ UNCHANGED <<env, running>> /\ running # None
      BY <2>1, <2>3, <1>2 DEF Archive, machine
    <3>2. ASSUME NEW n \in job.todo, job' = [job EXCEPT !.todo = @ \ {n}],
                 IF Moves(live, slots[job.from], n)
                 THEN /\ slots' = [slots EXCEPT ![job.from][n] = live[n]]
                      /\ live' = [live EXCEPT ![n] = None]
                 ELSE UNCHANGED <<slots, live>>,
                 pc' = pc
          PROVE  StoreTypes' /\ StoreInv'
      <4>1. n \in Names /\ job'.from = job.from /\ job'.todo = job.todo \ {n} /\ To' = To
        BY <3>2 DEF IInv, Types, Jobs, To
      <4>2. live[n] \in Contents \cup {None}
        BY <1>2, <2>1, <4>1, EntryTyped
      <4>3. live' \in Stores /\ slots' \in [Firmwares -> Stores]
        <5>1. /\ [live EXCEPT ![n] = None] \in Stores
              /\ [slots EXCEPT ![job.from][n] = live[n]] \in [Firmwares -> Stores]
          BY <1>2, <2>1, <4>1, <4>2, EntryTyped
        <5>. QED BY <3>2, <5>1, Zenon DEF StoreTypes
      <4>4. StoreTypes'
        BY <2>1, <4>3 DEF StoreTypes
      <4>. SUFFICES ASSUME ~disturbed PROVE StoreInv'
        BY <2>1, <4>4 DEF StoreInv
      <4>5. /\ Owned(live, job.from)
            /\ \A m \in Names : IF m \in job.todo THEN slots[job.from][m] = None
                                ELSE live[m] = None
            /\ \A f \in Firmwares : Owned(slots[f], f)
        BY <3>1 DEF StoreInv
      <4>6. /\ slots' = [slots EXCEPT ![job.from][n] = live[n]]
            /\ live' = [live EXCEPT ![n] = None]
        BY <3>2, <4>1, <4>5 DEF Moves
      <4>7. \A m \in Names :
               /\ live'[m] = IF m = n THEN None ELSE live[m]
               /\ slots'[job.from][m] = IF m = n THEN live[n] ELSE slots[job.from][m]
               /\ slots'[To][m] = slots[To][m]
        BY <1>2, <2>1, <4>1, <4>6 DEF StoreTypes, Stores
      <4>8. Owned(live', job.from) /\ Owned(slots'[job.from], job.from) /\ Owned(slots'[To], To)
        BY <1>2, <2>1, <4>1, <4>5, <4>7 DEF Owned
      <4>9. \A f \in Firmwares : Owned(slots'[f], f)
        BY <1>2, <2>1, <4>8 DEF To, Firmwares
      <4>. QED BY <1>2, <2>1, <3>1, <3>2, <4>1, <4>5, <4>7, <4>8, <4>9 DEF StoreInv
    <3>3. ASSUME job.todo = {}, pc' = "capture", UNCHANGED <<job, slots, live>>
          PROVE  StoreTypes' /\ StoreInv'
      <4>1. StoreTypes'
        BY <2>1, <3>3 DEF StoreTypes
      <4>. QED BY <2>1, <3>1, <3>3, <4>1 DEF StoreInv, Owned
    <3>. QED BY <2>3, <3>2, <3>3 DEF Archive
  <2>4. CASE Capture
    <3>1. UNCHANGED <<env, running, live, slots, job>> /\ running # None
          /\ pc \in {"capture", "captureEnd"} /\ pc' \in {"captureEnd", "restore"}
      BY <1>2, <2>1, <2>4 DEF Capture, machine
    <3>2. StoreTypes'
      BY <2>1, <3>1 DEF StoreTypes
    <3>. QED BY <2>1, <3>1, <3>2 DEF StoreInv, Owned
  <2>. QED BY <1>3, <2>2, <2>3, <2>4, RestoreStore, EnvStore
<1>. QED BY <1>1, <1>3, <1>4 DEF Swap

LEMMA OutsideStore ==
    ASSUME IInv, MachineInv, StoreTypes, StoreInv, Outside
    PROVE  StoreTypes' /\ StoreInv'
<1>1. CASE Boot
  <2>1. /\ running = None /\ running' = Selected(env) /\ Whole(Selected(env)) /\ pc = "idle"
        /\ UNCHANGED <<partitions, env, live, slots, wifi, history, pc, job>>
    BY <1>1 DEF Boot, disk, MachineInv
  <2>2. StoreTypes'
    BY <2>1 DEF StoreTypes, history
  <2>. QED BY <2>1, <2>2 DEF StoreInv, Owned, OwnedBy, Moving, partitions, history
<1>2. CASE Create \/ UserWrites
  <2>1. PICK n \in Names, c \in Contents :
          /\ running # None /\ live' = [live EXCEPT ![n] = c] /\ c[1] = kernel[running]
          /\ pc \notin Moving \cup {"verify"}
          /\ written' \in SUBSET Contents
    <3>1. CASE Create
      <4>1. running # None /\ writers /\ live' = [live EXCEPT !["data"] = Default(Running)]
            /\ UNCHANGED history
        BY <1>2, <3>1 DEF Create
      <4>2. Running \in Firmwares
        BY <4>1 DEF MachineInv, Running
      <4>3. pc \notin Moving \cup {"verify"}
        BY <4>1 DEF MachineInv
      <4>4. written' \in SUBSET Contents
        BY <4>1 DEF history, StoreTypes
      <4>. QED BY <4>1, <4>2, <4>3, <4>4, DefaultTyped DEF Names, Running
    <3>2. CASE UserWrites
      <4>1. PICK n \in Written(Running) :
              /\ running # None /\ pc = "idle"
              /\ live' = [live EXCEPT ![n] = <<Running, n>>]
              /\ written' = written \cup {<<Running, n>>}
        BY <3>2 DEF UserWrites
      <4>2. Running \in Firmwares /\ n \in Names
        BY <4>1 DEF MachineInv, Running, Written, Names
      <4>3. <<Running, n>> \in Contents /\ <<Running, n>>[1] = Running
        BY <4>2 DEF Contents
      <4>4. written' \in SUBSET Contents
        BY <4>1, <4>3 DEF StoreTypes
      <4>. QED BY <4>1, <4>2, <4>3, <4>4 DEF Running, Moving
    <3>. QED BY <1>2, <3>1, <3>2
  <2>2. UNCHANGED <<partitions, env, slots, wifi, running, pc, job, disturbed, seedBroken>>
    BY <1>2 DEF Create, UserWrites, machine, history
  <2>3. live' \in Stores
    BY <2>1 DEF StoreTypes, Stores
  <2>4. StoreTypes'
    BY <2>1, <2>2, <2>3 DEF StoreTypes
  <2>5. Owned(live, kernel[running]) => Owned(live', kernel[running])
    BY <2>1 DEF Owned, StoreTypes, Stores
  <2>. QED BY <2>1, <2>2, <2>4, <2>5 DEF StoreInv, OwnedBy, Moving, partitions
<1>3. CASE UserJoins
  <2>1. wifi' = <<"custom", "wifi">> /\ written' = written \cup {wifi'} /\ pc = "idle"
        /\ UNCHANGED <<partitions, env, live, slots, running, pc, disturbed, seedBroken>>
    BY <1>3 DEF UserJoins, machine, history
  <2>2. <<"custom", "wifi">> \in Contents
    BY DEF Contents, Firmwares
  <2>3. StoreTypes'
    BY <2>1, <2>2 DEF StoreTypes
  <2>. QED BY <2>1, <2>3 DEF StoreInv, Owned, OwnedBy, Moving, partitions, Selected, Current,
           Whole
<1>4. CASE StockUpdate
  <2>1. /\ running # None /\ pc = "idle" /\ kernel[running] = "stock" /\ running' = None
        /\ UNCHANGED <<live, slots, wifi, history, pc>>
    BY <1>4 DEF StockUpdate, Running, disk
  <2>2. Other(running) \in Pairs
    BY DEF Other, Pairs
  <2>3. Selected(env') = Other(running)
    BY <1>4, <2>2, NewCopySelected DEF StockUpdate, IInv, Types, BootsWhole
  <2>4. kernel'[Other(running)] = "stock"
    BY <1>4, <2>2 DEF StockUpdate, IInv, Types
  <2>5. kernel'[Selected(env)'] = "stock"
    <3>1. Selected(env)' = Selected(env')
      BY DEF Selected, Current
    <3>. QED BY <2>3, <2>4, <3>1
  <2>6. StoreTypes'
    BY <2>1 DEF StoreTypes, history
  <2>. QED BY <2>1, <2>5, <2>6 DEF StoreInv, Owned, OwnedBy, Moving, history
<1>5. CASE PowerCut
  <2>1. /\ running # None /\ running' = None /\ pc' = "idle" /\ pc # "idle"
        /\ UNCHANGED <<partitions, env, live, slots, wifi, written>>
        /\ ~disturbed' => ~disturbed /\ pc \notin Moving
    BY <1>5 DEF PowerCut, disk
  <2>2. disturbed' \in BOOLEAN /\ seedBroken' \in BOOLEAN
    BY <1>5, Zenon DEF PowerCut, StoreTypes
  <2>3. StoreTypes'
    BY <2>1, <2>2 DEF StoreTypes
  <2>4. Selected(env)' = Selected(env) /\ Whole(Selected(env))' = Whole(Selected(env))
    BY <2>1 DEF Selected, Current, Whole, partitions
  <2>5. CASE pc = "verify"
    <3>1. Whole(Selected(env)) => kernel[Selected(env)] = To
      BY <2>5 DEF MachineInv
    <3>. QED BY <2>1, <2>3, <2>4, <2>5, <3>1 DEF StoreInv, Owned, OwnedBy, Moving, partitions
  <2>6. CASE pc # "verify"
    <3>1. Selected(env) = running
      BY <2>1, <2>6 DEF MachineInv
    <3>. QED BY <2>1, <2>3, <2>4, <2>6, <3>1 DEF StoreInv, Owned, OwnedBy, Moving, partitions
  <2>. QED BY <2>5, <2>6
<1>6. CASE Restart
  <2>1. /\ running # None /\ running' = None /\ pc = "idle"
        /\ UNCHANGED <<partitions, env, live, slots, wifi, history, pc>>
    BY <1>6 DEF Restart, disk
  <2>2. Selected(env)' = Selected(env) /\ Whole(Selected(env))' = Whole(Selected(env))
        /\ Selected(env) = running
    BY <2>1 DEF Selected, Current, Whole, partitions, MachineInv
  <2>3. StoreTypes'
    BY <2>1 DEF StoreTypes, history
  <2>. QED BY <2>1, <2>2, <2>3 DEF StoreInv, Owned, OwnedBy, Moving, partitions, history
<1>. QED BY <1>1, <1>2, <1>3, <1>4, <1>5, <1>6 DEF Outside

OwnInv == IInv /\ MachineInv /\ StoreTypes /\ StoreInv

LEMMA InitOwn == Init => OwnInv
BY InitIInv, InitMachine, InitStore DEF OwnInv

LEMMA NextOwn ==
    ASSUME OwnInv, [Next]_vars
    PROVE  OwnInv'
<1>1. IInv' /\ MachineInv'
  BY NextIInv, NextMachine DEF OwnInv
<1>2. CASE UNCHANGED vars
  <2>1. UNCHANGED <<partitions, env, live, slots, wifi, running, pc, job, written, disturbed,
                    seedBroken>>
    BY <1>2 DEF vars, disk, machine, history
  <2>2. StoreTypes'
    BY <2>1 DEF OwnInv, StoreTypes
  <2>3. StoreInv'
    BY <2>1 DEF OwnInv, StoreInv, Owned, OwnedBy, To, partitions, Selected, Current, Whole
  <2>. QED BY <1>1, <2>2, <2>3 DEF OwnInv
<1>. QED BY <1>1, <1>2, InstallStore, SwapStore, OutsideStore DEF OwnInv, Next

\* A firmware that runs finds its own entries and all of them, unless a swap was
\* cut short while it moved entries: what a swap archives and restores is
\* complete, and the installer touches the slot of the custom firmware only.
THEOREM RunsOnItsOwn == Spec => []RunsOnOwn
<1>1. Spec => []OwnInv
  BY InitOwn, NextOwn, PTL DEF Spec
<1>2. OwnInv => RunsOnOwn
  BY DEF OwnInv, StoreInv, Owned, OwnedBy, RunsOnOwn, Running, Moving
<1>. QED BY <1>1, <1>2, PTL

-----------------------------------------------------------------------------
(* The types of the variables that the invariants above do not speak of.   *)

RestTypes ==
    /\ snap \in [Firmwares -> Pairs \cup {None, "torn"}]
    /\ tool \in BOOLEAN /\ monitor \in BOOLEAN /\ writers \in BOOLEAN
    /\ pc \in Places /\ job.from \in Firmwares
    /\ staged \subseteq {"rootfs", "kernel", "swap", "helix"}
    /\ fooled \in BOOLEAN
    /\ jobs \in Nat /\ cuts \in Nat /\ updates \in Nat

LEMMA InitRest == Init => RestTypes
<1> SUFFICES ASSUME Init PROVE RestTypes
  OBVIOUS
<1>1. snap \in [Firmwares -> Pairs \cup {None, "torn"}]
  BY DEF Init
<1>2. pc \in Places /\ job.from \in Firmwares
  BY DEF Init, NoJob, Firmwares, Places
<1>3. tool \in BOOLEAN /\ monitor \in BOOLEAN /\ writers \in BOOLEAN /\ fooled \in BOOLEAN
  BY Zenon DEF Init
<1>4. staged = {} /\ jobs \in Nat /\ cuts \in Nat /\ updates \in Nat
  BY ConstantsAssumption DEF Init
<1>. QED BY <1>1, <1>2, <1>3, <1>4 DEF RestTypes

\* A step of the installer: the snapshot is absent, torn or of the pair flashed,
\* and the staging directory holds what main downloads.
LEMMA InstallRest ==
    ASSUME OwnInv, RestTypes, Install
    PROVE  RestTypes'
<1>. USE DEF Go, RestTypes
<1>0. pc' \in Places
  <2>1. AfterErase \in Places
    BY DEF AfterErase, Places, InstallPlaces
  <2>2. CASE StartInstall \/ Stage \/ SeedClean \/ SeedBuild \/ SeedAside \/ SeedSwap \/ SeedDone
    BY <2>2 DEF StartInstall, Stage, SeedClean, SeedBuild, SeedAside, SeedSwap, SeedDone,
                Places, InstallPlaces
  <2>3. CASE Download \/ Wipe
    BY <2>1, <2>3 DEF Download, Wipe, Places, InstallPlaces
  <2>4. CASE SeedFails \/ InstallFails
    BY <2>4 DEF SeedFails, InstallFails, Ended, Places
  <2>5. CASE SeedBootstrap \/ FlashRootfs \/ FlashKernel \/ InstallSwap \/ CopyStockWifi
             \/ WriteCustomEnv
    BY <2>5 DEF SeedBootstrap, FlashRootfs, FlashKernel, InstallSwap, CopyStockWifi,
                WriteCustomEnv, Places, InstallPlaces
  <2>. QED BY <2>2, <2>3, <2>4, <2>5 DEF Install
<1>1. CASE StartInstall
  BY <1>0, <1>1 DEF StartInstall, disk, machine, history, Firmwares
<1>2. CASE Stage
  BY <1>0, <1>2 DEF Stage, disk, machine, history, bounds
<1>3. CASE Download
  <2>1. staged' \subseteq {"rootfs", "kernel", "swap", "helix"}
    BY <1>3 DEF Download, Files
  <2>. QED BY <1>0, <1>3, <2>1 DEF Download, disk, machine, history, bounds
<1>4. CASE Wipe
  <2>1. snap' \in [Firmwares -> Pairs \cup {None, "torn"}]
    BY <1>4 DEF Wipe
  <2>. QED BY <1>0, <1>4, <2>1 DEF Wipe, machine, bounds
<1>5. CASE SeedClean \/ SeedBuild \/ SeedAside \/ SeedSwap \/ SeedDone
  BY <1>0, <1>5 DEF SeedClean, SeedBuild, SeedAside, SeedSwap, SeedDone, machine, history, bounds
<1>6. CASE SeedFails \/ InstallFails
  <2>1. job'.from \in Firmwares /\ staged' \subseteq staged
    BY <1>6 DEF SeedFails, InstallFails, Ended, NoJob, Firmwares
  <2>. QED BY <1>0, <1>6, <2>1 DEF SeedFails, InstallFails, disk, machine, history, bounds
<1>7. CASE SeedBootstrap \/ FlashRootfs \/ FlashKernel
  BY <1>0, <1>7 DEF SeedBootstrap, FlashRootfs, FlashKernel, disk, machine, history, bounds
<1>8. CASE InstallSwap \/ CopyStockWifi
  BY <1>0, <1>8 DEF InstallSwap, CopyStockWifi, machine, history, bounds
<1>9. CASE WriteCustomEnv
  <2>1. job.toPair \in Pairs
    BY DEF OwnInv, IInv, Types, Jobs
  <2>2. snap' \in [Firmwares -> Pairs \cup {None, "torn"}]
    BY <1>9, <2>1 DEF WriteCustomEnv
  <2>. QED BY <1>0, <1>9, <2>2 DEF WriteCustomEnv, machine, history, bounds
<1>. QED BY <1>1, <1>2, <1>3, <1>4, <1>5, <1>6, <1>7, <1>8, <1>9 DEF Install

\* A step of swap: it starts from the firmware that runs, whose image is whole,
\* and snapshots the pair that runs.
LEMMA SwapRest ==
    ASSUME OwnInv, RestTypes, Swap
    PROVE  RestTypes'
<1>. USE DEF Go, RestTypes
<1>0. pc' \in Places
  BY DEF Swap, StartSwap, Check, Refuse, StopWriters, Quiet, Enter, Archive, Capture, Restore,
         WriteEnv, SwapFails, Finish, Ended, Places, Moving
<1>1. CASE StartSwap
  <2>1. kernel[running] \in Firmwares
    BY <1>1 DEF StartSwap, OwnInv, MachineInv
  <2>2. job'.from = kernel[running]
    BY <1>1 DEF StartSwap, NoJob, Running
  <2>. QED BY <1>0, <1>1, <2>1, <2>2 DEF StartSwap, disk, machine, history
<1>2. CASE Check
  <2>1. job'.from = job.from
    BY <1>2 DEF Check, OwnInv, IInv, Types, Jobs
  <2>2. fooled' \in BOOLEAN
    BY <1>2 DEF Check
  <2>. QED BY <1>0, <1>2, <2>1, <2>2 DEF Check, disk, machine, bounds
<1>3. CASE Refuse \/ SwapFails \/ Finish
  <2>1. job'.from \in Firmwares /\ staged' \subseteq staged
    BY <1>3 DEF Refuse, SwapFails, Finish, Ended, NoJob, Firmwares
  <2>. QED BY <1>0, <1>3, <2>1 DEF Refuse, SwapFails, Finish, disk, machine, history, bounds
<1>4. CASE StopWriters
  BY <1>0, <1>4 DEF StopWriters, Quiet, disk, history, bounds
<1>5. CASE Enter \/ Archive \/ Restore
  <2>1. job'.from = job.from
    BY <1>5 DEF Enter, Archive, Restore, OwnInv, IInv, Types, Jobs
  <2>. QED BY <1>0, <1>5, <2>1 DEF Enter, Archive, Restore, disk, machine, history, bounds
<1>6. CASE Capture
  <2>1. running \in Pairs
    BY <1>6 DEF Capture, OwnInv, IInv, Types, MachineInv
  <2>2. snap' \in [Firmwares -> Pairs \cup {None, "torn"}]
    BY <1>6, <2>1 DEF Capture
  <2>. QED BY <1>0, <1>6, <2>2 DEF Capture, machine, history, bounds
<1>7. CASE WriteEnv
  BY <1>0, <1>7 DEF WriteEnv, disk, machine, history, bounds
<1>. QED BY <1>1, <1>2, <1>3, <1>4, <1>5, <1>6, <1>7 DEF Swap

LEMMA OutsideRest ==
    ASSUME OwnInv, RestTypes, Outside
    PROVE  RestTypes'
<1>. USE DEF RestTypes
<1>1. CASE Boot
  BY <1>1 DEF Boot, disk, history, bounds
<1>2. CASE Create \/ UserWrites \/ UserJoins
  BY <1>2 DEF Create, UserWrites, UserJoins, machine, history, bounds
<1>3. CASE StockUpdate
  BY <1>3 DEF StockUpdate, disk, history
<1>4. CASE PowerCut
  BY <1>4 DEF PowerCut, disk, NoJob, Firmwares, Places
<1>5. CASE Restart
  BY <1>5 DEF Restart, disk, history, bounds
<1>. QED BY <1>1, <1>2, <1>3, <1>4, <1>5 DEF Outside

\* Every variable keeps its type: the firmware a program starts from is one
\* whose image is whole, a snapshot names a pair, and the staging directory
\* holds files that were verified, whatever was interrupted.
THEOREM TypeCorrect == Spec => []TypeOK
<1>1. Init => OwnInv /\ RestTypes
  BY InitOwn, InitRest
<1>2. OwnInv /\ RestTypes /\ [Next]_vars => (OwnInv /\ RestTypes)'
  <2> SUFFICES ASSUME OwnInv, RestTypes, [Next]_vars PROVE OwnInv' /\ RestTypes'
    OBVIOUS
  <2>1. ASSUME UNCHANGED vars PROVE RestTypes'
    BY <2>1 DEF vars, RestTypes, disk, machine, history, bounds
  <2>2. RestTypes'
    BY <2>1, InstallRest, SwapRest, OutsideRest DEF Next
  <2>. QED BY <2>2, NextOwn
<1>3. OwnInv /\ RestTypes => TypeOK
  <2> SUFFICES ASSUME OwnInv, RestTypes PROVE TypeOK
    OBVIOUS
  <2>1. wifi \in Contents \cup {None}
    BY DEF OwnInv, StoreTypes, Default, Contents, Firmwares
  <2>2. job \in [install : BOOLEAN, fresh : BOOLEAN, seed : BOOLEAN,
                 from : Firmwares, toPair : Pairs, todo : SUBSET Names]
    BY DEF OwnInv, IInv, Types, Jobs, RestTypes
  <2>. QED BY <2>1, <2>2 DEF TypeOK, OwnInv, IInv, Types, StoreTypes, RestTypes
<1>. QED BY <1>1, <1>2, <1>3, PTL DEF Spec

-----------------------------------------------------------------------------
(* What users left.                                                        *)

HelixNames == {"helix", "helixOld", "helixNew"}

\* HelixScreen's directories hold its files or its defaults.
OfHelix(store) == \A n \in HelixNames : store[n] # None => store[n][2] \in {"helix", "default"}
HelixHeld == OfHelix(live) /\ \A f \in Firmwares : OfHelix(slots[f])

\* What a user left is not what a firmware starts with.
NoDefaults == \A c \in written : c[2] # "default"

\* The new directory has the user's files before the old one is set aside, and
\* then its name is free.
SeedReady ==
    /\ pc = "seedAside" /\ slots["custom"]["helix"] # None =>
           slots["custom"]["helixNew"] = slots["custom"]["helix"]
    /\ pc = "seedSwap" => slots["custom"]["helix"] = None

\* Nothing is left only in the installer's work directories, except between the
\* two renames, where both of them have it.
Placed(c) ==
    \/ c = wifi \/ (c[2] = "helix" /\ seedBroken)
    \/ \E n \in {"data", "helix"} : live[n] = c \/ \E f \in Firmwares : slots[f][n] = c
    \/ pc = "seedSwap" /\ slots["custom"]["helixOld"] = c /\ slots["custom"]["helixNew"] = c

KeptInv == HelixHeld /\ NoDefaults /\ SeedReady /\ \A c \in written : Placed(c)

LEMMA InitKept == Init => KeptInv
<1> SUFFICES ASSUME Init PROVE KeptInv
  OBVIOUS
<1>1. live = [n \in Names |-> None] /\ slots = [f \in Firmwares |-> live] /\ pc = "idle"
      /\ written = {}
  BY DEF Init
<1>2. \A n \in Names : live[n] = None /\ \A f \in Firmwares : slots[f][n] = None
  BY <1>1
<1>. QED BY <1>1, <1>2 DEF KeptInv, HelixHeld, OfHelix, HelixNames, Names, NoDefaults, SeedReady

\* A user's entry is not an empty place.
LEMMA WrittenThere ==
    ASSUME StoreTypes, NEW c \in written
    PROVE  c \in Contents /\ c # None
BY ConstantsAssumption DEF StoreTypes

\* Steps that move no entry and are not between the two renames.
LEMMA KeptQuiet ==
    ASSUME KeptInv, UNCHANGED <<live, slots, wifi, written>>, seedBroken => seedBroken',
           pc # "seedSwap", pc' \notin {"seedAside", "seedSwap"}
    PROVE  KeptInv'
BY DEF KeptInv, HelixHeld, OfHelix, NoDefaults, SeedReady, Placed

\* The installer builds HelixScreen's new directory with the user's files, and
\* only when both renames are done does it remove the old one.
LEMMA SeedKept ==
    ASSUME StoreTypes, KeptInv,
           SeedClean \/ SeedBuild \/ SeedAside \/ SeedSwap \/ SeedDone \/ SeedFails
    PROVE  KeptInv'
<1>. DEFINE inside == slots["custom"]
            new == slots'["custom"]
<1>. USE DEF Go, history
<1>1. UNCHANGED <<live, wifi, written>> /\ (seedBroken => seedBroken')
  <2>1. UNCHANGED <<live, wifi, written>>
    BY DEF SeedClean, SeedBuild, SeedAside, SeedSwap, SeedDone, SeedFails
  <2>2. CASE SeedFails
    BY <2>2, Zenon DEF SeedFails
  <2>3. CASE SeedClean \/ SeedBuild \/ SeedAside \/ SeedSwap \/ SeedDone
    BY <2>3 DEF SeedClean, SeedBuild, SeedAside, SeedSwap, SeedDone
  <2>. QED BY <2>1, <2>2, <2>3
<1>2. inside \in Stores /\ slots["stock"] \in Stores /\ OfHelix(inside)
  BY DEF StoreTypes, Firmwares, KeptInv, HelixHeld
<1>3. \A f \in Firmwares : f = "custom" \/ f = "stock"
  BY DEF Firmwares
<1>4. "custom" \in Firmwares /\ "stock" \in Firmwares
  BY DEF Firmwares
<1>. DEFINE Result == /\ slots'["stock"] = slots["stock"] /\ new["data"] = inside["data"]
                      /\ OfHelix(new)
                      /\ SeedReady'
                      /\ \A c \in written : inside["helix"] = c =>
                            \/ new["helix"] = c \/ (c[2] = "helix" /\ seedBroken')
                            \/ pc' = "seedSwap" /\ new["helixOld"] = c /\ new["helixNew"] = c
                      /\ \A c \in written : pc = "seedSwap" /\ inside["helixOld"] = c
                                            /\ inside["helixNew"] = c => new["helix"] = c
<1>5. Result
  <2>1. CASE SeedClean
    <3>1. /\ slots'["stock"] = slots["stock"]
          /\ new = [inside EXCEPT !["helixOld"] = None, !["helixNew"] = None]
          /\ pc = "seedClean" /\ pc' = "seedBuild"
      BY <2>1 DEF SeedClean, StoreTypes, Firmwares
    <3>2. new["data"] = inside["data"] /\ new["helix"] = inside["helix"]
          /\ new["helixOld"] = None /\ new["helixNew"] = None
      BY <1>2, <3>1 DEF Stores, Names
    <3>. QED BY <1>2, <3>1, <3>2 DEF OfHelix, HelixNames, SeedReady
  <2>2. CASE SeedBuild
    <3>. DEFINE built == IF inside["helix"] # None THEN inside["helix"] ELSE Default("custom")
    <3>1. /\ slots'["stock"] = slots["stock"]
          /\ new = [inside EXCEPT !["helixNew"] = built]
          /\ pc = "seedBuild" /\ pc' = "seedAside"
      BY <2>2 DEF SeedBuild, SetSlot, StoreTypes, Firmwares
    <3>2. new["data"] = inside["data"] /\ new["helix"] = inside["helix"]
          /\ new["helixOld"] = inside["helixOld"] /\ new["helixNew"] = built
      BY <1>2, <3>1 DEF Stores, Names
    <3>3. built[2] \in {"helix", "default"}
      BY <1>2, <1>4, DefaultTyped DEF OfHelix, HelixNames
    <3>. QED BY <1>2, <3>1, <3>2, <3>3 DEF OfHelix, HelixNames, SeedReady
  <2>3. CASE SeedAside
    <3>1. /\ slots'["stock"] = slots["stock"]
          /\ new = [inside EXCEPT !["helixOld"] = inside["helix"], !["helix"] = None]
          /\ pc = "seedAside" /\ pc' = "seedSwap"
      BY <2>3 DEF SeedAside, StoreTypes, Firmwares
    <3>2. new["data"] = inside["data"] /\ new["helix"] = None
          /\ new["helixOld"] = inside["helix"] /\ new["helixNew"] = inside["helixNew"]
      BY <1>2, <3>1 DEF Stores, Names
    <3>3. inside["helix"] # None => inside["helixNew"] = inside["helix"]
      BY <3>1 DEF KeptInv, SeedReady
    <3>. QED BY <1>2, <3>1, <3>2, <3>3, WrittenThere DEF OfHelix, HelixNames, SeedReady
  <2>4. CASE SeedSwap
    <3>1. /\ slots'["stock"] = slots["stock"]
          /\ new = [inside EXCEPT !["helix"] = inside["helixNew"], !["helixNew"] = None]
          /\ pc = "seedSwap" /\ pc' = "seedDone"
      BY <2>4 DEF SeedSwap, StoreTypes, Firmwares
    <3>2. new["data"] = inside["data"] /\ new["helix"] = inside["helixNew"]
          /\ new["helixOld"] = inside["helixOld"] /\ new["helixNew"] = None
      BY <1>2, <3>1 DEF Stores, Names
    <3>3. inside["helix"] = None
      BY <3>1 DEF KeptInv, SeedReady
    <3>. QED BY <1>2, <3>1, <3>2, <3>3, WrittenThere DEF OfHelix, HelixNames, SeedReady
  <2>5. CASE SeedDone
    <3>1. /\ slots'["stock"] = slots["stock"]
          /\ new = [inside EXCEPT !["helixOld"] = None]
          /\ pc = "seedDone" /\ pc' = "bootstrap"
      BY <2>5 DEF SeedDone, SetSlot, StoreTypes, Firmwares
    <3>2. new["data"] = inside["data"] /\ new["helix"] = inside["helix"]
          /\ new["helixOld"] = None /\ new["helixNew"] = inside["helixNew"]
      BY <1>2, <3>1 DEF Stores, Names
    <3>. QED BY <1>2, <3>1, <3>2 DEF OfHelix, HelixNames, SeedReady
  <2>6. CASE SeedFails
    <3>1. /\ slots'["stock"] = slots["stock"]
          /\ new = [inside EXCEPT !["helix"] = inside["helixOld"],
                                  !["helixOld"] = None, !["helixNew"] = None]
          /\ pc \in {"seedAside", "seedSwap"} /\ pc' = "idle"
          /\ (pc = "seedAside" => seedBroken')
      BY <2>6 DEF SeedFails, Ended, StoreTypes, Firmwares
    <3>2. new["data"] = inside["data"] /\ new["helix"] = inside["helixOld"]
          /\ new["helixOld"] = None /\ new["helixNew"] = None
      BY <1>2, <3>1 DEF Stores, Names
    <3>3. OfHelix(new) /\ SeedReady'
      BY <1>2, <3>1, <3>2 DEF OfHelix, HelixNames, SeedReady
    <3>4. ASSUME NEW c \in written, inside["helix"] = c
          PROVE  c[2] = "helix" /\ seedBroken'
      <4>1. c[2] = "helix"
        BY <1>2, <3>4, WrittenThere DEF OfHelix, HelixNames, KeptInv, NoDefaults
      <4>2. pc # "seedSwap"
        BY <3>4, WrittenThere DEF KeptInv, SeedReady
      <4>. QED BY <3>1, <4>1, <4>2
    <3>. QED BY <3>1, <3>2, <3>3, <3>4
  <2>. QED BY <2>1, <2>2, <2>3, <2>4, <2>5, <2>6
<1>6. HelixHeld'
  <2>1. OfHelix(live) /\ OfHelix(slots["stock"])
    BY <1>4 DEF KeptInv, HelixHeld
  <2>. QED BY <1>1, <1>3, <1>5, <2>1 DEF HelixHeld, OfHelix
<1>7. ASSUME NEW c \in written PROVE Placed(c)'
  <2>1. Placed(c)
    BY DEF KeptInv
  <2>2. CASE c = wifi \/ (c[2] = "helix" /\ seedBroken)
    BY <1>1, <2>2 DEF Placed
  <2>3. CASE \E n \in {"data", "helix"} : live[n] = c
    BY <1>1, <2>3 DEF Placed
  <2>4. CASE \E n \in {"data", "helix"} : slots["stock"][n] = c \/ inside["data"] = c
    BY <1>4, <1>5, <2>4 DEF Placed
  <2>5. CASE \/ inside["helix"] = c
             \/ pc = "seedSwap" /\ inside["helixOld"] = c /\ inside["helixNew"] = c
    BY <1>4, <1>5, <2>5 DEF Placed
  <2>. QED BY <1>3, <2>1, <2>2, <2>3, <2>4, <2>5 DEF Placed
<1>. QED BY <1>1, <1>5, <1>6, <1>7 DEF KeptInv, NoDefaults

\* A fresh install erases what is in the custom firmware's slot, and that is the
\* custom firmware's unless an interrupted swap left something there.
LEMMA WipeKept ==
    ASSUME StoreTypes, StoreInv, KeptInv, Wipe
    PROVE  KeptInv'
<1>1. UNCHANGED <<live, disturbed, seedBroken>> /\ pc = "wipe"
      /\ pc' \notin {"seedAside", "seedSwap"}
  BY DEF Wipe, AfterErase
<1>2. ASSUME NEW n \in Names, slots["custom"][n] # None,
             slots' = [slots EXCEPT !["custom"][n] = None],
             written' = IF slots["custom"][n][1] = "custom" \/ disturbed
                        THEN written \ {slots["custom"][n]} ELSE written,
             wifi' = wifi
      PROVE  KeptInv'
  <2>1. slots["custom"][n][1] = "custom" \/ disturbed
    BY <1>2 DEF StoreInv, Owned, Firmwares
  <2>2. written' = written \ {slots["custom"][n]}
    BY <1>2, <2>1
  <2>3. \A f \in Firmwares, m \in Names :
           slots'[f][m] = IF f = "custom" /\ m = n THEN None ELSE slots[f][m]
    BY <1>2 DEF StoreTypes, Stores, Firmwares
  <2>4. HelixHeld'
    BY <1>1, <2>3 DEF KeptInv, HelixHeld, OfHelix, HelixNames, Names
  <2>5. ASSUME NEW c \in written' PROVE Placed(c)'
    <3>1. Placed(c) /\ c # slots["custom"][n]
      BY <2>2 DEF KeptInv
    <3>2. \A f \in Firmwares, m \in {"data", "helix"} : slots[f][m] = c => slots'[f][m] = c
      BY <2>3, <3>1 DEF Names
    <3>. QED BY <1>1, <1>2, <3>1, <3>2 DEF Placed
  <2>. QED BY <1>1, <2>2, <2>4, <2>5 DEF KeptInv, NoDefaults, SeedReady
<1>3. CASE UNCHANGED <<slots, wifi, written>>
  BY <1>1, <1>3, KeptQuiet
<1>4. CASE wifi' = None /\ written' = written \ {wifi} /\ UNCHANGED slots
  BY <1>1, <1>4 DEF KeptInv, HelixHeld, OfHelix, NoDefaults, SeedReady, Placed
<1>. QED BY <1>2, <1>3, <1>4 DEF Wipe

LEMMA InstallKept ==
    ASSUME StoreTypes, StoreInv, KeptInv, Install
    PROVE  KeptInv'
<1>. USE DEF Go, disk, history
<1>1. CASE StartInstall \/ Stage \/ Download \/ SeedBootstrap
  BY <1>1, KeptQuiet DEF StartInstall, Stage, Download, AfterErase, SeedBootstrap
<1>2. CASE FlashRootfs \/ FlashKernel \/ InstallSwap \/ WriteCustomEnv
  BY <1>2, KeptQuiet DEF FlashRootfs, FlashKernel, InstallSwap, WriteCustomEnv
<1>3. CASE InstallFails
  BY <1>3, KeptQuiet DEF InstallFails, Ended
<1>4. CASE CopyStockWifi
  <2>1. UNCHANGED <<live, slots, written, seedBroken>> /\ pc = "wifi" /\ pc' = "snapshot"
        /\ (wifi # None => wifi' = wifi)
    BY <1>4 DEF CopyStockWifi
  <2>2. \A c \in written : c # None
    BY WrittenThere
  <2>. QED BY <2>1, <2>2 DEF KeptInv, HelixHeld, OfHelix, NoDefaults, SeedReady, Placed
<1>. QED BY <1>1, <1>2, <1>3, <1>4, SeedKept, WipeKept DEF Install

\* An entry goes from a slot to UDISK or back, to a place that is free.
LEMMA MoveKept ==
    ASSUME StoreTypes, KeptInv, NEW f \in Firmwares, NEW n \in Names,
           UNCHANGED <<wifi, written, seedBroken>>,
           pc # "seedSwap", pc' \notin {"seedAside", "seedSwap"},
           \/ /\ slots[f][n] = None
              /\ slots' = [slots EXCEPT ![f][n] = live[n]] /\ live' = [live EXCEPT ![n] = None]
           \/ /\ live[n] = None
              /\ live' = [live EXCEPT ![n] = slots[f][n]] /\ slots' = [slots EXCEPT ![f][n] = None]
    PROVE  KeptInv'
<1>1. /\ live'[n] = slots[f][n] /\ slots'[f][n] = live[n]
      /\ \A m \in Names \ {n} : live'[m] = live[m]
      /\ \A g \in Firmwares, m \in Names : g # f \/ m # n => slots'[g][m] = slots[g][m]
  BY DEF StoreTypes, Stores
<1>2. OfHelix(live) /\ \A g \in Firmwares : OfHelix(slots[g])
  BY DEF KeptInv, HelixHeld
<1>3. HelixHeld'
  BY <1>1, <1>2 DEF HelixHeld, OfHelix, HelixNames, Names
<1>4. ASSUME NEW c \in written PROVE Placed(c)'
  <2>1. Placed(c)
    BY DEF KeptInv
  <2>2. ASSUME NEW m \in {"data", "helix"}, live[m] = c \/ \E g \in Firmwares : slots[g][m] = c
        PROVE  live'[m] = c \/ \E g \in Firmwares : slots'[g][m] = c
    <3>1. m \in Names
      BY DEF Names
    <3>. QED BY <1>1, <2>2, <3>1
  <2>. QED BY <2>1, <2>2 DEF Placed
<1>. QED BY <1>3, <1>4 DEF KeptInv, NoDefaults, SeedReady

LEMMA SwapKept ==
    ASSUME IInv, MachineInv, StoreTypes, KeptInv, Swap
    PROVE  KeptInv'
<1>. USE DEF Go, disk, history
<1>1. CASE StartSwap \/ Check \/ Refuse \/ StopWriters \/ Enter
  BY <1>1, KeptQuiet DEF StartSwap, Check, Refuse, StopWriters, Quiet, Enter, Ended
<1>2. CASE Capture \/ WriteEnv \/ SwapFails \/ Finish
  BY <1>2, KeptQuiet DEF Capture, WriteEnv, SwapFails, Finish, Ended, Moving
<1>3. job.todo \subseteq Names /\ (pc # "idle" => job.from \in Firmwares /\ To \in Firmwares)
  BY DEF IInv, Types, Jobs, MachineInv, To, Firmwares
<1>4. CASE Archive
  <2>1. UNCHANGED <<wifi, written, seedBroken>> /\ pc = "archive" /\ pc' \in {"archive", "capture"}
    BY <1>4 DEF Archive
  <2>2. CASE UNCHANGED <<slots, live>>
    BY <2>1, <2>2, KeptQuiet
  <2>3. CASE ~UNCHANGED <<slots, live>>
    <3>1. PICK n \in job.todo : /\ slots[job.from][n] = None
                                /\ slots' = [slots EXCEPT ![job.from][n] = live[n]]
                                /\ live' = [live EXCEPT ![n] = None]
      BY <1>4, <2>3 DEF Archive, Moves
    <3>. QED BY <1>3, <2>1, <3>1, MoveKept
  <2>. QED BY <2>2, <2>3
<1>5. CASE Restore
  <2>1. UNCHANGED <<wifi, written, seedBroken>> /\ pc \in {"restore", "restoring"}
        /\ pc' \in {"restoring", "env"}
    BY <1>5 DEF Restore
  <2>2. CASE UNCHANGED <<slots, live>>
    BY <2>1, <2>2, KeptQuiet
  <2>3. CASE ~UNCHANGED <<slots, live>>
    <3>1. PICK n \in job.todo : /\ live[n] = None
                                /\ live' = [live EXCEPT ![n] = slots[To][n]]
                                /\ slots' = [slots EXCEPT ![To][n] = None]
      BY <1>5, <2>3 DEF Restore, Moves
    <3>. QED BY <1>3, <2>1, <3>1, MoveKept
  <2>. QED BY <2>2, <2>3
<1>. QED BY <1>1, <1>2, <1>4, <1>5 DEF Swap

LEMMA OutsideKept ==
    ASSUME MachineInv, StoreTypes, KeptInv, Outside
    PROVE  KeptInv'
<1>. USE DEF disk, history
<1>1. CASE Boot \/ Restart \/ StockUpdate
  <2>1. UNCHANGED <<live, slots, wifi, written, seedBroken, pc>> /\ pc = "idle"
    BY <1>1 DEF Boot, Restart, StockUpdate, MachineInv
  <2>. QED BY <2>1, KeptQuiet
<1>2. CASE Create
  <2>1. UNCHANGED <<slots, wifi, written, seedBroken, pc>> /\ live["data"] = None
        /\ live' = [live EXCEPT !["data"] = Default(Running)]
    BY <1>2 DEF Create
  <2>2. \A m \in HelixNames : live'[m] = live[m]
    BY <2>1 DEF HelixNames, StoreTypes, Stores, Names
  <2>3. \A c \in written : live["data"] # c
    BY <2>1, WrittenThere
  <2>. QED BY <2>1, <2>2, <2>3 DEF KeptInv, HelixHeld, OfHelix, HelixNames, NoDefaults,
           SeedReady, Placed
<1>3. CASE UserWrites
  <2>1. UNCHANGED <<slots, wifi, seedBroken, pc>> /\ pc = "idle"
    BY <1>3 DEF UserWrites
  <2>2. PICK n \in Written(Running) :
          /\ live[n] \in {None, Default(Running)} /\ live' = [live EXCEPT ![n] = <<Running, n>>]
          /\ written' = written \cup {<<Running, n>>}
    BY <1>3 DEF UserWrites
  <2>3. n \in {"data", "helix"} /\ n \in Names
    BY DEF Written, Names
  <2>4. live'[n] = <<Running, n>> /\ \A m \in Names \ {n} : live'[m] = live[m]
    BY <2>2, <2>3 DEF StoreTypes, Stores
  <2>5. HelixHeld'
    BY <2>1, <2>3, <2>4 DEF KeptInv, HelixHeld, OfHelix, HelixNames, Names
  <2>6. \A c \in written : c # live[n]
    BY <2>2, WrittenThere DEF KeptInv, NoDefaults, Default
  <2>7. ASSUME NEW c \in written' PROVE Placed(c)'
    <3>1. CASE c = <<Running, n>>
      BY <2>3, <2>4, <3>1 DEF Placed
    <3>2. CASE c \in written
      <4>1. \A m \in {"data", "helix"} : live[m] = c => live'[m] = c
        BY <2>4, <2>6, <3>2 DEF Names
      <4>. QED BY <2>1, <3>2, <4>1 DEF KeptInv, Placed
    <3>. QED BY <2>2, <3>1, <3>2
  <2>8. NoDefaults'
    BY <2>2, <2>3 DEF KeptInv, NoDefaults
  <2>. QED BY <2>1, <2>5, <2>7, <2>8 DEF KeptInv, SeedReady
<1>4. CASE UserJoins
  <2>1. UNCHANGED <<live, slots, seedBroken, pc>> /\ pc = "idle"
        /\ wifi' = <<"custom", "wifi">> /\ written' = written \cup {wifi'}
    BY <1>4 DEF UserJoins
  <2>2. \A c \in written : c = wifi => c = wifi'
    BY <2>1, WrittenThere DEF StoreTypes, KeptInv, NoDefaults, Default
  <2>. QED BY <2>1, <2>2 DEF KeptInv, HelixHeld, OfHelix, NoDefaults, SeedReady, Placed
<1>5. CASE PowerCut
  <2>1. UNCHANGED <<live, slots, wifi, written>> /\ pc' = "idle"
        /\ (seedBroken => seedBroken') /\ (pc = "seedSwap" => seedBroken')
    BY <1>5 DEF PowerCut
  <2>2. CASE pc # "seedSwap"
    BY <2>1, <2>2, KeptQuiet
  <2>3. CASE pc = "seedSwap"
    <3>1. \A c \in written : slots["custom"]["helixOld"] = c => c[2] = "helix"
      BY WrittenThere DEF KeptInv, HelixHeld, OfHelix, HelixNames, NoDefaults, Firmwares
    <3>. QED BY <2>1, <2>3, <3>1 DEF KeptInv, HelixHeld, OfHelix, NoDefaults, SeedReady, Placed
  <2>. QED BY <2>2, <2>3
<1>. QED BY <1>1, <1>2, <1>3, <1>4, <1>5 DEF Outside

LEMMA NextKept ==
    ASSUME OwnInv, KeptInv, [Next]_vars
    PROVE  KeptInv'
<1>1. CASE UNCHANGED vars
  BY <1>1 DEF vars, disk, history, KeptInv, HelixHeld, OfHelix, NoDefaults, SeedReady, Placed
<1>. QED BY <1>1, InstallKept, SwapKept, OutsideKept DEF OwnInv, Next

\* What a user left on the printer is somewhere after any interruption, until a
\* fresh install erases it or HelixScreen's two renames do not both happen.
THEOREM NothingIsLost == Spec => []DataKept
<1>1. Spec => [](OwnInv /\ KeptInv)
  <2>1. Init => OwnInv /\ KeptInv
    BY InitOwn, InitKept
  <2>2. OwnInv /\ KeptInv /\ [Next]_vars => (OwnInv /\ KeptInv)'
    BY NextOwn, NextKept
  <2>. QED BY <2>1, <2>2, PTL DEF Spec
<1>2. OwnInv /\ KeptInv => DataKept
  <2>. SUFFICES ASSUME OwnInv, KeptInv, NEW c \in written
                PROVE  \/ c = wifi \/ (c[2] = "helix" /\ seedBroken)
                       \/ \E n \in Names : live[n] = c \/ \E f \in Firmwares : slots[f][n] = c
    BY DEF DataKept
  <2>1. Placed(c) /\ "custom" \in Firmwares
    BY DEF KeptInv, Firmwares
  <2>. QED BY <2>1 DEF Placed, Names
<1>. QED BY <1>1, <1>2, PTL

=============================================================================
