----------------------------- MODULE SlotSwap -----------------------------
(***************************************************************************)
(* The installer (install.py) and the swap utility (swap).  The printer    *)
(* has two pairs of a boot and a root partition, a U-Boot environment kept *)
(* twice, and one data partition (UDISK) whose top-level entries are moved *)
(* into and out of one directory per firmware.  Both programs run step by  *)
(* step; power may fail between any two steps, and either is then started  *)
(* again.                                                                  *)
(***************************************************************************)
EXTENDS Integers

CONSTANTS
    None,
    FlagModulus,    \* values of the environment's flag byte
    StartEnvs,      \* the environments the printer may have before
    MaxJobs,        \* bound: runs of the installer or of swap
    MaxCuts,        \* bound: power cuts, and swaps that fail once under way
    MaxUpdates      \* bound: updates of the stock firmware


Firmwares == {"stock", "custom"}
Images == Firmwares \cup {"torn"}       \* torn: written in part
Pairs == {"A", "B"}
Devices == {"p2", "p3"}

\* entries of UDISK: HelixScreen with the installer's two work directories,
\* and an entry that both firmwares use, such as printer_data
Names == {"helix", "helixOld", "helixNew", "data"}

\* what an entry holds: what a user of a firmware left in it, or its defaults
Contents == Firmwares \X (Names \cup {"wifi", "default"})
Default(firmware) == <<firmware, "default">>
Written(firmware) == IF firmware = "stock" THEN {"data"} ELSE {"data", "helix"}

Other(x) == IF x = "A" THEN "B" ELSE "A"
OtherDevice(d) == IF d = "p2" THEN "p3" ELSE "p2"

\* a copy of the environment: whether its checksum is right, its flag and the
\* pair it names
Copies == [ok : BOOLEAN, flag : 0..(FlagModulus - 1), pair : Pairs]

ASSUME ConstantsAssumption ==
    /\ None \notin Contents
    /\ FlagModulus \in Nat /\ FlagModulus > 2
    /\ StartEnvs \subseteq {e \in [Devices -> Copies] : \E d \in Devices : e[d].ok}
    /\ MaxJobs \in Nat /\ MaxCuts \in Nat /\ MaxUpdates \in Nat

NoJob == [install |-> FALSE, fresh |-> FALSE, seed |-> FALSE,
          from |-> "stock", toPair |-> "A", todo |-> {}]

VARIABLES
    kernel, rootfs,     \* the image on each pair's partitions
    env,                \* the two copies of the U-Boot environment
    live,               \* top-level entries of UDISK
    slots,              \* .slots: the entries archived for each firmware
    snap,               \* env.bin of each slot: the pair it names
    wifi,               \* wpa_supplicant.conf in the custom firmware's overlay
    tool,               \* swap is installed on the stock firmware
    running,            \* the pair that runs, or None
    monitor, writers,   \* processes that write to UDISK, and the one restarting them
    pc, job,            \* the program under way and what it has read
    staged,             \* verified downloads in .install
    written,            \* history: what users left and did not erase
    disturbed,          \* history: a swap was cut short, or failed, while it moved entries
    fooled,             \* history: a torn image passed the check before a swap
    seedBroken,         \* history: HelixScreen's directories were left between two names
    jobs, cuts, updates \* what is left of the bounds

partitions == <<kernel, rootfs>>
disk == <<live, slots, snap, wifi, tool>>
machine == <<running, monitor, writers>>
history == <<written, disturbed, fooled, seedBroken>>
bounds == <<jobs, cuts, updates>>
vars == <<partitions, env, disk, machine, pc, job, staged, history, bounds>>

InstallPlaces == {"stage", "download", "wipe", "seedClean", "seedBuild", "seedAside",
                  "seedSwap", "seedDone", "bootstrap", "rootfs", "rootfsEnd", "kernel",
                  "kernelEnd", "tool", "wifi", "snapshot", "snapshotEnd"}
\* the places of a swap at which entries are on their way
Moving == {"archive", "capture", "captureEnd", "restore", "restoring", "env", "envEnd"}
Places == InstallPlaces \cup Moving \cup {"idle", "check", "quiet", "stop", "enter", "verify"}

Stores == [Names -> Contents \cup {None}]

TypeOK ==
    /\ kernel \in [Pairs -> Images] /\ rootfs \in [Pairs -> Images]
    /\ env \in [Devices -> Copies]
    /\ live \in Stores /\ slots \in [Firmwares -> Stores]
    /\ snap \in [Firmwares -> Pairs \cup {None, "torn"}]
    /\ wifi \in Contents \cup {None} /\ tool \in BOOLEAN
    /\ running \in Pairs \cup {None} /\ monitor \in BOOLEAN /\ writers \in BOOLEAN
    /\ pc \in Places
    /\ job \in [install : BOOLEAN, fresh : BOOLEAN, seed : BOOLEAN,
                from : Firmwares, toPair : Pairs, todo : SUBSET Names]
    /\ staged \subseteq {"rootfs", "kernel", "swap", "helix"}
    /\ written \subseteq Contents
    /\ disturbed \in BOOLEAN /\ fooled \in BOOLEAN /\ seedBroken \in BOOLEAN
    /\ jobs \in Nat /\ cuts \in Nat /\ updates \in Nat

-----------------------------------------------------------------------------
(* The U-Boot environment.                                                 *)

\* a flag is ahead of another by less than half the circle
NotOlder(f, g) == 2 * ((f - g) % FlagModulus) < FlagModulus

\* _select_current_env
Current(e) ==
    IF e["p2"].ok /\ (e["p3"].ok => NotOlder(e["p2"].flag, e["p3"].flag)) THEN "p2" ELSE "p3"

Readable(e) == \E d \in Devices : e[d].ok
Selected(e) == e[Current(e)].pair

\* next_env_flag
NextEnvFlag(f) == (f + 1) % FlagModulus

\* mutant: the copy in use is overwritten
InactiveSame(e) == Current(e)

\* inactive_env_device
InactiveDevice(e) == OtherDevice(Current(e))

Whole(pair) == kernel[pair] # "torn" /\ kernel[pair] = rootfs[pair]

Init ==
    /\ kernel = [p \in Pairs |-> "stock"] /\ rootfs = kernel
    /\ env \in StartEnvs /\ running = Selected(env)
    /\ live = [n \in Names |-> None]
    /\ slots = [f \in Firmwares |-> live]
    /\ snap = [f \in Firmwares |-> None]
    /\ wifi = None /\ tool = FALSE
    /\ monitor = TRUE /\ writers = TRUE
    /\ pc = "idle" /\ job = NoJob /\ staged = {}
    /\ written = {} /\ disturbed = FALSE /\ fooled = FALSE /\ seedBroken = FALSE
    /\ jobs = MaxJobs /\ cuts = MaxCuts /\ updates = MaxUpdates

-----------------------------------------------------------------------------
(* The printer outside the two programs.                                   *)

Running == kernel[running]

\* U-Boot reads the environment as the programs do
Boot ==
    /\ running = None /\ Whole(Selected(env))
    /\ running' = Selected(env)
    /\ monitor' = (kernel[Selected(env)] = "stock") /\ writers' = TRUE
    /\ UNCHANGED <<partitions, env, disk, pc, job, staged, history, bounds>>

\* the user restarts the printer, as after a swap that has failed
Restart ==
    /\ running # None /\ pc = "idle" /\ ~writers
    /\ running' = None
    /\ UNCHANGED <<partitions, env, disk, monitor, writers, pc, job, staged, history, bounds>>

\* the running firmware's services create an entry that is missing
Create ==
    /\ running # None /\ writers /\ live["data"] = None
    /\ live' = [live EXCEPT !["data"] = Default(Running)]
    /\ UNCHANGED <<partitions, env, slots, snap, wifi, tool, machine, pc, job, staged, history, bounds>>

\* the user leaves something in an entry, or the running firmware does
UserWrites ==
    /\ running # None /\ pc = "idle"
    /\ \E n \in Written(Running) :
        /\ <<Running, n>> \notin written
        /\ live[n] \in {None, Default(Running)}
        /\ live' = [live EXCEPT ![n] = <<Running, n>>]
        /\ written' = written \cup {<<Running, n>>}
    /\ UNCHANGED <<partitions, env, slots, snap, wifi, tool, machine, pc, job, staged,
                   disturbed, fooled, seedBroken, bounds>>

UserJoins ==
    /\ running # None /\ pc = "idle" /\ Running = "custom" /\ <<"custom", "wifi">> \notin written
    /\ wifi' = <<"custom", "wifi">>
    /\ written' = written \cup {wifi'}
    /\ UNCHANGED <<partitions, env, live, slots, snap, tool, machine, pc, job, staged,
                   disturbed, fooled, seedBroken, bounds>>

\* an update of the stock firmware overwrites the pair that does not run
StockUpdate ==
    /\ running # None /\ pc = "idle" /\ Running = "stock" /\ updates > 0
    /\ updates' = updates - 1
    /\ kernel' = [kernel EXCEPT ![Other(running)] = "stock"]
    /\ rootfs' = [rootfs EXCEPT ![Other(running)] = "stock"]
    /\ env' = [env EXCEPT ![InactiveDevice(env)] =
                   [ok |-> TRUE, flag |-> NextEnvFlag(env[Current(env)].flag), pair |-> Other(running)]]
    /\ running' = None
    /\ UNCHANGED <<disk, monitor, writers, pc, job, staged, history, jobs, cuts>>

\* a program ends; the installer removes its staging directory
Ended ==
    /\ pc' = "idle" /\ job' = NoJob
    /\ staged' = IF job.install THEN {} ELSE staged

PowerCut ==
    /\ running # None /\ pc # "idle" /\ cuts > 0
    /\ cuts' = cuts - 1
    /\ running' = None /\ pc' = "idle" /\ job' = NoJob
    /\ disturbed' = (disturbed \/ pc \in Moving)
    /\ seedBroken' = (seedBroken \/ pc = "seedSwap")
    /\ UNCHANGED <<partitions, env, disk, monitor, writers, staged, written, fooled, jobs, updates>>

-----------------------------------------------------------------------------
(* The installer.                                                          *)

Go(here, next) == pc = here /\ pc' = next

\* check_stock, which looks at the markers of the running kernel and root
CheckStock == kernel[running] = "stock" /\ rootfs[running] = "stock"

\* check_boot_contract
BootContract == Selected(env) = running

\* previous_install_found
Found == wifi # None \/ snap["custom"] # None \/ \E n \in Names : slots["custom"][n] # None

\* helix_is_current: an installed HelixScreen may be recent enough
SeedHelix(fresh) ==
    IF fresh \/ slots["custom"]["helix"] = None THEN {TRUE} ELSE BOOLEAN

\* confirm_install offers a fresh install when there is something to erase
ConfirmInstall == IF Found THEN BOOLEAN ELSE {FALSE}

\* main up to prepare_staging_dir
StartInstall ==
    /\ running # None /\ CheckStock /\ BootContract /\ jobs > 0
    /\ Go("idle", "stage")
    /\ jobs' = jobs - 1
    /\ \E fresh \in ConfirmInstall : \E seed \in SeedHelix(fresh) :
        job' = [install |-> TRUE, fresh |-> fresh, seed |-> seed,
                from |-> "stock", toPair |-> Other(running), todo |-> {}]
    /\ UNCHANGED <<partitions, env, disk, machine, staged, history, cuts, updates>>

\* prepare_staging_dir
Stage ==
    /\ Go("stage", "download")
    /\ staged' = {}
    /\ UNCHANGED <<partitions, env, disk, machine, job, history, bounds>>

\* what main downloads
Files == {"rootfs", "kernel", "swap"} \cup IF job.seed THEN {"helix"} ELSE {}

AfterErase == IF job.seed THEN "seedClean" ELSE "bootstrap"

\* download_sha256: a file whose checksum is right is kept
Download ==
    /\ pc = "download"
    /\ \E f \in Files \ staged : staged' = staged \cup {f}
    /\ pc' = IF staged' # Files THEN pc ELSE IF job.fresh THEN "wipe" ELSE AfterErase
    /\ UNCHANGED <<partitions, env, disk, machine, job, history, bounds>>

\* wipe_previous_install removes the slot and then the overlay; whatever of the
\* stock firmware an interrupted swap left in the slot goes with it
Wipe ==
    /\ pc = "wipe"
    /\ \/ \E n \in Names :
            /\ slots["custom"][n] # None
            /\ slots' = [slots EXCEPT !["custom"][n] = None]
            /\ written' = IF slots["custom"][n][1] = "custom" \/ disturbed
                          THEN written \ {slots["custom"][n]} ELSE written
            /\ UNCHANGED <<snap, wifi, pc>>
       \/ /\ snap["custom"] # None
          /\ snap' = [snap EXCEPT !["custom"] = None]
          /\ UNCHANGED <<slots, wifi, written, pc>>
       \/ /\ snap["custom"] = None /\ \A n \in Names : slots["custom"][n] = None
          /\ wifi' = None /\ written' = written \ {wifi}
          /\ pc' = AfterErase
          /\ UNCHANGED <<slots, snap>>
    /\ UNCHANGED <<partitions, env, live, tool, machine, job, staged, disturbed, fooled, seedBroken, bounds>>

SetSlot(n, content) == slots' = [slots EXCEPT !["custom"][n] = content]

\* seed_custom_helix_archive
SeedClean ==
    /\ Go("seedClean", "seedBuild")
    /\ slots' = [slots EXCEPT !["custom"]["helixOld"] = None, !["custom"]["helixNew"] = None]
    /\ UNCHANGED <<partitions, env, live, snap, wifi, tool, machine, job, staged, history, bounds>>

\* the release, with the user's files of the installed one
SeedBuild ==
    /\ Go("seedBuild", "seedAside")
    /\ SetSlot("helixNew", IF slots["custom"]["helix"] # None
                           THEN slots["custom"]["helix"] ELSE Default("custom"))
    /\ UNCHANGED <<partitions, env, live, snap, wifi, tool, machine, job, staged, history, bounds>>

SeedAside ==
    /\ Go("seedAside", "seedSwap")
    /\ slots' = [slots EXCEPT !["custom"]["helixOld"] = slots["custom"]["helix"],
                              !["custom"]["helix"] = None]
    /\ UNCHANGED <<partitions, env, live, snap, wifi, tool, machine, job, staged, history, bounds>>

SeedSwap ==
    /\ Go("seedSwap", "seedDone")
    /\ slots' = [slots EXCEPT !["custom"]["helix"] = slots["custom"]["helixNew"],
                              !["custom"]["helixNew"] = None]
    /\ UNCHANGED <<partitions, env, live, snap, wifi, tool, machine, job, staged, history, bounds>>

SeedDone ==
    /\ Go("seedDone", "bootstrap")
    /\ SetSlot("helixOld", None)
    /\ UNCHANGED <<partitions, env, live, snap, wifi, tool, machine, job, staged, history, bounds>>

\* a rename failed: the directory under the final name goes, the old one
\* returns; after a failure of the first rename there is no old one
SeedFails ==
    /\ pc \in {"seedAside", "seedSwap"}
    /\ slots' = [slots EXCEPT !["custom"]["helix"] = slots["custom"]["helixOld"],
                              !["custom"]["helixOld"] = None, !["custom"]["helixNew"] = None]
    /\ seedBroken' = (seedBroken \/ pc = "seedAside")
    /\ Ended
    /\ UNCHANGED <<partitions, env, live, snap, wifi, tool, machine, written, disturbed, fooled, bounds>>

\* seed_custom_bootstrap: a file outside the slots
SeedBootstrap ==
    /\ Go("bootstrap", "rootfs")
    /\ UNCHANGED <<partitions, env, disk, machine, job, staged, history, bounds>>

\* flash, in two steps: the partition is torn until dd has ended
FlashRootfs ==
    /\ \/ Go("rootfs", "rootfsEnd") /\ rootfs' = [rootfs EXCEPT ![job.toPair] = "torn"]
       \/ Go("rootfsEnd", "kernel") /\ rootfs' = [rootfs EXCEPT ![job.toPair] = "custom"]
    /\ UNCHANGED <<kernel, env, disk, machine, job, staged, history, bounds>>

FlashKernel ==
    /\ \/ Go("kernel", "kernelEnd") /\ kernel' = [kernel EXCEPT ![job.toPair] = "torn"]
       \/ Go("kernelEnd", "tool") /\ kernel' = [kernel EXCEPT ![job.toPair] = "custom"]
    /\ UNCHANGED <<rootfs, env, disk, machine, job, staged, history, bounds>>

InstallSwap ==
    /\ Go("tool", "wifi")
    /\ tool' = TRUE
    /\ UNCHANGED <<partitions, env, live, slots, snap, wifi, machine, job, staged, history, bounds>>

\* the stock firmware's networks that the custom firmware can use, if any
UsableWifi == {None, Default("custom")}

\* copy_stock_wifi keeps the networks of an earlier installation; without any,
\* it copies those the custom firmware can use; an error is only reported
CopyStockWifi ==
    /\ Go("wifi", "snapshot")
    /\ wifi' \in IF wifi # None THEN {wifi} ELSE UsableWifi
    /\ UNCHANGED <<partitions, env, live, slots, snap, tool, machine, job, staged, history, bounds>>

\* write_custom_env_blob truncates the file and writes it
WriteCustomEnv ==
    /\ \/ Go("snapshot", "snapshotEnd") /\ snap' = [snap EXCEPT !["custom"] = "torn"]
       \/ Go("snapshotEnd", "check") /\ snap' = [snap EXCEPT !["custom"] = job.toPair]
    /\ UNCHANGED <<partitions, env, live, slots, wifi, tool, machine, job, staged, history, bounds>>

\* die: no network, no space, dd or an image check failed
InstallFails ==
    /\ pc \in InstallPlaces \ {"seedSwap", "wifi"}
    /\ Ended
    /\ UNCHANGED <<partitions, env, disk, machine, history, bounds>>

-----------------------------------------------------------------------------
(* The swap utility, on its own or as the installer's last step.           *)

To == IF job.from = "stock" THEN "custom" ELSE "stock"

StartSwap ==
    /\ running # None /\ jobs > 0 /\ (Running = "stock" => tool)
    /\ Go("idle", "check")
    /\ jobs' = jobs - 1
    /\ job' = [NoJob EXCEPT !.from = Running]
    /\ UNCHANGED <<partitions, env, disk, machine, staged, history, cuts, updates>>

\* what a partition's marker says; a torn image may say anything
Reads(image) == IF image = "torn" THEN Images ELSE {image}

\* require_target_installed
TargetInstalled(pair) == pair # running /\ To \in Reads(kernel[pair]) \cap Reads(rootfs[pair])

\* cmd_swap up to quiet_udisk_writers
Check ==
    /\ Go("check", "quiet")
    /\ snap[To] \in Pairs /\ TargetInstalled(snap[To])
    /\ job' = [job EXCEPT !.toPair = snap[To]]
    /\ fooled' = (fooled \/ "torn" \in {kernel[snap[To]], rootfs[snap[To]]})
    /\ UNCHANGED <<partitions, env, disk, machine, staged, written, disturbed, seedBroken, bounds>>

\* there is no usable snapshot, its pair does not hold the firmware, or the
\* user declines
Refuse ==
    /\ pc = "check" /\ Ended
    /\ UNCHANGED <<partitions, env, disk, machine, history, bounds>>

\* mutant: Monitor is not killed first
QuietStopOnly ==
    \/ Go("quiet", "stop") /\ UNCHANGED <<monitor, writers>>
    \/ Go("stop", "enter") /\ writers' = monitor /\ UNCHANGED monitor

\* quiet_udisk_writers: Monitor first, then the services, which it would restart
Quiet ==
    \/ Go("quiet", "stop") /\ monitor' = FALSE /\ UNCHANGED writers
    \/ Go("stop", "enter") /\ writers' = monitor /\ UNCHANGED monitor

StopWriters ==
    /\ Quiet
    /\ UNCHANGED <<partitions, env, disk, running, job, staged, history, bounds>>

\* the entries present now
Enter ==
    /\ Go("enter", "archive")
    /\ job' = [job EXCEPT !.todo = {n \in Names : live[n] # None}]
    /\ UNCHANGED <<partitions, env, disk, machine, staged, history, bounds>>

\* mutant: an entry at the destination is replaced
MovedOver(src, dest, n) == TRUE

\* move_entry_to_dir leaves an entry whose name is taken
Moves(src, dest, n) == dest[n] = None

Archive ==
    /\ pc = "archive"
    /\ \/ \E n \in job.todo :
            /\ job' = [job EXCEPT !.todo = @ \ {n}]
            /\ IF Moves(live, slots[job.from], n)
               THEN /\ slots' = [slots EXCEPT ![job.from][n] = live[n]]
                    /\ live' = [live EXCEPT ![n] = None]
               ELSE UNCHANGED <<slots, live>>
            /\ UNCHANGED pc
       \/ job.todo = {} /\ pc' = "capture" /\ UNCHANGED <<job, slots, live>>
    /\ UNCHANGED <<partitions, env, snap, wifi, tool, machine, staged, history, bounds>>

\* capture_env_to_slot: the live environment, normalised to the running pair
Capture ==
    /\ \/ Go("capture", "captureEnd") /\ snap' = [snap EXCEPT ![job.from] = "torn"]
       \/ Go("captureEnd", "restore") /\ snap' = [snap EXCEPT ![job.from] = running]
    /\ UNCHANGED <<partitions, env, live, slots, wifi, tool, machine, job, staged, history, bounds>>

Restore ==
    \/ /\ Go("restore", "restoring")
       /\ job' = [job EXCEPT !.todo = {n \in Names : slots[To][n] # None}]
       /\ UNCHANGED <<partitions, env, disk, machine, staged, history, bounds>>
    \/ /\ pc = "restoring"
       /\ \/ \E n \in job.todo :
               /\ job' = [job EXCEPT !.todo = @ \ {n}]
               /\ IF Moves(slots[To], live, n)
                  THEN /\ live' = [live EXCEPT ![n] = slots[To][n]]
                       /\ slots' = [slots EXCEPT ![To][n] = None]
                  ELSE UNCHANGED <<slots, live>>
               /\ UNCHANGED pc
          \/ job.todo = {} /\ pc' = "env" /\ UNCHANGED <<job, slots, live>>
       /\ UNCHANGED <<partitions, env, snap, wifi, tool, machine, staged, history, bounds>>

\* write_new_current_env: the copy not in use is overwritten in place
WriteEnv ==
    /\ \/ /\ Go("env", "envEnd")
          /\ env' = [env EXCEPT ![InactiveDevice(env)] = [ok |-> FALSE, flag |-> 0, pair |-> "A"]]
       \/ /\ Go("envEnd", "verify")
          /\ env' = [env EXCEPT ![InactiveDevice(env)] =
                         [ok |-> TRUE, flag |-> NextEnvFlag(env[Current(env)].flag), pair |-> job.toPair]]
    /\ UNCHANGED <<partitions, disk, machine, job, staged, history, bounds>>

\* an error exit of a swap that was stopping the writers or has stopped them: an
\* entry is a mount point, or a move, the capture or the write of the environment
\* fails; nothing is put back
SwapFails ==
    /\ pc \in {"quiet", "stop", "enter"} \cup Moving /\ cuts > 0
    /\ cuts' = cuts - 1
    /\ Ended
    /\ disturbed' = (disturbed \/ pc \in Moving)
    /\ UNCHANGED <<partitions, env, disk, machine, written, fooled, seedBroken, jobs, updates>>

\* verify_boot_env, and the reboot or power-off
Finish ==
    /\ pc = "verify" /\ Ended
    /\ running' = IF Selected(env) = job.toPair THEN None ELSE running
    /\ UNCHANGED <<partitions, env, disk, monitor, writers, history, bounds>>

-----------------------------------------------------------------------------
Install ==
    \/ StartInstall \/ Stage \/ Download \/ Wipe \/ SeedClean \/ SeedBuild \/ SeedAside
    \/ SeedSwap \/ SeedDone \/ SeedFails \/ SeedBootstrap \/ FlashRootfs \/ FlashKernel
    \/ InstallSwap \/ CopyStockWifi \/ WriteCustomEnv \/ InstallFails

Swap ==
    \/ StartSwap \/ Check \/ Refuse \/ StopWriters \/ Enter \/ Archive \/ Capture
    \/ Restore \/ WriteEnv \/ SwapFails \/ Finish

Outside == Boot \/ Restart \/ Create \/ UserWrites \/ UserJoins \/ StockUpdate \/ PowerCut

Next == Install \/ Swap \/ Outside

Spec == Init /\ [][Next]_vars

-----------------------------------------------------------------------------
(* Properties.                                                             *)

\* Whenever the power fails, U-Boot finds a readable environment, and the pair
\* it names holds the kernel and the root file system of one firmware, unless
\* the check before a swap took a torn image for a whole one.
BootsWhole == Readable(env) /\ (Whole(Selected(env)) \/ fooled)

\* What a user left in an entry exists somewhere, whatever was interrupted and
\* started again, until a fresh install erases it; HelixScreen's files may go
\* when the two renames of its directories did not both happen.
DataKept ==
    \A c \in written :
        \/ c = wifi \/ (c[2] = "helix" /\ seedBroken)
        \/ \E n \in Names : live[n] = c \/ \E f \in Firmwares : slots[f][n] = c

\* A firmware runs on its own entries, and all of them: none of the other
\* firmware's is among them and none of its own is still archived, unless a
\* swap was cut short, or failed, while it moved entries.
RunsOnOwn ==
    running # None /\ pc = "idle" /\ ~disturbed =>
        \A n \in Names : (live[n] # None => live[n][1] = Running) /\ slots[Running][n] = None
=============================================================================
