----------------------------- MODULE HeatSoak -----------------------------
(***************************************************************************)
(* The interruptible heat soak (extras/heat_soak.py).  HEAT_SOAK holds the *)
(* g-code mutex while it counts down, so only the webhook, an interrupt of *)
(* Klipper and a pause asked by another extra reach it meanwhile.          *)
(***************************************************************************)
EXTENDS PrintState

CONSTANTS SoakTime,     \* looks at the condition a soak takes
          MaxSoakInputs \* bound: soaks and skips

ASSUME SoakAssumption == SoakTime \in Nat \ {0} /\ MaxSoakInputs \in Nat

VARIABLES
    soak,       \* the running cmd_HEAT_SOAK: soak_active, the time remaining,
                \* whether the interrupt counter has moved, is_sd_print
    skip,       \* skip_requested
    ended,      \* history: how the last soak ended
    asked,      \* history: a skip or an interrupt since the last reset
    during,     \* history: one since the running soak began
    soakInputs  \* soaks and skips so far

soakVars == <<soak, skip, ended, asked, during, soakInputs>>

NoSoak == [active |-> FALSE, left |-> 0, moved |-> FALSE, sd |-> FALSE]

SoakTypeOK ==
    /\ soak \in [active : BOOLEAN, left : 0..SoakTime, moved : BOOLEAN,
                 sd : BOOLEAN]
    /\ {skip, asked, during} \subseteq BOOLEAN
    /\ ended \in {"none", "skipped", "cancelled", "complete"}
    /\ soakInputs \in 0..MaxSoakInputs

SoakInit ==
    /\ soak = NoSoak /\ skip = FALSE /\ ended = "none"
    /\ asked = FALSE /\ during = FALSE /\ soakInputs = 0

\* Mutant: the reset forgets the skip that is armed.
ResetSoakArmed ==
    /\ skip' = skip /\ asked' = FALSE
    /\ soak' = [soak EXCEPT !.active = FALSE, !.left = 0]
    /\ during' = FALSE /\ ended' = "none"
    /\ UNCHANGED soakInputs

\* _reset: print_stats:reset, virtual_sdcard:load_file and reset_file.
ResetSoak ==
    /\ skip' = FALSE /\ asked' = FALSE
    /\ soak' = [soak EXCEPT !.active = FALSE, !.left = 0]
    /\ during' = FALSE /\ ended' = "none"
    /\ UNCHANGED soakInputs

SoakInput == soakInputs < MaxSoakInputs /\ soakInputs' = soakInputs + 1

StartSoak ==
    /\ "heat_soak" \in installed /\ ~down /\ ~soak.active /\ SoakInput
    /\ IF skip
       THEN /\ skip' = FALSE /\ ended' = "skipped"
            /\ UNCHANGED <<soak, during>>
       ELSE /\ soak' = [active |-> TRUE, left |-> SoakTime, moved |-> FALSE,
                        sd |-> IsPrinting]
            /\ during' = FALSE /\ ended' = "none"
            /\ UNCHANGED skip
    /\ UNCHANGED <<asked, printVars>>

\* SOAK_SKIP and the skip_soak webhook.
SkipSoak ==
    /\ "heat_soak" \in installed /\ SoakInput
    /\ skip' = TRUE /\ asked' = TRUE /\ during' = TRUE
    /\ soak' = [soak EXCEPT !.moved = soak.active]
    /\ UNCHANGED <<ended, printVars>>

\* Klipper interrupts the command that runs.
InterruptSoak ==
    /\ soak.active /\ ~soak.moved
    /\ soak' = [soak EXCEPT !.moved = TRUE]
    /\ asked' = TRUE /\ during' = TRUE
    /\ UNCHANGED <<skip, ended, soakInputs, printVars>>

Interrupted == skip \/ soak.moved
Cancelled   == soak.sd /\ print # "printing"

\* wait_while looks at the condition, and what follows when it is over.
LookAtSoak ==
    /\ soak.active
    /\ IF down \/ Interrupted \/ Cancelled \/ soak.left = 0
       THEN /\ soak' = NoSoak
            /\ skip' = Interrupted
            /\ ended' = IF Interrupted THEN "skipped"
                        ELSE IF Cancelled THEN "cancelled" ELSE "complete"
       ELSE /\ soak' = [soak EXCEPT !.left = @ - 1]
            /\ UNCHANGED <<skip, ended>>
    /\ UNCHANGED <<asked, during, soakInputs, printVars>>

----------------------------------------------------------------------------
(***************************************************************************)
(* A soak is skipped only when that was asked since its print was loaded,  *)
(* and is complete only when no skip was asked and its print was not asked *)
(* to pause while it ran (_reset, and the order in which cmd_HEAT_SOAK     *)
(* looks at skip_requested, the counter and must_pause_work).              *)
(***************************************************************************)
SkipsAsAsked ==
    [][/\ ended' = "skipped" => asked
       /\ ended' = "complete" => ~during /\ ~(soak.sd /\ Pausing)]_ended
============================================================================
