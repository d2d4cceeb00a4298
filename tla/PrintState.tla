---------------------------- MODULE PrintState ----------------------------
(***************************************************************************)
(* The print as the extras see it: print_stats, virtual_sdcard and         *)
(* pause_resume.  They belong to Klipper (outside src/) and are modelled   *)
(* from how the code in src/ reads and calls them.                         *)
(*                                                                         *)
(* print is "standby" (no print, or one that has ended), "printing",       *)
(* "stopping" (a pause is asked and the virtual SD card still runs its     *)
(* line), "pausing" (the card has stopped, the PAUSE script waits for the  *)
(* g-code mutex) or "paused".                                              *)
(***************************************************************************)
EXTENDS Naturals

CONSTANT MaxPrints      \* bound: prints started

VARIABLES
    installed,  \* the sections of printer.cfg: the extras that are loaded
    print,
    prints,     \* prints started so far
    down        \* is_shutdown()

printVars == <<print, prints, down>>

PrintTypeOK ==
    /\ print \in {"standby", "printing", "stopping", "pausing", "paused"}
    /\ prints \in 0..MaxPrints /\ down \in BOOLEAN

PrintInit == print = "standby" /\ prints = 0 /\ down = FALSE

IsPrinting == print \in {"printing", "stopping"}  \* print_stats, SD card active
PauseSent  == print \in {"stopping", "pausing", "paused"}
Pausing    == print \in {"stopping", "pausing"}   \* asked, not yet paused

\* send_pause_command and an asynchronous PAUSE; p is print.
AskPause(p) == IF p = "printing" THEN "stopping" ELSE p

PrintStarts ==
    /\ ~down /\ print = "standby"
    /\ prints < MaxPrints /\ prints' = prints + 1
    /\ print' = "printing"
    /\ UNCHANGED down

\* The last line, or CANCEL_PRINT.
PrintEnds ==
    /\ print \in {"printing", "paused"}
    /\ print' = "standby"
    /\ UNCHANGED <<prints, down>>

\* The user's PAUSE, between two lines.
PauseCommand ==
    /\ print = "printing" /\ print' = "paused"
    /\ UNCHANGED <<prints, down>>

\* motor_control asks for a pause, on a fault of a motor.
PauseElsewhere ==
    /\ "motor_control" \in installed
    /\ print = "printing" /\ print' = AskPause(print)
    /\ UNCHANGED <<prints, down>>

CardStops ==
    /\ print = "stopping" /\ print' = "pausing"
    /\ UNCHANGED prints

PauseRuns ==
    /\ print = "pausing" /\ print' = "paused"
    /\ UNCHANGED <<prints, down>>

PrintResumes ==
    /\ ~down /\ print = "paused" /\ print' = "printing"
    /\ UNCHANGED <<prints, down>>
============================================================================
