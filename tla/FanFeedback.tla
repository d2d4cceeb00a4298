---------------------------- MODULE FanFeedback ----------------------------
(***************************************************************************)
(* Tachometer policy of the fans (extras/fan_feedback.py).  One poll looks *)
(* at all fans in turn; a pause it asks for keeps the poll waiting until   *)
(* the virtual SD card has stopped.  Time is counted in polls.             *)
(***************************************************************************)
EXTENDS PrintState

CONSTANTS ShutdownFans, PauseFans, WarnFans, \* the policy of printer.cfg
          Confirm,      \* confirm_seconds, in polls
          Repeat,       \* repeat_warn_seconds, in polls
          MaxStalls     \* bound: fans that stop

Fans == ShutdownFans \cup PauseFans \cup WarnFans

ASSUME FanAssumption ==
    /\ {Confirm, Repeat} \subseteq Nat \ {0} /\ MaxStalls \in Nat
    /\ ShutdownFans \cap (PauseFans \cup WarnFans) = {}
    /\ PauseFans \cap WarnFans = {}

VARIABLES
    stalled,    \* hardware: fans commanded on that do not turn
    ticks,      \* _stall_ticks
    sinceWarn,  \* polls since _last_warn_eventtime: Never when it is 0.0
    fanPoll,    \* "due", or "waits" inside send_pause_command
    stalls      \* fans that have stopped so far

fanVars == <<stalled, ticks, sinceWarn, fanPoll, stalls>>

Never == Repeat + 1

FanTypeOK ==
    /\ stalled \subseteq Fans /\ stalls \in 0..MaxStalls
    /\ ticks \in [Fans -> 0..Confirm] /\ sinceWarn \in [Fans -> 0..Never]
    /\ fanPoll \in {"due", "waits"}

FanInit ==
    /\ stalled = {} /\ stalls = 0 /\ fanPoll = "due"
    /\ ticks = [f \in Fans |-> 0] /\ sinceWarn = [f \in Fans |-> Never]

FanStops(f) ==
    /\ "fan_feedback" \in installed /\ f \notin stalled
    /\ stalls < MaxStalls /\ stalls' = stalls + 1
    /\ stalled' = stalled \cup {f}
    /\ UNCHANGED <<ticks, sinceWarn, fanPoll, printVars>>

\* It turns again, or is no longer commanded on.
FanRecovers(f) ==
    /\ f \in stalled
    /\ stalled' = stalled \ {f}
    /\ UNCHANGED <<ticks, sinceWarn, fanPoll, stalls, printVars>>

Min(a, b) == IF a < b THEN a ELSE b

\* Mutant: a fan is looked at in a print only.
TicksInPrint(f) ==
    IF f \in stalled /\ IsPrinting THEN Min(ticks[f] + 1, Confirm) ELSE 0

\* The ticks when this poll comes to f, and the age of the last warning.
Ticks(f) == IF f \in stalled THEN Min(ticks[f] + 1, Confirm) ELSE 0

Age(f)   == IF f \notin stalled \/ sinceWarn[f] = Never THEN Never
            ELSE Min(sinceWarn[f] + 1, Repeat)

Confirmed(f) == Ticks(f) = Confirm

Warns(f) == /\ f \notin ShutdownFans
            /\ Confirmed(f) /\ Age(f) >= Repeat

Pauses == print = "printing" /\ \E f \in PauseFans : Warns(f)

ShutsDown == \E f \in ShutdownFans : Confirmed(f)

\* _poll and _check_protection; the fans come in the order of printer.cfg.
PollFans ==
    /\ "fan_feedback" \in installed /\ ~down /\ fanPoll = "due"
    /\ ticks' = [f \in Fans |-> Ticks(f)]
    /\ sinceWarn' = [f \in Fans |-> IF Warns(f) THEN 0 ELSE Age(f)]
    /\ down' \in {ShutsDown, ShutsDown /\ ~Pauses}
    /\ print' = IF Pauses THEN AskPause(print) ELSE print
    /\ fanPoll' = IF Pauses THEN "waits" ELSE "due"
    /\ UNCHANGED <<stalled, stalls, prints>>

\* The card stops, and send_pause_command returns within a millisecond; a poll
\* that waited in it looks at the other fans.
CardStopsFans ==
    /\ CardStops
    /\ down' = (down \/ (fanPoll = "waits" /\
                           \E f \in ShutdownFans : ticks[f] = Confirm))
    /\ fanPoll' = "due"
    /\ UNCHANGED <<stalled, ticks, sinceWarn, stalls>>

----------------------------------------------------------------------------
(***************************************************************************)
(* A fan of the list pause_fans that does not turn stops the print, and    *)
(* one of shutdown_fans the printer, unless it turns again: also when a    *)
(* warning came first, a pause was already under way, or the poll itself   *)
(* waits for the card to stop (the policy stated at fan_feedback.py:6-10). *)
(***************************************************************************)
FansProtect ==
    /\ \A f \in PauseFans : []<>(f \notin stalled \/ print # "printing" \/ down)
    /\ \A f \in ShutdownFans : []<>(f \notin stalled \/ down)
============================================================================
