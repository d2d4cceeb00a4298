--------------------------- MODULE PrintServices ---------------------------
(***************************************************************************)
(* The extras that follow a print: the heat soak, the protection of the    *)
(* fans and the light (modules HeatSoak, FanFeedback and LedIdle) on one   *)
(* print, sharing the g-code mutex and the pause of the print.  Each is a  *)
(* section of printer.cfg, so that any set of them may be loaded.          *)
(***************************************************************************)
EXTENDS HeatSoak, FanFeedback, LedIdle, BoxTracking

CONSTANT Configs        \* the sets of sections that are looked at

vars == <<installed, printVars, soakVars, fanVars, ledVars, boxVars>>

Init ==
    /\ installed \in Configs
    /\ PrintInit /\ SoakInit /\ FanInit /\ LedInit /\ BoxInit

\* Whether a script or a command of the user gets the g-code mutex.
GcodeFree == ~soak.active /\ op = NoOp

Others(mine) ==
    /\ installed' = installed
    /\ mine # "soak" => UNCHANGED soakVars
    /\ mine # "fans" => UNCHANGED fanVars
    /\ mine # "led"  => UNCHANGED ledVars
    /\ mine # "box"  => UNCHANGED boxVars

\* The events at a print's start and end that the extras listen to.
NewPrint ==
    /\ PrintStarts /\ GcodeFree
    /\ ResetSoak /\ ResetRecovery
    /\ UNCHANGED <<installed, fanVars, ledVars>>

EndPrint ==
    /\ PrintEnds /\ GcodeFree
    /\ ResetRecovery
    /\ UNCHANGED <<installed, soakVars, fanVars, ledVars>>

FollowPrint ==
    /\ \/ PauseCommand /\ GcodeFree
       \/ PauseRuns /\ GcodeFree
       \/ PrintResumes /\ GcodeFree /\ ~blocked
       \/ PauseElsewhere
    /\ Others("none")

Soak ==
    /\ (StartSoak /\ GcodeFree) \/ SkipSoak \/ InterruptSoak \/ LookAtSoak
    /\ Others("soak")

FansNext ==
    /\ \/ \E f \in Fans : FanStops(f) \/ FanRecovers(f)
       \/ PollFans
       \/ CardStopsFans /\ GcodeFree
    /\ Others("fans")

Led ==
    /\ \/ \E cmd \in {"on", "off", "other"} : UserCommand(cmd)
       \/ \E on \in BOOLEAN : SetEnabled(on)
       \/ LedStatus \/ QuietEnds \/ LedTimer
       \/ SetPinRuns /\ GcodeFree
    /\ Others("led")

Box == "box" \in installed /\ BoxNext /\ Others("box")

\* What follows the last answer of a read is not interrupted.
BoxHandles == Handling /\ Others("box")

Next ==
    \/ BoxHandles
    \/ /\ ~NoYield
       /\ NewPrint \/ EndPrint \/ FollowPrint \/ Soak \/ FansNext \/ Led \/ Box

(***************************************************************************)
(* The reactor runs the timers and the callbacks that are due, and a       *)
(* greenlet that waits looks again: nothing of this is the user's.         *)
(***************************************************************************)
Fairness ==
    /\ WF_vars(LookAtSoak /\ Others("soak"))
    /\ WF_vars(PollFans /\ Others("fans"))
    /\ WF_vars(CardStopsFans /\ GcodeFree /\ Others("fans"))
    /\ WF_vars(LedTimer /\ Others("led"))
    /\ WF_vars(SetPinRuns /\ GcodeFree /\ Others("led"))

Spec == Init /\ [][Next]_vars /\ Fairness
============================================================================
