----------------------------- MODULE LedIdle ------------------------------
(***************************************************************************)
(* Idle timeout of the light (extras/led_idle_manager.py).  The manager    *)
(* hears of a user's command before the command runs, and what it believes *)
(* of the light, led_is_on, is not the only one to switch it.  Time is     *)
(* counted in events of its timer.                                         *)
(***************************************************************************)
EXTENDS PrintState

CONSTANTS Timeout,      \* timeout, in events of the timer
          MaxLedInputs  \* bound: commands of the user

ASSUME LedAssumption == Timeout \in Nat \ {0} /\ MaxLedInputs \in Nat

VARIABLES
    lit,        \* hardware: the output pin
    led,        \* enabled, manually_off, the time since last_user_activity,
                \* led_is_on, and whether activity_suppressed_until is ahead
    setPin,     \* a SET_PIN of the user that the manager heard of and that
                \* waits for the g-code mutex
    userOff,    \* history: the user switched the light off, and no command
                \* that counts as activity came since
    ledInputs   \* commands of the user so far

ledVars == <<lit, led, setPin, userOff, ledInputs>>

LedTypeOK ==
    /\ lit \in {"on", "off"} /\ setPin \in {"none", "on", "off"}
    /\ led \in [enabled : BOOLEAN, off : BOOLEAN, idle : 0..Timeout,
                known : {"unset", "on", "off"}, quiet : BOOLEAN]
    /\ userOff \in BOOLEAN /\ ledInputs \in 0..MaxLedInputs

\* The manager's own SET_PIN is reported as activity too; _setting_led is set.
OwnCommand(l, value) == l

\* Mutant: what the manager last set is taken for the state of the light.
SetLedBelieved(s, value) ==
    IF s.led.known = value THEN s
    ELSE [lit |-> value,
          led |-> [OwnCommand(s.led, value) EXCEPT !.known = value]]

\* _set_led, on the state [lit |-> lit, led |-> led].
SetLed(s, value) ==
    IF s.led.known = value /\ s.lit = value THEN s
    ELSE [lit |-> value,
          led |-> [OwnCommand(s.led, value) EXCEPT !.known = value]]

Now == [lit |-> lit, led |-> led]
Become(s) == lit' = s.lit /\ led' = s.led

\* _handle_ready and _set_enabled.
Enabled(s) ==
    LET l == [s.led EXCEPT !.enabled = TRUE, !.off = FALSE, !.idle = 0]
        t == [s EXCEPT !.led = l]
    IN  IF IsPrinting THEN t ELSE SetLed(t, "on")

LedInit ==
    /\ \E value \in {"on", "off"} :
          LET s == [lit |-> value,
                    led |-> [enabled |-> FALSE, off |-> FALSE, idle |-> 0,
                             known |-> "unset", quiet |-> FALSE]]
              t == IF "led_idle_manager" \in installed THEN Enabled(s) ELSE s
          IN  lit = t.lit /\ led = t.led
    /\ setPin = "none" /\ userOff = FALSE /\ ledInputs = 0

LedInput ==
    /\ "led_idle_manager" \in installed /\ ~down
    /\ ledInputs < MaxLedInputs /\ ledInputs' = ledInputs + 1
    /\ UNCHANGED printVars

\* _handle_user_activity for a command that neither ignore_commands nor the
\* manager's own list names; "other" is not a SET_PIN of the light.
Heard == led.enabled /\ ~led.quiet

Activity(cmd) ==
    IF ~Heard THEN Now
    ELSE IF cmd = "off" THEN [Now EXCEPT !.led.off = TRUE]
    ELSE LET s == [Now EXCEPT !.led.off = FALSE, !.led.idle = 0]
         IN  IF IsPrinting THEN s ELSE SetLed(s, "on")

UserCommand(cmd) ==
    /\ LedInput /\ setPin = "none"
    /\ Become(Activity(cmd))
    /\ setPin' = IF cmd = "other" THEN "none" ELSE cmd
    /\ userOff' = (cmd = "off" \/ (userOff /\ ~Heard))

\* The SET_PIN runs.
SetPinRuns ==
    /\ setPin # "none" /\ lit' = setPin /\ setPin' = "none"
    /\ UNCHANGED <<led, userOff, ledInputs, printVars>>

\* SET_LED_IDLE_MANAGER, LED_IDLE_MANAGER_ON and _OFF.
SetEnabled(on) ==
    /\ LedInput
    /\ Become(IF on THEN Enabled(Now) ELSE [Now EXCEPT !.led.enabled = FALSE])
    /\ userOff' = (userOff /\ ~on)
    /\ UNCHANGED setPin

\* LED_IDLE_MANAGER_STATUS, and the end of the second it keeps quiet.
LedStatus ==
    /\ LedInput /\ led' = [led EXCEPT !.quiet = TRUE]
    /\ UNCHANGED <<lit, setPin, userOff>>

QuietEnds ==
    /\ led.quiet /\ led' = [led EXCEPT !.quiet = FALSE]
    /\ UNCHANGED <<lit, setPin, userOff, ledInputs, printVars>>

\* _timer_event.
LedTimer ==
    /\ ~down /\ led.enabled
    /\ LET idle == IF IsPrinting THEN 0
                   ELSE IF led.idle < Timeout THEN led.idle + 1 ELSE Timeout
           dark == led.off \/ idle = Timeout
       IN  Become(SetLed([Now EXCEPT !.led.idle = idle],
                         IF dark THEN "off" ELSE "on"))
    /\ UNCHANGED <<setPin, userOff, ledInputs, printVars>>

----------------------------------------------------------------------------
(***************************************************************************)
(* A print that goes on is lit, and an idle printer in the end stays dark, *)
(* unless the user has switched the light off, or the manager: also when   *)
(* the light was switched while the manager did not listen (_timer_event,  *)
(* and _set_led, which compares its belief with the pin).                  *)
(***************************************************************************)
LightFollows ==
    /\ []<>(lit = "on" \/ ~IsPrinting \/ ~led.enabled \/ userOff \/ down)
    /\ <>[](led.enabled /\ ~IsPrinting /\ ~down) => <>[](lit = "off")
============================================================================
