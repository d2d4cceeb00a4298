-------------------------- MODULE MCPrintServices --------------------------
(***************************************************************************)
(* The instance that TLC checks: the soak with the fans, then the light,   *)
(* then two boxes with a slot each.  The three meet only in the print.     *)
(***************************************************************************)
EXTENDS PrintServices, TLC

CONSTANTS chamber, heatbreak, s11, s12

MCConfigs ==
    {{"heat_soak", "fan_feedback", "motor_control"}, {"led_idle_manager"},
     {"box"}}

MCBoxOf == (s11 :> 1) @@ (s12 :> 2)
============================================================================
