----------------------------- MODULE BusService -----------------------------
(***************************************************************************)
(* What the RS-485 transport promises its clients, without threads, queues *)
(* or a serial port: requests are served one at a time, a session reserves *)
(* the bus for one client, and every client that asked is served or, once  *)
(* the printer is shut down, refused.                                      *)
(***************************************************************************)
CONSTANTS Clients, None

VARIABLES
    phase,    \* per client: has it asked, has it been answered
    onBus,    \* the client being served
    owner     \* the client that holds a session

vars == <<phase, onBus, owner>>

Init ==
    /\ phase = [c \in Clients |-> "idle"]
    /\ onBus = None /\ owner = None

Ask(c) ==
    /\ phase[c] = "idle"
    /\ phase' = [phase EXCEPT ![c] = "asked"]
    /\ UNCHANGED <<onBus, owner>>

\* The bus is given to a client only when no other client holds a session.
Serve(c) ==
    /\ onBus = None /\ owner \in {None, c} /\ phase[c] = "asked"
    /\ onBus' = c
    /\ UNCHANGED <<phase, owner>>

\* Serving a client may open or close a session of that client only.
Finish(c) ==
    /\ onBus = c
    /\ onBus' = None
    /\ owner' \in {owner, None, c}
    /\ phase' = [phase EXCEPT ![c] = "answered"]

\* At a shutdown all waiting requests are refused at once ...
RefuseAll ==
    /\ onBus = None
    /\ phase' = [c \in Clients |-> IF phase[c] = "asked" THEN "answered" ELSE phase[c]]
    /\ UNCHANGED <<onBus, owner>>

\* ... and the session is forgotten.
ForgetSession ==
    /\ onBus = None
    /\ owner' = None
    /\ UNCHANGED <<phase, onBus>>

Return(c) ==
    /\ phase[c] = "answered"
    /\ phase' = [phase EXCEPT ![c] = "idle"]
    /\ UNCHANGED <<onBus, owner>>

Next ==
    \/ \E c \in Clients : Ask(c) \/ Serve(c) \/ Finish(c) \/ Return(c)
    \/ RefuseAll \/ ForgetSession

Spec == Init /\ [][Next]_vars
=============================================================================
