---------------------------- MODULE MCSerial485 ----------------------------
(* Model-checking instances of Serial485. *)
EXTENDS Serial485, TLC

CONSTANTS c1, c2, a1, a2, f1, f2

TwoClients == {c1, c2}
OneClient  == {c1}
OneAddr    == {a1}
TwoAddrs   == {a1, a2}
OneFunc    == {f1}
TwoFuncs   == {f1, f2}

OneRequest  == {[addr |-> a1, func |-> f1]}
AllRequests == Keys
=============================================================================
