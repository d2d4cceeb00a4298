---------------------------- MODULE MCSlotSwap ----------------------------
(* A model-checking instance of SlotSwap. *)
EXTENDS SlotSwap

Copy(flag, pair) == [ok |-> TRUE, flag |-> flag, pair |-> pair]
NoCopy == [ok |-> FALSE, flag |-> 0, pair |-> "A"]

\* one copy; an older one that names the other pair; two of the same age
FewEnvs == {[p2 |-> Copy(FlagModulus - 1, "A"), p3 |-> NoCopy],
            [p2 |-> Copy(0, "B"), p3 |-> Copy(1, "A")],
            [p2 |-> Copy(0, "A"), p3 |-> Copy(0, "A")]}
=============================================================================
