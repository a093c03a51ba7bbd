------------------------- MODULE MCThreadOutputGate -------------------------
(* Small instances of ThreadOutputGate for TLC. *)
EXTENDS ThreadOutputGate

CONSTANTS t1, t2, c1, c2, r1, r2

OneRoute == [c \in Commands |-> r1]
TwoRoutes == [c \in Commands |-> IF c = c1 THEN r1 ELSE r2]
SameThread == [c \in Commands |-> t1]
OneSwitch == [c \in Commands |-> IF c = c1 THEN t1 ELSE None]

Faults(sink, fail, cancel, reset, close) ==
  [sink |-> sink, fail |-> fail, cancel |-> cancel, reset |-> reset,
   close |-> close]
(* Sends may fail twice, the rest once. *)
Several == Faults(2, 1, 1, 1, 1)
EveryFault == Faults(1, 1, 1, 1, 1)
=============================================================================
