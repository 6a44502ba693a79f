--------------------------- MODULE MCOrderManager ---------------------------
(* The order manager on small instances: o1 may ask for two units and be   *)
(* amended once, another order is of a single unit.                        *)
EXTENDS OrderManager

CONSTANT o1

Quantities == [c \in Order |-> IF c = o1 THEN 2 ELSE 1]
Amendments == [c \in Order |-> IF c = o1 THEN 1 ELSE 0]
=============================================================================
