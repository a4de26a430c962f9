------------------------------ MODULE MCInventory ------------------------------
(* Two configurations, one with a provider less.  A day of four hours, an      *)
(* anchor every other hour.                                                  *)
EXTENDS Inventory

CONSTANTS full, small, p1, p2

const_Configs == {full, small}
const_Order == <<p1, p2>>
const_Enabled == [c \in const_Configs |-> IF c = small THEN {p1} ELSE {p1, p2}]
const_Fingerprint == [c \in const_Configs |-> IF c = small THEN 0 ELSE 1]
=============================================================================
