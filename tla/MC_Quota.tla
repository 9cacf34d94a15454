------------------------------ MODULE MC_Quota ------------------------------
(* Small instances of Quota: one call a day, two a month.                  *)
EXTENDS Quota

CONSTANTS r1, r2, r3

SmallLimits == [c \in Caps |-> IF c = "daily" THEN 1 ELSE 2]
=============================================================================
