---------------------------- MODULE MC_Metering -----------------------------
(* Small instances of Metering. A call costs nothing or two units and an   *)
(* account opens with two, so one charge exhausts it and the next, already *)
(* admitted, overdraws it.                                                 *)
EXTENDS Reports

CONSTANTS o1, o2, r1, r2, r3, d1, c1, c2

\* A prompt at 0.05 dollars: ten tokens round from half a unit to nothing,
\* thirty from one and a half to two.
Cheap == [prompt |-> 10, promptPrice |-> 500, completion |-> 0, completionPrice |-> 800]
Dear == [prompt |-> 30, promptPrice |-> 500, completion |-> 0, completionPrice |-> 800]
CheapOrDear == {Cheap, Dear}
OnlyDear == {Dear}

\* All on one account, or the third call on another.
OneOrgPayer == [x \in Requests \cup TopUps |-> o1]
TwoOrgPayer == [x \in Requests \cup TopUps |-> IF x = r3 THEN o2 ELSE o1]
=============================================================================
