--------------------------- MODULE MC_X402Payment ---------------------------
(* Small instances of X402Payment.                                         *)
EXTENDS X402Payment

CONSTANTS r1, r2, r3, r4, r5, small, large

\* A payment sent with two requests; another; a garbled header; no header.
HeaderOf == [r \in Requests |->
  CASE r \in {r1, r2} -> large [] r = r3 -> small
    [] r = r4 -> Garbage [] r = r5 -> NoHeader]

\* The small payment is too small for its request; the bare request is free.
PriceOf == [r \in Requests |-> CASE r = r2 -> 1 [] r = r5 -> 0 [] OTHER -> 5]

WorthOf == [p \in Payments |-> IF p = large THEN 5 ELSE 1]
=============================================================================
