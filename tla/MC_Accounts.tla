---------------------------- MODULE MC_Accounts -----------------------------
(* Small instances of Accounts: a name of his own for each user, one model. *)
EXTENDS Accounts

CONSTANTS u1, u2, a1, a2, k1, v1, c1, gpt

SmallNames == [i \in Inserts |-> IF i \in Creations THEN gpt ELSE i]

=============================================================================
