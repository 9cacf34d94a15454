--------------------------- MODULE MC_ModelRouter ---------------------------
(* Small instances of ModelRouter: two models with one fallback, which     *)
(* names itself as its own.                                                *)
EXTENDS ModelRouter

CONSTANTS chat, stream, embed, m1, m2

KindOf == [c \in Calls |-> CASE c = chat -> "chat" [] c = stream -> "stream"
                             [] OTHER -> "embed"]
EachWantsItsOwn == [c \in Calls |->
  CASE c = stream -> m1 [] OTHER -> m2]
SelfAtEnd == [m \in Models |-> m2]
=============================================================================
