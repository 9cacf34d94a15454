-------------------------- MODULE MC_Conversation ---------------------------
(* Small instances of Conversation.                                        *)
EXTENDS Conversation

Plain == [list |-> FALSE, parts |-> <<"text">>]
Illustrated == [list |-> TRUE, parts |-> <<"text", "image", "link">>]
OnlyLinks == [list |-> TRUE, parts |-> <<"link">>]
OnlyImage == [list |-> TRUE, parts |-> <<"image">>]

Asked == {Plain, Illustrated, OnlyLinks, OnlyImage}

\* Nothing; a text; one call; a text between two calls of one tool; two tools.
Answered == {<<>>, <<"text">>, <<"look">>, <<"look", "text", "look">>, <<"look", "send">>}
=============================================================================
