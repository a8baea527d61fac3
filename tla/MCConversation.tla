---------------------------- MODULE MCConversation ----------------------------
(***************************************************************************)
(* Small instances of Conversation: a text that names nobody, one that     *)
(* names an agent and one that names the bartender.                        *)
(***************************************************************************)
EXTENDS Conversation, TLC

CONSTANTS ann, bob, hello, heyAnn, heyHouse

MCNamedIn ==
    [c \in Texts |-> CASE c = heyAnn -> ann [] c = heyHouse -> House [] OTHER -> Nobody]
=============================================================================
