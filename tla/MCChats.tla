------------------------------- MODULE MCChats -------------------------------
(* Two chats, two saves, and memories changed once by hand. *)
EXTENDS Chats

CONSTANTS c1, c2, s1, s2, o1
=============================================================================
