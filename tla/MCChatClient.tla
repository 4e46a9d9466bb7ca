---------------------------- MODULE MCChatClient ----------------------------
(***************************************************************************)
(* Instances of ChatClient for TLC.  Chats and messages are model values.  *)
(***************************************************************************)
EXTENDS ChatClient, TLC

CONSTANTS a, b, m1

AllInA == [m \in {m1} |-> a]
=============================================================================
