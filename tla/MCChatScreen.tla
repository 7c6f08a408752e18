--------------------------- MODULE MCChatScreen ---------------------------
(* Instances of ChatScreen. *)
EXTENDS ChatScreen
=============================================================================
