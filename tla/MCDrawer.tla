------------------------------ MODULE MCDrawer ------------------------------
(* Two chats of the first bridge, a third that may be created, and one of the *)
(* second.                                                                   *)
EXTENDS Drawer

CONSTANTS a, b, c, z

TheChats == {a, b, c, z}
TheHome == [d \in TheChats |-> IF d = z THEN 2 ELSE 1]
TheRank == [d \in TheChats |-> CASE d = a -> 1 [] d = b -> 3 [] d = c -> 2 [] OTHER -> 4]
Known == [d \in TheChats |-> CASE d = a -> 1 [] d = b -> 2 [] d = c -> Absent [] OTHER -> 3]
\* Both chats of the first bridge were saved as they are.
TheStart == {[bridge |-> Known, file |-> Without(Known, z)]}
=============================================================================
