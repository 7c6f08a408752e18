-------------------------- MODULE ChatSummaryCache --------------------------
(***************************************************************************)
(* The file with the chat summaries of a bridge profile                     *)
(* (shell/session/chatSummaryCache.ts): what its operations do to it and    *)
(* the generation barrier that drops a write captured before a purge.       *)
(*                                                                          *)
(* The operations of a file run in the order they were queued and only a    *)
(* read that waits for them looks at the file, so they take effect here     *)
(* when they are queued: an operation the barrier would drop in the queue   *)
(* is followed by the purge that raised it.                                 *)
(*                                                                          *)
(* A list of chats maps every chat to the stamp of its last change, Absent  *)
(* when the list does not have it.  The limits of the file (200 entries,    *)
(* 512 KiB, 30 days) are left out.                                          *)
(***************************************************************************)
EXTENDS Naturals, Sequences, FiniteSets

CONSTANTS Chats, None

Absent == 0
Empty == [c \in Chats |-> Absent]
In(list) == {c \in Chats : list[c] # Absent}
Only(list, S) == [c \in Chats |-> IF c \in S THEN list[c] ELSE Absent]
Without(list, c) == [list EXCEPT ![c] = Absent]

\* The later change of each chat wins.
Merge(old, new) == [c \in Chats |-> IF new[c] >= old[c] THEN new[c] ELSE old[c]]

\* A write captured in generation gen leaves the file alone in a later one.
Guarded(file, written, gen, generation) == IF gen = generation THEN written ELSE file

\* Mutant: a buffered write does not say in which generation it was captured.
PersistAlways(file, list, gen, generation) == Merge(file, list)

PersistChatSummaries(file, list, gen, generation) ==
    Guarded(file, Merge(file, list), gen, generation)

\* Mutant: an authoritative list is merged into the file.
ReconcileByMerging(file, list, gen, generation) ==
    Guarded(file, Merge(file, list), gen, generation)

ReconcilePersisted(file, list, gen, generation) == Guarded(file, list, gen, generation)
DeletePersisted(file, c, gen, generation) == Guarded(file, Without(file, c), gen, generation)
=============================================================================
