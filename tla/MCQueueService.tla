--------------------------- MODULE MCQueueService ---------------------------
(***************************************************************************)
(* Small instances of QueueService for TLC.                                *)
(***************************************************************************)
EXTENDS QueueService

CONSTANTS m1, m2, m3, tool, ask

TwoMessages == {m1, m2}
ThreeMessages == {m1, m2, m3}
OneTool == {tool}
OneAsk == {ask}
PairSymmetry == Permutations(TwoMessages)
=============================================================================
