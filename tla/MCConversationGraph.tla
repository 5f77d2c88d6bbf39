------------------------- MODULE MCConversationGraph ------------------------
(* Two turns of one thread, which two connections may run at the same time. *)
EXTENDS ConversationGraph, TLC

CONSTANTS x, t1, t2, v1, v2, other

MCThreads == {x}
MCTurns == {t1, t2}
MCThreadOf == [t \in MCTurns |-> x]
MCSnapshots == {v1, v2}
MCBatches == {<<Camera>>, <<other>>, <<other, Camera>>, <<Camera, other>>}

\* Enough for two rounds: one that the camera ends and one that goes on after it.
MCTwoBatches == {<<Camera, other>>, <<other, Camera>>}
=============================================================================
