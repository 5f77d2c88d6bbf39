----------------------- MODULE MCConversationSession -----------------------
(* A small session for TLC: two generations and three caller tasks, enough  *)
(* for a cancel() and two close() calls on one generation and for a stale   *)
(* cancel() that meets the next one.                                        *)
EXTENDS ConversationSession, TLC

CONSTANTS r1, r2, c1, c2, c3

MCResponses == {r1, r2}
MCCallers == {c1, c2, c3}
MCTwoCallers == {c1, c2}
MCOneCaller == {c1}
MCSymmetry == Permutations(MCResponses) \union Permutations(MCCallers)
=============================================================================
