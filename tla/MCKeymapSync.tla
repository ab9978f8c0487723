---------------------------- MODULE MCKeymapSync ----------------------------
(* Small instances of KeymapSync for TLC. *)
EXTENDS KeymapSync, TLC

CONSTANTS key, layout, chunk1, chunk2, protocol, hashes, defaults, p1, p2, p3

OneKey == <<<<key>>>>
OneLayout == <<<<layout>>>>
OneMacro == <<<<chunk1>>>>
MacroChunks == <<<<chunk1, chunk2>>>>
HashesOnly == <<hashes>>
HashesThenDefaults == <<hashes, defaults>>

AllWant1 == [p \in Proc |-> [c \in Cell |-> 1]]
WantTheirOwn == [p \in Proc |-> [c \in Cell |-> IF p = p1 THEN 1 ELSE 2]]

\* LastRunWins says nothing once runs have overlapped; leaving those states
\* out buys deeper queues, and so more leftovers from the runs before.
OneAtATime == InTurn

Symmetric == Permutations(Proc)
=============================================================================
