------------------------------- MODULE MCPBFT -------------------------------
(* Small instances of PBFT for TLC. *)
EXTENDS PBFT, TLC

CONSTANTS a, b

PayloadTwo == {a, b}
PayloadSymmetry == Permutations(PayloadTwo)
AllUp == 0..(N - 1)
HeardOne == [n \in Up |-> IF n = 1 THEN Idx ELSE {}]
HeardAll == [n \in Up |-> Idx]
=============================================================================
