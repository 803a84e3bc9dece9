--------------------------- MODULE MCStampedeLock ---------------------------
(* Instances of StampedeLock for TLC. *)
EXTENDS StampedeLock, FiniteSets, TLC

CONSTANTS a, b, c, d

DefaultFlags == [x \in Callers |-> {}]

Symmetry == Permutations(Callers)
=============================================================================
