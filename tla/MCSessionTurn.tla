--------------------------- MODULE MCSessionTurn ---------------------------
(***************************************************************************)
(* Instances of SessionTurn for TLC.  The chat messages are symmetric: no  *)
(* definition tells two of them apart.                                     *)
(***************************************************************************)
EXTENDS SessionTurn

CONSTANTS u1, u2, status, new, result, onward

Symmetry == Permutations(Users)

\* Bound: four messages begin a turn or join one; three, when a command or /new is
\* among them.
FourTaken == Cardinality(taken) <= (IF taken \cap (Commands \cup Resets) = {} THEN 4 ELSE 3)
=============================================================================
