-------------------------- MODULE MCSessionMemory --------------------------
(***************************************************************************)
(* Instances of SessionMemory for TLC: a conversation of three messages, one  *)
(* command, one /new and one deletion, in every order.                      *)
(***************************************************************************)
EXTENDS SessionMemory

CONSTANTS u1, u2, u3, c1, n1, d1

ThreeTurns == {u1, u2, u3}
OneCommand == {c1}
OneNew == {n1}
OneDelete == {d1}

\* What the passing run keeps apart from an awaited archive call, and what the
\* violation run lets in.
NothingRaces == {}
NewRaces == {"new"}

\* Bound: three turns meet any two of the command, /new, the deletion and the crash,
\* two turns any three of them.
FiveMeet == Cardinality(taken) + crashes <= 5
=============================================================================
