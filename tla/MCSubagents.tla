---------------------------- MODULE MCSubagents ----------------------------
(***************************************************************************)
(* Instances of Subagents for TLC.  All its properties are invariants, so   *)
(* that sessions, subagents and processes may be exchanged for each other.  *)
(***************************************************************************)
EXTENDS Subagents, TLC

CONSTANTS s1, s2, a1, a2, p1, p2

TwoSessions == {s1, s2}
TwoAgents == {a1, a2}
TwoProcesses == {p1, p2}

Interchangeable ==
    Permutations(TwoSessions) \cup Permutations(TwoAgents) \cup Permutations(TwoProcesses)

\* Bound: two subagents with two processes only beside one turn that a user started;
\* with two of those turns three subagents and processes in all.
ThreeBesideTwoTurns ==
    \/ turns <= 1
    \/ Cardinality({a \in Agents : agent[a].task # "none"})
           + Cardinality({p \in Processes : process[p].state # "none"}) <= 3
=============================================================================
