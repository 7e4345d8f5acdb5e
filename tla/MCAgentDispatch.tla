-------------------------- MODULE MCAgentDispatch --------------------------
(***************************************************************************)
(* Small instances of AgentDispatch for TLC.  Each instance names its      *)
(* messages as records of their session and kind, so that SessionOf and    *)
(* KindOf follow from the name.                                            *)
(***************************************************************************)
EXTENDS AgentDispatch

Msg(s, k, n) == [session |-> s, kind |-> k, no |-> n]
TheSession == [m \in Msgs |-> m.session]
TheKind == [m \in Msgs |-> m.kind]

\* Chat, a direct call and /new in one session; chat, an automation and a
\* continuation in another.
TrafficMsgs ==
    {Msg("A", "user", 1), Msg("A", "direct", 1), Msg("A", "new", 1),
     Msg("B", "user", 1), Msg("B", "auto", 1), Msg("B", "cont", 1)}

\* An automation that waits for the gate, and /stop.
GateStopMsgs == {Msg("A", "auto", 1), Msg("A", "stop", 1), Msg("B", "user", 1)}

\* Chat, an automation and a continuation under /stop, and a second session.
\* Two chat messages use up the injection cycle and fill the queue of a turn.
StopMsgs ==
    {Msg("A", "user", 1), Msg("A", "user", 2), Msg("A", "auto", 1),
     Msg("A", "cont", 1), Msg("A", "stop", 1), Msg("B", "user", 1)}

TwoSessions == {"A", "B"}
=============================================================================
