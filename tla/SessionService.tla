--------------------------- MODULE SessionService ---------------------------
(***************************************************************************)
(* What the agent loop promises to those who send it messages, without     *)
(* queues, locks, tasks or a bus: each accepted message is worked on in a  *)
(* turn of its own, or joins the turn that is working on its session, or   *)
(* is revoked by a command of its session; once over, it stays over.       *)
(***************************************************************************)
EXTENDS Integers, FiniteSets

CONSTANTS Msgs, Sessions, SessionOf, KindOf, MaxConcurrent

VARIABLE status     \* the life of each message

Statuses == {"absent", "accepted", "working", "over"}

Working(s) == {m \in Msgs : SessionOf[m] = s /\ status[m] = "working"}

\* Direct calls serialise with their session but take no slot of the gate.
Gated == {m \in Msgs : status[m] = "working" /\ KindOf[m] # "direct"}

Init == status = [m \in Msgs |-> "absent"]

Accept(m) ==
    /\ status[m] = "absent"
    /\ status' = [status EXCEPT ![m] = "accepted"]

\* One turn per session, at most MaxConcurrent turns in all.
Begin(m) ==
    /\ status[m] \in {"absent", "accepted"}
    /\ Working(SessionOf[m]) = {}
    /\ KindOf[m] # "stop"
    /\ \/ KindOf[m] = "direct"
       \/ Cardinality(Gated) < MaxConcurrent /\ status[m] = "accepted"
    /\ status' = [status EXCEPT ![m] = "working"]

Over(S) == status' = [m \in Msgs |-> IF m \in S THEN "over" ELSE status[m]]

\* What can join a turn of the session: accepted messages that are no automations.
FollowUps(s) == {m \in Msgs : /\ SessionOf[m] = s
                              /\ KindOf[m] \in {"user", "cont"}
                              /\ status[m] = "accepted"}

\* Follow-ups join the turn in progress.
Join(t) ==
    /\ status[t] = "working"
    /\ \E S \in SUBSET FollowUps(SessionOf[t]) : Over(S)

\* A turn ends, and may leave one continuation of itself behind.
Finish(t) ==
    /\ status[t] = "working"
    /\ \/ Over({t})
       \/ \E c \in Msgs :
            /\ status[c] = "absent"
            /\ KindOf[c] = "cont"
            /\ SessionOf[c] = SessionOf[t]
            /\ status' = [status EXCEPT ![t] = "over", ![c] = "accepted"]

Command(c) ==
    /\ KindOf[c] \in {"stop", "new"}
    /\ status[c] \in {"accepted", "working"}

\* A command of the session stops one of its messages, whatever it is doing.
Revoke(c, m) ==
    /\ Command(c)
    /\ c # m
    /\ SessionOf[m] = SessionOf[c]
    /\ status[m] \in {"accepted", "working"}
    /\ Over({m})

\* The command itself is over, and /stop takes queued follow-ups with it.
EndCommand(c) ==
    /\ Command(c)
    /\ status[c] = "accepted"
    /\ \E S \in SUBSET FollowUps(SessionOf[c]) :
           /\ S # {} => KindOf[c] = "stop"
           /\ Over(S \cup {c})

Next ==
    \E m \in Msgs :
        \/ Accept(m)
        \/ Begin(m)
        \/ Join(m) \/ EndCommand(m)
        \/ Finish(m)
        \/ \E c \in Msgs : Revoke(c, m)

Spec == Init /\ [][Next]_status
=============================================================================
