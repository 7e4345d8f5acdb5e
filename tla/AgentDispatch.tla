--------------------------- MODULE AgentDispatch ---------------------------
(***************************************************************************)
(* Message routing of the agent loop: nanobot/agent/loop.py (run,          *)
(* _dispatch, _cancel_active_tasks, process_direct), the message bus, the  *)
(* coordinator of automation turns and the commands /stop and /new.        *)
(*                                                                         *)
(* Everything runs on one asyncio event loop, so an action is the code     *)
(* between two suspension points.  A message that is dispatched is also    *)
(* the name of the task that processes it: run() creates at most one task  *)
(* per message.                                                            *)
(***************************************************************************)
EXTENDS Integers, Sequences, SequencesExt, FiniteSets, QueueOps

CONSTANTS
    Msgs,           \* messages, commands and direct calls of one behaviour
    Sessions,       \* session keys (after _effective_session_key)
    SessionOf,      \* the session each message belongs to
    KindOf,         \* what each message is, see Kinds
    MaxConcurrent,  \* NANOBOT_MAX_CONCURRENT_REQUESTS
    QueueCap,       \* maxsize of a pending queue (20 in the code)
    MaxInject,      \* _MAX_INJECTIONS_PER_TURN (3 in the code)
    MaxCycles,      \* _MAX_INJECTION_CYCLES (5 in the code)
    TasksStartFirst,\* run() yields to new tasks before it takes a message:
                    \* wait_for() does so up to Python 3.11, not from 3.12 on
    NoTask          \* "no task", not a message

\* "user": a chat message or a subagent announcement; "auto": a cron or local
\* trigger turn handed to submit(); "cont": an internal continuation that a
\* turn queues for itself; "direct": a process_direct() call.
Kinds == {"user", "auto", "cont", "stop", "new", "direct"}

ASSUME DispatchAssumption ==
    /\ SessionOf \in [Msgs -> Sessions]
    /\ KindOf \in [Msgs -> Kinds]
    /\ MaxConcurrent \in Nat \ {0}
    /\ QueueCap \in Nat \ {0}
    /\ MaxInject \in Nat \ {0}
    /\ MaxCycles \in Nat
    /\ TasksStartFirst \in BOOLEAN
    /\ NoTask \notin Msgs
    /\ IsFiniteSet(Msgs)

VARIABLES
    bus,        \* MessageBus.inbound
    sent,       \* messages some producer has handed over
    pc,         \* where the task (or the direct call) of a message is
    lockQ,      \* per session: asyncio.Lock, its holder first, then its waiters
    gateQ,      \* waiters of the global concurrency gate
    registered, \* _pending_queues: whose pending queue is published, if any
    queueOf,    \* content of each task's pending queue
    cycles,     \* injection cycles a turn has used
    deferred,   \* _deferred_automation_turns
    active,     \* _active_tasks
    cancelled,  \* tasks on which cancel() was called
    loopOp,     \* the command run() is executing inline, or NoTask
    awaited,    \* tasks a command waits for in _cancel_active_tasks
    waiter,     \* the future of submit() for each automation turn
    fate        \* how a message ended

vars == <<bus, sent, pc, lockQ, gateQ, registered, queueOf, cycles, deferred,
          active, cancelled, loopOp, awaited, waiter, fate>>

----------------------------------------------------------------------------
(* Helpers. *)

\* A turn is in progress: the task has the lock and the gate.
TurnPcs == {"run", "put", "await"}
InTurn(t) == pc[t] \in TurnPcs
Running == {t \in Msgs : InTurn(t)}

GateFree == Cardinality(Running) < MaxConcurrent

\* publish_next_deferred_turn takes one message from the front.
NextDeferred(s) == FirstOf(deferred[s], 1)
DropNextDeferred(s) == [deferred EXCEPT ![s] = RestOf(@, 1)]

\* AutomationTurnCoordinator.complete: only a future nobody has resolved yet.
ResolveWaiter(t, result) ==
    waiter' = IF waiter[t] = "waiting" THEN [waiter EXCEPT ![t] = result]
                                       ELSE waiter

Init ==
    /\ bus = <<>>
    /\ sent = {}
    /\ pc = [m \in Msgs |-> "none"]
    /\ lockQ = [s \in Sessions |-> <<>>]
    /\ gateQ = <<>>
    /\ registered = [s \in Sessions |-> NoTask]
    /\ queueOf = [m \in Msgs |-> <<>>]
    /\ cycles = [m \in Msgs |-> 0]
    /\ deferred = [s \in Sessions |-> <<>>]
    /\ active = [s \in Sessions |-> {}]
    /\ cancelled = {}
    /\ loopOp = NoTask
    /\ awaited = [m \in Msgs |-> {}]
    /\ waiter = [m \in Msgs |-> "none"]
    /\ fate = [m \in Msgs |-> "open"]

----------------------------------------------------------------------------
(* Producers. *)

\* A channel, a subagent or the WebUI publishes a message; submit() also
\* registers the future its caller is going to wait for.
Publish(m) ==
    /\ m \notin sent
    /\ KindOf[m] \notin {"cont", "direct"}
    /\ sent' = sent \cup {m}
    /\ bus' = Append(bus, m)
    /\ waiter' = IF KindOf[m] = "auto" THEN [waiter EXCEPT ![m] = "waiting"]
                                       ELSE waiter
    /\ UNCHANGED <<pc, lockQ, gateQ, registered, queueOf, cycles, deferred,
                   active, cancelled, loopOp, awaited, fate>>

\* process_direct() takes the session lock and nothing else.
CallDirect(m) ==
    /\ m \notin sent
    /\ KindOf[m] = "direct"
    /\ sent' = sent \cup {m}
    /\ lockQ' = [lockQ EXCEPT ![SessionOf[m]] = Append(@, m)]
    /\ pc' = [pc EXCEPT ![m] = IF lockQ[SessionOf[m]] = <<>> THEN "direct"
                                                            ELSE "lock"]
    /\ UNCHANGED <<bus, gateQ, registered, queueOf, cycles, deferred, active,
                   cancelled, loopOp, awaited, waiter, fate>>

----------------------------------------------------------------------------
(* run(): one message of the bus at a time. *)

Consume(m) ==
    /\ loopOp = NoTask
    /\ bus # <<>>
    /\ m = Head(bus)
    /\ TasksStartFirst => \A t \in Msgs : pc[t] # "created"
    /\ bus' = Tail(bus)

\* Mutant: the tasks of every session are cancelled.
CancelActive_EverySession(s, by, targets) ==
    /\ active' = [x \in Sessions |-> {}]
    /\ cancelled' = cancelled \cup UNION {active[x] : x \in Sessions}
    /\ awaited' = [awaited EXCEPT ![by] = targets]

\* _cancel_active_tasks, first half: pop the list and cancel its tasks.
CancelActive(s, by, targets) ==
    /\ active' = [active EXCEPT ![s] = {}]
    /\ cancelled' = cancelled \cup targets
    /\ awaited' = [awaited EXCEPT ![by] = targets]

\* /stop is a priority command; /new is dispatched inline only while the
\* session has a published pending queue.
BeginInlineCommand(m) ==
    /\ Consume(m)
    /\ \/ KindOf[m] = "stop"
       \/ KindOf[m] = "new" /\ registered[SessionOf[m]] # NoTask
    /\ loopOp' = m
    /\ CancelActive(SessionOf[m], m, active[SessionOf[m]])
    /\ UNCHANGED <<sent, pc, lockQ, gateQ, registered, queueOf, cycles,
                   deferred, waiter, fate>>

AwaitedDone(m) == \A t \in awaited[m] : pc[t] = "done"

\* cmd_stop, once the cancelled tasks are over, empties the pending queue that
\* is still published; run() takes the next message afterwards.
EndStop(m) ==
    /\ loopOp = m
    /\ KindOf[m] = "stop"
    /\ AwaitedDone(m)
    /\ LET s == SessionOf[m]
           r == registered[s]
       IN /\ registered' = [registered EXCEPT ![s] = NoTask]
          /\ queueOf' = IF r = NoTask THEN queueOf
                                      ELSE [queueOf EXCEPT ![r] = <<>>]
          /\ fate' = [x \in Msgs |->
                        IF x = m THEN "answered"
                        ELSE IF r # NoTask /\ Contains(queueOf[r], x)
                             THEN "dropped" ELSE fate[x]]
    /\ loopOp' = NoTask
    /\ UNCHANGED <<bus, sent, pc, lockQ, gateQ, cycles, deferred, active,
                   cancelled, awaited, waiter>>

EndNewInline(m) ==
    /\ loopOp = m
    /\ KindOf[m] = "new"
    /\ AwaitedDone(m)
    /\ loopOp' = NoTask
    /\ fate' = [fate EXCEPT ![m] = "answered"]
    /\ UNCHANGED <<bus, sent, pc, lockQ, gateQ, registered, queueOf, cycles,
                   deferred, active, cancelled, awaited, waiter>>

\* defer_if_active: an automation turn never joins a turn in progress.
Defer(m) ==
    /\ Consume(m)
    /\ KindOf[m] = "auto"
    /\ registered[SessionOf[m]] # NoTask
    /\ deferred' = [deferred EXCEPT ![SessionOf[m]] = Append(@, m)]
    /\ UNCHANGED <<sent, pc, lockQ, gateQ, registered, queueOf, cycles, active,
                   cancelled, loopOp, awaited, waiter, fate>>

QueueHasRoom(s) ==
    registered[s] # NoTask /\ Len(queueOf[registered[s]]) < QueueCap

\* Mutant: an automation turn is routed like a chat message.
RouteToPending_Automation(m) ==
    /\ Consume(m)
    /\ KindOf[m] \in {"user", "cont", "auto"}
    /\ QueueHasRoom(SessionOf[m])
    /\ queueOf' = [queueOf EXCEPT ![registered[SessionOf[m]]] = Append(@, m)]
    /\ UNCHANGED <<sent, pc, lockQ, gateQ, registered, cycles, deferred, active,
                   cancelled, loopOp, awaited, waiter, fate>>

\* A follow-up goes to the pending queue of the turn in progress.
RouteToPending(m) ==
    /\ Consume(m)
    /\ KindOf[m] \in {"user", "cont"}
    /\ QueueHasRoom(SessionOf[m])
    /\ queueOf' = [queueOf EXCEPT ![registered[SessionOf[m]]] = Append(@, m)]
    /\ UNCHANGED <<sent, pc, lockQ, gateQ, registered, cycles, deferred, active,
                   cancelled, loopOp, awaited, waiter, fate>>

\* Everything else becomes a task: no turn in progress, or its queue is full.
\* The task exists from here on but has not run its first line yet.
Spawn(m) ==
    /\ Consume(m)
    /\ KindOf[m] # "stop"
    /\ \/ registered[SessionOf[m]] = NoTask
       \/ KindOf[m] \in {"user", "cont"} /\ ~QueueHasRoom(SessionOf[m])
    /\ pc' = [pc EXCEPT ![m] = "created"]
    /\ active' = [active EXCEPT ![SessionOf[m]] = @ \cup {m}]
    /\ UNCHANGED <<sent, lockQ, gateQ, registered, queueOf, cycles, deferred,
                   cancelled, loopOp, awaited, waiter, fate>>

----------------------------------------------------------------------------
(* _dispatch(): the lock of the session, then the gate, then the turn. *)

BeginTurn(t) ==
    /\ pc' = [pc EXCEPT ![t] = "run"]
    /\ registered' = [registered EXCEPT ![SessionOf[t]] = t]

\* Mutant: the pending queue is published before the gate is taken.
EnterGate_EarlyQueue(t) ==
    IF GateFree /\ gateQ = <<>>
    THEN BeginTurn(t) /\ UNCHANGED gateQ
    ELSE /\ pc' = [pc EXCEPT ![t] = "gate"]
         /\ gateQ' = Append(gateQ, t)
         /\ registered' = [registered EXCEPT ![SessionOf[t]] = t]

\* With the lock held: publish a fresh pending queue and begin the turn, or
\* join the waiters of the gate (keeping the lock).
EnterGate(t) ==
    IF GateFree /\ gateQ = <<>>
    THEN BeginTurn(t) /\ UNCHANGED gateQ
    ELSE /\ pc' = [pc EXCEPT ![t] = "gate"]
         /\ gateQ' = Append(gateQ, t)
         /\ UNCHANGED registered

\* Mutant: the task does not wait for the lock of its session.
StartTask_NoLock(t) ==
    /\ pc[t] = "created"
    /\ t \notin cancelled
    /\ lockQ' = [lockQ EXCEPT ![SessionOf[t]] = Append(@, t)]
    /\ EnterGate(t)
    /\ UNCHANGED <<bus, sent, queueOf, cycles, deferred, active, cancelled,
                   loopOp, awaited, waiter, fate>>

\* The first step of a task.
StartTask(t) ==
    /\ pc[t] = "created"
    /\ t \notin cancelled
    /\ lockQ' = [lockQ EXCEPT ![SessionOf[t]] = Append(@, t)]
    /\ IF lockQ[SessionOf[t]] = <<>>
       THEN EnterGate(t)
       ELSE /\ pc' = [pc EXCEPT ![t] = "lock"]
            /\ UNCHANGED <<gateQ, registered>>
    /\ UNCHANGED <<bus, sent, queueOf, cycles, deferred, active, cancelled,
                   loopOp, awaited, waiter, fate>>

\* The lock was released and this is its first waiter.
LockGranted(t) ==
    /\ pc[t] = "lock"
    /\ t \notin cancelled
    /\ Head(lockQ[SessionOf[t]]) = t
    /\ IF KindOf[t] = "direct"
       THEN /\ pc' = [pc EXCEPT ![t] = "direct"]
            /\ UNCHANGED <<gateQ, registered>>
       ELSE EnterGate(t)
    /\ UNCHANGED <<bus, sent, lockQ, queueOf, cycles, deferred, active,
                   cancelled, loopOp, awaited, waiter, fate>>

\* A slot of the gate is free and this is its first waiter.
GateGranted(t) ==
    /\ pc[t] = "gate"
    /\ t \notin cancelled
    /\ gateQ # <<>>
    /\ Head(gateQ) = t
    /\ GateFree
    /\ BeginTurn(t)
    /\ gateQ' = Tail(gateQ)
    /\ UNCHANGED <<bus, sent, lockQ, queueOf, cycles, deferred, active,
                   cancelled, loopOp, awaited, waiter, fate>>

----------------------------------------------------------------------------
(* The turn. *)

Drainable(t) == cycles[t] < MaxCycles /\ queueOf[t] # <<>>

\* _drain_pending, at a checkpoint of the runner: up to MaxInject follow-ups
\* become part of this turn, as long as it has injection cycles left.
DrainInjections(t) ==
    /\ pc[t] = "run"
    /\ t \notin cancelled
    /\ KindOf[t] # "new"
    /\ Drainable(t)
    /\ cycles' = [cycles EXCEPT ![t] = @ + 1]
    /\ queueOf' = [queueOf EXCEPT ![t] = RestOf(@, MaxInject)]
    /\ fate' = [x \in Msgs |-> IF Contains(FirstOf(queueOf[t], MaxInject), x)
                                THEN "injected" ELSE fate[x]]
    /\ UNCHANGED <<bus, sent, pc, lockQ, gateQ, registered, deferred, active,
                   cancelled, loopOp, awaited, waiter>>

\* cmd_new inside its own turn cancels the other tasks of the session.  It
\* cancels itself too, but that cancellation ends in the suppress() of
\* _cancel_active_tasks.
CommandNew(t) ==
    /\ pc[t] = "run"
    /\ t \notin cancelled
    /\ KindOf[t] = "new"
    /\ pc' = [pc EXCEPT ![t] = "await"]
    /\ CancelActive(SessionOf[t], t, active[SessionOf[t]] \ {t})
    /\ UNCHANGED <<bus, sent, lockQ, gateQ, registered, queueOf, cycles, deferred,
                   loopOp, waiter, fate>>

\* Mutant: the next deferred turn is not published.
LeaveTurn_NoPublish(t, outcome, left) ==
    LET s == SessionOf[t]
    IN /\ registered' = [registered EXCEPT ![s] = IF @ = t THEN NoTask ELSE @]
       /\ queueOf' = [queueOf EXCEPT ![t] = <<>>]
       /\ bus' = bus \o left
       /\ lockQ' = [lockQ EXCEPT ![s] = Without(@, t)]
       /\ active' = [active EXCEPT ![s] = @ \ {t}]
       /\ pc' = [pc EXCEPT ![t] = "done"]
       /\ fate' = [fate EXCEPT ![t] = outcome]
       /\ UNCHANGED <<deferred, gateQ, cycles, cancelled, loopOp, awaited>>

\* The end of _dispatch, in the order of its finally blocks: withdraw the
\* pending queue if it is still this task's, re-publish what is left in it,
\* publish the next deferred turn, leave the gate and the lock.
LeaveTurn(t, outcome, left) ==
    LET s == SessionOf[t]
    IN /\ registered' = [registered EXCEPT ![s] = IF @ = t THEN NoTask ELSE @]
       /\ queueOf' = [queueOf EXCEPT ![t] = <<>>]
       /\ bus' = bus \o left \o NextDeferred(s)
       /\ deferred' = DropNextDeferred(s)
       /\ lockQ' = [lockQ EXCEPT ![s] = Without(@, t)]
       /\ active' = [active EXCEPT ![s] = @ \ {t}]
       /\ pc' = [pc EXCEPT ![t] = "done"]
       /\ fate' = [fate EXCEPT ![t] = outcome]
       /\ UNCHANGED <<gateQ, cycles, cancelled, loopOp, awaited>>

\* Mutant: what is left in the pending queue is not re-published.
FinishTurn_DropsLeftovers(t) ==
    /\ t \notin cancelled
    /\ \/ pc[t] = "run" /\ KindOf[t] # "new"
       \/ pc[t] = "await" /\ AwaitedDone(t)
    /\ ResolveWaiter(t, "resolved")
    /\ LeaveTurn(t, "answered", <<>>)
    /\ UNCHANGED sent

\* Mutant: the coordinator is not told that the turn is over.
FinishTurn_NoComplete(t) ==
    /\ t \notin cancelled
    /\ \/ pc[t] = "run" /\ KindOf[t] # "new"
       \/ pc[t] = "await" /\ AwaitedDone(t)
    /\ LeaveTurn(t, "answered", queueOf[t])
    /\ UNCHANGED <<sent, waiter>>

FinishTurn(t) ==
    /\ t \notin cancelled
    /\ \/ pc[t] = "run" /\ KindOf[t] # "new"
       \/ pc[t] = "await" /\ AwaitedDone(t)
    /\ ResolveWaiter(t, "resolved")
    /\ LeaveTurn(t, "answered", queueOf[t])
    /\ UNCHANGED sent

\* The turn used up its iterations while the sustained goal is active, and
\* maybe_continue_turn puts a continuation into the turn's own queue.
CanContinue(t, c) ==
    /\ t \notin cancelled
    /\ KindOf[t] # "new"
    /\ c \notin sent
    /\ KindOf[c] = "cont"
    /\ SessionOf[c] = SessionOf[t]

\* The queue has room, and nothing suspends the turn between the put and its
\* end.  (Follow-ups beyond MaxInject, or that came after the last drain, may
\* still be in the queue.)
ContinueTurn(t, c) ==
    /\ pc[t] \in {"run", "put"}
    /\ CanContinue(t, c)
    /\ Len(queueOf[t]) < QueueCap
    /\ sent' = sent \cup {c}
    /\ ResolveWaiter(t, "resolved")
    /\ LeaveTurn(t, "answered", Append(queueOf[t], c))

\* The queue is full, which it can be after the last drain only if the turn has
\* no injection cycle left: Queue.put waits for room, and only this turn
\* empties the queue.
BlockOnContinuation(t) ==
    /\ pc[t] = "run"
    /\ \E c \in Msgs : CanContinue(t, c)
    /\ Len(queueOf[t]) >= QueueCap
    /\ ~Drainable(t)
    /\ pc' = [pc EXCEPT ![t] = "put"]
    /\ UNCHANGED <<bus, sent, lockQ, gateQ, registered, queueOf, cycles, deferred,
                   active, cancelled, loopOp, awaited, waiter, fate>>

\* An exception of the turn: delivery.fail and the error to the waiter.
FailTurn(t) ==
    /\ t \notin cancelled
    /\ pc[t] = "run"
    /\ ResolveWaiter(t, "failed")
    /\ LeaveTurn(t, "failed", queueOf[t])
    /\ UNCHANGED sent

\* Mutant: a cancelled turn takes the content of its queue with it.
CancelTurn_DropsLeftovers(t) ==
    /\ t \in cancelled
    /\ InTurn(t)
    /\ ResolveWaiter(t, "failed")
    /\ LeaveTurn(t, "cancelled", <<>>)
    /\ UNCHANGED sent

\* CancelledError inside the turn.
CancelTurn(t) ==
    /\ t \in cancelled
    /\ InTurn(t)
    /\ ResolveWaiter(t, "failed")
    /\ LeaveTurn(t, "cancelled", queueOf[t])
    /\ UNCHANGED sent

\* CancelledError while waiting for the lock or the gate (pending is None):
\* only the next deferred turn is published, no coordinator is told.
CancelWaiting(t) ==
    /\ t \in cancelled
    /\ pc[t] \in {"lock", "gate"}
    /\ LET s == SessionOf[t]
       IN /\ lockQ' = [lockQ EXCEPT ![s] = Without(@, t)]
          /\ gateQ' = Without(gateQ, t)
          /\ bus' = bus \o NextDeferred(s)
          /\ deferred' = DropNextDeferred(s)
          /\ active' = [active EXCEPT ![s] = @ \ {t}]
    /\ pc' = [pc EXCEPT ![t] = "done"]
    /\ fate' = [fate EXCEPT ![t] = "cancelled"]
    /\ UNCHANGED <<sent, registered, queueOf, cycles, cancelled, loopOp, awaited,
                   waiter>>

\* A task cancelled before its first step never runs a line of _dispatch, so
\* neither of its finally blocks either.
CancelUnstarted(t) ==
    /\ t \in cancelled
    /\ pc[t] = "created"
    /\ pc' = [pc EXCEPT ![t] = "done"]
    /\ fate' = [fate EXCEPT ![t] = "cancelled"]
    /\ active' = [active EXCEPT ![SessionOf[t]] = @ \ {t}]
    /\ UNCHANGED <<bus, sent, lockQ, gateQ, registered, queueOf, cycles, deferred,
                   cancelled, loopOp, awaited, waiter>>

\* process_direct() returns, or raises, and leaves the lock.
EndDirect(t) ==
    /\ pc[t] = "direct"
    /\ pc' = [pc EXCEPT ![t] = "done"]
    /\ lockQ' = [lockQ EXCEPT ![SessionOf[t]] = Without(@, t)]
    /\ fate' = [fate EXCEPT ![t] = "answered"]
    /\ UNCHANGED <<bus, sent, gateQ, registered, queueOf, cycles, deferred, active,
                   cancelled, loopOp, awaited, waiter>>

----------------------------------------------------------------------------
RunLoop(m) ==
    \/ BeginInlineCommand(m)
    \/ EndStop(m)
    \/ EndNewInline(m)
    \/ Defer(m)
    \/ RouteToPending(m)
    \/ Spawn(m)

Unwind(t) == CancelTurn(t) \/ CancelWaiting(t) \/ CancelUnstarted(t)

EndTurn(t) == FinishTurn(t) \/ FailTurn(t)

Proceed(t) ==
    \/ StartTask(t)
    \/ LockGranted(t)
    \/ GateGranted(t)
    \/ CommandNew(t)
    \/ EndDirect(t)
    \/ Unwind(t)

Next ==
    \E m \in Msgs :
        \/ Publish(m)
        \/ CallDirect(m)
        \/ RunLoop(m)
        \/ Proceed(m)
        \/ EndTurn(m)
        \/ DrainInjections(m)
        \/ BlockOnContinuation(m)
        \/ \E c \in Msgs : ContinueTurn(m, c)

Spec == Init /\ [][Next]_vars

\* The event loop runs what is ready; a turn ends because the runner bounds its
\* iterations and the provider bounds each request.  Nothing obliges a producer.
Fairness ==
    \A m \in Msgs :
        /\ WF_vars(RunLoop(m))
        /\ WF_vars(Proceed(m))
        /\ WF_vars(EndTurn(m))
        /\ WF_vars(\E c \in Msgs : ContinueTurn(m, c))

FairSpec == Spec /\ Fairness

----------------------------------------------------------------------------
(* Properties. *)

Pcs == {"none", "created", "lock", "gate", "direct", "done"} \cup TurnPcs
Fates == {"open", "answered", "failed", "cancelled", "injected", "dropped"}

\* The values every variable may take.
TypeOK ==
    /\ bus \in Seq(Msgs)
    /\ sent \subseteq Msgs
    /\ pc \in [Msgs -> Pcs]
    /\ lockQ \in [Sessions -> Seq(Msgs)]
    /\ gateQ \in Seq(Msgs)
    /\ registered \in [Sessions -> Msgs \cup {NoTask}]
    /\ queueOf \in [Msgs -> Seq(Msgs)]
    /\ cycles \in [Msgs -> 0..MaxCycles]
    /\ deferred \in [Sessions -> Seq(Msgs)]
    /\ active \in [Sessions -> SUBSET Msgs]
    /\ cancelled \subseteq Msgs
    /\ loopOp \in Msgs \cup {NoTask}
    /\ awaited \in [Msgs -> SUBSET Msgs]
    /\ waiter \in [Msgs -> {"none", "waiting", "resolved", "failed"}]
    /\ fate \in [Msgs -> Fates]

HoldsLock(t) == InTurn(t) \/ pc[t] \in {"gate", "direct"}

\* "per-session serial": whatever mix of chat messages, automations, direct
\* calls, /stop and /new arrives, two turns never work on one session at once.
SessionExclusive ==
    \A t, u \in Msgs :
        /\ SessionOf[t] = SessionOf[u]
        /\ HoldsLock(t)
        /\ HoldsLock(u)
        => t = u

\* "cross-session concurrent", up to the gate: a task that waits for the gate,
\* is cancelled there or is granted a slot never breaks the bound.
GateBound == Cardinality(Running) <= MaxConcurrent

\* A pending queue is published only while its own task is in its turn, so a
\* follow-up routed into it always has a consumer; and no message stays in the
\* queue of a task that has left its turn.
QueueHasConsumer ==
    /\ \A s \in Sessions : registered[s] # NoTask =>
          InTurn(registered[s]) /\ SessionOf[registered[s]] = s
    /\ \A t \in Msgs : queueOf[t] # <<>> => InTurn(t)

Occurrences(seq, m) == {i \in DOMAIN seq : seq[i] = m}

Whereabouts(m) ==
    {<<"bus", i>> : i \in Occurrences(bus, m)}
    \cup (UNION {{<<t, i>> : i \in Occurrences(queueOf[t], m)} : t \in Msgs})
    \cup {<<"deferred", i>> : i \in Occurrences(deferred[SessionOf[m]], m)}
    \cup (IF pc[m] \in {"none", "done"} THEN {} ELSE {<<"task", 0>>})
    \cup (IF loopOp = m THEN {<<"inline", 0>>} ELSE {})

\* A message that was accepted and has not ended is in exactly one place, and a
\* message that has ended is nowhere: routing, injection, re-publication and
\* deferral neither lose a message nor process it twice.
NothingLostOrDoubled ==
    \A m \in Msgs : Cardinality(Whereabouts(m)) =
        IF m \in sent /\ fate[m] = "open" THEN 1 ELSE 0

\* An automation turn is never mixed into somebody else's turn and never thrown
\* away with a pending queue.
AutomationIsolated ==
    \A m \in Msgs : KindOf[m] = "auto" => fate[m] \notin {"injected", "dropped"}

\* While automation turns are deferred, somebody is going to publish the next
\* one: a task of the session, or an automation turn on its way to become one.
DeferredHasPublisher ==
    \A s \in Sessions : deferred[s] # <<>> =>
        \E t \in Msgs :
            /\ SessionOf[t] = s
            /\ \/ pc[t] \notin {"none", "done"} /\ KindOf[t] # "direct"
               \/ KindOf[t] = "auto" /\ Contains(bus, t)

\* Every accepted message ends: answered, joined to a turn, failed or stopped.
\* (There are finitely many and each is sent once; so if time and again none is
\* open, each ends.)
EveryMessageEnds == []<>(\A m \in sent : fate[m] # "open")

\* submit() returns: its future is resolved one way or the other.
SubmitReturns == []<>(\A m \in Msgs : waiter[m] # "waiting")

----------------------------------------------------------------------------
(* Why the safety properties hold: the inductive invariant. *)

\* A message that waits somewhere: accepted, not over, and nobody's task.
Unassigned(m) ==
    m \in sent /\ pc[m] = "none" /\ fate[m] = "open" /\ loopOp # m

\* The bus, the pending queues and the deferred turns share no message.
PlaceInv ==
    /\ Distinct(bus)
    /\ \A t \in Msgs : Distinct(queueOf[t])
    /\ \A s \in Sessions : Distinct(deferred[s])
    /\ \A m \in Elems(bus) :
          /\ Unassigned(m)
          /\ KindOf[m] # "direct"
          /\ \A t \in Msgs : m \notin Elems(queueOf[t])
          /\ \A s \in Sessions : m \notin Elems(deferred[s])
    /\ \A t \in Msgs : \A m \in Elems(queueOf[t]) :
          /\ Unassigned(m)
          /\ SessionOf[m] = SessionOf[t]
          /\ KindOf[m] \in {"user", "cont"}
          /\ \A u \in Msgs : m \in Elems(queueOf[u]) => u = t
    /\ \A s \in Sessions : \A m \in Elems(deferred[s]) :
          /\ Unassigned(m)
          /\ SessionOf[m] = s
          /\ KindOf[m] = "auto"

\* What a message is doing agrees with whether it was accepted and is over.
LifeInv ==
    /\ \A m \in Msgs \ sent : pc[m] = "none" /\ fate[m] = "open"
    /\ \A m \in Msgs : /\ pc[m] \notin {"none", "done"} => fate[m] = "open"
                       /\ pc[m] = "done" => fate[m] # "open"
                       /\ pc[m] # "none" => KindOf[m] # "stop"
                       /\ pc[m] = "direct" => KindOf[m] = "direct"
                       /\ KindOf[m] = "direct" => pc[m] \in {"none", "lock", "direct", "done"}
    /\ loopOp \in Msgs => /\ loopOp \in sent
                          /\ pc[loopOp] = "none"
                          /\ fate[loopOp] = "open"
                          /\ KindOf[loopOp] \in {"stop", "new"}

LockPcs == TurnPcs \cup {"lock", "gate", "direct"}

\* A lock's queue holds exactly the tasks that want or have the lock, its holder
\* first.
LockInv ==
    /\ \A s \in Sessions : Distinct(lockQ[s])
    /\ \A s \in Sessions : \A t \in Elems(lockQ[s]) :
          SessionOf[t] = s /\ pc[t] \in LockPcs
    /\ \A t \in Msgs : pc[t] \in LockPcs => t \in Elems(lockQ[SessionOf[t]])
    /\ \A t \in Msgs : HoldsLock(t) => Head(lockQ[SessionOf[t]]) = t

IInv == TypeOK /\ QueueHasConsumer /\ PlaceInv /\ LifeInv /\ LockInv

----------------------------------------------------------------------------
\* The loop as SessionService sees it.
StatusOf(m) ==
    IF m \notin sent THEN "absent"
    ELSE IF fate[m] # "open" THEN "over"
    ELSE IF InTurn(m) \/ pc[m] = "direct" THEN "working"
    ELSE "accepted"

Service == INSTANCE SessionService WITH status <- [m \in Msgs |-> StatusOf(m)]

\* Every behaviour of the loop is one of the service's: one turn at a time per
\* session within the gate, follow-ups join, automations do not, only commands
\* of the session revoke, and what is over stays over.
ServiceSpec == Service!Spec
=============================================================================
