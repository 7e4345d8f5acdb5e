----------------------------- MODULE Subagents -----------------------------
(***************************************************************************)
(* What a turn leaves running beside it: subagents                          *)
(* (nanobot/agent/subagent.py, agent/tools/spawn.py) and exec sessions      *)
(* (agent/tools/exec_session.py), and the two commands that must find it    *)
(* all again, /stop and the end of the program.                             *)
(*                                                                         *)
(* A background subagent announces its result to the session that spawned   *)
(* it; a turn that has nothing else to do waits for it.  The main agent and *)
(* the subagents have an ExecSessionManager each: a table of processes      *)
(* under a lock, which is held while a process is spawned and released      *)
(* while its output is awaited.  A turn is an actor named by its session.   *)
(***************************************************************************)
EXTENDS Integers, Sequences, FiniteSets, SequencesExt

CONSTANTS
    Sessions, Agents, Processes, \* Agents are the subagents
    None,
    Limit,    \* max_concurrent_subagents
    MaxExec,  \* max_sessions of an ExecSessionManager
    MaxTurns  \* bound: turns a user starts

ASSUME SubagentAssumption ==
    /\ Sessions \cap Agents = {} /\ None \notin Sessions \cup Agents \cup Processes
    /\ IsFiniteSet(Sessions \cup Agents \cup Processes)
    /\ Limit \in Nat /\ MaxExec \in Nat /\ MaxTurns \in Nat

VARIABLES
    turn,     \* per session: what its turn does, and the inline subagent it awaits
    inbox,    \* per session: results in its pending queue
    bus,      \* results published and not yet routed
    agent,    \* per subagent: its task, the session it works for, whether it announces
    answered, \* history: results that a turn has taken, with its session
    stop,     \* the /stop in progress: session, step, what it waits for and kills
    closing,  \* close_mcp: its step and what it kills
    process,  \* per process: its state, its owner and who started it
    table,    \* per manager: _sessions
    lock,     \* per manager: who spawns a process under its lock
    call,     \* per actor: the exec call it is in
    closed,   \* managers that are closed
    spared,   \* history: processes whose kill was cancelled before it began
    skipped,  \* history: managers whose close_all a cancellation has skipped
    turns     \* turns started by users

tasks == <<turn, inbox, bus, agent, answered, turns>>
execs == <<process, table, lock, call, closed>>
cut == <<spared, skipped>>
vars == <<tasks, execs, stop, closing, cut>>

Actors == Sessions \cup Agents
Managers == {"agent", "subagents"}
NoTurn == [pc |-> "none", sub |-> None]
NoAgent == [task |-> "none", session |-> None, inline |-> FALSE]
NoProcess == [state |-> "none", owner |-> None, by |-> None]
NoCall == [pc |-> "none", process |-> None]
NoStop == [pc |-> "none", session |-> None, cancelled |-> {}, victims |-> {}, doomed |-> {}]

Manager(x) == IF x \in Sessions THEN "agent" ELSE "subagents"
Session(x) == IF x \in Sessions THEN x ELSE agent[x].session
Working(x) == IF x \in Sessions THEN turn[x].pc = "run" ELSE agent[x].task = "work"
Alive(p) == process[p].state = "alive"

Init ==
    /\ turn = [s \in Sessions |-> NoTurn]
    /\ inbox = [s \in Sessions |-> <<>>]
    /\ bus = <<>>
    /\ agent = [a \in Agents |-> NoAgent]
    /\ answered = {}
    /\ stop = NoStop /\ closing = NoStop
    /\ process = [p \in Processes |-> NoProcess]
    /\ table = [m \in Managers |-> {}]
    /\ lock = [m \in Managers |-> None]
    /\ call = [x \in Actors |-> NoCall]
    /\ closed = {} /\ turns = 0
    /\ spared = {} /\ skipped = {}

----------------------------------------------------------------------------
(* Turns and the results they take.                                          *)

\* run() awaits a /stop inline and routes nothing meanwhile.
Routing == stop.pc = "none" /\ closing.pc = "none"

StartTurn(s) ==
    /\ Routing /\ turns < MaxTurns
    /\ turn[s].pc = "none"
    /\ turns' = turns + 1
    /\ turn' = [turn EXCEPT ![s].pc = "run"]
    /\ UNCHANGED <<inbox, bus, agent, answered, execs, stop, closing, cut>>

\* A result joins the turn of its session, or is a turn of its own.
Route ==
    /\ Routing /\ bus # <<>>
    /\ LET a == Head(bus)
           s == agent[a].session
       IN  IF turn[s].pc # "none"
           THEN /\ inbox' = [inbox EXCEPT ![s] = Append(@, a)]
                /\ UNCHANGED <<turn, answered>>
           ELSE /\ turn' = [turn EXCEPT ![s].pc = "run"]
                /\ answered' = answered \cup {<<a, s>>}
                /\ UNCHANGED inbox
    /\ bus' = Tail(bus)
    /\ UNCHANGED <<agent, turns, execs, stop, closing, cut>>

\* get_running_count_by_session: a task that is done does not count.
RunningOf(s) == {a \in Agents : agent[a].session = s /\ agent[a].task = "work"}

\* What the pending queue holds goes into the turn.
Take(s) ==
    /\ answered' = answered \cup {<<a, s>> : a \in ToSet(inbox[s])}
    /\ inbox' = [inbox EXCEPT ![s] = <<>>]

\* _drain_pending, and the wait for a subagent when there is nothing to drain.
Drain(s) ==
    /\ turn[s].pc = "run" /\ call[s] = NoCall
    /\ IF inbox[s] # <<>>
       THEN UNCHANGED turn
       ELSE /\ RunningOf(s) # {}
            /\ turn' = [turn EXCEPT ![s].pc = "wait"]
    /\ Take(s)
    /\ UNCHANGED <<bus, agent, turns, execs, stop, closing, cut>>

\* What arrives ends the wait: a result, or a message of the user.
Wake(s) ==
    /\ turn[s].pc = "wait"
    /\ inbox[s] # <<>> \/ Routing
    /\ turn' = [turn EXCEPT ![s].pc = "run"]
    /\ Take(s)
    /\ UNCHANGED <<bus, agent, turns, execs, stop, closing, cut>>

\* Mutant: the results a turn has not read end with it.
Leave_Drops(s) ==
    /\ turn' = [turn EXCEPT ![s] = NoTurn]
    /\ inbox' = [inbox EXCEPT ![s] = <<>>]
    /\ UNCHANGED bus

\* Whatever ends a turn, what it has not read is published again.
Leave(s) ==
    /\ turn' = [turn EXCEPT ![s] = NoTurn]
    /\ inbox' = [inbox EXCEPT ![s] = <<>>]
    /\ bus' = bus \o inbox[s]

\* The turn is over, or its wait has timed out and it is.
EndTurn(s) ==
    /\ turn[s].pc \in {"run", "wait"} /\ call[s] = NoCall
    /\ Leave(s)
    /\ UNCHANGED <<agent, answered, turns, execs, stop, closing, cut>>

----------------------------------------------------------------------------
(* Subagents.                                                                *)

\* _running_tasks keeps a finished task until its callback has run.
Running == {a \in Agents : agent[a].task \in {"work", "done"}}

Spawn(s, a, inline) ==
    /\ turn[s].pc = "run" /\ call[s] = NoCall
    /\ agent[a].task = "none"
    /\ Cardinality(Running) < Limit
    /\ agent' = [agent EXCEPT ![a] = [task |-> "work", session |-> s, inline |-> inline]]
    /\ turn' = IF inline THEN [turn EXCEPT ![s] = [pc |-> "inline", sub |-> a]] ELSE turn
    /\ UNCHANGED <<inbox, bus, answered, turns, execs, stop, closing, cut>>

\* Cancelled, the task of a subagent ends with whatever it awaits.
Cancelled(x) == x \in stop.cancelled \cup closing.cancelled

\* _run_subagent returns, with a result or an error, and announces it.
Finish(a) ==
    /\ agent[a].task = "work" /\ call[a] = NoCall /\ ~Cancelled(a)
    /\ IF agent[a].inline
       THEN /\ agent' = [agent EXCEPT ![a].task = "gone"]
            /\ turn' = [turn EXCEPT ![agent[a].session] = [pc |-> "run", sub |-> None]]
            /\ UNCHANGED bus
       ELSE /\ agent' = [agent EXCEPT ![a].task = "done"]
            /\ bus' = Append(bus, a)
            /\ UNCHANGED turn
    /\ UNCHANGED <<inbox, answered, turns, execs, stop, closing, cut>>

\* _cleanup, the callback of the task.
CleanUp(a) ==
    /\ agent[a].task = "done"
    /\ agent' = [agent EXCEPT ![a].task = "gone"]
    /\ UNCHANGED <<turn, inbox, bus, answered, turns, execs, stop, closing, cut>>

\* The exec calls of cancelled actors: a process that was being spawned is closed,
\* one whose output was awaited stays in the table.
Dropped(xs) ==
    /\ call' = [x \in Actors |-> IF x \in xs THEN NoCall ELSE call[x]]
    /\ lock' = [m \in Managers |-> IF lock[m] \in xs THEN None ELSE lock[m]]

CancelledEnds(a) ==
    /\ agent[a].task = "work" /\ Cancelled(a)
    /\ agent' = [agent EXCEPT ![a].task = "cancelled"]
    /\ Dropped({a})
    /\ IF turn[agent[a].session].sub = a
       THEN Leave(agent[a].session)
       ELSE UNCHANGED <<turn, inbox, bus>>
    /\ UNCHANGED <<answered, turns, process, table, closed, stop, closing, cut>>

----------------------------------------------------------------------------
(* Exec sessions.                                                            *)

Unlocked(m) == lock[m] = None

\* _cleanup_locked: processes nobody has used for a while.
MayBeStale(m) == {p \in table[m] : \A x \in Actors : call[x].process # p}
Kill(ps) == [p \in Processes |-> IF p \in ps /\ Alive(p) THEN [process[p] EXCEPT !.state = "ended"]
                                 ELSE process[p]]

\* A process that has not been started; None when the bound is reached.
New == LET unused == {p \in Processes : process[p] = NoProcess /\ \A x \in Actors : call[x].process # p}
       IN  IF unused = {} THEN None ELSE CHOOSE p \in unused : TRUE

Cleaned(m, stale, others) ==
    /\ stale \in SUBSET MayBeStale(m)
    /\ process' = Kill(stale \cup others)
    /\ table' = [table EXCEPT ![m] = @ \ stale]

\* list(), or a start() that is refused once it has cleaned up.
List(x) ==
    /\ Working(x) /\ call[x] = NoCall
    /\ Unlocked(Manager(x))
    /\ \E stale \in SUBSET Processes \ {{}} : Cleaned(Manager(x), stale, {})
    /\ UNCHANGED <<tasks, lock, call, closed, stop, closing, cut>>

\* start() up to the await of the new process.
Exec(x) ==
    LET m == Manager(x)
    IN  /\ Working(x) /\ call[x] = NoCall
        /\ Unlocked(m) /\ m \notin closed
        /\ New \in Processes
        /\ \E stale \in SUBSET Processes :
            /\ Cardinality(table[m] \ stale) < MaxExec
            /\ Cleaned(m, stale, {})
        /\ call' = [call EXCEPT ![x] = [pc |-> "spawn", process |-> New]]
        /\ lock' = [lock EXCEPT ![m] = x]
        /\ UNCHANGED <<tasks, closed, stop, closing, cut>>

\* Mutant: the process is put into the table only when it has not ended at once.
Spawned_Unlisted(x) ==
    /\ call[x].pc = "spawn"
    /\ process' = [process EXCEPT ![call[x].process] =
                       [state |-> "alive", owner |-> Session(x), by |-> x]]
    /\ lock' = [lock EXCEPT ![Manager(x)] = None]
    /\ call' = [call EXCEPT ![x].pc = "poll"]
    /\ UNCHANGED <<tasks, table, closed, stop, closing, cut>>

Spawned(x) ==
    /\ call[x].pc = "spawn"
    /\ process' = [process EXCEPT ![call[x].process] =
                       [state |-> "alive", owner |-> Session(x), by |-> x]]
    /\ table' = [table EXCEPT ![Manager(x)] = @ \cup {call[x].process}]
    /\ lock' = [lock EXCEPT ![Manager(x)] = None]
    /\ call' = [call EXCEPT ![x].pc = "poll"]
    /\ UNCHANGED <<tasks, closed, stop, closing, cut>>

\* write(): input for a process of the same session, or its end.
Write(x, p, terminate) ==
    LET m == Manager(x)
    IN  /\ Working(x) /\ call[x] = NoCall
        /\ Unlocked(m)
        /\ p \in table[m] /\ process[p].owner = Session(x)
        /\ \E stale \in SUBSET (Processes \ {p}) :
               Cleaned(m, stale, IF terminate THEN {p} ELSE {})
        /\ call' = [call EXCEPT ![x] = [pc |-> "poll", process |-> p]]
        /\ UNCHANGED <<tasks, lock, closed, stop, closing, cut>>

\* poll() returns: output of a live process, or it has ended or met its deadline.
Polled(x, late) ==
    LET m == Manager(x)
        p == call[x].process
    IN  /\ call[x].pc = "poll"
        /\ process' = IF late THEN Kill({p}) ELSE process
        /\ IF late \/ ~Alive(p)
           THEN Unlocked(m) /\ table' = [table EXCEPT ![m] = @ \ {p}]
           ELSE UNCHANGED table
        /\ call' = [call EXCEPT ![x] = NoCall]
        /\ UNCHANGED <<tasks, lock, closed, stop, closing, cut>>

Exits(p) ==
    /\ Alive(p)
    /\ process' = [process EXCEPT ![p].state = "ended"]
    /\ UNCHANGED <<tasks, table, lock, call, closed, stop, closing, cut>>

----------------------------------------------------------------------------
(* /stop: the turn, then the subagents, then their processes.                *)

Stop(s) ==
    /\ Routing
    /\ stop' = [NoStop EXCEPT !.pc = "agents", !.session = s,
                              !.cancelled = RunningOf(s), !.doomed = RunningOf(s)]
    /\ Leave(s)
    /\ Dropped({s})
    /\ UNCHANGED <<agent, answered, turns, process, table, closed, closing, cut>>

Owned(s) == {p \in table["subagents"] : process[p].owner = s}

\* Mutant: the processes are terminated before the subagents have ended.
StopProcesses_Early ==
    /\ stop.pc = "agents"
    /\ Unlocked("subagents")
    /\ table' = [table EXCEPT !["subagents"] = @ \ Owned(stop.session)]
    /\ stop' = [stop EXCEPT !.pc = "processes", !.victims = Owned(stop.session)]
    /\ UNCHANGED <<tasks, process, lock, call, closed, closing, cut>>

\* Every cancelled subagent has ended; terminate_by_owner takes its processes out.
StopProcesses ==
    /\ stop.pc = "agents"
    /\ \A a \in stop.cancelled : agent[a].task # "work"
    /\ Unlocked("subagents")
    /\ table' = [table EXCEPT !["subagents"] = @ \ Owned(stop.session)]
    /\ stop' = [stop EXCEPT !.pc = "processes", !.cancelled = {}, !.victims = Owned(stop.session)]
    /\ UNCHANGED <<tasks, process, lock, call, closed, closing, cut>>

\* The kills return; what one of them could not kill goes back into the table.
Killed(victims, failed, m) ==
    /\ failed \in SUBSET {p \in victims : Alive(p)}
    /\ Unlocked(m) \/ failed = {}
    /\ process' = Kill(victims \ failed)
    /\ table' = [table EXCEPT ![m] = @ \cup failed]

StopEnds(failed) ==
    /\ stop.pc = "processes"
    /\ Killed(stop.victims, failed, "subagents")
    /\ stop' = [stop EXCEPT !.pc = "over", !.victims = failed]
    /\ UNCHANGED <<tasks, lock, call, closed, closing, cut>>

\* It is answered; what terminate_by_owner raises is not, and ends run().
StopAnswered ==
    /\ stop.pc = "over" /\ stop.victims = {}
    /\ stop' = NoStop
    /\ UNCHANGED <<tasks, execs, closing, cut>>

----------------------------------------------------------------------------
(* The end of run(), and close_mcp: subagents and their processes, then      *)
(* those of the main agent.                                                  *)

\* The gather of kills is cancelled: one that had not begun kills nothing, and nobody
\* puts its process back into the table.
CutKills(victims, left) ==
    /\ left \in SUBSET {p \in victims : Alive(p)}
    /\ process' = Kill(victims \ left)
    /\ spared' = spared \cup left

\* Subagents that were cancelled are awaited, or a lock is, and may be cancelled there.
Awaits(cancelled, m) ==
    /\ \A a \in cancelled : agent[a].task # "work"
    /\ cancelled # {} \/ ~Unlocked(m)

\* run() ends: between two messages, with the error of a /stop or cancelled in one.
\* What it calls in its finally first drains the background tasks.
Close ==
    /\ closing.pc = "none"
    /\ \/ stop.pc = "none"
       \/ stop.pc = "agents" /\ Awaits(stop.cancelled, "subagents")
       \/ stop.pc \in {"processes", "over"} /\ stop.victims # {}
    /\ closing' = [NoStop EXCEPT !.pc = "drain"]
    /\ stop' = NoStop
    /\ \E left \in SUBSET Processes :
           CutKills(IF stop.pc = "processes" THEN stop.victims ELSE {}, left)
    /\ UNCHANGED <<tasks, table, lock, call, closed, skipped>>

CloseAgents ==
    /\ closing.pc = "drain"
    /\ closing' = [closing EXCEPT !.pc = "agents",
                                  !.cancelled = {a \in Agents : agent[a].task = "work"}]
    /\ UNCHANGED <<tasks, execs, stop, cut>>

\* close_all of a manager, from its lock to its kills.
CloseAll(m, from, to) ==
    /\ closing.pc = from
    /\ \A a \in closing.cancelled : agent[a].task # "work"
    /\ Unlocked(m)
    /\ closed' = closed \cup {m}
    /\ table' = [table EXCEPT ![m] = {}]
    /\ closing' = [closing EXCEPT !.pc = to, !.cancelled = {}, !.victims = table[m]]
    /\ UNCHANGED <<tasks, process, lock, call, stop, cut>>

CloseKilled(m, from, to, failed) ==
    /\ closing.pc = from
    /\ Killed(closing.victims, failed, m)
    /\ closing' = [closing EXCEPT !.pc = to, !.victims = {}, !.doomed = @ \cup failed]
    /\ UNCHANGED <<tasks, lock, call, closed, stop, cut>>

CloseStep ==
    \/ CloseAgents
    \/ CloseAll("subagents", "agents", "kill subagents")
    \/ \E f \in SUBSET Processes : CloseKilled("subagents", "kill subagents", "main", f)
    \/ CloseAll("agent", "main", "kill main")
    \/ \E f \in SUBSET Processes : CloseKilled("agent", "kill main", "over", f)

\* close_mcp is cancelled where it awaits.  In the drain it raises at once; a cleanup
\* step is abandoned, and the next one begins.
CutShort(from, to, skips) ==
    /\ closing.pc = from
    /\ closing' = [closing EXCEPT !.pc = to, !.cancelled = {}]
    /\ skipped' = skipped \cup skips
    /\ UNCHANGED <<tasks, execs, stop, spared>>

CutKilling(from, to, left) ==
    /\ closing.pc = from /\ closing.victims # {}
    /\ CutKills(closing.victims, left)
    /\ closing' = [closing EXCEPT !.pc = to, !.victims = {}]
    /\ UNCHANGED <<tasks, table, lock, call, closed, stop, skipped>>

CloseCut ==
    \/ CutShort("drain", "over", Managers)
    \/ Awaits(closing.cancelled, "subagents") /\ CutShort("agents", "main", {"subagents"})
    \/ \E left \in SUBSET Processes : CutKilling("kill subagents", "main", left)
    \/ Awaits({}, "agent") /\ CutShort("main", "over", {"agent"})
    \/ \E left \in SUBSET Processes : CutKilling("kill main", "over", left)

----------------------------------------------------------------------------
Next ==
    \/ \E s \in Sessions : StartTurn(s) \/ Drain(s) \/ Wake(s) \/ EndTurn(s) \/ Stop(s)
    \/ Route
    \/ \E s \in Sessions, a \in Agents, i \in BOOLEAN : Spawn(s, a, i)
    \/ \E a \in Agents : Finish(a) \/ CleanUp(a) \/ CancelledEnds(a)
    \/ \E x \in Actors : List(x) \/ Exec(x) \/ Spawned(x)
    \/ \E x \in Actors, p \in Processes, t \in BOOLEAN : Write(x, p, t)
    \/ \E x \in Actors, late \in BOOLEAN : Polled(x, late)
    \/ \E p \in Processes : Exits(p)
    \/ StopProcesses
    \/ \E f \in SUBSET Processes : StopEnds(f)
    \/ StopAnswered
    \/ Close
    \/ CloseStep
    \/ CloseCut

Spec == Init /\ [][Next]_vars

----------------------------------------------------------------------------
Commands == [pc : STRING, session : Sessions \cup {None}, cancelled : SUBSET Agents,
             victims : SUBSET Processes, doomed : SUBSET (Agents \cup Processes)]

\* The state space.
TypeOK ==
    /\ turn \in [Sessions -> [pc : {"none", "run", "wait", "inline"}, sub : Agents \cup {None}]]
    /\ inbox \in [Sessions -> Seq(Agents)] /\ bus \in Seq(Agents)
    /\ agent \in [Agents -> [task : {"none", "work", "done", "gone", "cancelled"},
                             session : Sessions \cup {None}, inline : BOOLEAN]]
    /\ answered \subseteq Agents \X Sessions
    /\ stop \in Commands /\ closing \in Commands
    /\ process \in [Processes -> [state : {"none", "alive", "ended"},
                                  owner : Sessions \cup {None}, by : Actors \cup {None}]]
    /\ table \in [Managers -> SUBSET Processes] /\ lock \in [Managers -> Actors \cup {None}]
    /\ call \in [Actors -> [pc : {"none", "spawn", "poll"}, process : Processes \cup {None}]]
    /\ closed \subseteq Managers /\ turns \in 0..MaxTurns
    /\ spared \subseteq Processes /\ skipped \subseteq Managers

\* A process that runs can be found: it is in the table of its manager, or a /stop or
\* the shutdown has it in hand.  After the shutdown only those run that it could not
\* kill.  Cancellation alone loses processes: that of a gather of kills those whose kill
\* had not begun, that of close_mcp before a close_all those of the manager it skips.
NoOrphans ==
    /\ \A p \in Processes : Alive(p) =>
           p \in table[Manager(process[p].by)] \cup stop.victims \cup closing.victims \cup spared
    /\ closing.pc = "over" => \A p \in Processes : Alive(p) =>
           p \in closing.doomed \cup spared \/ Manager(process[p].by) \in skipped

\* When /stop is answered, no subagent the session had when it came works any
\* longer, and no process one of them has started runs, but for those whose kill
\* failed ("Cancel all active tasks and subagents for the session").
StopStops ==
    stop.pc = "over" =>
        /\ \A a \in stop.doomed : agent[a].task # "work"
        /\ \A p \in Processes : Alive(p) /\ process[p].by \in stop.doomed => p \in stop.victims

InBus(a) == Cardinality({i \in DOMAIN bus : bus[i] = a})
InInbox(a, s) == IF s = None THEN 0 ELSE Cardinality({i \in DOMAIN inbox[s] : inbox[s][i] = a})
Answered(a) == Cardinality({s \in Sessions : <<a, s>> \in answered})

\* Every result that was announced is on its way to the session that spawned the
\* subagent or was taken there, once, also when turns are stopped, fail or are over
\* before they have read it; a cancelled subagent announces nothing.
ResultsKept ==
    \A a \in Agents :
        /\ InBus(a) + InInbox(a, agent[a].session) + Answered(a) =
             IF agent[a].task \in {"done", "gone"} /\ ~agent[a].inline THEN 1 ELSE 0
        /\ \A s \in Sessions : InInbox(a, s) > 0 \/ <<a, s>> \in answered => s = agent[a].session
=============================================================================
