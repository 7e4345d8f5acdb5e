-------------------------- MODULE SubagentsProofs --------------------------
(***************************************************************************)
(* Proofs about Subagents for any number of sessions, subagents, processes  *)
(* and turns: no process runs that cannot be found (NoOrphans), /stop       *)
(* leaves nothing of a subagent behind (StopStops), and every result a      *)
(* subagent announces is on its way or was taken, once (ResultsKept).       *)
(***************************************************************************)
EXTENDS Subagents, QueueOps, FiniteSetTheorems, TLAPS

USE DEF cut

ProcessRecord == [state : {"none", "alive", "ended"},
                  owner : Sessions \cup {None}, by : Actors \cup {None}]
CallRecord == [pc : {"none", "spawn", "poll"}, process : Processes \cup {None}]
AgentRecord == [task : {"none", "work", "done", "gone", "cancelled"},
                session : Sessions \cup {None}, inline : BOOLEAN]
CommandRecord == [pc : {"none", "drain", "agents", "processes", "kill subagents", "main", "kill main", "over"},
                  session : Sessions \cup {None}, cancelled : SUBSET Agents,
                  victims : SUBSET Processes, doomed : SUBSET (Agents \cup Processes)]

\* The types the arguments rest on.
Types ==
    /\ agent \in [Agents -> AgentRecord]
    /\ stop \in CommandRecord /\ closing \in CommandRecord
    /\ process \in [Processes -> ProcessRecord]
    /\ table \in [Managers -> SUBSET Processes]
    /\ lock \in [Managers -> Actors \cup {None}]
    /\ call \in [Actors -> CallRecord]
    /\ closed \subseteq Managers

\* What a manager lists, and what is taken out to be killed, it has started.
Listed ==
    /\ \A m \in Managers : \A p \in table[m] :
           process[p].state # "none" /\ Manager(process[p].by) = m
    /\ \A p \in stop.victims :
           process[p].state # "none" /\ Manager(process[p].by) = "subagents"
    /\ \A p \in closing.victims :
           /\ process[p].state # "none"
           /\ Manager(process[p].by) =
                IF closing.pc = "kill main" THEN "agent" ELSE "subagents"

\* A process that is being spawned is nobody else's, its manager is locked and open.
Spawning ==
    \A x \in Actors : call[x].pc = "spawn" =>
        /\ call[x].process \in Processes
        /\ process[call[x].process].state = "none"
        /\ lock[Manager(x)] = x
        /\ Manager(x) \notin closed
        /\ \A y \in Actors : call[y].process = call[x].process => y = x

\* A process that runs is listed, or a command has it in hand or has lost it.
Located ==
    \A p \in Processes : Alive(p) =>
        p \in table[Manager(process[p].by)] \cup stop.victims \cup closing.victims \cup spared

\* What /stop could not kill is listed again.
Returned ==
    stop.pc = "over" => \A p \in stop.victims : Alive(p) => p \in table["subagents"]

\* A command that is not at its kills holds nothing; the two never overlap; what the
\* shutdown has not closed when it is past it, it has skipped.
Phases ==
    /\ stop.pc \in {"none", "agents", "processes", "over"}
    /\ stop.pc \in {"none", "agents"} => stop.victims = {}
    /\ closing.pc \in {"none", "drain", "agents", "kill subagents", "main", "kill main", "over"}
    /\ closing.pc \in {"none", "drain", "agents", "main", "over"} => closing.victims = {}
    /\ closing.pc \in {"none", "drain", "agents"} => closing.doomed = {}
    /\ closing.pc # "none" => stop.pc = "none"
    /\ closing.pc = "none" => spared = {}
    /\ closing.pc \in {"kill subagents", "main"} => "subagents" \in closed \cup skipped
    /\ closing.pc \in {"kill main", "over"} => Managers \subseteq closed \cup skipped

\* Of a closed manager nothing runs but what is about to be killed, could not be, or
\* was spared.
Closed ==
    \A p \in Processes : Alive(p) /\ Manager(process[p].by) \in closed =>
        p \in closing.doomed \cup closing.victims \cup spared

\* A process of a subagent belongs to its session; a subagent that has ended is
\* in no call.
Agency ==
    /\ \A p \in Processes : process[p].by \in Agents =>
           /\ agent[process[p].by].task # "none"
           /\ process[p].owner = agent[process[p].by].session
    /\ \A a \in Agents : agent[a].task # "work" => call[a].pc = "none"

\* The subagents a /stop is about, and what they have started.
Doomed ==
    /\ stop.doomed \subseteq Agents
    /\ \A a \in stop.doomed : agent[a].task # "none" /\ agent[a].session = stop.session
    /\ stop.pc = "agents" => stop.cancelled = stop.doomed
    /\ stop.pc \in {"processes", "over"} =>
           /\ \A a \in stop.doomed : agent[a].task # "work"
           /\ \A p \in Processes : Alive(p) /\ process[p].by \in stop.doomed => p \in stop.victims

IInv == Types /\ Listed /\ Spawning /\ Located /\ Returned /\ Phases /\ Closed
            /\ Agency /\ Doomed

----------------------------------------------------------------------------
(* What happens to processes.                                                *)

\* The processes ps are killed, or have ended, and the others go on.
Reaped(ps) ==
    /\ process' \in [Processes -> ProcessRecord]
    /\ \A p \in Processes :
           /\ process'[p].owner = process[p].owner
           /\ process'[p].by = process[p].by
           /\ process'[p].state = "none" <=> process[p].state = "none"
           /\ process'[p].state = "alive" <=> process[p].state = "alive" /\ p \notin ps

\* A record of a process stays one, and the same but for its state.
LEMMA StateChanges ==
    ASSUME NEW q \in ProcessRecord, NEW st \in {"ended"}
    PROVE  /\ [q EXCEPT !.state = st] \in ProcessRecord
           /\ [q EXCEPT !.state = st].state = st
           /\ [q EXCEPT !.state = st].owner = q.owner
           /\ [q EXCEPT !.state = st].by = q.by
BY DEF ProcessRecord

\* Kill kills what is alive among the given processes.
LEMMA KillReaps ==
    ASSUME process \in [Processes -> ProcessRecord], NEW ps, process' = Kill(ps)
    PROVE  Reaped(ps)
<1> SUFFICES ASSUME NEW p \in Processes
             PROVE  /\ process'[p] \in ProcessRecord
                    /\ process'[p].owner = process[p].owner
                    /\ process'[p].by = process[p].by
                    /\ process'[p].state = "none" <=> process[p].state = "none"
                    /\ process'[p].state = "alive" <=> process[p].state = "alive" /\ p \notin ps
    BY DEF Reaped, Kill
<1>1. CASE p \in ps /\ Alive(p)
    <2>1. process'[p] = [process[p] EXCEPT !.state = "ended"]
        BY <1>1 DEF Kill
    <2>2. process[p] \in ProcessRecord /\ process[p].state = "alive"
        BY <1>1 DEF Alive
    <2> QED  BY <1>1, <2>1, <2>2, StateChanges
<1>2. CASE ~(p \in ps /\ Alive(p))
    BY <1>2 DEF Kill, Alive
<1> QED  BY <1>1, <1>2

\* A process that exits has ended.
LEMMA ExitReaps ==
    ASSUME process \in [Processes -> ProcessRecord], NEW p \in Processes, Exits(p)
    PROVE  Reaped({p})
<1>1. process' = [process EXCEPT ![p] = [process[p] EXCEPT !.state = "ended"]]
    BY DEF Exits
<1>2. process[p].state = "alive" /\ process[p] \in ProcessRecord
    BY DEF Exits, Alive
<1>3. ASSUME NEW q \in Processes
      PROVE  process'[q] = IF q = p THEN [process[p] EXCEPT !.state = "ended"] ELSE process[q]
    BY <1>1
<1>4. process'[p] \in ProcessRecord /\ process'[p].state = "ended"
      /\ process'[p].owner = process[p].owner /\ process'[p].by = process[p].by
    BY <1>2, <1>3, StateChanges, ZenonT(40)
<1>5. process' \in [Processes -> ProcessRecord]
    BY <1>1, <1>3, <1>4
<1> QED  BY <1>2, <1>3, <1>4, <1>5 DEF Reaped

\* Who may be the manager of whom.
LEMMA ManagerOf ==
    /\ \A x : Manager(x) \in Managers
    /\ "agent" \in Managers /\ "subagents" \in Managers /\ "agent" # "subagents"
    /\ \A a \in Agents : Manager(a) = "subagents"
BY SubagentAssumption DEF Manager, Managers

----------------------------------------------------------------------------
(* Steps that change neither processes nor commands.                         *)

\* Turns and subagents go on: a subagent keeps its session and does not begin to
\* work again, and one that ends is in no call.
LEMMA AgentStep ==
    ASSUME IInv, UNCHANGED <<execs, stop, closing, cut>>,
           agent' \in [Agents -> AgentRecord],
           \A a \in Agents : agent[a].task # "none" =>
               /\ agent'[a].task # "none"
               /\ agent'[a].session = agent[a].session
               /\ agent[a].task # "work" => agent'[a].task # "work",
           \A a \in Agents : agent'[a].task # "work" => call[a].pc = "none"
    PROVE  IInv'
<1> USE DEF execs
<1>1. Types'
    BY DEF IInv, Types
<1>2. Listed' /\ Spawning' /\ Located' /\ Returned' /\ Phases' /\ Closed'
    BY ZenonT(40) DEF IInv, Listed, Spawning, Located, Returned, Phases, Closed, Alive
<1>3. Agency'
    BY DEF IInv, Agency
<1>4. Doomed'
    BY DEF IInv, Doomed, Alive
<1> QED  BY <1>1, <1>2, <1>3, <1>4 DEF IInv

\* The agent's record stays one.
LEMMA AgentRecords ==
    ASSUME NEW q \in AgentRecord,
           NEW k \in {"none", "work", "done", "gone", "cancelled"}
    PROVE  /\ [q EXCEPT !.task = k] \in AgentRecord
           /\ [q EXCEPT !.task = k].task = k
           /\ [q EXCEPT !.task = k].session = q.session
BY DEF AgentRecord

\* Steps of turns leave the subagents alone.
LEMMA TurnSteps ==
    ASSUME IInv, NEW s \in Sessions, StartTurn(s) \/ Route \/ Drain(s) \/ Wake(s) \/ EndTurn(s)
    PROVE  IInv'
<1>1. UNCHANGED <<agent, execs, stop, closing, cut>>
    BY DEF StartTurn, Route, Drain, Wake, EndTurn
<1> QED  BY <1>1, AgentStep DEF IInv, Types, Agency

\* A new subagent has done nothing yet.
LEMMA SpawnStep ==
    ASSUME IInv, NEW s \in Sessions, NEW a \in Agents, NEW i \in BOOLEAN, Spawn(s, a, i)
    PROVE  IInv'
<1>1. /\ agent' = [agent EXCEPT ![a] = [task |-> "work", session |-> s, inline |-> i]]
      /\ agent[a].task = "none"
      /\ UNCHANGED <<execs, stop, closing, cut>>
    BY DEF Spawn
<1>2. [task |-> "work", session |-> s, inline |-> i] \in AgentRecord
    BY DEF AgentRecord
<1>3. agent' \in [Agents -> AgentRecord]
    BY <1>1, <1>2 DEF IInv, Types
<1>4. ASSUME NEW b \in Agents
      PROVE  agent'[b] = IF b = a THEN [task |-> "work", session |-> s, inline |-> i] ELSE agent[b]
    BY <1>1 DEF IInv, Types
<1> QED  BY <1>1, <1>3, <1>4, AgentStep DEF IInv, Agency

\* A subagent that ends by itself is in no call.
LEMMA EndSteps ==
    ASSUME IInv, NEW a \in Agents, Finish(a) \/ CleanUp(a)
    PROVE  IInv'
<1>1. PICK k \in {"done", "gone"} : agent' = [agent EXCEPT ![a] = [agent[a] EXCEPT !.task = k]]
    BY DEF Finish, CleanUp
<1>2. /\ agent[a].task # "none"
      /\ call[a].pc = "none"
      /\ UNCHANGED <<execs, stop, closing, cut>>
    BY DEF Finish, CleanUp, NoCall, IInv, Agency
<1>3. agent[a] \in AgentRecord
    BY DEF IInv, Types
<1>4. agent' \in [Agents -> AgentRecord]
    BY <1>1, <1>3, AgentRecords DEF IInv, Types
<1>5. ASSUME NEW b \in Agents
      PROVE  /\ b # a => agent'[b] = agent[b]
             /\ b = a => agent'[b].task = k /\ agent'[b].session = agent[b].session
    BY <1>1, <1>3, AgentRecords, SMTT(30) DEF IInv, Types
<1> QED  BY <1>2, <1>4, <1>5, AgentStep DEF IInv, Agency

----------------------------------------------------------------------------
(* Exec calls.                                                               *)

\* Processes end and leave the table of a manager, and calls that spawn nothing
\* begin and end.
LEMMA ReapStep ==
    ASSUME IInv, NEW m \in Managers, NEW ps, NEW rs, Reaped(ps),
           table' = [table EXCEPT ![m] = @ \ rs],
           \A p \in rs \cap table[m] : process'[p].state # "alive",
           call' \in [Actors -> CallRecord],
           \A x \in Actors :
               \/ call'[x] = call[x]
               \/ /\ call'[x].pc # "spawn"
                  /\ call'[x].process \in Processes => process[call'[x].process].state # "none",
           \A a \in Agents : agent[a].task # "work" => call'[a].pc = "none",
           UNCHANGED <<agent, lock, closed, stop, closing, cut>>
    PROVE  IInv'
<1> USE DEF IInv
<1>1. Types'
    BY DEF Types, Reaped
<1>2. \A n \in Managers : table'[n] \subseteq table[n] /\ table[n] \ table'[n] \subseteq rs \cap table[m]
    BY DEF Types
<1>3. Listed'
    <2>1. \A n \in Managers : \A p \in table'[n] :
              process'[p].state # "none" /\ Manager(process'[p].by) = n
        <3> SUFFICES ASSUME NEW n \in Managers, NEW p \in table'[n]
                     PROVE  process'[p].state # "none" /\ Manager(process'[p].by) = n
            OBVIOUS
        <3>1. p \in table[n] /\ p \in Processes
            BY <1>2 DEF Types
        <3>2. process[p].state # "none" /\ Manager(process[p].by) = n
            BY <3>1 DEF Listed
        <3>3. process'[p].by = process[p].by /\ process'[p].state # "none"
            BY <3>1, <3>2 DEF Reaped
        <3> QED  BY <3>2, <3>3
    <2>2. \A p \in stop.victims \cup closing.victims :
              /\ process'[p].state # "none" <=> process[p].state # "none"
              /\ process'[p].by = process[p].by
        BY DEF Types, Reaped, CommandRecord
    <2>3. \A p \in stop.victims :
              process'[p].state # "none" /\ Manager(process'[p].by) = "subagents"
        BY <2>2 DEF Listed
    <2>4. \A p \in closing.victims :
              /\ process'[p].state # "none"
              /\ Manager(process'[p].by) = IF closing.pc = "kill main" THEN "agent" ELSE "subagents"
        BY <2>2 DEF Listed
    <2> QED  BY <2>1, <2>3, <2>4 DEF Listed, Manager
<1>4. Spawning'
    <2> SUFFICES ASSUME NEW x \in Actors, call'[x].pc = "spawn"
                 PROVE  /\ call'[x].process \in Processes
                        /\ process'[call'[x].process].state = "none"
                        /\ lock'[Manager(x)] = x
                        /\ Manager(x) \notin closed'
                        /\ \A y \in Actors : call'[y].process = call'[x].process => y = x
        BY DEF Spawning, Manager
    <2>1. call'[x] = call[x]
        OBVIOUS
    <2>2. /\ call[x].process \in Processes
          /\ process[call[x].process].state = "none"
          /\ lock[Manager(x)] = x
          /\ Manager(x) \notin closed
          /\ \A y \in Actors : call[y].process = call[x].process => y = x
        BY <2>1 DEF Spawning
    <2> QED  BY <2>1, <2>2 DEF Reaped
<1>5. Located'
    <2> SUFFICES ASSUME NEW p \in Processes, process'[p].state = "alive"
                 PROVE  p \in table'[Manager(process'[p].by)] \cup stop'.victims \cup closing'.victims \cup spared'
        BY DEF Located, Alive, Manager
    <2>1. process[p].state = "alive" /\ process'[p].by = process[p].by
        BY DEF Reaped
    <2>2. p \in table[Manager(process[p].by)] \cup stop.victims \cup closing.victims \cup spared
        BY <2>1 DEF Located, Alive
    <2> QED  BY <2>1, <2>2, <1>2, ManagerOf
<1>6. Phases'
    BY DEF Phases
<1>7. Closed'
    BY DEF Closed, Alive, Reaped, Manager
<1>8. Agency'
    BY DEF Agency, Reaped
<1>9. Doomed'
    BY DEF Doomed, Alive, Reaped
<1>10. Returned'
    <2>1. ASSUME stop.pc = "over", NEW p \in stop.victims, process'[p].state = "alive"
          PROVE  p \in table'["subagents"]
        <3>1. p \in Processes /\ process[p].state = "alive"
            BY <2>1 DEF Types, CommandRecord, Reaped
        <3>2. p \in table["subagents"]
            BY <2>1, <3>1 DEF Returned, Alive
        <3> QED  BY <2>1, <3>2, <1>2, ManagerOf
    <2> QED  BY <2>1 DEF Returned, Alive
<1> QED  BY <1>1, <1>3, <1>4, <1>5, <1>6, <1>7, <1>8, <1>9, <1>10

\* Where processes stay as they are, none is reaped.
LEMMA NothingReaped ==
    ASSUME process \in [Processes -> ProcessRecord], UNCHANGED process
    PROVE  Reaped({})
BY DEF Reaped

\* Who works may call; a call that polls, or none, is a record of a call.
LEMMA Calls ==
    ASSUME IInv
    PROVE  /\ \A x \in Actors : Working(x) => \A a \in Agents : x = a => agent[a].task = "work"
           /\ NoCall \in CallRecord /\ NoCall.pc = "none" /\ NoCall.process \notin Processes
           /\ \A p \in Processes : [pc |-> "poll", process |-> p] \in CallRecord
BY SubagentAssumption DEF Working, NoCall, CallRecord

\* list() cleans up.
LEMMA ListStep ==
    ASSUME IInv, NEW x \in Actors, List(x)
    PROVE  IInv'
<1>1. PICK stale : Cleaned(Manager(x), stale, {})
    BY DEF List
<1>2. Reaped(stale \cup {})
    BY <1>1, KillReaps DEF Cleaned, IInv, Types
<1>3. table' = [table EXCEPT ![Manager(x)] = @ \ stale]
    BY <1>1 DEF Cleaned
<1>4. \A p \in stale \cap table[Manager(x)] : process'[p].state # "alive"
    BY <1>2, ManagerOf DEF Reaped, IInv, Types
<1>5. UNCHANGED <<agent, lock, call, closed, stop, closing, cut>>
    BY DEF List, tasks
<1> QED  BY <1>2, <1>3, <1>4, <1>5, ManagerOf, ReapStep DEF IInv, Types, Agency

\* write() awaits output of a process that has been started.
LEMMA WriteStep ==
    ASSUME IInv, NEW x \in Actors, NEW p \in Processes, NEW t \in BOOLEAN, Write(x, p, t)
    PROVE  IInv'
<1> DEFINE others == IF t THEN {p} ELSE {}
<1>1. PICK stale : Cleaned(Manager(x), stale, others)
    BY DEF Write
<1>2. Reaped(stale \cup others)
    BY <1>1, KillReaps DEF Cleaned, IInv, Types
<1>3. table' = [table EXCEPT ![Manager(x)] = @ \ stale]
    BY <1>1 DEF Cleaned
<1>4. \A q \in stale \cap table[Manager(x)] : process'[q].state # "alive"
    BY <1>2, ManagerOf DEF Reaped, IInv, Types
<1>5. /\ UNCHANGED <<agent, lock, closed, stop, closing, cut>>
      /\ call' = [call EXCEPT ![x] = [pc |-> "poll", process |-> p]]
      /\ Working(x)
      /\ p \in table[Manager(x)]
    BY DEF Write, tasks
<1>6. process[p].state # "none"
    BY <1>5, ManagerOf DEF IInv, Listed
<1>7. call' \in [Actors -> CallRecord]
    BY <1>5, Calls DEF IInv, Types
<1>8. \A y \in Actors : call'[y] = IF y = x THEN [pc |-> "poll", process |-> p] ELSE call[y]
    BY <1>5 DEF IInv, Types
<1>9. \A a \in Agents : agent[a].task # "work" => call'[a].pc = "none"
    BY <1>5, <1>8, Calls DEF IInv, Agency, Actors
<1>10. \A y \in Actors :
          \/ call'[y] = call[y]
          \/ /\ call'[y].pc # "spawn"
             /\ call'[y].process \in Processes => process[call'[y].process].state # "none"
    BY <1>6, <1>8
<1>11. Manager(x) \in Managers
    BY ManagerOf
<1> HIDE DEF others
<1> QED  BY <1>2, <1>3, <1>4, <1>5, <1>7, <1>9, <1>10, <1>11, ReapStep

\* poll() takes what has ended out of the table.
LEMMA PolledStep ==
    ASSUME IInv, NEW x \in Actors, NEW late \in BOOLEAN, Polled(x, late)
    PROVE  IInv'
<1> DEFINE m == Manager(x)
           p == call[x].process
           ps == IF late THEN {p} ELSE {}
           rs == IF late \/ ~Alive(p) THEN {p} ELSE {}
<1>1. Reaped(ps)
    BY KillReaps, NothingReaped DEF Polled, IInv, Types
<1>2. table' = [table EXCEPT ![m] = @ \ rs]
    <2>1. CASE late \/ ~Alive(p)
        BY <2>1 DEF Polled
    <2>2. CASE ~(late \/ ~Alive(p))
        BY <2>2, ManagerOf DEF Polled, IInv, Types
    <2> QED  BY <2>1, <2>2
<1>3. \A q \in rs \cap table[m] : process'[q].state # "alive"
    BY <1>1, ManagerOf DEF Reaped, IInv, Types, Alive
<1>4. UNCHANGED <<agent, lock, closed, stop, closing, cut>> /\ call' = [call EXCEPT ![x] = NoCall]
    BY DEF Polled, tasks
<1>5. call' \in [Actors -> CallRecord]
    BY <1>4, Calls DEF IInv, Types
<1>6. \A y \in Actors : call'[y] = IF y = x THEN NoCall ELSE call[y]
    BY <1>4 DEF IInv, Types
<1>7. \A a \in Agents : agent[a].task # "work" => call'[a].pc = "none"
    BY <1>6, Calls DEF IInv, Agency, Actors
<1>8. \A y \in Actors :
          \/ call'[y] = call[y]
          \/ /\ call'[y].pc # "spawn"
             /\ call'[y].process \in Processes => process[call'[y].process].state # "none"
    BY <1>6, Calls
<1> HIDE DEF m, p, ps, rs
<1>9. m \in Managers
    BY ManagerOf DEF m
<1> QED  BY <1>1, <1>2, <1>3, <1>4, <1>5, <1>7, <1>8, <1>9, ReapStep

\* A process may exit at any time.
LEMMA ExitStep ==
    ASSUME IInv, NEW p \in Processes, Exits(p)
    PROVE  IInv'
<1>1. Reaped({p})
    BY ExitReaps DEF IInv, Types
<1>2. UNCHANGED <<agent, table, lock, call, closed, stop, closing, cut>>
    BY DEF Exits, tasks
<1>3. table' = [table EXCEPT !["agent"] = @ \ {}]
    BY <1>2, ManagerOf DEF IInv, Types
<1>4. \A q \in {} \cap table["agent"] : process'[q].state # "alive"
    OBVIOUS
<1> QED  BY <1>1, <1>2, <1>3, <1>4, ManagerOf, ReapStep DEF IInv, Types, Agency

\* start() takes the lock for a process that nobody else has.
LEMMA ExecStep ==
    ASSUME IInv, NEW x \in Actors, Exec(x)
    PROVE  IInv'
<1> DEFINE m == Manager(x)
           c == [pc |-> "spawn", process |-> New]
<1>1. PICK stale : Cleaned(m, stale, {})
    BY DEF Exec
<1>2. Reaped(stale \cup {})
    BY <1>1, KillReaps DEF Cleaned, IInv, Types
<1>3. table' = [table EXCEPT ![m] = @ \ stale]
    BY <1>1 DEF Cleaned
<1>4. /\ UNCHANGED <<agent, closed, stop, closing, cut>>
      /\ call' = [call EXCEPT ![x] = c]
      /\ lock' = [lock EXCEPT ![m] = x]
      /\ Working(x) /\ lock[m] = None /\ m \notin closed
      /\ New \in Processes
    BY DEF Exec, tasks, Unlocked
<1>5. process[New].state = "none" /\ \A y \in Actors : call[y].process # New
    <2> DEFINE unused == {p \in Processes : process[p] = NoProcess /\ \A y \in Actors : call[y].process # p}
    <2>1. New = IF unused = {} THEN None ELSE CHOOSE p \in unused : TRUE
        BY DEF New
    <2>2. New \in unused
        BY <1>4, <2>1, SubagentAssumption
    <2> QED  BY <2>2 DEF NoProcess
<1>6. m \in Managers /\ c \in CallRecord /\ c.pc = "spawn" /\ c.process = New
    BY <1>4, ManagerOf DEF CallRecord
<1> HIDE DEF c, m
<1>7. Types'
    BY <1>2, <1>3, <1>4, <1>6 DEF IInv, Types, Reaped
<1>8. \A y \in Actors : call'[y] = IF y = x THEN c ELSE call[y]
    BY <1>4 DEF IInv, Types
<1>9. \A n \in Managers :
          /\ table'[n] \subseteq table[n] /\ table[n] \ table'[n] \subseteq stale \cap table[n]
          /\ lock'[n] = IF n = m THEN x ELSE lock[n]
    BY <1>3, <1>4, <1>6 DEF IInv, Types
<1>10. Listed'
    <2>1. ASSUME NEW n \in Managers, NEW p \in table'[n]
          PROVE  process'[p].state # "none" /\ Manager(process'[p].by) = n
        <3>1. p \in table[n] /\ p \in Processes
            BY <1>9 DEF IInv, Types
        <3>2. process[p].state # "none" /\ Manager(process[p].by) = n
            BY <3>1 DEF IInv, Listed
        <3> QED  BY <1>2, <3>1, <3>2 DEF Reaped
    <2>2. \A p \in stop.victims \cup closing.victims :
              /\ process'[p].state # "none" <=> process[p].state # "none"
              /\ process'[p].by = process[p].by
        BY <1>2 DEF IInv, Types, Reaped, CommandRecord
    <2>3. \A p \in stop.victims :
              process'[p].state # "none" /\ Manager(process'[p].by) = "subagents"
        BY <2>2 DEF IInv, Listed
    <2>4. \A p \in closing.victims :
              /\ process'[p].state # "none"
              /\ Manager(process'[p].by) = IF closing.pc = "kill main" THEN "agent" ELSE "subagents"
        BY <2>2 DEF IInv, Listed
    <2> QED  BY <1>4, <2>1, <2>3, <2>4 DEF Listed, Manager
<1>11. Spawning'
    <2> SUFFICES ASSUME NEW y \in Actors, call'[y].pc = "spawn"
                 PROVE  /\ call'[y].process \in Processes
                        /\ process'[call'[y].process].state = "none"
                        /\ lock'[Manager(y)] = y
                        /\ Manager(y) \notin closed'
                        /\ \A z \in Actors : call'[z].process = call'[y].process => z = y
        BY DEF Spawning, Manager
    <2>1. CASE y = x
        BY <1>2, <1>4, <1>5, <1>6, <1>8, <1>9, <2>1 DEF Reaped, m
    <2>2. CASE y # x
        <3>1. call'[y] = call[y]
            BY <1>8, <2>2
        <3>2. /\ call[y].process \in Processes
              /\ process[call[y].process].state = "none"
              /\ lock[Manager(y)] = y
              /\ Manager(y) \notin closed
              /\ \A z \in Actors : call[z].process = call[y].process => z = y
            BY <3>1 DEF IInv, Spawning
        <3>3. Manager(y) # m
            BY <1>4, <3>2, SubagentAssumption DEF Actors
        <3>4. lock'[Manager(y)] = y
            BY <1>9, <3>2, <3>3, ManagerOf
        <3>5. \A z \in Actors : call'[z].process = call'[y].process => z = y
            BY <1>5, <1>6, <1>8, <3>1, <3>2
        <3> QED  BY <1>2, <1>4, <3>1, <3>2, <3>4, <3>5 DEF Reaped
    <2> QED  BY <2>1, <2>2
<1>12. Located'
    <2> SUFFICES ASSUME NEW p \in Processes, process'[p].state = "alive"
                 PROVE  p \in table'[Manager(process'[p].by)] \cup stop'.victims \cup closing'.victims \cup spared'
        BY DEF Located, Alive, Manager
    <2>1. process[p].state = "alive" /\ process'[p].by = process[p].by /\ p \notin stale
        BY <1>2 DEF Reaped
    <2>2. p \in table[Manager(process[p].by)] \cup stop.victims \cup closing.victims \cup spared
        BY <2>1 DEF IInv, Located, Alive
    <2> QED  BY <1>4, <1>9, <2>1, <2>2, ManagerOf
<1>13. Phases'
    BY <1>4 DEF IInv, Phases
<1>14. Closed'
    BY <1>2, <1>4 DEF IInv, Closed, Alive, Reaped, Manager
<1>15. Agency'
    BY <1>2, <1>4, <1>8, Calls DEF IInv, Agency, Reaped, Actors
<1>16. Doomed'
    BY <1>2, <1>4 DEF IInv, Doomed, Alive, Reaped
<1>17. Returned'
    <2>1. ASSUME stop.pc = "over", NEW p \in stop.victims, process'[p].state = "alive"
          PROVE  p \in table'["subagents"]
        <3>1. p \in Processes /\ process[p].state = "alive" /\ p \notin stale
            BY <1>2, <2>1 DEF IInv, Types, CommandRecord, Reaped
        <3>2. p \in table["subagents"]
            BY <2>1, <3>1 DEF IInv, Returned, Alive
        <3> QED  BY <1>9, <3>1, <3>2, ManagerOf
    <2> QED  BY <1>4, <2>1 DEF Returned, Alive
<1> QED  BY <1>7, <1>10, <1>11, <1>12, <1>13, <1>14, <1>15, <1>16, <1>17 DEF IInv

\* The spawned process is listed in the step that makes it run.
LEMMA SpawnedStep ==
    ASSUME IInv, NEW x \in Actors, Spawned(x)
    PROVE  IInv'
<1> DEFINE m == Manager(x)
           p == call[x].process
           q == [state |-> "alive", owner |-> Session(x), by |-> x]
           c == [call[x] EXCEPT !.pc = "poll"]
<1>1. /\ call[x].pc = "spawn"
      /\ process' = [process EXCEPT ![p] = q]
      /\ table' = [table EXCEPT ![m] = @ \cup {p}]
      /\ lock' = [lock EXCEPT ![m] = None]
      /\ call' = [call EXCEPT ![x] = c]
      /\ UNCHANGED <<agent, closed, stop, closing, cut>>
    BY DEF Spawned, tasks
<1>2. /\ p \in Processes /\ process[p].state = "none"
      /\ lock[m] = x /\ m \notin closed
      /\ \A y \in Actors : call[y].process = p => y = x
    BY <1>1 DEF IInv, Spawning
<1>3. Session(x) \in Sessions \cup {None}
    BY DEF Session, IInv, Types, AgentRecord, Actors
<1>4. /\ q \in ProcessRecord /\ q.state = "alive" /\ q.owner = Session(x) /\ q.by = x
      /\ m \in Managers
    BY <1>3, ManagerOf DEF ProcessRecord
<1>5. c \in CallRecord /\ c.pc = "poll" /\ c.process = p
    BY DEF IInv, Types, CallRecord
<1>6. x \in Agents => agent[x].task = "work" /\ q.owner = agent[x].session
    BY <1>1, <1>4, SubagentAssumption DEF IInv, Agency, Session
<1>7. m = Manager(x)
    OBVIOUS
<1> HIDE DEF m, p, q, c
<1>8. Types'
    BY <1>1, <1>2, <1>4, <1>5 DEF IInv, Types
<1>9. /\ \A o \in Processes : process'[o] = IF o = p THEN q ELSE process[o]
      /\ \A n \in Managers : table'[n] = IF n = m THEN table[m] \cup {p} ELSE table[n]
      /\ \A n \in Managers : lock'[n] = IF n = m THEN None ELSE lock[n]
      /\ \A y \in Actors : call'[y] = IF y = x THEN c ELSE call[y]
    BY <1>1, <1>2, <1>4 DEF IInv, Types
<1>10. /\ \A n \in Managers : p \notin table[n]
       /\ p \notin stop.victims \cup closing.victims
    BY <1>2 DEF IInv, Listed
<1>11. Listed'
    <2>1. ASSUME NEW n \in Managers, NEW o \in table'[n]
          PROVE  process'[o].state # "none" /\ Manager(process'[o].by) = n
        <3>1. CASE o = p
            BY <1>2, <1>4, <1>7, <1>9, <1>10, <3>1
        <3>2. CASE o # p
            <4>1. o \in table[n] /\ o \in Processes
                BY <1>9, <3>2 DEF IInv, Types
            <4>2. process[o].state # "none" /\ Manager(process[o].by) = n
                BY <4>1 DEF IInv, Listed
            <4> QED  BY <1>9, <3>2, <4>1, <4>2
        <3> QED  BY <3>1, <3>2
    <2>2. \A o \in stop.victims \cup closing.victims : process'[o] = process[o]
        BY <1>9, <1>10 DEF IInv, Types, CommandRecord
    <2>3. \A o \in stop.victims :
              process'[o].state # "none" /\ Manager(process'[o].by) = "subagents"
        BY <2>2 DEF IInv, Listed
    <2>4. \A o \in closing.victims :
              /\ process'[o].state # "none"
              /\ Manager(process'[o].by) = IF closing.pc = "kill main" THEN "agent" ELSE "subagents"
        BY <2>2 DEF IInv, Listed
    <2> QED  BY <1>1, <2>1, <2>3, <2>4 DEF Listed, Manager
<1>12. Spawning'
    <2> SUFFICES ASSUME NEW y \in Actors, call'[y].pc = "spawn"
                 PROVE  /\ call'[y].process \in Processes
                        /\ process'[call'[y].process].state = "none"
                        /\ lock'[Manager(y)] = y
                        /\ Manager(y) \notin closed'
                        /\ \A z \in Actors : call'[z].process = call'[y].process => z = y
        BY DEF Spawning, Manager
    <2>1. y # x /\ call'[y] = call[y]
        BY <1>5, <1>9
    <2>2. /\ call[y].process \in Processes
          /\ process[call[y].process].state = "none"
          /\ lock[Manager(y)] = y
          /\ Manager(y) \notin closed
          /\ \A z \in Actors : call[z].process = call[y].process => z = y
        BY <2>1 DEF IInv, Spawning
    <2>3. Manager(y) # m /\ call[y].process # p
        BY <1>2, <2>1, <2>2
    <2>4. lock'[Manager(y)] = y
        BY <1>9, <2>2, <2>3, ManagerOf
    <2>5. \A z \in Actors : call'[z].process = call[z].process
        BY <1>5, <1>9 DEF p
    <2> QED  BY <1>1, <1>9, <2>1, <2>2, <2>3, <2>4, <2>5
<1>13. Located'
    <2> SUFFICES ASSUME NEW o \in Processes, process'[o].state = "alive"
                 PROVE  o \in table'[Manager(process'[o].by)] \cup stop'.victims \cup closing'.victims \cup spared'
        BY DEF Located, Alive, Manager
    <2>1. CASE o = p
        BY <1>4, <1>7, <1>9, <2>1
    <2>2. CASE o # p
        <3>1. process'[o] = process[o]
            BY <1>9, <2>2
        <3>2. o \in table[Manager(process[o].by)] \cup stop.victims \cup closing.victims \cup spared
            BY <3>1 DEF IInv, Located, Alive
        <3> QED  BY <1>1, <1>9, <3>1, <3>2, ManagerOf
    <2> QED  BY <2>1, <2>2
<1>14. Phases'
    BY <1>1 DEF IInv, Phases
<1>15. Closed'
    <2> SUFFICES ASSUME NEW o \in Processes, process'[o].state = "alive",
                        Manager(process'[o].by) \in closed
                 PROVE  o \in closing.doomed \cup closing.victims \cup spared
        BY <1>1 DEF Closed, Alive, Manager
    <2>1. o # p
        BY <1>2, <1>4, <1>7, <1>9
    <2> QED  BY <1>9, <2>1 DEF IInv, Closed, Alive
<1>16. Agency'
    BY <1>1, <1>2, <1>4, <1>6, <1>9 DEF IInv, Agency, Actors
<1>17. Doomed'
    <2>1. ASSUME stop.pc \in {"processes", "over"}, NEW o \in Processes,
                 process'[o].state = "alive", process'[o].by \in stop.doomed
          PROVE  o \in stop.victims
        <3>1. o # p
            BY <1>4, <1>6, <1>9, <2>1 DEF IInv, Doomed
        <3> QED  BY <1>9, <2>1, <3>1 DEF IInv, Doomed, Alive
    <2> QED  BY <1>1, <2>1 DEF IInv, Doomed, Alive
<1>18. Returned'
    <2>1. ASSUME stop.pc = "over", NEW o \in stop.victims, process'[o].state = "alive"
          PROVE  o \in table'["subagents"]
        <3>1. o \in Processes /\ process[o].state = "alive"
            BY <1>9, <1>10, <2>1 DEF IInv, Types, CommandRecord
        <3>2. o \in table["subagents"]
            BY <2>1, <3>1 DEF IInv, Returned, Alive
        <3> QED  BY <1>9, <3>2, ManagerOf
    <2> QED  BY <1>1, <2>1 DEF Returned, Alive
<1> QED  BY <1>8, <1>11, <1>12, <1>13, <1>14, <1>15, <1>16, <1>17, <1>18 DEF IInv

----------------------------------------------------------------------------
(* /stop and the shutdown.                                                   *)

\* A cancelled subagent ends, and gives the lock back that it may hold.
LEMMA CancelledStep ==
    ASSUME IInv, NEW a \in Agents, CancelledEnds(a)
    PROVE  IInv'
<1>1. /\ agent' = [agent EXCEPT ![a] = [agent[a] EXCEPT !.task = "cancelled"]]
      /\ agent[a].task = "work"
      /\ call' = [x \in Actors |-> IF x \in {a} THEN NoCall ELSE call[x]]
      /\ lock' = [m \in Managers |-> IF lock[m] \in {a} THEN None ELSE lock[m]]
      /\ UNCHANGED <<process, table, closed, stop, closing, cut>>
    BY DEF CancelledEnds, Dropped
<1>2. agent[a] \in AgentRecord
    BY DEF IInv, Types
<1> DEFINE q == [agent[a] EXCEPT !.task = "cancelled"]
<1>2a. q \in AgentRecord /\ q.task = "cancelled" /\ q.session = agent[a].session
    BY <1>2, AgentRecords
<1> HIDE DEF q
<1>3. \A b \in Agents : /\ b # a => agent'[b] = agent[b]
                        /\ b = a => /\ agent'[b].task = "cancelled"
                                    /\ agent'[b].session = agent[b].session
    BY <1>1, <1>2a DEF IInv, Types, q
<1>4. Types'
    <2>1. agent' \in [Agents -> AgentRecord]
        BY <1>1, <1>2, AgentRecords DEF IInv, Types
    <2> QED  BY <1>1, <2>1, Calls DEF IInv, Types
<1>5. Listed' /\ Located' /\ Phases' /\ Closed'
    BY <1>1, ZenonT(40) DEF IInv, Listed, Located, Phases, Closed, Alive, Manager
<1>6. Spawning'
    <2> SUFFICES ASSUME NEW y \in Actors, call'[y].pc = "spawn"
                 PROVE  /\ call'[y].process \in Processes
                        /\ process'[call'[y].process].state = "none"
                        /\ lock'[Manager(y)] = y
                        /\ Manager(y) \notin closed'
                        /\ \A z \in Actors : call'[z].process = call'[y].process => z = y
        BY DEF Spawning, Manager
    <2>1. y # a /\ call'[y] = call[y]
        BY <1>1, Calls
    <2>2. /\ call[y].process \in Processes
          /\ process[call[y].process].state = "none"
          /\ lock[Manager(y)] = y
          /\ Manager(y) \notin closed
          /\ \A z \in Actors : call[z].process = call[y].process => z = y
        BY <2>1 DEF IInv, Spawning
    <2> QED  BY <1>1, <2>1, <2>2, Calls, ManagerOf
<1>7. Agency'
    BY <1>1, <1>3, Calls DEF IInv, Agency, Actors
<1>8. Doomed'
    BY <1>1, <1>3 DEF IInv, Doomed, Alive
<1>9. Returned'
    BY <1>1 DEF IInv, Returned, Alive
<1> QED  BY <1>4, <1>5, <1>6, <1>7, <1>8, <1>9 DEF IInv

\* /stop begins with the subagents that work for the session.
LEMMA StopStep ==
    ASSUME IInv, NEW s \in Sessions, Stop(s)
    PROVE  IInv'
<1> DEFINE st == [NoStop EXCEPT !.pc = "agents", !.session = s,
                                !.cancelled = RunningOf(s), !.doomed = RunningOf(s)]
<1>1. /\ stop' = st
      /\ stop.pc = "none" /\ closing.pc = "none"
      /\ call' = [x \in Actors |-> IF x \in {s} THEN NoCall ELSE call[x]]
      /\ lock' = [m \in Managers |-> IF lock[m] \in {s} THEN None ELSE lock[m]]
      /\ UNCHANGED <<agent, process, table, closed, closing, cut>>
    BY DEF Stop, Dropped, Routing
<1>2. /\ st.pc = "agents" /\ st.session = s /\ st.victims = {}
      /\ st.cancelled = RunningOf(s) /\ st.doomed = RunningOf(s)
    BY DEF NoStop
<1>3. RunningOf(s) \subseteq Agents
      /\ \A a \in RunningOf(s) : agent[a].task = "work" /\ agent[a].session = s
    BY DEF RunningOf
<1>4. st \in CommandRecord
    <2>1. NoStop \in CommandRecord
        BY DEF NoStop, CommandRecord
    <2>2. ASSUME NEW q \in CommandRecord
          PROVE  [q EXCEPT !.pc = "agents", !.session = s,
                           !.cancelled = RunningOf(s), !.doomed = RunningOf(s)] \in CommandRecord
        BY <1>3 DEF CommandRecord
    <2> QED  BY <2>1, <2>2
<1> HIDE DEF st
<1>5. Types'
    BY <1>1, <1>4, Calls DEF IInv, Types
<1>6. Listed'
    BY <1>1, <1>2 DEF IInv, Listed, Manager
<1>7. Spawning'
    <2> SUFFICES ASSUME NEW y \in Actors, call'[y].pc = "spawn"
                 PROVE  /\ call'[y].process \in Processes
                        /\ process'[call'[y].process].state = "none"
                        /\ lock'[Manager(y)] = y
                        /\ Manager(y) \notin closed'
                        /\ \A z \in Actors : call'[z].process = call'[y].process => z = y
        BY DEF Spawning, Manager
    <2>1. y # s /\ call'[y] = call[y]
        BY <1>1, Calls
    <2>2. /\ call[y].process \in Processes
          /\ process[call[y].process].state = "none"
          /\ lock[Manager(y)] = y
          /\ Manager(y) \notin closed
          /\ \A z \in Actors : call[z].process = call[y].process => z = y
        BY <2>1 DEF IInv, Spawning
    <2> QED  BY <1>1, <2>1, <2>2, Calls, ManagerOf
<1>8. Located'
    BY <1>1, <1>2 DEF IInv, Located, Phases, Alive, Manager
<1>9. Phases'
    BY <1>1, <1>2 DEF IInv, Phases
<1>10. Closed'
    BY <1>1 DEF IInv, Closed, Alive, Manager
<1>11. Agency'
    BY <1>1, Calls DEF IInv, Agency, Actors
<1>12. Doomed'
    BY <1>1, <1>2, <1>3 DEF Doomed
<1>13. Returned'
    BY <1>1, <1>2 DEF Returned
<1> QED  BY <1>5, <1>6, <1>7, <1>8, <1>9, <1>10, <1>11, <1>12, <1>13 DEF IInv

\* With every subagent of the session ended, what they have started is in the table.
LEMMA StopProcessesStep ==
    ASSUME IInv, StopProcesses
    PROVE  IInv'
<1> DEFINE st == [stop EXCEPT !.pc = "processes", !.cancelled = {}, !.victims = Owned(stop.session)]
<1>1. /\ stop.pc = "agents"
      /\ \A a \in stop.cancelled : agent[a].task # "work"
      /\ stop' = st
      /\ table' = [table EXCEPT !["subagents"] = @ \ Owned(stop.session)]
      /\ UNCHANGED <<agent, process, lock, call, closed, closing, cut>>
    BY DEF StopProcesses, tasks
<1>2. /\ st.pc = "processes" /\ st.session = stop.session /\ st.doomed = stop.doomed
      /\ st.cancelled = {} /\ st.victims = Owned(stop.session)
    BY DEF IInv, Types, CommandRecord
<1>3. /\ Owned(stop.session) \subseteq table["subagents"]
      /\ Owned(stop.session) \subseteq Processes
      /\ \A p \in table["subagents"] :
             process[p].owner = stop.session => p \in Owned(stop.session)
    BY ManagerOf DEF Owned, IInv, Types
<1>4. st \in CommandRecord
    BY <1>3 DEF IInv, Types, CommandRecord
<1> HIDE DEF st
<1>5. Types'
    BY <1>1, <1>4 DEF IInv, Types
<1>6. \A n \in Managers :
          /\ table'[n] \subseteq table[n]
          /\ table[n] \subseteq table'[n] \cup Owned(stop.session)
    BY <1>1 DEF IInv, Types
<1>7. Listed'
    <2>1. ASSUME NEW n \in Managers, NEW p \in table'[n]
          PROVE  process[p].state # "none" /\ Manager(process[p].by) = n
        BY <1>6 DEF IInv, Listed
    <2>2. ASSUME NEW p \in Owned(stop.session)
          PROVE  process[p].state # "none" /\ Manager(process[p].by) = "subagents"
        BY <1>3, ManagerOf DEF IInv, Listed
    <2>3. \A p \in closing.victims :
              /\ process[p].state # "none"
              /\ Manager(process[p].by) = IF closing.pc = "kill main" THEN "agent" ELSE "subagents"
        BY DEF IInv, Listed
    <2> QED  BY <1>1, <1>2, <2>1, <2>2, <2>3 DEF Listed, Manager
<1>8. Spawning'
    BY <1>1 DEF IInv, Spawning, Manager
<1>9. stop.victims = {} /\ closing.victims = {} /\ closing.pc = "none" /\ spared = {}
    BY <1>1 DEF IInv, Phases
<1>10. Located'
    <2> SUFFICES ASSUME NEW p \in Processes, process[p].state = "alive"
                 PROVE  p \in table'[Manager(process[p].by)] \cup stop'.victims \cup closing'.victims \cup spared'
        BY <1>1 DEF Located, Alive, Manager
    <2>1. p \in table[Manager(process[p].by)]
        BY <1>9 DEF IInv, Located, Alive
    <2> QED  BY <1>1, <1>2, <1>6, <2>1, ManagerOf
<1>11. Phases'
    BY <1>1, <1>2 DEF IInv, Phases
<1>12. Closed'
    BY <1>1 DEF IInv, Closed, Alive, Manager
<1>13. Agency'
    BY <1>1 DEF IInv, Agency
<1>14. Doomed'
    <2>1. ASSUME NEW p \in Processes, process[p].state = "alive", process[p].by \in stop.doomed
          PROVE  p \in Owned(stop.session)
        <3>1. /\ process[p].by \in Agents
              /\ agent[process[p].by].session = stop.session
            BY <2>1 DEF IInv, Doomed
        <3>2. process[p].owner = stop.session /\ Manager(process[p].by) = "subagents"
            BY <3>1, ManagerOf DEF IInv, Agency
        <3>3. p \in table["subagents"]
            BY <1>9, <2>1, <3>2 DEF IInv, Located, Alive
        <3> QED  BY <1>3, <3>2, <3>3
    <2> QED  BY <1>1, <1>2, <2>1 DEF IInv, Doomed, Alive
<1>15. Returned'
    BY <1>1, <1>2 DEF Returned
<1> QED  BY <1>5, <1>7, <1>8, <1>10, <1>11, <1>12, <1>13, <1>14, <1>15 DEF IInv

\* The steps of /stop and of the shutdown that touch neither subagents nor calls:
\* each conjunct, from what the step does to processes, tables and commands.
LEMMA CommandStep ==
    ASSUME IInv, NEW ps, Reaped(ps),
           table' \in [Managers -> SUBSET Processes],
           closed' \subseteq Managers,
           stop' \in CommandRecord, closing' \in CommandRecord,
           \A y \in Actors : call[y].pc = "spawn" => Manager(y) \notin closed',
           UNCHANGED <<agent, lock, call>>
    PROVE  Types' /\ Spawning' /\ Agency'
<1>1. Types'
    BY DEF IInv, Types, Reaped
<1>2. Spawning'
    <2> SUFFICES ASSUME NEW y \in Actors, call[y].pc = "spawn"
                 PROVE  /\ call[y].process \in Processes
                        /\ process'[call[y].process].state = "none"
                        /\ lock[Manager(y)] = y
                        /\ Manager(y) \notin closed'
                        /\ \A z \in Actors : call[z].process = call[y].process => z = y
        BY DEF Spawning, Manager
    <2> QED  BY DEF IInv, Spawning, Reaped
<1>3. Agency'
    BY DEF IInv, Agency, Reaped
<1> QED  BY <1>1, <1>2, <1>3

\* The kills of a manager's processes: those that failed run and are listed again.
LEMMA KilledFacts ==
    ASSUME IInv, NEW victims, NEW failed, NEW m \in Managers, Killed(victims, failed, m),
           victims \subseteq Processes,
           \A p \in victims : process[p].state # "none" /\ Manager(process[p].by) = m
    PROVE  /\ Reaped(victims \ failed)
           /\ failed \subseteq victims
           /\ table' \in [Managers -> SUBSET Processes]
           /\ \A n \in Managers : table[n] \subseteq table'[n]
           /\ failed \subseteq table'[m]
           /\ \A n \in Managers : \A p \in table'[n] :
                  process'[p].state # "none" /\ Manager(process'[p].by) = n
<1>1. Reaped(victims \ failed)
    BY KillReaps DEF Killed, IInv, Types
<1>2. failed \subseteq victims /\ table' = [table EXCEPT ![m] = @ \cup failed]
    BY DEF Killed
<1>3. \A n \in Managers : table'[n] = IF n = m THEN table[m] \cup failed ELSE table[n]
    BY <1>2 DEF IInv, Types
<1>4. table' \in [Managers -> SUBSET Processes]
    BY <1>2 DEF IInv, Types
<1>5. ASSUME NEW n \in Managers, NEW p \in table'[n]
      PROVE  process'[p].state # "none" /\ Manager(process'[p].by) = n
    <2>1. p \in Processes
        BY <1>4
    <2>2. process[p].state # "none" /\ Manager(process[p].by) = n
        <3>1. CASE p \in table[n]
            BY <3>1 DEF IInv, Listed
        <3>2. CASE p \notin table[n]
            BY <1>2, <1>3, <3>2
        <3> QED  BY <3>1, <3>2
    <2> QED  BY <1>1, <2>1, <2>2 DEF Reaped
<1> QED  BY <1>1, <1>2, <1>3, <1>4, <1>5

\* The kills of /stop.
LEMMA StopEndsStep ==
    ASSUME IInv, NEW failed, StopEnds(failed)
    PROVE  IInv'
<1> DEFINE st == [stop EXCEPT !.pc = "over", !.victims = failed]
<1>1. /\ stop.pc = "processes" /\ stop' = st
      /\ Killed(stop.victims, failed, "subagents")
      /\ UNCHANGED <<agent, lock, call, closed, closing, cut>>
    BY DEF StopEnds, tasks
<1>2. /\ stop.victims \subseteq Processes
      /\ \A p \in stop.victims : process[p].state # "none" /\ Manager(process[p].by) = "subagents"
    BY DEF IInv, Types, CommandRecord, Listed
<1>3. /\ Reaped(stop.victims \ failed)
      /\ failed \subseteq stop.victims
      /\ table' \in [Managers -> SUBSET Processes]
      /\ \A n \in Managers : table[n] \subseteq table'[n]
      /\ failed \subseteq table'["subagents"]
      /\ \A n \in Managers : \A p \in table'[n] :
             process'[p].state # "none" /\ Manager(process'[p].by) = n
    BY <1>1, <1>2, ManagerOf, KilledFacts
<1>4. /\ st \in CommandRecord /\ st.pc = "over" /\ st.victims = failed
      /\ st.session = stop.session /\ st.doomed = stop.doomed
    BY <1>2, <1>3 DEF IInv, Types, CommandRecord
<1> HIDE DEF st
<1>5. Types' /\ Spawning' /\ Agency'
    <2>1. \A y \in Actors : call[y].pc = "spawn" => Manager(y) \notin closed'
        BY <1>1 DEF IInv, Spawning
    <2>2. stop' \in CommandRecord /\ closing' \in CommandRecord /\ closed' \subseteq Managers
        BY <1>1, <1>4 DEF IInv, Types
    <2> QED  BY <1>1, <1>3, <2>1, <2>2, CommandStep
<1>6. Listed'
    <2>1. \A p \in failed :
              process'[p].state # "none" /\ Manager(process'[p].by) = "subagents"
        BY <1>3, ManagerOf
    <2>2. \A p \in closing.victims :
              /\ process'[p].state # "none"
              /\ Manager(process'[p].by) = IF closing.pc = "kill main" THEN "agent" ELSE "subagents"
        BY <1>1 DEF IInv, Phases
    <2> QED  BY <1>1, <1>3, <1>4, <2>1, <2>2 DEF Listed, Manager
<1>7. Located'
    <2> SUFFICES ASSUME NEW p \in Processes, process'[p].state = "alive"
                 PROVE  p \in table'[Manager(process'[p].by)] \cup stop'.victims \cup closing'.victims \cup spared'
        BY DEF Located, Alive, Manager
    <2>1. /\ process[p].state = "alive" /\ process'[p].by = process[p].by
          /\ p \notin stop.victims \ failed
        BY <1>3 DEF Reaped
    <2>2. p \in table[Manager(process[p].by)] \cup stop.victims \cup closing.victims \cup spared
        BY <2>1 DEF IInv, Located, Alive
    <2> QED  BY <1>1, <1>3, <1>4, <2>1, <2>2, ManagerOf
<1>8. Phases'
    BY <1>1, <1>4 DEF IInv, Phases
<1>9. Closed'
    BY <1>1, <1>3 DEF IInv, Closed, Alive, Reaped, Manager
<1>10. Doomed'
    <2>1. ASSUME NEW p \in Processes, process'[p].state = "alive", process'[p].by \in stop.doomed
          PROVE  p \in failed
        BY <1>1, <1>3, <2>1 DEF IInv, Doomed, Alive, Reaped
    <2> QED  BY <1>1, <1>4, <2>1 DEF IInv, Doomed, Alive
<1>11. Returned'
    BY <1>1, <1>3, <1>4 DEF Returned, Alive
<1> QED  BY <1>5, <1>6, <1>7, <1>8, <1>9, <1>10, <1>11 DEF IInv

\* The answer of /stop forgets it.
LEMMA StopAnsweredStep ==
    ASSUME IInv, StopAnswered
    PROVE  IInv'
<1>1. stop.pc = "over" /\ stop.victims = {} /\ stop' = NoStop /\ UNCHANGED <<agent, execs, closing, cut>>
    BY DEF StopAnswered, tasks
<1>2. /\ NoStop.pc = "none" /\ NoStop.victims = {} /\ NoStop.doomed = {}
      /\ NoStop \in CommandRecord
    BY DEF NoStop, CommandRecord
<1>3. Types' /\ Spawning' /\ Agency'
    BY <1>1, <1>2, NothingReaped, CommandStep DEF IInv, Types, Spawning, execs
<1>4. Listed' /\ Returned' /\ Phases' /\ Closed' /\ Doomed'
    BY <1>1, <1>2 DEF IInv, Listed, Returned, Phases, Closed, Doomed, Alive, Manager, execs
<1>5. Located'
    BY <1>1, <1>2 DEF IInv, Located, Alive, Manager, execs
<1> QED  BY <1>3, <1>4, <1>5 DEF IInv

\* A gather of kills that is cancelled: what it has not killed is on record.
LEMMA CutFacts ==
    ASSUME IInv, NEW victims, NEW left, CutKills(victims, left)
    PROVE  /\ Reaped(victims \ left)
           /\ left \subseteq victims
           /\ spared' = spared \cup left
BY KillReaps DEF CutKills, IInv, Types

\* The shutdown begins, and forgets a /stop that it cuts short.
LEMMA CloseStart ==
    ASSUME IInv, Close
    PROVE  IInv'
<1> DEFINE cl == [NoStop EXCEPT !.pc = "drain"]
           victims == IF stop.pc = "processes" THEN stop.victims ELSE {}
<1>1. /\ closing.pc = "none" /\ closing' = cl /\ stop' = NoStop
      /\ UNCHANGED <<agent, table, lock, call, closed, skipped>>
    BY DEF Close, tasks
<1>2. PICK left : CutKills(victims, left)
    BY DEF Close
<1>3. /\ Reaped(victims \ left) /\ left \subseteq victims /\ spared' = spared \cup left
    <2> HIDE DEF victims
    <2> QED  BY <1>2, CutFacts
<1>4. /\ cl.pc = "drain" /\ cl.victims = {} /\ cl.doomed = {}
      /\ NoStop.pc = "none" /\ NoStop.victims = {} /\ NoStop.doomed = {}
      /\ NoStop \in CommandRecord /\ cl \in CommandRecord
    BY DEF NoStop, CommandRecord
<1>5. closing.doomed = {} /\ closing.victims = {}
    BY <1>1 DEF IInv, Phases
<1>6. victims \subseteq stop.victims /\ stop.victims \subseteq Processes
    BY DEF IInv, Types, CommandRecord
<1>7. \A p \in stop.victims \ victims : Alive(p) => p \in table["subagents"]
    BY DEF IInv, Phases, Returned
<1> HIDE DEF cl, victims
<1>8. Types' /\ Spawning' /\ Agency'
    <2>1. \A y \in Actors : call[y].pc = "spawn" => Manager(y) \notin closed'
        BY <1>1 DEF IInv, Spawning
    <2>2. /\ stop' \in CommandRecord /\ closing' \in CommandRecord /\ closed' \subseteq Managers
          /\ table' \in [Managers -> SUBSET Processes]
        BY <1>1, <1>4 DEF IInv, Types
    <2> QED  BY <1>1, <1>3, <2>1, <2>2, CommandStep
<1>9. Listed'
    <2>1. ASSUME NEW n \in Managers, NEW p \in table[n]
          PROVE  process'[p].state # "none" /\ Manager(process'[p].by) = n
        <3>1. p \in Processes /\ process[p].state # "none" /\ Manager(process[p].by) = n
            BY DEF IInv, Types, Listed
        <3> QED  BY <1>3, <3>1 DEF Reaped
    <2> QED  BY <1>1, <1>4, <2>1 DEF Listed, Manager
<1>10. Located'
    <2> SUFFICES ASSUME NEW p \in Processes, process'[p].state = "alive"
                 PROVE  p \in table[Manager(process'[p].by)] \cup spared'
        BY <1>1 DEF Located, Alive, Manager
    <2>1. /\ Alive(p) /\ process'[p].by = process[p].by /\ p \notin victims \ left
        BY <1>3 DEF Reaped, Alive
    <2>2. p \in table[Manager(process[p].by)] \cup stop.victims \cup spared
        BY <1>5, <2>1 DEF IInv, Located
    <2>3. CASE p \in stop.victims
        <3>1. Manager(process[p].by) = "subagents"
            BY <2>3 DEF IInv, Listed
        <3> QED  BY <1>3, <1>7, <2>1, <2>3, <3>1
    <2> QED  BY <1>3, <2>1, <2>2, <2>3
<1>11. Phases' /\ Returned' /\ Doomed'
    BY <1>1, <1>4 DEF Phases, Returned, Doomed
<1>12. Closed'
    BY <1>1, <1>3, <1>4, <1>5 DEF IInv, Closed, Alive, Reaped, Manager
<1> QED  BY <1>8, <1>9, <1>10, <1>11, <1>12 DEF IInv

\* The shutdown goes on without touching a process: it cancels subagents, or is
\* cancelled and skips what is next.
LEMMA CloseTurns ==
    ASSUME IInv, NEW pc, NEW skips, closing.pc \in {"drain", "agents", "main"},
           closing'.pc = pc, closing'.victims = {}, closing'.doomed = closing.doomed,
           closing' \in CommandRecord,
           skipped' = skipped \cup skips,
           \/ pc = "agents" /\ closing.pc = "drain"
           \/ pc = "main" /\ "subagents" \in skips
           \/ pc = "over" /\ (skips = Managers \/ (closing.pc = "main" /\ "agent" \in skips)),
           UNCHANGED <<agent, execs, stop, spared>>
    PROVE  IInv'
<1>1. closing.victims = {} /\ stop.pc = "none"
    BY DEF IInv, Phases
<1>2. Types' /\ Spawning' /\ Agency'
    BY NothingReaped, CommandStep DEF IInv, Types, Spawning, execs
<1>3. Listed' /\ Located' /\ Returned' /\ Closed' /\ Doomed'
    BY <1>1 DEF IInv, Listed, Located, Returned, Closed, Doomed, Alive, Manager, execs
<1>4. Phases'
    BY <1>1 DEF IInv, Phases, Managers, execs
<1> QED  BY <1>2, <1>3, <1>4 DEF IInv

\* Background tasks are drained, and the subagents that work are cancelled.
LEMMA CloseAgentsStep ==
    ASSUME IInv, CloseAgents
    PROVE  IInv'
<1> DEFINE working == {a \in Agents : agent[a].task = "work"}
           cl == [closing EXCEPT !.pc = "agents", !.cancelled = working]
<1>1. closing.pc = "drain" /\ closing' = cl /\ UNCHANGED <<agent, execs, stop, spared, skipped>>
    BY DEF CloseAgents, tasks
<1>2. /\ cl.pc = "agents" /\ cl.victims = closing.victims /\ cl.doomed = closing.doomed
      /\ cl \in CommandRecord
    BY DEF IInv, Types, CommandRecord
<1>3. closing.victims = {}
    BY <1>1 DEF IInv, Phases
<1> HIDE DEF cl
<1>4. skipped' = skipped \cup {}
    BY <1>1
<1> QED  BY <1>1, <1>2, <1>3, <1>4, CloseTurns

\* A step of close_mcp is skipped.
LEMMA CutShortStep ==
    ASSUME IInv, NEW from, NEW to, NEW skips, CutShort(from, to, skips),
           \/ from = "drain" /\ to = "over" /\ skips = Managers
           \/ from = "agents" /\ to = "main" /\ skips = {"subagents"}
           \/ from = "main" /\ to = "over" /\ skips = {"agent"}
    PROVE  IInv'
<1> DEFINE cl == [closing EXCEPT !.pc = to, !.cancelled = {}]
<1>1. /\ closing.pc = from /\ closing' = cl /\ skipped' = skipped \cup skips
      /\ UNCHANGED <<agent, execs, stop, spared>>
    BY DEF CutShort, tasks
<1>2. /\ cl.pc = to /\ cl.victims = closing.victims /\ cl.doomed = closing.doomed
      /\ cl \in CommandRecord
    BY DEF IInv, Types, CommandRecord
<1>3. closing.victims = {} /\ closing.pc \in {"drain", "agents", "main"}
    BY <1>1 DEF IInv, Phases
<1> HIDE DEF cl
<1> QED  BY <1>1, <1>2, <1>3, CloseTurns

\* The kills of a closed manager are cancelled.
LEMMA CutKillingStep ==
    ASSUME IInv, NEW from, NEW to, NEW left, CutKilling(from, to, left),
           \/ from = "kill subagents" /\ to = "main"
           \/ from = "kill main" /\ to = "over"
    PROVE  IInv'
<1> DEFINE cl == [closing EXCEPT !.pc = to, !.victims = {}]
<1>1. /\ closing.pc = from /\ closing' = cl /\ CutKills(closing.victims, left)
      /\ UNCHANGED <<agent, table, lock, call, closed, stop, skipped>>
    BY DEF CutKilling, tasks
<1>2. /\ Reaped(closing.victims \ left) /\ left \subseteq closing.victims
      /\ spared' = spared \cup left
    BY <1>1, CutFacts
<1>3. /\ cl.pc = to /\ cl.victims = {} /\ cl.doomed = closing.doomed /\ cl \in CommandRecord
    BY DEF IInv, Types, CommandRecord
<1>4. stop.pc = "none" /\ stop.victims = {}
    BY <1>1 DEF IInv, Phases
<1> HIDE DEF cl
<1>5. Types' /\ Spawning' /\ Agency'
    <2>1. \A y \in Actors : call[y].pc = "spawn" => Manager(y) \notin closed'
        BY <1>1 DEF IInv, Spawning
    <2>2. /\ stop' \in CommandRecord /\ closing' \in CommandRecord /\ closed' \subseteq Managers
          /\ table' \in [Managers -> SUBSET Processes]
        BY <1>1, <1>3 DEF IInv, Types
    <2> QED  BY <1>1, <1>2, <2>1, <2>2, CommandStep
<1>6. Listed'
    <2>1. ASSUME NEW n \in Managers, NEW p \in table[n]
          PROVE  process'[p].state # "none" /\ Manager(process'[p].by) = n
        <3>1. p \in Processes /\ process[p].state # "none" /\ Manager(process[p].by) = n
            BY DEF IInv, Types, Listed
        <3> QED  BY <1>2, <3>1 DEF Reaped
    <2> QED  BY <1>1, <1>3, <1>4, <2>1 DEF Listed, Manager
<1>7. Located'
    BY <1>1, <1>2, <1>3, <1>4 DEF IInv, Located, Alive, Reaped, Manager
<1>8. Phases' /\ Returned'
    BY <1>1, <1>3, <1>4 DEF IInv, Phases, Returned
<1>9. Closed'
    BY <1>1, <1>2, <1>3 DEF IInv, Closed, Alive, Reaped, Manager
<1>10. Doomed'
    BY <1>1, <1>2, <1>4 DEF IInv, Doomed, Alive, Reaped
<1> QED  BY <1>5, <1>6, <1>7, <1>8, <1>9, <1>10 DEF IInv

\* A manager is closed: what it lists is taken out to be killed.
LEMMA CloseAllStep ==
    ASSUME IInv, NEW m \in Managers, NEW from, NEW to, CloseAll(m, from, to),
           \/ m = "subagents" /\ from = "agents" /\ to = "kill subagents"
           \/ m = "agent" /\ from = "main" /\ to = "kill main"
    PROVE  IInv'
<1> DEFINE cl == [closing EXCEPT !.pc = to, !.cancelled = {}, !.victims = table[m]]
<1>1. /\ closing.pc = from /\ closing' = cl
      /\ lock[m] = None
      /\ closed' = closed \cup {m}
      /\ table' = [table EXCEPT ![m] = {}]
      /\ UNCHANGED <<agent, process, lock, call, stop, cut>>
    BY DEF CloseAll, tasks, Unlocked
<1>2. /\ cl.pc = to /\ cl.victims = table[m] /\ cl.doomed = closing.doomed
      /\ cl \in CommandRecord
    BY DEF IInv, Types, CommandRecord
<1>3. /\ stop.pc = "none" /\ stop.victims = {} /\ closing.victims = {}
      /\ m = "agent" => "subagents" \in closed \cup skipped
    BY <1>1 DEF IInv, Phases
<1> HIDE DEF cl
<1>4. \A n \in Managers : table'[n] = IF n = m THEN {} ELSE table[n]
    BY <1>1 DEF IInv, Types
<1>5. Types' /\ Spawning' /\ Agency'
    <2>1. ASSUME NEW y \in Actors, call[y].pc = "spawn"
          PROVE  Manager(y) \notin closed'
        <3>1. Manager(y) \notin closed /\ lock[Manager(y)] = y
            BY <2>1 DEF IInv, Spawning
        <3>2. y # None
            BY SubagentAssumption DEF Actors
        <3> QED  BY <1>1, <3>1, <3>2
    <2>2. table' \in [Managers -> SUBSET Processes] /\ closed' \subseteq Managers
        BY <1>1 DEF IInv, Types
    <2>3. Reaped({}) /\ stop' \in CommandRecord /\ closing' \in CommandRecord
        BY <1>1, <1>2, NothingReaped DEF IInv, Types
    <2> QED  BY <1>1, <2>1, <2>2, <2>3, CommandStep
<1>6. Listed'
    <2>1. ASSUME NEW n \in Managers, NEW p \in table'[n]
          PROVE  process[p].state # "none" /\ Manager(process[p].by) = n
        BY <1>4, <2>1 DEF IInv, Listed
    <2>2. \A p \in table[m] : process[p].state # "none" /\ Manager(process[p].by) = m
        BY DEF IInv, Listed
    <2> QED  BY <1>1, <1>2, <1>3, <2>1, <2>2 DEF Listed, Manager
<1>7. Located'
    <2> SUFFICES ASSUME NEW p \in Processes, process[p].state = "alive"
                 PROVE  p \in table'[Manager(process[p].by)] \cup stop'.victims \cup closing'.victims \cup spared'
        BY <1>1 DEF Located, Alive, Manager
    <2>1. p \in table[Manager(process[p].by)] \cup spared
        BY <1>3 DEF IInv, Located, Alive
    <2> QED  BY <1>1, <1>2, <1>4, <2>1, ManagerOf
<1>8. Returned' /\ Doomed'
    BY <1>1, <1>3 DEF IInv, Returned, Doomed, Alive
<1>9. Phases'
    BY <1>1, <1>2, <1>3 DEF IInv, Phases, Types, Managers
<1>10. Closed'
    <2> SUFFICES ASSUME NEW p \in Processes, process[p].state = "alive",
                        Manager(process[p].by) \in closed \cup {m}
                 PROVE  p \in closing.doomed \cup table[m] \cup spared
        BY <1>1, <1>2 DEF Closed, Alive, Manager
    <2>1. CASE Manager(process[p].by) = m
        BY <1>3, <2>1 DEF IInv, Located, Alive
    <2>2. CASE Manager(process[p].by) \in closed
        BY <1>3, <2>2 DEF IInv, Closed, Alive
    <2> QED  BY <2>1, <2>2
<1> QED  BY <1>5, <1>6, <1>7, <1>8, <1>9, <1>10 DEF IInv

\* Its processes are killed.
LEMMA CloseKilledStep ==
    ASSUME IInv, NEW m \in Managers, NEW from, NEW to, NEW failed, CloseKilled(m, from, to, failed),
           \/ m = "subagents" /\ from = "kill subagents" /\ to = "main"
           \/ m = "agent" /\ from = "kill main" /\ to = "over"
    PROVE  IInv'
<1> DEFINE cl == [closing EXCEPT !.pc = to, !.victims = {}, !.doomed = @ \cup failed]
<1>1. /\ closing.pc = from /\ closing' = cl
      /\ Killed(closing.victims, failed, m)
      /\ UNCHANGED <<agent, lock, call, closed, stop, cut>>
    BY DEF CloseKilled, tasks
<1>2. /\ closing.victims \subseteq Processes
      /\ \A p \in closing.victims : process[p].state # "none" /\ Manager(process[p].by) = m
    BY <1>1 DEF IInv, Types, CommandRecord, Listed
<1>3. /\ Reaped(closing.victims \ failed)
      /\ failed \subseteq closing.victims
      /\ table' \in [Managers -> SUBSET Processes]
      /\ \A n \in Managers : table[n] \subseteq table'[n]
      /\ failed \subseteq table'[m]
      /\ \A n \in Managers : \A p \in table'[n] :
             process'[p].state # "none" /\ Manager(process'[p].by) = n
    BY <1>1, <1>2, KilledFacts
<1>4. /\ cl.pc = to /\ cl.victims = {} /\ cl.doomed = closing.doomed \cup failed
      /\ cl \in CommandRecord
    BY <1>2, <1>3 DEF IInv, Types, CommandRecord
<1>5. /\ stop.pc = "none" /\ stop.victims = {}
      /\ m = "subagents" => "subagents" \in closed \cup skipped
      /\ m = "agent" => Managers \subseteq closed \cup skipped
    BY <1>1 DEF IInv, Phases
<1> HIDE DEF cl
<1>6. Types' /\ Spawning' /\ Agency'
    <2>1. \A y \in Actors : call[y].pc = "spawn" => Manager(y) \notin closed'
        BY <1>1 DEF IInv, Spawning
    <2>2. stop' \in CommandRecord /\ closing' \in CommandRecord /\ closed' \subseteq Managers
        BY <1>1, <1>4 DEF IInv, Types
    <2> QED  BY <1>1, <1>3, <2>1, <2>2, CommandStep
<1>7. Listed'
    BY <1>1, <1>3, <1>4, <1>5 DEF Listed, Manager
<1>8. Located'
    <2> SUFFICES ASSUME NEW p \in Processes, process'[p].state = "alive"
                 PROVE  p \in table'[Manager(process'[p].by)] \cup stop'.victims \cup closing'.victims \cup spared'
        BY DEF Located, Alive, Manager
    <2>1. /\ process[p].state = "alive" /\ process'[p].by = process[p].by
          /\ p \notin closing.victims \ failed
        BY <1>3 DEF Reaped
    <2>2. p \in table[Manager(process[p].by)] \cup stop.victims \cup closing.victims \cup spared
        BY <2>1 DEF IInv, Located, Alive
    <2>3. CASE p \in closing.victims
        BY <1>2, <1>3, <2>1, <2>3
    <2>4. CASE p \notin closing.victims
        BY <1>1, <1>3, <1>5, <2>1, <2>2, <2>4, ManagerOf
    <2> QED  BY <2>3, <2>4
<1>9. Returned' /\ Phases'
    BY <1>1, <1>4, <1>5 DEF IInv, Returned, Phases
<1>10. Closed'
    <2> SUFFICES ASSUME NEW p \in Processes, process'[p].state = "alive",
                        Manager(process[p].by) \in closed
                 PROVE  p \in closing.doomed \cup failed \cup spared
        BY <1>1, <1>3, <1>4 DEF Closed, Alive, Manager, Reaped
    <2> QED  BY <1>3 DEF IInv, Closed, Alive, Reaped
<1>11. Doomed'
    BY <1>1, <1>3, <1>5 DEF IInv, Doomed, Alive, Reaped
<1> QED  BY <1>6, <1>7, <1>8, <1>9, <1>10, <1>11 DEF IInv

----------------------------------------------------------------------------
(* The theorems.                                                             *)

\* The invariant holds before anything has been started.
LEMMA InitIInv == Init => IInv
<1> SUFFICES ASSUME Init PROVE IInv
    OBVIOUS
<1>1. NoStop \in CommandRecord /\ NoStop.pc = "none" /\ NoStop.victims = {} /\ NoStop.doomed = {}
    BY DEF NoStop, CommandRecord
<1>2. NoAgent \in AgentRecord /\ NoAgent.task = "none"
    BY DEF NoAgent, AgentRecord
<1>3. NoProcess \in ProcessRecord /\ NoProcess.state = "none" /\ NoProcess.by = None
    BY DEF NoProcess, ProcessRecord
<1>4. NoCall \in CallRecord /\ NoCall.pc = "none"
    BY DEF NoCall, CallRecord
<1>5. /\ agent = [a \in Agents |-> NoAgent]
      /\ stop = NoStop /\ closing = NoStop
      /\ process = [p \in Processes |-> NoProcess]
      /\ table = [m \in Managers |-> {}]
      /\ lock = [m \in Managers |-> None]
      /\ call = [x \in Actors |-> NoCall]
      /\ closed = {} /\ spared = {} /\ skipped = {}
    BY DEF Init
<1>6. Types
    BY <1>1, <1>2, <1>3, <1>4, <1>5 DEF Types
<1>7. Listed /\ Located /\ Closed /\ Spawning
    <2>1. Listed
        BY <1>1, <1>5 DEF Listed
    <2>2. \A p \in Processes : process[p].state = "none"
        BY <1>3, <1>5
    <2>3. Located /\ Closed
        BY <2>2 DEF Located, Closed, Alive
    <2>4. Spawning
        BY <1>4, <1>5 DEF Spawning
    <2> QED  BY <2>1, <2>3, <2>4
<1>8. Agency
    BY <1>2, <1>3, <1>4, <1>5, SubagentAssumption DEF Agency, Actors
<1>9. Returned /\ Phases /\ Doomed
    BY <1>1, <1>3, <1>5 DEF Returned, Phases, Doomed
<1> QED  BY <1>6, <1>7, <1>8, <1>9 DEF IInv

\* Every step keeps it.
LEMMA IInvStep == IInv /\ [Next]_vars => IInv'
<1> SUFFICES ASSUME IInv, [Next]_vars PROVE IInv'
    OBVIOUS
<1>1. CASE \E s \in Sessions : StartTurn(s) \/ Drain(s) \/ Wake(s) \/ EndTurn(s)
    BY <1>1, TurnSteps
<1>2. CASE \E s \in Sessions : Stop(s)
    BY <1>2, StopStep
<1>3. CASE Route
    <2>1. UNCHANGED <<agent, execs, stop, closing, cut>>
        BY <1>3 DEF Route
    <2> QED  BY <2>1, AgentStep DEF IInv, Types, Agency
<1>4. CASE \E s \in Sessions, a \in Agents, i \in BOOLEAN : Spawn(s, a, i)
    BY <1>4, SpawnStep
<1>5. CASE \E a \in Agents : Finish(a) \/ CleanUp(a)
    BY <1>5, EndSteps
<1>6. CASE \E a \in Agents : CancelledEnds(a)
    BY <1>6, CancelledStep
<1>7. CASE \E x \in Actors : List(x)
    BY <1>7, ListStep
<1>8. CASE \E x \in Actors : Exec(x)
    BY <1>8, ExecStep
<1>9. CASE \E x \in Actors : Spawned(x)
    BY <1>9, SpawnedStep
<1>10. CASE \E x \in Actors, p \in Processes, t \in BOOLEAN : Write(x, p, t)
    BY <1>10, WriteStep
<1>11. CASE \E x \in Actors, late \in BOOLEAN : Polled(x, late)
    BY <1>11, PolledStep
<1>12. CASE \E p \in Processes : Exits(p)
    BY <1>12, ExitStep
<1>13. CASE StopProcesses
    BY <1>13, StopProcessesStep
<1>14. CASE \E f \in SUBSET Processes : StopEnds(f)
    BY <1>14, StopEndsStep
<1>15. CASE StopAnswered
    BY <1>15, StopAnsweredStep
<1>16. CASE Close
    BY <1>16, CloseStart
<1>17. CASE CloseStep
    <2>1. CASE CloseAll("subagents", "agents", "kill subagents")
        BY <2>1, ManagerOf, CloseAllStep
    <2>2. CASE \E f \in SUBSET Processes : CloseKilled("subagents", "kill subagents", "main", f)
        BY <2>2, ManagerOf, CloseKilledStep
    <2>3. CASE CloseAll("agent", "main", "kill main")
        BY <2>3, ManagerOf, CloseAllStep
    <2>4. CASE \E f \in SUBSET Processes : CloseKilled("agent", "kill main", "over", f)
        BY <2>4, ManagerOf, CloseKilledStep
    <2> QED  BY <1>17, <2>1, <2>2, <2>3, <2>4, CloseAgentsStep DEF CloseStep
<1>18. CASE CloseCut
    <2>1. CASE CutShort("drain", "over", Managers)
        BY <2>1, CutShortStep
    <2>2. CASE CutShort("agents", "main", {"subagents"})
        BY <2>2, CutShortStep
    <2>3. CASE CutShort("main", "over", {"agent"})
        BY <2>3, CutShortStep
    <2>4. CASE \E f \in SUBSET Processes : CutKilling("kill subagents", "main", f)
        BY <2>4, CutKillingStep
    <2>5. CASE \E f \in SUBSET Processes : CutKilling("kill main", "over", f)
        BY <2>5, CutKillingStep
    <2> QED  BY <1>18, <2>1, <2>2, <2>3, <2>4, <2>5 DEF CloseCut
<1>19. CASE UNCHANGED vars
    BY <1>19, AgentStep DEF IInv, Types, Agency, vars, tasks
<1> QED  BY <1>1, <1>2, <1>3, <1>4, <1>5, <1>6, <1>7, <1>8, <1>9, <1>10, <1>11, <1>12, <1>13,
            <1>14, <1>15, <1>16, <1>17, <1>18, <1>19 DEF Next

\* The inductive invariant always holds.
THEOREM Invariant == Spec => []IInv
BY InitIInv, IInvStep, PTL DEF Spec

\* No process runs that neither a table nor a command can find, and after the
\* shutdown none that it could have killed, but for those that a cancellation has lost:
\* of kills that had not begun, and of the managers whose close_all it has skipped.
THEOREM Findable == Spec => []NoOrphans
<1>1. IInv => NoOrphans
    <2> SUFFICES ASSUME IInv, NEW p \in Processes, Alive(p)
                 PROVE  /\ p \in table[Manager(process[p].by)] \cup stop.victims \cup closing.victims \cup spared
                        /\ closing.pc = "over" =>
                               p \in closing.doomed \cup spared \/ Manager(process[p].by) \in skipped
        BY DEF NoOrphans
    <2>1. closing.pc = "over" => Managers \subseteq closed \cup skipped /\ closing.victims = {}
        BY DEF IInv, Phases
    <2> QED  BY <2>1, ManagerOf DEF IInv, Located, Closed
<1> QED  BY <1>1, Invariant, PTL

\* When /stop is answered, the subagents it was about have ended, and nothing they
\* have started runs but what could not be killed.
THEOREM Stopped == Spec => []StopStops
<1>1. IInv => StopStops
    BY DEF IInv, Doomed, StopStops
<1> QED  BY <1>1, Invariant, PTL

----------------------------------------------------------------------------
(* Queues, their elements and repetitions.                                   *)

\* Elements belong to the set the queue ranges over.
LEMMA ElemsType ==
    ASSUME NEW S, NEW seq \in Seq(S)
    PROVE  Elems(seq) \subseteq S
BY DEF Elems

\* The empty queue.
LEMMA EmptyElems == Elems(<<>>) = {} /\ Distinct(<<>>)
BY DEF Elems, Distinct

\* Appending adds one element, and no repetition if it is new.
LEMMA AppendElems ==
    ASSUME NEW S, NEW seq \in Seq(S), NEW x \in S
    PROVE  /\ Elems(Append(seq, x)) = Elems(seq) \cup {x}
           /\ Distinct(seq) /\ x \notin Elems(seq) => Distinct(Append(seq, x))
<1> DEFINE new == Append(seq, x)
<1>1. /\ Len(new) = Len(seq) + 1
      /\ \A i \in 1..Len(seq) : new[i] = seq[i]
      /\ new[Len(seq) + 1] = x
  OBVIOUS
<1> HIDE DEF new
<1>2. Elems(new) = Elems(seq) \cup {x}
  <2>1. ASSUME NEW y \in Elems(new) PROVE y \in Elems(seq) \cup {x}
    BY <1>1, <2>1 DEF Elems
  <2>2. ASSUME NEW y \in Elems(seq) PROVE y \in Elems(new)
    <3>1. PICK i \in 1..Len(seq) : y = seq[i]
      BY <2>2 DEF Elems
    <3>2. i \in 1..Len(new) /\ new[i] = y
      BY <3>1, <1>1
    <3> QED BY <3>2 DEF Elems
  <2>3. x \in Elems(new)
    BY <1>1 DEF Elems
  <2> QED BY <2>1, <2>2, <2>3
<1>3. ASSUME Distinct(seq), x \notin Elems(seq) PROVE Distinct(new)
  BY <1>1, <1>3 DEF Distinct, Elems
<1> QED BY <1>2, <1>3 DEF new

\* Concatenating disjoint queues adds no repetition.
LEMMA ConcatElems ==
    ASSUME NEW S, NEW p \in Seq(S), NEW q \in Seq(S)
    PROVE  /\ Elems(p \o q) = Elems(p) \cup Elems(q)
           /\ Distinct(p) /\ Distinct(q) /\ Elems(p) \cap Elems(q) = {}
                => Distinct(p \o q)
<1> DEFINE new == p \o q
<1>1. /\ Len(new) = Len(p) + Len(q)
      /\ \A i \in 1..Len(p) : new[i] = p[i]
      /\ \A i \in 1..Len(q) : new[Len(p) + i] = q[i]
      /\ Len(p) \in Nat /\ Len(q) \in Nat
  OBVIOUS
<1>0. \A i \in 1..Len(new) : \/ i \in 1..Len(p) /\ new[i] = p[i]
                             \/ i - Len(p) \in 1..Len(q) /\ new[i] = q[i - Len(p)]
  <2> TAKE i \in 1..Len(new)
  <2>1. CASE i <= Len(p)
    BY <1>1, <2>1
  <2>2. CASE i > Len(p)
    <3>1. i - Len(p) \in 1..Len(q) /\ i = Len(p) + (i - Len(p))
      BY <1>1, <2>2
    <3> QED BY <3>1, <1>1
  <2> QED BY <2>1, <2>2, <1>1
<1> HIDE DEF new
<1>2. Elems(new) = Elems(p) \cup Elems(q)
  <2>1. ASSUME NEW y \in Elems(new) PROVE y \in Elems(p) \cup Elems(q)
    BY <1>0, <2>1 DEF Elems
  <2>2. ASSUME NEW y \in Elems(p) PROVE y \in Elems(new)
    <3>1. PICK i \in 1..Len(p) : y = p[i]
      BY <2>2 DEF Elems
    <3>2. i \in 1..Len(new) /\ new[i] = y
      BY <3>1, <1>1
    <3> QED BY <3>2 DEF Elems
  <2>3. ASSUME NEW y \in Elems(q) PROVE y \in Elems(new)
    <3>1. PICK i \in 1..Len(q) : y = q[i]
      BY <2>3 DEF Elems
    <3>2. Len(p) + i \in 1..Len(new) /\ new[Len(p) + i] = y
      BY <3>1, <1>1
    <3> QED BY <3>2 DEF Elems
  <2> QED BY <2>1, <2>2, <2>3
<1>3. ASSUME Distinct(p), Distinct(q), Elems(p) \cap Elems(q) = {} PROVE Distinct(new)
  <2> SUFFICES ASSUME NEW i \in 1..Len(new), NEW j \in 1..Len(new), new[i] = new[j]
               PROVE  i = j
    BY DEF Distinct
  <2>1. CASE i \in 1..Len(p) /\ new[i] = p[i] /\ j \in 1..Len(p) /\ new[j] = p[j]
    BY <2>1, <1>3 DEF Distinct
  <2>2. CASE /\ i - Len(p) \in 1..Len(q) /\ new[i] = q[i - Len(p)]
             /\ j - Len(p) \in 1..Len(q) /\ new[j] = q[j - Len(p)]
    <3>1. i - Len(p) = j - Len(p)
      BY <2>2, <1>3 DEF Distinct
    <3> QED BY <3>1, <1>1
  <2>3. CASE /\ i \in 1..Len(p) /\ new[i] = p[i]
             /\ j - Len(p) \in 1..Len(q) /\ new[j] = q[j - Len(p)]
    BY <2>3, <1>3 DEF Elems
  <2>4. CASE /\ j \in 1..Len(p) /\ new[j] = p[j]
             /\ i - Len(p) \in 1..Len(q) /\ new[i] = q[i - Len(p)]
    BY <2>4, <1>3 DEF Elems
  <2> QED BY <2>1, <2>2, <2>3, <2>4, <1>0
<1> QED BY <1>2, <1>3 DEF new

\* The head leaves a queue without repetitions.
LEMMA TailElems ==
    ASSUME NEW S, NEW seq \in Seq(S), seq # <<>>, Distinct(seq)
    PROVE  /\ Tail(seq) \in Seq(S)
           /\ Head(seq) \in Elems(seq)
           /\ Elems(Tail(seq)) = Elems(seq) \ {Head(seq)}
           /\ Distinct(Tail(seq))
<1> DEFINE new == Tail(seq)
<1>1. /\ new \in Seq(S) /\ Head(seq) = seq[1] /\ 1 \in 1..Len(seq)
      /\ Len(new) = Len(seq) - 1 /\ Len(seq) \in Nat
      /\ \A i \in 1..Len(new) : new[i] = seq[i + 1]
  OBVIOUS
<1> HIDE DEF new
<1>2. \A i \in 1..Len(new) : i + 1 \in 1..Len(seq) /\ i + 1 # 1
  BY <1>1
<1>3. \A i \in 1..Len(seq) : i = 1 \/ (i - 1 \in 1..Len(new) /\ new[i - 1] = seq[i])
  BY <1>1
<1>4. Elems(new) = Elems(seq) \ {seq[1]}
  <2>1. ASSUME NEW i \in 1..Len(new) PROVE new[i] \in Elems(seq) \ {seq[1]}
    BY <1>1, <1>2 DEF Distinct, Elems
  <2>2. ASSUME NEW i \in 1..Len(seq), seq[i] # seq[1] PROVE seq[i] \in Elems(new)
    BY <1>3, <2>2 DEF Elems
  <2> QED BY <2>1, <2>2 DEF Elems
<1>5. Distinct(new)
  <2> SUFFICES ASSUME NEW i \in 1..Len(new), NEW j \in 1..Len(new), new[i] = new[j] PROVE i = j
    BY DEF Distinct
  <2>1. i + 1 = j + 1
    BY <1>1, <1>2 DEF Distinct
  <2> QED BY <2>1
<1> QED BY <1>1, <1>4, <1>5 DEF new, Elems

----------------------------------------------------------------------------
(* Where results are.                                                        *)

\* A subagent that has announced its result, or is inline and has returned it.
Announced(a) == agent[a].task \in {"done", "gone"} /\ ~agent[a].inline

ResultTypes ==
    /\ inbox \in [Sessions -> Seq(Agents)]
    /\ bus \in Seq(Agents)
    /\ answered \subseteq Agents \X Sessions
    /\ \A a \in Agents : agent[a].task # "none" => agent[a].session \in Sessions

\* No queue holds a result twice.
Once == Distinct(bus) /\ \A s \in Sessions : Distinct(inbox[s])

\* A result is in one place only, and in the session of its subagent.
Apart ==
    /\ \A a \in Elems(bus) :
           /\ Announced(a)
           /\ \A s \in Sessions : a \notin Elems(inbox[s]) /\ <<a, s>> \notin answered
    /\ \A s \in Sessions : \A a \in Elems(inbox[s]) :
           Announced(a) /\ agent[a].session = s /\ <<a, s>> \notin answered
    /\ \A a \in Agents, s \in Sessions :
           <<a, s>> \in answered => Announced(a) /\ agent[a].session = s

\* Every result announced is somewhere.
Somewhere ==
    \A a \in Agents : Announced(a) =>
        a \in Elems(bus) \cup Elems(inbox[agent[a].session]) \/ <<a, agent[a].session>> \in answered

RInv == ResultTypes /\ Once /\ Apart /\ Somewhere

\* What a step leaves of the subagents that have announced something.
AgentsKeep ==
    \A a \in Agents :
        /\ Announced(a)' <=> Announced(a)
        /\ Announced(a) => agent'[a].session = agent[a].session
        /\ agent'[a].task # "none" => agent'[a].session \in Sessions

\* The elements of the queues are subagents.
LEMMA QueuedAgents ==
    ASSUME ResultTypes
    PROVE  /\ Elems(bus) \subseteq Agents
           /\ \A s \in Sessions : Elems(inbox[s]) \subseteq Agents
BY ElemsType DEF ResultTypes

\* One that has announced something works for a session.
LEMMA HasSession ==
    ASSUME ResultTypes, NEW a \in Agents, Announced(a)
    PROVE  agent[a].session \in Sessions
BY DEF ResultTypes, Announced

\* A step that moves no result.
LEMMA NothingMoves ==
    ASSUME RInv, AgentsKeep, UNCHANGED <<inbox, bus, answered>>
    PROVE  RInv'
<1>1. ResultTypes'
    BY DEF RInv, ResultTypes, AgentsKeep
<1>2. Once'
    BY DEF RInv, Once
<1>3. Apart'
    <2>1. \A a \in Elems(bus) : a \in Agents
        BY QueuedAgents DEF RInv
    <2>2. \A s \in Sessions : \A a \in Elems(inbox[s]) : a \in Agents
        BY QueuedAgents DEF RInv
    <2> QED  BY <2>1, <2>2 DEF RInv, Apart, AgentsKeep
<1>4. Somewhere'
    BY DEF RInv, Somewhere, AgentsKeep
<1> QED  BY <1>1, <1>2, <1>3, <1>4 DEF RInv

\* What a session has queued goes into its turn.
LEMMA TakeMoves ==
    ASSUME RInv, NEW s \in Sessions, Take(s), UNCHANGED <<bus, agent>>
    PROVE  RInv'
<1> USE DEF RInv
<1>1. inbox' = [inbox EXCEPT ![s] = <<>>]
    BY DEF Take
<1>2. \A a, t : <<a, t>> \in answered' <=> <<a, t>> \in answered \/ (t = s /\ a \in Elems(inbox[s]))
    <2>1. ToSet(inbox[s]) = Elems(inbox[s])
        BY DEF ToSet, Elems, ResultTypes
    <2>2. answered' = answered \cup {<<a, s>> : a \in Elems(inbox[s])}
        BY <2>1 DEF Take
    <2> QED  BY <2>2
<1>3. Elems(inbox[s]) \subseteq Agents /\ Elems(bus) \subseteq Agents
    BY QueuedAgents
<1>4. /\ inbox' \in [Sessions -> Seq(Agents)]
      /\ inbox'[s] = <<>>
      /\ \A t \in Sessions : t # s => inbox'[t] = inbox[t]
    BY <1>1 DEF ResultTypes
<1>5. Elems(inbox'[s]) = {} /\ Distinct(inbox'[s])
    BY <1>4, EmptyElems
<1>6. answered' \subseteq Agents \X Sessions
    <2>1. ToSet(inbox[s]) = Elems(inbox[s])
        BY DEF ToSet, Elems, ResultTypes
    <2>2. {<<a, s>> : a \in Elems(inbox[s])} \subseteq Agents \X Sessions
        BY <1>3
    <2> QED  BY <2>1, <2>2 DEF Take, ResultTypes
<1>7. ResultTypes'
    BY <1>4, <1>6 DEF ResultTypes
<1>8. Once'
    BY <1>4, <1>5 DEF Once
<1>9. Apart'
    <2>1. ASSUME NEW a \in Elems(bus), NEW t \in Sessions
          PROVE  Announced(a) /\ a \notin Elems(inbox'[t]) /\ <<a, t>> \notin answered'
        BY <1>2, <1>4, <1>5 DEF Apart
    <2>2. ASSUME NEW t \in Sessions, NEW a \in Elems(inbox'[t])
          PROVE  Announced(a) /\ agent[a].session = t /\ <<a, t>> \notin answered'
        BY <1>2, <1>4, <1>5 DEF Apart
    <2>3. ASSUME NEW a \in Agents, NEW t \in Sessions, <<a, t>> \in answered'
          PROVE  Announced(a) /\ agent[a].session = t
        BY <1>2, <2>3 DEF Apart
    <2>4. \A a : Announced(a)' <=> Announced(a)
        BY DEF Announced
    <2>5. \A a \in Elems(bus) : Announced(a)
        BY DEF Apart
    <2> QED  BY <2>1, <2>2, <2>3, <2>4, <2>5 DEF Apart
<1>10. Somewhere'
    <2> SUFFICES ASSUME NEW a \in Agents, Announced(a)
                 PROVE  a \in Elems(bus) \cup Elems(inbox'[agent[a].session])
                        \/ <<a, agent[a].session>> \in answered'
        BY DEF Somewhere, Announced
    <2>1. a \in Elems(bus) \cup Elems(inbox[agent[a].session]) \/ <<a, agent[a].session>> \in answered
        BY DEF Somewhere
    <2> QED  BY <2>1, <1>2, <1>4, HasSession
<1> QED  BY <1>7, <1>8, <1>9, <1>10

\* What an ended turn has not read is published again.
LEMMA LeaveMoves ==
    ASSUME RInv, NEW s \in Sessions, Leave(s), AgentsKeep, UNCHANGED answered
    PROVE  RInv'
<1> USE DEF RInv
<1>1. inbox' = [inbox EXCEPT ![s] = <<>>] /\ bus' = bus \o inbox[s]
    BY DEF Leave
<1>2. /\ inbox' \in [Sessions -> Seq(Agents)]
      /\ inbox'[s] = <<>>
      /\ \A t \in Sessions : t # s => inbox'[t] = inbox[t]
    BY <1>1 DEF ResultTypes
<1>3. Elems(inbox'[s]) = {} /\ Distinct(inbox'[s])
    BY <1>2, EmptyElems
<1>4. bus \in Seq(Agents) /\ inbox[s] \in Seq(Agents)
    BY DEF ResultTypes
<1>5. /\ bus' \in Seq(Agents)
      /\ Elems(bus') = Elems(bus) \cup Elems(inbox[s])
      /\ Distinct(bus')
    <2>1. Elems(bus) \cap Elems(inbox[s]) = {}
        BY DEF Apart
    <2>2. Distinct(bus) /\ Distinct(inbox[s])
        BY DEF Once
    <2>3. bus' \in Seq(Agents)
        BY <1>1, <1>4
    <2> QED  BY <1>1, <1>4, <2>1, <2>2, <2>3, ConcatElems
<1>6. Elems(inbox[s]) \subseteq Agents /\ Elems(bus) \subseteq Agents
      /\ \A t \in Sessions : Elems(inbox[t]) \subseteq Agents
    BY QueuedAgents
<1>7. ResultTypes'
    BY <1>2, <1>5 DEF ResultTypes, AgentsKeep
<1>8. Once'
    BY <1>2, <1>3, <1>5 DEF Once
<1>9. Apart'
    <2>1. ASSUME NEW a \in Elems(bus')
          PROVE  a \in Agents /\ Announced(a)
        BY <1>5, <1>6 DEF Apart
    <2>2. ASSUME NEW a \in Elems(bus'), NEW t \in Sessions
          PROVE  a \notin Elems(inbox'[t]) /\ <<a, t>> \notin answered
        <3>1. CASE a \in Elems(bus)
            BY <3>1, <1>2, <1>3 DEF Apart
        <3>2. CASE a \in Elems(inbox[s])
            <4>1. a \in Agents /\ agent[a].session = s /\ <<a, s>> \notin answered
                BY <3>2, <1>6 DEF Apart
            <4>2. t # s => a \notin Elems(inbox[t]) /\ <<a, t>> \notin answered
                BY <4>1 DEF Apart
            <4> QED  BY <4>1, <4>2, <1>2, <1>3
        <3> QED  BY <3>1, <3>2, <1>5
    <2>3. ASSUME NEW t \in Sessions, NEW a \in Elems(inbox'[t])
          PROVE  a \in Agents /\ Announced(a) /\ agent[a].session = t /\ <<a, t>> \notin answered
        BY <1>2, <1>3, <1>6 DEF Apart
    <2>4. ASSUME NEW a \in Agents, NEW t \in Sessions, <<a, t>> \in answered
          PROVE  Announced(a) /\ agent[a].session = t
        BY <2>4 DEF Apart
    <2> QED  BY <2>1, <2>2, <2>3, <2>4 DEF Apart, AgentsKeep
<1>10. Somewhere'
    <2> SUFFICES ASSUME NEW a \in Agents, Announced(a)
                 PROVE  a \in Elems(bus') \cup Elems(inbox'[agent[a].session])
                        \/ <<a, agent[a].session>> \in answered
        BY DEF Somewhere, AgentsKeep
    <2>1. a \in Elems(bus) \cup Elems(inbox[agent[a].session]) \/ <<a, agent[a].session>> \in answered
        BY DEF Somewhere
    <2> QED  BY <2>1, <1>2, <1>5, HasSession
<1> QED  BY <1>7, <1>8, <1>9, <1>10

\* Route takes the first result off the bus, into the queue of its session or its turn.
LEMMA RouteMoves ==
    ASSUME RInv, Route
    PROVE  RInv'
<1> USE DEF RInv
<1> DEFINE b == Head(bus)
           s == agent[b].session
<1>1. bus # <<>> /\ bus' = Tail(bus) /\ UNCHANGED agent
    BY DEF Route
<1>2. /\ bus' \in Seq(Agents)
      /\ b \in Elems(bus)
      /\ Elems(bus') = Elems(bus) \ {b}
      /\ Distinct(bus')
    BY <1>1, TailElems DEF ResultTypes, Once
<1>3. b \in Agents /\ Announced(b) /\ s \in Sessions
    BY <1>2, QueuedAgents, HasSession DEF Apart
<1>4. \/ /\ inbox' = [inbox EXCEPT ![s] = Append(@, b)]
         /\ answered' = answered
      \/ /\ inbox' = inbox
         /\ answered' = answered \cup {<<b, s>>}
    BY DEF Route
<1>5. \A t \in Sessions : b \notin Elems(inbox[t]) /\ <<b, t>> \notin answered
    BY <1>2 DEF Apart
<1>6. \A a : Announced(a)' <=> Announced(a)
    BY <1>1 DEF Announced
<1> HIDE DEF b, s
<1>7. CASE inbox' = [inbox EXCEPT ![s] = Append(@, b)] /\ answered' = answered
    <2>1. /\ inbox' \in [Sessions -> Seq(Agents)]
          /\ inbox'[s] = Append(inbox[s], b)
          /\ \A t \in Sessions : t # s => inbox'[t] = inbox[t]
        BY <1>7, <1>3 DEF ResultTypes
    <2>2. Elems(inbox'[s]) = Elems(inbox[s]) \cup {b} /\ Distinct(inbox'[s])
        <3>1. inbox[s] \in Seq(Agents) /\ Distinct(inbox[s]) /\ b \notin Elems(inbox[s])
            BY <1>3, <1>5 DEF ResultTypes, Once
        <3> QED  BY <3>1, <2>1, <1>3, AppendElems
    <2>3. ResultTypes'
        BY <2>1, <1>2, <1>1, <1>7 DEF ResultTypes
    <2>4. Once'
        BY <2>1, <2>2, <1>2 DEF Once
    <2>5. \A t \in Sessions : Elems(inbox'[t]) = IF t = s THEN Elems(inbox[s]) \cup {b} ELSE Elems(inbox[t])
        BY <2>1, <2>2
    <2>6. Apart'
        <3>1. ASSUME NEW a \in Elems(bus'), NEW t \in Sessions
              PROVE  Announced(a) /\ a \notin Elems(inbox'[t]) /\ <<a, t>> \notin answered
            BY <2>5, <1>2, <1>3 DEF Apart
        <3>2. ASSUME NEW t \in Sessions, NEW a \in Elems(inbox'[t])
              PROVE  Announced(a) /\ agent[a].session = t /\ <<a, t>> \notin answered
            <4>1. CASE a = b
                BY <4>1, <2>5, <1>3, <1>5 DEF s
            <4>2. CASE a # b
                BY <4>2, <2>5 DEF Apart
            <4> QED  BY <4>1, <4>2
        <3>3. ASSUME NEW a \in Agents, NEW t \in Sessions, <<a, t>> \in answered
              PROVE  Announced(a) /\ agent[a].session = t
            BY <3>3 DEF Apart
        <3>4. \A a \in Elems(bus') : Announced(a)
            BY <1>2 DEF Apart
        <3> QED  BY <3>1, <3>2, <3>3, <3>4, <1>1, <1>6, <1>7 DEF Apart
    <2>7. Somewhere'
        <3> SUFFICES ASSUME NEW a \in Agents, Announced(a)
                     PROVE  a \in Elems(bus') \cup Elems(inbox'[agent[a].session])
                            \/ <<a, agent[a].session>> \in answered
            BY <1>1, <1>6, <1>7 DEF Somewhere
        <3>1. a \in Elems(bus) \cup Elems(inbox[agent[a].session]) \/ <<a, agent[a].session>> \in answered
            BY DEF Somewhere
        <3>2. agent[a].session \in Sessions /\ agent[b].session = s
            BY HasSession DEF s
        <3> QED  BY <3>1, <3>2, <2>5, <1>2, <1>3
    <2> QED  BY <2>3, <2>4, <2>6, <2>7
<1>8. CASE inbox' = inbox /\ answered' = answered \cup {<<b, s>>}
    <2>1. ResultTypes'
        BY <1>8, <1>1, <1>2, <1>3 DEF ResultTypes
    <2>2. Once'
        BY <1>8, <1>2 DEF Once
    <2>3. \A a, t : <<a, t>> \in answered' <=> <<a, t>> \in answered \/ (a = b /\ t = s)
        BY <1>8
    <2>4. Apart'
        <3>1. ASSUME NEW a \in Elems(bus'), NEW t \in Sessions
              PROVE  Announced(a) /\ a \notin Elems(inbox[t]) /\ <<a, t>> \notin answered'
            BY <2>3, <1>2 DEF Apart
        <3>2. ASSUME NEW t \in Sessions, NEW a \in Elems(inbox[t])
              PROVE  Announced(a) /\ agent[a].session = t /\ <<a, t>> \notin answered'
            BY <2>3, <1>5 DEF Apart
        <3>3. ASSUME NEW a \in Agents, NEW t \in Sessions, <<a, t>> \in answered'
              PROVE  Announced(a) /\ agent[a].session = t
            <4>1. agent[b].session = s
                BY DEF s
            <4> QED  BY <3>3, <4>1, <2>3, <1>3 DEF Apart
        <3>4. \A a \in Elems(bus') : Announced(a)
            BY <1>2 DEF Apart
        <3> QED  BY <3>1, <3>2, <3>3, <3>4, <1>1, <1>6, <1>8 DEF Apart
    <2>5. Somewhere'
        <3> SUFFICES ASSUME NEW a \in Agents, Announced(a)
                     PROVE  a \in Elems(bus') \cup Elems(inbox[agent[a].session])
                            \/ <<a, agent[a].session>> \in answered'
            BY <1>1, <1>6, <1>8 DEF Somewhere
        <3>1. a \in Elems(bus) \cup Elems(inbox[agent[a].session]) \/ <<a, agent[a].session>> \in answered
            BY DEF Somewhere
        <3>2. agent[b].session = s
            BY DEF s
        <3> QED  BY <3>1, <3>2, <2>3, <1>2
    <2> QED  BY <2>1, <2>2, <2>4, <2>5
<1> QED  BY <1>4, <1>7, <1>8 DEF b, s

\* A step that leaves the subagents alone keeps what they have announced.
LEMMA SameAgents ==
    ASSUME RInv, UNCHANGED agent
    PROVE  AgentsKeep
BY DEF RInv, ResultTypes, AgentsKeep, Announced

\* A new subagent has announced nothing.
LEMMA SpawnMoves ==
    ASSUME IInv, RInv, NEW s \in Sessions, NEW a \in Agents, NEW i \in BOOLEAN, Spawn(s, a, i)
    PROVE  RInv'
<1>1. /\ agent' = [agent EXCEPT ![a] = [task |-> "work", session |-> s, inline |-> i]]
      /\ agent[a].task = "none"
      /\ UNCHANGED <<inbox, bus, answered>>
    BY DEF Spawn
<1>2. ASSUME NEW b \in Agents
      PROVE  agent'[b] = IF b = a THEN [task |-> "work", session |-> s, inline |-> i] ELSE agent[b]
    BY <1>1 DEF IInv, Types
<1>3. AgentsKeep
    BY <1>1, <1>2 DEF AgentsKeep, Announced, RInv, ResultTypes
<1> QED  BY <1>1, <1>3, NothingMoves

\* The task of a subagent changes, and nothing else of it.
LEMMA TaskChanges ==
    ASSUME IInv, NEW a \in Agents,
           NEW k \in {"none", "work", "done", "gone", "cancelled"},
           agent' = [agent EXCEPT ![a].task = k]
    PROVE  /\ agent'[a].task = k
           /\ agent'[a].session = agent[a].session
           /\ agent'[a].inline = agent[a].inline
           /\ \A b \in Agents : b # a => agent'[b] = agent[b]
<1>1. agent \in [Agents -> AgentRecord]
    BY DEF IInv, Types
<1>2. agent'[a] = [agent[a] EXCEPT !.task = k] /\ agent[a] \in AgentRecord
    BY <1>1
<1>3. \A b \in Agents : b # a => agent'[b] = agent[b]
    BY <1>1
<1> QED  BY <1>2, <1>3 DEF AgentRecord

\* A subagent that ends: an inline one returns its result, a background one announces it.
LEMMA FinishMoves ==
    ASSUME IInv, RInv, NEW a \in Agents, Finish(a)
    PROVE  RInv'
<1>1. agent[a].task = "work" /\ UNCHANGED <<inbox, answered>>
    BY DEF Finish
<1>2. CASE agent[a].inline
    <2>1. agent' = [agent EXCEPT ![a].task = "gone"] /\ UNCHANGED bus
        BY <1>2 DEF Finish
    <2>2. AgentsKeep
        BY <1>1, <1>2, <2>1, TaskChanges DEF AgentsKeep, Announced, RInv, ResultTypes
    <2> QED  BY <1>1, <2>1, <2>2, NothingMoves
<1>3. CASE ~agent[a].inline
    <2> USE DEF RInv
    <2>1. agent' = [agent EXCEPT ![a].task = "done"] /\ bus' = Append(bus, a)
        BY <1>3 DEF Finish
    <2>2. /\ agent'[a].task = "done"
          /\ agent'[a].session = agent[a].session
          /\ agent'[a].inline = agent[a].inline
          /\ \A b \in Agents : b # a => agent'[b] = agent[b]
        BY <2>1, TaskChanges
    <2>3. /\ Announced(a)' /\ ~Announced(a)
          /\ \A b \in Agents : b # a => (Announced(b)' <=> Announced(b))
          /\ \A b \in Agents : agent'[b].session = agent[b].session
        BY <1>1, <1>3, <2>2 DEF Announced
    <2>4. /\ a \notin Elems(bus)
          /\ \A t \in Sessions : a \notin Elems(inbox[t]) /\ <<a, t>> \notin answered
        BY <2>3 DEF Apart
    <2>5. /\ bus' \in Seq(Agents)
          /\ Elems(bus') = Elems(bus) \cup {a}
          /\ Distinct(bus')
        <3>1. bus \in Seq(Agents) /\ Distinct(bus)
            BY DEF ResultTypes, Once
        <3>2. bus' \in Seq(Agents)
            BY <3>1, <2>1
        <3> QED  BY <3>1, <3>2, <2>1, <2>4, AppendElems
    <2>6. ResultTypes'
        BY <1>1, <2>2, <2>5 DEF ResultTypes
    <2>7. Once'
        BY <1>1, <2>5 DEF Once
    <2>8. Apart'
        <3>1. Elems(bus) \subseteq Agents /\ \A t \in Sessions : Elems(inbox[t]) \subseteq Agents
            BY QueuedAgents
        <3>2. ASSUME NEW b \in Elems(bus')
              PROVE  /\ Announced(b)'
                     /\ \A t \in Sessions : b \notin Elems(inbox[t]) /\ <<b, t>> \notin answered
            <4>1. CASE b = a
                BY <4>1, <2>3, <2>4
            <4>2. CASE b # a
                BY <4>2, <2>3, <2>5, <3>1 DEF Apart
            <4> QED  BY <4>1, <4>2
        <3>3. ASSUME NEW t \in Sessions, NEW b \in Elems(inbox[t])
              PROVE  Announced(b)' /\ agent'[b].session = t /\ <<b, t>> \notin answered
            BY <2>3, <3>1 DEF Apart
        <3>4. ASSUME NEW b \in Agents, NEW t \in Sessions, <<b, t>> \in answered
              PROVE  Announced(b)' /\ agent'[b].session = t
            BY <3>4, <2>3, <2>4 DEF Apart
        <3> QED  BY <1>1, <3>2, <3>3, <3>4 DEF Apart
    <2>9. Somewhere'
        <3> SUFFICES ASSUME NEW b \in Agents, Announced(b)'
                     PROVE  b \in Elems(bus') \cup Elems(inbox[agent[b].session])
                            \/ <<b, agent[b].session>> \in answered
            BY <1>1, <2>3 DEF Somewhere
        <3>1. CASE b = a
            BY <3>1, <2>5
        <3>2. CASE b # a
            BY <3>2, <2>3, <2>5 DEF Somewhere
        <3> QED  BY <3>1, <3>2
    <2> QED  BY <2>6, <2>7, <2>8, <2>9
<1> QED  BY <1>2, <1>3

\* A cancelled subagent announces nothing, and the turn that awaited it may end.
LEMMA CancelledMoves ==
    ASSUME IInv, RInv, NEW a \in Agents, CancelledEnds(a)
    PROVE  RInv'
<1>1. /\ agent[a].task = "work"
      /\ agent' = [agent EXCEPT ![a].task = "cancelled"]
      /\ UNCHANGED answered
      /\ Leave(agent[a].session) \/ UNCHANGED <<inbox, bus>>
    BY DEF CancelledEnds
<1>2. AgentsKeep
    BY <1>1, TaskChanges DEF AgentsKeep, Announced, RInv, ResultTypes
<1>3. agent[a].session \in Sessions
    BY <1>1 DEF RInv, ResultTypes
<1>4. CASE Leave(agent[a].session)
    BY <1>1, <1>2, <1>3, <1>4, LeaveMoves
<1>5. CASE UNCHANGED <<inbox, bus>>
    BY <1>1, <1>2, <1>5, NothingMoves
<1> QED  BY <1>1, <1>4, <1>5

\* Nothing has been announced at first.
LEMMA InitRInv == Init => RInv
<1> SUFFICES ASSUME Init PROVE RInv
    OBVIOUS
<1>1. /\ inbox = [s \in Sessions |-> <<>>] /\ bus = <<>> /\ answered = {}
      /\ agent = [a \in Agents |-> NoAgent]
    BY DEF Init
<1>2. \A a \in Agents : agent[a].task = "none" /\ ~Announced(a)
    BY <1>1 DEF NoAgent, Announced
<1>3. \A s \in Sessions : inbox[s] = <<>>
    BY <1>1
<1>4. /\ Elems(bus) = {} /\ Distinct(bus)
      /\ \A s \in Sessions : Elems(inbox[s]) = {} /\ Distinct(inbox[s])
    BY <1>1, <1>3, EmptyElems
<1>5. ResultTypes
    BY <1>1, <1>2 DEF ResultTypes
<1> QED  BY <1>1, <1>2, <1>4, <1>5 DEF RInv, Once, Apart, Somewhere

\* Every step keeps track of the results.
LEMMA RInvStep == IInv /\ RInv /\ [Next]_vars => RInv'
<1> SUFFICES ASSUME IInv, RInv, [Next]_vars PROVE RInv'
    OBVIOUS
<1>1. CASE \E s \in Sessions : Drain(s) \/ Wake(s)
    <2>1. PICK s \in Sessions : Take(s) /\ UNCHANGED <<bus, agent>>
        BY <1>1 DEF Drain, Wake
    <2> QED  BY <2>1, TakeMoves
<1>2. CASE \E s \in Sessions : EndTurn(s) \/ Stop(s)
    <2>1. PICK s \in Sessions : Leave(s) /\ UNCHANGED <<agent, answered>>
        BY <1>2 DEF EndTurn, Stop
    <2> QED  BY <2>1, SameAgents, LeaveMoves
<1>3. CASE Route
    BY <1>3, RouteMoves
<1>4. CASE \E s \in Sessions, a \in Agents, i \in BOOLEAN : Spawn(s, a, i)
    BY <1>4, SpawnMoves
<1>5. CASE \E a \in Agents : Finish(a)
    BY <1>5, FinishMoves
<1>6. CASE \E a \in Agents : CleanUp(a)
    <2>1. PICK a \in Agents : /\ agent[a].task = "done"
                              /\ agent' = [agent EXCEPT ![a].task = "gone"]
                              /\ UNCHANGED <<inbox, bus, answered>>
        BY <1>6 DEF CleanUp
    <2>2. AgentsKeep
        BY <2>1, TaskChanges DEF AgentsKeep, Announced, RInv, ResultTypes
    <2> QED  BY <2>1, <2>2, NothingMoves
<1>7. CASE \E a \in Agents : CancelledEnds(a)
    BY <1>7, CancelledMoves
<1>8. CASE \/ \E s \in Sessions : StartTurn(s)
           \/ \E x \in Actors : List(x) \/ Exec(x) \/ Spawned(x)
           \/ \E x \in Actors, p \in Processes, t \in BOOLEAN : Write(x, p, t)
           \/ \E x \in Actors, late \in BOOLEAN : Polled(x, late)
           \/ \E p \in Processes : Exits(p)
           \/ UNCHANGED vars
    <2>1. UNCHANGED <<agent, inbox, bus, answered>>
        BY <1>8 DEF StartTurn, List, Exec, Spawned, Write, Polled, Exits, vars, tasks
    <2> QED  BY <2>1, SameAgents, NothingMoves
<1>9. CASE \/ StopProcesses
           \/ \E f \in SUBSET Processes : StopEnds(f)
           \/ StopAnswered
           \/ Close
           \/ CloseStep
           \/ CloseCut
    <2>1. ASSUME StopProcesses \/ StopAnswered \/ Close PROVE UNCHANGED tasks
        BY <2>1 DEF StopProcesses, StopAnswered, Close
    <2>2. ASSUME NEW f \in SUBSET Processes, StopEnds(f) PROVE UNCHANGED tasks
        BY <2>2 DEF StopEnds
    <2>3. ASSUME CloseStep PROVE UNCHANGED tasks
        BY <2>3, ZenonT(30) DEF CloseStep, CloseAgents, CloseAll, CloseKilled
    <2>4. ASSUME CloseCut PROVE UNCHANGED tasks
        BY <2>4, ZenonT(30) DEF CloseCut, CutShort, CutKilling
    <2>5. UNCHANGED tasks
        BY <1>9, <2>1, <2>2, <2>3, <2>4
    <2> QED  BY <2>5, SameAgents, NothingMoves DEF tasks
<1> QED  BY <1>1, <1>2, <1>3, <1>4, <1>5, <1>6, <1>7, <1>8, <1>9 DEF Next

\* In a queue without repetitions a result is counted once or not at all.
LEMMA Counted ==
    ASSUME NEW q \in Seq(Agents), Distinct(q), NEW a
    PROVE  Cardinality({i \in DOMAIN q : q[i] = a}) = IF a \in Elems(q) THEN 1 ELSE 0
<1>1. CASE a \in Elems(q)
    <2>1. PICK k \in 1..Len(q) : q[k] = a
        BY <1>1 DEF Elems
    <2>2. {i \in DOMAIN q : q[i] = a} = {k}
        BY <2>1 DEF Distinct
    <2> QED  BY <1>1, <2>2, FS_Singleton
<1>2. CASE a \notin Elems(q)
    <2>1. {i \in DOMAIN q : q[i] = a} = {}
        BY <1>2 DEF Elems
    <2> QED  BY <1>2, <2>1, FS_EmptySet
<1> QED  BY <1>1, <1>2

\* A result that was announced is in one place, and is counted there.
LEMMA ResultsCounted == Types /\ RInv => ResultsKept
<1> SUFFICES ASSUME Types, RInv, NEW a \in Agents
             PROVE  /\ InBus(a) + InInbox(a, agent[a].session) + Answered(a) =
                         IF agent[a].task \in {"done", "gone"} /\ ~agent[a].inline THEN 1 ELSE 0
                    /\ \A t \in Sessions : InInbox(a, t) > 0 \/ <<a, t>> \in answered
                                               => t = agent[a].session
    BY DEF ResultsKept
<1> DEFINE s == agent[a].session
<1> USE DEF RInv
<1>0. s \in Sessions \cup {None} /\ None \notin Sessions
    BY SubagentAssumption DEF Types, AgentRecord
<1>1. InBus(a) = IF a \in Elems(bus) THEN 1 ELSE 0
    BY Counted DEF InBus, ResultTypes, Once
<1>2. ASSUME NEW t \in Sessions
      PROVE  InInbox(a, t) = IF a \in Elems(inbox[t]) THEN 1 ELSE 0
    BY <1>0, Counted DEF InInbox, ResultTypes, Once
<1>3. Answered(a) = IF s \in Sessions /\ <<a, s>> \in answered THEN 1 ELSE 0
    <2>1. CASE s \in Sessions /\ <<a, s>> \in answered
        <3>1. {t \in Sessions : <<a, t>> \in answered} = {s}
            BY <2>1 DEF Apart
        <3> QED  BY <2>1, <3>1, FS_Singleton DEF Answered
    <2>2. CASE ~(s \in Sessions /\ <<a, s>> \in answered)
        <3>1. {t \in Sessions : <<a, t>> \in answered} = {}
            BY <2>2 DEF Apart
        <3> QED  BY <2>2, <3>1, FS_EmptySet DEF Answered
    <2> QED  BY <2>1, <2>2
<1>4. InInbox(a, s) = IF s \in Sessions /\ a \in Elems(inbox[s]) THEN 1 ELSE 0
    BY <1>0, <1>2 DEF InInbox
<1>5. ASSUME NEW t \in Sessions, InInbox(a, t) > 0 \/ <<a, t>> \in answered
      PROVE  t = s
    BY <1>2, <1>5 DEF Apart
<1>6. CASE Announced(a)
    <2>1. s \in Sessions
        BY <1>6, HasSession
    <2>2. a \in Elems(bus) \/ a \in Elems(inbox[s]) \/ <<a, s>> \in answered
        BY <1>6 DEF Somewhere
    <2>3. ~(a \in Elems(bus) /\ a \in Elems(inbox[s])) /\ ~(a \in Elems(bus) /\ <<a, s>> \in answered)
          /\ ~(a \in Elems(inbox[s]) /\ <<a, s>> \in answered)
        BY <2>1 DEF Apart
    <2>4. InBus(a) + InInbox(a, s) + Answered(a) = 1
        BY <1>1, <1>3, <1>4, <2>1, <2>2, <2>3
    <2> QED  BY <1>5, <1>6, <2>4 DEF Announced
<1>7. CASE ~Announced(a)
    <2>1. a \notin Elems(bus) /\ \A t \in Sessions : a \notin Elems(inbox[t]) /\ <<a, t>> \notin answered
        BY <1>7 DEF Apart
    <2>2. InBus(a) + InInbox(a, s) + Answered(a) = 0
        BY <1>1, <1>3, <1>4, <2>1
    <2> QED  BY <1>5, <1>7, <2>2 DEF Announced
<1> QED  BY <1>6, <1>7

\* Every result that was announced waits in one place for the session of its subagent
\* or was taken there once, whatever ends turns, subagents and commands.
THEOREM ResultsArrive == Spec => []ResultsKept
<1>1. Init => RInv
    BY InitRInv
<1>2. IInv /\ RInv /\ [Next]_vars => RInv'
    BY RInvStep
<1>3. IInv /\ RInv => ResultsKept
    BY ResultsCounted DEF IInv
<1> QED  BY <1>1, <1>2, <1>3, Invariant, PTL DEF Spec
=============================================================================
