----------------------------- MODULE CronService -----------------------------
(***************************************************************************)
(* nanobot/cron/service.py: the scheduler of the gateway, its store        *)
(* jobs.json, and the processes that are not the gateway (`nanobot agent`) *)
(* and leave their changes in action.jsonl for it.                         *)
(*                                                                         *)
(* The gateway runs on one event loop, so a method without an await is one *)
(* action.  Executing a job awaits a whole agent turn; in the meantime     *)
(* every other method may be called, and _load_store may replace the store *)
(* the executing job belongs to.                                           *)
(***************************************************************************)
EXTENDS Integers, SequencesExt

CONSTANTS
    Jobs,           \* job ids
    Kind,           \* of each job: "every", "once" (deleted after its run) or
                    \* "once_keep" (disabled after its run)
    When,           \* the interval of an "every" job, the time of the others
    SystemJobs,     \* dream and heartbeat: registered by the gateway at start
    MaxSleep,       \* max_sleep_ms
    Calls,          \* the methods that are called while the gateway is up; "run_late"
                    \* when a tick may go on before run_job begins
    OfflineCalls,   \* the methods that are called in other processes
    DiesInMerge,    \* whether the gateway may die between two writes
    TickSlots,      \* bound: timer tasks at a time
    MaxTime,        \* bound: nobody calls anything after this time
    MaxCalls,       \* bound: calls in the gateway
    MaxOffline,     \* bound: calls in other processes
    MaxStops        \* bound: how often the gateway stops

ASSUME CronAssumption ==
    /\ Kind \in [Jobs -> {"every", "once", "once_keep"}]
    /\ When \in [Jobs -> Nat \ {0}]
    /\ SystemJobs \subseteq {j \in Jobs : Kind[j] = "every"}
    /\ MaxSleep \in Nat \ {0}
    /\ Calls \subseteq {"list", "add", "remove", "enable", "update",
                      "run", "run_late"}
    /\ OfflineCalls \subseteq {"add", "remove", "enable"}
    /\ DiesInMerge \in BOOLEAN
    /\ TickSlots \in Nat \ {0, 1}
    /\ {MaxTime, MaxCalls, MaxOffline, MaxStops} \subseteq Nat

Slots == 1..TickSlots
Horizon == MaxTime + MaxSleep

VARIABLES
    now,            \* the clock
    disk,           \* jobs.json: the jobs present, with their state
    actions,        \* action.jsonl
    up,             \* the gateway runs and has called start()
    mem,            \* self._store.jobs of the gateway
    timerActive,    \* self._timer_active
    timer,          \* the slot of self._timer_task, 0 when there is none
    tick,           \* the timer tasks: sleeping, or in _on_timer
    manual,         \* a run_job call that was asked for, or in progress
    reader,         \* what another process has read of jobs.json
    fired,          \* history: occurrences <<job, time>> the timer has started
    twice,          \* history: jobs with an occurrence started twice
    acked,          \* history: jobs added by another process
    gone,           \* history: jobs removed, or finished and deleted
    calls, offline, stops

vars == <<now, disk, actions, up, mem, timerActive, timer, tick, manual, reader,
          fired, twice, acked, gone, calls, offline, stops>>
file == <<disk, actions>>
tasks == <<timerActive, timer, tick, manual>>
fires == <<fired, twice>>
counters == <<calls, offline, stops>>

Never == 0

NoTask == [pc |-> "none", at |-> Never, job |-> {}, due |-> {}, start |-> Never,
           own |-> FALSE, cancelled |-> FALSE]

----------------------------------------------------------------------------
(* Schedules and jobs. *)

\* _compute_next_run at time t.
ComputeNextRun(j, t) ==
    IF Kind[j] = "every" THEN t + When[j]
    ELSE IF When[j] > t THEN When[j] ELSE Never

NewJob(j) == [enabled |-> TRUE, next |-> ComputeNextRun(j, now), last |-> Never]

Put(m, j, rec) == [k \in DOMAIN m \cup {j} |-> IF k = j THEN rec ELSE m[k]]
Without(m, j) == Restrict(m, DOMAIN m \ {j})

\* enable_job: the next run is computed from now, or cleared.
Enabled(m, j, b) ==
    Put(m, j, [m[j] EXCEPT !.enabled = b,
                           !.next = IF b THEN ComputeNextRun(j, now) ELSE Never])

\* update_job.
Updated(m, j) == Enabled(m, j, m[j].enabled)

\* _execute_job after the callback: what becomes of the store.  A one-shot job is
\* deleted by its id; the rest is written to the job object, which own says still
\* belongs to the store.
Finished(m, j, start, own) ==
    IF Kind[j] = "once" THEN Without(m, j)
    ELSE IF ~own \/ j \notin DOMAIN m THEN m
    ELSE IF Kind[j] = "every"
         THEN Put(m, j, [m[j] EXCEPT !.next = ComputeNextRun(j, now), !.last = start])
         ELSE Put(m, j, [m[j] EXCEPT !.enabled = FALSE, !.next = Never, !.last = start])

Due(m) == {j \in DOMAIN m : m[j].enabled /\ m[j].next # Never /\ m[j].next <= now}

----------------------------------------------------------------------------
(* Loading: jobs.json, and what other processes have left in action.jsonl. *)

\* The lines of the action file about a job.
Lines(acts, j) == {i \in DOMAIN acts : acts[i].job = j}
LastLine(acts, j) == acts[Max(Lines(acts, j))]

\* _merge_action: the last line about a job decides.  Deleting a job that is not
\* there is an error, which is logged, and the line does not count as a change.
Merged(m, acts) ==
    [jobs |-> [j \in {k \in Jobs : IF Lines(acts, k) = {} THEN k \in DOMAIN m
                                   ELSE LastLine(acts, k).op = "put"} |->
                  IF Lines(acts, j) = {} THEN m[j] ELSE LastLine(acts, j).rec],
     changed |-> \E i \in DOMAIN acts : acts[i].op = "put" \/ acts[i].job \in DOMAIN m]

\* Mutant: a reload in the middle of a tick.
Reloads_Always == TRUE

\* _load_store takes the store at hand during _on_timer.
Reloads == ~timerActive

\* _load_store in the gateway.
Loaded == IF Reloads THEN Merged(disk, actions) ELSE [jobs |-> mem, changed |-> FALSE]

\* Every job object of the store is a new one after a reload.
Disown(t) == [t EXCEPT !.own = @ /\ ~Reloads]

\* Mutant: the actions are cleared, the jobs they made are not saved.
LoadOnly_NotSaved ==
    /\ mem' = Loaded.jobs
    /\ UNCHANGED disk
    /\ actions' = IF Loaded.changed THEN <<>> ELSE actions

\* _load_store and no more: the actions are merged into jobs.json and the file is
\* cleared when one of them changed something.
LoadOnly ==
    /\ mem' = Loaded.jobs
    /\ disk' = IF Loaded.changed THEN mem' ELSE disk
    /\ actions' = IF Loaded.changed THEN <<>> ELSE actions

\* _load_store, then a change that ends with _save_store.
LoadAndSave(m) ==
    /\ mem' = m
    /\ disk' = m
    /\ actions' = IF Loaded.changed THEN <<>> ELSE actions

----------------------------------------------------------------------------
(* The timer. *)

\* _get_next_wake_ms and the delay of _arm_timer.
Wake(m) ==
    LET soon == {m[j].next : j \in {k \in DOMAIN m : m[k].enabled /\ m[k].next # Never}}
        next == IF soon = {} THEN now + MaxSleep ELSE Min(soon)
    IN Min({now + MaxSleep, Max({now, next})})

\* task.cancel(): a task that sleeps is gone, one inside a job hears of it later.
Cancel(t) == IF t.pc = "run" THEN [t EXCEPT !.cancelled = TRUE] ELSE NoTask

FreeSlots(tasks_) == {s \in Slots : tasks_[s].pc = "none"}

\* _arm_timer: cancel the timer task, whatever it is doing, and start another.
ArmTimer(tasks_, m) ==
    LET old == [s \in Slots |-> IF s = timer THEN Cancel(tasks_[s]) ELSE tasks_[s]]
    IN /\ FreeSlots(old) # {}
       /\ timer' = Min(FreeSlots(old))
       /\ tick' = [old EXCEPT ![timer'] = [NoTask EXCEPT !.pc = "sleep", !.at = Wake(m)]]

Disowned == [s \in Slots |-> Disown(tick[s])]

Init ==
    /\ now = 1
    /\ disk = << >>
    /\ actions = << >>
    /\ up = FALSE
    /\ mem = << >>
    /\ timerActive = FALSE
    /\ timer = 0
    /\ tick = [s \in Slots |-> NoTask]
    /\ manual = NoTask
    /\ reader = {}
    /\ fired = {}
    /\ twice = {}
    /\ acked = {}
    /\ gone = {}
    /\ calls = 0
    /\ offline = 0
    /\ stops = 0

Clock ==
    /\ now < Horizon
    /\ now' = now + 1
    /\ UNCHANGED <<file, up, mem, tasks, reader, fires, acked, gone, counters>>

----------------------------------------------------------------------------
(* A process that is not the gateway: it reads jobs.json, then action.jsonl, *)
(* and appends one line; the gateway may work between the first two.         *)

CallOffline(op) ==
    /\ op \in OfflineCalls
    /\ now <= MaxTime
    /\ offline < MaxOffline
    /\ offline' = offline + 1

AppendAction(op, j, rec) ==
    actions' = Append(actions, [op |-> op, job |-> j, rec |-> rec])

\* add_job does not read the store.
OfflineAdd(j) ==
    /\ CallOffline("add")
    /\ j \notin acked \cup SystemJobs
    /\ j \notin DOMAIN disk \cup DOMAIN mem \cup gone
    /\ AppendAction("put", j, NewJob(j))
    /\ acked' = acked \cup {j}
    /\ UNCHANGED <<now, disk, up, mem, tasks, reader, fires, gone, calls, stops>>

OfflineRead ==
    /\ OfflineCalls # {"add"}
    /\ now <= MaxTime
    /\ offline < MaxOffline
    /\ reader = {}
    /\ reader' = {disk}
    /\ UNCHANGED <<now, file, up, mem, tasks, fires, acked, gone, counters>>

\* What the process sees once it has read both files.
Seen == Merged(CHOOSE d \in reader : TRUE, actions).jobs

OfflineRemove(j) ==
    /\ CallOffline("remove")
    /\ reader # {}
    /\ j \in DOMAIN Seen \ SystemJobs
    /\ AppendAction("del", j, Seen[j])
    /\ gone' = gone \cup {j}
    /\ reader' = {}
    /\ UNCHANGED <<now, disk, up, mem, tasks, fires, acked, calls, stops>>

\* The whole record is written, as it was read.
OfflineEnable(j, b) ==
    /\ CallOffline("enable")
    /\ reader # {}
    /\ j \in DOMAIN Seen
    /\ AppendAction("put", j, Enabled(Seen, j, b)[j])
    /\ reader' = {}
    /\ UNCHANGED <<now, disk, up, mem, tasks, fires, acked, gone, calls, stops>>

----------------------------------------------------------------------------
(* The gateway starts and stops. *)

\* register_system_job for each system job, before start().
Registered ==
    [j \in DOMAIN Merged(disk, actions).jobs \cup SystemJobs |->
        IF j \in SystemJobs THEN NewJob(j) ELSE Merged(disk, actions).jobs[j]]

\* _recompute_next_runs.
Recomputed(m) ==
    [j \in DOMAIN m |->
        IF m[j].enabled THEN [m[j] EXCEPT !.next = ComputeNextRun(j, now)] ELSE m[j]]

\* register_system_job saves without clearing action.jsonl, so start() merges it
\* a second time.
Start ==
    /\ ~up
    /\ up' = TRUE
    /\ LET loaded == Merged(IF SystemJobs = {} THEN disk ELSE Registered, actions)
       IN /\ mem' = Recomputed(loaded.jobs)
          /\ actions' = IF loaded.changed THEN <<>> ELSE actions
    /\ disk' = mem'
    /\ ArmTimer(tick, mem')
    /\ UNCHANGED <<now, timerActive, manual, reader, fires, acked, gone, counters>>

GoDown ==
    /\ stops < MaxStops
    /\ stops' = stops + 1
    /\ up' = FALSE
    /\ mem' = << >>
    /\ timerActive' = FALSE
    /\ timer' = 0
    /\ tick' = [s \in Slots |-> NoTask]
    /\ manual' = NoTask
    /\ UNCHANGED <<now, reader, fires, acked, gone, calls, offline>>

\* stop(), or the process dies.
Stop ==
    /\ up
    /\ GoDown
    /\ UNCHANGED file

\* It dies in _merge_action, after the actions were cleared and before the jobs
\* were saved.
CrashInMerge ==
    /\ DiesInMerge
    /\ up
    /\ Loaded.changed
    /\ GoDown
    /\ actions' = << >>
    /\ UNCHANGED disk

----------------------------------------------------------------------------
(* The methods of the gateway's instance. *)

Call(op) ==
    /\ op \in Calls
    /\ up
    /\ now <= MaxTime
    /\ calls < MaxCalls
    /\ calls' = calls + 1

\* list_jobs, get_job, status; the methods below when they find no such job.
ListJobs ==
    /\ Call("list")
    /\ LoadOnly
    /\ tick' = Disowned
    /\ manual' = Disown(manual)
    /\ UNCHANGED <<now, up, timerActive, timer, reader, fires, acked, gone, offline, stops>>

\* Saving, arming the timer, and what no such method touches.
Edit(m) ==
    /\ LoadAndSave(m)
    /\ ArmTimer(Disowned, m)
    /\ manual' = Disown(manual)
    /\ UNCHANGED <<now, up, timerActive, reader, fires, acked, offline, stops>>

AddJob(j) ==
    /\ Call("add")
    /\ j \notin acked \cup gone \cup SystemJobs \cup DOMAIN Loaded.jobs
    /\ Edit(Put(Loaded.jobs, j, NewJob(j)))
    /\ UNCHANGED gone

RemoveJob(j) ==
    /\ Call("remove")
    /\ j \in DOMAIN Loaded.jobs \ SystemJobs
    /\ Edit(Without(Loaded.jobs, j))
    /\ gone' = gone \cup {j}

EnableJob(j, b) ==
    /\ Call("enable")
    /\ j \in DOMAIN Loaded.jobs
    /\ Edit(Enabled(Loaded.jobs, j, b))
    /\ UNCHANGED gone

UpdateJob(j) ==
    /\ Call("update")
    /\ j \in DOMAIN Loaded.jobs \ SystemJobs
    /\ Edit(Updated(Loaded.jobs, j))
    /\ UNCHANGED gone

\* The WebUI looks at the job and starts run_job in a task of its own.
AskRun(j) ==
    /\ Call("run")
    /\ manual.pc = "none"
    /\ j \in DOMAIN Loaded.jobs \ SystemJobs
    /\ Loaded.jobs[j].enabled
    /\ LoadOnly
    /\ tick' = Disowned
    /\ manual' = [NoTask EXCEPT !.pc = "asked", !.job = {j}]
    /\ UNCHANGED <<now, up, timerActive, timer, reader, fires, acked, gone, offline, stops>>

\* run_job begins, up to the callback.
RunJob(j) ==
    /\ manual.pc = "asked" /\ manual.job = {j}
    /\ j \in DOMAIN Loaded.jobs
    /\ Loaded.jobs[j].enabled
    /\ LoadOnly
    /\ tick' = Disowned
    /\ manual' = [NoTask EXCEPT !.pc = "run", !.job = {j}, !.start = now, !.own = TRUE]
    /\ UNCHANGED <<now, up, timerActive, timer, reader, fires, acked, gone, counters>>

\* The job is gone or disabled by now: run_job refuses, and arms the timer all the
\* same.
RunRefused(j) ==
    /\ manual.pc = "asked" /\ manual.job = {j}
    /\ j \in DOMAIN Loaded.jobs => ~Loaded.jobs[j].enabled
    /\ LoadOnly
    /\ ArmTimer(Disowned, mem')
    /\ manual' = NoTask
    /\ UNCHANGED <<now, up, timerActive, reader, fires, acked, gone, counters>>

Deleted(j) == IF Kind[j] = "once" THEN {j} ELSE {}

\* The callback returns.
RunEnds(j) ==
    /\ manual.pc = "run" /\ manual.job = {j}
    /\ mem' = Finished(mem, j, manual.start, manual.own)
    /\ disk' = mem'
    /\ gone' = gone \cup Deleted(j)
    /\ ArmTimer(tick, mem')
    /\ manual' = NoTask
    /\ UNCHANGED <<now, actions, up, timerActive, reader, fires, acked, counters>>

----------------------------------------------------------------------------
(* _on_timer. *)

\* The cancellation of a turn submitted to the agent loop is delivered before the
\* next task runs; a system job runs inside the timer task and may take longer.
Cancelling == \E s \in Slots : tick[s].cancelled /\ tick[s].job \cap SystemJobs = {}

Fire(j, t) ==
    /\ fired' = fired \cup {<<j, t>>}
    /\ twice' = IF <<j, t>> \in fired THEN twice \cup {j} ELSE twice

Awake(s) ==
    /\ tick[s].pc = "sleep"
    /\ tick[s].at <= now
    /\ ~Cancelling

TickIdle(s) ==
    /\ Awake(s)
    /\ Due(Loaded.jobs) = {}
    /\ LoadAndSave(Loaded.jobs)
    /\ timerActive' = FALSE
    /\ manual' = Disown(manual)
    /\ ArmTimer([Disowned EXCEPT ![s] = NoTask], mem')
    /\ UNCHANGED <<now, up, reader, fires, acked, gone, counters>>

TickFires(s, j) ==
    /\ Awake(s)
    /\ j \in Due(Loaded.jobs)
    /\ LoadOnly
    /\ timerActive' = TRUE
    /\ manual' = Disown(manual)
    /\ tick' = [Disowned EXCEPT ![s] =
                  [@ EXCEPT !.pc = "run", !.job = {j}, !.start = now, !.own = TRUE,
                            !.due = {<<k, mem'[k].next>> : k \in Due(mem') \ {j}}]]
    /\ Fire(j, mem'[j].next)
    /\ UNCHANGED <<now, up, timer, reader, acked, gone, counters>>

\* Mutant: the store is not saved when the tick is over.
TickEnds_NotSaved(s, j) ==
    /\ tick[s].job = {j}
    /\ ~tick[s].cancelled
    /\ tick[s].due = {}
    /\ mem' = Finished(mem, j, tick[s].start, tick[s].own)
    /\ gone' = gone \cup Deleted(j)
    /\ timerActive' = FALSE
    /\ ArmTimer([tick EXCEPT ![s] = NoTask], mem')
    /\ UNCHANGED <<now, file, up, manual, reader, fires, acked, counters>>

\* Mutant: the timer is not armed again.
TickEnds_NotArmed(s, j) ==
    /\ tick[s].job = {j}
    /\ ~tick[s].cancelled
    /\ tick[s].due = {}
    /\ mem' = Finished(mem, j, tick[s].start, tick[s].own)
    /\ disk' = mem'
    /\ gone' = gone \cup Deleted(j)
    /\ timerActive' = FALSE
    /\ tick' = [tick EXCEPT ![s] = NoTask]
    /\ UNCHANGED <<now, actions, up, timer, manual, reader, fires, acked, counters>>

\* _execute_job returns; it was the last due job.
TickEnds(s, j) ==
    /\ tick[s].job = {j}
    /\ ~tick[s].cancelled
    /\ tick[s].due = {}
    /\ mem' = Finished(mem, j, tick[s].start, tick[s].own)
    /\ disk' = mem'
    /\ gone' = gone \cup Deleted(j)
    /\ timerActive' = FALSE
    /\ ArmTimer([tick EXCEPT ![s] = NoTask], mem')
    /\ UNCHANGED <<now, actions, up, manual, reader, fires, acked, counters>>

\* It returns, and the next of the jobs found due at the beginning is executed.
TickGoesOn(s, j, k, t) ==
    /\ manual.pc = "asked" => "run_late" \in Calls
    /\ tick[s].job = {j}
    /\ ~tick[s].cancelled
    /\ <<k, t>> \in tick[s].due
    /\ mem' = Finished(mem, j, tick[s].start, tick[s].own)
    /\ gone' = gone \cup Deleted(j)
    /\ tick' = [tick EXCEPT ![s].job = {k}, ![s].start = now,
                            ![s].due = @ \ {<<k, t>>}]
    /\ Fire(k, t)
    /\ UNCHANGED <<now, file, up, timerActive, timer, manual, reader, acked, counters>>

\* CancelledError reaches a task inside a job: _execute_job raises it again, and
\* the task ends without saving and without arming the timer.
TickCancelled(s) ==
    /\ tick[s].cancelled
    /\ timerActive' = FALSE
    /\ tick' = [tick EXCEPT ![s] = NoTask]
    /\ UNCHANGED <<now, file, up, mem, timer, manual, reader, fires, acked, gone, counters>>

----------------------------------------------------------------------------
Offline ==
    \/ OfflineRead
    \/ \E j \in Jobs :
          \/ OfflineAdd(j)
          \/ OfflineRemove(j)
          \/ \E b \in BOOLEAN : OfflineEnable(j, b)

Methods ==
    \/ ListJobs
    \/ \E j \in Jobs :
          \/ AddJob(j)
          \/ RemoveJob(j)
          \/ \E b \in BOOLEAN : EnableJob(j, b)
          \/ UpdateJob(j)
          \/ AskRun(j)

Timers ==
    \E s \in Slots :
        \/ TickIdle(s)
        \/ TickCancelled(s)
        \/ \E j \in Jobs :
              \/ TickFires(s, j)
              \/ TickEnds(s, j)
              \/ \E k \in Jobs, t \in 1..Horizon : TickGoesOn(s, j, k, t)

Runs == \E j \in Jobs : RunJob(j) \/ RunRefused(j) \/ RunEnds(j)

Next == Clock \/ Offline \/ Start \/ Stop \/ CrashInMerge \/ Methods \/ Timers \/ Runs

Spec == Init /\ [][Next]_vars

\* Time passes, the event loop wakes what is due and begins what was asked for, and
\* every job comes to its end.
FairSpec == Spec /\ WF_vars(Clock) /\ WF_vars(Timers) /\ WF_vars(Runs)

----------------------------------------------------------------------------
(* Properties. *)

JobRecords == [enabled : BOOLEAN, next : Nat, last : Nat]
IsStore(m) == DOMAIN m \subseteq Jobs /\ m \in [DOMAIN m -> JobRecords]
Singles == {{}} \cup {{j} : j \in Jobs}
Tasks == [pc : {"none", "sleep", "asked", "run"}, at : Nat, job : Singles,
          due : SUBSET (Jobs \X Nat), start : Nat, own : BOOLEAN, cancelled : BOOLEAN]

\* The values every variable may take.
TypeOK ==
    /\ now \in 1..Horizon
    /\ IsStore(disk) /\ IsStore(mem)
    /\ actions \in Seq([op : {"put", "del"}, job : Jobs, rec : JobRecords])
    /\ up \in BOOLEAN
    /\ timerActive \in BOOLEAN
    /\ timer \in 0..TickSlots
    /\ tick \in [Slots -> Tasks]
    /\ manual \in Tasks
    /\ \A d \in reader : IsStore(d)
    /\ fired \subseteq Jobs \X Nat
    /\ twice \cup acked \cup gone \subseteq Jobs
    /\ calls \in 0..MaxCalls
    /\ offline \in 0..MaxOffline
    /\ stops \in 0..MaxStops

Executing == manual.pc = "run" \/ \E s \in Slots : tick[s].pc = "run"

\* Whatever was cancelled, reloaded or merged in between, when no job executes
\* jobs.json is what the scheduler works with: a restart forgets nothing.
DiskCurrent == up /\ ~Executing => disk = mem

\* The timer starts an occurrence of a job once ("list_jobs() during _on_timer
\* should not replace the active store and re-run the same due job").
OncePerOccurrence == twice = {}

\* When an execution comes to its end, its time and the next run of the job are in
\* the store ("the in-memory next_run_at_ms update must not be lost").
Kept(t, now_, m) ==
    \A j \in t.job \cap DOMAIN m : m[j].last = t.start
UpdateKept ==
    [][/\ manual.pc = "run" /\ manual'.pc = "none" /\ up' => Kept(manual, now, mem')
       /\ \A s \in Slots :
             tick[s].pc = "run" /\ ~tick[s].cancelled /\ tick'[s].job # tick[s].job /\ up'
                 => Kept(tick[s], now, mem')]_vars

\* A job another process has added is in one of the two files until it is removed
\* or done ("it needs to merge operations on the jobs object from other instances").
ActionsNotLost ==
    \A j \in acked \ gone :
        \/ j \in DOMAIN disk \cup DOMAIN mem
        \/ \E i \in DOMAIN actions : actions[i].job = j

\* A due job is started, or it is no longer due, or the gateway stops: whatever
\* calls come in between, some timer is always left.
DueRuns ==
    \A j \in Jobs :
        up /\ j \in Due(mem) ~> ~up \/ j \notin Due(mem) \/ \E s \in Slots : tick[s].job = {j}
=============================================================================
