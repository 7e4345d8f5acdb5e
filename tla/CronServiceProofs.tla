------------------------- MODULE CronServiceProofs -------------------------
(***************************************************************************)
(* The scheduler's files agree with what it works with, a job that another *)
(* process adds is not lost, and an occurrence is started once: for any    *)
(* jobs, calls, other processes and restarts, under the conditions the     *)
(* theorems name.                                                          *)
(***************************************************************************)
EXTENDS CronService, FiniteSetTheorems, WellFoundedInduction, TLAPS

----------------------------------------------------------------------------
(* The inductive invariants. *)

\* A task that is in no job has none, has found none due, and hears of no cancellation.
AtRest(ts) ==
    \A s \in Slots : ts[s].pc # "run" => ts[s].job = {} /\ ts[s].due = {} /\ ~ts[s].cancelled

\* What is not saved is the work of a tick that goes on.  As long as it lasts, a job
\* that run_job was asked for stays in the store, enabled.
Saved ==
    up /\ disk # mem =>
        /\ \E s \in Slots : tick[s].pc = "run" /\ ~tick[s].cancelled
        /\ manual.pc = "asked" => \A j \in manual.job : j \in DOMAIN mem /\ mem[j].enabled

\* A job another process has added is in jobs.json or still to be merged; the
\* scheduler has what jobs.json has, but for what is gone; and only a job that is
\* gone is deleted by a line.
Present ==
    /\ \A j \in acked \ gone :
           j \in DOMAIN disk \/ \E i \in DOMAIN actions : actions[i].job = j
    /\ up => DOMAIN disk \ gone \subseteq DOMAIN mem
    /\ \A i \in DOMAIN actions : actions[i].op = "del" => actions[i].job \in gone

\* One timer task at most, which nobody cancels and whose job belongs to the store;
\* the store is held for as long as it executes.
OneTimer ==
    /\ manual.pc = "none"
    /\ \A s \in Slots : /\ ~tick[s].cancelled
                        /\ tick[s].pc # "none" => up /\ timer = s
                        /\ tick[s].pc = "run" => timerActive /\ tick[s].own
    /\ timerActive => \E s \in Slots : tick[s].pc = "run"
    /\ up /\ ~timerActive => disk = mem
    /\ \A s \in Slots : \A j \in DOMAIN mem :
           j \in tick[s].job \/ (\E d \in tick[s].due : d[1] = j) => mem[j].enabled

\* A disabled job has no next run.
Cleared(rec) == ~rec.enabled => rec.next = Never
AllCleared ==
    /\ \A j \in DOMAIN disk : Cleared(disk[j])
    /\ \A j \in DOMAIN mem : Cleared(mem[j])
    /\ \A i \in DOMAIN actions : actions[i].op = "put" => Cleared(actions[i].rec)

\* What is still to be started has not been started: the next run of a job that does not
\* execute, what a tick has found due, and what a line brings.
PastFired == \A f \in fired : f[2] <= now /\ f[2] # Never
NextUnstarted ==
    up => \A j \in DOMAIN mem :
              (\A s \in Slots : j \notin tick[s].job) => <<j, mem[j].next>> \notin fired
DueUnstarted ==
    \A s \in Slots : \A d \in tick[s].due :
        /\ d \notin fired /\ d[2] <= now /\ d[2] # Never
        /\ d[1] \notin tick[s].job
        /\ \A e \in tick[s].due : e[1] = d[1] => e = d
LinesUnstarted ==
    \A i \in DOMAIN actions : actions[i].op = "put" =>
        /\ <<actions[i].job, actions[i].rec.next>> \notin fired
        /\ \A s \in Slots : <<actions[i].job, actions[i].rec.next>> \notin tick[s].due
Unstarted == PastFired /\ NextUnstarted /\ DueUnstarted /\ LinesUnstarted

Once == OneTimer /\ AllCleared /\ Unstarted /\ twice = {}

----------------------------------------------------------------------------
(* Least and greatest elements. *)

\* Natural numbers have a least element.
LEMMA MinIs ==
    ASSUME NEW S, S \subseteq Nat, S # {}
    PROVE  Min(S) \in S /\ \A y \in S : Min(S) <= y
<1> DEFINE R == {ss \in Nat \X Nat : ss[1] < ss[2]}
<1>1. IsWellFoundedOn(R, Nat)
  BY NatLessThanWellFounded DEF OpToRel
<1> HIDE DEF R
<1>2. PICK x \in S : \A y \in S : <<y, x>> \notin R
  BY <1>1, WFMin
<1>3. \A y \in S : x <= y
  <2> TAKE y \in S
  <2>1. <<y, x>> \notin R /\ x \in Nat /\ y \in Nat
    BY <1>2
  <2> QED BY <2>1 DEF R
<1> QED BY <1>3 DEF Min

\* Bounded natural numbers have a greatest one.
LEMMA MaxIn ==
    ASSUME NEW n \in Nat, NEW S, S \subseteq 0..n, S # {}
    PROVE  Max(S) \in S
<1> DEFINE T == {n - y : y \in S}
<1>1. T \subseteq Nat /\ T # {}
  <2>1. \A y \in S : n - y \in Nat
    OBVIOUS
  <2> QED BY <2>1
<1>2. Min(T) \in T /\ \A z \in T : Min(T) <= z
  BY <1>1, MinIs
<1>3. PICK x \in S : Min(T) = n - x
  BY <1>2
<1>4. \A y \in S : x >= y
  <2> TAKE y \in S
  <2>1. Min(T) <= n - y /\ x \in 0..n /\ y \in 0..n
    BY <1>2
  <2> QED BY <2>1, <1>3
<1> QED BY <1>4 DEF Max

----------------------------------------------------------------------------
(* Stores and the lines that are merged into them. *)

Line == [op : {"put", "del"}, job : Jobs, rec : JobRecords]

\* The line that decides about a job is one of its lines.
LEMMA LastLineIs ==
    ASSUME NEW acts \in Seq(Line), NEW j, Lines(acts, j) # {}
    PROVE  \E i \in DOMAIN acts : acts[i].job = j /\ LastLine(acts, j) = acts[i]
<1>1. Lines(acts, j) \subseteq 0..Len(acts) /\ Len(acts) \in Nat
  BY DEF Lines
<1>2. Max(Lines(acts, j)) \in Lines(acts, j)
  BY <1>1, MaxIn
<1> QED BY <1>2 DEF Lines, LastLine

\* What a job of the merged store is: as before, or as a line says; what is not in it
\* was deleted by a line; and if nothing has changed it is the store as it was.
LEMMA MergedIs ==
    ASSUME NEW m, IsStore(m), NEW acts \in Seq(Line)
    PROVE  LET jobs == Merged(m, acts).jobs
           IN  /\ IsStore(jobs)
               /\ \A j \in DOMAIN jobs :
                      \/ j \in DOMAIN m /\ jobs[j] = m[j]
                      \/ \E i \in DOMAIN acts :
                             acts[i].op = "put" /\ acts[i].job = j /\ jobs[j] = acts[i].rec
               /\ \A j \in Jobs \ DOMAIN jobs :
                      j \in DOMAIN m \/ Lines(acts, j) # {} =>
                          \E i \in DOMAIN acts : acts[i].op = "del" /\ acts[i].job = j
               /\ ~Merged(m, acts).changed =>
                      jobs = m /\ \A i \in DOMAIN acts : acts[i].op = "del"
<1> DEFINE jobs == Merged(m, acts).jobs
           D == {k \in Jobs : IF Lines(acts, k) = {} THEN k \in DOMAIN m
                              ELSE LastLine(acts, k).op = "put"}
<1>1. /\ DOMAIN jobs = D
      /\ jobs = [j \in D |-> IF Lines(acts, j) = {} THEN m[j] ELSE LastLine(acts, j).rec]
  BY DEF Merged
<1>2. Merged(m, acts).changed <=>
          \E i \in DOMAIN acts : acts[i].op = "put" \/ acts[i].job \in DOMAIN m
  BY DEF Merged
<1> HIDE DEF jobs
<1>3. \A i \in DOMAIN acts : acts[i] \in Line
  OBVIOUS
<1>4. ASSUME NEW j \in Jobs, Lines(acts, j) # {}
      PROVE  \E i \in DOMAIN acts : acts[i].job = j /\ LastLine(acts, j) = acts[i]
  BY <1>4, LastLineIs
<1>5. ASSUME NEW j \in D
      PROVE  /\ jobs[j] \in JobRecords
             /\ \/ j \in DOMAIN m /\ jobs[j] = m[j]
                \/ \E i \in DOMAIN acts :
                      acts[i].op = "put" /\ acts[i].job = j /\ jobs[j] = acts[i].rec
  <2>1. CASE Lines(acts, j) = {}
    BY <1>1, <2>1 DEF IsStore
  <2>2. CASE Lines(acts, j) # {}
    <3>1. PICK i \in DOMAIN acts : acts[i].job = j /\ LastLine(acts, j) = acts[i]
      BY <1>4, <2>2
    <3>2. acts[i].op = "put" /\ jobs[j] = acts[i].rec
      BY <1>1, <2>2, <3>1
    <3> QED BY <1>3, <3>1, <3>2 DEF Line
  <2> QED BY <2>1, <2>2
<1>6. ASSUME NEW j \in Jobs \ D, j \in DOMAIN m \/ Lines(acts, j) # {}
      PROVE  \E i \in DOMAIN acts : acts[i].op = "del" /\ acts[i].job = j
  <2>1. Lines(acts, j) # {} /\ LastLine(acts, j).op # "put"
    BY <1>6
  <2>2. PICK i \in DOMAIN acts : acts[i].job = j /\ LastLine(acts, j) = acts[i]
    BY <1>4, <2>1
  <2> QED BY <1>3, <2>1, <2>2 DEF Line
<1>7. ASSUME ~Merged(m, acts).changed
      PROVE  jobs = m /\ \A i \in DOMAIN acts : acts[i].op = "del"
  <2>1. \A i \in DOMAIN acts : acts[i].op = "del" /\ acts[i].job \notin DOMAIN m
    BY <1>2, <1>3, <1>7 DEF Line
  <2>2. ASSUME NEW j \in Jobs, Lines(acts, j) # {}
        PROVE  j \notin DOMAIN m /\ LastLine(acts, j).op # "put"
    BY <1>4, <2>1, <2>2
  <2>3. D = DOMAIN m
    BY <2>2 DEF IsStore
  <2>4. \A j \in D : jobs[j] = m[j]
    BY <1>1, <2>2, <2>3
  <2> QED BY <1>1, <2>1, <2>3, <2>4 DEF IsStore
<1>8. IsStore(jobs)
  BY <1>1, <1>5 DEF IsStore
<1> QED BY <1>1, <1>5, <1>6, <1>7, <1>8 DEF jobs

\* A next run is never, or still to come.
LEMMA ComputeIs ==
    ASSUME CronAssumption, NEW j \in Jobs, NEW t \in Nat
    PROVE  /\ ComputeNextRun(j, t) \in Nat
           /\ ComputeNextRun(j, t) # Never => ComputeNextRun(j, t) > t
BY DEF CronAssumption, ComputeNextRun, Never

\* A store with one record more, or another one.
LEMMA PutIs ==
    ASSUME NEW m, IsStore(m), NEW j \in Jobs, NEW rec \in JobRecords
    PROVE  /\ IsStore(Put(m, j, rec))
           /\ DOMAIN Put(m, j, rec) = DOMAIN m \cup {j}
           /\ Put(m, j, rec)[j] = rec
           /\ \A k \in DOMAIN m \ {j} : Put(m, j, rec)[k] = m[k]
BY DEF IsStore, Put

\* A store with a job less.
LEMMA WithoutIs ==
    ASSUME NEW m, IsStore(m), NEW j
    PROVE  /\ IsStore(Without(m, j))
           /\ DOMAIN Without(m, j) = DOMAIN m \ {j}
           /\ \A k \in DOMAIN m \ {j} : Without(m, j)[k] = m[k]
BY DEF IsStore, Without, Restrict

\* A job that was added, enabled or updated.
LEMMA NewJobIs ==
    ASSUME CronAssumption, now \in Nat, NEW j \in Jobs
    PROVE  NewJob(j) \in JobRecords /\ NewJob(j).enabled /\ NewJob(j).next = ComputeNextRun(j, now)
BY ComputeIs DEF NewJob, JobRecords, Never

LEMMA EnabledIs ==
    ASSUME CronAssumption, now \in Nat, NEW m, IsStore(m), NEW j \in DOMAIN m, NEW b \in BOOLEAN
    PROVE  /\ IsStore(Enabled(m, j, b)) /\ DOMAIN Enabled(m, j, b) = DOMAIN m
           /\ Enabled(m, j, b)[j].enabled = b
           /\ Enabled(m, j, b)[j].next = IF b THEN ComputeNextRun(j, now) ELSE Never
<1> DEFINE n == IF b THEN ComputeNextRun(j, now) ELSE Never
           rec == [m[j] EXCEPT !.enabled = b, !.next = n]
<1>1. j \in Jobs /\ m[j] \in JobRecords
  BY DEF IsStore
<1>2. n \in Nat
  BY <1>1, ComputeIs DEF Never
<1>3. Enabled(m, j, b) = Put(m, j, rec)
  BY DEF Enabled
<1> HIDE DEF n
<1>4. rec \in JobRecords /\ rec.enabled = b /\ rec.next = n
  BY <1>1, <1>2 DEF JobRecords
<1> HIDE DEF rec
<1>5. /\ IsStore(Put(m, j, rec)) /\ DOMAIN Put(m, j, rec) = DOMAIN m \cup {j}
      /\ Put(m, j, rec)[j] = rec
  BY <1>1, <1>4, PutIs
<1> QED BY <1>3, <1>4, <1>5 DEF n

\* What an execution makes of the store: the job is deleted, or it has a next run that
\* is still to come or none; the others stay, and so does a job of another store.
LEMMA FinishedIs ==
    ASSUME CronAssumption, now \in Nat, NEW m, IsStore(m), NEW j \in Jobs,
           NEW start \in Nat, NEW own \in BOOLEAN
    PROVE  LET f == Finished(m, j, start, own)
           IN  /\ IsStore(f)
               /\ DOMAIN m \ Deleted(j) \subseteq DOMAIN f /\ DOMAIN f \subseteq DOMAIN m
               /\ \A k \in DOMAIN f \ {j} : f[k] = m[k]
               /\ own /\ j \in DOMAIN f =>
                      /\ f[j].last = start
                      /\ f[j].next # Never => f[j].next > now
                      /\ m[j].enabled => Cleared(f[j])
<1> DEFINE f == Finished(m, j, start, own)
<1>1. CASE Kind[j] = "once"
  <2>1. f = Without(m, j) /\ Deleted(j) = {j}
    BY <1>1 DEF Finished, Deleted
  <2>2. /\ IsStore(Without(m, j)) /\ DOMAIN Without(m, j) = DOMAIN m \ {j}
        /\ \A k \in DOMAIN m \ {j} : Without(m, j)[k] = m[k]
    BY WithoutIs
  <2> HIDE DEF f
  <2>3. IsStore(f) /\ DOMAIN f = DOMAIN m \ {j} /\ \A k \in DOMAIN f \ {j} : f[k] = m[k]
    BY <2>1, <2>2
  <2> QED BY <2>1, <2>3 DEF f
<1>2. CASE Kind[j] # "once" /\ (~own \/ j \notin DOMAIN m)
  <2>1. f = m /\ Deleted(j) = {}
    BY <1>2 DEF Finished, Deleted
  <2> QED BY <1>2, <2>1
<1>3. ASSUME own, j \in DOMAIN m, NEW rec \in JobRecords, f = Put(m, j, rec), Deleted(j) = {},
             rec.last = start, rec.next # Never => rec.next > now, m[j].enabled => Cleared(rec)
      PROVE  /\ IsStore(f)
             /\ DOMAIN m \ Deleted(j) \subseteq DOMAIN f /\ DOMAIN f \subseteq DOMAIN m
             /\ \A k \in DOMAIN f \ {j} : f[k] = m[k]
             /\ f[j].last = start
             /\ f[j].next # Never => f[j].next > now
             /\ m[j].enabled => Cleared(f[j])
  <2> HIDE DEF f
  <2>1. /\ IsStore(Put(m, j, rec)) /\ DOMAIN Put(m, j, rec) = DOMAIN m \cup {j}
        /\ Put(m, j, rec)[j] = rec
        /\ \A k \in DOMAIN m \ {j} : Put(m, j, rec)[k] = m[k]
    <3>1. rec \in JobRecords
      BY <1>3
    <3> QED BY <3>1 DEF Put, IsStore
  <2>2. DOMAIN f = DOMAIN m /\ f[j] = rec /\ IsStore(f)
    BY <1>3, <2>1
  <2>3. \A k \in DOMAIN f \ {j} : f[k] = m[k]
    BY <1>3, <2>1, <2>2
  <2>4. DOMAIN m \ Deleted(j) \subseteq DOMAIN f /\ DOMAIN f \subseteq DOMAIN m
    BY <2>2
  <2>5. f[j].last = start /\ (f[j].next # Never => f[j].next > now) /\ (m[j].enabled => Cleared(f[j]))
    BY <1>3, <2>2
  <2> QED BY <2>2, <2>3, <2>4, <2>5
<1>4. CASE Kind[j] = "every" /\ own /\ j \in DOMAIN m
  <2> DEFINE rec == [m[j] EXCEPT !.next = ComputeNextRun(j, now), !.last = start]
  <2>1. f = Put(m, j, rec) /\ Deleted(j) = {}
    BY <1>4 DEF Finished, Deleted
  <2>2. m[j] \in JobRecords
    BY <1>4 DEF IsStore
  <2>3. ComputeNextRun(j, now) \in Nat /\ ComputeNextRun(j, now) > now
    BY <1>4 DEF ComputeNextRun, CronAssumption
  <2>4. /\ rec \in JobRecords /\ rec.last = start /\ rec.next > now
        /\ m[j].enabled => Cleared(rec)
    BY <2>2, <2>3 DEF JobRecords, Cleared
  <2> HIDE DEF rec, f
  <2> QED BY <1>3, <1>4, <2>1, <2>4 DEF f
<1>5. CASE Kind[j] = "once_keep" /\ own /\ j \in DOMAIN m
  <2> DEFINE rec == [m[j] EXCEPT !.enabled = FALSE, !.next = Never, !.last = start]
  <2>1. f = Put(m, j, rec) /\ Deleted(j) = {}
    BY <1>5 DEF Finished, Deleted
  <2>2. m[j] \in JobRecords
    BY <1>5 DEF IsStore
  <2>3. rec \in JobRecords /\ rec.last = start /\ rec.next = Never /\ Cleared(rec)
    BY <2>2 DEF JobRecords, Never, Cleared
  <2> HIDE DEF rec, f
  <2> QED BY <1>3, <1>5, <2>1, <2>3 DEF f
<1>6. Kind[j] \in {"every", "once", "once_keep"}
  BY DEF CronAssumption
<1> HIDE DEF f
<1> QED BY <1>1, <1>2, <1>4, <1>5, <1>6 DEF f

----------------------------------------------------------------------------
(* Loading, saving and arming. *)

\* The values the proofs use: nobody looks at the bounds on calls.
Types ==
    /\ now \in Nat
    /\ IsStore(disk) /\ IsStore(mem) /\ actions \in Seq(Line)
    /\ up \in BOOLEAN /\ timerActive \in BOOLEAN
    /\ timer \in 0..TickSlots
    /\ tick \in [Slots -> Tasks] /\ manual \in Tasks
    /\ \A d \in reader : IsStore(d)
    /\ reader # {} => \E d : reader = {d}
    /\ fired \subseteq Jobs \X Nat
    /\ twice \cup acked \cup gone \subseteq Jobs

\* What loading gives is a store, and the lines stay lines.
LEMMA LoadedIs ==
    ASSUME Types
    PROVE  /\ IsStore(Loaded.jobs) /\ Loaded.changed \in BOOLEAN
           /\ Loaded = IF timerActive THEN [jobs |-> mem, changed |-> FALSE]
                                      ELSE Merged(disk, actions)
<1>0. IsStore(disk) /\ IsStore(mem) /\ actions \in Seq(Line)
  BY DEF Types
<1>1. IsStore(Merged(disk, actions).jobs) /\ Merged(disk, actions).changed \in BOOLEAN
  <2>1. IsStore(Merged(disk, actions).jobs)
    BY <1>0, MergedIs
  <2>2. Merged(disk, actions).changed \in BOOLEAN
    BY DEF Merged
  <2> QED BY <2>1, <2>2
<1>2. Loaded = IF timerActive THEN [jobs |-> mem, changed |-> FALSE] ELSE Merged(disk, actions)
  BY DEF Types, Loaded, Reloads
<1> QED BY <1>0, <1>1, <1>2

LEMMA LoadOnlyIs ==
    ASSUME Types, LoadOnly
    PROVE  IsStore(mem') /\ IsStore(disk') /\ actions' \in Seq(Line)
<1>1. IsStore(Loaded.jobs)
  BY LoadedIs
<1> QED BY <1>1 DEF Types, LoadOnly, IsStore

LEMMA LoadAndSaveIs ==
    ASSUME Types, NEW m, IsStore(m), LoadAndSave(m)
    PROVE  mem' = m /\ disk' = m /\ IsStore(mem') /\ IsStore(disk') /\ actions' \in Seq(Line)
BY DEF Types, LoadAndSave, IsStore

\* Reloading takes the store away from whoever executes, and nothing else.
LEMMA DisownIs ==
    ASSUME Types, NEW t \in Tasks
    PROVE  /\ Disown(t) \in Tasks
           /\ Disown(t).pc = t.pc /\ Disown(t).job = t.job /\ Disown(t).due = t.due
           /\ Disown(t).cancelled = t.cancelled /\ Disown(t).start = t.start
           /\ Disown(t).at = t.at
           /\ Disown(t).own = (t.own /\ timerActive)
BY DEF Types, Disown, Reloads, Tasks

LEMMA DisownedIs ==
    ASSUME Types
    PROVE  /\ Disowned \in [Slots -> Tasks] /\ Disown(manual) \in Tasks
           /\ \A s \in Slots : Disowned[s] = Disown(tick[s])
BY DisownIs DEF Types, Disowned

\* A timer is armed for a time.
LEMMA WakeIs ==
    ASSUME CronAssumption, now \in Nat, NEW m, IsStore(m)
    PROVE  Wake(m) \in Nat
<1> DEFINE D == {k \in DOMAIN m : m[k].enabled /\ m[k].next # Never}
           soon == {m[j].next : j \in D}
           next == IF soon = {} THEN now + MaxSleep ELSE Min(soon)
           last == {now, next}
           all == {now + MaxSleep, Max(last)}
<1>1. soon \subseteq Nat
  BY DEF IsStore, JobRecords
<1>2. MaxSleep \in Nat
  BY DEF CronAssumption
<1>3. next \in Nat
  <2> HIDE DEF soon
  <2>1. ASSUME soon # {} PROVE Min(soon) \in Nat
    BY <1>1, <2>1, MinIs
  <2> QED BY <1>2, <2>1
<1> HIDE DEF next
<1>4. Max(last) \in Nat
  <2>1. last \subseteq 0..now + next /\ last # {} /\ now + next \in Nat
    BY <1>3
  <2> HIDE DEF last
  <2>2. Max(last) \in last
    BY <2>1, MaxIn
  <2>3. last \subseteq Nat
    BY <2>1
  <2> QED BY <2>2, <2>3
<1> HIDE DEF last
<1>5. Min(all) \in all /\ all \subseteq Nat
  <2>1. all \subseteq Nat /\ all # {}
    BY <1>2, <1>4
  <2> HIDE DEF all
  <2> QED BY <2>1, MinIs
<1>6. Wake(m) = Min(all)
  BY DEF Wake, all, last, next
<1> QED BY <1>5, <1>6

\* Arming cancels the task that is in the timer's slot and puts a sleeping one into a
\* free slot.
LEMMA ArmTimerIs ==
    ASSUME CronAssumption, Types, NEW ts \in [Slots -> Tasks], NEW m, IsStore(m), ArmTimer(ts, m)
    PROVE  /\ timer' \in Slots
           /\ tick' \in [Slots -> Tasks]
           /\ tick'[timer'].pc = "sleep" /\ tick'[timer'].job = {} /\ tick'[timer'].due = {}
           /\ ~tick'[timer'].cancelled
           /\ timer' # timer => ts[timer'].pc = "none"
           /\ timer' = timer => ts[timer].pc # "run"
           /\ \A s \in Slots \ {timer'} :
                  tick'[s] = IF s = timer THEN Cancel(ts[s]) ELSE ts[s]
<1> DEFINE old == [s \in Slots |-> IF s = timer THEN Cancel(ts[s]) ELSE ts[s]]
           new == [NoTask EXCEPT !.pc = "sleep", !.at = Wake(m)]
<1>1. /\ FreeSlots(old) # {} /\ timer' = Min(FreeSlots(old))
      /\ tick' = [old EXCEPT ![timer'] = new]
  BY DEF ArmTimer
<1>2. NoTask \in Tasks
  BY DEF NoTask, Tasks, Singles, Never
<1>3. old \in [Slots -> Tasks]
  <2>1. ASSUME NEW t \in Tasks PROVE Cancel(t) \in Tasks
    <3>1. [t EXCEPT !.cancelled = TRUE] \in Tasks
      BY DEF Tasks
    <3> QED BY <1>2, <3>1 DEF Cancel
  <2> QED BY <2>1
<1>4. new \in Tasks /\ new.pc = "sleep" /\ new.job = {} /\ new.due = {} /\ ~new.cancelled
  BY <1>2, WakeIs DEF Types, Tasks, NoTask
<1>5. timer' \in Slots /\ old[timer'].pc = "none"
  <2>1. FreeSlots(old) \subseteq Nat
    BY DEF FreeSlots, Slots
  <2>2. Min(FreeSlots(old)) \in FreeSlots(old)
    BY <1>1, <2>1, MinIs
  <2> QED BY <1>1, <2>2 DEF FreeSlots
<1> HIDE DEF new
<1>6. timer' = timer => ts[timer].pc # "run"
  BY <1>5 DEF Cancel, Tasks
<1>7. timer' # timer => ts[timer'].pc = "none"
  BY <1>5
<1>8. \A s \in Slots \ {timer'} : tick'[s] = old[s]
  BY <1>1, <1>3, <1>5
<1>9. tick'[timer'] = new
  BY <1>1, <1>3, <1>5
<1> HIDE DEF old
<1>10. tick' \in [Slots -> Tasks]
  BY <1>1, <1>3, <1>4, <1>5
<1> QED BY <1>4, <1>5, <1>6, <1>7, <1>8, <1>9, <1>10 DEF old

----------------------------------------------------------------------------
(* Types. *)

LEMMA InitTypes == ASSUME CronAssumption, Init PROVE Types
<1>1. NoTask \in Tasks
  BY DEF NoTask, Tasks, Singles, Never
<1>2. IsStore(<<>>) /\ <<>> \in Seq(Line)
  BY DEF IsStore
<1>3. /\ now \in Nat /\ IsStore(disk) /\ IsStore(mem) /\ actions \in Seq(Line)
      /\ timer \in 0..TickSlots
  BY <1>2 DEF Init, CronAssumption
<1>4. tick \in [Slots -> Tasks] /\ manual \in Tasks
  BY <1>1 DEF Init
<1> QED BY <1>3, <1>4 DEF Init, Types

\* What another process has read, with the lines it has seen.
LEMMA SeenIs ==
    ASSUME Types, reader # {}
    PROVE  IsStore(Seen)
<1>1. IsStore(CHOOSE d \in reader : TRUE) /\ actions \in Seq(Line)
  BY DEF Types
<1> QED BY <1>1, MergedIs DEF Seen

LEMMA OfflineTypes == ASSUME CronAssumption, Types, Offline PROVE Types'
<1>1. ASSUME NEW op \in {"put", "del"}, NEW j \in Jobs, NEW rec \in JobRecords,
             AppendAction(op, j, rec)
      PROVE  actions' \in Seq(Line)
  <2>1. [op |-> op, job |-> j, rec |-> rec] \in Line
    BY DEF Line
  <2>2. actions \in Seq(Line)
    BY DEF Types
  <2> QED BY <1>1, <2>1, <2>2 DEF AppendAction
<1>2. CASE OfflineRead
  BY <1>2 DEF OfflineRead, Types, file, tasks, fires, counters
<1>3. ASSUME NEW j \in Jobs, OfflineAdd(j) PROVE Types'
  <2>1. NewJob(j) \in JobRecords
    BY NewJobIs DEF Types
  <2>2. actions' \in Seq(Line)
    BY <1>1, <1>3, <2>1 DEF OfflineAdd
  <2> QED BY <1>3, <2>2 DEF OfflineAdd, Types, tasks, fires
<1>4. ASSUME NEW j \in Jobs, OfflineRemove(j) PROVE Types'
  <2>1. Seen[j] \in JobRecords
    BY <1>4, SeenIs DEF OfflineRemove, IsStore
  <2>2. actions' \in Seq(Line)
    BY <1>1, <1>4, <2>1 DEF OfflineRemove
  <2> QED BY <1>4, <2>2 DEF OfflineRemove, Types, tasks, fires
<1>5. ASSUME NEW j \in Jobs, NEW b \in BOOLEAN, OfflineEnable(j, b) PROVE Types'
  <2>1. IsStore(Seen) /\ j \in DOMAIN Seen
    BY <1>5, SeenIs DEF OfflineEnable
  <2>2. Enabled(Seen, j, b)[j] \in JobRecords
    <3> DEFINE m == Seen
    <3>1. now \in Nat
      BY DEF Types
    <3> HIDE DEF m
    <3>2. IsStore(m) /\ j \in DOMAIN m
      BY <2>1 DEF m
    <3>3. IsStore(Enabled(m, j, b)) /\ DOMAIN Enabled(m, j, b) = DOMAIN m
      BY <3>1, <3>2, EnabledIs
    <3>4. Enabled(m, j, b)[j] \in JobRecords
      BY <3>2, <3>3 DEF IsStore
    <3> QED BY <3>4 DEF m
  <2>3. actions' \in Seq(Line)
    BY <1>1, <1>5, <2>2 DEF OfflineEnable
  <2> QED BY <1>5, <2>3 DEF OfflineEnable, Types, tasks, fires
<1> QED BY <1>2, <1>3, <1>4, <1>5 DEF Offline

\* What the gateway finds when it starts.
LEMMA StartIs ==
    ASSUME CronAssumption, Types, Start
    PROVE  LET found == Merged(IF SystemJobs = {} THEN disk ELSE Registered, actions)
           IN  /\ IsStore(IF SystemJobs = {} THEN disk ELSE Registered)
               /\ IsStore(found.jobs)
               /\ mem' = Recomputed(found.jobs) /\ disk' = mem' /\ IsStore(mem')
               /\ actions' = IF found.changed THEN <<>> ELSE actions
<1>1. IsStore(disk) /\ actions \in Seq(Line) /\ now \in Nat
  BY DEF Types
<1>2. SystemJobs \subseteq Jobs
  BY DEF CronAssumption
<1>3. IsStore(Registered)
  <2>1. IsStore(Merged(disk, actions).jobs)
    BY <1>1, MergedIs
  <2>2. \A j \in SystemJobs : NewJob(j) \in JobRecords
    BY <1>1, <1>2, NewJobIs
  <2> QED BY <1>2, <2>1, <2>2 DEF Registered, IsStore
<1> DEFINE base == IF SystemJobs = {} THEN disk ELSE Registered
<1>4. IsStore(base)
  BY <1>1, <1>3
<1>5. /\ mem' = Recomputed(Merged(base, actions).jobs) /\ disk' = mem'
      /\ actions' = IF Merged(base, actions).changed THEN <<>> ELSE actions
  BY DEF Start
<1> HIDE DEF base
<1>6. IsStore(Merged(base, actions).jobs)
  BY <1>1, <1>4, MergedIs
<1>7. ASSUME NEW m, IsStore(m) PROVE IsStore(Recomputed(m))
  <2>1. \A j \in DOMAIN m : m[j] \in JobRecords /\ ComputeNextRun(j, now) \in Nat
    BY <1>1, <1>7, ComputeIs DEF IsStore
  <2> QED BY <1>7, <2>1 DEF Recomputed, IsStore, JobRecords
<1> QED BY <1>4, <1>5, <1>6, <1>7 DEF base

LEMMA StartTypes == ASSUME CronAssumption, Types, Start PROVE Types'
<1>1. IsStore(mem') /\ disk' = mem' /\ actions' \in {<<>>, actions}
  BY StartIs
<1>2. timer' \in Slots /\ tick' \in [Slots -> Tasks]
  <2>1. PICK m : m = mem' /\ IsStore(m) /\ ArmTimer(tick, m)
    BY <1>1 DEF Start
  <2> QED BY <2>1, ArmTimerIs DEF Types
<1>3. IsStore(disk')
  BY <1>1 DEF IsStore
<1>4. actions' \in Seq(Line)
  <2>1. <<>> \in Seq(Line)
    OBVIOUS
  <2> QED BY <1>1, <2>1 DEF Types
<1>5. timer' \in 0..TickSlots
  BY <1>2 DEF Slots, CronAssumption
<1> QED BY <1>1, <1>2, <1>3, <1>4, <1>5 DEF Start, Types, fires, counters

LEMMA DownTypes == ASSUME CronAssumption, Types, Stop \/ CrashInMerge PROVE Types'
<1>1. NoTask \in Tasks
  BY DEF NoTask, Tasks, Singles, Never
<1>2. IsStore(<<>>) /\ <<>> \in Seq(Line)
  BY DEF IsStore
<1>3. /\ IsStore(mem') /\ timer' \in 0..TickSlots
      /\ tick' \in [Slots -> Tasks] /\ manual' \in Tasks
      /\ up' \in BOOLEAN /\ timerActive' \in BOOLEAN
  <2>1. /\ mem' = <<>> /\ timer' = 0 /\ manual' = NoTask
        /\ tick' = [s \in Slots |-> NoTask]
        /\ up' = FALSE /\ timerActive' = FALSE
    BY DEF Stop, CrashInMerge, GoDown
  <2>2. 0 \in 0..TickSlots
    BY DEF CronAssumption
  <2>3. [s \in Slots |-> NoTask] \in [Slots -> Tasks]
    BY <1>1
  <2>4. IsStore(mem')
    BY <1>2, <2>1
  <2> QED BY <1>1, <2>1, <2>2, <2>3, <2>4
<1>4. disk' = disk /\ actions' \in Seq(Line)
  BY <1>2 DEF Stop, CrashInMerge, file, Types
<1>5. UNCHANGED <<now, reader, fired, twice, acked, gone>>
  BY DEF Stop, CrashInMerge, GoDown, fires
<1> QED BY <1>3, <1>4, <1>5 DEF Types

\* The calls of the gateway.
LEMMA EditTypes ==
    ASSUME CronAssumption, Types, NEW m, IsStore(m), Edit(m), gone' \subseteq Jobs
    PROVE  Types'
<1>1. IsStore(mem') /\ IsStore(disk') /\ actions' \in Seq(Line)
  BY LoadAndSaveIs DEF Edit
<1>2. Disowned \in [Slots -> Tasks] /\ manual' \in Tasks
  BY DisownedIs DEF Edit
<1>3. timer' \in Slots /\ tick' \in [Slots -> Tasks]
  <2>1. ArmTimer(Disowned, m)
    BY DEF Edit
  <2> QED BY <1>2, <2>1, ArmTimerIs
<1>4. timer' \in 0..TickSlots
  BY <1>3 DEF Slots, CronAssumption
<1>5. UNCHANGED <<now, up, timerActive, reader, fired, twice, acked>>
  BY DEF Edit, fires
<1> QED BY <1>1, <1>2, <1>3, <1>4, <1>5 DEF Types

LEMMA MethodTypes == ASSUME CronAssumption, Types, Methods PROVE Types'
<1>0. IsStore(Loaded.jobs) /\ now \in Nat /\ gone \subseteq Jobs
  BY LoadedIs DEF Types
<1>1. CASE ListJobs
  <2>1. IsStore(mem') /\ IsStore(disk') /\ actions' \in Seq(Line)
    BY <1>1, LoadOnlyIs DEF ListJobs
  <2>2. tick' \in [Slots -> Tasks] /\ manual' \in Tasks
    BY <1>1, DisownedIs DEF ListJobs
  <2> QED BY <1>1, <2>1, <2>2 DEF ListJobs, Types, fires
<1>2. ASSUME NEW j \in Jobs, AddJob(j) PROVE Types'
  <2>1. NewJob(j) \in JobRecords
    BY <1>0, NewJobIs
  <2>2. PICK m : m = Put(Loaded.jobs, j, NewJob(j)) /\ Edit(m)
    BY <1>2 DEF AddJob
  <2>3. IsStore(m)
    BY <1>0, <2>1, <2>2, PutIs
  <2>4. gone' = gone
    BY <1>2 DEF AddJob
  <2> QED BY <1>0, <2>2, <2>3, <2>4, EditTypes
<1>3. ASSUME NEW j \in Jobs, RemoveJob(j) PROVE Types'
  <2>1. PICK m : m = Without(Loaded.jobs, j) /\ Edit(m)
    BY <1>3 DEF RemoveJob
  <2>2. IsStore(m)
    BY <1>0, <2>1, WithoutIs
  <2>3. gone' = gone \cup {j}
    BY <1>3 DEF RemoveJob
  <2> QED BY <1>0, <2>1, <2>2, <2>3, EditTypes
<1>4. ASSUME NEW j \in Jobs, NEW b \in BOOLEAN, j \in DOMAIN Loaded.jobs,
             Edit(Enabled(Loaded.jobs, j, b)), gone' = gone
      PROVE  Types'
  <2>1. PICK m : m = Loaded.jobs
    OBVIOUS
  <2>2. IsStore(Enabled(m, j, b))
    BY <1>0, <1>4, <2>1, EnabledIs
  <2> QED BY <1>0, <1>4, <2>1, <2>2, EditTypes
<1>5. ASSUME NEW j \in Jobs, NEW b \in BOOLEAN, EnableJob(j, b) PROVE Types'
  BY <1>4, <1>5 DEF EnableJob
<1>6. ASSUME NEW j \in Jobs, UpdateJob(j) PROVE Types'
  <2>1. j \in DOMAIN Loaded.jobs /\ Loaded.jobs[j].enabled \in BOOLEAN
    BY <1>0, <1>6 DEF UpdateJob, IsStore, JobRecords
  <2>2. Edit(Enabled(Loaded.jobs, j, Loaded.jobs[j].enabled)) /\ gone' = gone
    BY <1>6 DEF UpdateJob, Updated
  <2> QED BY <1>4, <2>1, <2>2
<1>7. ASSUME NEW j \in Jobs, AskRun(j) PROVE Types'
  <2>1. IsStore(mem') /\ IsStore(disk') /\ actions' \in Seq(Line)
    BY <1>7, LoadOnlyIs DEF AskRun
  <2>2. tick' \in [Slots -> Tasks]
    BY <1>7, DisownedIs DEF AskRun
  <2>3. manual' \in Tasks
    BY <1>7 DEF AskRun, NoTask, Tasks, Singles, Never
  <2> QED BY <1>7, <2>1, <2>2, <2>3 DEF AskRun, Types, fires
<1> QED BY <1>1, <1>2, <1>3, <1>5, <1>6, <1>7 DEF Methods

LEMMA RunTypes == ASSUME CronAssumption, Types, Runs PROVE Types'
<1>1. ASSUME NEW j \in Jobs, RunJob(j) PROVE Types'
  <2>1. IsStore(mem') /\ IsStore(disk') /\ actions' \in Seq(Line)
    BY <1>1, LoadOnlyIs DEF RunJob
  <2>2. tick' \in [Slots -> Tasks]
    BY <1>1, DisownedIs DEF RunJob
  <2>3. manual' \in Tasks
    BY <1>1 DEF RunJob, Types, NoTask, Tasks, Singles, Never
  <2> QED BY <1>1, <2>1, <2>2, <2>3 DEF RunJob, Types, fires
<1>2. ASSUME NEW j \in Jobs, RunRefused(j) PROVE Types'
  <2>1. IsStore(mem') /\ IsStore(disk') /\ actions' \in Seq(Line)
    BY <1>2, LoadOnlyIs DEF RunRefused
  <2>2. timer' \in Slots /\ tick' \in [Slots -> Tasks]
    <3>1. PICK m : m = mem' /\ ArmTimer(Disowned, m)
      BY <1>2 DEF RunRefused
    <3> QED BY <2>1, <3>1, DisownedIs, ArmTimerIs
  <2>3. timer' \in 0..TickSlots
    BY <2>2 DEF Slots, CronAssumption
  <2>4. manual' \in Tasks
    BY <1>2 DEF RunRefused, NoTask, Tasks, Singles, Never
  <2> QED BY <1>2, <2>1, <2>2, <2>3, <2>4 DEF RunRefused, Types, fires
<1>3. ASSUME NEW j \in Jobs, RunEnds(j) PROVE Types'
  <2>1. PICK m : m = Finished(mem, j, manual.start, manual.own) /\ mem' = m /\ disk' = m
                 /\ ArmTimer(tick, m)
    BY <1>3 DEF RunEnds
  <2>2. IsStore(m)
    <3>1. /\ now \in Nat /\ IsStore(mem) /\ manual.start \in Nat /\ manual.own \in BOOLEAN
      BY DEF Types, Tasks
    <3> QED BY <2>1, <3>1, FinishedIs
  <2>3. timer' \in Slots /\ tick' \in [Slots -> Tasks]
    BY <2>1, <2>2, ArmTimerIs DEF Types
  <2>4. timer' \in 0..TickSlots
    BY <2>3 DEF Slots, CronAssumption
  <2>5. manual' \in Tasks /\ gone' \subseteq Jobs
    BY <1>3 DEF RunEnds, Types, NoTask, Tasks, Singles, Never, Deleted
  <2>6. IsStore(mem') /\ IsStore(disk')
    BY <2>1, <2>2
  <2>7. UNCHANGED <<now, actions, up, timerActive, reader, fired, twice, acked>>
    BY <1>3 DEF RunEnds, fires
  <2> QED BY <2>3, <2>4, <2>5, <2>6, <2>7 DEF Types
<1> QED BY <1>1, <1>2, <1>3 DEF Runs

\* The timer tasks.
LEMMA IdleTypes ==
    ASSUME CronAssumption, Types, NEW s \in Slots, TickIdle(s)
    PROVE  Types'
<1>1. PICK m : m = Loaded.jobs /\ LoadAndSave(m)
  BY DEF TickIdle
<1>2. IsStore(m) /\ mem' = m /\ IsStore(mem') /\ IsStore(disk') /\ actions' \in Seq(Line)
  BY <1>1, LoadedIs, LoadAndSaveIs
<1>3. NoTask \in Tasks
  BY DEF NoTask, Tasks, Singles, Never
<1>4. timer' \in Slots /\ tick' \in [Slots -> Tasks] /\ manual' \in Tasks
  <2>1. PICK ts : ts = [Disowned EXCEPT ![s] = NoTask] /\ ArmTimer(ts, m)
    BY <1>2 DEF TickIdle
  <2>2. Disowned \in [Slots -> Tasks] /\ Disown(manual) \in Tasks
    BY DisownedIs
  <2>3. ts \in [Slots -> Tasks]
    BY <1>3, <2>1, <2>2
  <2> QED BY <1>2, <2>1, <2>2, <2>3, ArmTimerIs DEF TickIdle
<1>5. timer' \in 0..TickSlots
  BY <1>4 DEF Slots, CronAssumption
<1> QED BY <1>2, <1>4, <1>5 DEF TickIdle, Types, fires, counters

\* A tick begins: on the store it has loaded, with the jobs that are due.
LEMMA FiresTypes ==
    ASSUME CronAssumption, Types, NEW s \in Slots, NEW j \in Jobs, TickFires(s, j)
    PROVE  /\ Types'
           /\ j \in DOMAIN mem' /\ mem' = Loaded.jobs
           /\ tick'[s].due = {<<k, mem'[k].next>> : k \in Due(mem') \ {j}}
           /\ tick'[s].job = {j} /\ tick'[s].own /\ tick'[s].pc = "run"
           /\ tick'[s].cancelled = tick[s].cancelled
           /\ \A r \in Slots \ {s} : tick'[r] = Disown(tick[r])
<1>1. IsStore(mem') /\ IsStore(disk') /\ actions' \in Seq(Line) /\ mem' = Loaded.jobs
  BY LoadOnlyIs DEF TickFires, LoadOnly
<1>2. Disowned \in [Slots -> Tasks] /\ manual' \in Tasks
  BY DisownedIs DEF TickFires
<1> DEFINE due == {<<k, mem'[k].next>> : k \in Due(mem') \ {j}}
           t == [Disowned[s] EXCEPT !.pc = "run", !.job = {j}, !.start = now, !.own = TRUE,
                                    !.due = due]
<1>3. due \subseteq Jobs \X Nat
  BY <1>1 DEF Due, IsStore, JobRecords
<1>4. j \in DOMAIN mem' /\ mem'[j].next \in Nat
  BY <1>1 DEF TickFires, Due, IsStore, JobRecords
<1>5. tick' = [Disowned EXCEPT ![s] = t]
  BY DEF TickFires
<1>6. Disowned[s].cancelled = tick[s].cancelled /\ tick[s].pc = "sleep"
  BY DisownedIs, DisownIs DEF TickFires, Awake, Types
<1> HIDE DEF due
<1>7. now \in Nat
  BY DEF Types
<1>8. /\ t \in Tasks
      /\ t.due = due /\ t.job = {j} /\ t.own /\ t.pc = "run" /\ t.cancelled = tick[s].cancelled
  <2>1. PICK d \in Tasks : d = Disowned[s]
    BY <1>2
  <2>2. {j} \in Singles
    BY DEF Singles
  <2> QED BY <1>3, <1>6, <1>7, <2>1, <2>2 DEF Tasks
<1> HIDE DEF t
<1>9. tick' \in [Slots -> Tasks] /\ tick'[s] = t /\ \A r \in Slots \ {s} : tick'[r] = Disowned[r]
  BY <1>2, <1>5, <1>8
<1>10. fired' \subseteq Jobs \X Nat /\ twice' \subseteq Jobs
  BY <1>4 DEF TickFires, Fire, Types
<1>11. Types'
  <2>1. UNCHANGED <<now, up, timer, reader, acked, gone>> /\ timerActive' = TRUE
    BY DEF TickFires
  <2> QED BY <1>1, <1>2, <1>9, <1>10, <2>1 DEF Types
<1>12. \A r \in Slots \ {s} : tick'[r] = Disown(tick[r])
  BY <1>9, DisownedIs
<1>13. tick'[s].cancelled = tick[s].cancelled
  BY <1>6, <1>8, <1>9
<1> QED BY <1>1, <1>4, <1>8, <1>9, <1>11, <1>12, <1>13 DEF due

\* An execution in a tick ends, and the tick with it.
LEMMA EndsIs ==
    ASSUME CronAssumption, Types, NEW s \in Slots, NEW j \in Jobs, TickEnds(s, j)
    PROVE  /\ Types'
           /\ mem' = Finished(mem, j, tick[s].start, tick[s].own) /\ disk' = mem'
           /\ ArmTimer([tick EXCEPT ![s] = NoTask], mem')
           /\ [tick EXCEPT ![s] = NoTask] \in [Slots -> Tasks]
<1>1. PICK m : /\ m = Finished(mem, j, tick[s].start, tick[s].own) /\ mem' = m /\ disk' = m
               /\ ArmTimer([tick EXCEPT ![s] = NoTask], m)
  BY DEF TickEnds
<1>2. IsStore(m)
  <2>1. now \in Nat /\ IsStore(mem) /\ tick[s].start \in Nat /\ tick[s].own \in BOOLEAN
    BY DEF Types, Tasks
  <2> QED BY <1>1, <2>1, FinishedIs
<1>3. NoTask \in Tasks
  BY DEF NoTask, Tasks, Singles, Never
<1>4. [tick EXCEPT ![s] = NoTask] \in [Slots -> Tasks]
  BY <1>3 DEF Types
<1>5. timer' \in Slots /\ tick' \in [Slots -> Tasks]
  BY <1>1, <1>2, <1>4, ArmTimerIs
<1>6. timer' \in 0..TickSlots
  BY <1>5 DEF Slots, CronAssumption
<1>7. gone' \subseteq Jobs
  BY DEF TickEnds, Types, Deleted
<1>8. IsStore(mem') /\ IsStore(disk') /\ timerActive' = FALSE
  BY <1>1, <1>2 DEF TickEnds
<1>9. UNCHANGED <<now, actions, up, manual, reader, fired, twice, acked>>
  BY DEF TickEnds, fires
<1> QED BY <1>1, <1>4, <1>5, <1>6, <1>7, <1>8, <1>9 DEF Types

\* It ends, and the next due job is executed.
LEMMA GoesOnIs ==
    ASSUME CronAssumption, Types, NEW s \in Slots, NEW j \in Jobs, NEW k \in Jobs,
           NEW t \in 1..Horizon, TickGoesOn(s, j, k, t)
    PROVE  /\ Types'
           /\ mem' = Finished(mem, j, tick[s].start, tick[s].own)
           /\ tick'[s].job = {k} /\ tick'[s].due = tick[s].due \ {<<k, t>>}
           /\ tick'[s].pc = tick[s].pc /\ tick'[s].cancelled = tick[s].cancelled
           /\ tick'[s].own = tick[s].own
           /\ \A r \in Slots \ {s} : tick'[r] = tick[r]
<1>1. mem' = Finished(mem, j, tick[s].start, tick[s].own)
  BY DEF TickGoesOn
<1>2. IsStore(mem')
  <2>1. now \in Nat /\ IsStore(mem) /\ tick[s].start \in Nat /\ tick[s].own \in BOOLEAN
    BY DEF Types, Tasks
  <2> QED BY <1>1, <2>1, FinishedIs
<1> DEFINE n == [tick[s] EXCEPT !.job = {k}, !.start = now, !.due = @ \ {<<k, t>>}]
<1>3. tick' = [tick EXCEPT ![s] = n]
  BY DEF TickGoesOn, Types, Tasks
<1>4. /\ n \in Tasks /\ n.job = {k} /\ n.due = tick[s].due \ {<<k, t>>}
      /\ n.pc = tick[s].pc /\ n.cancelled = tick[s].cancelled /\ n.own = tick[s].own
  <2>1. PICK d \in Tasks : d = tick[s]
    BY DEF Types
  <2>2. {k} \in Singles
    BY DEF Singles
  <2>3. now \in Nat
    BY DEF Types
  <2> QED BY <2>1, <2>2, <2>3 DEF Tasks
<1> HIDE DEF n
<1>5. tick' \in [Slots -> Tasks] /\ tick'[s] = n /\ \A r \in Slots \ {s} : tick'[r] = tick[r]
  BY <1>3, <1>4 DEF Types
<1>6. fired' \subseteq Jobs \X Nat /\ twice' \subseteq Jobs
  <2>1. <<k, t>> \in tick[s].due /\ tick[s].due \subseteq Jobs \X Nat
    BY DEF TickGoesOn, Types, Tasks
  <2> QED BY <2>1 DEF TickGoesOn, Fire, Types
<1>7. gone' \subseteq Jobs
  BY DEF TickGoesOn, Types, Deleted
<1>8. UNCHANGED <<now, disk, actions, up, timerActive, timer, manual, reader, acked>>
  BY DEF TickGoesOn, file
<1> QED BY <1>1, <1>2, <1>4, <1>5, <1>6, <1>7, <1>8 DEF Types

LEMMA CancelledTypes ==
    ASSUME CronAssumption, Types, NEW s \in Slots, TickCancelled(s)
    PROVE  Types'
<1>1. NoTask \in Tasks
  BY DEF NoTask, Tasks, Singles, Never
<1> QED BY <1>1 DEF TickCancelled, Types, file, fires

\* Every step keeps the types.
LEMMA TypesStep == ASSUME CronAssumption, Types, [Next]_vars PROVE Types'
<1>1. CASE Clock
  <2>1. now' \in Nat
    BY <1>1 DEF Clock, Types
  <2>2. UNCHANGED <<disk, actions, up, mem, timerActive, timer, tick, manual, reader, fired, twice,
                    acked, gone>>
    BY <1>1 DEF Clock, file, tasks, fires
  <2> QED BY <2>1, <2>2 DEF Types
<1>2. CASE Timers
  BY <1>2, IdleTypes, FiresTypes, EndsIs, GoesOnIs, CancelledTypes DEF Timers
<1>3. CASE UNCHANGED vars
  BY <1>3 DEF vars, Types
<1> QED
  BY <1>1, <1>2, <1>3, OfflineTypes, StartTypes, DownTypes, MethodTypes, RunTypes DEF Next

----------------------------------------------------------------------------
(* Values every variable takes. *)

Bounded ==
    /\ now \in 1..Horizon
    /\ calls \in 0..MaxCalls /\ offline \in 0..MaxOffline /\ stops \in 0..MaxStops

LEMMA BoundedStep == ASSUME CronAssumption, Bounded, [Next]_vars PROVE Bounded'
<1> USE DEF Bounded
<1>0. MaxCalls \in Nat /\ MaxOffline \in Nat /\ MaxStops \in Nat /\ Horizon \in Nat
  BY DEF CronAssumption, Horizon
<1>1. CASE Clock
  BY <1>0, <1>1 DEF Clock, counters
<1>2. CASE Offline
  BY <1>0, <1>2 DEF Offline, OfflineRead, OfflineAdd, OfflineRemove, OfflineEnable, CallOffline,
                    counters
<1>3. CASE Start \/ UNCHANGED vars
  BY <1>3 DEF Start, vars, counters
<1>4. CASE Stop \/ CrashInMerge
  BY <1>0, <1>4 DEF Stop, CrashInMerge, GoDown
<1>5. CASE Methods
  <2>1. ASSUME NEW op, Call(op) PROVE calls' \in 0..MaxCalls
    BY <1>0, <2>1 DEF Call
  <2>2. CASE ListJobs
    BY <2>1, <2>2 DEF ListJobs
  <2>3. ASSUME NEW op, NEW m, Call(op), Edit(m) PROVE Bounded'
    BY <2>1, <2>3 DEF Edit
  <2>4. ASSUME NEW j \in Jobs, AskRun(j) PROVE Bounded'
    BY <2>1, <2>4 DEF AskRun
  <2> QED BY <1>5, <2>2, <2>3, <2>4 DEF Methods, AddJob, RemoveJob, EnableJob, UpdateJob
<1>6. CASE Timers
  <2> DEFINE Same == UNCHANGED <<now, counters>>
  <2>1. \A s \in Slots : TickIdle(s) \/ TickCancelled(s) => Same
    BY DEF TickIdle, TickCancelled
  <2>2. \A s \in Slots, j \in Jobs : TickFires(s, j) \/ TickEnds(s, j) => Same
    BY DEF TickFires, TickEnds
  <2>3. \A s \in Slots, j \in Jobs, k \in Jobs, t \in 1..Horizon : TickGoesOn(s, j, k, t) => Same
    BY DEF TickGoesOn
  <2>4. Same
    <3> HIDE DEF Same
    <3> QED BY <1>6, <2>1, <2>2, <2>3 DEF Timers
  <2> QED BY <2>4 DEF counters
<1>7. CASE Runs
  BY <1>7 DEF Runs, RunJob, RunRefused, RunEnds, counters
<1> QED BY <1>1, <1>2, <1>3, <1>4, <1>5, <1>6, <1>7 DEF Next

\* Type correctness of the scheduler, its files and its tasks.
THEOREM TypeCorrect == Spec => []TypeOK
<1>1. Init => Types /\ Bounded
  <2>1. Init => Bounded
    BY CronAssumption DEF Init, Bounded, CronAssumption, Horizon
  <2> QED BY <2>1, CronAssumption, InitTypes
<1>2. Types /\ Bounded /\ [Next]_vars => (Types /\ Bounded)'
  BY CronAssumption, TypesStep, BoundedStep
<1>3. Types /\ Bounded => TypeOK
  BY DEF Types, Bounded, TypeOK, Line
<1> QED BY <1>1, <1>2, <1>3, PTL DEF Spec

LEMMA AlwaysTypes == Spec => []Types
<1>1. Init => Types
  BY CronAssumption, InitTypes
<1>2. Types /\ [Next]_vars => Types'
  BY CronAssumption, TypesStep
<1> QED BY <1>1, <1>2, PTL DEF Spec

----------------------------------------------------------------------------
(* Tasks that are in no job. *)

LEMMA ArmedRests ==
    ASSUME CronAssumption, Types, NEW ts \in [Slots -> Tasks], NEW m, IsStore(m), ArmTimer(ts, m),
           AtRest(ts)
    PROVE  AtRest(tick')
<1>1. ASSUME NEW t \in Tasks PROVE Cancel(t).pc # "run" => Cancel(t) = NoTask
  BY <1>1 DEF Cancel, NoTask, Tasks
<1>2. NoTask.job = {} /\ NoTask.due = {} /\ ~NoTask.cancelled
  BY DEF NoTask
<1>3. ASSUME NEW s \in Slots, tick'[s].pc # "run"
      PROVE  tick'[s].job = {} /\ tick'[s].due = {} /\ ~tick'[s].cancelled
  <2>1. CASE s = timer'
    BY <2>1, ArmTimerIs
  <2>2. CASE s # timer'
    <3>1. tick'[s] = IF s = timer THEN Cancel(ts[s]) ELSE ts[s]
      BY <2>2, ArmTimerIs
    <3> QED BY <1>1, <1>2, <1>3, <3>1 DEF AtRest
  <2> QED BY <2>1, <2>2
<1> QED BY <1>3 DEF AtRest

LEMMA DisownedRests ==
    ASSUME Types, AtRest(tick)
    PROVE  AtRest(Disowned)
<1>1. \A s \in Slots : tick[s] \in Tasks
  BY DEF Types
<1> QED BY <1>1, DisownedIs, DisownIs DEF AtRest

LEMMA RestsStep == ASSUME CronAssumption, Types, AtRest(tick), [Next]_vars PROVE AtRest(tick')
<1>1. CASE Clock \/ Offline \/ UNCHANGED vars
  <2>1. tick' = tick
    BY <1>1 DEF Clock, Offline, OfflineRead, OfflineAdd, OfflineRemove, OfflineEnable, tasks, vars
  <2> QED BY <2>1
<1>2. CASE Start
  <2>1. PICK m : m = mem' /\ IsStore(m) /\ ArmTimer(tick, m)
    BY <1>2, StartIs DEF Start
  <2> QED BY <2>1, ArmedRests DEF Types
<1>3. CASE Stop \/ CrashInMerge
  BY <1>3 DEF Stop, CrashInMerge, GoDown, AtRest, NoTask
<1>4. ASSUME tick' = Disowned PROVE AtRest(tick')
  BY <1>4, DisownedRests
<1>5. ASSUME NEW m, IsStore(m), ArmTimer(Disowned, m) PROVE AtRest(tick')
  BY <1>5, DisownedRests, DisownedIs, ArmedRests
<1>6. CASE Methods
  <2>1. CASE ListJobs \/ \E j \in Jobs : AskRun(j)
    BY <1>4, <2>1 DEF ListJobs, AskRun
  <2>2. ASSUME NEW m, IsStore(m), Edit(m) PROVE AtRest(tick')
    BY <1>5, <2>2 DEF Edit
  <2>3. now \in Nat /\ IsStore(Loaded.jobs)
    BY LoadedIs DEF Types
  <2>4. ASSUME NEW j \in Jobs, AddJob(j) PROVE AtRest(tick')
    <3>1. IsStore(Put(Loaded.jobs, j, NewJob(j))) /\ Edit(Put(Loaded.jobs, j, NewJob(j)))
      BY <2>3, <2>4, NewJobIs, PutIs DEF AddJob
    <3> QED BY <2>2, <3>1
  <2>5. ASSUME NEW j \in Jobs, RemoveJob(j) PROVE AtRest(tick')
    <3>1. IsStore(Without(Loaded.jobs, j)) /\ Edit(Without(Loaded.jobs, j))
      BY <2>3, <2>5, WithoutIs DEF RemoveJob
    <3> QED BY <2>2, <3>1
  <2>6. ASSUME NEW j \in Jobs, NEW b \in BOOLEAN, j \in DOMAIN Loaded.jobs,
               Edit(Enabled(Loaded.jobs, j, b))
        PROVE  AtRest(tick')
    <3>1. PICK m : m = Loaded.jobs
      OBVIOUS
    <3>2. IsStore(Enabled(m, j, b))
      BY <2>3, <2>6, <3>1, EnabledIs
    <3> QED BY <2>2, <2>6, <3>1, <3>2
  <2>7. ASSUME NEW j \in Jobs, UpdateJob(j) PROVE AtRest(tick')
    <3>1. j \in DOMAIN Loaded.jobs /\ Loaded.jobs[j].enabled \in BOOLEAN
      BY <2>3, <2>7 DEF UpdateJob, IsStore, JobRecords
    <3> QED BY <2>6, <2>7, <3>1 DEF UpdateJob, Updated
  <2> QED BY <1>6, <2>1, <2>4, <2>5, <2>6, <2>7 DEF Methods, EnableJob
<1>7. ASSUME NEW j \in Jobs, RunJob(j) \/ RunRefused(j) PROVE AtRest(tick')
  <2>1. LoadOnly /\ (tick' = Disowned \/ ArmTimer(Disowned, mem'))
    BY <1>7 DEF RunJob, RunRefused
  <2>2. PICK m : m = mem' /\ IsStore(m) /\ (tick' = Disowned \/ ArmTimer(Disowned, m))
    BY <2>1, LoadOnlyIs
  <2> QED BY <1>4, <1>5, <2>2
<1>8. ASSUME NEW j \in Jobs, RunEnds(j) PROVE AtRest(tick')
  <2>1. PICK m : m = Finished(mem, j, manual.start, manual.own) /\ ArmTimer(tick, m)
    BY <1>8 DEF RunEnds
  <2>2. IsStore(m)
    <3>1. now \in Nat /\ IsStore(mem) /\ manual.start \in Nat /\ manual.own \in BOOLEAN
      BY DEF Types, Tasks
    <3> QED BY <2>1, <3>1, FinishedIs
  <2> QED BY <2>1, <2>2, ArmedRests DEF Types
<1>9. NoTask \in Tasks /\ NoTask.job = {} /\ NoTask.due = {} /\ ~NoTask.cancelled
  BY DEF NoTask, Tasks, Singles, Never
<1>10. ASSUME NEW s \in Slots, TickIdle(s) PROVE AtRest(tick')
  <2>1. PICK m : m = Loaded.jobs /\ ArmTimer([Disowned EXCEPT ![s] = NoTask], m)
    BY <1>10 DEF TickIdle, LoadAndSave
  <2>2. PICK ts : ts = [Disowned EXCEPT ![s] = NoTask]
    OBVIOUS
  <2>3. ts \in [Slots -> Tasks] /\ AtRest(ts)
    BY <1>9, <2>2, DisownedRests, DisownedIs DEF AtRest
  <2>4. IsStore(m)
    BY <2>1, LoadedIs
  <2> QED BY <2>1, <2>2, <2>3, <2>4, ArmedRests
<1>11. ASSUME NEW s \in Slots, NEW j \in Jobs, TickFires(s, j) PROVE AtRest(tick')
  <2>1. tick'[s].pc = "run" /\ \A r \in Slots \ {s} : tick'[r] = Disowned[r]
    BY <1>11, FiresTypes, DisownedIs
  <2> QED BY <2>1, DisownedRests DEF AtRest
<1>12. ASSUME NEW s \in Slots, NEW j \in Jobs, TickEnds(s, j) PROVE AtRest(tick')
  <2>1. PICK m : m = mem' /\ ArmTimer([tick EXCEPT ![s] = NoTask], m) /\ IsStore(m)
    BY <1>12, EndsIs DEF Types
  <2>2. PICK ts : ts = [tick EXCEPT ![s] = NoTask]
    OBVIOUS
  <2>3. ts \in [Slots -> Tasks] /\ AtRest(ts)
    BY <1>9, <2>2 DEF AtRest, Types
  <2> QED BY <2>1, <2>2, <2>3, ArmedRests
<1>13. ASSUME NEW s \in Slots, NEW j \in Jobs, NEW k \in Jobs, NEW t \in 1..Horizon,
              TickGoesOn(s, j, k, t)
       PROVE  AtRest(tick')
  <2>1. tick[s].pc = "run"
    BY <1>13 DEF TickGoesOn, AtRest
  <2>2. tick'[s].pc = "run" /\ \A r \in Slots \ {s} : tick'[r] = tick[r]
    BY <1>13, <2>1, GoesOnIs
  <2> QED BY <2>2 DEF AtRest
<1>14. ASSUME NEW s \in Slots, TickCancelled(s) PROVE AtRest(tick')
  BY <1>9, <1>14 DEF TickCancelled, AtRest, Types
<1>15. CASE Runs
  BY <1>15, <1>7, <1>8 DEF Runs
<1>16. CASE Timers
  BY <1>16, <1>10, <1>11, <1>12, <1>13, <1>14 DEF Timers
<1> QED BY <1>1, <1>2, <1>3, <1>6, <1>15, <1>16 DEF Next

----------------------------------------------------------------------------
(* jobs.json is what the scheduler works with. *)

\* A store that was loaded is what is on disk, or the store of a tick, as it was.
LEMMA LoadsSaved ==
    ASSUME Types, LoadOnly
    PROVE  /\ mem' = Loaded.jobs
           /\ ~timerActive => disk' = mem'
           /\ timerActive => mem' = mem /\ disk' = disk
<1>1. mem' = Loaded.jobs /\ disk' = IF Loaded.changed THEN mem' ELSE disk
  BY DEF LoadOnly
<1>2. CASE timerActive
  BY <1>1, <1>2, LoadedIs
<1>3. CASE ~timerActive
  <2>1. Loaded = Merged(disk, actions)
    BY <1>3, LoadedIs
  <2>2. ~Merged(disk, actions).changed => Merged(disk, actions).jobs = disk
    <3>1. IsStore(disk) /\ actions \in Seq(Line)
      BY DEF Types
    <3> QED BY <3>1, MergedIs
  <2> QED BY <1>1, <1>3, <2>1, <2>2
<1> QED BY <1>1, <1>2, <1>3

LEMMA DisownedRuns ==
    ASSUME Types, tick' = Disowned
    PROVE  \A s \in Slots : tick'[s].pc = tick[s].pc /\ tick'[s].cancelled = tick[s].cancelled
<1>1. \A s \in Slots : tick[s] \in Tasks
  BY DEF Types
<1> QED BY <1>1, DisownedIs, DisownIs

LEMMA SavedStep ==
    ASSUME CronAssumption, "run_late" \notin Calls, Types, AtRest(tick), Saved, [Next]_vars
    PROVE  Saved'
<1>0. ASSUME disk' = mem' PROVE Saved'
  BY <1>0 DEF Saved
<1>1. CASE Clock \/ UNCHANGED vars
  BY <1>1 DEF Clock, vars, file, tasks, Saved
<1>2. CASE Offline
  BY <1>2 DEF Offline, OfflineRead, OfflineAdd, OfflineRemove, OfflineEnable, file, tasks, Saved
<1>3. CASE Start
  BY <1>0, <1>3 DEF Start
<1>4. CASE Stop \/ CrashInMerge
  BY <1>4 DEF Stop, CrashInMerge, GoDown, Saved
<1>5. CASE ListJobs
  <2>1. LoadOnly /\ tick' = Disowned /\ manual' = Disown(manual) /\ up' = up
    BY <1>5 DEF ListJobs
  <2>2. manual'.pc = manual.pc /\ manual'.job = manual.job
    BY <2>1, DisownIs DEF Types
  <2>3. CASE ~timerActive
    BY <1>0, <2>1, <2>3, LoadsSaved
  <2>4. CASE timerActive
    BY <2>1, <2>2, <2>4, LoadsSaved, DisownedRuns DEF Saved
  <2> QED BY <2>3, <2>4
<1>6. ASSUME NEW m, Edit(m) PROVE Saved'
  BY <1>0, <1>6 DEF Edit, LoadAndSave
<1>7. ASSUME NEW j \in Jobs, AskRun(j) PROVE Saved'
  <2>1. /\ LoadOnly /\ tick' = Disowned /\ up' = up
        /\ j \in DOMAIN Loaded.jobs /\ Loaded.jobs[j].enabled
        /\ manual'.job = {j}
    BY <1>7 DEF AskRun, NoTask
  <2>2. CASE ~timerActive
    BY <1>0, <2>1, <2>2, LoadsSaved
  <2>3. CASE timerActive
    BY <2>1, <2>3, LoadsSaved, DisownedRuns DEF Saved
  <2> QED BY <2>2, <2>3
<1>8. ASSUME NEW j \in Jobs, RunJob(j) PROVE Saved'
  <2>1. LoadOnly /\ tick' = Disowned /\ up' = up /\ manual'.pc = "run"
    BY <1>8 DEF RunJob, NoTask
  <2>2. CASE ~timerActive
    BY <1>0, <2>1, <2>2, LoadsSaved
  <2>3. CASE timerActive
    BY <2>1, <2>3, LoadsSaved, DisownedRuns DEF Saved
  <2> QED BY <2>2, <2>3
<1>9. ASSUME NEW j \in Jobs, RunRefused(j) PROVE Saved'
  <2>1. /\ LoadOnly /\ up' = up /\ manual.pc = "asked" /\ manual.job = {j}
        /\ j \in DOMAIN Loaded.jobs => ~Loaded.jobs[j].enabled
    BY <1>9 DEF RunRefused
  <2>2. CASE ~timerActive
    BY <1>0, <2>1, <2>2, LoadsSaved
  <2>3. CASE timerActive
    <3>1. Loaded.jobs = mem /\ mem' = mem /\ disk' = disk
      BY <2>1, <2>3, LoadsSaved
    <3>2. ~(up /\ disk # mem)
      BY <2>1, <3>1 DEF Saved
    <3> QED BY <2>1, <3>1, <3>2 DEF Saved
  <2> QED BY <2>2, <2>3
<1>10. ASSUME NEW j \in Jobs, RunEnds(j) PROVE Saved'
  BY <1>0, <1>10 DEF RunEnds
<1>11. ASSUME NEW s \in Slots, TickIdle(s) PROVE Saved'
  BY <1>0, <1>11 DEF TickIdle, LoadAndSave
<1>12. ASSUME NEW s \in Slots, NEW j \in Jobs, TickFires(s, j) PROVE Saved'
  <2>1. LoadOnly /\ manual' = Disown(manual) /\ up' = up /\ tick[s].pc = "sleep"
    BY <1>12 DEF TickFires, Awake
  <2>2. manual'.pc = manual.pc /\ manual'.job = manual.job
    BY <2>1, DisownIs DEF Types
  <2>3. CASE ~timerActive
    BY <1>0, <2>1, <2>3, LoadsSaved
  <2>4. CASE timerActive
    <3>1. \A r \in Slots \ {s} : tick'[r] = Disown(tick[r])
      BY <1>12, FiresTypes
    <3>2. \A r \in Slots \ {s} : tick'[r].pc = tick[r].pc /\ tick'[r].cancelled = tick[r].cancelled
      <4>1. \A r \in Slots : tick[r] \in Tasks
        BY DEF Types
      <4> QED BY <3>1, <4>1, DisownIs
    <3>3. mem' = mem /\ disk' = disk
      BY <2>1, <2>4, LoadsSaved
    <3>4. ASSUME NEW r \in Slots, tick[r].pc = "run", ~tick[r].cancelled
          PROVE  tick'[r].pc = "run" /\ ~tick'[r].cancelled
      BY <2>1, <3>2, <3>4
    <3> QED BY <2>1, <2>2, <3>3, <3>4 DEF Saved
  <2> QED BY <2>3, <2>4
<1>13. ASSUME NEW s \in Slots, NEW j \in Jobs, TickEnds(s, j) PROVE Saved'
  BY <1>0, <1>13 DEF TickEnds
<1>14. ASSUME NEW s \in Slots, NEW j \in Jobs, NEW k \in Jobs, NEW t \in 1..Horizon,
              TickGoesOn(s, j, k, t)
       PROVE  Saved'
  <2>1. manual.pc # "asked" /\ manual' = manual /\ ~tick[s].cancelled /\ tick[s].job = {j}
    BY <1>14 DEF TickGoesOn
  <2>2. tick'[s].pc = tick[s].pc /\ tick'[s].cancelled = tick[s].cancelled
    BY <1>14, GoesOnIs
  <2>3. tick[s].pc = "run"
    BY <2>1 DEF AtRest
  <2> QED BY <2>1, <2>2, <2>3 DEF Saved
<1>15. ASSUME NEW s \in Slots, TickCancelled(s) PROVE Saved'
  <2>1. /\ tick[s].cancelled /\ tick' = [tick EXCEPT ![s] = NoTask]
        /\ UNCHANGED <<disk, mem, up, manual>>
    BY <1>15 DEF TickCancelled, file
  <2> QED BY <2>1 DEF Saved, Types
<1>16. CASE Methods
  BY <1>16, <1>5, <1>6, <1>7 DEF Methods, AddJob, RemoveJob, EnableJob, UpdateJob
<1>17. CASE Runs
  BY <1>17, <1>8, <1>9, <1>10 DEF Runs
<1>18. CASE Timers
  BY <1>18, <1>11, <1>12, <1>13, <1>14, <1>15 DEF Timers
<1> QED BY <1>1, <1>2, <1>3, <1>4, <1>16, <1>17, <1>18 DEF Next

\* Whatever was cancelled, reloaded or merged in between, when no job executes
\* jobs.json is what the scheduler works with: unless a tick goes on between the WebUI's
\* look at a job and the beginning of run_job.
THEOREM DiskIsCurrent ==
    ASSUME "run_late" \notin Calls
    PROVE  Spec => []DiskCurrent
<1>1. Init => Types /\ AtRest(tick) /\ Saved
  <2>1. Init => AtRest(tick) /\ Saved
    BY DEF Init, AtRest, NoTask, Saved
  <2> QED BY <2>1, CronAssumption, InitTypes
<1>2. Types /\ AtRest(tick) /\ Saved /\ [Next]_vars => (Types /\ AtRest(tick) /\ Saved)'
  BY CronAssumption, TypesStep, RestsStep, SavedStep
<1>3. Saved => DiskCurrent
  BY DEF Saved, DiskCurrent, Executing
<1> QED BY <1>1, <1>2, <1>3, PTL DEF Spec

----------------------------------------------------------------------------
(* No job that another process has added is lost. *)

\* Nothing runs when the gateway does not.
Quiet == ~up => manual.pc = "none" /\ \A s \in Slots : tick[s].pc = "none"

LEMMA QuietStep == ASSUME AtRest(tick), Quiet, [Next]_vars PROVE Quiet'
<1>1. CASE up
  <2>1. CASE Stop \/ CrashInMerge
    <3>1. manual' = NoTask /\ tick' = [s \in Slots |-> NoTask]
      BY <2>1 DEF Stop, CrashInMerge, GoDown
    <3> QED BY <3>1 DEF Quiet, NoTask
  <2>2. CASE Clock \/ Offline \/ Start \/ UNCHANGED vars
    BY <1>1, <2>2 DEF Clock, Offline, OfflineRead, OfflineAdd, OfflineRemove, OfflineEnable, Start,
                      vars, Quiet
  <2>3. CASE Methods
    BY <1>1, <2>3 DEF Methods, ListJobs, AddJob, RemoveJob, EnableJob, UpdateJob, Edit, AskRun, Quiet
  <2>4. CASE Runs
    BY <1>1, <2>4 DEF Runs, RunJob, RunRefused, RunEnds, Quiet
  <2>5. CASE Timers
    <3>1. \A s \in Slots : TickIdle(s) \/ TickCancelled(s) => up' = up
      BY DEF TickIdle, TickCancelled
    <3>2. \A s \in Slots, j \in Jobs : TickFires(s, j) \/ TickEnds(s, j) => up' = up
      BY DEF TickFires, TickEnds
    <3>3. \A s \in Slots, j \in Jobs, k \in Jobs, t \in 1..Horizon :
              TickGoesOn(s, j, k, t) => up' = up
      BY DEF TickGoesOn
    <3> QED BY <1>1, <2>5, <3>1, <3>2, <3>3 DEF Timers, Quiet
  <2> QED BY <2>1, <2>2, <2>3, <2>4, <2>5 DEF Next
<1>2. CASE ~up
  <2>1. manual.pc = "none" /\ \A s \in Slots : tick[s].pc = "none" /\ tick[s].job = {}
                                                 /\ ~tick[s].cancelled
    BY <1>2 DEF Quiet, AtRest
  <2>2. ~Stop /\ ~CrashInMerge /\ ~Methods /\ ~Runs
    BY <1>2, <2>1 DEF Stop, CrashInMerge, Methods, ListJobs, AddJob, RemoveJob, EnableJob,
                      UpdateJob, AskRun, Call, Runs, RunJob, RunRefused, RunEnds
  <2>3. ~Timers
    <3>1. \A s \in Slots : ~TickIdle(s) /\ ~TickCancelled(s)
      BY <2>1 DEF TickIdle, TickCancelled, Awake
    <3>2. \A s \in Slots, j \in Jobs : ~TickFires(s, j) /\ ~TickEnds(s, j)
      BY <2>1 DEF TickFires, TickEnds, Awake
    <3>3. \A s \in Slots, j \in Jobs, k \in Jobs, t \in 1..Horizon : ~TickGoesOn(s, j, k, t)
      BY <2>1 DEF TickGoesOn
    <3> QED BY <3>1, <3>2, <3>3 DEF Timers
  <2>4. CASE Start
    BY <2>4 DEF Start, Quiet
  <2>5. CASE Clock \/ Offline \/ UNCHANGED vars
    BY <2>5 DEF Clock, Offline, OfflineRead, OfflineAdd, OfflineRemove, OfflineEnable, tasks, vars,
                Quiet
  <2> QED BY <2>2, <2>3, <2>4, <2>5 DEF Next
<1> QED BY <1>1, <1>2

\* A job that is there, or that a line is about, is there when the lines are merged:
\* unless one of them deletes it.
LEMMA MergedKeeps ==
    ASSUME NEW m, IsStore(m), NEW acts \in Seq(Line), NEW G,
           \A i \in DOMAIN acts : acts[i].op = "del" => acts[i].job \in G,
           NEW j \in Jobs \ G,
           j \in DOMAIN m \/ \E i \in DOMAIN acts : acts[i].job = j
    PROVE  j \in DOMAIN Merged(m, acts).jobs
<1>1. j \in DOMAIN m \/ Lines(acts, j) # {}
  BY DEF Lines
<1>2. ~\E i \in DOMAIN acts : acts[i].op = "del" /\ acts[i].job = j
  OBVIOUS
<1> QED BY <1>1, <1>2, MergedIs

\* What was loaded and then changed, but for what is gone, has all there was.
LEMMA LoadedKeeps ==
    ASSUME Types, up, Present
    PROVE  /\ DOMAIN disk \ gone \subseteq DOMAIN Loaded.jobs
           /\ Loaded.changed => \A j \in acked \ gone : j \in DOMAIN Loaded.jobs
<1>1. IsStore(disk) /\ actions \in Seq(Line) /\ acked \subseteq Jobs
  BY DEF Types
<1>2. CASE timerActive
  BY <1>2, LoadedIs DEF Present
<1>3. CASE ~timerActive
  <2>1. Loaded = Merged(disk, actions)
    BY <1>3, LoadedIs
  <2>2. DOMAIN disk \ gone \subseteq DOMAIN Loaded.jobs
    BY <1>1, <2>1, MergedKeeps DEF Present, IsStore
  <2>3. \A j \in acked \ gone : j \in DOMAIN Loaded.jobs
    BY <1>1, <2>1, MergedKeeps DEF Present
  <2> QED BY <2>2, <2>3
<1> QED BY <1>2, <1>3

\* The lines are kept, or none is left, or one is added.
LEMMA DelsGone ==
    ASSUME Present, actions' \in {<<>>, actions}, gone \subseteq gone'
    PROVE  \A i \in DOMAIN actions' : actions'[i].op = "del" => actions'[i].job \in gone'
BY DEF Present

LEMMA SavePresent ==
    ASSUME Types, up, Present, NEW m, LoadAndSave(m), acked' = acked, gone \subseteq gone',
           DOMAIN Loaded.jobs \ gone' \subseteq DOMAIN m
    PROVE  Present'
<1>1. mem' = m /\ disk' = m /\ actions' = IF Loaded.changed THEN <<>> ELSE actions
  BY DEF LoadAndSave
<1>2. ASSUME NEW j \in acked' \ gone'
      PROVE  j \in DOMAIN disk' \/ \E i \in DOMAIN actions' : actions'[i].job = j
  <2>1. CASE Loaded.changed
    BY <1>1, <1>2, <2>1, LoadedKeeps
  <2>2. CASE ~Loaded.changed
    <3>1. j \in DOMAIN disk \/ \E i \in DOMAIN actions : actions[i].job = j
      BY <1>2 DEF Present
    <3> QED BY <1>1, <2>2, <3>1, LoadedKeeps
  <2> QED BY <2>1, <2>2
<1>3. \A i \in DOMAIN actions' : actions'[i].op = "del" => actions'[i].job \in gone'
  BY <1>1, DelsGone
<1> QED BY <1>1, <1>2, <1>3 DEF Present

LEMMA LoadPresent ==
    ASSUME Types, up, Present, LoadOnly, acked' = acked, gone' = gone
    PROVE  Present'
<1>1. /\ mem' = Loaded.jobs /\ disk' = IF Loaded.changed THEN mem' ELSE disk
      /\ actions' = IF Loaded.changed THEN <<>> ELSE actions
  BY DEF LoadOnly
<1>2. \A j \in acked' \ gone' :
          j \in DOMAIN disk' \/ \E i \in DOMAIN actions' : actions'[i].job = j
  BY <1>1, LoadedKeeps DEF Present
<1>3. \A i \in DOMAIN actions' : actions'[i].op = "del" => actions'[i].job \in gone'
  BY <1>1, DelsGone
<1>4. DOMAIN disk' \ gone' \subseteq DOMAIN mem'
  BY <1>1, LoadedKeeps
<1> QED BY <1>2, <1>3, <1>4 DEF Present

\* An execution deletes its job at most.
LEMMA FinishPresent ==
    ASSUME CronAssumption, Types, up, Present, NEW j \in Jobs, NEW start \in Nat, NEW own \in BOOLEAN,
           mem' = Finished(mem, j, start, own), disk' \in {mem', disk},
           actions' = actions, acked' = acked, gone' = gone \cup Deleted(j)
    PROVE  Present'
<1>1. DOMAIN mem \ Deleted(j) \subseteq DOMAIN mem'
  BY FinishedIs DEF Types
<1>2. DOMAIN disk \ gone \subseteq DOMAIN mem
  BY DEF Present
<1> QED BY <1>1, <1>2 DEF Present

\* A line more.
LEMMA AppendPresent ==
    ASSUME Types, Present, NEW op \in {"put", "del"}, NEW j \in Jobs, NEW rec,
           AppendAction(op, j, rec), disk' = disk, mem' = mem, up' = up,
           gone \subseteq gone', op = "del" => j \in gone', acked' \subseteq acked \cup {j}
    PROVE  Present'
<1>1. actions \in Seq(Line) /\ actions' = Append(actions, [op |-> op, job |-> j, rec |-> rec])
  BY DEF Types, AppendAction
<1>2. /\ DOMAIN actions' = DOMAIN actions \cup {Len(actions) + 1}
      /\ actions'[Len(actions) + 1].op = op /\ actions'[Len(actions) + 1].job = j
      /\ \A i \in DOMAIN actions : actions'[i] = actions[i]
  BY <1>1
<1> QED BY <1>2 DEF Present

\* A job in the base is in what the gateway starts with.
LEMMA StartPresent ==
    ASSUME CronAssumption, Types, Present, Start
    PROVE  Present'
<1> DEFINE base == IF SystemJobs = {} THEN disk ELSE Registered
           found == Merged(base, actions)
<1>1. /\ IsStore(base) /\ mem' = Recomputed(found.jobs) /\ disk' = mem'
      /\ actions' = IF found.changed THEN <<>> ELSE actions
  BY StartIs
<1>2. IsStore(disk) /\ actions \in Seq(Line) /\ acked \subseteq Jobs
  BY DEF Types
<1>3. ASSUME NEW j \in acked \ gone PROVE j \in DOMAIN mem'
  <2>1. /\ \A i \in DOMAIN actions : actions[i].op = "del" => actions[i].job \in gone
        /\ j \in DOMAIN disk \/ \E i \in DOMAIN actions : actions[i].job = j
    BY <1>3 DEF Present
  <2>2. j \in Jobs \ gone
    BY <1>2, <1>3
  <2>3. j \in DOMAIN Merged(disk, actions).jobs
    BY <1>2, <2>1, <2>2, MergedKeeps
  <2>4. j \in DOMAIN base \/ \E i \in DOMAIN actions : actions[i].job = j
    BY <2>1, <2>3 DEF Registered
  <2> HIDE DEF base
  <2>5. j \in DOMAIN Merged(base, actions).jobs
    BY <1>1, <1>2, <2>1, <2>2, <2>4, MergedKeeps
  <2> QED BY <1>1, <2>5 DEF Recomputed
<1>4. acked' = acked /\ gone' = gone
  BY DEF Start
<1>5. \A i \in DOMAIN actions' : actions'[i].op = "del" => actions'[i].job \in gone'
  BY <1>1, <1>4, DelsGone
<1> QED BY <1>1, <1>3, <1>4, <1>5 DEF Present

LEMMA PresentStep ==
    ASSUME CronAssumption, ~DiesInMerge, Types, AtRest(tick), Quiet, Present, [Next]_vars
    PROVE  Present'
<1>1. CASE Clock \/ UNCHANGED vars
  BY <1>1 DEF Clock, vars, file, Present
<1>2. CASE Offline
  <2>1. CASE OfflineRead
    BY <2>1 DEF OfflineRead, file, Present
  <2>2. ASSUME NEW j \in Jobs, OfflineAdd(j) PROVE Present'
    BY <2>2, AppendPresent DEF OfflineAdd
  <2>3. ASSUME NEW j \in Jobs, OfflineRemove(j) PROVE Present'
    BY <2>3, AppendPresent DEF OfflineRemove
  <2>4. ASSUME NEW j \in Jobs, NEW b \in BOOLEAN, OfflineEnable(j, b) PROVE Present'
    BY <2>4, AppendPresent DEF OfflineEnable
  <2> QED BY <1>2, <2>1, <2>2, <2>3, <2>4 DEF Offline
<1>3. CASE Stop
  BY <1>3 DEF Stop, GoDown, file, Present
<1>4. CASE Methods
  <2>1. up
    BY <1>4 DEF Methods, ListJobs, AddJob, RemoveJob, EnableJob, UpdateJob, AskRun, Call
  <2>2. CASE ListJobs \/ \E j \in Jobs : AskRun(j)
    BY <2>1, <2>2, LoadPresent DEF ListJobs, AskRun
  <2>3. ASSUME NEW m, Edit(m), gone \subseteq gone', DOMAIN Loaded.jobs \ gone' \subseteq DOMAIN m
        PROVE  Present'
    BY <2>1, <2>3, SavePresent DEF Edit
  <2>4. now \in Nat /\ IsStore(Loaded.jobs)
    BY LoadedIs DEF Types
  <2>5. ASSUME NEW j \in Jobs, AddJob(j) PROVE Present'
    <3>1. PICK m : m = Put(Loaded.jobs, j, NewJob(j)) /\ Edit(m)
      BY <2>5 DEF AddJob
    <3>2. DOMAIN m = DOMAIN Loaded.jobs \cup {j}
      BY <3>1 DEF Put
    <3>3. gone' = gone
      BY <2>5 DEF AddJob
    <3> QED BY <2>3, <3>1, <3>2, <3>3
  <2>6. ASSUME NEW j \in Jobs, RemoveJob(j) PROVE Present'
    <3>1. PICK m : m = Without(Loaded.jobs, j) /\ Edit(m)
      BY <2>6 DEF RemoveJob
    <3>2. DOMAIN m = DOMAIN Loaded.jobs \ {j}
      BY <2>4, <3>1, WithoutIs
    <3>3. gone' = gone \cup {j}
      BY <2>6 DEF RemoveJob
    <3> QED BY <2>3, <3>1, <3>2, <3>3
  <2>7. ASSUME NEW j \in Jobs, NEW b \in BOOLEAN, j \in DOMAIN Loaded.jobs,
               Edit(Enabled(Loaded.jobs, j, b)), gone' = gone
        PROVE  Present'
    <3>1. PICK m : m = Loaded.jobs
      OBVIOUS
    <3>2. DOMAIN Enabled(m, j, b) = DOMAIN m
      BY <2>4, <2>7, <3>1, EnabledIs
    <3> QED BY <2>3, <2>7, <3>1, <3>2
  <2>8. ASSUME NEW j \in Jobs, UpdateJob(j) PROVE Present'
    <3>1. j \in DOMAIN Loaded.jobs /\ Loaded.jobs[j].enabled \in BOOLEAN
      BY <2>4, <2>8 DEF UpdateJob, IsStore, JobRecords
    <3> QED BY <2>7, <2>8, <3>1 DEF UpdateJob, Updated
  <2> QED BY <1>4, <2>2, <2>5, <2>6, <2>7, <2>8 DEF Methods, EnableJob
<1>5. CASE Runs
  <2>1. PICK j \in Jobs : RunJob(j) \/ RunRefused(j) \/ RunEnds(j)
    BY <1>5 DEF Runs
  <2>2. up
    BY <2>1 DEF RunJob, RunRefused, RunEnds, Quiet
  <2>3. CASE RunJob(j) \/ RunRefused(j)
    BY <2>2, <2>3, LoadPresent DEF RunJob, RunRefused
  <2>4. CASE RunEnds(j)
    <3>1. manual.start \in Nat /\ manual.own \in BOOLEAN
      BY DEF Types, Tasks
    <3> QED BY <2>2, <2>4, <3>1, FinishPresent DEF RunEnds
  <2> QED BY <2>1, <2>3, <2>4
<1>6. CASE Timers
  <2>1. ASSUME NEW s \in Slots, NEW j \in Jobs, tick[s].job = {j} PROVE up
    BY <2>1 DEF AtRest, Quiet
  <2>2. \A s \in Slots : tick[s].start \in Nat /\ tick[s].own \in BOOLEAN
    BY DEF Types, Tasks
  <2>3. ASSUME NEW s \in Slots, TickIdle(s) PROVE Present'
    BY <2>3, SavePresent DEF TickIdle, Awake, Quiet
  <2>4. ASSUME NEW s \in Slots, NEW j \in Jobs, TickFires(s, j) PROVE Present'
    BY <2>4, LoadPresent DEF TickFires, Awake, Quiet
  <2>5. ASSUME NEW s \in Slots, NEW j \in Jobs, TickEnds(s, j) PROVE Present'
    <3>1. up /\ mem' = Finished(mem, j, tick[s].start, tick[s].own) /\ disk' = mem'
      BY <2>1, <2>5 DEF TickEnds
    <3> QED BY <2>2, <2>5, <3>1, FinishPresent DEF TickEnds
  <2>6. ASSUME NEW s \in Slots, NEW j \in Jobs, NEW k \in Jobs, NEW t \in 1..Horizon,
               TickGoesOn(s, j, k, t)
        PROVE  Present'
    <3>1. up /\ mem' = Finished(mem, j, tick[s].start, tick[s].own) /\ disk' = disk
          /\ actions' = actions
      BY <2>1, <2>6 DEF TickGoesOn, file
    <3> QED BY <2>2, <2>6, <3>1, FinishPresent DEF TickGoesOn
  <2>7. ASSUME NEW s \in Slots, TickCancelled(s) PROVE Present'
    BY <2>7 DEF TickCancelled, file, Present
  <2> QED BY <1>6, <2>3, <2>4, <2>5, <2>6, <2>7 DEF Timers
<1>7. ~CrashInMerge
  BY DEF CrashInMerge
<1> QED BY <1>1, <1>2, <1>3, <1>4, <1>5, <1>6, <1>7, StartPresent DEF Next

\* Whatever is called, in the gateway and in other processes, and however often the
\* gateway stops: a job another process has added is in one of the files, or in the
\* scheduler, until it is removed or done.
THEOREM ActionsAreKept ==
    ASSUME ~DiesInMerge
    PROVE  Spec => []ActionsNotLost
<1> DEFINE Inv == Types /\ AtRest(tick) /\ Quiet /\ Present
<1>1. Init => Inv
  <2>1. Init => AtRest(tick) /\ Quiet /\ Present
    BY DEF Init, AtRest, NoTask, Quiet, Present
  <2> QED BY <2>1, CronAssumption, InitTypes
<1>2. Inv /\ [Next]_vars => Inv'
  BY CronAssumption, TypesStep, RestsStep, QuietStep, PresentStep
<1>3. Inv => ActionsNotLost
  BY DEF Present, ActionsNotLost
<1> QED BY <1>1, <1>2, <1>3, PTL DEF Spec

----------------------------------------------------------------------------
(* An occurrence is started once, when nothing but the timer executes jobs. *)

\* A next run that is never or still to come has not been started, nor found due.
LEMMA FreshIs ==
    ASSUME PastFired, DueUnstarted, now \in Nat, NEW n \in Nat, n # Never => n > now, NEW j
    PROVE  <<j, n>> \notin fired /\ \A s \in Slots : <<j, n>> \notin tick[s].due
<1>1. <<j, n>>[2] = n
  OBVIOUS
<1>2. <<j, n>> \in fired => n <= now /\ n # Never
  BY <1>1 DEF PastFired
<1>3. \A s \in Slots : <<j, n>> \in tick[s].due => n <= now /\ n # Never
  BY <1>1 DEF DueUnstarted
<1> QED BY <1>2, <1>3

\* What is loaded while no tick executes.
LEMMA LoadedOnce ==
    ASSUME Types, AtRest(tick), OneTimer, AllCleared, Unstarted, up, ~timerActive
    PROVE  /\ \A s \in Slots : tick[s].pc # "run" /\ tick[s].job = {} /\ tick[s].due = {}
           /\ \A j \in DOMAIN Loaded.jobs :
                  Cleared(Loaded.jobs[j]) /\ <<j, Loaded.jobs[j].next>> \notin fired
           /\ ~Loaded.changed => \A i \in DOMAIN actions : actions[i].op = "del"
<1>1. IsStore(disk) /\ actions \in Seq(Line) /\ disk = mem
  BY DEF Types, OneTimer
<1>2. \A s \in Slots : tick[s].pc # "run" /\ tick[s].job = {} /\ tick[s].due = {}
  BY DEF OneTimer, AtRest
<1>3. Loaded = Merged(disk, actions)
  BY LoadedIs
<1>4. ASSUME NEW j \in DOMAIN Loaded.jobs
      PROVE  Cleared(Loaded.jobs[j]) /\ <<j, Loaded.jobs[j].next>> \notin fired
  <2>1. CASE j \in DOMAIN disk /\ Loaded.jobs[j] = disk[j]
    BY <1>1, <1>2, <2>1 DEF AllCleared, Unstarted, NextUnstarted
  <2>2. ASSUME NEW i \in DOMAIN actions,
               actions[i].op = "put", actions[i].job = j, Loaded.jobs[j] = actions[i].rec
        PROVE  Cleared(Loaded.jobs[j]) /\ <<j, Loaded.jobs[j].next>> \notin fired
    BY <2>2 DEF AllCleared, Unstarted, LinesUnstarted
  <2>3. \/ j \in DOMAIN disk /\ Loaded.jobs[j] = disk[j]
        \/ \E i \in DOMAIN actions :
               actions[i].op = "put" /\ actions[i].job = j /\ Loaded.jobs[j] = actions[i].rec
    <3>1. PICK m : m = Merged(disk, actions).jobs /\ m = Loaded.jobs
      BY <1>3
    <3>2. \A k \in DOMAIN m : \/ k \in DOMAIN disk /\ m[k] = disk[k]
                              \/ \E i \in DOMAIN actions : actions[i].op = "put"
                                     /\ actions[i].job = k /\ m[k] = actions[i].rec
      <4>1. IsStore(disk) /\ actions \in Seq(Line)
        BY <1>1
      <4>2. \A k \in DOMAIN Merged(disk, actions).jobs :
                \/ k \in DOMAIN disk /\ Merged(disk, actions).jobs[k] = disk[k]
                \/ \E i \in DOMAIN actions : actions[i].op = "put"
                       /\ actions[i].job = k /\ Merged(disk, actions).jobs[k] = actions[i].rec
        BY <4>1, MergedIs
      <4> QED BY <3>1, <4>2
    <3> QED BY <1>4, <3>1, <3>2
  <2> QED BY <2>1, <2>2, <2>3
<1>5. ~Loaded.changed => \A i \in DOMAIN actions : actions[i].op = "del"
  BY <1>1, <1>3, MergedIs
<1> QED BY <1>2, <1>4, <1>5

\* A timer that sleeps is the only task, and no store is held.
LEMMA SleepsAlone ==
    ASSUME AtRest(tick), OneTimer, NEW s \in Slots, tick[s].pc = "sleep"
    PROVE  up /\ ~timerActive /\ timer = s /\ \A r \in Slots \ {s} : tick[r].pc = "none"
<1>1. up /\ timer = s
  BY DEF OneTimer
<1>2. \A r \in Slots \ {s} : tick[r].pc = "none"
  BY <1>1 DEF OneTimer
<1>3. \A r \in Slots : tick[r].pc # "run"
  BY <1>2
<1> QED BY <1>1, <1>2, <1>3 DEF OneTimer

\* A task that executes is the only one.
LEMMA RunsAlone ==
    ASSUME AtRest(tick), OneTimer, NEW s \in Slots, NEW j, tick[s].job = {j}
    PROVE  /\ tick[s].pc = "run" /\ tick[s].own /\ up /\ timerActive /\ timer = s
           /\ \A r \in Slots \ {s} : tick[r].pc = "none" /\ tick[r].job = {} /\ tick[r].due = {}
<1>1. tick[s].pc = "run"
  BY DEF AtRest
<1>2. up /\ timer = s /\ tick[s].own /\ timerActive
  BY <1>1 DEF OneTimer
<1>3. \A r \in Slots \ {s} : tick[r].pc = "none"
  BY <1>2 DEF OneTimer
<1> QED BY <1>1, <1>2, <1>3 DEF AtRest

\* Arming leaves one timer, when no other task is there.
LEMMA ArmedAlone ==
    ASSUME CronAssumption, Types, NEW ts \in [Slots -> Tasks], NEW m, IsStore(m), ArmTimer(ts, m),
           \A s \in Slots : ts[s].pc = "none" \/ (ts[s].pc = "sleep" /\ s = timer)
    PROVE  \A s \in Slots : tick'[s].pc # "run" /\ (tick'[s].pc # "none" => timer' = s)
<1>1. \A s \in Slots : Cancel(ts[s]).pc = "none"
  BY DEF Cancel, NoTask
<1>2. \A s \in Slots \ {timer'} : tick'[s].pc = "none"
  BY <1>1, ArmTimerIs
<1> QED BY <1>2, ArmTimerIs

\* A timer is armed, nothing executes, and the store is saved.
LEMMA ArmedOnce ==
    ASSUME AtRest(tick'), up', ~timerActive', manual'.pc = "none",
           \A s \in Slots : tick'[s].pc # "run" /\ (tick'[s].pc # "none" => timer' = s),
           disk' = mem',
           \A j \in DOMAIN mem' : Cleared(mem'[j]) /\ <<j, mem'[j].next>> \notin fired',
           \A i \in DOMAIN actions' : actions'[i].op = "put" =>
               Cleared(actions'[i].rec) /\ <<actions'[i].job, actions'[i].rec.next>> \notin fired',
           PastFired', twice' = {}
    PROVE  Once'
<1>1. \A s \in Slots : tick'[s].job = {} /\ tick'[s].due = {} /\ ~tick'[s].cancelled
  BY DEF AtRest
<1>2. OneTimer'
  BY <1>1 DEF OneTimer
<1>3. AllCleared'
  BY DEF AllCleared
<1>4. NextUnstarted' /\ DueUnstarted' /\ LinesUnstarted'
  BY <1>1 DEF NextUnstarted, DueUnstarted, LinesUnstarted
<1> QED BY <1>2, <1>3, <1>4 DEF Once, Unstarted

\* What another process leaves brings a next run that is never or still to come.
LEMMA OnceOffline ==
    ASSUME CronAssumption, Types, Once, Offline
    PROVE  Once'
<1>1. actions \in Seq(Line) /\ now \in Nat
  BY DEF Types
<1>2. UNCHANGED <<disk, up, mem, timerActive, timer, tick, manual, fired, twice, now>>
  BY DEF Offline, OfflineRead, OfflineAdd, OfflineRemove, OfflineEnable, file, tasks, fires
<1>3. ASSUME AllCleared', LinesUnstarted' PROVE Once'
  <2>1. OneTimer' /\ PastFired' /\ NextUnstarted' /\ DueUnstarted'
    BY <1>2 DEF Once, Unstarted, OneTimer, PastFired, NextUnstarted, DueUnstarted
  <2> QED BY <1>2, <1>3, <2>1 DEF Once, Unstarted
<1>4. ASSUME NEW op, NEW j, NEW rec, AppendAction(op, j, rec),
             op = "put" => /\ Cleared(rec) /\ rec.next \in Nat
                           /\ rec.next # Never => rec.next > now
      PROVE  Once'
  <2>1. /\ DOMAIN actions' = DOMAIN actions \cup {Len(actions) + 1}
        /\ actions'[Len(actions) + 1] = [op |-> op, job |-> j, rec |-> rec]
        /\ \A i \in DOMAIN actions : actions'[i] = actions[i]
    BY <1>1, <1>4 DEF AppendAction
  <2>2. op = "put" => /\ Cleared(rec) /\ <<j, rec.next>> \notin fired
                      /\ \A s \in Slots : <<j, rec.next>> \notin tick[s].due
    BY <1>1, <1>4, FreshIs DEF Once, Unstarted
  <2>3. AllCleared'
    BY <1>2, <2>1, <2>2 DEF Once, AllCleared
  <2>4. LinesUnstarted'
    <3>1. ASSUME NEW i \in DOMAIN actions', actions'[i].op = "put"
          PROVE  /\ <<actions'[i].job, actions'[i].rec.next>> \notin fired
                 /\ \A s \in Slots : <<actions'[i].job, actions'[i].rec.next>> \notin tick[s].due
      <4>1. CASE i \in DOMAIN actions
        <5>1. actions'[i] = actions[i]
          BY <2>1, <4>1
        <5> QED BY <3>1, <4>1, <5>1 DEF Once, Unstarted, LinesUnstarted
      <4>2. CASE i = Len(actions) + 1
        <5>1. op = "put" /\ actions'[i].job = j /\ actions'[i].rec = rec
          BY <2>1, <3>1, <4>2
        <5> QED BY <2>2, <5>1
      <4> QED BY <2>1, <3>1, <4>1, <4>2
    <3> QED BY <1>2, <3>1 DEF LinesUnstarted
  <2> QED BY <1>3, <2>3, <2>4
<1>5. CASE OfflineRead
  <2>1. actions' = actions
    BY <1>5 DEF OfflineRead, file
  <2> QED BY <1>2, <1>3, <2>1 DEF Once, AllCleared, Unstarted, LinesUnstarted
<1>6. ASSUME NEW j \in Jobs, OfflineAdd(j) PROVE Once'
  <2>1. NewJob(j).enabled /\ NewJob(j).next = ComputeNextRun(j, now)
    BY <1>1, NewJobIs
  <2>2. Cleared(NewJob(j)) /\ NewJob(j).next \in Nat
        /\ (NewJob(j).next # Never => NewJob(j).next > now)
    <3>1. /\ ComputeNextRun(j, now) \in Nat
          /\ ComputeNextRun(j, now) # Never => ComputeNextRun(j, now) > now
      BY <1>1, ComputeIs
    <3> QED BY <2>1, <3>1 DEF Cleared
  <2>3. AppendAction("put", j, NewJob(j))
    BY <1>6 DEF OfflineAdd
  <2> QED BY <1>4, <2>2, <2>3
<1>7. ASSUME NEW j \in Jobs, OfflineRemove(j) PROVE Once'
  <2>1. AppendAction("del", j, Seen[j])
    BY <1>7 DEF OfflineRemove
  <2> QED BY <1>4, <2>1
<1>8. ASSUME NEW j \in Jobs, NEW b \in BOOLEAN, OfflineEnable(j, b) PROVE Once'
  <2>1. PICK m : m = Seen /\ IsStore(m) /\ j \in DOMAIN m
    BY <1>8, SeenIs DEF OfflineEnable
  <2>2. PICK rec : rec = Enabled(m, j, b)[j]
    OBVIOUS
  <2>3. rec.enabled = b /\ rec.next = IF b THEN ComputeNextRun(j, now) ELSE Never
    BY <1>1, <2>1, <2>2, EnabledIs
  <2>4. Cleared(rec) /\ rec.next \in Nat /\ (rec.next # Never => rec.next > now)
    BY <1>1, <2>3, ComputeIs DEF Cleared, Never
  <2>5. AppendAction("put", j, rec)
    BY <1>8, <2>1, <2>2 DEF OfflineEnable
  <2> QED BY <1>4, <2>4, <2>5
<1> QED BY <1>5, <1>6, <1>7, <1>8 DEF Offline

\* At the start every next run is computed anew.
LEMMA OnceStart ==
    ASSUME CronAssumption, Types, AtRest(tick), AtRest(tick'), Once, Start
    PROVE  Once'
<1> DEFINE base == IF SystemJobs = {} THEN disk ELSE Registered
           found == Merged(base, actions)
<1>1. /\ IsStore(base) /\ IsStore(found.jobs)
      /\ mem' = Recomputed(found.jobs) /\ disk' = mem'
      /\ actions' = IF found.changed THEN <<>> ELSE actions
  BY StartIs
<1>2. IsStore(disk) /\ actions \in Seq(Line) /\ now \in Nat
  BY DEF Types
<1>3. ~up /\ \A s \in Slots : tick[s].pc = "none" /\ tick[s].job = {}
  <2>1. ~up
    BY DEF Start
  <2> QED BY <2>1 DEF Once, OneTimer, AtRest
<1>4. \A i \in DOMAIN actions : actions[i].op = "put" => Cleared(actions[i].rec)
  BY DEF Once, AllCleared
<1>5. ASSUME NEW m, IsStore(m), \A j \in DOMAIN m : Cleared(m[j])
      PROVE  \A j \in DOMAIN Merged(m, actions).jobs : Cleared(Merged(m, actions).jobs[j])
  <2>1. \A j \in DOMAIN Merged(m, actions).jobs :
            \/ j \in DOMAIN m /\ Merged(m, actions).jobs[j] = m[j]
            \/ \E i \in DOMAIN actions : actions[i].op = "put"
                   /\ actions[i].job = j /\ Merged(m, actions).jobs[j] = actions[i].rec
    BY <1>2, <1>5, MergedIs
  <2> QED BY <1>4, <1>5, <2>1
<1>6. \A j \in DOMAIN base : Cleared(base[j])
  <2>1. \A j \in DOMAIN disk : Cleared(disk[j])
    BY DEF Once, AllCleared
  <2>2. \A j \in DOMAIN Merged(disk, actions).jobs : Cleared(Merged(disk, actions).jobs[j])
    BY <1>2, <1>5, <2>1
  <2>3. \A j \in SystemJobs : Cleared(NewJob(j))
    BY <1>2, NewJobIs DEF Cleared, CronAssumption
  <2>4. DOMAIN Registered = DOMAIN Merged(disk, actions).jobs \cup SystemJobs
    BY DEF Registered
  <2>5. \A j \in DOMAIN Registered :
            Registered[j] = IF j \in SystemJobs THEN NewJob(j) ELSE Merged(disk, actions).jobs[j]
    BY DEF Registered
  <2>6. \A j \in DOMAIN Registered : Cleared(Registered[j])
    BY <2>2, <2>3, <2>4, <2>5
  <2> QED BY <2>1, <2>6
<1> HIDE DEF base
<1>7. \A j \in DOMAIN found.jobs : Cleared(found.jobs[j])
  BY <1>1, <1>5, <1>6
<1>8. ASSUME NEW j \in DOMAIN mem'
      PROVE  Cleared(mem'[j]) /\ mem'[j].next \in Nat /\ (mem'[j].next # Never => mem'[j].next > now)
  <2>1. PICK m : m = found.jobs
    OBVIOUS
  <2>2. j \in DOMAIN m /\ m[j] \in JobRecords /\ j \in Jobs /\ Cleared(m[j])
    BY <1>1, <1>7, <1>8, <2>1 DEF Recomputed, IsStore
  <2>3. mem'[j] = IF m[j].enabled THEN [m[j] EXCEPT !.next = ComputeNextRun(j, now)] ELSE m[j]
    BY <1>1, <1>8, <2>1, <2>2 DEF Recomputed
  <2>4. /\ ComputeNextRun(j, now) \in Nat
        /\ ComputeNextRun(j, now) # Never => ComputeNextRun(j, now) > now
    BY <1>2, <2>2, ComputeIs
  <2> QED BY <2>2, <2>3, <2>4 DEF Cleared, JobRecords, Never
<1>9. fired' = fired /\ twice' = twice /\ manual' = manual /\ up' = TRUE /\ timerActive' = timerActive
      /\ now' = now
  BY DEF Start, fires
<1>10. \A j \in DOMAIN mem' : Cleared(mem'[j]) /\ <<j, mem'[j].next>> \notin fired'
  BY <1>2, <1>8, <1>9, FreshIs DEF Once, Unstarted
<1>11. \A i \in DOMAIN actions' : actions'[i].op = "put" =>
           Cleared(actions'[i].rec) /\ <<actions'[i].job, actions'[i].rec.next>> \notin fired'
  BY <1>1, <1>4, <1>9 DEF Once, Unstarted, LinesUnstarted
<1>12. \A s \in Slots : tick'[s].pc # "run" /\ (tick'[s].pc # "none" => timer' = s)
  <2>1. PICK m : m = mem' /\ IsStore(m) /\ ArmTimer(tick, m)
    BY StartIs DEF Start
  <2> QED BY <1>3, <2>1, ArmedAlone DEF Types
<1>13. ~timerActive' /\ manual'.pc = "none" /\ PastFired' /\ twice' = {}
  BY <1>3, <1>9 DEF Once, OneTimer, Unstarted, PastFired
<1> QED BY <1>1, <1>9, <1>10, <1>11, <1>12, <1>13, ArmedOnce

\* A stop leaves nothing to be started.
LEMMA OnceDown ==
    ASSUME Once, Stop \/ CrashInMerge
    PROVE  Once'
<1>1. /\ up' = FALSE /\ mem' = <<>> /\ timerActive' = FALSE
      /\ tick' = [s \in Slots |-> NoTask] /\ manual' = NoTask
      /\ UNCHANGED <<now, disk, fired, twice>> /\ actions' \in {actions, <<>>}
  BY DEF Stop, CrashInMerge, GoDown, file, fires
<1>2. \A s \in Slots : /\ tick'[s].pc = "none" /\ tick'[s].job = {} /\ tick'[s].due = {}
                       /\ ~tick'[s].cancelled
  BY <1>1 DEF NoTask
<1>3. OneTimer' /\ AllCleared'
  BY <1>1, <1>2 DEF Once, OneTimer, AllCleared, NoTask
<1>4. PastFired' /\ NextUnstarted' /\ DueUnstarted' /\ LinesUnstarted'
  BY <1>1, <1>2 DEF Once, Unstarted, PastFired, NextUnstarted, DueUnstarted, LinesUnstarted
<1> QED BY <1>1, <1>3, <1>4 DEF Once, Unstarted

\* Listing the jobs merges what other processes have left, or nothing while a tick
\* executes.
LEMMA OnceList ==
    ASSUME CronAssumption, Types, AtRest(tick), Once, ListJobs
    PROVE  Once'
<1>1. /\ LoadOnly /\ tick' = Disowned /\ manual' = Disown(manual)
      /\ UNCHANGED <<now, up, timerActive, timer, fired, twice>> /\ up
  BY DEF ListJobs, Call, fires
<1>2. /\ \A s \in Slots : /\ tick'[s].pc = tick[s].pc /\ tick'[s].job = tick[s].job
                          /\ tick'[s].due = tick[s].due /\ tick'[s].cancelled = tick[s].cancelled
                          /\ tick'[s].own = (tick[s].own /\ timerActive)
      /\ manual'.pc = manual.pc
  <2>1. manual \in Tasks /\ \A s \in Slots : tick[s] \in Tasks
    BY DEF Types
  <2> QED BY <1>1, <2>1, DisownIs, DisownedIs
<1>3. /\ mem' = Loaded.jobs
      /\ ~timerActive => disk' = mem'
      /\ timerActive => mem' = mem /\ disk' = disk
  BY <1>1, LoadsSaved
<1>4. actions' = IF Loaded.changed THEN <<>> ELSE actions
  BY <1>1 DEF LoadOnly
<1>5. PastFired' /\ twice' = {}
  BY <1>1 DEF Once, Unstarted, PastFired
<1>6. DueUnstarted'
  BY <1>1, <1>2 DEF Once, Unstarted, DueUnstarted
<1>7. CASE timerActive
  <2>1. actions' = actions
    BY <1>4, <1>7, LoadedIs
  <2>2. OneTimer'
    <3>1. \A s \in Slots : /\ ~tick'[s].cancelled
                           /\ tick'[s].pc # "none" => up /\ timer = s
                           /\ tick'[s].pc = "run" => tick'[s].own
      <4>1. ASSUME NEW s \in Slots, tick[s].own PROVE tick'[s].own
        <5>1. tick'[s].own = (tick[s].own /\ timerActive)
          BY <1>2
        <5> QED BY <1>7, <4>1, <5>1, Zenon
      <4>2. \A s \in Slots : /\ ~tick[s].cancelled
                             /\ tick[s].pc # "none" => up /\ timer = s
                             /\ tick[s].pc = "run" => tick[s].own
        BY DEF Once, OneTimer
      <4> QED BY <1>2, <4>1, <4>2
    <3>2. \E s \in Slots : tick'[s].pc = "run"
      BY <1>2, <1>7 DEF Once, OneTimer
    <3>3. \A s \in Slots : \A j \in DOMAIN mem :
              j \in tick'[s].job \/ (\E d \in tick'[s].due : d[1] = j) => mem[j].enabled
      BY <1>2 DEF Once, OneTimer
    <3>4. manual'.pc = "none"
      BY <1>2 DEF Once, OneTimer
    <3> QED BY <1>1, <1>3, <1>7, <3>1, <3>2, <3>3, <3>4 DEF OneTimer
  <2>3. AllCleared'
    BY <1>3, <1>7, <2>1 DEF Once, AllCleared
  <2>4. NextUnstarted' /\ LinesUnstarted'
    BY <1>1, <1>2, <1>3, <1>7, <2>1 DEF Once, Unstarted, NextUnstarted, LinesUnstarted
  <2> QED BY <1>5, <1>6, <2>2, <2>3, <2>4 DEF Once, Unstarted
<1>8. CASE ~timerActive
  <2>1. /\ \A s \in Slots : tick[s].pc # "run" /\ tick[s].job = {} /\ tick[s].due = {}
        /\ \A j \in DOMAIN mem' : Cleared(mem'[j]) /\ <<j, mem'[j].next>> \notin fired
        /\ \A i \in DOMAIN actions' : actions'[i].op # "put"
    <3>1. /\ \A s \in Slots : tick[s].pc # "run" /\ tick[s].job = {} /\ tick[s].due = {}
          /\ \A j \in DOMAIN Loaded.jobs :
                 Cleared(Loaded.jobs[j]) /\ <<j, Loaded.jobs[j].next>> \notin fired
          /\ ~Loaded.changed => \A i \in DOMAIN actions : actions[i].op = "del"
      BY <1>1, <1>8, LoadedOnce DEF Once
    <3> QED BY <1>3, <1>4, <3>1
  <2>2. OneTimer'
    BY <1>1, <1>2, <1>3, <1>8, <2>1 DEF Once, OneTimer
  <2>3. AllCleared'
    BY <1>3, <1>8, <2>1 DEF AllCleared
  <2>4. NextUnstarted' /\ LinesUnstarted'
    BY <1>1, <2>1 DEF NextUnstarted, LinesUnstarted
  <2> QED BY <1>5, <1>6, <2>2, <2>3, <2>4 DEF Once, Unstarted
<1> QED BY <1>7, <1>8

\* A timer that finds nothing due.
LEMMA OnceIdle ==
    ASSUME CronAssumption, Types, AtRest(tick), AtRest(tick'), Once, NEW s \in Slots, TickIdle(s)
    PROVE  Once'
<1>1. /\ LoadAndSave(Loaded.jobs) /\ manual' = Disown(manual)
      /\ UNCHANGED <<now, up, fired, twice>> /\ timerActive' = FALSE
      /\ tick[s].pc = "sleep"
  BY DEF TickIdle, Awake, fires
<1>2. up /\ ~timerActive /\ timer = s /\ \A r \in Slots \ {s} : tick[r].pc = "none"
  BY <1>1, SleepsAlone DEF Once
<1>3. mem' = Loaded.jobs /\ disk' = mem' /\ actions' = IF Loaded.changed THEN <<>> ELSE actions
  BY <1>1 DEF LoadAndSave
<1>4. manual'.pc = "none"
  <2>1. manual \in Tasks /\ manual.pc = "none"
    BY DEF Types, Once, OneTimer
  <2> QED BY <1>1, <2>1, DisownIs
<1>5. \A r \in Slots : tick'[r].pc # "run" /\ (tick'[r].pc # "none" => timer' = r)
  <2>1. PICK m : m = Loaded.jobs /\ ArmTimer([Disowned EXCEPT ![s] = NoTask], m)
    BY <1>3 DEF TickIdle
  <2>2. PICK ts : ts = [Disowned EXCEPT ![s] = NoTask]
    OBVIOUS
  <2>3. NoTask \in Tasks /\ NoTask.pc = "none"
    BY DEF NoTask, Tasks, Singles, Never
  <2>4. \A r \in Slots : tick[r] \in Tasks
    BY DEF Types
  <2>5. ts \in [Slots -> Tasks] /\ \A r \in Slots : ts[r].pc = "none"
    BY <1>2, <2>2, <2>3, <2>4, DisownedIs, DisownIs
  <2>6. IsStore(m)
    BY <2>1, LoadedIs
  <2> QED BY <2>1, <2>2, <2>5, <2>6, ArmedAlone
<1>6. /\ \A j \in DOMAIN mem' : Cleared(mem'[j]) /\ <<j, mem'[j].next>> \notin fired'
      /\ \A i \in DOMAIN actions' : actions'[i].op # "put"
  <2>1. /\ \A j \in DOMAIN Loaded.jobs :
               Cleared(Loaded.jobs[j]) /\ <<j, Loaded.jobs[j].next>> \notin fired
        /\ ~Loaded.changed => \A i \in DOMAIN actions : actions[i].op = "del"
    BY <1>2, LoadedOnce DEF Once
  <2> QED BY <1>1, <1>3, <2>1
<1>7. PastFired' /\ twice' = {}
  BY <1>1 DEF Once, Unstarted, PastFired
<1> QED BY <1>1, <1>2, <1>3, <1>4, <1>5, <1>6, <1>7, ArmedOnce

\* A timer that starts the first of the jobs it finds due.
LEMMA OnceFires ==
    ASSUME CronAssumption, Types, AtRest(tick), AtRest(tick'), Once,
           NEW s \in Slots, NEW j \in Jobs, TickFires(s, j)
    PROVE  Once'
<1>1. /\ LoadOnly /\ manual' = Disown(manual) /\ timerActive' = TRUE
      /\ UNCHANGED <<now, up, timer>> /\ tick[s].pc = "sleep"
      /\ Fire(j, mem'[j].next) /\ j \in Due(Loaded.jobs)
  BY DEF TickFires, Awake
<1>2. up /\ ~timerActive /\ timer = s /\ \A r \in Slots \ {s} : tick[r].pc = "none"
  BY <1>1, SleepsAlone DEF Once
<1>3. /\ j \in DOMAIN mem' /\ mem' = Loaded.jobs /\ disk' = mem'
      /\ tick'[s].due = {<<k, mem'[k].next>> : k \in Due(mem') \ {j}}
      /\ tick'[s].job = {j} /\ tick'[s].own /\ tick'[s].pc = "run"
      /\ tick'[s].cancelled = tick[s].cancelled
      /\ \A r \in Slots \ {s} : tick'[r] = Disown(tick[r])
  BY <1>1, <1>2, FiresTypes, LoadsSaved
<1>4. actions' = IF Loaded.changed THEN <<>> ELSE actions
  BY <1>1 DEF LoadOnly
<1>5. /\ \A k \in DOMAIN mem' : Cleared(mem'[k]) /\ <<k, mem'[k].next>> \notin fired
      /\ \A i \in DOMAIN actions' : actions'[i].op # "put"
  <2>1. /\ \A k \in DOMAIN Loaded.jobs :
               Cleared(Loaded.jobs[k]) /\ <<k, Loaded.jobs[k].next>> \notin fired
        /\ ~Loaded.changed => \A i \in DOMAIN actions : actions[i].op = "del"
    BY <1>2, LoadedOnce DEF Once
  <2> QED BY <1>3, <1>4, <2>1
<1>6. /\ \A r \in Slots \ {s} : tick'[r].pc = "none" /\ tick'[r].job = {} /\ tick'[r].due = {}
                                  /\ ~tick'[r].cancelled
      /\ ~tick'[s].cancelled /\ manual'.pc = "none"
  <2>1. manual \in Tasks /\ manual.pc = "none" /\ ~tick[s].cancelled
        /\ \A r \in Slots : tick[r] \in Tasks
    BY DEF Types, Once, OneTimer
  <2>2. \A r \in Slots \ {s} : tick'[r].pc = "none"
    BY <1>2, <1>3, <2>1, DisownIs
  <2> QED BY <1>1, <1>3, <2>1, <2>2, DisownIs DEF AtRest
<1>7. /\ \A k \in Due(mem') : k \in DOMAIN mem' /\ mem'[k].enabled /\ mem'[k].next # Never
                                 /\ mem'[k].next <= now
      /\ j \in Due(mem')
  BY <1>1, <1>3 DEF Due
<1>8. fired' = fired \cup {<<j, mem'[j].next>>} /\ twice' = {}
  BY <1>1, <1>3, <1>5 DEF Fire, Once
<1>9. PastFired'
  <2>1. \A f \in fired : f[2] <= now /\ f[2] # Never
    BY DEF Once, Unstarted, PastFired
  <2> QED BY <1>1, <1>7, <1>8, <2>1 DEF PastFired
<1>10. OneTimer'
  <2>1. \A d \in tick'[s].due : d[1] \in Due(mem')
    BY <1>3
  <2>2. \A r \in Slots : \A k \in DOMAIN mem' :
            k \in tick'[r].job \/ (\E d \in tick'[r].due : d[1] = k) => mem'[k].enabled
    BY <1>3, <1>6, <1>7, <2>1
  <2> QED BY <1>1, <1>2, <1>3, <1>6, <2>2 DEF OneTimer
<1>11. AllCleared'
  BY <1>3, <1>5 DEF AllCleared
<1>12. NextUnstarted'
  <2>1. \A k \in DOMAIN mem' \ {j} : <<k, mem'[k].next>> \notin fired'
    BY <1>5, <1>8
  <2> QED BY <1>3, <2>1 DEF NextUnstarted
<1>13. DueUnstarted'
  <2>1. ASSUME NEW d \in tick'[s].due
        PROVE  /\ d \notin fired' /\ d[2] <= now /\ d[2] # Never
               /\ d[1] \notin tick'[s].job
               /\ \A e \in tick'[s].due : e[1] = d[1] => e = d
    <3>1. PICK k \in Due(mem') \ {j} : d = <<k, mem'[k].next>>
      BY <1>3, <2>1
    <3>2. d \notin fired'
      BY <1>5, <1>7, <1>8, <3>1
    <3>3. \A e \in tick'[s].due : e[1] = d[1] => e = d
      BY <1>3, <3>1
    <3> QED BY <1>3, <1>7, <3>1, <3>2, <3>3
  <2> QED BY <1>1, <1>6, <2>1 DEF DueUnstarted
<1>14. LinesUnstarted'
  BY <1>5 DEF LinesUnstarted
<1> QED BY <1>8, <1>9, <1>10, <1>11, <1>12, <1>13, <1>14 DEF Once, Unstarted

\* What an execution leaves: its job has no next run or one to come.
LEMMA OnceFinished ==
    ASSUME CronAssumption, Types, AtRest(tick), Once, NEW s \in Slots, NEW j \in Jobs,
           tick[s].job = {j}, mem' = Finished(mem, j, tick[s].start, tick[s].own)
    PROVE  /\ DOMAIN mem' \subseteq DOMAIN mem /\ \A k \in DOMAIN mem' \ {j} : mem'[k] = mem[k]
           /\ j \in DOMAIN mem' => mem'[j].last = tick[s].start
           /\ \A k \in DOMAIN mem' : Cleared(mem'[k]) /\ <<k, mem'[k].next>> \notin fired
           /\ \A d \in tick[s].due : <<j, mem'[j].next>> # d \/ j \notin DOMAIN mem'
<1>1. now \in Nat /\ IsStore(mem) /\ tick[s].start \in Nat /\ tick[s].own \in BOOLEAN
  BY DEF Types, Tasks
<1>2. /\ tick[s].pc = "run" /\ tick[s].own /\ up
      /\ \A r \in Slots \ {s} : tick[r].job = {}
  BY RunsAlone DEF Once
<1>3. PICK m, start : m = mem' /\ start = tick[s].start /\ m = Finished(mem, j, start, TRUE)
  <2>1. tick[s].own = TRUE
    BY <1>1, <1>2, Zenon
  <2> QED BY <2>1
<1>4. /\ IsStore(m) /\ DOMAIN m \subseteq DOMAIN mem
      /\ \A k \in DOMAIN m \ {j} : m[k] = mem[k]
      /\ j \in DOMAIN m => /\ m[j].last = tick[s].start
                           /\ m[j].next # Never => m[j].next > now
                           /\ mem[j].enabled => Cleared(m[j])
  <2> DEFINE f == Finished(mem, j, start, TRUE)
  <2>1. start \in Nat
    BY <1>1, <1>3
  <2>2. IsStore(f) /\ DOMAIN f \subseteq DOMAIN mem
    BY <1>1, <2>1, FinishedIs
  <2>3. \A k \in DOMAIN f \ {j} : f[k] = mem[k]
    <3>1. CASE Kind[j] = "once"
      BY <3>1 DEF Finished, Without, Restrict
    <3>2. CASE Kind[j] # "once"
      BY <3>2 DEF Finished, Put
    <3> QED BY <3>1, <3>2
  <2>4. j \in DOMAIN f => /\ f[j].last = start
                          /\ f[j].next # Never => f[j].next > now
                          /\ mem[j].enabled => Cleared(f[j])
    BY <1>1, <2>1, FinishedIs
  <2>5. m = f
    BY <1>3
  <2> HIDE DEF f
  <2> QED BY <1>3, <2>2, <2>3, <2>4, <2>5
<1>5. j \in DOMAIN mem => mem[j].enabled
  BY DEF Once, OneTimer
<1>6. ASSUME j \in DOMAIN m
      PROVE  <<j, m[j].next>> \notin fired /\ <<j, m[j].next>> \notin tick[s].due
  <2>1. PICK n : n = m[j].next
    OBVIOUS
  <2>2. n \in Nat /\ (n # Never => n > now)
    BY <1>4, <1>6, <2>1 DEF IsStore, JobRecords
  <2>3. <<j, n>> \notin fired /\ <<j, n>> \notin tick[s].due
    BY <1>1, <2>2, FreshIs DEF Once, Unstarted
  <2> QED BY <2>1, <2>3
<1>7. ASSUME NEW k \in DOMAIN m \ {j} PROVE Cleared(m[k]) /\ <<k, m[k].next>> \notin fired
  <2>1. \A r \in Slots : k \notin tick[r].job
    BY <1>2, <1>7
  <2>2. <<k, mem[k].next>> \notin fired /\ Cleared(mem[k])
    BY <1>2, <1>4, <1>7, <2>1 DEF Once, Unstarted, NextUnstarted, AllCleared
  <2> QED BY <1>4, <1>7, <2>2
<1> QED BY <1>3, <1>4, <1>5, <1>6, <1>7

\* The tick is over.
LEMMA OnceEnds ==
    ASSUME CronAssumption, Types, AtRest(tick), AtRest(tick'), Once,
           NEW s \in Slots, NEW j \in Jobs, TickEnds(s, j)
    PROVE  Once'
<1>1. /\ tick[s].job = {j} /\ mem' = Finished(mem, j, tick[s].start, tick[s].own)
      /\ disk' = mem' /\ timerActive' = FALSE
      /\ UNCHANGED <<now, actions, up, manual, fired, twice>>
  BY DEF TickEnds, fires
<1>2. up /\ timer = s /\ \A r \in Slots \ {s} : tick[r].pc = "none"
  BY <1>1, RunsAlone DEF Once
<1>3. \A k \in DOMAIN mem' : Cleared(mem'[k]) /\ <<k, mem'[k].next>> \notin fired
  BY <1>1, OnceFinished
<1>4. \A r \in Slots : tick'[r].pc # "run" /\ (tick'[r].pc # "none" => timer' = r)
  <2>1. PICK m : m = mem' /\ IsStore(m) /\ ArmTimer([tick EXCEPT ![s] = NoTask], m)
    BY EndsIs DEF Types
  <2>2. PICK ts : ts = [tick EXCEPT ![s] = NoTask]
    OBVIOUS
  <2>3. NoTask \in Tasks /\ NoTask.pc = "none"
    BY DEF NoTask, Tasks, Singles, Never
  <2>4. ts \in [Slots -> Tasks] /\ \A r \in Slots : ts[r].pc = "none"
    BY <1>2, <2>2, <2>3 DEF Types
  <2> QED BY <2>1, <2>2, <2>4, ArmedAlone
<1>5. \A i \in DOMAIN actions : actions[i].op = "put" =>
          Cleared(actions[i].rec) /\ <<actions[i].job, actions[i].rec.next>> \notin fired
  BY DEF Once, AllCleared, Unstarted, LinesUnstarted
<1>6. PastFired' /\ twice' = {} /\ manual'.pc = "none"
  BY <1>1 DEF Once, OneTimer, Unstarted, PastFired
<1> QED BY <1>1, <1>2, <1>3, <1>4, <1>5, <1>6, ArmedOnce

\* The tick goes on with a job it has found due.
LEMMA OnceGoesOn ==
    ASSUME CronAssumption, Types, AtRest(tick), Once, NEW s \in Slots, NEW j \in Jobs,
           NEW k \in Jobs, NEW t \in 1..Horizon, TickGoesOn(s, j, k, t)
    PROVE  Once'
<1>1. /\ tick[s].job = {j} /\ <<k, t>> \in tick[s].due
      /\ mem' = Finished(mem, j, tick[s].start, tick[s].own)
      /\ UNCHANGED <<now, disk, actions, up, timerActive, timer, manual>>
      /\ Fire(k, t)
  BY DEF TickGoesOn, file
<1>2. /\ up /\ timer = s /\ timerActive /\ tick[s].pc = "run" /\ tick[s].own
      /\ \A r \in Slots \ {s} : tick[r].pc = "none" /\ tick[r].job = {} /\ tick[r].due = {}
  BY <1>1, RunsAlone DEF Once
<1>3. /\ tick'[s].job = {k} /\ tick'[s].due = tick[s].due \ {<<k, t>>}
      /\ tick'[s].pc = "run" /\ tick'[s].cancelled = tick[s].cancelled
      /\ tick'[s].own = tick[s].own
      /\ \A r \in Slots \ {s} : tick'[r] = tick[r]
  <2>1. /\ tick'[s].job = {k} /\ tick'[s].due = tick[s].due \ {<<k, t>>}
        /\ tick'[s].pc = tick[s].pc /\ tick'[s].cancelled = tick[s].cancelled
        /\ tick'[s].own = tick[s].own
        /\ \A r \in Slots \ {s} : tick'[r] = tick[r]
    BY GoesOnIs
  <2> QED BY <1>2, <2>1
<1>4. /\ DOMAIN mem' \subseteq DOMAIN mem /\ \A x \in DOMAIN mem' \ {j} : mem'[x] = mem[x]
      /\ \A x \in DOMAIN mem' : Cleared(mem'[x]) /\ <<x, mem'[x].next>> \notin fired
  BY <1>1, OnceFinished
<1>5. \A d \in tick[s].due : /\ d \notin fired /\ d[2] <= now /\ d[2] # Never
                             /\ d[1] # j
                             /\ \A e \in tick[s].due : e[1] = d[1] => e = d
  BY <1>1 DEF Once, Unstarted, DueUnstarted
<1>6. /\ k # j /\ <<k, t>> \notin fired /\ t <= now /\ t # Never
      /\ \A e \in tick[s].due : e[1] = k => e = <<k, t>>
  <2>1. <<k, t>>[1] = k /\ <<k, t>>[2] = t
    OBVIOUS
  <2> QED BY <1>1, <1>5, <2>1
<1>7. fired' = fired \cup {<<k, t>>} /\ twice' = {}
  BY <1>1, <1>6 DEF Fire, Once
<1>8. PastFired'
  <2>1. \A f \in fired : f[2] <= now /\ f[2] # Never
    BY DEF Once, Unstarted, PastFired
  <2> QED BY <1>1, <1>6, <1>7, <2>1 DEF PastFired
<1>9. OneTimer'
  <2>1. ASSUME NEW x \in DOMAIN mem', x = k \/ \E d \in tick'[s].due : d[1] = x
        PROVE  mem'[x].enabled
    <3>1. PICK d \in tick[s].due : d[1] = x
      BY <1>1, <1>3, <2>1
    <3>2. x # j /\ x \in DOMAIN mem
      BY <1>4, <1>5, <3>1
    <3>3. mem[x].enabled
      BY <3>1, <3>2 DEF Once, OneTimer
    <3> QED BY <1>4, <3>2, <3>3
  <2>2. \A r \in Slots : \A x \in DOMAIN mem' :
            x \in tick'[r].job \/ (\E d \in tick'[r].due : d[1] = x) => mem'[x].enabled
    BY <1>2, <1>3, <2>1
  <2>3. \A r \in Slots : /\ ~tick'[r].cancelled
                         /\ tick'[r].pc # "none" => up /\ timer = r
                         /\ tick'[r].pc = "run" => timerActive /\ tick'[r].own
    <3>1. ~tick'[s].cancelled /\ tick'[s].own
      BY <1>2, <1>3 DEF Once, OneTimer
    <3>2. \A r \in Slots \ {s} : tick'[r].pc = "none" /\ ~tick'[r].cancelled
      BY <1>2, <1>3 DEF Once, OneTimer
    <3> QED BY <1>2, <3>1, <3>2
  <2>4. manual.pc = "none"
    BY DEF Once, OneTimer
  <2> QED BY <1>1, <1>2, <1>3, <2>2, <2>3, <2>4 DEF OneTimer
<1>10. AllCleared'
  BY <1>1, <1>4 DEF Once, AllCleared
<1>11. NextUnstarted'
  <2>1. \A x \in DOMAIN mem' \ {k} : <<x, mem'[x].next>> \notin fired'
    BY <1>4, <1>7
  <2> QED BY <1>3, <2>1 DEF NextUnstarted
<1>12. DueUnstarted'
  <2>1. ASSUME NEW d \in tick'[s].due
        PROVE  /\ d \notin fired' /\ d[2] <= now /\ d[2] # Never
               /\ d[1] \notin tick'[s].job
               /\ \A e \in tick'[s].due : e[1] = d[1] => e = d
    <3>1. d \in tick[s].due /\ d # <<k, t>>
      BY <1>3, <2>1
    <3> QED BY <1>3, <1>5, <1>6, <1>7, <3>1
  <2> QED BY <1>1, <1>2, <1>3, <2>1 DEF DueUnstarted
<1>13. LinesUnstarted'
  <2>1. \A i \in DOMAIN actions : actions[i].op = "put" =>
            /\ <<actions[i].job, actions[i].rec.next>> \notin fired
            /\ <<actions[i].job, actions[i].rec.next>> \notin tick[s].due
    BY DEF Once, Unstarted, LinesUnstarted
  <2> QED BY <1>1, <1>2, <1>3, <1>7, <2>1 DEF LinesUnstarted
<1> QED BY <1>7, <1>8, <1>9, <1>10, <1>11, <1>12, <1>13 DEF Once, Unstarted

LEMMA OnceStep ==
    ASSUME CronAssumption, Calls \subseteq {"list"}, Types, AtRest(tick), Once, [Next]_vars
    PROVE  Once'
<1>1. CASE Clock
  <2>1. /\ now \in Nat /\ now' = now + 1
        /\ UNCHANGED <<disk, actions, up, mem, timerActive, timer, tick, manual, fired, twice>>
    BY <1>1 DEF Clock, file, tasks, fires, Types
  <2>2. PastFired'
    <3>1. \A f \in fired : f[2] \in Nat /\ f[2] <= now /\ f[2] # Never
      BY DEF Types, Once, Unstarted, PastFired
    <3> QED BY <2>1, <3>1 DEF PastFired
  <2>3. DueUnstarted'
    <3>1. \A s \in Slots : \A d \in tick[s].due : d[2] \in Nat
      BY DEF Types, Tasks
    <3> QED BY <2>1, <3>1 DEF Once, Unstarted, DueUnstarted
  <2>4. OneTimer' /\ AllCleared' /\ NextUnstarted' /\ LinesUnstarted'
    BY <2>1 DEF Once, Unstarted, OneTimer, AllCleared, NextUnstarted, LinesUnstarted
  <2> QED BY <2>1, <2>2, <2>3, <2>4 DEF Once, Unstarted
<1>2. CASE UNCHANGED vars
  BY <1>2 DEF vars, file, tasks, fires, Once, OneTimer, AllCleared, Unstarted, PastFired,
              NextUnstarted, DueUnstarted, LinesUnstarted
<1>3. AtRest(tick')
  BY RestsStep
<1>4. CASE Methods
  BY <1>4, OnceList DEF Methods, AddJob, RemoveJob, EnableJob, UpdateJob, AskRun, Call
<1>5. ~Runs
  BY DEF Runs, RunJob, RunRefused, RunEnds, Once, OneTimer
<1>6. CASE Timers
  <2>1. \A s \in Slots : ~TickCancelled(s)
    BY DEF TickCancelled, Once, OneTimer
  <2> QED BY <1>3, <1>6, <2>1, OnceIdle, OnceFires, OnceEnds, OnceGoesOn DEF Timers
<1> QED
  BY <1>1, <1>2, <1>3, <1>4, <1>5, <1>6, OnceOffline, OnceStart, OnceDown DEF Next

LEMMA AlwaysOnce ==
    ASSUME Calls \subseteq {"list"}
    PROVE  Spec => [](Types /\ AtRest(tick) /\ Once)
<1>1. Init => Types /\ AtRest(tick) /\ Once
  <2>1. Init => AtRest(tick)
    BY DEF Init, AtRest, NoTask
  <2>2. Init => Once
    BY DEF Init, Once, OneTimer, AllCleared, Unstarted, PastFired, NextUnstarted, DueUnstarted,
           LinesUnstarted, NoTask
  <2> QED BY <2>1, <2>2, CronAssumption, InitTypes
<1>2. Types /\ AtRest(tick) /\ Once /\ [Next]_vars => (Types /\ AtRest(tick) /\ Once)'
  BY CronAssumption, TypesStep, RestsStep, OnceStep
<1> QED BY <1>1, <1>2, PTL DEF Spec

\* No occurrence of a job is started twice by the timer: whatever other processes leave,
\* whoever lists the jobs in the middle of a tick, and wherever the gateway stops.
THEOREM StartedOnce ==
    ASSUME Calls \subseteq {"list"}
    PROVE  Spec => []OncePerOccurrence
<1>1. Types /\ AtRest(tick) /\ Once => OncePerOccurrence
  BY DEF Once, OncePerOccurrence
<1> QED BY <1>1, AlwaysOnce, PTL

\* When an execution of the timer comes to its end, its time is in the store.
THEOREM ExecutionsKept ==
    ASSUME Calls \subseteq {"list"}
    PROVE  Spec => UpdateKept
<1> DEFINE Inv == Types /\ AtRest(tick) /\ Once
           Step == /\ manual.pc = "run" /\ manual'.pc = "none" /\ up' => Kept(manual, now, mem')
                   /\ \A s \in Slots :
                         tick[s].pc = "run" /\ ~tick[s].cancelled /\ tick'[s].job # tick[s].job
                             /\ up' => Kept(tick[s], now, mem')
<1>1. ASSUME Inv, [Next]_vars PROVE [Step]_vars
  <2>1. manual.pc = "none"
    BY <1>1 DEF Once, OneTimer
  <2>2. ASSUME NEW s \in Slots, tick[s].pc = "run", tick'[s].job # tick[s].job, up'
        PROVE  Kept(tick[s], now, mem')
    <3>1. up /\ timer = s /\ \A r \in Slots \ {s} : tick[r].pc = "none" /\ tick[r].job = {}
      BY <1>1, <2>2 DEF Once, OneTimer, AtRest
    <3>2. ASSUME NEW j \in Jobs, tick[s].job = {j},
                 mem' = Finished(mem, j, tick[s].start, tick[s].own)
          PROVE  Kept(tick[s], now, mem')
      <4>1. j \in DOMAIN mem' => mem'[j].last = tick[s].start
        BY <1>1, <3>2, CronAssumption, OnceFinished
      <4> QED BY <3>2, <4>1 DEF Kept
    <3>3. ASSUME NEW r \in Slots, NEW j \in Jobs, tick[r].job = {j} PROVE r = s
      BY <3>1, <3>3
    <3>4. CASE Clock \/ Offline \/ UNCHANGED vars
      BY <2>2, <3>4 DEF Clock, Offline, OfflineRead, OfflineAdd, OfflineRemove, OfflineEnable,
                        tasks, vars
    <3>5. ~Start /\ ~Stop /\ ~CrashInMerge
      BY <2>2, <3>1 DEF Start, Stop, CrashInMerge, GoDown
    <3>6. CASE Methods
      <4>1. tick' = Disowned
        BY <3>6 DEF Methods, ListJobs, AddJob, RemoveJob, EnableJob, UpdateJob, AskRun, Call
      <4>2. tick[s] \in Tasks
        BY <1>1 DEF Types
      <4> QED BY <1>1, <2>2, <4>1, <4>2, DisownedIs, DisownIs
    <3>7. ~Runs
      BY <2>1 DEF Runs, RunJob, RunRefused, RunEnds
    <3>8. CASE Timers
      <4>1. \A r \in Slots : ~TickIdle(r) /\ \A j \in Jobs : ~TickFires(r, j)
        BY <2>2, <3>1 DEF TickIdle, TickFires, Awake
      <4>2. \A r \in Slots : ~TickCancelled(r)
        BY <1>1 DEF TickCancelled, Once, OneTimer
      <4>3. ASSUME NEW r \in Slots, NEW j \in Jobs, TickEnds(r, j) PROVE Kept(tick[s], now, mem')
        <5>1. tick[r].job = {j} /\ mem' = Finished(mem, j, tick[r].start, tick[r].own)
          BY <4>3 DEF TickEnds
        <5> QED BY <3>2, <3>3, <5>1
      <4>4. ASSUME NEW r \in Slots, NEW j \in Jobs, NEW k \in Jobs, NEW t \in 1..Horizon,
                   TickGoesOn(r, j, k, t)
            PROVE  Kept(tick[s], now, mem')
        <5>1. tick[r].job = {j} /\ mem' = Finished(mem, j, tick[r].start, tick[r].own)
          BY <4>4 DEF TickGoesOn
        <5> QED BY <3>2, <3>3, <5>1
      <4> QED BY <3>8, <4>1, <4>2, <4>3, <4>4 DEF Timers
    <3> QED BY <1>1, <3>4, <3>5, <3>6, <3>7, <3>8 DEF Next
  <2> QED BY <2>1, <2>2
<1>2. Spec => [][Step]_vars
  BY <1>1, AlwaysOnce, PTL DEF Spec
<1> QED BY <1>2 DEF UpdateKept
=============================================================================
