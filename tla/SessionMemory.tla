--------------------------- MODULE SessionMemory ---------------------------
(***************************************************************************)
(* What one conversation remembers: the messages of a session, the cursor   *)
(* last_consolidated below which they are archived, and history.jsonl,      *)
(* under the tasks that shrink the session while it is in use              *)
(* (nanobot/agent/memory.py Consolidator, nanobot/agent/autocompact.py,     *)
(* nanobot/session/manager.py):                                            *)
(*                                                                         *)
(*   turn   a turn consolidates before it asks the model,                  *)
(*   bg     every saved turn consolidates once more in the background,      *)
(*   idle   a session nobody has used for a while is cut to a short suffix. *)
(*                                                                         *)
(* They queue at the consolidation lock of the session and await the model  *)
(* while they hold it.  /new, commands and a deletion do not take the lock. *)
(* SessionManager hands out objects: after invalidate() the same session    *)
(* can be in memory twice, so sessions live in a heap and are named by      *)
(* their place in it.                                                      *)
(***************************************************************************)
EXTENDS Integers, Sequences, FiniteSets, SequencesExt, FiniteSetsExt, QueueOps

CONSTANTS
    Users,      \* chat messages
    Commands,   \* messages that a command handler answers
    Resets,     \* /new
    Deletes,    \* deletions of the session by the WebUI or the SDK
    NoInput,
    MaxReplies, \* bound: messages a turn adds after its user message
    Suffix,     \* messages an idle session keeps
    Window,     \* replay_max_messages
    Limit,      \* FILE_MAX_MESSAGES
    MaxCrashes, \* bound
    Racing      \* what may happen while an archive call of bg or idle is awaited

ASSUME MemoryAssumption ==
    /\ IsFiniteSet(Users \cup Commands \cup Resets \cup Deletes)
    /\ NoInput \notin Users \cup Commands \cup Resets \cup Deletes
    /\ MaxReplies \in Nat \ {0} /\ Suffix \in Nat \ {0} /\ MaxCrashes \in Nat
    \* A turn fits into the window; in the code only as long as its tool calls
    \* stay below MIN_REPLAY_MAX_MESSAGES.
    /\ Window \in Nat /\ Window > MaxReplies
    /\ Limit \in Nat /\ Limit >= Window
    /\ Racing \subseteq {"new", "command", "delete", "direct"}

Ids == 1..4
Tasks == {"turn", "bg", "idle"}

\* A message is named by the input it belongs to and its number; 0 is the
\* input itself, and the only one with the role "user".
Messages == (Users \cup Commands) \X (0..MaxReplies)

VARIABLES
    heap,       \* the Session objects: messages and last_consolidated
    cached,     \* the one SessionManager._cache holds; 0 is none
    file,       \* the session file
    turn,       \* the turn in progress, with its ctx.session and ctx.history
    lock,       \* who holds the consolidation lock, then who waits for it
    job,        \* what the holder awaits: the chunk with the model
    archived,   \* messages that history.jsonl covers
    farewell,   \* messages that a background archive of /new still holds
    taken,      \* inputs that have arrived
    said,       \* history: messages that have been saved
    cleared,    \* history: those that a later /new or deletion meant to end
    lost,       \* history: those that a deletion discarded, or a crash with farewell
    crashes

vars == <<heap, cached, file, turn, lock, job, archived, farewell, taken, said,
          cleared, lost, crashes>>

Fresh == [messages |-> <<>>, cursor |-> 0]
NoTurn == [pc |-> "idle", of |-> NoInput, obj |-> 0, replay |-> {}, shown |-> {}]
NoJob == [step |-> "none", obj |-> 0, chunk |-> {}, end |-> 0, keep |-> <<>>]

----------------------------------------------------------------------------
(* Sequences of messages.                                                    *)

UsersIn(ms) == {i \in DOMAIN ms : ms[i][2] = 0}

\* messages[last_consolidated:]
Tail_(o) == SubSeq(o.messages, o.cursor + 1, Len(o.messages))

\* The positions retain_recent_legal_suffix keeps.
Retained(ms, max, extend) ==
    LET start == Len(ms) - max + 1
        users == UsersIn(ms)
        from  == IF extend /\ users \cap 1..start # {} THEN Max(users \cap 1..start) ELSE start
        later == {i \in users : i >= from}
    IN  IF Len(ms) <= max THEN DOMAIN ms
        ELSE IF later # {} THEN Min(later)..Len(ms)
        ELSE IF users # {} /\ ~extend THEN Max(users)..Min({Len(ms), Max(users) + max - 1})
        ELSE from..Len(ms)

Slice(ms, range) == IF range = {} THEN <<>> ELSE SubSeq(ms, Min(range), Max(range))

\* Mutant: the file cap leaves the cursor where it was.
Capped_SameCursor(o) ==
    LET kept == Retained(o.messages, Limit, FALSE)
    IN  IF Len(o.messages) <= Limit THEN o
        ELSE [messages |-> Slice(o.messages, kept), cursor |-> Min({o.cursor, Cardinality(kept)})]

\* enforce_file_cap: what stays, and what it hands to the archive.
Capped(o) ==
    LET kept == Retained(o.messages, Limit, FALSE)
    IN  IF Len(o.messages) <= Limit THEN o
        ELSE [messages |-> Slice(o.messages, kept), cursor |-> Cardinality(kept \cap 1..o.cursor)]
CutOff(o) ==
    {o.messages[i] : i \in DOMAIN o.messages \ (Retained(o.messages, Limit, FALSE) \cup 1..o.cursor)}

\* get_history before it counts tokens: the last Window messages from the first
\* user message on, without commands.
Replayed(o) ==
    LET ms == Tail_(o)
        recent == Max({1, Len(ms) - Window + 1})..Len(ms)
        users == recent \cap UsersIn(ms)
    IN  {k \in recent : (users # {} => k >= Min(users)) /\ ms[k][1] \in Users}
Replay(o) == {Tail_(o)[i] : i \in Replayed(o)}

\* Where the token budget may let the prompt begin: with a user message, if there
\* is one, and never behind the last one.
Budgeted(o) ==
    LET users == Replayed(o) \cap UsersIn(Tail_(o))
    IN  IF users # {} THEN users ELSE Replayed(o)

\* What get_history returns: all of it, or what the token budget leaves.
Histories(o) ==
    {Replay(o)} \cup {{Tail_(o)[i] : i \in {k \in Replayed(o) : k >= from}} : from \in Budgeted(o)}

\* Mutant: what the replay window hides is not archived first.
ReplayOverflow_None(o) == o.cursor

\* _replay_overflow_boundary: where the replay window starts.
ReplayOverflow(o) ==
    LET ms == Tail_(o)
        start == Len(ms) - Window + 1
        users == UsersIn(ms)
        later == {i \in users : i >= start}
    IN  IF Len(ms) <= Window THEN o.cursor
        ELSE o.cursor - 1 + (IF later # {} THEN Min(later)
                             ELSE IF users # {} THEN Max(users) ELSE start)

\* pick_consolidation_boundary: any later user turn, depending on the tokens.
Boundaries(o) == {i \in o.cursor + 1..Len(o.messages) - 1 : i + 1 \in UsersIn(o.messages)}

----------------------------------------------------------------------------
(* SessionManager.                                                           *)

\* Session.__post_init__ repairs a cursor that is out of range.
Loaded == IF file.cursor <= Len(file.messages) THEN file ELSE [file EXCEPT !.cursor = 0]

Free == Min(Ids \ {cached, turn.obj, job.obj})

\* get_or_create: the object, and the heap with it.
Session == IF cached # 0 THEN cached ELSE Free
Heap == IF cached # 0 THEN heap ELSE [heap EXCEPT ![Free] = Loaded]

\* Objects that nobody refers to are gone.
HeapIs(h) == heap' = [i \in Ids |-> IF i \in {cached', turn'.obj, job'.obj} THEN h[i] ELSE Fresh]

\* save(): the cap, the file, and the cache refers to this object from now on.
Save(h, id, o, more) ==
    /\ file' = Capped(o)
    /\ cached' = id
    /\ archived' = archived \cup CutOff(o) \cup more
    /\ HeapIs([h EXCEPT ![id] = Capped(o)])

----------------------------------------------------------------------------
Init ==
    /\ heap = [i \in Ids |-> Fresh]
    /\ cached = 0
    /\ file = Fresh
    /\ turn = NoTurn
    /\ lock = <<>>
    /\ job = NoJob
    /\ archived = {} /\ farewell = {} /\ taken = {}
    /\ said = {} /\ cleared = {} /\ lost = {}
    /\ crashes = 0

Awaited == job.step # "none"

\* Nothing that bg or idle computed before an await is still to be written.
Quiet == Awaited => Head(lock) = "turn"

\* RESTORE to BUILD: the turn takes its session and waits for the lock.
StartTurn(u) ==
    /\ turn.pc = "idle" /\ u \notin taken
    /\ taken' = taken \cup {u}
    /\ turn' = [NoTurn EXCEPT !.pc = "lock", !.of = u, !.obj = Session]
    /\ lock' = Append(lock, "turn")
    /\ cached' = Session
    /\ UNCHANGED <<file, job, archived, farewell, said, cleared, lost, crashes>>
    /\ HeapIs(Heap)

\* A turn goes on with its history, of its own object.
Resumes(t, h) ==
    \/ t # "turn" /\ UNCHANGED turn
    \/ /\ t = "turn"
       /\ \E shown \in Histories(h[turn.obj]) :
              turn' = [turn EXCEPT !.pc = "build", !.replay = Replay(h[turn.obj]), !.shown = shown]

\* Mutant: the early return of an idle compaction keeps the lock.
Leave_KeepsLock(t, h) ==
    /\ lock' = IF t = "idle" THEN lock ELSE Tail(lock)
    /\ job' = NoJob
    /\ Resumes(t, h)

\* Releasing the lock.
Leave(t, h) ==
    /\ lock' = Tail(lock)
    /\ job' = NoJob
    /\ Resumes(t, h)

\* archive() of the messages up to end begins.
Await(step, id, o, end) ==
    /\ job' = [NoJob EXCEPT !.step = step, !.obj = id, !.end = end,
                            !.chunk = ToSet(SubSeq(o.messages, o.cursor + 1, end))]
    /\ UNCHANGED <<lock, turn>>

\* The prompt fits now, or one more round is needed.
Rounds(t, h, id) ==
    \/ Leave(t, h)
    \/ \E end \in Boundaries(h[id]) : Await("tokens", id, h[id], end)

\* maybe_consolidate_by_tokens has the lock and looks the session up again.
Consolidate(t) ==
    /\ t \in {"turn", "bg"}
    /\ lock # <<>> /\ Head(lock) = t /\ ~Awaited
    /\ LET o == Heap[Session]
       IN  IF o.messages = <<>> THEN Leave(t, Heap)
           ELSE IF ReplayOverflow(o) > o.cursor
           THEN Await("replay", Session, o, ReplayOverflow(o))
           ELSE Rounds(t, Heap, Session)
    /\ cached' = Session
    /\ HeapIs(Heap)
    /\ UNCHANGED <<file, archived, farewell, taken, said, cleared, lost, crashes>>

\* Mutant: after an error of the model the chunk is not dumped.
Archive_NotDumped(t, ok) ==
    /\ t \in {"turn", "bg"}
    /\ lock # <<>> /\ Head(lock) = t /\ Awaited
    /\ LET o == [heap[job.obj] EXCEPT !.cursor = job.end]
           h == [heap EXCEPT ![job.obj] = Capped(o)]
       IN  /\ IF job.step = "tokens" /\ ~ok THEN Leave(t, h) ELSE Rounds(t, h, job.obj)
           /\ Save(heap, job.obj, o, IF ok THEN job.chunk ELSE {})
    /\ UNCHANGED <<farewell, taken, said, cleared, lost, crashes>>

\* The model answered, or failed and the chunk is dumped as it is: the cursor
\* moves in both cases, and a failed round is the last one.
Archive(t, ok) ==
    /\ t \in {"turn", "bg"}
    /\ lock # <<>> /\ Head(lock) = t /\ Awaited
    /\ LET o == [heap[job.obj] EXCEPT !.cursor = job.end]
           h == [heap EXCEPT ![job.obj] = Capped(o)]
       IN  /\ IF job.step = "tokens" /\ ~ok THEN Leave(t, h) ELSE Rounds(t, h, job.obj)
           /\ Save(heap, job.obj, o, job.chunk)
    /\ UNCHANGED <<farewell, taken, said, cleared, lost, crashes>>

\* _persist_user_message_early, on the object the turn has had from the start.
Persist ==
    /\ turn.pc = "build"
    /\ turn' = [turn EXCEPT !.pc = "model"]
    /\ said' = said \cup {<<turn.of, 0>>}
    /\ UNCHANGED <<lock, job, farewell, taken, cleared, lost, crashes>>
    /\ Save(heap, turn.obj, [heap[turn.obj] EXCEPT !.messages = Append(@, <<turn.of, 0>>)], {})

\* _state_save: the answer, the file cap, and bg is scheduled.
Finish(n) ==
    /\ turn.pc = "model"
    /\ LET answer == [i \in 1..n |-> <<turn.of, i>>]
       IN  /\ said' = said \cup ToSet(answer)
           /\ turn' = NoTurn
           /\ lock' = Append(lock, "bg")
           /\ UNCHANGED <<job, farewell, taken, cleared, lost, crashes>>
           /\ Save(heap, turn.obj, [heap[turn.obj] EXCEPT !.messages = @ \o answer], {})

----------------------------------------------------------------------------
(* Commands, /new, /stop and deletion.                                       *)

\* Nothing awaits with positions that two more messages would invalidate.
Harmless ==
    Awaited => job.step # "idle" /\ Len(heap[job.obj].messages) + 2 <= Limit

\* A shortcut: the command and its answer are stored without the lock.
Command(c) ==
    /\ turn.pc = "idle" /\ c \notin taken
    /\ "command" \in Racing \/ Harmless
    /\ taken' = taken \cup {c}
    /\ said' = said \cup {<<c, 0>>, <<c, 1>>}
    /\ UNCHANGED <<turn, lock, job, farewell, cleared, lost, crashes>>
    /\ LET asked == [Heap[Session] EXCEPT !.messages = Append(@, <<c, 0>>)]
       IN  Save(Heap, Session, [Capped(asked) EXCEPT !.messages = Append(@, <<c, 1>>)],
                CutOff(asked))

\* A cancelled turn releases the lock, or no longer waits for it.
CancelTurn ==
    /\ turn' = NoTurn
    /\ lock' = Without(lock, "turn")
    /\ job' = IF lock # <<>> /\ Head(lock) = "turn" THEN NoJob ELSE job

\* /stop; a checkpoint it materializes is in SessionTurn.
Stop ==
    /\ turn.pc # "idle"
    /\ CancelTurn
    /\ UNCHANGED <<cached, file, archived, farewell, taken, said, cleared, lost, crashes>>
    /\ HeapIs(heap)

\* Mutant: the turn in progress is not cancelled.
New_TurnGoesOn(n) ==
    /\ n \notin taken
    /\ Quiet \/ "new" \in Racing
    /\ taken' = taken \cup {n}
    /\ UNCHANGED <<turn, lock, job>>
    /\ farewell' = farewell \cup ToSet(Tail_(Heap[Session]))
    /\ cleared' = cleared \cup said
    /\ file' = Fresh /\ cached' = 0
    /\ UNCHANGED <<archived, said, lost, crashes>>
    /\ HeapIs([Heap EXCEPT ![Session] = Fresh])

\* cmd_new: the object is emptied, saved and dropped from the cache, and what was
\* not consolidated goes to the archive in the background.
New(n) ==
    /\ n \notin taken
    /\ Quiet \/ "new" \in Racing
    /\ taken' = taken \cup {n}
    /\ CancelTurn
    /\ farewell' = farewell \cup ToSet(Tail_(Heap[Session]))
    /\ cleared' = cleared \cup said
    /\ file' = Fresh /\ cached' = 0
    /\ UNCHANGED <<archived, said, lost, crashes>>
    /\ HeapIs([Heap EXCEPT ![Session] = Fresh])

\* The background archive of /new ends.
Farewell ==
    /\ farewell # {}
    /\ archived' = archived \cup farewell
    /\ farewell' = {}
    /\ UNCHANGED <<heap, cached, file, turn, lock, job, taken, said, cleared, lost, crashes>>

\* delete_session: the file and the cache entry go, no task is told.
Delete(d) ==
    /\ d \notin taken
    /\ (turn.pc = "idle" /\ ~Awaited) \/ "delete" \in Racing
    /\ taken' = taken \cup {d}
    /\ file' = Fresh /\ cached' = 0
    /\ cleared' = cleared \cup said
    /\ lost' = lost \cup (said \ (archived \cup farewell))
    /\ UNCHANGED <<turn, lock, job, archived, farewell, said, crashes>>
    /\ HeapIs(heap)

----------------------------------------------------------------------------
(* Idle sessions.                                                            *)

Compactable(o) == Retained(Tail_(o), Suffix, TRUE) # DOMAIN Tail_(o)

\* check_expired: the session has expired and has a tail to cut; it skips the
\* sessions of turns that the bus started, not of direct calls.
CheckExpired ==
    /\ turn.pc = "idle" \/ "direct" \in Racing
    /\ \A i \in DOMAIN lock : lock[i] # "idle"
    /\ Compactable(Heap[Session])
    /\ lock' = Append(lock, "idle")
    /\ cached' = Session
    /\ UNCHANGED <<file, turn, job, archived, farewell, taken, said, cleared, lost, crashes>>
    /\ HeapIs(Heap)

\* compact_idle_session up to the await: a new object, from the file.
Compact ==
    /\ lock # <<>> /\ Head(lock) = "idle" /\ ~Awaited
    /\ LET ms == Tail_(Loaded)
           kept == Retained(ms, Suffix, TRUE)
           keep == Slice(ms, kept)
       IN  IF kept = DOMAIN ms
           THEN /\ Leave("idle", heap)
                /\ Save(heap, Free, IF ms = <<>> THEN Loaded ELSE [messages |-> ms, cursor |-> 0], {})
           ELSE /\ job' = [NoJob EXCEPT !.step = "idle", !.obj = Free, !.keep = keep,
                                        !.chunk = {ms[i] : i \in DOMAIN ms \ kept}]
                /\ cached' = Free
                /\ UNCHANGED <<file, archived, turn, lock>>
                /\ HeapIs([heap EXCEPT ![Free] = Loaded])
    /\ UNCHANGED <<farewell, taken, said, cleared, lost, crashes>>

\* The archive call of compact_idle_session has returned.
Compacted ==
    /\ lock # <<>> /\ Head(lock) = "idle" /\ Awaited
    /\ Leave("idle", heap)
    /\ Save(heap, job.obj, [messages |-> job.keep, cursor |-> 0], job.chunk)
    /\ UNCHANGED <<farewell, taken, said, cleared, lost, crashes>>

\* The process dies and starts again; what /new was archiving in the background
\* was in memory only.
Crash ==
    /\ crashes < MaxCrashes
    /\ crashes' = crashes + 1
    /\ cached' = 0 /\ turn' = NoTurn /\ lock' = <<>> /\ job' = NoJob
    /\ farewell' = {}
    /\ lost' = lost \cup (farewell \ archived)
    /\ heap' = [i \in Ids |-> Fresh]
    /\ UNCHANGED <<file, archived, taken, said, cleared>>

----------------------------------------------------------------------------
Next ==
    \/ \E u \in Users : StartTurn(u)
    \/ \E t \in Tasks : Consolidate(t)
    \/ \E t \in Tasks, ok \in BOOLEAN : Archive(t, ok)
    \/ Persist
    \/ \E n \in 1..MaxReplies : Finish(n)
    \/ \E c \in Commands : Command(c)
    \/ Stop
    \/ \E n \in Resets : New(n)
    \/ Farewell
    \/ \E d \in Deletes : Delete(d)
    \/ CheckExpired
    \/ Compact
    \/ Compacted
    \/ Crash

Spec == Init /\ [][Next]_vars

\* A model call returns or fails (it has timeouts), and a task that can go on does.
Fairness ==
    /\ \A t \in Tasks : WF_vars(Consolidate(t)) /\ WF_vars(\E ok \in BOOLEAN : Archive(t, ok))
    /\ WF_vars(Compact) /\ WF_vars(Compacted) /\ WF_vars(Farewell)

FairSpec == Spec /\ Fairness

----------------------------------------------------------------------------
SessionObject == [messages : Seq(Messages), cursor : Nat]

\* The state space: what the variables may hold.
TypeOK ==
    /\ heap \in [Ids -> SessionObject] /\ file \in SessionObject
    /\ cached \in Ids \cup {0}
    /\ turn \in [pc : {"idle", "lock", "build", "model"}, of : Users \cup {NoInput},
                 obj : Ids \cup {0}, replay : SUBSET Messages, shown : SUBSET Messages]
    /\ lock \in Seq(Tasks)
    /\ job \in [step : {"none", "replay", "tokens", "idle"}, obj : Ids \cup {0},
                chunk : SUBSET Messages, end : Nat, keep : Seq(Messages)]
    /\ archived \subseteq Messages /\ farewell \subseteq Messages
    /\ said \subseteq Messages /\ cleared \subseteq Messages /\ lost \subseteq Messages
    /\ taken \subseteq Users \cup Commands \cup Resets \cup Deletes
    /\ crashes \in 0..MaxCrashes

\* Whatever was cut, capped, cached twice or cancelled: a message that was saved is
\* in the session file, in history.jsonl, or with the background archive of /new.  A
\* crash takes only what that archive still held; otherwise only deletions discard.
NothingForgotten == said \subseteq ToSet(file.messages) \cup archived \cup farewell \cup lost

\* The cursor of the file and of every object in memory is inside the session, and
\* what it hides from the model is in the archive.
HiddenIsArchived ==
    \A o \in {file} \cup {heap[i] : i \in Ids} :
        /\ o.cursor <= Len(o.messages)
        /\ \A i \in 1..o.cursor : o.messages[i] \in archived

\* In session o message m comes before message n.
Before(o, m, n) ==
    \E i, k \in DOMAIN o.messages : i < k /\ o.messages[i] = m /\ o.messages[k] = n

\* When a turn asks the model, every earlier chat message is inside the replay
\* window, or was archived before ("Archive messages that would be hidden by the
\* replay message window").  Only the token budget leaves some of that out of the
\* prompt, never all, and what it leaves out is older than what is in the prompt.
AllRecalled ==
    /\ turn.pc \in {"build", "model"} =>
           /\ \A m \in said : \/ m[1] \notin Users \/ m[1] = turn.of
                              \/ m \in turn.replay \cup archived \cup farewell \cup lost
           /\ turn.replay # {} => turn.shown # {}
    /\ turn.pc = "build" =>
           \A m \in turn.replay \ turn.shown, n \in turn.shown : Before(heap[turn.obj], m, n)

\* After /new nothing of the old conversation is in the session again.
FreshAfterNew ==
    cleared \cap (ToSet(file.messages) \cup
                  IF cached = 0 THEN {} ELSE ToSet(heap[cached].messages)) = {}

\* No task keeps the consolidation lock: a turn gets to its prompt or is cancelled.
TurnsGetThrough == turn.pc = "lock" ~> turn.pc # "lock"
=============================================================================
