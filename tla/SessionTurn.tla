----------------------------- MODULE SessionTurn -----------------------------
(***************************************************************************)
(* One turn after the other of one session: the states RESTORE to SAVE of  *)
(* nanobot/agent/loop.py, the iterations of nanobot/agent/runner.py, and   *)
(* what they leave in the session, in memory and on disk, when a turn is   *)
(* cancelled, fails, or dies with the process.                             *)
(*                                                                         *)
(* That the turns of a session do not overlap is what AgentDispatch shows. *)
(* A model response with tool calls stands for one call: the checkpoint    *)
(* knows all calls of a response as pending, or all as completed.          *)
(*                                                                         *)
(* A turn whose iterations are used up while a sustained goal is active    *)
(* puts a continuation into its queue and is saved without an answer; the  *)
(* continuation is the input of a later turn, or joins one.                *)
(***************************************************************************)
EXTENDS Integers, Sequences, SequencesExt

CONSTANTS
    Users,          \* chat messages
    Commands,       \* messages that a command handler answers
    Resets,         \* /new
    Results,        \* results of subagents, which join a turn
    Continuations,  \* what a turn queues when its budget ends before the goal
    Iterations,     \* max_iterations of the runner
    NoInput         \* no turn in progress

ASSUME TurnAssumption ==
    /\ IsFiniteSet(Users)
    /\ Users \cap Commands = {} /\ Users \cap Resets = {} /\ Commands \cap Resets = {}
    /\ Results \cap (Users \cup Commands \cup Resets \cup Continuations) = {}
    /\ Continuations \cap (Users \cup Commands \cup Resets) = {}
    /\ NoInput \notin Users \cup Commands \cup Resets \cup Results \cup Continuations
    /\ Iterations \in Nat \ {0}

Inputs == Users \cup Commands \cup Resets \cup Continuations

VARIABLES
    mem,        \* the cached Session: messages, checkpoint, pending_user_turn
    disk,       \* its file
    pc,         \* where the turn is
    input,      \* the message the turn answers, or NoInput
    run,        \* what the runner appended to its messages
    iteration,  \* the iteration of the runner; 0 before it starts
    taken,      \* messages that began a turn or joined one
    queued,     \* continuations that wait for a turn
    stored,     \* history: messages whose turn has stored them before it ran
    cut         \* history: lengths of the session when a continuation was due

vars == <<mem, disk, pc, input, run, iteration, taken, queued, stored, cut>>

----------------------------------------------------------------------------
(* Messages of a session.  A response is named after its turn and iteration. *)

Reply == <<input, iteration>>

User(S) == [role |-> "user", of |-> S, text |-> "said"]
Call == [role |-> "call", of |-> {Reply}, text |-> "said"]
Result == [role |-> "tool", of |-> {Reply}, text |-> "said"]
Text == [role |-> "assistant", of |-> {Reply}, text |-> "said"]
\* "Error: Task interrupted before this tool finished."
Unfinished == [Result EXCEPT !.text = "interrupted"]
\* The request to go on where the answer was cut off, or with the goal.
GoOn == [role |-> "user", of |-> {}, text |-> "go on"]
\* "Error: Task interrupted before a response was generated."
Closing == [role |-> "assistant", of |-> {}, text |-> "interrupted"]

\* A message of role user that is not hidden: subagent results are.
VisibleUser(e) == e.role = "user" /\ e.of \cap Results = {}

LastRole(h) == IF h = <<>> THEN "none" ELSE h[Len(h)].role

----------------------------------------------------------------------------
(* The two restart flags of the session metadata.  A checkpoint is kept as   *)
(* the messages it restores; <<>> stands for no checkpoint.                  *)

\* The largest part of the checkpoint that the history already ends with.
Overlap(h, c) ==
    Max({n \in 0..Len(c) : /\ n <= Len(h)
                           /\ SubSeq(h, Len(h) - n + 1, Len(h)) = SubSeq(c, 1, n)})

\* _restore_runtime_checkpoint.
RestoreCheckpoint(s) ==
    IF s.checkpoint = <<>> THEN s
    ELSE [messages |-> s.messages \o
              SubSeq(s.checkpoint, Overlap(s.messages, s.checkpoint) + 1, Len(s.checkpoint)),
          checkpoint |-> <<>>,
          pending |-> FALSE]

\* Mutant: a user message without an answer is left as it is.
RestorePending_NotClosed(s) == [s EXCEPT !.pending = FALSE]

RestorePending(s) ==
    [s EXCEPT !.pending = FALSE,
              !.messages = IF s.pending /\ LastRole(@) = "user"
                           THEN Append(@, Closing) ELSE @]

Restored(s) == RestorePending(RestoreCheckpoint(s))

Save(s) == mem' = s /\ disk' = s

\* A turn ends, whatever the reason: its locals are gone.
TurnOver ==
    /\ pc' = "idle"
    /\ input' = NoInput
    /\ run' = <<>>
    /\ iteration' = 0

----------------------------------------------------------------------------
Init ==
    /\ mem = [messages |-> <<>>, checkpoint |-> <<>>, pending |-> FALSE]
    /\ disk = mem
    /\ pc = "idle"
    /\ input = NoInput
    /\ run = <<>>
    /\ iteration = 0
    /\ taken = {}
    /\ queued = {}
    /\ stored = {}
    /\ cut = {}

\* _state_restore, which saves the session only if there was a flag.
Restore(u) ==
    /\ pc = "idle"
    /\ u \notin taken
    /\ u \in Continuations => u \in queued
    /\ taken' = taken \cup {u}
    /\ queued' = queued \ {u}
    /\ mem' = Restored(mem)
    /\ disk' = IF mem.checkpoint # <<>> \/ mem.pending THEN mem' ELSE disk
    /\ pc' = "build"
    /\ input' = u
    /\ UNCHANGED <<run, iteration, stored, cut>>

\* _persist_user_message_early.
WithInput(s) == [s EXCEPT !.messages = Append(@, User({input})), !.pending = TRUE]

\* Mutant: the message is not saved before the model is asked.
Build_NotSaved ==
    /\ pc = "build"
    /\ input \in Users
    /\ mem' = WithInput(mem)
    /\ stored' = stored \cup {input}
    /\ pc' = "model"
    /\ iteration' = 1
    /\ UNCHANGED <<disk, input, run, taken, queued, cut>>

Build ==
    /\ pc = "build"
    /\ input \in Users
    /\ Save(WithInput(mem))
    /\ stored' = stored \cup {input}
    /\ pc' = "model"
    /\ iteration' = 1
    /\ UNCHANGED <<input, run, taken, queued, cut>>

\* A continuation is not a message of the user: nothing is stored.
BuildContinuation ==
    /\ pc = "build"
    /\ input \in Continuations
    /\ pc' = "model"
    /\ iteration' = 1
    /\ UNCHANGED <<mem, disk, input, run, taken, queued, stored, cut>>

\* A command is answered without BUILD and SAVE: its message is saved, ...
Shortcut ==
    /\ pc = "build"
    /\ input \in Commands
    /\ Save(WithInput(mem))
    /\ stored' = stored \cup {input}
    /\ pc' = "reply"
    /\ UNCHANGED <<input, run, iteration, taken, queued, cut>>

\* Mutant: the answer is not saved.
ShortcutReply_NotSaved ==
    /\ pc = "reply"
    /\ mem' = [mem EXCEPT !.messages = Append(@, Text), !.pending = FALSE]
    /\ TurnOver
    /\ UNCHANGED <<disk, taken, queued, stored, cut>>

\* ... then its answer, and the flag is cleared after that save.
ShortcutReply ==
    /\ pc = "reply"
    /\ disk' = [mem EXCEPT !.messages = Append(@, Text)]
    /\ mem' = [disk' EXCEPT !.pending = FALSE]
    /\ TurnOver
    /\ UNCHANGED <<taken, queued, stored, cut>>

----------------------------------------------------------------------------
(* The runner.  An iteration ends with an answer of the model or with the    *)
(* results of its tools; what it takes out of the pending queue follows.     *)

\* _set_runtime_checkpoint: only the latest response is kept.
Checkpoint(c) == Save([mem EXCEPT !.checkpoint = c])
NoCheckpoint == UNCHANGED <<mem, disk>>

\* What the pending queue may hold for the turn.
FollowUps == ((Users \cup Results) \ taken) \cup queued

\* _append_injected_messages: a follow-up is merged into a user message it
\* follows, be it the turn's own input, which is not part of run.  A hidden
\* message is neither merged nor merged into.
WithJoined(r, m) ==
    CASE m \notin Results /\ r = <<>> -> r
      [] m \notin Results /\ r # <<>> /\ VisibleUser(r[Len(r)]) ->
            [r EXCEPT ![Len(r)].of = @ \cup {m}]
      [] OTHER -> Append(r, User({m}))

\* After the last iteration the loop falls through to its else branch.
NextIteration ==
    /\ pc' = IF iteration < Iterations THEN "model" ELSE "exhausted"
    /\ iteration' = iteration + 1

LeaveRunner == pc' = "save" /\ UNCHANGED iteration

\* The runner takes follow-ups, as it may while a cycle is left, and goes on.
TakeFollowUps ==
    /\ FollowUps # {}
    /\ pc' = "join"
    /\ UNCHANGED iteration

\* Mutant: the calls are not recorded as pending.
CallTools_NothingPending ==
    /\ pc = "model"
    /\ run' = Append(run, Call)
    /\ Checkpoint(<<Call>>)
    /\ pc' = "tools"
    /\ UNCHANGED <<input, iteration, taken, queued, stored, cut>>

\* The model asks for tools.
CallTools ==
    /\ pc = "model"
    /\ run' = Append(run, Call)
    /\ Checkpoint(<<Call, Unfinished>>)
    /\ pc' = "tools"
    /\ UNCHANGED <<input, iteration, taken, queued, stored, cut>>

\* The tools have finished.
ToolsCompleted ==
    /\ pc = "tools"
    /\ Checkpoint(<<Call, Result>>)
    /\ run' = Append(run, Result)
    /\ NextIteration \/ TakeFollowUps
    /\ UNCHANGED <<input, taken, queued, stored, cut>>

\* A fatal tool error: the checkpoint of the pending calls stays.
ToolsFailed ==
    /\ pc = "tools"
    /\ NoCheckpoint
    /\ run' = run \o <<Result, Text>>
    /\ LeaveRunner \/ TakeFollowUps
    /\ UNCHANGED <<input, taken, queued, stored, cut>>

\* An answer.
Answer ==
    /\ pc = "model"
    /\ Checkpoint(<<Text>>)
    /\ run' = Append(run, Text)
    /\ LeaveRunner \/ TakeFollowUps
    /\ UNCHANGED <<input, taken, queued, stored, cut>>

\* An answer while a sustained goal is active: the model is asked to go on.
GoalGoesOn ==
    /\ pc = "model"
    /\ Checkpoint(<<Text>>)
    /\ run' = run \o <<Text, GoOn>>
    /\ NextIteration
    /\ UNCHANGED <<input, taken, queued, stored, cut>>

\* An error of the provider, or blanks after the retries: follow-ups that are
\* there go on from what the model was asked, later ones from a placeholder.
NoAnswer ==
    /\ pc = "model"
    /\ NoCheckpoint
    /\ \/ run' = run /\ TakeFollowUps
       \/ run' = Append(run, Text) /\ (LeaveRunner \/ TakeFollowUps)
    /\ UNCHANGED <<input, taken, queued, stored, cut>>

\* Blanks, and the model is asked again.
Blank ==
    /\ pc = "model"
    /\ NextIteration
    /\ UNCHANGED <<mem, disk, input, run, taken, queued, stored, cut>>

\* An answer that was cut off.
Truncated ==
    /\ pc = "model"
    /\ run' = run \o <<Text, GoOn>>
    /\ NextIteration
    /\ UNCHANGED <<mem, disk, input, taken, queued, stored, cut>>

\* A follow-up joins; when no iteration is left the rest of them join, too.
Join(m) ==
    /\ pc \in {"join", "exhausted"}
    /\ m \in FollowUps
    /\ taken' = taken \cup {m}
    /\ queued' = queued \ {m}
    /\ run' = WithJoined(run, m)
    /\ \/ pc = "join" /\ NextIteration
       \/ (pc = "exhausted" \/ FollowUps # {m}) /\ UNCHANGED <<pc, iteration>>
    /\ UNCHANGED <<mem, disk, input, stored, cut>>

\* No iteration is left: an answer without tools, ...
OutOfIterations ==
    /\ pc = "exhausted"
    /\ run' = Append(run, Text)
    /\ LeaveRunner
    /\ UNCHANGED <<mem, disk, input, taken, queued, stored, cut>>

\* ... which maybe_continue_turn strips again for an active goal.
ContinueLater(c) ==
    /\ pc = "exhausted"
    /\ c \in Continuations \ (taken \cup queued)
    /\ queued' = queued \cup {c}
    /\ pc' = "cut"
    /\ UNCHANGED <<mem, disk, input, run, iteration, taken, stored, cut>>

\* _save_turn and the two flags.
\* Mutant: the checkpoint stays.
SaveTurn_KeepsCheckpoint ==
    /\ pc \in {"save", "cut"}
    /\ Save([messages |-> mem.messages \o run, checkpoint |-> mem.checkpoint, pending |-> FALSE])
    /\ cut' = IF pc = "cut" THEN cut \cup {Len(mem.messages \o run)} ELSE cut
    /\ TurnOver
    /\ UNCHANGED <<taken, queued, stored>>

SaveTurn ==
    /\ pc \in {"save", "cut"}
    /\ Save([messages |-> mem.messages \o run, checkpoint |-> <<>>, pending |-> FALSE])
    /\ cut' = IF pc = "cut" THEN cut \cup {Len(mem.messages \o run)} ELSE cut
    /\ TurnOver
    /\ UNCHANGED <<taken, queued, stored>>

----------------------------------------------------------------------------
(* How a turn ends otherwise.  Nothing is awaited between Shortcut and         *)
(* ShortcutReply: there it can only die.                                       *)

Running == pc \notin {"idle", "reply"}
Cleared(s) == [s EXCEPT !.messages = <<>>]

\* /stop: the handler of CancelledError in _dispatch.
Cancel ==
    /\ Running
    /\ IF mem.checkpoint # <<>> THEN Save(RestoreCheckpoint(mem)) ELSE NoCheckpoint
    /\ TurnOver
    /\ UNCHANGED <<taken, queued, stored, cut>>

\* Any other exception.
Fail ==
    /\ Running
    /\ TurnOver
    /\ UNCHANGED <<mem, disk, taken, queued, stored, cut>>

\* /new as a turn of its own.
New ==
    /\ pc = "build"
    /\ input \in Resets
    /\ Save(Cleared(mem))
    /\ stored' = {} /\ cut' = {}
    /\ TurnOver
    /\ UNCHANGED <<taken, queued>>

\* /new while a turn runs: the turn is cancelled first.
NewInline(u) ==
    /\ Running
    /\ u \in Resets \ taken
    /\ taken' = taken \cup {u}
    /\ Save(Cleared(RestoreCheckpoint(mem)))
    /\ stored' = {} /\ cut' = {}
    /\ TurnOver
    /\ UNCHANGED queued

\* The process dies with its queues, and the next one reads the file.
Crash ==
    /\ mem' = disk
    /\ queued' = {}
    /\ TurnOver
    /\ UNCHANGED <<disk, taken, stored, cut>>

----------------------------------------------------------------------------
RunnerStep ==
    \/ CallTools \/ ToolsCompleted \/ ToolsFailed
    \/ Answer \/ NoAnswer \/ Blank \/ Truncated \/ GoalGoesOn
    \/ \E m \in Users \cup Results \cup Continuations : Join(m)
    \/ OutOfIterations
    \/ \E c \in Continuations : ContinueLater(c)

Next ==
    \/ \E u \in Inputs : Restore(u) \/ NewInline(u)
    \/ Build \/ BuildContinuation \/ Shortcut \/ ShortcutReply \/ New
    \/ RunnerStep
    \/ SaveTurn \/ Cancel \/ Fail \/ Crash

Spec == Init /\ [][Next]_vars

----------------------------------------------------------------------------
(* Properties.                                                               *)

Entries == [role : {"user", "call", "tool", "assistant"},
            of : (SUBSET (Users \cup Commands \cup Results \cup Continuations))
                 \cup {{r} : r \in Inputs \X (0..Iterations + 1)},
            text : {"said", "go on", "interrupted"}]
SessionType(s) ==
    /\ \A i \in DOMAIN s.messages : s.messages[i] \in Entries
    /\ \A i \in DOMAIN s.checkpoint : s.checkpoint[i] \in Entries
    /\ s.pending \in BOOLEAN

\* Every variable has its type; the runner never begins more iterations than it may.
TypeOK ==
    /\ SessionType(mem) /\ SessionType(disk)
    /\ pc \in {"idle", "build", "reply", "model", "tools", "join", "exhausted", "cut", "save"}
    /\ input \in Inputs \cup {NoInput}
    /\ \A i \in DOMAIN run : run[i] \in Entries
    /\ iteration \in 0..Iterations + 1
    /\ taken \subseteq Inputs \cup Results
    /\ queued \subseteq Continuations
    /\ stored \subseteq Users \cup Commands
    /\ cut \subseteq Nat

UsersIn(h) == UNION {h[i].of : i \in {j \in DOMAIN h : h[j].role = "user"}}

CallsPaired(h) ==
    \A i \in DOMAIN h :
        /\ h[i].role = "call" => i < Len(h) /\ h[i + 1].role = "tool" /\ h[i + 1].of = h[i].of
        /\ h[i].role = "tool" => i > 1 /\ h[i - 1].role = "call" /\ h[i - 1].of = h[i].of

\* In the history that the next turn sends to the model every tool call is
\* followed by its result and every result follows its call, however the
\* turns before it ended (the providers refuse anything else).
Paired == /\ CallsPaired(Restored(mem).messages)
          /\ CallsPaired(Restored(disk).messages)

\* A restored checkpoint never repeats what the history already has.
NoneTwice ==
    LET h == Restored(disk).messages
    IN  \A i, j \in DOMAIN h :
            i # j /\ h[i].role \in {"call", "tool", "assistant"} /\ h[i].role = h[j].role
                => h[i].of # h[j].of \/ h[i].of = {}

\* The history has two user messages in a row only where the first was the end
\* of a turn that was cut at its budget (its continuation answers it), so that
\* an unanswered message is never taken for a part of the next one:
\* _restore_pending_user_turn closes it, and what joins a turn is merged.
\* Results of subagents do not count, they are hidden messages of their own.
Alternates ==
    \A h \in {Restored(mem).messages, Restored(disk).messages} :
        \A i \in 1..Len(h) - 1 : VisibleUser(h[i]) /\ VisibleUser(h[i + 1]) => i \in cut

\* The message that began a turn is on disk before the model is asked, and stays.
UserKept == stored \subseteq UsersIn(disk.messages)

\* Between two turns a crash changes nothing the next turn builds on.
CrashLosesNothing ==
    pc = "idle" => Restored(disk).messages = Restored(mem).messages

=============================================================================
