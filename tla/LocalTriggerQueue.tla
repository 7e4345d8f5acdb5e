------------------------- MODULE LocalTriggerQueue -------------------------
(***************************************************************************)
(* The durable queue of local trigger deliveries:                          *)
(* nanobot/triggers/local_store.py and the loop of the gateway that        *)
(* consumes it, nanobot/triggers/local_runner.py.                          *)
(*                                                                         *)
(* A delivery is a JSON file that moves between three directories.  The    *)
(* CLI and the gateway are processes of their own; they exclude each other *)
(* with a FileLock, which the operating system releases when its holder    *)
(* dies.  An action is one file operation where a crash between two of     *)
(* them can be observed, and a whole locked section otherwise.             *)
(***************************************************************************)
EXTENDS Integers, FiniteSets

CONSTANTS
    Triggers,       \* trigger ids
    Count,          \* deliveries of one behaviour, numbered as they are created
    TriggerOf,      \* the trigger of each delivery
    MaxAttempts,    \* _MAX_DELIVERY_ATTEMPTS (10 in the code)
    BatchSize,      \* batch_size of the loop (20 in the code)
    DiskErrors,     \* whether a run record or triggers.json may fail to be written
    MaxStops        \* bound: how often the gateway stops, one way or the other

Deliveries == 1..Count

ASSUME QueueAssumption ==
    /\ Count \in Nat
    /\ TriggerOf \in [Deliveries -> Triggers]
    /\ MaxAttempts \in Nat \ {0}
    /\ BatchSize \in Nat \ {0}
    /\ DiskErrors \in BOOLEAN
    /\ MaxStops \in Nat

VARIABLES
    trigger,    \* triggers.json: each trigger "enabled", "disabled" or "deleted"
    inbox,      \* the attempts written in the file of each delivery, or NoFile
    processing, \* the same for the directory processing/
    failed,     \* the same for the directory failed/
    created,    \* how many deliveries enqueue() has accepted
    pc,         \* where run_local_trigger_queue is
    batch,      \* claimed deliveries it has still to handle
    attempts,   \* TriggerDelivery.attempts of the claimed deliveries
    submits,    \* how often each delivery was handed to the agent
    outcome,    \* the last result of each delivery
    settled,    \* deliveries for which complete_delivery has run
    stops       \* how often the gateway has stopped

vars == <<trigger, inbox, processing, failed, created, pc, batch, attempts,
          submits, outcome, settled, stops>>
files == <<inbox, processing, failed>>
memory == <<batch, attempts>>
history == <<submits, outcome, settled>>

NoFile == -1

----------------------------------------------------------------------------
(* Helpers. *)

InDir(dir) == {d \in Deliveries : dir[d] # NoFile}

\* File names begin with the time of creation, and both loops go through them
\* in that order.
First(S) == CHOOSE d \in S : \A e \in S : d <= e
Oldest(S, n) == {d \in S : Cardinality({e \in S : e < d}) < n}

Current == First(batch)

\* The FileLock is held across the steps of these program counters.
Locked == pc \in {"recover", "recover_unlink", "retry_unlink", "stop_unlink"}

\* Mutant: the attempt is not counted.
WriteRetry_NotCounted(d, n) ==
    /\ inbox' = [inbox EXCEPT ![d] = n]
    /\ UNCHANGED failed

\* _retry_delivery_unlocked first writes the file, with this attempt counted, to
\* inbox/, or to failed/ when it was the last one; then it unlinks the claimed
\* file.
WriteRetry(d, n) ==
    IF n + 1 >= MaxAttempts
    THEN failed' = [failed EXCEPT ![d] = n + 1] /\ UNCHANGED inbox
    ELSE inbox' = [inbox EXCEPT ![d] = n + 1] /\ UNCHANGED failed

Unlink(d) == processing' = [processing EXCEPT ![d] = NoFile]

Cleared(dir, gone) == [d \in Deliveries |-> IF d \in gone THEN NoFile ELSE dir[d]]

Init ==
    /\ trigger = [t \in Triggers |-> "enabled"]
    /\ inbox = [d \in Deliveries |-> NoFile]
    /\ processing = [d \in Deliveries |-> NoFile]
    /\ failed = [d \in Deliveries |-> NoFile]
    /\ created = 0
    /\ pc = "down"
    /\ batch = {}
    /\ attempts = [d \in Deliveries |-> 0]
    /\ submits = [d \in Deliveries |-> 0]
    /\ outcome = [d \in Deliveries |-> "none"]
    /\ settled = {}
    /\ stops = 0

----------------------------------------------------------------------------
(* The other processes: `nanobot trigger`, /trigger, the WebUI. *)

\* enqueue: the file is in place before the lock is released.  An enqueue that
\* fails takes its file away again under the same lock.
Enqueue ==
    /\ ~Locked
    /\ created < Count
    /\ trigger[TriggerOf[created + 1]] = "enabled"
    /\ inbox' = [inbox EXCEPT ![created + 1] = 0]
    /\ created' = created + 1
    /\ UNCHANGED <<trigger, processing, failed, pc, memory, history, stops>>

\* enable(trigger_id, enabled=...).
SetEnabled(t) ==
    /\ ~Locked
    /\ trigger[t] # "deleted"
    /\ trigger' = [trigger EXCEPT ![t] = IF @ = "enabled" THEN "disabled"
                                                          ELSE "enabled"]
    /\ UNCHANGED <<files, created, pc, memory, history, stops>>

DeliveriesOf(t) == {d \in Deliveries : TriggerOf[d] = t}

\* delete: the trigger leaves triggers.json first; then its files are removed
\* directory by directory, and the process may die between any two of them.
Delete(t) ==
    /\ ~Locked
    /\ trigger[t] # "deleted"
    /\ trigger' = [trigger EXCEPT ![t] = "deleted"]
    /\ \E i, p, f \in SUBSET DeliveriesOf(t) :
          /\ i # DeliveriesOf(t) => p = {}
          /\ p # DeliveriesOf(t) => f = {}
          /\ inbox' = Cleared(inbox, i)
          /\ processing' = Cleared(processing, p)
          /\ failed' = Cleared(failed, f)
    /\ UNCHANGED <<created, pc, memory, history, stops>>

----------------------------------------------------------------------------
(* The gateway: run_local_trigger_queue. *)

Start ==
    /\ pc = "down"
    /\ pc' = "recover"
    /\ UNCHANGED <<trigger, files, created, memory, history, stops>>

\* recover_processing_deliveries.
Recover ==
    /\ pc = "recover"
    /\ InDir(processing) # {}
    /\ LET d == First(InDir(processing)) IN WriteRetry(d, processing[d])
    /\ pc' = "recover_unlink"
    /\ UNCHANGED <<trigger, processing, created, memory, history, stops>>

RecoverUnlink ==
    /\ pc = "recover_unlink"
    /\ Unlink(First(InDir(processing)))
    /\ pc' = "recover"
    /\ UNCHANGED <<trigger, inbox, failed, created, memory, history, stops>>

\* Mutant: the loop starts without recovering what is in processing/.
RecoverDone_Skipped ==
    /\ pc = "recover"
    /\ pc' = "poll"
    /\ UNCHANGED <<trigger, files, created, memory, history, stops>>

RecoverDone ==
    /\ pc = "recover"
    /\ InDir(processing) = {}
    /\ pc' = "poll"
    /\ UNCHANGED <<trigger, files, created, memory, history, stops>>

\* os.replace: the files keep their content.
MoveToProcessing(S) ==
    /\ inbox' = Cleared(inbox, S)
    /\ processing' = [d \in Deliveries |-> IF d \in S THEN inbox[d] ELSE processing[d]]

\* claim_deliveries, once the previous batch is done.
Claim ==
    /\ pc = "poll"
    /\ batch = {}
    /\ InDir(inbox) # {}
    /\ batch' = Oldest(InDir(inbox), BatchSize)
    /\ MoveToProcessing(batch')
    /\ attempts' = [d \in Deliveries |-> IF d \in batch' THEN inbox[d] ELSE attempts[d]]
    /\ UNCHANGED <<trigger, failed, created, pc, history, stops>>

\* A trigger whose channel is not enabled fares like a disabled one.
Deliverable(d) == trigger[TriggerOf[d]] = "enabled"

\* _TerminalDeliveryError: unknown or disabled trigger, channel not enabled.
Drop ==
    /\ pc = "poll"
    /\ batch # {}
    /\ ~Deliverable(Current)
    /\ outcome' = [outcome EXCEPT ![Current] = "dropped"]
    /\ pc' = "complete"
    /\ UNCHANGED <<trigger, files, created, memory, submits, settled, stops>>

Submit ==
    /\ pc = "poll"
    /\ batch # {}
    /\ Deliverable(Current)
    /\ submits' = [submits EXCEPT ![Current] = @ + 1]
    /\ pc' = "turn"
    /\ UNCHANGED <<trigger, files, created, memory, outcome, settled, stops>>

\* submit_turn returns, or raises AutomationTurnError: the turn has failed.
TurnEnds ==
    /\ pc = "turn"
    /\ \E result \in {"ok", "error"} : outcome' = [outcome EXCEPT ![Current] = result]
    /\ pc' = "complete"
    /\ UNCHANGED <<trigger, files, created, memory, submits, settled, stops>>

\* Any other exception out of _deliver_delivery, after the submission or, when
\* the record of the run cannot be written, before it: retry_delivery.
TurnRaises ==
    /\ pc = "turn" \/ (DiskErrors /\ pc = "poll" /\ batch # {})
    /\ WriteRetry(Current, attempts[Current])
    /\ attempts' = [attempts EXCEPT ![Current] = @ + 1]
    /\ pc' = "retry_unlink"
    /\ UNCHANGED <<trigger, processing, created, batch, history, stops>>

\* Mutant: the claimed file is left behind.
Complete_NoUnlink ==
    /\ pc = "complete"
    /\ batch' = batch \ {Current}
    /\ settled' = settled \cup {Current}
    /\ pc' = "poll"
    /\ UNCHANGED <<trigger, files, created, attempts, submits, outcome, stops>>

\* complete_delivery.
Complete ==
    /\ pc = "complete"
    /\ Unlink(Current)
    /\ batch' = batch \ {Current}
    /\ settled' = settled \cup {Current}
    /\ pc' = "poll"
    /\ UNCHANGED <<trigger, inbox, failed, created, attempts, submits, outcome, stops>>

\* Mutant: the whole batch is forgotten after a retry.
RetryUnlink_DropsBatch ==
    /\ pc = "retry_unlink"
    /\ processing' = [d \in Deliveries |-> NoFile]
    /\ batch' = {}
    /\ pc' = "poll"
    /\ UNCHANGED <<trigger, inbox, failed, created, attempts, history, stops>>

RetryUnlink ==
    /\ pc = "retry_unlink"
    /\ Unlink(Current)
    /\ batch' = batch \ {Current}
    /\ pc' = "poll"
    /\ UNCHANGED <<trigger, inbox, failed, created, attempts, history, stops>>

----------------------------------------------------------------------------
(* The gateway stops: the task is cancelled, or the process dies. *)

CountStop == stops < MaxStops /\ stops' = stops + 1

Forget ==
    /\ batch' = {}
    /\ attempts' = [d \in Deliveries |-> 0]

\* CancelledError out of submit_turn: the current delivery is retried, the rest
\* of the batch stays in processing/.
StopInTurn ==
    /\ pc = "turn"
    /\ CountStop
    /\ WriteRetry(Current, attempts[Current])
    /\ attempts' = [attempts EXCEPT ![Current] = @ + 1]
    /\ pc' = "stop_unlink"
    /\ UNCHANGED <<trigger, processing, created, batch, history>>

StopUnlink ==
    /\ pc = "stop_unlink"
    /\ Unlink(Current)
    /\ Forget
    /\ pc' = "down"
    /\ UNCHANGED <<trigger, inbox, failed, created, history, stops>>

\* The process dies anywhere, in the middle of a claim too; memory is gone.  An
\* exception out of an except clause ends the loop and the gateway likewise.
Crash ==
    /\ pc # "down"
    /\ CountStop
    /\ \/ UNCHANGED files
       \/ /\ pc = "poll"
          /\ batch = {}
          /\ \E n \in 1..BatchSize : MoveToProcessing(Oldest(InDir(inbox), n))
          /\ UNCHANGED failed
    /\ Forget
    /\ pc' = "down"
    /\ UNCHANGED <<trigger, created, history>>

----------------------------------------------------------------------------
Others == Enqueue \/ \E t \in Triggers : SetEnabled(t) \/ Delete(t)

Gateway ==
    \/ Start
    \/ Recover
    \/ RecoverUnlink
    \/ RecoverDone
    \/ Claim
    \/ Drop
    \/ Submit
    \/ TurnEnds
    \/ TurnRaises
    \/ Complete
    \/ RetryUnlink
    \/ StopUnlink

Next == Others \/ Gateway \/ StopInTurn \/ Crash

Spec == Init /\ [][Next]_vars

\* The gateway is started again after it stopped, and a turn ends one way or the
\* other; nobody is obliged to stop it, or to enqueue anything.
FairSpec == Spec /\ WF_vars(Gateway)

----------------------------------------------------------------------------
(* Properties. *)

Pcs == {"down", "recover", "recover_unlink", "poll", "turn", "complete",
        "retry_unlink", "stop_unlink"}
Attempts == 0..MaxAttempts

\* The values every variable may take.
TypeOK ==
    /\ trigger \in [Triggers -> {"enabled", "disabled", "deleted"}]
    /\ inbox \in [Deliveries -> 0..MaxAttempts - 1 \cup {NoFile}]
    /\ processing \in [Deliveries -> 0..MaxAttempts - 1 \cup {NoFile}]
    /\ failed \in [Deliveries -> Attempts \cup {NoFile}]
    /\ created \in 0..Count
    /\ pc \in Pcs
    /\ batch \subseteq Deliveries
    /\ pc \in {"turn", "complete", "retry_unlink", "stop_unlink"} => batch # {}
    /\ attempts \in [Deliveries -> Attempts]
    /\ submits \in [Deliveries -> Nat]
    /\ outcome \in [Deliveries -> {"none", "ok", "error", "dropped"}]
    /\ settled \subseteq Deliveries
    /\ stops \in 0..MaxStops

Kept(d) == d \in InDir(inbox) \cup InDir(processing) \cup InDir(failed)

\* "At-least-once": whatever dies in the middle of whatever file operation, an
\* accepted delivery that has left the disk was handled, that is, answered,
\* reported as failed or dropped with its reason, or its trigger was deleted.
NotLost ==
    \A d \in 1..created :
        \/ Kept(d)
        \/ d \in settled /\ outcome[d] # "none"
        \/ trigger[TriggerOf[d]] = "deleted"

\* While the loop runs, a delivery has one file, apart from the moment between
\* the two halves of a retry, and what is in processing/ is what the loop still
\* has in hand: nothing is stuck there until the next restart.
InHand ==
    pc \in {"poll", "turn", "complete"} =>
        /\ InDir(processing) \subseteq batch
        /\ InDir(inbox) \cap InDir(processing) = {}
        /\ InDir(failed) \cap (InDir(inbox) \cup InDir(processing)) = {}

\* "instead of retrying forever": however submissions, exceptions, restarts and
\* crashes in the middle of a retry follow each other, the agent sees a delivery
\* at most MaxAttempts times.
AttemptsBounded == \A d \in Deliveries : submits[d] <= MaxAttempts

\* A delivery that was completed never reaches the agent again.
NoReplay == [][\A d \in settled : submits'[d] = submits[d]]_vars

\* Every accepted delivery leaves the queue: handled, or in failed/.
QueueDrains ==
    \A d \in Deliveries :
        d <= created ~> d \notin InDir(inbox) \cup InDir(processing) \cup batch
=============================================================================
