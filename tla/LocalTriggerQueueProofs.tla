----------------------- MODULE LocalTriggerQueueProofs -----------------------
(***************************************************************************)
(* Theorems about LocalTriggerQueue, for any number of deliveries, triggers *)
(* and attempts, any batch size and any number of stops and crashes.       *)
(***************************************************************************)
EXTENDS LocalTriggerQueue, FiniteSetTheorems, TLAPS

----------------------------------------------------------------------------
(* The inductive invariant. *)

Unlinking == pc \in {"retry_unlink", "stop_unlink"}
InLoop == pc \in {"poll", "turn", "complete"}

\* What has not been enqueued is nowhere.
Fresh ==
    \A d \in Deliveries : d > created =>
        /\ submits[d] = 0
        /\ d \notin InDir(inbox) \cup InDir(processing) \cup InDir(failed) \cup batch \cup settled

\* The attempts in the files and in memory account for all submissions but one:
\* the one of a claimed delivery, which the next write of its file counts.
Counted ==
    /\ \A d \in Deliveries : submits[d] <= MaxAttempts
    /\ \A d \in InDir(inbox) : submits[d] <= inbox[d]
    /\ \A d \in InDir(processing) : submits[d] <= processing[d] + 1
    /\ \A d \in batch :
          \/ Unlinking /\ d = Current
          \/ /\ attempts[d] < MaxAttempts
             /\ \/ submits[d] <= attempts[d]
                \/ pc \in {"turn", "complete"} /\ d = Current /\ submits[d] <= attempts[d] + 1

\* Between the halves of an operation the first half is on disk.
Halves ==
    /\ pc = "recover_unlink" =>
          /\ InDir(processing) # {}
          /\ First(InDir(processing)) \in InDir(inbox) \cup InDir(failed)
    /\ Unlinking => Current \in InDir(inbox) \cup InDir(failed)
    /\ pc = "complete" => outcome[Current] # "none"

\* A delivery has one file, but for the file a retry or a crash in the middle of
\* one has left in processing/; from that the same file is written again.
Single ==
    /\ InDir(inbox) \cap InDir(failed) = {}
    /\ \A d \in InDir(processing) :
          /\ d \in InDir(inbox) => processing[d] + 1 < MaxAttempts
          /\ d \in InDir(failed) => processing[d] + 1 >= MaxAttempts
    /\ InLoop \/ Unlinking => InDir(processing) \subseteq batch
    /\ ~(InLoop \/ Unlinking) => batch = {}
    /\ \A d \in batch :
          \/ Unlinking /\ d = Current
          \/ /\ d \notin InDir(inbox) \cup InDir(failed)
             /\ d \in InDir(processing) => processing[d] = attempts[d]

\* A completed delivery is nowhere.
Finished ==
    settled \cap (InDir(inbox) \cup InDir(processing) \cup InDir(failed) \cup batch) = {}

IInv == TypeOK /\ Fresh /\ Counted /\ Halves /\ Single /\ Finished /\ NotLost

----------------------------------------------------------------------------
(* The oldest delivery. *)

\* A nonempty set of deliveries has a first one: of the sets of predecessors,
\* one is minimal.
LEMMA FirstIn ==
    ASSUME QueueAssumption, NEW S \in SUBSET Deliveries, S # {}
    PROVE  First(S) \in S
<1> DEFINE Before(d) == {e \in S : e < d}
           T == {Before(d) : d \in S}
<1>0. S \subseteq Int
  BY DEF Deliveries
<1>1. T \subseteq FiniteSubsetsOf(Deliveries) /\ T # {}
  <2>1. IsFiniteSet(Deliveries)
    BY FS_Interval DEF QueueAssumption, Deliveries
  <2>2. FiniteSubsetsOf(Deliveries) = SUBSET Deliveries
    BY <2>1, FS_FiniteSubsetsOfFinite
  <2>3. T \subseteq SUBSET Deliveries
    OBVIOUS
  <2>4. PICK d \in S : TRUE
    OBVIOUS
  <2>5. Before(d) \in T
    OBVIOUS
  <2> QED BY <2>2, <2>3, <2>5
<1>2. PICK t \in T : \A u \in T : <<u, t>> \notin StrictSubsetOrdering(Deliveries)
  <2>1. IsWellFoundedOn(StrictSubsetOrdering(Deliveries), FiniteSubsetsOf(Deliveries))
    BY FS_StrictSubsetOrderingWellFounded
  <2> HIDE DEF T
  <2> QED BY <1>1, <2>1, WFMin
<1>3. PICK d \in S : t = Before(d)
  OBVIOUS
<1>4. ASSUME NEW e \in S, e < d PROVE FALSE
  <2>1. Before(e) \in T /\ Before(e) \subseteq Deliveries /\ t \subseteq Deliveries
    BY <1>3
  <2>2. e \in t /\ e \notin Before(e)
    BY <1>0, <1>3, <1>4
  <2>3. ASSUME NEW x \in Before(e) PROVE x \in t
    <3>1. x \in S /\ x < e
      OBVIOUS
    <3>2. x \in Int /\ e \in Int /\ d \in Int
      BY <1>0, <3>1
    <3>3. x < d
      BY <1>4, <3>1, <3>2
    <3> QED BY <1>3, <3>1, <3>3
  <2> QED BY <1>2, <2>1, <2>2, <2>3 DEF StrictSubsetOrdering
<1>5. \A e \in S : d <= e
  BY <1>0, <1>4
<1> QED BY <1>5 DEF First

\* A batch is taken from what is there.
LEMMA OldestIn == \A S, n : Oldest(S, n) \subseteq S
  BY DEF Oldest

\* What has been enqueued has a number.
LEMMA CreatedIn ==
    ASSUME QueueAssumption, TypeOK
    PROVE  1..created \subseteq Deliveries
  BY DEF QueueAssumption, TypeOK, Deliveries

----------------------------------------------------------------------------
(* The two operations on files. *)

\* What WriteRetry(d, n) leaves, delivery by delivery.
Retried(d, n) ==
    /\ inbox' \in [Deliveries -> 0..MaxAttempts - 1 \cup {NoFile}]
    /\ failed' \in [Deliveries -> Attempts \cup {NoFile}]
    /\ \A e \in Deliveries \ {d} : inbox'[e] = inbox[e] /\ failed'[e] = failed[e]
    /\ \/ n + 1 < MaxAttempts /\ inbox'[d] = n + 1 /\ failed'[d] = failed[d]
       \/ n + 1 >= MaxAttempts /\ inbox'[d] = inbox[d] /\ failed'[d] = n + 1

\* The write half of a retry touches one delivery.
LEMMA WriteRetryRetried ==
    ASSUME QueueAssumption, TypeOK, NEW d \in Deliveries, NEW n \in 0..MaxAttempts - 1,
           WriteRetry(d, n)
    PROVE  Retried(d, n)
<1>1. CASE n + 1 >= MaxAttempts
  BY <1>1 DEF QueueAssumption, TypeOK, WriteRetry, Retried, Attempts
<1>2. CASE n + 1 < MaxAttempts
  BY <1>2 DEF QueueAssumption, TypeOK, WriteRetry, Retried, Attempts
<1> QED BY <1>1, <1>2 DEF QueueAssumption

\* What MoveToProcessing(S) leaves when processing/ was empty.
Moved(S) ==
    /\ inbox' \in [Deliveries -> 0..MaxAttempts - 1 \cup {NoFile}]
    /\ processing' \in [Deliveries -> 0..MaxAttempts - 1 \cup {NoFile}]
    /\ \A d \in S : inbox'[d] = NoFile /\ processing'[d] = inbox[d]
    /\ \A d \in Deliveries \ S : inbox'[d] = inbox[d] /\ processing'[d] = NoFile

\* Claiming moves the files it names, whole.
LEMMA MoveToProcessingMoved ==
    ASSUME TypeOK, InDir(processing) = {}, NEW S \in SUBSET InDir(inbox),
           MoveToProcessing(S)
    PROVE  Moved(S)
<1>1. \A d \in Deliveries : processing[d] = NoFile
  BY DEF InDir
<1> QED BY <1>1 DEF TypeOK, InDir, MoveToProcessing, Cleared, Moved

----------------------------------------------------------------------------
(* Every action preserves the invariant. *)

\* Nothing moves.
LEMMA StartStep ==
    ASSUME QueueAssumption, IInv, Start
    PROVE  IInv'
<1> USE DEF IInv, InDir, Unlinking, InLoop, files, memory, history
<1>a. Current' = Current /\ batch' = batch
  BY DEF Current, memory, Start
<1>1. TypeOK'
  BY <1>a DEF Start, TypeOK, Pcs, Attempts, NoFile
<1>2. Fresh'
  BY <1>a DEF Start, TypeOK, Fresh
<1>3. Counted'
  BY <1>a DEF Start, TypeOK, Counted, Attempts, NoFile
<1>4. Halves'
  BY <1>a DEF Start, TypeOK, Halves, NoFile
<1>5. Single'
  BY <1>a DEF Start, TypeOK, Single
<1>6. Finished'
  BY <1>a DEF Start, TypeOK, Finished
<1>7. NotLost'
  BY <1>a, CreatedIn DEF Start, TypeOK, NotLost, Kept, NoFile
<1> QED BY <1>1, <1>2, <1>3, <1>4, <1>5, <1>6, <1>7

\* The first file of processing/ is written again; it is still there.
LEMMA RecoverStep ==
    ASSUME QueueAssumption, IInv, Recover
    PROVE  IInv'
<1> USE DEF IInv, InDir, Unlinking, InLoop, Retried
<1>a. PICK d0 \in Deliveries : /\ d0 = First(InDir(processing))
                               /\ d0 \in InDir(processing)
                               /\ WriteRetry(d0, processing[d0])
  BY FirstIn DEF Recover
<1>b. processing[d0] \in 0..MaxAttempts - 1
  BY <1>a DEF TypeOK
<1>c. Retried(d0, processing[d0])
  BY <1>a, <1>b, WriteRetryRetried
<1>d. /\ pc = "recover" /\ pc' = "recover_unlink"
      /\ UNCHANGED <<trigger, processing, created, batch, attempts, submits, outcome, settled, stops>>
      /\ Current' = Current
  BY DEF Recover, memory, history, Current
<1>1. TypeOK'
  BY <1>a, <1>b, <1>c, <1>d DEF TypeOK, Pcs, Attempts, NoFile
<1>2. Fresh'
  BY <1>a, <1>b, <1>c, <1>d DEF TypeOK, Fresh
<1>3. Counted'
  BY <1>a, <1>b, <1>c, <1>d DEF TypeOK, Counted, Attempts, NoFile
<1>4. Halves'
  BY <1>a, <1>b, <1>c, <1>d DEF TypeOK, Halves, NoFile
<1>5. Single'
  BY <1>a, <1>b, <1>c, <1>d DEF TypeOK, Single
<1>6. Finished'
  BY <1>a, <1>b, <1>c, <1>d DEF TypeOK, Finished
<1>7. NotLost'
  BY <1>a, <1>b, <1>c, <1>d, CreatedIn DEF TypeOK, NotLost, Kept, NoFile
<1> QED BY <1>1, <1>2, <1>3, <1>4, <1>5, <1>6, <1>7

\* The other half: the file is gone from processing/, not from the disk.
LEMMA RecoverUnlinkStep ==
    ASSUME QueueAssumption, IInv, RecoverUnlink
    PROVE  IInv'
<1> USE DEF IInv, InDir, Unlinking, InLoop, files, memory, history, Unlink
<1>a. First(InDir(processing)) \in InDir(processing)
  BY FirstIn DEF RecoverUnlink, Halves
<1>b. Current' = Current /\ batch' = batch
  BY DEF Current, memory, RecoverUnlink
<1>1. TypeOK'
  BY <1>a, <1>b DEF RecoverUnlink, TypeOK, Pcs, Attempts, NoFile
<1>2. Fresh'
  BY <1>a, <1>b DEF RecoverUnlink, TypeOK, Fresh
<1>3. Counted'
  BY <1>a, <1>b DEF RecoverUnlink, TypeOK, Counted, Attempts, NoFile
<1>4. Halves'
  BY <1>a, <1>b DEF RecoverUnlink, TypeOK, Halves, NoFile
<1>5. Single'
  BY <1>a, <1>b DEF RecoverUnlink, TypeOK, Single
<1>6. Finished'
  BY <1>a, <1>b DEF RecoverUnlink, TypeOK, Finished
<1>7. NotLost'
  BY <1>a, <1>b, CreatedIn DEF RecoverUnlink, TypeOK, NotLost, Kept, NoFile, Halves
<1> QED BY <1>1, <1>2, <1>3, <1>4, <1>5, <1>6, <1>7

\* Nothing moves; processing/ is empty.
LEMMA RecoverDoneStep ==
    ASSUME QueueAssumption, IInv, RecoverDone
    PROVE  IInv'
<1> USE DEF IInv, InDir, Unlinking, InLoop, files, memory, history
<1>a. Current' = Current /\ batch' = batch
  BY DEF Current, memory, RecoverDone
<1>1. TypeOK'
  BY <1>a DEF RecoverDone, TypeOK, Pcs, Attempts, NoFile
<1>2. Fresh'
  BY <1>a DEF RecoverDone, TypeOK, Fresh
<1>3. Counted'
  BY <1>a DEF RecoverDone, TypeOK, Counted, Attempts, NoFile
<1>4. Halves'
  BY <1>a DEF RecoverDone, TypeOK, Halves, NoFile
<1>5. Single'
  BY <1>a DEF RecoverDone, TypeOK, Single
<1>6. Finished'
  BY <1>a DEF RecoverDone, TypeOK, Finished
<1>7. NotLost'
  BY <1>a, CreatedIn DEF RecoverDone, TypeOK, NotLost, Kept, NoFile
<1> QED BY <1>1, <1>2, <1>3, <1>4, <1>5, <1>6, <1>7

\* The batch and processing/ are the deliveries that were claimed.
LEMMA ClaimStep ==
    ASSUME QueueAssumption, IInv, Claim
    PROVE  IInv'
<1> USE DEF IInv, InDir, Unlinking, InLoop, Moved
<1>a. batch' \subseteq InDir(inbox)
  BY OldestIn DEF Claim
<1>b. Moved(batch')
  BY <1>a, MoveToProcessingMoved DEF Claim, Single
<1>c. /\ pc = "poll" /\ pc' = "poll" /\ batch = {}
      /\ attempts' = [d \in Deliveries |-> IF d \in batch' THEN inbox[d] ELSE attempts[d]]
      /\ UNCHANGED <<trigger, failed, created, submits, outcome, settled, stops>>
  BY DEF Claim, history
<1>1. TypeOK'
  BY <1>a, <1>b, <1>c DEF TypeOK, Pcs, Attempts, NoFile
<1>2. Fresh'
  BY <1>a, <1>b, <1>c DEF TypeOK, Fresh
<1>3. Counted'
  BY <1>a, <1>b, <1>c DEF TypeOK, Counted, Attempts, NoFile
<1>4. Halves'
  BY <1>a, <1>b, <1>c DEF TypeOK, Halves, NoFile
<1>5. Single'
  BY <1>a, <1>b, <1>c DEF TypeOK, Single
<1>6. Finished'
  BY <1>a, <1>b, <1>c DEF TypeOK, Finished
<1>7. NotLost'
  <2>1. \A d \in Deliveries : Kept(d) => Kept(d)'
    BY <1>a, <1>b, <1>c DEF TypeOK, Single, Kept, NoFile
  <2> QED BY <2>1, <1>c, CreatedIn DEF NotLost
<1> QED BY <1>1, <1>2, <1>3, <1>4, <1>5, <1>6, <1>7

\* The delivery in hand has its outcome.
LEMMA DropStep ==
    ASSUME QueueAssumption, IInv, Drop
    PROVE  IInv'
<1> USE DEF IInv, InDir, Unlinking, InLoop, files, memory, history
<1>a. Current \in batch /\ Current \in Deliveries
  BY FirstIn DEF Drop, TypeOK, Current
<1>b. Current' = Current /\ batch' = batch
  BY DEF Current, memory, Drop
<1>1. TypeOK'
  BY <1>a, <1>b DEF Drop, TypeOK, Pcs, Attempts, NoFile
<1>2. Fresh'
  BY <1>a, <1>b DEF Drop, TypeOK, Fresh
<1>3. Counted'
  BY <1>a, <1>b DEF Drop, TypeOK, Counted, Attempts, NoFile
<1>4. Halves'
  BY <1>a, <1>b DEF Drop, TypeOK, Halves, NoFile
<1>5. Single'
  BY <1>a, <1>b DEF Drop, TypeOK, Single
<1>6. Finished'
  BY <1>a, <1>b DEF Drop, TypeOK, Finished
<1>7. NotLost'
  BY <1>a, <1>b, CreatedIn DEF Drop, TypeOK, NotLost, Kept, NoFile
<1> QED BY <1>1, <1>2, <1>3, <1>4, <1>5, <1>6, <1>7

\* The one submission that no file counts yet.
LEMMA SubmitStep ==
    ASSUME QueueAssumption, IInv, Submit
    PROVE  IInv'
<1> USE DEF IInv, InDir, Unlinking, InLoop, files, memory, history
<1>a. Current \in batch /\ Current \in Deliveries
  BY FirstIn DEF Submit, TypeOK, Current
<1>b. Current' = Current /\ batch' = batch
  BY DEF Current, memory, Submit
<1>1. TypeOK'
  BY <1>a, <1>b DEF Submit, TypeOK, Pcs, Attempts, NoFile
<1>2. Fresh'
  BY <1>a, <1>b DEF Submit, TypeOK, Fresh
<1>3. Counted'
  BY <1>a, <1>b DEF Submit, TypeOK, Counted, Attempts, NoFile, Single, QueueAssumption
<1>4. Halves'
  BY <1>a, <1>b DEF Submit, TypeOK, Halves, NoFile
<1>5. Single'
  BY <1>a, <1>b DEF Submit, TypeOK, Single
<1>6. Finished'
  BY <1>a, <1>b DEF Submit, TypeOK, Finished
<1>7. NotLost'
  BY <1>a, <1>b, CreatedIn DEF Submit, TypeOK, NotLost, Kept, NoFile
<1> QED BY <1>1, <1>2, <1>3, <1>4, <1>5, <1>6, <1>7

\* The delivery in hand has its outcome.
LEMMA TurnEndsStep ==
    ASSUME QueueAssumption, IInv, TurnEnds
    PROVE  IInv'
<1> USE DEF IInv, InDir, Unlinking, InLoop, files, memory, history
<1>a. Current \in batch /\ Current \in Deliveries
  BY FirstIn DEF TurnEnds, TypeOK, Current
<1>b. Current' = Current /\ batch' = batch
  BY DEF Current, memory, TurnEnds
<1>1. TypeOK'
  BY <1>a, <1>b DEF TurnEnds, TypeOK, Pcs, Attempts, NoFile
<1>2. Fresh'
  BY <1>a, <1>b DEF TurnEnds, TypeOK, Fresh
<1>3. Counted'
  BY <1>a, <1>b DEF TurnEnds, TypeOK, Counted, Attempts, NoFile
<1>4. Halves'
  BY <1>a, <1>b DEF TurnEnds, TypeOK, Halves, NoFile
<1>5. Single'
  BY <1>a, <1>b DEF TurnEnds, TypeOK, Single
<1>6. Finished'
  BY <1>a, <1>b DEF TurnEnds, TypeOK, Finished
<1>7. NotLost'
  BY <1>a, <1>b, CreatedIn DEF TurnEnds, TypeOK, NotLost, Kept, NoFile
<1> QED BY <1>1, <1>2, <1>3, <1>4, <1>5, <1>6, <1>7

\* The attempt is counted where the submission was.
LEMMA TurnRaisesStep ==
    ASSUME QueueAssumption, IInv, TurnRaises
    PROVE  IInv'
<1> USE DEF IInv, InDir, Unlinking, InLoop, Retried
<1>a. Current \in batch /\ Current \in Deliveries
  BY FirstIn DEF TurnRaises, TypeOK, Current
<1>b. attempts[Current] \in 0..MaxAttempts - 1
  BY <1>a DEF TurnRaises, Counted, TypeOK, Attempts
<1>c. Retried(Current, attempts[Current])
  BY <1>a, <1>b, WriteRetryRetried DEF TurnRaises
<1>d. /\ pc \in {"poll", "turn"} /\ pc' \in {"retry_unlink", "stop_unlink"} /\ batch # {}
      /\ attempts' = [attempts EXCEPT ![Current] = @ + 1]
      /\ UNCHANGED <<trigger, processing, created, batch, submits, outcome, settled>>
      /\ stops' \in 0..MaxStops
      /\ Current' = Current
  BY <1>a DEF TurnRaises, CountStop, QueueAssumption, history, Current, TypeOK
<1>1. TypeOK'
  BY <1>a, <1>b, <1>c, <1>d DEF TypeOK, Pcs, Attempts, NoFile
<1>2. Fresh'
  BY <1>a, <1>b, <1>c, <1>d DEF TypeOK, Fresh
<1>3. Counted'
  BY <1>a, <1>b, <1>c, <1>d DEF TypeOK, Counted, Attempts, NoFile
<1>4. Halves'
  BY <1>a, <1>b, <1>c, <1>d DEF TypeOK, Halves, NoFile
<1>5. Single'
  BY <1>a, <1>b, <1>c, <1>d DEF TypeOK, Single
<1>6. Finished'
  BY <1>a, <1>b, <1>c, <1>d DEF TypeOK, Finished
<1>7. NotLost'
  BY <1>a, <1>b, <1>c, <1>d, CreatedIn DEF TypeOK, NotLost, Kept, NoFile
<1> QED BY <1>1, <1>2, <1>3, <1>4, <1>5, <1>6, <1>7

\* The delivery in hand leaves the disk, with its outcome.
LEMMA CompleteStep ==
    ASSUME QueueAssumption, IInv, Complete
    PROVE  IInv'
<1> USE DEF IInv, InDir, Unlinking, InLoop, files, memory, history, Unlink
<1>a. Current \in batch /\ Current \in Deliveries
  BY FirstIn DEF Complete, TypeOK, Current
<1>1. TypeOK'
  BY <1>a DEF Complete, TypeOK, Pcs, Attempts, NoFile
<1>2. Fresh'
  BY <1>a DEF Complete, TypeOK, Fresh
<1>3. Counted'
  BY <1>a DEF Complete, TypeOK, Counted, Attempts, NoFile
<1>4. Halves'
  BY <1>a DEF Complete, TypeOK, Halves, NoFile
<1>5. Single'
  BY <1>a DEF Complete, TypeOK, Single
<1>6. Finished'
  BY <1>a DEF Complete, TypeOK, Finished, Single
<1>7. NotLost'
  BY <1>a, CreatedIn DEF Complete, TypeOK, NotLost, Kept, NoFile, Halves
<1> QED BY <1>1, <1>2, <1>3, <1>4, <1>5, <1>6, <1>7

\* The file in processing/ goes; the one that was written is the delivery.
LEMMA RetryUnlinkStep ==
    ASSUME QueueAssumption, IInv, RetryUnlink
    PROVE  IInv'
<1> USE DEF IInv, InDir, Unlinking, InLoop, files, memory, history, Unlink
<1>a. Current \in batch /\ Current \in Deliveries
  BY FirstIn DEF RetryUnlink, TypeOK, Current
<1>1. TypeOK'
  BY <1>a DEF RetryUnlink, TypeOK, Pcs, Attempts, NoFile
<1>2. Fresh'
  BY <1>a DEF RetryUnlink, TypeOK, Fresh
<1>3. Counted'
  BY <1>a DEF RetryUnlink, TypeOK, Counted, Attempts, NoFile
<1>4. Halves'
  BY <1>a DEF RetryUnlink, TypeOK, Halves, NoFile
<1>5. Single'
  BY <1>a DEF RetryUnlink, TypeOK, Single
<1>6. Finished'
  BY <1>a DEF RetryUnlink, TypeOK, Finished
<1>7. NotLost'
  BY <1>a, CreatedIn DEF RetryUnlink, TypeOK, NotLost, Kept, NoFile, Halves
<1> QED BY <1>1, <1>2, <1>3, <1>4, <1>5, <1>6, <1>7

\* The same write as that of a retry, with the loop cancelled.
LEMMA StopInTurnStep ==
    ASSUME QueueAssumption, IInv, StopInTurn
    PROVE  IInv'
<1> USE DEF IInv, InDir, Unlinking, InLoop, Retried
<1>a. Current \in batch /\ Current \in Deliveries
  BY FirstIn DEF StopInTurn, TypeOK, Current
<1>b. attempts[Current] \in 0..MaxAttempts - 1
  BY <1>a DEF StopInTurn, Counted, TypeOK, Attempts
<1>c. Retried(Current, attempts[Current])
  BY <1>a, <1>b, WriteRetryRetried DEF StopInTurn
<1>d. /\ pc \in {"poll", "turn"} /\ pc' \in {"retry_unlink", "stop_unlink"} /\ batch # {}
      /\ attempts' = [attempts EXCEPT ![Current] = @ + 1]
      /\ UNCHANGED <<trigger, processing, created, batch, submits, outcome, settled>>
      /\ stops' \in 0..MaxStops
      /\ Current' = Current
  BY <1>a DEF StopInTurn, CountStop, QueueAssumption, history, Current, TypeOK
<1>1. TypeOK'
  BY <1>a, <1>b, <1>c, <1>d DEF TypeOK, Pcs, Attempts, NoFile
<1>2. Fresh'
  BY <1>a, <1>b, <1>c, <1>d DEF TypeOK, Fresh
<1>3. Counted'
  BY <1>a, <1>b, <1>c, <1>d DEF TypeOK, Counted, Attempts, NoFile
<1>4. Halves'
  BY <1>a, <1>b, <1>c, <1>d DEF TypeOK, Halves, NoFile
<1>5. Single'
  BY <1>a, <1>b, <1>c, <1>d DEF TypeOK, Single
<1>6. Finished'
  BY <1>a, <1>b, <1>c, <1>d DEF TypeOK, Finished
<1>7. NotLost'
  BY <1>a, <1>b, <1>c, <1>d, CreatedIn DEF TypeOK, NotLost, Kept, NoFile
<1> QED BY <1>1, <1>2, <1>3, <1>4, <1>5, <1>6, <1>7

\* The same unlink, and memory is gone.
LEMMA StopUnlinkStep ==
    ASSUME QueueAssumption, IInv, StopUnlink
    PROVE  IInv'
<1> USE DEF IInv, InDir, Unlinking, InLoop, files, memory, history, Unlink, Forget
<1>a. Current \in batch /\ Current \in Deliveries
  BY FirstIn DEF StopUnlink, TypeOK, Current
<1>1. TypeOK'
  BY <1>a DEF StopUnlink, TypeOK, Pcs, Attempts, NoFile
<1>2. Fresh'
  BY <1>a DEF StopUnlink, TypeOK, Fresh
<1>3. Counted'
  BY <1>a DEF StopUnlink, TypeOK, Counted, Attempts, NoFile
<1>4. Halves'
  BY <1>a DEF StopUnlink, TypeOK, Halves, NoFile
<1>5. Single'
  BY <1>a DEF StopUnlink, TypeOK, Single
<1>6. Finished'
  BY <1>a DEF StopUnlink, TypeOK, Finished
<1>7. NotLost'
  BY <1>a, CreatedIn DEF StopUnlink, TypeOK, NotLost, Kept, NoFile, Halves
<1> QED BY <1>1, <1>2, <1>3, <1>4, <1>5, <1>6, <1>7

\* Memory is gone; of the files, at most some have moved to processing/, which was
\* empty.
LEMMA CrashStep ==
    ASSUME QueueAssumption, IInv, Crash
    PROVE  IInv'
<1> USE DEF IInv, InDir, Unlinking, InLoop, Moved, files
<1>a. /\ batch' = {} /\ attempts' = [d \in Deliveries |-> 0] /\ pc' = "down"
      /\ stops' \in 0..MaxStops /\ pc # "down"
      /\ UNCHANGED <<trigger, created, submits, outcome, settled>>
  BY DEF Crash, Forget, CountStop, history, QueueAssumption, TypeOK
<1>b. UNCHANGED files \/ (/\ UNCHANGED failed
                              /\ pc = "poll" /\ batch = {}
                              /\ \E S \in SUBSET InDir(inbox) : Moved(S))
  BY OldestIn, MoveToProcessingMoved DEF Crash, Single
<1>1. TypeOK'
  BY <1>a, <1>b DEF TypeOK, Pcs, Attempts, NoFile
<1>2. Fresh'
  BY <1>a, <1>b DEF TypeOK, Fresh
<1>3. Counted'
  BY <1>a, <1>b DEF TypeOK, Counted, Attempts, NoFile
<1>4. Halves'
  BY <1>a, <1>b DEF TypeOK, Halves, NoFile
<1>5. Single'
  BY <1>a, <1>b DEF TypeOK, Single
<1>6. Finished'
  BY <1>a, <1>b DEF TypeOK, Finished
<1>7. NotLost'
  <2>1. \A d \in Deliveries : Kept(d) => Kept(d)'
    BY <1>a, <1>b DEF TypeOK, Single, Kept, NoFile
  <2> QED BY <2>1, <1>a, CreatedIn DEF NotLost
<1> QED BY <1>1, <1>2, <1>3, <1>4, <1>5, <1>6, <1>7

\* The new delivery has one file and no history.
LEMMA EnqueueStep ==
    ASSUME QueueAssumption, IInv, Enqueue
    PROVE  IInv'
<1> USE DEF IInv, InDir, Unlinking, InLoop, files, memory, history, Locked, QueueAssumption
<1>a. created + 1 \in Deliveries /\ created + 1 \in 1..Count
  BY DEF Enqueue, TypeOK, Deliveries, QueueAssumption
<1>b. 1..created' = 1..created \cup {created + 1}
  BY DEF Enqueue, TypeOK, QueueAssumption
<1>c. \A d \in Deliveries : d \in Int
  BY DEF Deliveries
<1>d. Current' = Current /\ batch' = batch
  BY DEF Current, memory, Enqueue
<1>1. TypeOK'
  BY <1>a, <1>b, <1>c, <1>d DEF Enqueue, TypeOK, Pcs, Attempts, NoFile
<1>2. Fresh'
  BY <1>a, <1>b, <1>c, <1>d DEF Enqueue, TypeOK, Fresh
<1>3. Counted'
  BY <1>a, <1>b, <1>c, <1>d DEF Enqueue, TypeOK, Counted, Attempts, NoFile, Fresh
<1>4. Halves'
  BY <1>a, <1>b, <1>c, <1>d DEF Enqueue, TypeOK, Halves, NoFile
<1>5. Single'
  BY <1>a, <1>b, <1>c, <1>d DEF Enqueue, TypeOK, Single, Fresh
<1>6. Finished'
  BY <1>a, <1>b, <1>c, <1>d DEF Enqueue, TypeOK, Finished, Fresh
<1>7. NotLost'
  BY <1>a, <1>b, <1>c, <1>d, CreatedIn DEF Enqueue, TypeOK, NotLost, Kept, NoFile
<1> QED BY <1>1, <1>2, <1>3, <1>4, <1>5, <1>6, <1>7

\* A switch of a trigger that is not deleted.
LEMMA SetEnabledStep ==
    ASSUME QueueAssumption, NEW t \in Triggers, IInv, SetEnabled(t)
    PROVE  IInv'
<1> USE DEF IInv, InDir, Unlinking, InLoop, files, memory, history
<1>a. Current' = Current /\ batch' = batch
  BY DEF Current, memory, SetEnabled
<1>1. TypeOK'
  BY <1>a DEF SetEnabled, TypeOK, Pcs, Attempts, NoFile
<1>2. Fresh'
  BY <1>a DEF SetEnabled, TypeOK, Fresh
<1>3. Counted'
  BY <1>a DEF SetEnabled, TypeOK, Counted, Attempts, NoFile
<1>4. Halves'
  BY <1>a DEF SetEnabled, TypeOK, Halves, NoFile
<1>5. Single'
  BY <1>a DEF SetEnabled, TypeOK, Single
<1>6. Finished'
  BY <1>a DEF SetEnabled, TypeOK, Finished
<1>7. NotLost'
  BY <1>a, CreatedIn DEF SetEnabled, TypeOK, NotLost, Kept, NoFile
<1> QED BY <1>1, <1>2, <1>3, <1>4, <1>5, <1>6, <1>7

\* Files go, of deliveries whose trigger is deleted.
LEMMA DeleteStep ==
    ASSUME QueueAssumption, NEW t \in Triggers, IInv, Delete(t)
    PROVE  IInv'
<1>a. PICK i, p, f \in SUBSET DeliveriesOf(t) :
          /\ inbox' = Cleared(inbox, i)
          /\ processing' = Cleared(processing, p)
          /\ failed' = Cleared(failed, f)
  BY DEF Delete
<1> USE DEF IInv, InDir, Unlinking, InLoop, Cleared, Locked, DeliveriesOf
<1>b. trigger' = [trigger EXCEPT ![t] = "deleted"] /\ ~Locked
      /\ UNCHANGED <<created, pc, batch, attempts, submits, outcome, settled, stops>>
  BY DEF Delete, memory, history
<1>c. Current' = Current
  BY <1>b DEF Current
<1>1. TypeOK'
  BY <1>a, <1>b, <1>c DEF TypeOK, Pcs, Attempts, NoFile
<1>2. Fresh'
  BY <1>a, <1>b, <1>c DEF TypeOK, Fresh
<1>3. Counted'
  BY <1>a, <1>b, <1>c DEF TypeOK, Counted, Attempts, NoFile
<1>4. Halves'
  BY <1>a, <1>b, <1>c DEF TypeOK, Halves, NoFile
<1>5. Single'
  BY <1>a, <1>b, <1>c DEF TypeOK, Single
<1>6. Finished'
  BY <1>a, <1>b, <1>c DEF TypeOK, Finished
<1>7. NotLost'
  BY <1>a, <1>b, <1>c, CreatedIn DEF TypeOK, NotLost, Kept, NoFile
<1> QED BY <1>1, <1>2, <1>3, <1>4, <1>5, <1>6, <1>7

\* At first there is no delivery.
LEMMA InitIInv ==
    ASSUME QueueAssumption
    PROVE  Init => IInv
<1> SUFFICES ASSUME Init PROVE IInv
  OBVIOUS
<1> USE DEF Init, InDir, Unlinking, InLoop, NoFile
<1>1. TypeOK
  BY DEF QueueAssumption, TypeOK, Pcs, Attempts
<1>2. Fresh /\ Counted /\ Halves /\ Single /\ Finished
  BY DEF QueueAssumption, Fresh, Counted, Halves, Single, Finished
<1>3. NotLost
  BY DEF NotLost
<1> QED BY <1>1, <1>2, <1>3 DEF IInv

\* A step that changes no variable.
LEMMA StutterIInv ==
    ASSUME IInv, UNCHANGED vars
    PROVE  IInv'
<1> USE DEF vars, InDir, Unlinking, InLoop, Current
<1>1. TypeOK' /\ Fresh' /\ Counted' /\ Halves'
  BY DEF IInv, TypeOK, Fresh, Counted, Halves
<1>2. Single' /\ Finished' /\ NotLost'
  BY DEF IInv, Single, Finished, NotLost, Kept
<1> QED BY <1>1, <1>2 DEF IInv

\* Every step, by the lemma of its action.
LEMMA StepIInv ==
    ASSUME QueueAssumption, IInv, [Next]_vars
    PROVE  IInv'
<1>1. CASE Others
  BY <1>1, EnqueueStep, SetEnabledStep, DeleteStep DEF Others
<1>2. CASE Gateway
  BY <1>2, StartStep, RecoverStep, RecoverUnlinkStep, RecoverDoneStep, ClaimStep, DropStep,
     SubmitStep, TurnEndsStep, TurnRaisesStep, CompleteStep, RetryUnlinkStep,
     StopUnlinkStep DEF Gateway
<1>3. CASE StopInTurn \/ Crash
  BY <1>3, StopInTurnStep, CrashStep
<1>4. CASE UNCHANGED vars
  BY <1>4, StutterIInv
<1> QED BY <1>1, <1>2, <1>3, <1>4 DEF Next

\* The invariant of every execution, from the assumption on the constants alone.
THEOREM Invariant == QueueAssumption => (Spec => []IInv)
<1> SUFFICES ASSUME QueueAssumption PROVE Spec => []IInv
  OBVIOUS
<1>1. Init => IInv
  BY InitIInv
<1>2. IInv /\ [Next]_vars => IInv'
  BY StepIInv
<1> QED BY <1>1, <1>2, PTL DEF Spec

----------------------------------------------------------------------------
(* What follows from it. *)

\* Every variable keeps to the values its code writes; in particular the file of
\* a delivery in inbox/ or processing/ never counts MaxAttempts attempts, and
\* the steps that work on a claimed delivery have one.
THEOREM TypeCorrect == QueueAssumption => (Spec => []TypeOK)
<1>1. IInv => TypeOK
  BY DEF IInv
<1> QED BY <1>1, Invariant, PTL

\* At-least-once: for any number of deliveries, crashes between any two file
\* operations and interleavings with the CLI, a delivery enqueue() accepted is
\* on disk until it is handled or its trigger is deleted.
THEOREM NothingLost == QueueAssumption => (Spec => []NotLost)
<1>1. IInv => NotLost
  BY DEF IInv
<1> QED BY <1>1, Invariant, PTL

\* retry_delivery and recover_processing_deliveries together bound what a
\* delivery costs: the agent sees it at most MaxAttempts times, however the
\* gateway is stopped and killed.
THEOREM Bounded == QueueAssumption => (Spec => []AttemptsBounded)
<1>1. IInv => AttemptsBounded
  BY DEF IInv, Counted, AttemptsBounded
<1> QED BY <1>1, Invariant, PTL

\* The loop strands nothing: while it runs, processing/ holds only what it has
\* in hand, and no delivery has two files.
THEOREM NothingStuck == QueueAssumption => (Spec => []InHand)
<1>1. IInv => InHand
  <2> SUFFICES ASSUME IInv, pc \in {"poll", "turn", "complete"} PROVE InHand
    BY DEF InHand
  <2>1. InDir(processing) \subseteq batch /\ InDir(inbox) \cap InDir(failed) = {}
    BY DEF IInv, Single, InLoop
  <2>2. \A d \in batch : d \notin InDir(inbox) \cup InDir(failed)
    BY DEF IInv, Single, Unlinking
  <2> QED BY <2>1, <2>2 DEF InHand
<1> QED BY <1>1, Invariant, PTL

\* complete_delivery is final: no step hands the agent a delivery for which it
\* has run.
THEOREM NeverReplayed == QueueAssumption => (Spec => NoReplay)
<1> SUFFICES ASSUME QueueAssumption PROVE Spec => NoReplay
  OBVIOUS
<1>1. ASSUME IInv, [Next]_vars PROVE [\A d \in settled : submits'[d] = submits[d]]_vars
  <2> SUFFICES ASSUME Next, NEW d \in settled PROVE submits'[d] = submits[d]
    BY <1>1
  <2>1. CASE Submit
    <3>1. Current \in batch /\ d \in Deliveries
      BY <1>1, <2>1, FirstIn DEF Submit, IInv, TypeOK, Current
    <3>2. d # Current
      BY <1>1, <3>1 DEF IInv, Finished
    <3> QED BY <1>1, <2>1, <3>1, <3>2 DEF Submit, IInv, TypeOK
  <2>2. CASE ~Submit
    BY <2>2 DEF Next, Others, Gateway, history, Enqueue, SetEnabled, Delete, Start, Recover,
       RecoverUnlink, RecoverDone, Claim, Drop, TurnEnds, TurnRaises, Complete,
       RetryUnlink, StopUnlink, StopInTurn, Crash
  <2> QED BY <2>1, <2>2
<1> QED BY <1>1, Invariant, PTL DEF Spec, NoReplay

=============================================================================
