---------------------------- MODULE MCCronService ----------------------------
(***************************************************************************)
(* Instances of CronService for TLC.                                       *)
(***************************************************************************)
EXTENDS CronService, TLC

\* A system job, a recurring reminder, a one-shot reminder and one that stays in
\* the store after its run.
KindOf == "heartbeat" :> "every" @@ "drink" :> "every" @@ "call" :> "once" @@ "meet" :> "once_keep"
WhenOf == "heartbeat" :> 2 @@ "drink" :> 1 @@ "call" :> 3 @@ "meet" :> 2
MCKind == [j \in Jobs |-> KindOf[j]]
MCWhen == [j \in Jobs |-> WhenOf[j]]
=============================================================================
