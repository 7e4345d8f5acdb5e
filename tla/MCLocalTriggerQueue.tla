------------------------ MODULE MCLocalTriggerQueue ------------------------
(***************************************************************************)
(* Instances of LocalTriggerQueue for TLC.                                 *)
(***************************************************************************)
EXTENDS LocalTriggerQueue

OneEach == <<"t1", "t2">>
=============================================================================
