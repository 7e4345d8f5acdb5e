-------------------------- MODULE MCChannelManager --------------------------
(***************************************************************************)
(* Instances of ChannelManager for TLC: a turn streams and gives two plain  *)
(* answers, somebody repeats the first of them, all over one channel that   *)
(* is replaced and removed by requests that may be cancelled.               *)
(***************************************************************************)
EXTENDS ChannelManager

OnTelegram == [channel |-> "telegram", chat |-> "c", wanted |-> TRUE, kind |-> "plain",
               stream |-> None, text |-> None, message_id |-> None, origin |-> None]
Delta == [OnTelegram EXCEPT !.kind = "delta", !.stream = "s", !.text = "d"]
End == [Delta EXCEPT !.kind = "end"]
Answer(t, m) == [OnTelegram EXCEPT !.text = t, !.message_id = m]
FollowUp(t, m) == [OnTelegram EXCEPT !.text = t, !.origin = m]

TwoProducers == {"turn", "others"}
Scripts == [p \in TwoProducers |->
    IF p = "turn" THEN <<Delta, End, Answer("t", "m1"), Answer("t", "m2")>>
    ELSE <<FollowUp("t", "m1")>>]
Telegram == {"telegram"}
OneRequest == {"request"}
Returns == {"ok", "error", "late_error"}

\* Bound: with a cancelled request at most three of the five messages are published.
ThreeWithCancelled == forsaken # {} => Len(published) <= 3
=============================================================================
