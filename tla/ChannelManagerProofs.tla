------------------------ MODULE ChannelManagerProofs ------------------------
(***************************************************************************)
(* What the dispatcher shows and what it suppresses, for any scripts of any *)
(* number of producers and any settings requests, and who owns a running    *)
(* instance.                                                                *)
(***************************************************************************)
EXTENDS ChannelManager, FiniteSetTheorems, WellFoundedInduction, TLAPS

----------------------------------------------------------------------------
(* Sequences, intervals and identities. *)

\* The least element of a set of natural numbers: of the sets of predecessors one
\* is minimal.
LEMMA MinIn ==
    ASSUME NEW m \in Nat, NEW S \in SUBSET (0..m), S # {}
    PROVE  Min(S) \in S
<1> DEFINE Before(d) == {e \in S : e < d}
           T == {Before(d) : d \in S}
<1>0. S \subseteq Int
  OBVIOUS
<1>1. T \subseteq FiniteSubsetsOf(0..m) /\ T # {}
  <2>1. IsFiniteSet(0..m)
    BY FS_Interval
  <2>2. FiniteSubsetsOf(0..m) = SUBSET (0..m)
    BY <2>1, FS_FiniteSubsetsOfFinite
  <2>3. T \subseteq SUBSET (0..m)
    OBVIOUS
  <2>4. PICK d \in S : TRUE
    OBVIOUS
  <2>5. Before(d) \in T
    OBVIOUS
  <2> QED BY <2>2, <2>3, <2>5
<1>2. PICK t \in T : \A u \in T : <<u, t>> \notin StrictSubsetOrdering(0..m)
  <2>1. IsWellFoundedOn(StrictSubsetOrdering(0..m), FiniteSubsetsOf(0..m))
    BY FS_StrictSubsetOrderingWellFounded
  <2> HIDE DEF T
  <2> QED BY <1>1, <2>1, WFMin
<1>3. PICK d \in S : t = Before(d)
  OBVIOUS
<1>4. ASSUME NEW e \in S, e < d PROVE FALSE
  <2>1. Before(e) \in T /\ Before(e) \subseteq 0..m /\ t \subseteq 0..m
    BY <1>3
  <2>2. e \in t /\ e \notin Before(e)
    BY <1>0, <1>3, <1>4
  <2>3. ASSUME NEW x \in Before(e) PROVE x \in t
    <3>1. x \in Int /\ e \in Int /\ d \in Int /\ x < e
      BY <1>0
    <3>2. x < d
      BY <1>4, <3>1
    <3> QED BY <1>3, <3>2
  <2> QED BY <1>2, <2>1, <2>2, <2>3 DEF StrictSubsetOrdering
<1>5. \A e \in S : d =< e
  BY <1>0, <1>4
<1> QED BY <1>5 DEF Min

\* The bounds of an interval.
LEMMA Bounds ==
    ASSUME NEW a \in Int, NEW b \in Int, a <= b
    PROVE  Min(a..b) = a /\ Max(a..b) = b
<1>1. a \in a..b /\ b \in a..b /\ \A y \in a..b : a <= y /\ y <= b /\ y \in Int
  OBVIOUS
<1>2. \A x \in a..b : (\A y \in a..b : x <= y) => x = a
  BY <1>1
<1>3. \A x \in a..b : (\A y \in a..b : x >= y) => x = b
  BY <1>1
<1> QED BY <1>1, <1>2, <1>3 DEF Min, Max

\* An element of a sequence.
LEMMA Element ==
    ASSUME NEW S, NEW s \in Seq(S), NEW i \in 1..Len(s)
    PROVE  s[i] \in S
OBVIOUS

\* A sequence of one element.
LEMMA OneElement ==
    ASSUME NEW S, NEW s \in Seq(S), NEW t \in Seq(S), s # <<>>, Len(s) <= 1
    PROVE  Len(s) = 1 /\ Head(s \o t) = s[1] /\ Tail(s) = <<>>
<1>1. Len(s) = 1
  <2>1. Len(s) \in Nat /\ Len(s) # 0
    OBVIOUS
  <2>2. \A n \in Nat : n <= 1 /\ n # 0 => n = 1
    OBVIOUS
  <2> QED BY <2>1, <2>2
<1>2. Head(s \o t) = s[1]
  BY <1>1
<1>3. Len(Tail(s)) = 0 /\ Tail(s) \in Seq(S)
  BY <1>1
<1>4. Tail(s) = <<>>
  BY <1>3
<1> QED BY <1>1, <1>2, <1>4

\* An identity names a message of a script.
LEMMA IdFacts ==
    ASSUME ChannelAssumption, NEW id \in Ids
    PROVE  /\ id[1] \in Producers /\ id[2] \in 1..Len(Script[id[1]]) /\ id = <<id[1], id[2]>>
           /\ Msg(id) \in Message
<1>1. PICK p \in Producers : \E i \in 1..Len(Script[p]) : id = <<p, i>>
  BY DEF Ids
<1>2. PICK i \in 1..Len(Script[p]) : id = <<p, i>>
  BY <1>1
<1>3. Script[p] \in Seq(Message)
  BY DEF ChannelAssumption
<1>4. Script[p][i] \in Message
  BY <1>2, <1>3, Element
<1> QED BY <1>2, <1>4 DEF Msg

\* Merging takes a prefix of the queue and sets at most one message aside.
LEMMA CoalesceCuts ==
    ASSUME NEW id \in Ids, NEW queue \in Seq(Ids)
    PROVE  \E n \in 0..Len(queue) : \E r \in n..Len(queue) :
               /\ r <= n + 1
               /\ Coalesce(id, queue).ids = <<id>> \o SubSeq(queue, 1, n)
               /\ Coalesce(id, queue).aside = SubSeq(queue, n + 1, r)
               /\ Coalesce(id, queue).queue = SubSeq(queue, r + 1, Len(queue))
<1> DEFINE stops == {i \in DOMAIN queue : ~Continues(id, queue[i])}
           ends  == {i \in DOMAIN queue : Msg(queue[i]).kind = "end"}
           S     == {i - 1 : i \in stops} \cup ends \cup {Len(queue)}
           n     == Min(S)
           r     == IF n + 1 \in stops /\ n \notin ends THEN n + 1 ELSE n
<1>1. S \in SUBSET (0..Len(queue)) /\ S # {} /\ Len(queue) \in Nat
  OBVIOUS
<1>2. n \in 0..Len(queue)
  <2> HIDE DEF S
  <2> QED BY <1>1, MinIn
<1>3. r \in n..Len(queue) /\ r <= n + 1
  <2>1. \A i \in stops : i <= Len(queue)
    OBVIOUS
  <2> HIDE DEF n, stops, ends
  <2> QED BY <1>2, <2>1
<1>4. /\ Coalesce(id, queue).ids = <<id>> \o SubSeq(queue, 1, n)
      /\ Coalesce(id, queue).aside = SubSeq(queue, n + 1, r)
      /\ Coalesce(id, queue).queue = SubSeq(queue, r + 1, Len(queue))
  BY DEF Coalesce
<1> HIDE DEF n, r
<1> QED BY <1>2, <1>3, <1>4

----------------------------------------------------------------------------
(* The invariant of the delivery side. *)

\* How many of the published messages the dispatcher has taken.
Taken == Len(published) - Len(pending) - Len(outbound)

\* What waits is the end of what was published: the message put aside, the queue.
Waiting ==
    /\ Len(pending) <= 1 /\ Taken >= 0
    /\ \A i \in 1..Len(pending) : pending[i] = published[Taken + i]
    /\ \A i \in 1..Len(outbound) : outbound[i] = published[Taken + Len(pending) + i]

\* A producer publishes its messages in order, each once.
Numbered ==
    \A i \in 1..Len(published) :
        published[i][2] <= Cardinality({j \in 1..Len(published) : published[j][1] = published[i][1]})
Once == \A i, j \in 1..Len(published) : published[i] = published[j] => i = j

\* A block of a sequence: a stretch of it, without a hole.
At(seq, ids) == CHOOSE i \in DOMAIN seq : seq[i] = ids[1]
Through(seq, ids) == At(seq, ids) + Len(ids) - 1
Block(seq, ids) ==
    /\ ids # <<>>
    /\ At(seq, ids) \in 1..Len(seq) /\ Through(seq, ids) <= Len(seq)
    /\ \A k \in 1..Len(ids) : ids[k] = seq[At(seq, ids) + k - 1]

\* What was shown are blocks of what was taken, each behind the one before.
Blocks ==
    /\ \A i \in 1..Len(shown) :
           Block(published, shown[i]) /\ Through(published, shown[i]) <= Taken
    /\ \A i, j \in 1..Len(shown) :
           i < j => Through(published, shown[i]) < At(published, shown[j])

\* What is in hand is the block taken last, shown last if at all.
InHand == hand.pc = "send" =>
    /\ Block(published, hand.ids) /\ Through(published, hand.ids) = Taken
    /\ \A i \in 1..Len(shown) : \/ Through(published, shown[i]) < At(published, hand.ids)
                                \/ i = Len(shown) /\ shown[i] = hand.ids

\* A fate is that of a published message, and what waits or is in hand has none yet.
Known == \A id \in Ids : fate[id] # "none" => \E i \in 1..Len(published) : published[i] = id
Unsettled ==
    \A i \in 1..Len(published) :
        \/ i > Taken
        \/ hand.pc = "send" /\ i >= At(published, hand.ids)
        => fate[published[i]] = "queued"

\* What the dispatcher has taken and has not in hand any more has its fate.
Settled ==
    \A i \in 1..Len(published) :
        fate[published[i]] = "queued" /\ hand.pc # "ended" =>
            \/ i > Taken
            \/ hand.pc = "send" /\ i >= At(published, hand.ids)

\* A fingerprint is that of a message of which a channel was given a copy.
Copied(id) ==
    \/ fate[id] \in {"sent", "given_up"}
    \/ hand.pc = "ended"
    \/ hand.pc = "send" /\ hand.ids[1] = id
Stamped(id, k) ==
    /\ k[3] \in {Msg(id).origin, Msg(id).message_id} \ {None}
    /\ k = <<Msg(id).channel, Msg(id).chat, k[3], Msg(id).text>>
Fingerprinted == \A k \in replied : \E id \in Ids : Stamped(id, k) /\ Copied(id)

Order == Numbered /\ Once /\ Waiting /\ Blocks /\ InHand
Fates == Known /\ Unsettled /\ Settled /\ Fingerprinted /\ OnlyRepetitions

\* A round takes a block from the front, and leaves the rest in order.
LEMMA DispatchTakes ==
    ASSUME ChannelAssumption, TypeOK, Waiting, Dispatch
    PROVE  \E ids \in Seq(Ids) :
               /\ ids # <<>> /\ outbound' \in Seq(Ids) /\ pending' \in Seq(Ids)
               /\ Handle(ids) /\ Waiting' /\ Taken' = Taken + Len(ids)
               /\ \A k \in 1..Len(ids) : ids[k] = published[Taken + k]
               /\ Msg(ids[1]).kind # "delta" => Len(ids) = 1
<1> DEFINE id == Head(pending \o outbound)
           rest == IF pending = <<>> THEN Tail(outbound) ELSE outbound
           more == IF pending = <<>> THEN <<>> ELSE Tail(pending)
<1>0. /\ published \in Seq(Ids) /\ outbound \in Seq(Ids) /\ pending \in Seq(Ids)
      /\ Taken \in Nat /\ published' = published
  BY DEF TypeOK, Taken, Waiting, Dispatch
<1>1. /\ id \in Ids /\ rest \in Seq(Ids) /\ more = <<>> /\ id = published[Taken + 1]
      /\ Len(rest) = Len(published) - Taken - 1
      /\ \A i \in 1..Len(rest) : rest[i] = published[Taken + 1 + i]
  <2>1. CASE pending = <<>>
    <3>1. outbound # <<>>
      BY <1>0, <2>1 DEF Dispatch
    <3>2. id = outbound[1] /\ rest = Tail(outbound) /\ more = <<>>
      BY <1>0, <2>1, <3>1
    <3>3. Len(pending) = 0 /\ Len(outbound) >= 1 /\ Len(outbound) \in Nat
      BY <1>0, <2>1, <3>1
    <3>4. /\ Tail(outbound) \in Seq(Ids) /\ Len(Tail(outbound)) = Len(outbound) - 1
          /\ \A i \in 1..Len(Tail(outbound)) : Tail(outbound)[i] = outbound[i + 1]
      BY <1>0, <3>1
    <3>5. \A i \in 1..Len(outbound) : outbound[i] = published[Taken + i]
      BY <1>0, <3>3 DEF Waiting
    <3>6. outbound[1] \in Ids
      BY <1>0, <3>3
    <3>7. \A i \in 1..Len(Tail(outbound)) : i + 1 \in 1..Len(outbound)
                                            /\ Taken + (i + 1) = Taken + 1 + i
      BY <1>0, <3>3, <3>4
    <3>8. Len(Tail(outbound)) = Len(published) - Taken - 1
      BY <1>0, <3>3, <3>4 DEF Taken
    <3> HIDE DEF id, rest, more
    <3>9. \A i \in 1..Len(Tail(outbound)) : Tail(outbound)[i] = published[Taken + 1 + i]
      BY <3>4, <3>5, <3>7
    <3>10. outbound[1] = published[Taken + 1]
      BY <3>3, <3>5
    <3> QED BY <3>2, <3>4, <3>6, <3>8, <3>9, <3>10
  <2>2. CASE pending # <<>>
    <3>0. Len(pending) <= 1
      BY DEF Waiting
    <3>1. Len(pending) = 1 /\ Head(pending \o outbound) = pending[1] /\ Tail(pending) = <<>>
      BY <1>0, <2>2, <3>0, OneElement
    <3>2. id = pending[1] /\ rest = outbound /\ more = <<>>
      BY <2>2, <3>1
    <3>3. pending[1] = published[Taken + 1] /\ pending[1] \in Ids
      BY <1>0, <3>1 DEF Waiting
    <3>4. \A i \in 1..Len(outbound) : outbound[i] = published[Taken + 1 + i]
      BY <1>0, <3>1 DEF Waiting
    <3>5. Len(outbound) = Len(published) - Taken - 1
      BY <1>0, <3>1 DEF Taken
    <3> HIDE DEF id, rest, more
    <3> QED BY <1>0, <3>2, <3>3, <3>4, <3>5
  <2> QED BY <2>1, <2>2
<1>2. CASE Msg(id).kind = "delta"
  <2>1. outbound' = Coalesce(id, rest).queue /\ pending' = more \o Coalesce(id, rest).aside
        /\ Handle(Coalesce(id, rest).ids)
    BY <1>2 DEF Dispatch
  <2> HIDE DEF id, rest, more
  <2>2. PICK n \in 0..Len(rest) : \E r \in n..Len(rest) :
               /\ r <= n + 1
               /\ Coalesce(id, rest).ids = <<id>> \o SubSeq(rest, 1, n)
               /\ Coalesce(id, rest).aside = SubSeq(rest, n + 1, r)
               /\ Coalesce(id, rest).queue = SubSeq(rest, r + 1, Len(rest))
    BY <1>1, CoalesceCuts
  <2>3. PICK r \in n..Len(rest) :
               /\ r <= n + 1
               /\ Coalesce(id, rest).ids = <<id>> \o SubSeq(rest, 1, n)
               /\ Coalesce(id, rest).aside = SubSeq(rest, n + 1, r)
               /\ Coalesce(id, rest).queue = SubSeq(rest, r + 1, Len(rest))
    BY <2>2
  <2> DEFINE ids == <<id>> \o SubSeq(rest, 1, n)
             aside == SubSeq(rest, n + 1, r)
             queue == SubSeq(rest, r + 1, Len(rest))
  <2>4. /\ n \in Nat /\ r \in Nat /\ n <= r /\ r <= Len(rest) /\ r <= n + 1
        /\ Len(rest) \in Nat /\ Len(published) \in Nat
    BY <1>0, <1>1, <2>3
  <2>5. /\ ids \in Seq(Ids) /\ Len(ids) = n + 1 /\ ids # <<>> /\ ids[1] = id
        /\ \A k \in 2..n + 1 : ids[k] = rest[k - 1]
    BY <1>1, <2>4
  <2>6. /\ aside \in Seq(Ids) /\ Len(aside) = r - n
        /\ \A k \in 1..r - n : aside[k] = rest[n + k]
    BY <1>1, <2>4
  <2>7. /\ queue \in Seq(Ids) /\ Len(queue) = Len(rest) - r
        /\ \A k \in 1..Len(rest) - r : queue[k] = rest[r + k]
    BY <1>1, <2>4
  <2>8. pending' = aside /\ outbound' = queue /\ Handle(ids)
    <3>1. <<>> \o aside = aside
      BY <2>6
    <3> HIDE DEF ids, aside, queue
    <3> QED BY <1>1, <2>1, <2>3, <3>1 DEF ids, aside, queue
  <2> HIDE DEF ids, aside, queue
  <2>9. Taken' = Taken + Len(ids)
    <3>1. Taken' = Len(published) - Len(aside) - Len(queue)
      BY <1>0, <2>8 DEF Taken
    <3>2. Taken' = Len(published) - (r - n) - (Len(rest) - r)
      BY <2>6, <2>7, <3>1
    <3> QED BY <1>0, <1>1, <2>4, <2>5, <3>2
  <2>10. \A k \in 1..Len(ids) : ids[k] = published[Taken + k]
    <3> TAKE k \in 1..Len(ids)
    <3>1. CASE k = 1
      BY <1>1, <2>5, <3>1
    <3>2. CASE k # 1
      <4>1. k \in 2..n + 1 /\ k - 1 \in 1..Len(rest) /\ Taken + 1 + (k - 1) = Taken + k
        BY <1>0, <2>4, <2>5, <3>2
      <4>2. ids[k] = rest[k - 1] /\ rest[k - 1] = published[Taken + 1 + (k - 1)]
        BY <1>1, <2>5, <4>1
      <4> QED BY <4>1, <4>2
    <3> QED BY <3>1, <3>2
  <2>11. Waiting'
    <3>1. Len(pending') <= 1 /\ Taken' >= 0
      BY <1>0, <2>4, <2>5, <2>6, <2>8, <2>9
    <3>2. ASSUME NEW i \in 1..Len(pending') PROVE pending'[i] = published[Taken' + i]
      <4>1. i \in 1..r - n /\ n + i \in 1..Len(rest)
        BY <2>4, <2>6, <2>8
      <4>2. Taken' + i = Taken + 1 + (n + i)
        BY <1>0, <2>4, <2>5, <2>9, <4>1
      <4>3. aside[i] = rest[n + i] /\ rest[n + i] = published[Taken + 1 + (n + i)]
        BY <1>1, <2>6, <4>1
      <4> QED BY <2>8, <4>2, <4>3
    <3>3. ASSUME NEW i \in 1..Len(outbound')
          PROVE  outbound'[i] = published[Taken' + Len(pending') + i]
      <4>1. i \in 1..Len(rest) - r /\ r + i \in 1..Len(rest)
        BY <2>4, <2>7, <2>8
      <4>2. Taken' + Len(pending') + i = Taken + 1 + (r + i)
        <5>1. Taken' = Taken + (n + 1) /\ Len(pending') = r - n
          BY <2>5, <2>6, <2>8, <2>9
        <5> QED BY <1>0, <2>4, <4>1, <5>1
      <4>3. queue[i] = rest[r + i] /\ rest[r + i] = published[Taken + 1 + (r + i)]
        BY <1>1, <2>7, <4>1
      <4> QED BY <2>8, <4>2, <4>3
    <3> QED BY <1>0, <3>1, <3>2, <3>3 DEF Waiting
  <2> QED BY <1>2, <2>5, <2>6, <2>7, <2>8, <2>9, <2>10, <2>11
<1>3. CASE Msg(id).kind # "delta"
  <2>1. outbound' = rest /\ pending' = <<>> /\ Handle(<<id>>)
    BY <1>1, <1>3 DEF Dispatch
  <2> HIDE DEF id, rest, more
  <2>2. <<id>> \in Seq(Ids) /\ <<id>> # <<>> /\ Len(<<id>>) = 1 /\ <<id>>[1] = id
    BY <1>1
  <2>3. pending' \in Seq(Ids) /\ Len(pending') = 0 /\ outbound' \in Seq(Ids)
    BY <1>1, <2>1
  <2>4. Len(rest) \in Nat /\ Len(published) \in Nat
    BY <1>0, <1>1
  <2>5. Taken' = Taken + 1
    BY <1>0, <1>1, <2>1, <2>3, <2>4 DEF Taken
  <2>6. Waiting'
    <3>1. \A i \in 1..Len(outbound') : Taken' + Len(pending') + i = Taken + 1 + i
      BY <1>0, <2>1, <2>3, <2>4, <2>5
    <3>2. \A i \in 1..Len(outbound') : outbound'[i] = published'[Taken' + Len(pending') + i]
      BY <1>0, <1>1, <2>1, <3>1
    <3>3. Len(pending') <= 1 /\ Taken' >= 0 /\ 1..Len(pending') = {}
      BY <1>0, <2>3, <2>5
    <3> QED BY <3>2, <3>3 DEF Waiting
  <2>7. \A k \in 1..Len(<<id>>) : <<id>>[k] = published[Taken + k]
    BY <1>1, <2>2
  <2> QED BY <2>1, <2>2, <2>3, <2>5, <2>6, <2>7
<1> QED BY <1>2, <1>3

----------------------------------------------------------------------------
(* Types. *)

\* What handling them does to the hand and to the fates.
LEMMA HandleTypes ==
    ASSUME ChannelAssumption, TypeOK, NEW ids \in Seq(Ids), ids # <<>>, Handle(ids)
    PROVE  /\ \/ hand' = NoHand
              \/ \E i \in 0..MaxInstances :
                     hand' = [pc |-> "send", ids |-> ids, inst |-> i, attempt |-> 1]
           /\ \/ fate' = fate
              \/ \E f \in {"muted", "no_channel", "suppressed"} : fate' = Settle(ids, f)
<1>1. ids[1] \in Ids
  BY Element
<1>2. Msg(ids[1]).channel \in Names
  BY <1>1, IdFacts DEF Message
<1>3. channels[Msg(ids[1]).channel] \in 0..MaxInstances
  BY <1>2 DEF TypeOK
<1> QED BY <1>3 DEF Handle

\* Settling keeps the type of the fates.
LEMMA SettleType ==
    ASSUME TypeOK, NEW ids,
           NEW f \in {"sent", "given_up", "suppressed", "muted", "no_channel"}
    PROVE  Settle(ids, f) \in [Ids -> {"none", "queued", "sent", "given_up", "suppressed",
                                      "muted", "no_channel"}]
BY DEF Settle, TypeOK

\* Every step keeps the types of the delivery side.
DeliveryTypes ==
    /\ published \in Seq(Ids) /\ outbound \in Seq(Ids) /\ pending \in Seq(Ids)
    /\ hand \in [pc : {"ready", "send", "ended"}, ids : Seq(Ids),
                 inst : 0..MaxInstances, attempt : 0..MaxAttempts]
    /\ fate \in [Ids -> {"none", "queued", "sent", "given_up", "suppressed", "muted", "no_channel"}]
    /\ shown \in Seq(Seq(Ids))

\* Empty hands are of the type of hands.
LEMMA NoHandType ==
    ASSUME ChannelAssumption, NEW p \in {"ready", "send", "ended"}
    PROVE  [NoHand EXCEPT !.pc = p] \in [pc : {"ready", "send", "ended"}, ids : Seq(Ids),
                                         inst : 0..MaxInstances, attempt : 0..MaxAttempts]
<1>1. 0 \in 0..MaxInstances /\ 0 \in 0..MaxAttempts /\ <<>> \in Seq(Ids)
  BY DEF ChannelAssumption
<1> QED BY <1>1 DEF NoHand

\* So do the three steps of the delivery side.
LEMMA DeliveryStep ==
    ASSUME ChannelAssumption, TypeOK, Waiting,
           \/ \E p \in Producers : Publish(p)
           \/ Dispatch
           \/ \E o \in Outcomes : Send(o)
    PROVE  DeliveryTypes'
<1> DEFINE Hands == [pc : {"ready", "send", "ended"}, ids : Seq(Ids),
                     inst : 0..MaxInstances, attempt : 0..MaxAttempts]
           Ends == {"none", "queued", "sent", "given_up", "suppressed", "muted", "no_channel"}
<1>0. NoHand \in Hands /\ [NoHand EXCEPT !.pc = "ended"] \in Hands
  <2>1. NoHand = [NoHand EXCEPT !.pc = "ready"]
    BY DEF NoHand
  <2> QED BY <2>1, NoHandType
<1>1. ASSUME NEW p \in Producers, Publish(p) PROVE DeliveryTypes'
  <2>1. PICK id \in Ids : /\ published' = Append(published, id)
                          /\ outbound' = Append(outbound, id)
                          /\ fate' = [fate EXCEPT ![id] = "queued"]
    BY <1>1 DEF Publish
  <2>2. UNCHANGED <<pending, hand, shown>>
    BY <1>1 DEF Publish
  <2> QED BY <2>1, <2>2 DEF TypeOK, DeliveryTypes
<1>2. ASSUME Dispatch PROVE DeliveryTypes'
  <2>1. PICK ids \in Seq(Ids) :
             ids # <<>> /\ outbound' \in Seq(Ids) /\ pending' \in Seq(Ids) /\ Handle(ids)
    BY <1>2, DispatchTakes
  <2>2. published' = published /\ shown' = shown
    BY <1>2 DEF Dispatch
  <2>3. hand' \in Hands
    <3>1. 1 \in 0..MaxAttempts
      BY DEF ChannelAssumption
    <3> QED BY <2>1, <3>1, <1>0, HandleTypes
  <2>4. fate' \in [Ids -> Ends]
    <3>1. fate \in [Ids -> Ends]
      BY DEF TypeOK
    <3>2. CASE fate' = fate
      BY <3>1, <3>2
    <3>3. CASE \E f \in {"muted", "no_channel", "suppressed"} : fate' = Settle(ids, f)
      BY <3>3, SettleType
    <3> QED BY <2>1, <3>2, <3>3, HandleTypes
  <2> QED BY <2>1, <2>2, <2>3, <2>4 DEF TypeOK, DeliveryTypes
<1>3. ASSUME NEW o \in Outcomes, Send(o) PROVE DeliveryTypes'
  <2>0. hand \in Hands /\ hand.ids \in Seq(Ids) /\ shown \in Seq(Seq(Ids))
    BY DEF TypeOK
  <2>1. shown' \in Seq(Seq(Ids))
    BY <1>3, <2>0 DEF Send
  <2>2. hand' \in Hands
    <3> DEFINE over == o = "ok" \/ (o # "cancelled" /\ hand.attempt >= MaxAttempts)
    <3>1. hand' = IF over THEN NoHand
                  ELSE IF o = "cancelled" THEN [NoHand EXCEPT !.pc = "ended"]
                  ELSE [hand EXCEPT !.attempt = @ + 1]
      BY <1>3 DEF Send
    <3>2. CASE ~over /\ o # "cancelled"
      <4>1. hand.attempt + 1 \in 0..MaxAttempts
        BY <2>0, <3>2 DEF ChannelAssumption
      <4>2. hand' = [hand EXCEPT !.attempt = hand.attempt + 1]
        BY <3>1, <3>2
      <4> QED BY <2>0, <4>1, <4>2
    <3> QED BY <3>1, <3>2, <1>0
  <2>3. fate' \in [Ids -> Ends]
    <3>1. fate \in [Ids -> Ends]
      BY DEF TypeOK
    <3>2. fate' = fate \/ \E f \in {"sent", "given_up"} : fate' = Settle(hand.ids, f)
      BY <1>3 DEF Send
    <3>3. CASE \E f \in {"sent", "given_up"} : fate' = Settle(hand.ids, f)
      BY <3>3, SettleType
    <3> QED BY <3>1, <3>2, <3>3
  <2>4. UNCHANGED <<published, outbound, pending>>
    BY <1>3 DEF Send
  <2> QED BY <2>1, <2>2, <2>3, <2>4 DEF TypeOK, DeliveryTypes
<1> QED BY <1>1, <1>2, <1>3

\* Every step keeps the types.
LEMMA TypeStep ==
    ASSUME ChannelAssumption, TypeOK, Waiting, [Next]_vars
    PROVE  TypeOK'
<1> DEFINE Calls == [pc : {"idle", "replace", "remove", "next", "stop"},
                     name : Names \cup {None}, old : 0..MaxInstances,
                     task : 0..MaxInstances, new : 0..MaxInstances]
           States == {"none", "built", "live", "ended"}
           Runtime == /\ channels \in [Names -> 0..MaxInstances]
                      /\ tasks \in [Names -> 0..MaxInstances]
                      /\ instance \in [Names -> [1..MaxInstances -> States]]
                      /\ call \in [Everyone -> Calls]
                      /\ started \in BOOLEAN /\ todo \subseteq Names
                      /\ forsaken \subseteq (Names \cup {None}) \X (1..MaxInstances)
<1>1. TypeOK <=> DeliveryTypes /\ Runtime
  BY DEF TypeOK, DeliveryTypes
<1>2. TypeOK' <=> DeliveryTypes' /\ Runtime'
  BY DEF TypeOK, DeliveryTypes
<1>3. UNCHANGED delivery => DeliveryTypes'
  BY <1>1 DEF delivery, DeliveryTypes
<1>4. UNCHANGED runtime => Runtime'
  <2> SUFFICES ASSUME UNCHANGED runtime PROVE Runtime'
    OBVIOUS
  <2>1. Runtime
    BY <1>1
  <2> QED BY <2>1 DEF runtime
<1>5. Idle \in Calls /\ [Idle EXCEPT !.pc = "next"] \in Calls /\ "stop_all" \in Everyone
      /\ \A c \in Callers : c \in Everyone
  BY DEF Idle, Everyone, ChannelAssumption
<1>6. ASSUME NEW c \in Everyone, NEW n \in Names, NEW i \in 0..MaxInstances,
             NEW pc \in {"replace", "remove", "stop"}, BeginStop(c, n, pc, i)
      PROVE  call' \in [Everyone -> Calls] /\ tasks' \in [Names -> 0..MaxInstances]
  <2>1. channels[n] \in 0..MaxInstances /\ tasks[n] \in 0..MaxInstances /\ 0 \in 0..MaxInstances
    BY <1>1 DEF ChannelAssumption
  <2>2. [pc |-> pc, name |-> n, old |-> channels[n], task |-> tasks[n], new |-> i] \in Calls
    BY <2>1
  <2>3. call \in [Everyone -> Calls] /\ tasks \in [Names -> 0..MaxInstances]
    BY <1>1
  <2> HIDE DEF Calls
  <2> QED BY <1>6, <2>1, <2>2, <2>3 DEF BeginStop
<1>7. ASSUME NEW c \in Everyone PROVE Halted(c) \in [Names -> [1..MaxInstances -> States]]
  BY <1>1 DEF Halted
<1>8. ASSUME NEW n, NEW i \in 0..MaxInstances,
             NEW inst \in [Names -> [1..MaxInstances -> States]], Register(n, i, inst)
      PROVE  /\ channels' \in [Names -> 0..MaxInstances] /\ tasks' \in [Names -> 0..MaxInstances]
             /\ instance' \in [Names -> [1..MaxInstances -> States]]
  BY <1>1, <1>8 DEF Register
<1>9. CASE \E p \in Producers : Publish(p)
  BY <1>9, <1>2, <1>4, DeliveryStep DEF Publish
<1>10. CASE Dispatch
  BY <1>10, <1>2, <1>4, DeliveryStep DEF Dispatch
<1>11. CASE \E o \in Outcomes : Send(o)
  BY <1>11, <1>2, <1>4, DeliveryStep DEF Send
<1>12. CASE StartAll
  <2>1. Runtime'
    BY <1>1, <1>12 DEF StartAll
  <2> QED BY <1>12, <1>2, <1>3, <2>1 DEF StartAll
<1>13. ASSUME NEW n \in Names, NEW i \in 1..MaxInstances, StartEnds(n, i) PROVE TypeOK'
  <2>1. Runtime'
    BY <1>1, <1>13 DEF StartEnds
  <2> QED BY <1>13, <1>2, <1>3, <2>1 DEF StartEnds
<1>14. ASSUME NEW c \in Callers, NEW n \in Names, Enable(c, n) PROVE TypeOK'
  <2>1. PICK i \in 1..MaxInstances :
             \/ Register(n, i, Built(n, i)) /\ UNCHANGED call
             \/ /\ BeginStop(c, n, "replace", i)
                /\ instance' = Built(n, i) /\ UNCHANGED channels
    BY <1>14 DEF Enable
  <2>2. Built(n, i) \in [Names -> [1..MaxInstances -> States]] /\ i \in 0..MaxInstances
    BY <1>1 DEF Built, ChannelAssumption
  <2>3. UNCHANGED <<delivery, started, todo, forsaken>>
    BY <1>14 DEF Enable
  <2>4. Runtime'
    <3>1. CASE Register(n, i, Built(n, i)) /\ UNCHANGED call
      BY <1>1, <1>8, <2>2, <2>3, <3>1
    <3>2. CASE BeginStop(c, n, "replace", i) /\ instance' = Built(n, i) /\ UNCHANGED channels
      BY <1>1, <1>5, <1>6, <2>2, <2>3, <3>2
    <3> QED BY <2>1, <3>1, <3>2
  <2> QED BY <1>2, <1>3, <2>3, <2>4
<1>15. ASSUME NEW c \in Callers, NEW n \in Names, Disable(c, n) PROVE TypeOK'
  <2>1. 0 \in 0..MaxInstances
    BY DEF ChannelAssumption
  <2>2. BeginStop(c, n, "remove", 0) /\ UNCHANGED <<delivery, channels, instance, started, todo, forsaken>>
    BY <1>15 DEF Disable
  <2>3. Runtime'
    BY <1>1, <1>5, <1>6, <2>1, <2>2
  <2> QED BY <1>2, <1>3, <2>2, <2>3
<1>16. ASSUME NEW c \in Callers, Replaced(c) \/ Removed(c) PROVE TypeOK'
  <2>1. call' = [call EXCEPT ![c] = Idle] /\ UNCHANGED <<delivery, started, todo, forsaken>>
    BY <1>16 DEF Replaced, Removed
  <2>2. call' \in [Everyone -> Calls]
    BY <1>1, <1>5, <2>1
  <2>3. Halted(c) \in [Names -> [1..MaxInstances -> States]] /\ call[c] \in Calls
    BY <1>1, <1>5, <1>7
  <2>4. CASE Replaced(c)
    <3>1. Register(call[c].name, call[c].new, Halted(c)) /\ call[c].new \in 0..MaxInstances
      BY <2>3, <2>4 DEF Replaced
    <3>2. Runtime'
      BY <1>1, <1>8, <2>1, <2>2, <2>3, <3>1
    <3> QED BY <1>2, <1>3, <2>1, <3>2
  <2>5. CASE Removed(c)
    <3>1. instance' = Halted(c) /\ tasks' = tasks /\ channels' = [channels EXCEPT ![call[c].name] = 0]
      BY <2>5 DEF Removed
    <3>2. 0 \in 0..MaxInstances
      BY DEF ChannelAssumption
    <3>3. Runtime'
      BY <1>1, <2>1, <2>2, <2>3, <3>1, <3>2
    <3> QED BY <1>2, <1>3, <2>1, <3>3
  <2> QED BY <1>16, <2>4, <2>5
<1>17. CASE StopAll
  <2>1. /\ hand' = [NoHand EXCEPT !.pc = "ended"]
        /\ UNCHANGED <<published, outbound, pending, replied, shown, fate>>
    BY <1>17 DEF StopAll
  <2>2. DeliveryTypes'
    BY <1>1, <2>1, NoHandType DEF DeliveryTypes
  <2>3. started' = FALSE /\ todo' = {n \in Names : channels[n] # 0}
        /\ call' = [call EXCEPT !["stop_all"].pc = "next"]
        /\ UNCHANGED <<channels, tasks, instance, forsaken>>
    BY <1>17 DEF StopAll
  <2>4. Runtime'
    BY <1>1, <1>5, <2>3
  <2> QED BY <1>2, <2>2, <2>4
<1>18. ASSUME NEW n \in Names, StopNext(n) PROVE TypeOK'
  <2>1. UNCHANGED <<delivery, channels, instance, started, forsaken>> /\ todo' = todo \ {n}
    BY <1>18 DEF StopNext
  <2>2. \/ tasks' = [tasks EXCEPT ![n] = 0] /\ UNCHANGED call
        \/ BeginStop("stop_all", n, "stop", 0)
    BY <1>18 DEF StopNext
  <2>3. 0 \in 0..MaxInstances
    BY DEF ChannelAssumption
  <2>4. CASE tasks' = [tasks EXCEPT ![n] = 0] /\ UNCHANGED call
    <3>1. Runtime'
      BY <1>1, <2>1, <2>3, <2>4
    <3> QED BY <1>2, <1>3, <2>1, <3>1
  <2>5. CASE BeginStop("stop_all", n, "stop", 0)
    <3>1. call' \in [Everyone -> Calls] /\ tasks' \in [Names -> 0..MaxInstances]
      BY <1>5, <1>6, <2>3, <2>5
    <3>2. Runtime'
      BY <1>1, <2>1, <3>1
    <3> QED BY <1>2, <1>3, <2>1, <3>2
  <2> QED BY <2>2, <2>4, <2>5
<1>19. CASE Stopped
  <2>1. UNCHANGED <<delivery, channels, tasks, started, todo, forsaken>> /\ instance' = Halted("stop_all")
        /\ call' = [call EXCEPT !["stop_all"] = [Idle EXCEPT !.pc = "next"]]
    BY <1>19 DEF Stopped
  <2>2. Runtime'
    BY <1>1, <1>5, <1>7, <2>1
  <2> QED BY <1>2, <1>3, <2>1, <2>2
<1>20. ASSUME NEW c \in Callers, Dropped(c) PROVE TypeOK'
  <2>1. /\ call' = [call EXCEPT ![c] = Idle]
        /\ UNCHANGED <<delivery, channels, tasks, instance, started, todo>>
    BY <1>20 DEF Dropped
  <2>2. call' \in [Everyone -> Calls]
    BY <1>1, <1>5, <2>1
  <2>3. call[c].name \in Names \cup {None} /\ call[c].task \in 0..MaxInstances
    BY <1>1, <1>5
  <2>4. call[c].task # 0 => call[c].task \in 1..MaxInstances
    BY <2>3 DEF ChannelAssumption
  <2>5. forsaken' \subseteq (Names \cup {None}) \X (1..MaxInstances)
    BY <1>1, <1>20, <2>3, <2>4 DEF Dropped
  <2>6. Runtime'
    BY <1>1, <2>1, <2>2, <2>5
  <2> QED BY <1>2, <1>3, <2>1, <2>6
<1>21. CASE UNCHANGED vars
  BY <1>21, <1>2, <1>3, <1>4 DEF vars
<1> QED BY <1>9, <1>10, <1>11, <1>12, <1>13, <1>14, <1>15, <1>16, <1>17, <1>18, <1>19, <1>20, <1>21 DEF Next

----------------------------------------------------------------------------
(* The order of what is shown. *)

\* An element of a sequence without repetitions has one place.
LEMMA PlaceIs ==
    ASSUME NEW seq, NEW n \in Nat, DOMAIN seq = 1..n,
           \A i, j \in 1..n : seq[i] = seq[j] => i = j,
           NEW x, NEW a \in 1..n, x = seq[a]
    PROVE  (CHOOSE i \in DOMAIN seq : seq[i] = x) = a
<1>1. \A i \in DOMAIN seq : seq[i] = x => i = a
  OBVIOUS
<1>2. \E i \in DOMAIN seq : seq[i] = x
  OBVIOUS
<1> DEFINE c == CHOOSE i \in DOMAIN seq : seq[i] = x
<1>3. c \in DOMAIN seq /\ seq[c] = x
  BY <1>2
<1> HIDE DEF c
<1>4. c = a
  BY <1>1, <1>3
<1> QED BY <1>4 DEF c

\* A stretch of such a sequence is a block, and begins where it was taken.
LEMMA StretchIsBlock ==
    ASSUME NEW S, NEW seq \in Seq(S),
           \A i, j \in 1..Len(seq) : seq[i] = seq[j] => i = j,
           NEW ids \in Seq(S), ids # <<>>, NEW a \in 1..Len(seq), a + Len(ids) - 1 <= Len(seq),
           \A k \in 1..Len(ids) : ids[k] = seq[a + k - 1]
    PROVE  At(seq, ids) = a /\ Block(seq, ids)
<1>1. Len(ids) \in Nat /\ Len(ids) >= 1 /\ Len(seq) \in Nat /\ DOMAIN seq = 1..Len(seq)
  OBVIOUS
<1>2. a + 1 - 1 = a /\ 1 \in 1..Len(ids)
  BY <1>1
<1>3. ids[1] = seq[a]
  BY <1>2
<1>4. At(seq, ids) = a
  BY <1>1, <1>3, PlaceIs DEF At
<1> QED BY <1>4 DEF Block, Through

\* A block stays where it is when something new is published.
LEMMA BlockStays ==
    ASSUME NEW S, NEW seq \in Seq(S), NEW x \in S,
           \A i, j \in 1..Len(seq) : seq[i] = seq[j] => i = j,
           \A i \in 1..Len(seq) : seq[i] # x,
           NEW ids \in Seq(S), Block(seq, ids)
    PROVE  /\ Block(Append(seq, x), ids) /\ At(Append(seq, x), ids) = At(seq, ids)
           /\ Through(Append(seq, x), ids) = Through(seq, ids)
<1> DEFINE new == Append(seq, x)
           a == At(seq, ids)
<1>1. /\ new \in Seq(S) /\ Len(new) = Len(seq) + 1 /\ Len(seq) \in Nat /\ Len(ids) \in Nat
      /\ new[Len(seq) + 1] = x /\ \A i \in 1..Len(seq) : new[i] = seq[i]
  OBVIOUS
<1>2. /\ a \in 1..Len(seq) /\ a + Len(ids) - 1 <= Len(seq) /\ ids # <<>>
      /\ \A k \in 1..Len(ids) : ids[k] = seq[a + k - 1]
  BY DEF Block, Through
<1> HIDE DEF new, a
<1>3. \A i, j \in 1..Len(new) : new[i] = new[j] => i = j
  BY <1>1
<1>4. \A k \in 1..Len(ids) : a + k - 1 \in 1..Len(seq)
  BY <1>1, <1>2
<1>5. \A k \in 1..Len(ids) : ids[k] = new[a + k - 1]
  BY <1>1, <1>2, <1>4
<1>6. a \in 1..Len(new) /\ a + Len(ids) - 1 <= Len(new)
  BY <1>1, <1>2
<1>7. At(new, ids) = a /\ Block(new, ids)
  BY <1>1, <1>2, <1>3, <1>5, <1>6, StretchIsBlock
<1> QED BY <1>7 DEF new, a, Through

\* What is published next is new, and numbered in turn.
LEMMA PublishIsNew ==
    ASSUME ChannelAssumption, TypeOK, Numbered, Once, NEW p \in Producers, Publish(p)
    PROVE  \E id \in Ids :
               /\ published' = Append(published, id) /\ outbound' = Append(outbound, id)
               /\ fate' = [fate EXCEPT ![id] = "queued"]
               /\ \A i \in 1..Len(published) : published[i] # id
               /\ Numbered' /\ Once'
<1> DEFINE id == <<p, Next_(p)>>
           Of(q) == {j \in 1..Len(published) : published[j][1] = q}
<1>1. /\ id \in Ids /\ published' = Append(published, id) /\ outbound' = Append(outbound, id)
      /\ fate' = [fate EXCEPT ![id] = "queued"]
  BY DEF Publish
<1>2. published \in Seq(Ids) /\ Len(published) \in Nat /\ DOMAIN published = 1..Len(published)
  BY DEF TypeOK
<1>3. \A q : IsFiniteSet(Of(q)) /\ Cardinality(Of(q)) \in Nat
  <2>1. IsFiniteSet(1..Len(published))
    BY <1>2, FS_Interval
  <2> QED BY <2>1, FS_Subset, FS_CardinalityType
<1>4. id[1] = p /\ id[2] = Cardinality(Of(p)) + 1
  BY <1>2 DEF Next_
<1> HIDE DEF id
<1>5. /\ Len(published') = Len(published) + 1 /\ published'[Len(published) + 1] = id
      /\ \A i \in 1..Len(published) : published'[i] = published[i]
  BY <1>1, <1>2
<1>6. ASSUME NEW i \in 1..Len(published) PROVE published[i] # id
  <2>1. published[i][2] <= Cardinality(Of(published[i][1]))
    BY DEF Numbered
  <2>2. CASE published[i] = id
    <3>1. Cardinality(Of(p)) + 1 <= Cardinality(Of(p))
      BY <1>4, <2>1, <2>2
    <3>2. Cardinality(Of(p)) \in Nat
      BY <1>3
    <3> HIDE DEF Of
    <3>3. \A n \in Nat : ~(n + 1 <= n)
      OBVIOUS
    <3> QED BY <3>1, <3>2, <3>3
  <2> QED BY <2>2
<1>7. Once'
  BY <1>2, <1>5, <1>6 DEF Once
<1>8. Numbered'
  <2> DEFINE New(q) == {j \in 1..Len(published') : published'[j][1] = q}
  <2>1. ASSUME NEW q, q # p PROVE New(q) = Of(q)
    BY <1>2, <1>4, <1>5, <2>1
  <2>2. New(p) = Of(p) \cup {Len(published) + 1}
    BY <1>2, <1>4, <1>5
  <2>3. Len(published) + 1 \notin Of(p)
    BY <1>2
  <2> HIDE DEF Of, New
  <2>4. Cardinality(New(p)) = Cardinality(Of(p)) + 1
    BY <1>3, <2>2, <2>3, FS_AddElement
  <2>5. ASSUME NEW i \in 1..Len(published') PROVE published'[i][2] <= Cardinality(New(published'[i][1]))
    <3>1. CASE i = Len(published) + 1
      BY <1>3, <1>4, <1>5, <2>4, <3>1
    <3>2. CASE i # Len(published) + 1
      <4>1. i \in 1..Len(published) /\ published'[i] = published[i]
        BY <1>2, <1>5, <3>2
      <4>2. published[i][2] <= Cardinality(Of(published[i][1])) /\ published[i][2] \in Nat
        <5>1. published[i] \in Ids
          BY <1>2, <4>1, Element
        <5>2. published[i][2] \in Nat
          BY <5>1, IdFacts
        <5> QED BY <4>1, <5>2 DEF Numbered, Of
      <4>3. CASE published[i][1] = p
        BY <1>3, <2>4, <4>1, <4>2, <4>3
      <4>4. CASE published[i][1] # p
        BY <2>1, <4>1, <4>2, <4>4
      <4> QED BY <4>3, <4>4
    <3> QED BY <3>1, <3>2
  <2> QED BY <2>5 DEF Numbered, New
<1> QED BY <1>1, <1>6, <1>7, <1>8

\* Publishing keeps the order.
LEMMA OrderPublish ==
    ASSUME ChannelAssumption, TypeOK, Order, NEW p \in Producers, Publish(p)
    PROVE  Order'
<1>1. PICK id \in Ids :
               /\ published' = Append(published, id) /\ outbound' = Append(outbound, id)
               /\ \A i \in 1..Len(published) : published[i] # id
               /\ Numbered' /\ Once'
  BY PublishIsNew DEF Order
<1>2. UNCHANGED <<pending, hand, shown>>
  BY DEF Publish
<1>3. /\ published \in Seq(Ids) /\ outbound \in Seq(Ids) /\ pending \in Seq(Ids)
      /\ hand.ids \in Seq(Ids) /\ shown \in Seq(Seq(Ids))
      /\ Len(published) \in Nat /\ Len(outbound) \in Nat /\ Len(pending) \in Nat
  BY DEF TypeOK
<1>4. /\ Len(published') = Len(published) + 1 /\ published'[Len(published) + 1] = id
      /\ \A i \in 1..Len(published) : published'[i] = published[i]
      /\ Len(outbound') = Len(outbound) + 1 /\ outbound'[Len(outbound) + 1] = id
      /\ \A i \in 1..Len(outbound) : outbound'[i] = outbound[i]
  BY <1>1, <1>3
<1>5. Taken' = Taken /\ Taken \in Int
  BY <1>2, <1>3, <1>4 DEF Taken
<1>6. Waiting'
  <2>0. Taken \in Nat /\ Len(pending) <= 1
    BY <1>5 DEF Order, Waiting
  <2>1. ASSUME NEW i \in 1..Len(pending) PROVE pending[i] = published'[Taken + i]
    <3>1. Taken + i \in 1..Len(published)
      BY <1>3, <2>0 DEF Taken
    <3> QED BY <3>1, <1>4 DEF Order, Waiting
  <2>2. ASSUME NEW i \in 1..Len(outbound') PROVE outbound'[i] = published'[Taken + Len(pending) + i]
    <3>1. CASE i = Len(outbound) + 1
      <4>1. Taken + Len(pending) + i = Len(published) + 1
        BY <1>3, <3>1 DEF Taken
      <4> QED BY <4>1, <1>4, <3>1
    <3>2. CASE i # Len(outbound) + 1
      <4>1. i \in 1..Len(outbound)
        BY <1>3, <1>4, <3>2
      <4>2. Taken + Len(pending) + i \in 1..Len(published)
        BY <1>3, <2>0, <4>1 DEF Taken
      <4> QED BY <4>1, <4>2, <1>4 DEF Order, Waiting
    <3> QED BY <3>1, <3>2
  <2> QED BY <1>2, <1>5, <2>0, <2>1, <2>2 DEF Waiting
<1>7. ASSUME NEW ids \in Seq(Ids), Block(published, ids)
      PROVE  /\ Block(published', ids) /\ At(published', ids) = At(published, ids)
             /\ Through(published', ids) = Through(published, ids)
  <2>1. \A i, j \in 1..Len(published) : published[i] = published[j] => i = j
    BY DEF Order, Once
  <2>2. /\ Block(Append(published, id), ids)
        /\ At(Append(published, id), ids) = At(published, ids)
        /\ Through(Append(published, id), ids) = Through(published, ids)
    <3>1. published \in Seq(Ids) /\ \A i \in 1..Len(published) : published[i] # id
      BY <1>1, <1>3
    <3> QED BY <1>7, <2>1, <3>1, BlockStays
  <2> QED BY <1>1, <2>2
<1>8. \A i \in 1..Len(shown) : shown[i] \in Seq(Ids)
  BY <1>3, Element
<1>9. Blocks'
  BY <1>2, <1>5, <1>7, <1>8 DEF Order, Blocks
<1>10. InHand'
  BY <1>2, <1>3, <1>5, <1>7, <1>8 DEF Order, InHand, Blocks
<1> QED BY <1>1, <1>6, <1>9, <1>10 DEF Order

\* So does a round of the dispatcher: what it takes is the next block.
LEMMA OrderDispatch ==
    ASSUME ChannelAssumption, TypeOK, Order, Dispatch
    PROVE  Order'
<1>1. PICK ids \in Seq(Ids) :
               /\ ids # <<>> /\ Handle(ids) /\ Waiting' /\ Taken' = Taken + Len(ids)
               /\ \A k \in 1..Len(ids) : ids[k] = published[Taken + k]
  BY DispatchTakes DEF Order
<1>2. UNCHANGED <<published, shown>> /\ hand.pc = "ready"
  BY DEF Dispatch
<1>3. /\ published \in Seq(Ids) /\ Len(published) \in Nat
      /\ Len(ids) \in Nat /\ Len(ids) >= 1 /\ Taken \in Nat
      /\ Taken + Len(ids) <= Len(published)
  <2>1. Len(published') \in Nat /\ Len(pending') \in Nat /\ Len(outbound') \in Nat
    BY DispatchTakes DEF TypeOK, Dispatch, Order
  <2>2. Taken' <= Len(published')
    BY <2>1 DEF Taken
  <2>3. Taken \in Int /\ Taken >= 0
    BY DEF TypeOK, Order, Waiting, Taken
  <2> QED BY <1>1, <1>2, <2>2, <2>3 DEF TypeOK
<1>4. At(published, ids) = Taken + 1 /\ Block(published, ids)
  <2> DEFINE a == Taken + 1
  <2>1. /\ a \in 1..Len(published) /\ a + Len(ids) - 1 <= Len(published)
        /\ \A k \in 1..Len(ids) : a + k - 1 = Taken + k
    BY <1>3
  <2> HIDE DEF a
  <2>2. \A k \in 1..Len(ids) : ids[k] = published[a + k - 1]
    BY <1>1, <2>1
  <2>3. \A i, j \in 1..Len(published) : published[i] = published[j] => i = j
    BY DEF Order, Once
  <2>4. At(published, ids) = a /\ Block(published, ids)
    BY <1>1, <1>3, <2>1, <2>2, <2>3, StretchIsBlock
  <2> QED BY <2>4 DEF a
<1>5. Through(published, ids) = Taken'
  BY <1>1, <1>3, <1>4 DEF Through
<1>6. Numbered' /\ Once'
  BY <1>2 DEF Order, Numbered, Once
<1>7. Blocks'
  <2>1. ASSUME NEW i \in 1..Len(shown) PROVE Through(published, shown[i]) <= Taken'
    <3>1. Through(published, shown[i]) <= Taken /\ Through(published, shown[i]) \in Int
      <4>1. At(published, shown[i]) \in Int /\ Len(shown[i]) \in Nat
        BY Element DEF Order, Blocks, Block, TypeOK
      <4> QED BY <4>1 DEF Order, Blocks, Through
    <3> QED BY <1>1, <1>3, <3>1
  <2> QED BY <1>2, <2>1 DEF Order, Blocks
<1>8. InHand'
  <2>1. hand' = NoHand \/ hand'.ids = ids
    BY <1>1, HandleTypes
  <2>2. CASE hand' = NoHand
    BY <2>2 DEF InHand, NoHand
  <2>3. CASE hand'.ids = ids
    <3>1. ASSUME NEW i \in 1..Len(shown)
          PROVE  Through(published, shown[i]) < At(published, ids)
      <4>1. At(published, shown[i]) \in Int /\ Len(shown[i]) \in Nat
        BY Element DEF Order, Blocks, Block, TypeOK
      <4> QED BY <1>3, <1>4, <4>1 DEF Order, Blocks, Through
    <3> QED BY <1>2, <1>4, <1>5, <2>3, <3>1 DEF InHand
  <2> QED BY <2>1, <2>2, <2>3
<1> QED BY <1>1, <1>6, <1>7, <1>8 DEF Order

\* So does an attempt to send: the block in hand is shown behind the others, once.
LEMMA OrderSend ==
    ASSUME ChannelAssumption, TypeOK, Order, NEW o \in Outcomes, Send(o)
    PROVE  Order'
<1>1. /\ UNCHANGED <<published, outbound, pending>> /\ hand.pc = "send"
      /\ hand.ids \in Seq(Ids) /\ shown \in Seq(Seq(Ids)) /\ Len(shown) \in Nat
  BY DEF Send, TypeOK
<1>2. Numbered' /\ Once' /\ Waiting' /\ Taken' = Taken
  BY <1>1 DEF Order, Numbered, Once, Waiting, Taken
<1>3. hand'.pc = "send" => hand'.ids = hand.ids
  BY DEF Send, NoHand, TypeOK
<1>4. /\ Block(published, hand.ids) /\ Through(published, hand.ids) = Taken
      /\ \A i \in 1..Len(shown) : \/ Through(published, shown[i]) < At(published, hand.ids)
                                  \/ i = Len(shown) /\ shown[i] = hand.ids
  BY <1>1 DEF Order, InHand
<1>5. CASE shown' = shown
  BY <1>1, <1>2, <1>3, <1>4, <1>5 DEF Order, Blocks, InHand
<1>6. CASE shown' # shown
  <2>1. shown' = Append(shown, hand.ids) /\ (shown = <<>> \/ Last(shown) # hand.ids)
    BY <1>6 DEF Send
  <2>2. Len(shown) >= 1 => shown[Len(shown)] # hand.ids
    BY <1>1, <2>1 DEF Last
  <2>3. \A i \in 1..Len(shown) : Through(published, shown[i]) < At(published, hand.ids)
    BY <1>1, <1>4, <2>2
  <2>4. /\ Len(shown') = Len(shown) + 1 /\ shown'[Len(shown) + 1] = hand.ids
        /\ \A i \in 1..Len(shown) : shown'[i] = shown[i]
    BY <1>1, <2>1
  <2>5. Taken \in Int
    BY DEF Taken, TypeOK
  <2>6. Blocks'
    <3>1. ASSUME NEW i \in 1..Len(shown')
          PROVE  Block(published, shown'[i]) /\ Through(published, shown'[i]) <= Taken
      <4>1. CASE i = Len(shown) + 1
        BY <1>4, <2>4, <2>5, <4>1
      <4>2. CASE i \in 1..Len(shown)
        BY <2>4, <4>2 DEF Order, Blocks
      <4> QED BY <1>1, <2>4, <4>1, <4>2
    <3>2. ASSUME NEW i \in 1..Len(shown'), NEW j \in 1..Len(shown'), i < j
          PROVE  Through(published, shown'[i]) < At(published, shown'[j])
      <4>1. i \in 1..Len(shown) /\ shown'[i] = shown[i]
        BY <1>1, <2>4, <3>2
      <4>2. CASE j = Len(shown) + 1
        BY <2>3, <2>4, <4>1, <4>2
      <4>3. CASE j \in 1..Len(shown)
        BY <2>4, <3>2, <4>1, <4>3 DEF Order, Blocks
      <4> QED BY <1>1, <2>4, <4>2, <4>3
    <3> QED BY <1>1, <1>2, <3>1, <3>2 DEF Blocks
  <2>7. InHand'
    <3>1. ASSUME NEW i \in 1..Len(shown')
          PROVE  \/ Through(published, shown'[i]) < At(published, hand.ids)
                 \/ i = Len(shown') /\ shown'[i] = hand.ids
      BY <1>1, <2>3, <2>4
    <3> QED BY <1>1, <1>2, <1>3, <1>4, <3>1 DEF InHand
  <2> QED BY <1>2, <2>6, <2>7 DEF Order
<1> QED BY <1>5, <1>6

\* Every step keeps the order.
LEMMA OrderStep ==
    ASSUME ChannelAssumption, TypeOK, Order, [Next]_vars
    PROVE  Order'
<1>1. CASE \E p \in Producers : Publish(p)
  BY <1>1, OrderPublish
<1>2. CASE Dispatch
  BY <1>2, OrderDispatch
<1>3. CASE \E o \in Outcomes : Send(o)
  BY <1>3, OrderSend
<1>4. CASE UNCHANGED <<published, outbound, pending, shown>> /\ (hand' = hand \/ hand'.pc = "ended")
  BY <1>4 DEF Order, Numbered, Once, Waiting, Taken, Blocks, InHand
<1>5. StopAll => hand'.pc = "ended"
  BY DEF StopAll, NoHand
<1> QED BY <1>1, <1>2, <1>3, <1>4, <1>5
        DEF Next, vars, delivery, StartAll, StartEnds, Enable, Disable, Replaced, Removed,
            Dropped, StopAll, StopNext, Stopped

\* Blocks in order are in order for the reader of the property, who looks places up.
LEMMA OrderIsInOrder ==
    ASSUME ChannelAssumption, TypeOK, Order
    PROVE  InOrder
<1>1. /\ published \in Seq(Ids) /\ Len(published) \in Nat /\ DOMAIN published = 1..Len(published)
      /\ shown \in Seq(Seq(Ids)) /\ DOMAIN shown = 1..Len(shown)
  BY DEF TypeOK
<1>2. ASSUME NEW i \in 1..Len(shown)
      PROVE  LET a == At(published, shown[i])
                 b == Through(published, shown[i])
             IN  /\ a \in Int /\ b \in Int /\ a <= b
                 /\ Places(shown[i]) = a..b
  <2> DEFINE ids == shown[i]
             a == At(published, ids)
             b == Through(published, ids)
  <2>1. ids \in Seq(Ids)
    BY <1>1, Element
  <2>2. /\ ids # <<>> /\ a \in 1..Len(published) /\ b <= Len(published) /\ b = a + Len(ids) - 1
        /\ \A k \in 1..Len(ids) : ids[k] = published[a + k - 1]
    BY DEF Order, Blocks, Block, Through
  <2>3. Len(ids) \in Nat /\ Len(ids) >= 1 /\ DOMAIN ids = 1..Len(ids)
    BY <2>1, <2>2
  <2> HIDE DEF ids, a, b
  <2>4. a \in Int /\ b \in Int /\ a <= b
    BY <1>1, <2>2, <2>3
  <2>5. ASSUME NEW k \in 1..Len(ids) PROVE PlaceOf(ids[k]) = a + k - 1
    <3>1. a + k - 1 \in 1..Len(published)
      BY <1>1, <2>2, <2>3
    <3>2. \A x, y \in 1..Len(published) : published[x] = published[y] => x = y
      BY DEF Order, Once
    <3> QED BY <1>1, <2>2, <3>1, <3>2, PlaceIs DEF PlaceOf
  <2>6. Places(ids) = {a + k - 1 : k \in 1..Len(ids)}
    BY <2>3, <2>5 DEF Places
  <2>7. {a + k - 1 : k \in 1..Len(ids)} = a..b
    <3>1. ASSUME NEW x \in a..b PROVE \E k \in 1..Len(ids) : x = a + k - 1
      <4>1. x - a + 1 \in 1..Len(ids) /\ x = a + (x - a + 1) - 1
        BY <2>2, <2>3, <2>4
      <4> QED BY <4>1
    <3>2. ASSUME NEW k \in 1..Len(ids) PROVE a + k - 1 \in a..b
      BY <2>2, <2>3, <2>4
    <3> QED BY <3>1, <3>2
  <2> QED BY <2>4, <2>6, <2>7 DEF ids, a, b
<1>3. ASSUME NEW i \in 1..Len(shown)
      PROVE  /\ Min(Places(shown[i])) = At(published, shown[i])
             /\ Max(Places(shown[i])) = Through(published, shown[i])
  BY <1>2, Bounds
<1>4. \A i, j \in 1..Len(shown) : i < j => Max(Places(shown[i])) < Min(Places(shown[j]))
  BY <1>3 DEF Order, Blocks
<1>5. \A i \in 1..Len(shown) : Places(shown[i]) = Min(Places(shown[i]))..Max(Places(shown[i]))
  BY <1>2, <1>3
<1> QED BY <1>1, <1>4, <1>5 DEF InOrder

----------------------------------------------------------------------------
(* What becomes of a message. *)

\* Settling a block gives its messages one fate and leaves the others alone.
LEMMA SettleIs ==
    ASSUME TypeOK, NEW ids, NEW f
    PROVE  /\ \A id \in Ids : id \in ToSet(ids) => Settle(ids, f)[id] = f
           /\ \A id \in Ids : id \notin ToSet(ids) => Settle(ids, f)[id] = fate[id]
BY DEF Settle

\* The messages of a block have no fate when its places have none.
LEMMA BlockQueued ==
    ASSUME TypeOK, NEW ids \in Seq(Ids), NEW a \in Nat,
           \A k \in 1..Len(ids) : a + k \in 1..Len(published) /\ ids[k] = published[a + k],
           \A i \in 1..Len(published) : i > a => fate[published[i]] = "queued"
    PROVE  \A id \in ToSet(ids) : fate[id] = "queued"
<1>0. DOMAIN ids = 1..Len(ids)
  OBVIOUS
<1> SUFFICES ASSUME NEW k \in 1..Len(ids) PROVE fate[ids[k]] = "queued"
  BY <1>0 DEF ToSet
<1>1. a + k \in 1..Len(published) /\ a + k > a /\ ids[k] = published[a + k]
  OBVIOUS
<1> QED BY <1>1

\* Nor are they among the messages behind it.
LEMMA BlockBefore ==
    ASSUME Once, NEW ids, NEW a \in Nat,
           DOMAIN ids = 1..Len(ids), Len(ids) \in Nat, Len(published) \in Nat,
           \A k \in 1..Len(ids) : a + k \in 1..Len(published) /\ ids[k] = published[a + k],
           NEW i \in 1..Len(published), i > a + Len(ids)
    PROVE  published[i] \notin ToSet(ids)
<1> SUFFICES ASSUME NEW k \in 1..Len(ids), published[i] = ids[k] PROVE FALSE
  BY DEF ToSet
<1>1. a + k \in 1..Len(published) /\ published[i] = published[a + k]
  OBVIOUS
<1>2. i = a + k
  BY <1>1 DEF Once
<1> QED BY <1>2

\* Where the block in hand lies.
LEMMA HandLies ==
    ASSUME ChannelAssumption, TypeOK, Order, hand.pc = "send"
    PROVE  /\ hand.ids \in Seq(Ids) /\ hand.ids # <<>> /\ Len(hand.ids) \in Nat
           /\ At(published, hand.ids) \in Nat /\ At(published, hand.ids) - 1 \in Nat
           /\ At(published, hand.ids) - 1 + Len(hand.ids) = Taken
           /\ \A k \in 1..Len(hand.ids) :
                  /\ At(published, hand.ids) - 1 + k \in 1..Len(published)
                  /\ hand.ids[k] = published[At(published, hand.ids) - 1 + k]
<1>1. hand.ids \in Seq(Ids) /\ Len(hand.ids) \in Nat /\ Len(published) \in Nat
  BY DEF TypeOK
<1> DEFINE a == At(published, hand.ids)
<1>2. /\ hand.ids # <<>> /\ a \in 1..Len(published) /\ a + Len(hand.ids) - 1 <= Len(published)
      /\ a + Len(hand.ids) - 1 = Taken
      /\ \A k \in 1..Len(hand.ids) : hand.ids[k] = published[a + k - 1]
  BY DEF Order, InHand, Block, Through
<1> HIDE DEF a
<1>3. \A k \in 1..Len(hand.ids) : a - 1 + k \in 1..Len(published) /\ a - 1 + k = a + k - 1
  BY <1>1, <1>2
<1>4. \A k \in 1..Len(hand.ids) : hand.ids[k] = published[a - 1 + k]
  BY <1>2, <1>3
<1>5. a - 1 \in Nat /\ a - 1 + Len(hand.ids) = Taken
  BY <1>1, <1>2
<1> QED BY <1>1, <1>2, <1>3, <1>4, <1>5 DEF a

\* Publishing keeps what is known of the fates.
LEMMA FatesPublish ==
    ASSUME ChannelAssumption, TypeOK, Order, Fates, NEW p \in Producers, Publish(p)
    PROVE  Fates'
<1>1. PICK id \in Ids :
               /\ published' = Append(published, id)
               /\ fate' = [fate EXCEPT ![id] = "queued"]
               /\ \A i \in 1..Len(published) : published[i] # id
  BY PublishIsNew DEF Order
<1>2. UNCHANGED <<pending, hand, replied>> /\ outbound' = Append(outbound, id)
  BY PublishIsNew, <1>1 DEF Publish
<1>3. /\ published \in Seq(Ids) /\ Len(published) \in Nat /\ Len(pending) \in Nat
      /\ outbound \in Seq(Ids) /\ Len(outbound) \in Nat /\ hand.ids \in Seq(Ids)
      /\ DOMAIN fate = Ids
  BY DEF TypeOK
<1>4. /\ Len(published') = Len(published) + 1 /\ published'[Len(published) + 1] = id
      /\ \A i \in 1..Len(published) : published'[i] = published[i]
      /\ Len(outbound') = Len(outbound) + 1
  BY <1>1, <1>2, <1>3
<1>5. Taken' = Taken
  BY <1>2, <1>3, <1>4 DEF Taken
<1>6. fate[id] = "none" /\ fate'[id] = "queued" /\ \A x \in Ids \ {id} : fate'[x] = fate[x]
  BY <1>1, <1>3 DEF Fates, Known
<1>7. Known'
  <2>1. ASSUME NEW x \in Ids, fate'[x] # "none" PROVE \E i \in 1..Len(published') : published'[i] = x
    <3>1. CASE x = id
      BY <1>3, <1>4, <3>1
    <3>2. CASE x # id
      <4>1. PICK i \in 1..Len(published) : published[i] = x
        BY <1>6, <2>1, <3>2 DEF Fates, Known
      <4> QED BY <1>3, <1>4, <4>1
    <3> QED BY <3>1, <3>2
  <2> QED BY <2>1 DEF Known
<1>13. hand.pc = "send" => At(published', hand.ids) = At(published, hand.ids)
  <2>1. \A x, y \in 1..Len(published) : published[x] = published[y] => x = y
    BY DEF Order, Once
  <2>2. hand.pc = "send" => Block(published, hand.ids)
    BY DEF Order, InHand
  <2>3. published \in Seq(Ids) /\ \A k \in 1..Len(published) : published[k] # id
    BY <1>1, <1>3
  <2>4. hand.ids \in Seq(Ids)
    BY <1>3
  <2>5. hand.pc = "send" => At(Append(published, id), hand.ids) = At(published, hand.ids)
    BY <2>1, <2>2, <2>3, <2>4, BlockStays
  <2> QED BY <1>1, <2>5
<1>8. Unsettled'
  <2> SUFFICES ASSUME NEW i \in 1..Len(published'),
                      \/ i > Taken
                      \/ hand.pc = "send" /\ i >= At(published', hand.ids)
               PROVE  fate'[published'[i]] = "queued"
    BY <1>2, <1>5 DEF Unsettled
  <2>1. CASE i = Len(published) + 1
    BY <1>4, <1>6, <2>1
  <2>2. CASE i # Len(published) + 1
    <3>1. i \in 1..Len(published) /\ published'[i] = published[i] /\ published[i] # id
      BY <1>1, <1>3, <1>4, <2>2
    <3>2. published[i] \in Ids
      BY <1>3, <3>1, Element
    <3>4. fate[published[i]] = "queued"
      BY <3>1, <1>13 DEF Fates, Unsettled
    <3> QED BY <1>6, <3>1, <3>2, <3>4
  <2> QED BY <2>1, <2>2
<1>12. Settled'
  <2> SUFFICES ASSUME NEW i \in 1..Len(published'), fate'[published'[i]] = "queued",
                      hand.pc # "ended"
               PROVE  i > Taken \/ (hand.pc = "send" /\ i >= At(published', hand.ids))
    BY <1>2, <1>5 DEF Settled
  <2>1. CASE i = Len(published) + 1
    <3>1. Taken <= Len(published)
      BY <1>3 DEF Taken
    <3> QED BY <1>3, <2>1, <3>1 DEF Taken
  <2>2. CASE i # Len(published) + 1
    <3>1. i \in 1..Len(published) /\ published'[i] = published[i] /\ published[i] # id
      BY <1>1, <1>3, <1>4, <2>2
    <3>2. published[i] \in Ids
      BY <1>3, <3>1, Element
    <3>3. i > Taken \/ (hand.pc = "send" /\ i >= At(published, hand.ids))
      BY <1>6, <3>1, <3>2 DEF Fates, Settled
    <3> QED BY <1>13, <3>3
  <2> QED BY <2>1, <2>2
<1>9. \A x \in Ids : Copied(x) => Copied(x)'
  BY <1>2, <1>6 DEF Copied
<1>10. Fingerprinted'
  BY <1>2, <1>9 DEF Fates, Fingerprinted, Stamped, Msg
<1>11. OnlyRepetitions'
  BY <1>2, <1>6 DEF Fates, OnlyRepetitions, Msg
<1> QED BY <1>7, <1>8, <1>10, <1>11, <1>12 DEF Fates

\* So does a round: what it takes had no fate, and what it suppresses repeats a copy.
LEMMA FatesDispatch ==
    ASSUME ChannelAssumption, TypeOK, Order, Fates, Dispatch
    PROVE  Fates'
<1>1. PICK ids \in Seq(Ids) :
               /\ ids # <<>> /\ Handle(ids) /\ Taken' = Taken + Len(ids)
               /\ outbound' \in Seq(Ids) /\ pending' \in Seq(Ids)
               /\ \A k \in 1..Len(ids) : ids[k] = published[Taken + k]
               /\ Msg(ids[1]).kind # "delta" => Len(ids) = 1
  BY DispatchTakes DEF Order
<1>2. UNCHANGED <<published, shown>> /\ hand.pc = "ready"
  BY DEF Dispatch
<1>3. /\ published \in Seq(Ids) /\ Len(published) \in Nat /\ DOMAIN fate = Ids
      /\ Len(ids) \in Nat /\ Len(ids) >= 1 /\ DOMAIN ids = 1..Len(ids)
      /\ Taken \in Nat /\ Taken + Len(ids) <= Len(published)
      /\ ids[1] \in Ids /\ ids[1] \in ToSet(ids)
  <2>1. Taken \in Int /\ Taken >= 0 /\ published \in Seq(Ids) /\ DOMAIN fate = Ids
    BY DEF TypeOK, Order, Waiting, Taken
  <2>2. Taken' <= Len(published)
    BY <1>1, <1>2, <2>1 DEF Taken
  <2>3. Len(ids) \in Nat /\ Len(ids) >= 1 /\ DOMAIN ids = 1..Len(ids)
    BY <1>1
  <2>4. ids[1] \in Ids /\ ids[1] \in ToSet(ids)
    BY <1>1, <2>3, Element DEF ToSet
  <2> QED BY <1>1, <2>1, <2>2, <2>3, <2>4
<1>4. \A k \in 1..Len(ids) : Taken + k \in 1..Len(published) /\ ids[k] = published[Taken + k]
  BY <1>1, <1>3
<1>5. \A i \in 1..Len(published) : i > Taken => fate[published[i]] = "queued"
  BY DEF Fates, Unsettled
<1>6. \A id \in ToSet(ids) : fate[id] = "queued"
  BY <1>3, <1>4, <1>5, BlockQueued
<1>7. \A i \in 1..Len(published) : i > Taken' => published[i] \notin ToSet(ids)
  BY <1>1, <1>3, <1>4, BlockBefore DEF Order
<1>8. \A id \in Ids : Copied(id) => fate[id] \in {"sent", "given_up"}
  BY <1>2 DEF Copied
<1>9. ASSUME NEW f \in {"muted", "no_channel", "suppressed"}, fate' = Settle(ids, f),
             hand' = NoHand, UNCHANGED replied,
             f = "suppressed" => Len(ids) = 1 /\ Suppressed(Msg(ids[1]))
      PROVE  Fates'
  <2>1. /\ \A id \in Ids : id \in ToSet(ids) => fate'[id] = f
        /\ \A id \in Ids : id \notin ToSet(ids) => fate'[id] = fate[id]
    BY <1>9, SettleIs
  <2>2. Known'
    BY <1>2, <1>6, <2>1 DEF Fates, Known
  <2>3. Unsettled'
    <3> SUFFICES ASSUME NEW i \in 1..Len(published), i > Taken' PROVE fate'[published[i]] = "queued"
      BY <1>2, <1>9 DEF Unsettled, NoHand
    <3>1. i > Taken /\ published[i] \in Ids /\ published[i] \notin ToSet(ids)
      BY <1>1, <1>3, <1>7, Element
    <3> QED BY <1>5, <2>1, <3>1
  <2>8. Settled'
    <3> SUFFICES ASSUME NEW i \in 1..Len(published), fate'[published[i]] = "queued"
                 PROVE  i > Taken'
      BY <1>2 DEF Settled
    <3>1. published[i] \in Ids /\ published[i] \notin ToSet(ids) /\ i > Taken
      <4>1. published[i] \in Ids
        BY <1>3, Element
      <4> QED BY <1>2, <1>9, <2>1, <4>1 DEF Fates, Settled
    <3>2. CASE i <= Taken + Len(ids)
      <4>1. i - Taken \in 1..Len(ids) /\ Taken + (i - Taken) = i
        BY <1>3, <3>1, <3>2
      <4>2. ids[i - Taken] = published[i]
        BY <1>4, <4>1
      <4> QED BY <1>3, <3>1, <4>1, <4>2 DEF ToSet
    <3> QED BY <1>1, <1>3, <3>2
  <2>4. \A id \in Ids : fate[id] \in {"sent", "given_up"} => fate'[id] = fate[id]
    BY <1>6, <2>1
  <2>5. \A id \in Ids : Copied(id) => Copied(id)'
    BY <1>8, <2>4 DEF Copied
  <2>6. Fingerprinted'
    BY <1>9, <2>5 DEF Fates, Fingerprinted, Stamped, Msg
  <2>7. OnlyRepetitions'
    <3> SUFFICES ASSUME NEW id \in Ids, fate'[id] = "suppressed"
                 PROVE  \E other \in Ids :
                            /\ fate'[other] \in {"sent", "given_up"}
                            /\ Msg(other).chat = Msg(id).chat /\ Msg(other).text = Msg(id).text
                            /\ Msg(id).origin \in {Msg(other).message_id, Msg(other).origin} \ {None}
      BY DEF OnlyRepetitions, Msg
    <3>1. CASE id \notin ToSet(ids)
      BY <1>2, <2>1, <2>4, <3>1 DEF Fates, OnlyRepetitions
    <3>2. CASE id \in ToSet(ids)
      <4>1. f = "suppressed" /\ id = ids[1]
        BY <1>3, <1>9, <2>1, <3>2 DEF ToSet
      <4> DEFINE m == Msg(id)
                 k == <<m.channel, m.chat, m.origin, m.text>>
      <4>2. m.origin # None /\ k \in replied
        BY <1>9, <4>1 DEF Suppressed
      <4>3. PICK other \in Ids : Stamped(other, k) /\ Copied(other)
        BY <4>2 DEF Fates, Fingerprinted
      <4>4. /\ m.origin \in {Msg(other).origin, Msg(other).message_id} \ {None}
            /\ m.chat = Msg(other).chat /\ m.text = Msg(other).text
        BY <4>3 DEF Stamped
      <4> HIDE DEF m, k
      <4>5. fate'[other] \in {"sent", "given_up"}
        BY <1>8, <2>4, <4>3
      <4> QED BY <4>4, <4>5 DEF m
    <3> QED BY <3>1, <3>2
  <2> QED BY <2>2, <2>3, <2>6, <2>7, <2>8 DEF Fates
<1>10. ASSUME NEW i, fate' = fate,
              hand' = [pc |-> "send", ids |-> ids, inst |-> i, attempt |-> 1],
              replied' = IF Msg(ids[1]).kind = "plain" THEN Fingerprints(Msg(ids[1])) ELSE replied
       PROVE  Fates'
  <2>1. Known'
    BY <1>2, <1>10 DEF Fates, Known
  <2>2. At(published, ids) = Taken + 1
    <3>1. \A x, y \in 1..Len(published) : published[x] = published[y] => x = y
      BY DEF Order, Once
    <3>2. Taken + 1 \in 1..Len(published) /\ ids[1] = published[Taken + 1]
      <4>1. 1 \in 1..Len(ids)
        BY <1>3
      <4> QED BY <1>4, <4>1
    <3>3. DOMAIN published = 1..Len(published)
      BY <1>3
    <3> QED BY <1>3, <3>1, <3>2, <3>3, PlaceIs DEF At
  <2>3. Unsettled'
    <3> SUFFICES ASSUME NEW j \in 1..Len(published),
                        j > Taken' \/ j >= At(published, ids)
                 PROVE  fate[published[j]] = "queued"
      BY <1>2, <1>10 DEF Unsettled
    <3>1. j > Taken
      BY <1>1, <1>3, <2>2
    <3> QED BY <1>5, <3>1
  <2>8. Settled'
    <3> SUFFICES ASSUME NEW j \in 1..Len(published), fate[published[j]] = "queued"
                 PROVE  j >= At(published, ids)
      BY <1>2, <1>10 DEF Settled
    <3>1. j > Taken
      BY <1>2 DEF Fates, Settled
    <3> QED BY <1>3, <2>2, <3>1
  <2>4. \A id \in Ids : Copied(id) => Copied(id)'
    BY <1>8, <1>10 DEF Copied
  <2>5. Copied(ids[1])'
    BY <1>10 DEF Copied
  <2>6. Fingerprinted'
    <3> SUFFICES ASSUME NEW k \in replied' PROVE \E id \in Ids : Stamped(id, k) /\ Copied(id)'
      BY DEF Fingerprinted, Stamped, Msg
    <3>1. CASE k \in replied
      BY <2>4, <3>1 DEF Fates, Fingerprinted
    <3>2. CASE k \notin replied
      <4> DEFINE m == Msg(ids[1])
      <4>1. k \in {<<m.channel, m.chat, o, m.text>> : o \in {m.origin, m.message_id} \ {None}}
        BY <1>10, <3>2 DEF Fingerprints
      <4>2. PICK o \in {m.origin, m.message_id} \ {None} : k = <<m.channel, m.chat, o, m.text>>
        BY <4>1
      <4>3. k[3] = o
        BY <4>2
      <4>4. Stamped(ids[1], k)
        BY <4>2, <4>3 DEF Stamped
      <4> QED BY <1>3, <2>5, <4>4
    <3> QED BY <3>1, <3>2
  <2>7. OnlyRepetitions'
    BY <1>2, <1>10 DEF Fates, OnlyRepetitions, Msg
  <2> QED BY <2>1, <2>3, <2>6, <2>7, <2>8 DEF Fates
<1>11. Msg(ids[1]).kind = "plain" => Len(ids) = 1
  BY <1>1
<1>12. \/ \E f \in {"muted", "no_channel", "suppressed"} :
              /\ fate' = Settle(ids, f) /\ hand' = NoHand /\ UNCHANGED replied
              /\ f = "suppressed" => Msg(ids[1]).kind = "plain" /\ Suppressed(Msg(ids[1]))
       \/ \E i : /\ fate' = fate
                 /\ hand' = [pc |-> "send", ids |-> ids, inst |-> i, attempt |-> 1]
                 /\ replied' = IF Msg(ids[1]).kind = "plain" THEN Fingerprints(Msg(ids[1]))
                                                             ELSE replied
  <2> HIDE DEF Suppressed, Fingerprints, Settle, Msg
  <2> QED BY <1>1 DEF Handle
<1> QED BY <1>9, <1>10, <1>11, <1>12

\* So does an attempt: the block in hand, and nothing else, is settled.
LEMMA FatesSend ==
    ASSUME ChannelAssumption, TypeOK, Order, Fates, NEW o \in Outcomes, Send(o)
    PROVE  Fates'
<1>1. /\ UNCHANGED <<published, outbound, pending, replied>> /\ hand.pc = "send"
  BY DEF Send
<1> DEFINE ids == hand.ids
           a == At(published, ids) - 1
<1>2. /\ ids \in Seq(Ids) /\ ids # <<>> /\ Len(ids) \in Nat
      /\ a \in Nat /\ a + Len(ids) = Taken /\ At(published, ids) \in Nat
      /\ \A k \in 1..Len(ids) : a + k \in 1..Len(published) /\ ids[k] = published[a + k]
  BY <1>1, HandLies
<1>3. /\ published \in Seq(Ids) /\ Len(published) \in Nat /\ DOMAIN fate = Ids
      /\ DOMAIN ids = 1..Len(ids) /\ ids[1] \in Ids /\ ids[1] \in ToSet(ids)
  <2>1. published \in Seq(Ids) /\ Len(published) \in Nat /\ DOMAIN fate = Ids
    BY DEF TypeOK
  <2> HIDE DEF ids
  <2>2. DOMAIN ids = 1..Len(ids) /\ 1 \in 1..Len(ids)
    BY <1>2
  <2> QED BY <1>2, <2>1, <2>2, Element DEF ToSet
<1>4. \A i \in 1..Len(published) : i > a => fate[published[i]] = "queued"
  <2>1. \A i \in 1..Len(published) : i > a => i >= At(published, ids)
    BY <1>2
  <2> QED BY <1>1, <2>1 DEF Fates, Unsettled
<1> HIDE DEF a
<1>5. \A id \in ToSet(ids) : fate[id] = "queued"
  BY <1>2, <1>4, BlockQueued
<1>6. \A i \in 1..Len(published) : i > Taken => published[i] \notin ToSet(ids)
  BY <1>2, <1>3, BlockBefore DEF Order
<1>7. Taken' = Taken
  BY <1>1 DEF Taken
<1>8. ASSUME NEW f \in {"sent", "given_up"}, fate' = Settle(ids, f), hand' = NoHand
      PROVE  Fates'
  <2>1. /\ \A id \in Ids : id \in ToSet(ids) => fate'[id] = f
        /\ \A id \in Ids : id \notin ToSet(ids) => fate'[id] = fate[id]
    BY <1>8, SettleIs
  <2>2. Known'
    BY <1>1, <1>5, <2>1 DEF Fates, Known
  <2>3. Unsettled'
    <3> SUFFICES ASSUME NEW i \in 1..Len(published), i > Taken PROVE fate'[published[i]] = "queued"
      BY <1>1, <1>7, <1>8 DEF Unsettled, NoHand
    <3>1. published[i] \in Ids /\ published[i] \notin ToSet(ids)
      BY <1>3, <1>6, Element
    <3>2. fate[published[i]] = "queued"
      BY DEF Fates, Unsettled
    <3> QED BY <2>1, <3>1, <3>2
  <2>10. Settled'
    <3> SUFFICES ASSUME NEW i \in 1..Len(published), fate'[published[i]] = "queued"
                 PROVE  i > Taken
      BY <1>1, <1>7 DEF Settled
    <3>1. published[i] \in Ids
      BY <1>3, Element
    <3>2. published[i] \notin ToSet(ids) /\ fate[published[i]] = "queued"
      BY <1>8, <2>1, <3>1
    <3>3. CASE i > a /\ i <= Taken
      <4>1. i - a \in 1..Len(ids) /\ a + (i - a) = i
        BY <1>2, <3>3
      <4>2. ids[i - a] = published[i]
        BY <1>2, <4>1
      <4> QED BY <1>3, <3>2, <4>1, <4>2 DEF ToSet
    <3>4. i > Taken \/ i > a
      BY <1>1, <1>2, <3>2 DEF Fates, Settled, a
    <3> QED BY <1>2, <3>3, <3>4
  <2>4. \A id \in Ids : fate[id] \in {"sent", "given_up", "suppressed"} => fate'[id] = fate[id]
    BY <1>5, <2>1
  <2>5. fate'[ids[1]] \in {"sent", "given_up"}
    BY <1>3, <2>1
  <2>6. \A id \in Ids : Copied(id) => Copied(id)'
    BY <1>1, <2>4, <2>5 DEF Copied
  <2>7. Fingerprinted'
    BY <1>1, <2>6 DEF Fates, Fingerprinted, Stamped, Msg
  <2>8. \A id \in Ids : fate'[id] = "suppressed" => fate[id] = "suppressed"
    BY <1>8, <2>1
  <2>9. OnlyRepetitions'
    BY <1>1, <2>4, <2>8 DEF Fates, OnlyRepetitions, Msg
  <2> QED BY <2>2, <2>3, <2>7, <2>9, <2>10 DEF Fates
<1>9. ASSUME fate' = fate, hand'.pc = "ended" \/ (hand'.pc = "send" /\ hand'.ids = ids)
      PROVE  Fates'
  <2>1. Known' /\ OnlyRepetitions'
    BY <1>1, <1>9 DEF Fates, Known, OnlyRepetitions, Msg
  <2>2. Unsettled' /\ Settled'
    BY <1>1, <1>7, <1>9 DEF Fates, Unsettled, Settled
  <2>3. \A id \in Ids : Copied(id) => Copied(id)'
    BY <1>1, <1>9 DEF Copied
  <2>4. Fingerprinted'
    BY <1>1, <2>3 DEF Fates, Fingerprinted, Stamped, Msg
  <2> QED BY <2>1, <2>2, <2>4 DEF Fates
<1>10. \/ hand' = NoHand /\ \E f \in {"sent", "given_up"} : fate' = Settle(ids, f)
       \/ fate' = fate /\ (hand'.pc = "ended" \/ (hand'.pc = "send" /\ hand'.ids = ids))
  <2>1. DOMAIN hand = {"pc", "ids", "inst", "attempt"}
    BY DEF TypeOK
  <2> QED BY <1>1, <2>1 DEF Send, NoHand
<1> QED BY <1>8, <1>9, <1>10

\* Every step keeps what is known of the fates.
LEMMA FatesStep ==
    ASSUME ChannelAssumption, TypeOK, Order, Fates, [Next]_vars
    PROVE  Fates'
<1>1. CASE \E p \in Producers : Publish(p)
  BY <1>1, FatesPublish
<1>2. CASE Dispatch
  BY <1>2, FatesDispatch
<1>3. CASE \E o \in Outcomes : Send(o)
  BY <1>3, FatesSend
<1>4. CASE /\ UNCHANGED <<published, outbound, pending, replied, fate>>
           /\ hand' = hand \/ hand'.pc = "ended"
  <2>1. \A id \in Ids : Copied(id) => Copied(id)'
    BY <1>4 DEF Copied
  <2>2. Fingerprinted'
    BY <1>4, <2>1 DEF Fates, Fingerprinted, Stamped, Msg
  <2>3. Known' /\ Unsettled' /\ Settled'
    BY <1>4 DEF Fates, Known, Unsettled, Settled, Taken
  <2>4. OnlyRepetitions'
    BY <1>4 DEF Fates, OnlyRepetitions, Msg
  <2> QED BY <2>2, <2>3, <2>4 DEF Fates
<1>5. StopAll => hand'.pc = "ended"
  BY DEF StopAll, NoHand
<1> QED BY <1>1, <1>2, <1>3, <1>4, <1>5
        DEF Next, vars, delivery, StartAll, StartEnds, Enable, Disable, Replaced, Removed,
            Dropped, StopAll, StopNext, Stopped

----------------------------------------------------------------------------
(* The theorems of the delivery side. *)

\* It all holds at the start.
LEMMA DeliveryInit ==
    ASSUME ChannelAssumption, Init
    PROVE  TypeOK /\ Order /\ Fates
<1>1. /\ published = <<>> /\ outbound = <<>> /\ pending = <<>> /\ shown = <<>>
      /\ hand = NoHand /\ replied = {} /\ fate = [id \in Ids |-> "none"]
  BY DEF Init
<1>2. /\ 0 \in 0..MaxInstances /\ 1 \in 0..MaxInstances /\ 0 \in 0..MaxAttempts
      /\ <<>> \in Seq(Ids) /\ <<>> \in Seq(Seq(Ids)) /\ Len(<<>>) = 0
  BY DEF ChannelAssumption
<1>3. TypeOK
  <2>1. hand \in [pc : {"ready", "send", "ended"}, ids : Seq(Ids),
                  inst : 0..MaxInstances, attempt : 0..MaxAttempts]
    BY <1>1, <1>2 DEF NoHand
  <2>2. call \in [Everyone -> [pc : {"idle", "replace", "remove", "next", "stop"},
                             name : Names \cup {None}, old : 0..MaxInstances,
                             task : 0..MaxInstances, new : 0..MaxInstances]]
    BY <1>2 DEF Init, Idle
  <2>3. /\ channels \in [Names -> 0..MaxInstances] /\ tasks \in [Names -> 0..MaxInstances]
        /\ instance \in [Names -> [1..MaxInstances -> {"none", "built", "live", "ended"}]]
        /\ started \in BOOLEAN /\ todo \subseteq Names
        /\ forsaken \subseteq (Names \cup {None}) \X (1..MaxInstances)
    BY <1>2 DEF Init
  <2> QED BY <1>1, <1>2, <2>1, <2>2, <2>3 DEF TypeOK
<1>4. Order
  BY <1>1, <1>2 DEF Order, Numbered, Once, Waiting, Taken, Blocks, InHand, NoHand
<1>5. Fates
  BY <1>1, <1>2 DEF Fates, Known, Unsettled, Settled, Fingerprinted, OnlyRepetitions, NoHand
<1> QED BY <1>3, <1>4, <1>5

\* The invariant of the delivery side.
LEMMA DeliveryInvariant == Spec => [](TypeOK /\ Order /\ Fates)
<1>1. Init => TypeOK /\ Order /\ Fates
  BY DeliveryInit, ChannelAssumption
<1>2. TypeOK /\ Order /\ Fates /\ [Next]_vars => (TypeOK /\ Order /\ Fates)'
  BY TypeStep, OrderStep, FatesStep, ChannelAssumption DEF Order
<1> QED BY <1>1, <1>2, PTL DEF Spec

\* Type correctness of the dispatcher and of the instances it sends through.
THEOREM ChannelTypes == Spec => []TypeOK
BY DeliveryInvariant, PTL

\* Whatever is merged, put aside, retried or suppressed, what a channel puts out is in
\* the order of publication, and a merged block has no hole: _dispatch_outbound.
THEOREM ShownInOrder == Spec => []InOrder
<1>1. TypeOK /\ Order => InOrder
  BY OrderIsInOrder, ChannelAssumption
<1> QED BY <1>1, DeliveryInvariant, PTL

\* What _should_suppress_outbound drops repeats a message of which a channel had been
\* given a copy, in the same chat and about the same message.
THEOREM SuppressedRepeats == Spec => []OnlyRepetitions
<1>1. Fates => OnlyRepetitions
  BY DEF Fates
<1> QED BY <1>1, DeliveryInvariant, PTL

\* A message without a fate waits in the queue, was put aside by coalescing or is in
\* hand, unless the dispatcher has ended: none is dropped between two of these.
Accounted ==
    \A id \in Ids : fate[id] = "queued" =>
        \/ id \in ToSet(pending) \cup ToSet(outbound)
        \/ hand.pc = "send" /\ id \in ToSet(hand.ids)
        \/ hand.pc = "ended"

\* By its place: behind what was taken it waits, in what was taken last it is in hand.
LEMMA QueuedIsHeld ==
    ASSUME ChannelAssumption, TypeOK, Order, Fates
    PROVE  Accounted
<1> SUFFICES ASSUME NEW id \in Ids, fate[id] = "queued", hand.pc # "ended"
             PROVE  \/ id \in ToSet(pending) \cup ToSet(outbound)
                    \/ hand.pc = "send" /\ id \in ToSet(hand.ids)
  BY DEF Accounted
<1>1. PICK i \in 1..Len(published) : published[i] = id
  BY DEF Fates, Known
<1>2. /\ Len(pending) \in Nat /\ Len(outbound) \in Nat /\ Taken \in Nat
      /\ DOMAIN pending = 1..Len(pending) /\ DOMAIN outbound = 1..Len(outbound)
      /\ Taken + Len(pending) + Len(outbound) = Len(published) /\ Len(published) \in Nat
  BY DEF TypeOK, Order, Waiting, Taken
<1>3. CASE i > Taken /\ i <= Taken + Len(pending)
  <2>1. i - Taken \in 1..Len(pending) /\ Taken + (i - Taken) = i
    BY <1>2, <1>3
  <2>2. pending[i - Taken] = id
    BY <1>1, <2>1 DEF Order, Waiting
  <2> QED BY <1>2, <2>1, <2>2 DEF ToSet
<1>4. CASE i > Taken + Len(pending)
  <2> DEFINE k == i - (Taken + Len(pending))
  <2>1. k \in 1..Len(outbound) /\ Taken + Len(pending) + k = i
    BY <1>2, <1>4
  <2> HIDE DEF k
  <2>2. outbound[k] = id
    BY <1>1, <2>1 DEF Order, Waiting
  <2> QED BY <1>2, <2>1, <2>2 DEF ToSet
<1>5. CASE i <= Taken
  <2>1. hand.pc = "send" /\ i >= At(published, hand.ids)
    BY <1>1, <1>2, <1>5 DEF Fates, Settled
  <2> DEFINE a == At(published, hand.ids) - 1
             k == i - a
  <2>2. /\ hand.ids \in Seq(Ids) /\ a \in Nat /\ a + Len(hand.ids) = Taken
        /\ At(published, hand.ids) \in Nat /\ Len(hand.ids) \in Nat
        /\ \A j \in 1..Len(hand.ids) : hand.ids[j] = published[a + j]
    BY <2>1, HandLies
  <2>3. k \in 1..Len(hand.ids) /\ a + k = i
    BY <1>5, <2>1, <2>2
  <2> HIDE DEF a, k
  <2>4. hand.ids[k] = id /\ DOMAIN hand.ids = 1..Len(hand.ids)
    BY <1>1, <2>2, <2>3
  <2> QED BY <2>1, <2>3, <2>4 DEF ToSet
<1> QED BY <1>2, <1>3, <1>4, <1>5

\* So no published message is lost between the queue, the side and the hand.
THEOREM NothingStranded == Spec => []Accounted
BY QueuedIsHeld, DeliveryInvariant, ChannelAssumption, PTL

----------------------------------------------------------------------------
(* Who owns a running instance. *)

\* No two settings requests wait for the same channel at once.  Nothing in
\* apply_channel_feature_action sees to it: of two that overlap on one name, the
\* second replaces what the first has just started, and nobody stops that.
Apart ==
    \A c, d \in Callers :
        call[c].pc # "idle" /\ call[d].pc # "idle" /\ call[c].name = call[d].name => c = d

\* A request that waits has taken the task of a registered channel.
Waits(c) ==
    /\ call[c].pc \in {"replace", "remove"}
    /\ call[c].name \in Names
    /\ channels[call[c].name] # 0 /\ tasks[call[c].name] = 0
    /\ call[c].pc = "replace" => call[c].new # 0
Requests ==
    /\ \A c \in Callers : call[c] = Idle \/ Waits(c)
    /\ \/ call["stop_all"] \in {Idle, [Idle EXCEPT !.pc = "next"]}
       \/ call["stop_all"].pc = "stop"

\* Before the manager starts nothing runs and nobody asks for anything.
Before ==
    ~started /\ call["stop_all"].pc = "idle" =>
        /\ \A c \in Callers : call[c] = Idle
        /\ \A n \in Names, i \in 1..MaxInstances : ~Alive(n, i)

Runs == Requests /\ Before /\ Owned

\* Who is idle, or between two channels of stop_all, stops nothing.
LEMMA IdleFacts ==
    /\ Idle.pc = "idle" /\ Idle.task = 0
    /\ [Idle EXCEPT !.pc = "next"].pc = "next" /\ [Idle EXCEPT !.pc = "next"].task = 0
BY DEF Idle

\* Beginning to stop a channel takes its instance over with its task.
LEMMA BeginKeepsOwned ==
    ASSUME ChannelAssumption, TypeOK, Owned, NEW c \in Everyone, NEW n \in Names,
           NEW pc, NEW new, BeginStop(c, n, pc, new), call[c].task = 0,
           channels' = channels, forsaken' = forsaken,
           \A m \in Names, i \in 1..MaxInstances : Alive(m, i)' => Alive(m, i),
           \A m \in Names \ {n} : started \/ m \in todo => started' \/ m \in todo'
    PROVE  Owned'
<1> SUFFICES ASSUME NEW m \in Names, NEW i \in 1..MaxInstances, Alive(m, i)'
             PROVE  \/ Stopping(m, i)'
                    \/ channels'[m] = i /\ tasks'[m] = i /\ (started' \/ m \in todo')
                    \/ <<m, i>> \in forsaken
  BY DEF Owned, Alive, Stopping
<1>1. \/ Stopping(m, i)
      \/ channels[m] = i /\ tasks[m] = i /\ (started \/ m \in todo)
      \/ <<m, i>> \in forsaken
  BY DEF Owned
<1>2. /\ call' = [call EXCEPT ![c] = [pc |-> pc, name |-> n, old |-> channels[n],
                                     task |-> tasks[n], new |-> new]]
      /\ tasks' = [tasks EXCEPT ![n] = 0]
      /\ DOMAIN call = Everyone /\ DOMAIN tasks = Names
  BY DEF BeginStop, TypeOK
<1>3. call'[c].name = n /\ call'[c].task = tasks[n]
      /\ \A d \in Everyone \ {c} : call'[d] = call[d]
  BY <1>2
<1>4. CASE Stopping(m, i)
  <2>1. PICK d \in Everyone : call[d].name = m /\ call[d].task = i
    BY <1>4 DEF Stopping
  <2>2. d # c
    BY <2>1
  <2> QED BY <1>3, <2>1, <2>2 DEF Stopping
<1>5. CASE channels[m] = i /\ tasks[m] = i /\ (started \/ m \in todo)
  <2>1. CASE m = n
    BY <1>3, <1>5, <2>1 DEF Stopping
  <2>2. CASE m # n
    BY <1>2, <1>5, <2>2
  <2> QED BY <2>1, <2>2
<1> QED BY <1>1, <1>4, <1>5

\* An instance that is alive when a stop is through was not the one it stopped.
LEMMA HaltedStops ==
    ASSUME ChannelAssumption, TypeOK, NEW c \in Everyone,
           NEW m \in Names, NEW i \in 1..MaxInstances, Halted(c)[m][i] = "live"
    PROVE  Alive(m, i) /\ ~(call[c].name = m /\ call[c].task = i)
<1>1. /\ instance \in [Names -> [1..MaxInstances -> {"none", "built", "live", "ended"}]]
      /\ call[c].task \in 0..MaxInstances
  BY DEF TypeOK
<1>2. CASE call[c].task = 0
  BY <1>1, <1>2 DEF Halted, Alive
<1>3. CASE call[c].task # 0
  BY <1>1, <1>3 DEF Halted, Alive
<1> QED BY <1>2, <1>3

\* When a stop is through, somebody else's, or the owner's, are still theirs.
LEMMA HaltedOwned ==
    ASSUME ChannelAssumption, TypeOK, Owned, NEW c \in Everyone, NEW k, k.task = 0,
           call' = [call EXCEPT ![c] = k],
           NEW m \in Names, NEW i \in 1..MaxInstances, Halted(c)[m][i] = "live"
    PROVE  \/ Stopping(m, i)'
           \/ channels[m] = i /\ tasks[m] = i /\ (started \/ m \in todo)
           \/ <<m, i>> \in forsaken
<1>1. Alive(m, i) /\ ~(call[c].name = m /\ call[c].task = i)
  BY HaltedStops
<1>2. DOMAIN call = Everyone
  BY DEF TypeOK
<1>3. ASSUME Stopping(m, i) PROVE Stopping(m, i)'
  <2>1. PICK d \in Everyone : call[d].name = m /\ call[d].task = i
    BY <1>3 DEF Stopping
  <2>2. d # c
    BY <1>1, <2>1
  <2> QED BY <1>2, <2>1, <2>2 DEF Stopping
<1> QED BY <1>1, <1>3 DEF Owned

\* The new instance under a free name, or one whose task was taken over, is owned.
LEMMA RegisterOwned ==
    ASSUME ChannelAssumption, TypeOK, NEW n \in Names, NEW i \in 1..MaxInstances,
           NEW inst \in [Names -> [1..MaxInstances -> {"none", "built", "live", "ended"}]],
           Register(n, i, inst),
           channels[n] = 0 \/ tasks[n] = 0, UNCHANGED <<started, todo, forsaken>>,
           \A m \in Names, j \in 1..MaxInstances : inst[m][j] = "live" =>
               \/ Stopping(m, j)'
               \/ channels[m] = j /\ tasks[m] = j /\ (started \/ m \in todo)
               \/ <<m, j>> \in forsaken
    PROVE  Owned'
<1>1. /\ DOMAIN channels = Names /\ DOMAIN tasks = Names
      /\ channels' = [channels EXCEPT ![n] = i]
      /\ tasks' = IF started THEN [tasks EXCEPT ![n] = i] ELSE tasks
      /\ instance' = IF started THEN [inst EXCEPT ![n][i] = "live"] ELSE inst
  BY DEF Register, TypeOK
<1> SUFFICES ASSUME NEW m \in Names, NEW j \in 1..MaxInstances, Alive(m, j)'
             PROVE  \/ Stopping(m, j)'
                    \/ channels'[m] = j /\ tasks'[m] = j /\ (started' \/ m \in todo')
                    \/ <<m, j>> \in forsaken
  BY DEF Owned, Alive, Stopping
<1>2. CASE started /\ m = n /\ j = i
  BY <1>1, <1>2
<1>3. CASE ~(started /\ m = n /\ j = i)
  <2>1. inst[m][j] = "live"
    BY <1>1, <1>3 DEF Alive
  <2>2. \/ Stopping(m, j)'
        \/ channels[m] = j /\ tasks[m] = j /\ (started \/ m \in todo)
        \/ <<m, j>> \in forsaken
    BY <2>1
  <2>3. CASE channels[m] = j /\ tasks[m] = j /\ (started \/ m \in todo)
    <3>1. m # n
      BY <2>3
    <3> QED BY <1>1, <2>3, <3>1
  <2> QED BY <2>2, <2>3
<1> QED BY <1>2, <1>3

\* One's own request changes nobody else's.
LEMMA OthersCall ==
    ASSUME ChannelAssumption, TypeOK, NEW c \in Everyone, NEW k,
           call' = [call EXCEPT ![c] = k]
    PROVE  call'[c] = k /\ \A d \in Everyone \ {c} : call'[d] = call[d]
BY DEF TypeOK

\* Enabling keeps the owners: under a free name at once, otherwise the old one is taken over.
LEMMA EnableRuns ==
    ASSUME ChannelAssumption, TypeOK, Runs, NEW c \in Callers, NEW n \in Names, Enable(c, n), Apart'
    PROVE  Runs'
<1>1. PICK i \in 1..MaxInstances :
           /\ instance[n][i] = "none"
           /\ IF channels[n] = 0
              THEN Register(n, i, Built(n, i)) /\ UNCHANGED call
              ELSE BeginStop(c, n, "replace", i) /\ instance' = Built(n, i) /\ UNCHANGED channels
  BY DEF Enable
<1>2. /\ UNCHANGED <<started, todo, forsaken>> /\ c \in Everyone /\ "stop_all" \in Everyone
      /\ call[c].pc = "idle" /\ (started \/ call["stop_all"].pc # "idle")
      /\ c # "stop_all" /\ \A d \in Callers : d \in Everyone /\ d # "stop_all"
  BY DEF Enable, Acting, Everyone, ChannelAssumption
<1>3. call[c] = Idle
  BY <1>2 DEF Runs, Requests, Waits
<1>4. /\ instance \in [Names -> [1..MaxInstances -> {"none", "built", "live", "ended"}]]
      /\ DOMAIN channels = Names /\ DOMAIN tasks = Names
  BY DEF TypeOK
<1>5. /\ Built(n, i) \in [Names -> [1..MaxInstances -> {"none", "built", "live", "ended"}]]
      /\ Built(n, i)[n][i] = "built"
      /\ \A m \in Names, j \in 1..MaxInstances : Built(n, i)[m][j] = "live" => Alive(m, j)
  BY <1>4 DEF Built, Alive
<1>6. CASE channels[n] = 0
  <2>1. Register(n, i, Built(n, i)) /\ UNCHANGED call
    BY <1>1, <1>6
  <2>2. Owned'
    <3>1. \A m \in Names, j \in 1..MaxInstances : Built(n, i)[m][j] = "live" =>
               \/ Stopping(m, j)'
               \/ channels[m] = j /\ tasks[m] = j /\ (started \/ m \in todo)
               \/ <<m, j>> \in forsaken
      BY <1>5, <2>1 DEF Runs, Owned, Stopping
    <3> QED BY <1>2, <1>5, <1>6, <2>1, <3>1, RegisterOwned
  <2>3. ASSUME NEW d \in Callers PROVE call'[d] = Idle \/ Waits(d)'
    <3>1. CASE call[d] = Idle
      BY <2>1, <3>1
    <3>2. CASE Waits(d)
      <4>1. call[d].name # n
        BY <1>6, <3>2 DEF Waits
      <4> QED BY <1>4, <2>1, <3>2, <4>1 DEF Waits, Register
    <3> QED BY <3>1, <3>2 DEF Runs, Requests
  <2>4. Requests'
    BY <2>1, <2>3 DEF Runs, Requests
  <2>5. Before'
    BY <1>2, <2>1 DEF Before
  <2> QED BY <2>2, <2>4, <2>5 DEF Runs
<1>7. CASE channels[n] # 0
  <2>1. BeginStop(c, n, "replace", i) /\ instance' = Built(n, i) /\ UNCHANGED channels
    BY <1>1, <1>7
  <2>2. Owned'
    <3>1. call[c].task = 0
      BY <1>3, IdleFacts
    <3>2. \A m \in Names, j \in 1..MaxInstances : Alive(m, j)' => Alive(m, j)
      BY <1>5, <2>1 DEF Alive
    <3> QED BY <1>2, <2>1, <3>1, <3>2, BeginKeepsOwned DEF Runs
  <2>3. /\ call'[c] = [pc |-> "replace", name |-> n, old |-> channels[n],
                      task |-> tasks[n], new |-> i]
        /\ \A d \in Everyone \ {c} : call'[d] = call[d]
        /\ tasks' = [tasks EXCEPT ![n] = 0]
    BY <1>2, <2>1, OthersCall DEF BeginStop
  <2>4. ASSUME NEW d \in Callers PROVE call'[d] = Idle \/ Waits(d)'
    <3>1. CASE d = c
      BY <1>4, <1>7, <2>1, <2>3, <3>1 DEF Waits
    <3>2. CASE d # c
      <4>1. call'[d] = call[d]
        BY <1>2, <2>3, <3>2
      <4> QED BY <1>4, <2>1, <2>3, <4>1 DEF Runs, Requests, Waits
    <3> QED BY <3>1, <3>2
  <2>5. Requests'
    BY <1>2, <2>3, <2>4 DEF Runs, Requests
  <2>6. Before'
    BY <1>2, <2>3 DEF Before
  <2> QED BY <2>2, <2>5, <2>6 DEF Runs
<1> QED BY <1>6, <1>7

\* So does disabling.
LEMMA DisableRuns ==
    ASSUME ChannelAssumption, TypeOK, Runs, NEW c \in Callers, NEW n \in Names, Disable(c, n)
    PROVE  Runs'
<1>1. /\ UNCHANGED <<channels, instance, started, todo, forsaken>> /\ c \in Everyone /\ channels[n] # 0
      /\ BeginStop(c, n, "remove", 0) /\ "stop_all" \in Everyone
      /\ call[c].pc = "idle" /\ (started \/ call["stop_all"].pc # "idle")
      /\ c # "stop_all" /\ \A d \in Callers : d \in Everyone /\ d # "stop_all"
  BY DEF Disable, Acting, Everyone, ChannelAssumption
<1>2. call[c] = Idle
  BY <1>1 DEF Runs, Requests, Waits
<1>3. DOMAIN channels = Names /\ DOMAIN tasks = Names
  BY DEF TypeOK
<1>4. Owned'
  <2>1. call[c].task = 0
    BY <1>2, IdleFacts
  <2>2. \A m \in Names, j \in 1..MaxInstances : Alive(m, j)' => Alive(m, j)
    BY <1>1 DEF Alive
  <2> QED BY <1>1, <2>1, <2>2, BeginKeepsOwned DEF Runs
<1>5. /\ call'[c] = [pc |-> "remove", name |-> n, old |-> channels[n],
                    task |-> tasks[n], new |-> 0]
      /\ \A d \in Everyone \ {c} : call'[d] = call[d]
      /\ tasks' = [tasks EXCEPT ![n] = 0]
  BY <1>1, OthersCall DEF BeginStop
<1>6. ASSUME NEW d \in Callers PROVE call'[d] = Idle \/ Waits(d)'
  <2>1. CASE d = c
    BY <1>1, <1>3, <1>5, <2>1 DEF Waits
  <2>2. CASE d # c
    <3>1. call'[d] = call[d]
      BY <1>1, <1>5, <2>2
    <3> QED BY <1>1, <1>3, <1>5, <3>1 DEF Runs, Requests, Waits
  <2> QED BY <2>1, <2>2
<1>7. Requests'
  BY <1>1, <1>5, <1>6 DEF Runs, Requests
<1>8. Before'
  BY <1>1, <1>5 DEF Before
<1> QED BY <1>4, <1>7, <1>8 DEF Runs

\* A request ends: what it stopped is over, and nobody else waits for its channel.
LEMMA EndsRuns ==
    ASSUME ChannelAssumption, TypeOK, Runs, Apart, NEW c \in Callers, Replaced(c) \/ Removed(c)
    PROVE  Runs'
<1>1. /\ call' = [call EXCEPT ![c] = Idle] /\ UNCHANGED <<started, todo, forsaken>>
      /\ c \in Everyone /\ c # "stop_all" /\ "stop_all" \in Everyone
      /\ \A d \in Callers : d \in Everyone /\ d # "stop_all"
      /\ call[c].pc \in {"replace", "remove"}
  BY DEF Replaced, Removed, Everyone, ChannelAssumption
<1> DEFINE n == call[c].name
           i == call[c].new
<1>2. /\ Waits(c) /\ call[c] # Idle
      /\ n \in Names /\ channels[n] # 0 /\ tasks[n] = 0
  BY <1>1, IdleFacts DEF Runs, Requests, Waits
<1>3. /\ call'[c] = Idle /\ \A d \in Everyone \ {c} : call'[d] = call[d]
      /\ DOMAIN channels = Names /\ DOMAIN tasks = Names
      /\ Halted(c) \in [Names -> [1..MaxInstances -> {"none", "built", "live", "ended"}]]
      /\ call[c].new \in 0..MaxInstances
  BY <1>1, OthersCall DEF TypeOK, Halted
<1>4. \A m \in Names, j \in 1..MaxInstances : Halted(c)[m][j] = "live" =>
           \/ Stopping(m, j)'
           \/ channels[m] = j /\ tasks[m] = j /\ (started \/ m \in todo)
           \/ <<m, j>> \in forsaken
  BY <1>1, HaltedOwned, IdleFacts DEF Runs
<1>5. \A d \in Callers \ {c} : Waits(d) => call[d].name # n
  <2> SUFFICES ASSUME NEW d \in Callers \ {c}, Waits(d), call[d].name = n PROVE FALSE
    OBVIOUS
  <2>1. call[d].pc # "idle" /\ call[c].pc # "idle"
    BY <1>1 DEF Waits
  <2> QED BY <2>1 DEF Apart
<1>6. Before'
  <2>1. started \/ call["stop_all"].pc # "idle"
    BY <1>2 DEF Runs, Before
  <2> QED BY <1>1, <1>3, <2>1 DEF Before
<1>7. ASSUME \A m \in Names \ {n} : channels'[m] = channels[m] /\ tasks'[m] = tasks[m]
      PROVE  Requests'
  <2>1. ASSUME NEW d \in Callers PROVE call'[d] = Idle \/ Waits(d)'
    <3>1. CASE d = c
      BY <1>3, <3>1
    <3>2. CASE d # c
      <4>1. call'[d] = call[d]
        BY <1>1, <1>3, <3>2
      <4>2. CASE Waits(d)
        BY <1>5, <1>7, <3>2, <4>1, <4>2 DEF Waits
      <4> QED BY <4>1, <4>2 DEF Runs, Requests
    <3> QED BY <3>1, <3>2
  <2>2. call'["stop_all"] = call["stop_all"]
    BY <1>1, <1>3
  <2> QED BY <2>1, <2>2 DEF Runs, Requests
<1>8. CASE Replaced(c)
  <2>1. Register(n, i, Halted(c)) /\ i \in 1..MaxInstances
    BY <1>2, <1>3, <1>8 DEF Replaced, Waits
  <2>2. Requests'
    BY <1>3, <1>7, <2>1 DEF Register
  <2>3. Owned'
    BY <1>1, <1>2, <1>3, <1>4, <2>1, RegisterOwned
  <2> QED BY <1>6, <2>2, <2>3 DEF Runs
<1>9. CASE Removed(c)
  <2>1. channels' = [channels EXCEPT ![n] = 0] /\ instance' = Halted(c) /\ tasks' = tasks
    BY <1>9 DEF Removed
  <2>2. Requests'
    BY <1>3, <1>7, <2>1
  <2>3. Owned'
    <3> SUFFICES ASSUME NEW m \in Names, NEW j \in 1..MaxInstances, Halted(c)[m][j] = "live"
                 PROVE  \/ Stopping(m, j)'
                        \/ channels'[m] = j /\ tasks'[m] = j /\ (started' \/ m \in todo')
                        \/ <<m, j>> \in forsaken
      BY <1>1, <2>1 DEF Owned, Alive, Stopping
    <3>1. CASE channels[m] = j /\ tasks[m] = j /\ (started \/ m \in todo)
      <4>1. m # n
        BY <1>2, <3>1
      <4> QED BY <1>1, <1>3, <2>1, <3>1, <4>1
    <3> QED BY <1>4, <3>1
  <2> QED BY <1>6, <2>2, <2>3 DEF Runs
<1> QED BY <1>8, <1>9

\* A request that is cancelled gives up what it had taken, and that is on record.
LEMMA DroppedRuns ==
    ASSUME ChannelAssumption, TypeOK, Runs, NEW c \in Callers, Dropped(c)
    PROVE  Runs'
<1>1. /\ call' = [call EXCEPT ![c] = Idle] /\ UNCHANGED <<channels, tasks, instance, started, todo>>
      /\ c \in Everyone /\ c # "stop_all" /\ "stop_all" \in Everyone
      /\ call[c].task # 0 => <<call[c].name, call[c].task>> \in forsaken'
      /\ forsaken \subseteq forsaken'
  BY DEF Dropped, Everyone, ChannelAssumption
<1>2. call'[c] = Idle /\ \A d \in Everyone \ {c} : call'[d] = call[d]
  BY <1>1, OthersCall
<1>3. Requests'
  <2>1. ASSUME NEW d \in Callers PROVE call'[d] = Idle \/ Waits(d)'
    <3>1. CASE d = c
      BY <1>2, <3>1
    <3>2. CASE d # c
      <4>1. call'[d] = call[d]
        BY <1>2, <3>2 DEF Everyone
      <4> QED BY <1>1, <4>1 DEF Runs, Requests, Waits
    <3> QED BY <3>1, <3>2
  <2> QED BY <1>1, <1>2, <2>1 DEF Runs, Requests
<1>4. Before'
  <2>1. call'["stop_all"] = call["stop_all"]
    BY <1>1, <1>2
  <2>2. \A d \in Callers : call[d] = Idle => call'[d] = Idle
    BY <1>2 DEF Everyone
  <2> QED BY <1>1, <2>1, <2>2 DEF Runs, Before, Alive
<1>5. Owned'
  <2> SUFFICES ASSUME NEW m \in Names, NEW j \in 1..MaxInstances, Alive(m, j)
               PROVE  \/ Stopping(m, j)'
                      \/ channels[m] = j /\ tasks[m] = j /\ (started \/ m \in todo)
                      \/ <<m, j>> \in forsaken'
    BY <1>1 DEF Owned, Alive, Stopping
  <2>1. CASE Stopping(m, j)
    <3>1. PICK d \in Everyone : call[d].name = m /\ call[d].task = j
      BY <2>1 DEF Stopping
    <3>2. CASE d = c
      BY <1>1, <3>1, <3>2
    <3>3. CASE d # c
      BY <1>2, <3>1, <3>3 DEF Stopping
    <3> QED BY <3>2, <3>3
  <2> QED BY <1>1, <2>1 DEF Runs, Owned
<1> QED BY <1>3, <1>4, <1>5 DEF Runs

\* Every step keeps the owners, as long as requests stay apart.
LEMMA RunsStep ==
    ASSUME ChannelAssumption, TypeOK, Runs, Apart, Apart', [Next]_vars
    PROVE  Runs'
<1>0. /\ DOMAIN channels = Names /\ DOMAIN tasks = Names /\ DOMAIN call = Everyone
      /\ channels \in [Names -> 0..MaxInstances]
      /\ instance \in [Names -> [1..MaxInstances -> {"none", "built", "live", "ended"}]]
      /\ "stop_all" \in Everyone /\ \A d \in Callers : d \in Everyone /\ d # "stop_all"
  BY DEF TypeOK, Everyone, ChannelAssumption
<1>1. CASE UNCHANGED runtime
  BY <1>1 DEF runtime, Runs, Requests, Waits, Before, Owned, Alive, Stopping
<1>2. CASE StartAll
  <2>1. /\ started' = TRUE /\ tasks' = channels /\ UNCHANGED <<channels, call, todo, forsaken>>
        /\ instance' = [n \in Names |-> [i \in 1..MaxInstances |->
                           IF channels[n] = i THEN "live" ELSE instance[n][i]]]
        /\ \A c \in Callers : call[c] = Idle
        /\ \A n \in Names, i \in 1..MaxInstances : ~Alive(n, i)
    BY <1>2 DEF StartAll, Runs, Before
  <2>2. Requests' /\ Before'
    BY <2>1 DEF Runs, Requests, Before
  <2>3. Owned'
    BY <2>1 DEF Owned, Alive, Stopping
  <2> QED BY <2>2, <2>3 DEF Runs
<1>3. ASSUME NEW n \in Names, NEW i \in 1..MaxInstances, StartEnds(n, i) PROVE Runs'
  <2>1. UNCHANGED <<channels, tasks, call, started, todo, forsaken>>
    BY <1>3 DEF StartEnds
  <2>2. \A m \in Names, j \in 1..MaxInstances : Alive(m, j)' => Alive(m, j)
    BY <1>0, <1>3 DEF StartEnds, Alive
  <2>3. Requests' /\ Before'
    BY <2>1, <2>2 DEF Runs, Requests, Waits, Before
  <2>4. Owned'
    BY <2>1, <2>2 DEF Runs, Owned, Stopping
  <2> QED BY <2>3, <2>4 DEF Runs
<1>4. ASSUME NEW c \in Callers, NEW n \in Names, Enable(c, n) \/ Disable(c, n) PROVE Runs'
  BY <1>4, EnableRuns, DisableRuns
<1>5. ASSUME NEW c \in Callers, Replaced(c) \/ Removed(c) PROVE Runs'
  BY <1>5, EndsRuns
<1>6. CASE StopAll
  <2>1. /\ started' = FALSE /\ todo' = {n \in Names : channels[n] # 0}
        /\ call["stop_all"].pc = "idle" /\ call' = [call EXCEPT !["stop_all"].pc = "next"]
        /\ UNCHANGED <<channels, tasks, instance, forsaken>>
    BY <1>6 DEF StopAll
  <2>2. call["stop_all"] = Idle
    BY <2>1, IdleFacts DEF Runs, Requests
  <2>3. /\ call'["stop_all"] = [Idle EXCEPT !.pc = "next"]
        /\ \A d \in Callers : call'[d] = call[d]
    <3>1. call' = [call EXCEPT !["stop_all"] = [call["stop_all"] EXCEPT !.pc = "next"]]
      BY <2>1
    <3>2. call' = [call EXCEPT !["stop_all"] = [Idle EXCEPT !.pc = "next"]]
      BY <2>2, <3>1
    <3>3. /\ call'["stop_all"] = [Idle EXCEPT !.pc = "next"]
          /\ \A d \in Everyone \ {"stop_all"} : call'[d] = call[d]
      BY <1>0, <3>2, OthersCall
    <3> QED BY <1>0, <3>3
  <2>4. Requests' /\ Before'
    <3>1. ASSUME NEW d \in Callers PROVE call'[d] = Idle \/ Waits(d)'
      BY <2>1, <2>3 DEF Runs, Requests, Waits
    <3>2. Requests'
      BY <2>3, <3>1 DEF Requests
    <3>3. Before'
      BY <2>3, IdleFacts DEF Before
    <3> QED BY <3>2, <3>3
  <2>5. Owned'
    <3> SUFFICES ASSUME NEW m \in Names, NEW j \in 1..MaxInstances, Alive(m, j)
                 PROVE  \/ Stopping(m, j)'
                        \/ channels[m] = j /\ tasks[m] = j /\ m \in todo'
                        \/ <<m, j>> \in forsaken
      BY <2>1 DEF Owned, Alive, Stopping
    <3>1. CASE Stopping(m, j)
      <4>1. PICK d \in Everyone : call[d].name = m /\ call[d].task = j
        BY <3>1 DEF Stopping
      <4>2. d \in Callers
        BY <2>2, <4>1, IdleFacts DEF Everyone
      <4> QED BY <1>0, <2>3, <4>1, <4>2 DEF Stopping
    <3>2. CASE channels[m] = j /\ tasks[m] = j
      BY <2>1, <3>2
    <3> QED BY <3>1, <3>2 DEF Runs, Owned
  <2> QED BY <2>4, <2>5 DEF Runs
<1>7. ASSUME NEW n \in Names, StopNext(n) PROVE Runs'
  <2>1. /\ UNCHANGED <<channels, instance, started, forsaken>> /\ todo' = todo \ {n}
        /\ call["stop_all"].pc = "next"
    BY <1>7 DEF StopNext
  <2>2. call["stop_all"] = [Idle EXCEPT !.pc = "next"]
    BY <2>1, IdleFacts DEF Runs, Requests
  <2>3. \A m \in Names, j \in 1..MaxInstances : Alive(m, j)' => Alive(m, j)
    BY <2>1 DEF Alive
  <2>4. CASE channels[n] = 0
    <3>1. tasks' = [tasks EXCEPT ![n] = 0] /\ UNCHANGED call
      BY <1>7, <2>4 DEF StopNext
    <3>2. Requests' /\ Before'
      BY <1>0, <2>1, <3>1 DEF Runs, Requests, Waits, Before
    <3>3. Owned'
      <4> SUFFICES ASSUME NEW m \in Names, NEW j \in 1..MaxInstances, Alive(m, j)
                   PROVE  \/ Stopping(m, j)
                          \/ channels[m] = j /\ tasks'[m] = j /\ (started \/ m \in todo')
                          \/ <<m, j>> \in forsaken
        BY <2>1, <3>1 DEF Owned, Alive, Stopping
      <4>1. CASE channels[m] = j /\ tasks[m] = j /\ (started \/ m \in todo)
        <5>1. m # n
          BY <2>4, <4>1
        <5> QED BY <1>0, <2>1, <3>1, <4>1, <5>1
      <4> QED BY <4>1 DEF Runs, Owned
    <3> QED BY <3>2, <3>3 DEF Runs
  <2>5. CASE channels[n] # 0
    <3>1. BeginStop("stop_all", n, "stop", 0)
      BY <1>7, <2>5 DEF StopNext
    <3>2. /\ call'["stop_all"] = [pc |-> "stop", name |-> n, old |-> channels[n],
                                 task |-> tasks[n], new |-> 0]
          /\ \A d \in Everyone \ {"stop_all"} : call'[d] = call[d]
          /\ tasks' = [tasks EXCEPT ![n] = 0]
      BY <1>0, <3>1, OthersCall DEF BeginStop
    <3>3. Requests' /\ Before'
      BY <1>0, <2>1, <3>2 DEF Runs, Requests, Waits, Before
    <3>4. Owned'
      <4>1. call["stop_all"].task = 0
        BY <2>2, IdleFacts
      <4>2. \A m \in Names \ {n} : started \/ m \in todo => started' \/ m \in todo'
        BY <2>1
      <4> QED BY <1>0, <2>1, <2>3, <3>1, <4>1, <4>2, BeginKeepsOwned DEF Runs
    <3> QED BY <3>3, <3>4 DEF Runs
  <2> QED BY <2>4, <2>5
<1>8. CASE Stopped
  <2>1. /\ UNCHANGED <<channels, tasks, started, todo, forsaken>> /\ instance' = Halted("stop_all")
        /\ call' = [call EXCEPT !["stop_all"] = [Idle EXCEPT !.pc = "next"]]
    BY <1>8 DEF Stopped
  <2>2. /\ call'["stop_all"] = [Idle EXCEPT !.pc = "next"]
        /\ \A d \in Everyone \ {"stop_all"} : call'[d] = call[d]
    BY <1>0, <2>1, OthersCall
  <2>3. Requests' /\ Before'
    BY <1>0, <2>1, <2>2, IdleFacts DEF Runs, Requests, Waits, Before
  <2>4. Owned'
    <3> SUFFICES ASSUME NEW m \in Names, NEW j \in 1..MaxInstances,
                        Halted("stop_all")[m][j] = "live"
                 PROVE  \/ Stopping(m, j)'
                        \/ channels[m] = j /\ tasks[m] = j /\ (started \/ m \in todo)
                        \/ <<m, j>> \in forsaken
      BY <2>1 DEF Owned, Alive, Stopping
    <3> DEFINE k == [Idle EXCEPT !.pc = "next"]
    <3>1. k.task = 0 /\ call' = [call EXCEPT !["stop_all"] = k] /\ Owned
      BY <2>1, IdleFacts DEF Runs
    <3> HIDE DEF k
    <3> QED BY <1>0, <3>1, HaltedOwned
  <2> QED BY <2>3, <2>4 DEF Runs
<1>9. ASSUME NEW c \in Callers, Dropped(c) PROVE Runs'
  BY <1>9, DroppedRuns
<1> QED BY <1>1, <1>2, <1>3, <1>4, <1>5, <1>6, <1>7, <1>8, <1>9
        DEF Next, vars, Publish, Dispatch, Send

\* Nothing runs at the start.
LEMMA RunsInit ==
    ASSUME ChannelAssumption, Init
    PROVE  Runs
<1>1. /\ \A c \in Everyone : call[c] = Idle
      /\ \A n \in Names, i \in 1..MaxInstances : ~Alive(n, i)
  BY DEF Init, Alive
<1>2. "stop_all" \in Everyone /\ \A c \in Callers : c \in Everyone
  BY DEF Everyone
<1> QED BY <1>1, <1>2 DEF Runs, Requests, Before, Owned

\* While no two requests wait for the same channel, every running instance is the one
\* registered under its name, with the task that can cancel it, or somebody is stopping
\* it, or its task was lost with a request that was cancelled while it stopped it:
\* apply_channel_feature_action, _stop_channel, stop_all.
THEOREM OwnedApart == Spec /\ []Apart => []Owned
<1>1. Init => Runs
  BY RunsInit, ChannelAssumption
<1>2. TypeOK /\ Apart /\ Apart' /\ Runs /\ [Next]_vars => Runs'
  BY RunsStep, ChannelAssumption
<1>3. Spec => []TypeOK
  BY ChannelTypes
<1>4. Spec /\ []Apart => []Runs
  BY <1>1, <1>2, <1>3, PTL DEF Spec
<1>5. Runs => Owned
  BY DEF Runs
<1> QED BY <1>4, <1>5, PTL

\* One settings request at a time is one way to keep them apart.
COROLLARY OwnedAlone ==
    ASSUME \A c, d \in Callers : c = d
    PROVE  Spec => []Owned
<1>1. Apart
  BY DEF Apart
<1> QED BY <1>1, OwnedApart, PTL

============================================================================
