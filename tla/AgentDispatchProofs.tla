------------------------ MODULE AgentDispatchProofs ------------------------
(***************************************************************************)
(* Types, the inductive invariant of AgentDispatch, and the safety         *)
(* properties that follow from it; then that no message is lost or doubled *)
(* and that the loop implements SessionService: for every set of messages, *)
(* every number of sessions and every bound.                               *)
(***************************************************************************)
EXTENDS AgentDispatch, FiniteSetTheorems, TLAPS

----------------------------------------------------------------------------
(* What the operations of QueueOps return, for every sequence. *)

\* Prefixes and suffixes stay sequences over the same set.
LEMMA FirstRestType ==
    ASSUME NEW S, NEW seq \in Seq(S), NEW n \in Nat
    PROVE  /\ FirstOf(seq, n) \in Seq(S)
           /\ RestOf(seq, n) \in Seq(S)
BY DEF FirstOf, RestOf

\* The index Without removes at.
LEMMA WithoutAt ==
    ASSUME NEW S, NEW seq \in Seq(S), NEW x, Contains(seq, x)
    PROVE  \E k \in 1..Len(seq) :
              /\ seq[k] = x
              /\ Without(seq, x) = SubSeq(seq, 1, k - 1) \o SubSeq(seq, k + 1, Len(seq))
<1> DEFINE k == CHOOSE i \in DOMAIN seq : seq[i] = x
<1>1. k \in 1..Len(seq) /\ seq[k] = x
  BY DEF Contains
<1>2. Without(seq, x) = SubSeq(seq, 1, k - 1) \o SubSeq(seq, k + 1, Len(seq))
  BY DEF Without, RemoveAt
<1> HIDE DEF k
<1> QED BY <1>1, <1>2

\* Removing an element leaves a sequence over the same set.
LEMMA WithoutType ==
    ASSUME NEW S, NEW seq \in Seq(S), NEW x
    PROVE  Without(seq, x) \in Seq(S)
<1>1. CASE ~Contains(seq, x)
  BY <1>1 DEF Without
<1>2. CASE Contains(seq, x)
  <2>1. PICK k \in 1..Len(seq) :
            Without(seq, x) = SubSeq(seq, 1, k - 1) \o SubSeq(seq, k + 1, Len(seq))
    BY <1>2, WithoutAt
  <2> QED BY <2>1
<1> QED BY <1>1, <1>2

\* Contains is membership in Elems.
LEMMA ContainsElems ==
    ASSUME NEW S, NEW seq \in Seq(S), NEW x
    PROVE  Contains(seq, x) <=> x \in Elems(seq)
BY DEF Contains, Elems

\* Elements belong to the set the queue ranges over.
LEMMA ElemsType ==
    ASSUME NEW S, NEW seq \in Seq(S)
    PROVE  Elems(seq) \subseteq S
BY DEF Elems

\* The empty queue.
LEMMA EmptyElems == Elems(<<>>) = {} /\ Distinct(<<>>)
BY DEF Elems, Distinct

\* Appending adds one element, and no repetition if it is new.
LEMMA AppendElems ==
    ASSUME NEW S, NEW seq \in Seq(S), NEW x \in S
    PROVE  /\ Elems(Append(seq, x)) = Elems(seq) \cup {x}
           /\ Distinct(seq) /\ x \notin Elems(seq) => Distinct(Append(seq, x))
<1> DEFINE new == Append(seq, x)
<1>1. /\ Len(new) = Len(seq) + 1
      /\ \A i \in 1..Len(seq) : new[i] = seq[i]
      /\ new[Len(seq) + 1] = x
  OBVIOUS
<1> HIDE DEF new
<1>2. Elems(new) = Elems(seq) \cup {x}
  <2>1. ASSUME NEW y \in Elems(new) PROVE y \in Elems(seq) \cup {x}
    BY <1>1, <2>1 DEF Elems
  <2>2. ASSUME NEW y \in Elems(seq) PROVE y \in Elems(new)
    <3>1. PICK i \in 1..Len(seq) : y = seq[i]
      BY <2>2 DEF Elems
    <3>2. i \in 1..Len(new) /\ new[i] = y
      BY <3>1, <1>1
    <3> QED BY <3>2 DEF Elems
  <2>3. x \in Elems(new)
    BY <1>1 DEF Elems
  <2> QED BY <2>1, <2>2, <2>3
<1>3. ASSUME Distinct(seq), x \notin Elems(seq) PROVE Distinct(new)
  BY <1>1, <1>3 DEF Distinct, Elems
<1> QED BY <1>2, <1>3 DEF new

\* Concatenating disjoint queues adds no repetition.
LEMMA ConcatElems ==
    ASSUME NEW S, NEW p \in Seq(S), NEW q \in Seq(S)
    PROVE  /\ Elems(p \o q) = Elems(p) \cup Elems(q)
           /\ Distinct(p) /\ Distinct(q) /\ Elems(p) \cap Elems(q) = {}
                => Distinct(p \o q)
<1> DEFINE new == p \o q
<1>1. /\ Len(new) = Len(p) + Len(q)
      /\ \A i \in 1..Len(p) : new[i] = p[i]
      /\ \A i \in 1..Len(q) : new[Len(p) + i] = q[i]
      /\ Len(p) \in Nat /\ Len(q) \in Nat
  OBVIOUS
<1>0. \A i \in 1..Len(new) : \/ i \in 1..Len(p) /\ new[i] = p[i]
                             \/ i - Len(p) \in 1..Len(q) /\ new[i] = q[i - Len(p)]
  <2> TAKE i \in 1..Len(new)
  <2>1. CASE i <= Len(p)
    BY <1>1, <2>1
  <2>2. CASE i > Len(p)
    <3>1. i - Len(p) \in 1..Len(q) /\ i = Len(p) + (i - Len(p))
      BY <1>1, <2>2
    <3> QED BY <3>1, <1>1
  <2> QED BY <2>1, <2>2, <1>1
<1> HIDE DEF new
<1>2. Elems(new) = Elems(p) \cup Elems(q)
  <2>1. ASSUME NEW y \in Elems(new) PROVE y \in Elems(p) \cup Elems(q)
    BY <1>0, <2>1 DEF Elems
  <2>2. ASSUME NEW y \in Elems(p) PROVE y \in Elems(new)
    <3>1. PICK i \in 1..Len(p) : y = p[i]
      BY <2>2 DEF Elems
    <3>2. i \in 1..Len(new) /\ new[i] = y
      BY <3>1, <1>1
    <3> QED BY <3>2 DEF Elems
  <2>3. ASSUME NEW y \in Elems(q) PROVE y \in Elems(new)
    <3>1. PICK i \in 1..Len(q) : y = q[i]
      BY <2>3 DEF Elems
    <3>2. Len(p) + i \in 1..Len(new) /\ new[Len(p) + i] = y
      BY <3>1, <1>1
    <3> QED BY <3>2 DEF Elems
  <2> QED BY <2>1, <2>2, <2>3
<1>3. ASSUME Distinct(p), Distinct(q), Elems(p) \cap Elems(q) = {} PROVE Distinct(new)
  <2> SUFFICES ASSUME NEW i \in 1..Len(new), NEW j \in 1..Len(new), new[i] = new[j]
               PROVE  i = j
    BY DEF Distinct
  <2>1. CASE i \in 1..Len(p) /\ new[i] = p[i] /\ j \in 1..Len(p) /\ new[j] = p[j]
    BY <2>1, <1>3 DEF Distinct
  <2>2. CASE /\ i - Len(p) \in 1..Len(q) /\ new[i] = q[i - Len(p)]
             /\ j - Len(p) \in 1..Len(q) /\ new[j] = q[j - Len(p)]
    <3>1. i - Len(p) = j - Len(p)
      BY <2>2, <1>3 DEF Distinct
    <3> QED BY <3>1, <1>1
  <2>3. CASE /\ i \in 1..Len(p) /\ new[i] = p[i]
             /\ j - Len(p) \in 1..Len(q) /\ new[j] = q[j - Len(p)]
    BY <2>3, <1>3 DEF Elems
  <2>4. CASE /\ j \in 1..Len(p) /\ new[j] = p[j]
             /\ i - Len(p) \in 1..Len(q) /\ new[i] = q[i - Len(p)]
    BY <2>4, <1>3 DEF Elems
  <2> QED BY <2>1, <2>2, <2>3, <2>4, <1>0
<1> QED BY <1>2, <1>3 DEF new

\* A sub-sequence of a sequence without repetitions.
LEMMA SubSeqElems ==
    ASSUME NEW S, NEW seq \in Seq(S), NEW a \in Nat \ {0}, NEW b \in 0..Len(seq)
    PROVE  /\ SubSeq(seq, a, b) \in Seq(S)
           /\ Elems(SubSeq(seq, a, b)) = {seq[i] : i \in a..b}
           /\ Distinct(seq) => Distinct(SubSeq(seq, a, b))
<1> DEFINE new == SubSeq(seq, a, b)
           n == IF a <= b THEN b - a + 1 ELSE 0
<1>1. /\ new \in Seq(S)
      /\ Len(new) = n
      /\ n \in Nat
      /\ \A i \in 1..n : new[i] = seq[a + i - 1] /\ a + i - 1 \in a..b
  OBVIOUS
<1>2. \A i \in a..b : i - a + 1 \in 1..n /\ a + (i - a + 1) - 1 = i
  OBVIOUS
<1>3. a..b \subseteq 1..Len(seq)
  OBVIOUS
<1> HIDE DEF new, n
<1>4. Elems(new) = {seq[i] : i \in a..b}
  <2>1. ASSUME NEW y \in Elems(new) PROVE y \in {seq[i] : i \in a..b}
    BY <1>1, <2>1 DEF Elems
  <2>2. ASSUME NEW i \in a..b PROVE seq[i] \in Elems(new)
    <3>1. i - a + 1 \in 1..Len(new) /\ new[i - a + 1] = seq[i]
      BY <1>1, <1>2
    <3> QED BY <3>1 DEF Elems
  <2> QED BY <2>1, <2>2
<1>5. ASSUME Distinct(seq) PROVE Distinct(new)
  <2> SUFFICES ASSUME NEW i \in 1..n, NEW j \in 1..n, new[i] = new[j] PROVE i = j
    BY <1>1 DEF Distinct
  <2>1. a + i - 1 = a + j - 1
    BY <1>1, <1>3, <1>5 DEF Distinct
  <2> QED BY <2>1, <1>1
<1> QED BY <1>1, <1>4, <1>5 DEF new

\* FirstOf and RestOf split a sequence without repetitions in two.
LEMMA FirstRestElems ==
    ASSUME NEW S, NEW seq \in Seq(S), NEW n \in Nat, Distinct(seq)
    PROVE  /\ Elems(seq) = Elems(FirstOf(seq, n)) \cup Elems(RestOf(seq, n))
           /\ Elems(FirstOf(seq, n)) \cap Elems(RestOf(seq, n)) = {}
           /\ Distinct(FirstOf(seq, n)) /\ Distinct(RestOf(seq, n))
<1> DEFINE k == IF Len(seq) < n THEN Len(seq) ELSE n
           low == {seq[i] : i \in 1..k}
           high == {seq[i] : i \in n + 1..Len(seq)}
<1>1. k \in 0..Len(seq) /\ Len(seq) \in 0..Len(seq) /\ n + 1 \in Nat \ {0}
  OBVIOUS
<1>2. Elems(FirstOf(seq, n)) = low /\ Distinct(FirstOf(seq, n))
  <2>1. FirstOf(seq, n) = SubSeq(seq, 1, k)
    BY DEF FirstOf
  <2> HIDE DEF k
  <2> QED BY <2>1, <1>1, SubSeqElems
<1>3. Elems(RestOf(seq, n)) = high /\ Distinct(RestOf(seq, n))
  BY <1>1, SubSeqElems DEF RestOf
<1>4. Elems(seq) = low \cup high
  BY DEF Elems
<1>5. low \cap high = {}
  <2> SUFFICES ASSUME NEW i \in 1..k, NEW j \in n + 1..Len(seq), seq[i] = seq[j]
               PROVE  FALSE
    OBVIOUS
  <2>1. i \in 1..Len(seq) /\ j \in 1..Len(seq) /\ i # j
    OBVIOUS
  <2> QED BY <2>1 DEF Distinct
<1> QED BY <1>2, <1>3, <1>4, <1>5

\* Without removes exactly x from a queue without repetitions.
LEMMA WithoutElems ==
    ASSUME NEW S, NEW seq \in Seq(S), NEW x, Distinct(seq)
    PROVE  /\ Without(seq, x) \in Seq(S)
           /\ Elems(Without(seq, x)) = Elems(seq) \ {x}
           /\ Distinct(Without(seq, x))
<1>0. Without(seq, x) \in Seq(S)
  BY WithoutType
<1>1. CASE ~Contains(seq, x)
  BY <1>1, ContainsElems DEF Without
<1>2. CASE Contains(seq, x)
  <2>1. PICK k \in 1..Len(seq) :
           /\ seq[k] = x
           /\ Without(seq, x) = SubSeq(seq, 1, k - 1) \o SubSeq(seq, k + 1, Len(seq))
    BY <1>2, WithoutAt
  <2> DEFINE p == SubSeq(seq, 1, k - 1)
             q == SubSeq(seq, k + 1, Len(seq))
  <2>2. /\ k - 1 \in 0..Len(seq) /\ k + 1 \in Nat \ {0}
        /\ Len(seq) \in 0..Len(seq) /\ 1 \in Nat \ {0}
    OBVIOUS
  <2>3. p \in Seq(S) /\ Elems(p) = {seq[i] : i \in 1..k - 1} /\ Distinct(p)
    BY <2>2, SubSeqElems
  <2>4. q \in Seq(S) /\ Elems(q) = {seq[i] : i \in k + 1..Len(seq)} /\ Distinct(q)
    BY <2>2, SubSeqElems
  <2> HIDE DEF p, q
  <2>5. Elems(p) \cap Elems(q) = {}
    <3> SUFFICES ASSUME NEW i \in 1..k - 1, NEW j \in k + 1..Len(seq), seq[i] = seq[j]
                 PROVE  FALSE
      BY <2>3, <2>4
    <3>1. i \in 1..Len(seq) /\ j \in 1..Len(seq) /\ i # j
      OBVIOUS
    <3> QED BY <3>1 DEF Distinct
  <2>6. Elems(p \o q) = Elems(p) \cup Elems(q) /\ Distinct(p \o q)
    <3>1. p \in Seq(S) /\ Distinct(p) /\ q \in Seq(S) /\ Distinct(q)
      BY <2>3, <2>4
    <3> QED BY <3>1, <2>5, ConcatElems
  <2>7. Elems(p) \cup Elems(q) = Elems(seq) \ {x}
    <3>1. ASSUME NEW i \in 1..Len(seq), seq[i] # x
          PROVE  seq[i] \in Elems(p) \cup Elems(q)
      <4>1. i # k
        BY <2>1, <3>1
      <4>2. i \in 1..k - 1 \/ i \in k + 1..Len(seq)
        BY <4>1
      <4> QED BY <4>2, <2>3, <2>4
    <3>2. ASSUME NEW i \in 1..k - 1
          PROVE  i \in 1..Len(seq) /\ seq[i] # x
      <4>1. i \in 1..Len(seq) /\ i # k
        OBVIOUS
      <4> QED BY <4>1, <2>1 DEF Distinct
    <3>3. ASSUME NEW i \in k + 1..Len(seq)
          PROVE  i \in 1..Len(seq) /\ seq[i] # x
      <4>1. i \in 1..Len(seq) /\ i # k
        OBVIOUS
      <4> QED BY <4>1, <2>1 DEF Distinct
    <3> QED BY <3>1, <3>2, <3>3, <2>3, <2>4 DEF Elems
  <2> QED BY <1>0, <2>1, <2>6, <2>7 DEF p, q
<1> QED BY <1>1, <1>2, <1>0

\* The head leaves a queue without repetitions.
LEMMA TailElems ==
    ASSUME NEW S, NEW seq \in Seq(S), seq # <<>>, Distinct(seq)
    PROVE  /\ Tail(seq) \in Seq(S)
           /\ Head(seq) \in Elems(seq)
           /\ Elems(Tail(seq)) = Elems(seq) \ {Head(seq)}
           /\ Distinct(Tail(seq))
<1> DEFINE new == SubSeq(seq, 2, Len(seq))
<1>1. /\ Tail(seq) = new /\ Head(seq) = seq[1] /\ 1 \in 1..Len(seq)
  OBVIOUS
<1>2. Len(seq) \in 0..Len(seq) /\ 2 \in Nat \ {0}
  OBVIOUS
<1>3. /\ new \in Seq(S)
      /\ Elems(new) = {seq[i] : i \in 2..Len(seq)}
      /\ Distinct(new)
  BY <1>2, SubSeqElems
<1> HIDE DEF new
<1>4. \A i \in 2..Len(seq) : i \in 1..Len(seq) /\ i # 1
  OBVIOUS
<1>5. \A i \in 1..Len(seq) : i = 1 \/ i \in 2..Len(seq)
  OBVIOUS
<1>6. \A i \in 2..Len(seq) : seq[i] # seq[1]
  BY <1>1, <1>4 DEF Distinct
<1>7. Elems(new) = Elems(seq) \ {seq[1]}
  BY <1>1, <1>3, <1>4, <1>5, <1>6 DEF Elems
<1> QED BY <1>1, <1>3, <1>7 DEF Elems

\* The head of a queue after an append, and after another element left it.
LEMMA AppendHead ==
    ASSUME NEW S, NEW seq \in Seq(S), NEW x \in S
    PROVE  Head(Append(seq, x)) = IF seq = <<>> THEN x ELSE Head(seq)
OBVIOUS

\* The head of a queue stays when another element leaves it.
LEMMA WithoutHead ==
    ASSUME NEW S, NEW seq \in Seq(S), NEW x, seq # <<>>, Head(seq) # x
    PROVE  Without(seq, x) # <<>> /\ Head(Without(seq, x)) = Head(seq)
<1>1. CASE ~Contains(seq, x)
  BY <1>1 DEF Without
<1>2. CASE Contains(seq, x)
  <2>1. PICK k \in 1..Len(seq) :
           /\ seq[k] = x
           /\ Without(seq, x) = SubSeq(seq, 1, k - 1) \o SubSeq(seq, k + 1, Len(seq))
    BY <1>2, WithoutAt
  <2> DEFINE p == SubSeq(seq, 1, k - 1)
             q == SubSeq(seq, k + 1, Len(seq))
  <2>2. k # 1 /\ Head(seq) = seq[1]
    BY <2>1
  <2>3. p \in Seq(S) /\ q \in Seq(S) /\ Len(p) >= 1 /\ p[1] = seq[1]
    BY <2>2
  <2> HIDE DEF p, q
  <2>4. p \o q # <<>> /\ Head(p \o q) = p[1]
    BY <2>3
  <2> QED BY <2>1, <2>2, <2>3, <2>4 DEF p, q
<1> QED BY <1>1, <1>2

----------------------------------------------------------------------------
(* Types. *)

\* Taking the next deferred turn keeps the types of bus and deferred turns.
LEMMA DeferredType ==
    ASSUME TypeOK, NEW s \in Sessions
    PROVE  /\ NextDeferred(s) \in Seq(Msgs)
           /\ DropNextDeferred(s) \in [Sessions -> Seq(Msgs)]
<1>1. deferred[s] \in Seq(Msgs) /\ 1 \in Nat
  BY DEF TypeOK
<1>2. FirstOf(deferred[s], 1) \in Seq(Msgs) /\ RestOf(deferred[s], 1) \in Seq(Msgs)
  BY <1>1, FirstRestType
<1> QED BY <1>2 DEF TypeOK, NextDeferred, DropNextDeferred

\* However a turn ends, the variables keep their types.
LEMMA LeaveTurnType ==
    ASSUME TypeOK, DispatchAssumption, NEW t \in Msgs, NEW outcome \in Fates,
           NEW left \in Seq(Msgs), LeaveTurn(t, outcome, left),
           sent' \subseteq Msgs,
           waiter' \in [Msgs -> {"none", "waiting", "resolved", "failed"}]
    PROVE  TypeOK'
<1> DEFINE s == SessionOf[t]
<1>1. s \in Sessions
  BY DEF DispatchAssumption
<1>2. /\ NextDeferred(s) \in Seq(Msgs)
      /\ DropNextDeferred(s) \in [Sessions -> Seq(Msgs)]
  BY <1>1, DeferredType
<1>3. lockQ[s] \in Seq(Msgs) /\ bus \in Seq(Msgs)
  BY <1>1 DEF TypeOK
<1>4. Without(lockQ[s], t) \in Seq(Msgs)
  BY <1>3, WithoutType
<1>5. bus' \in Seq(Msgs)
  BY <1>2, <1>3 DEF LeaveTurn
<1>6. lockQ' \in [Sessions -> Seq(Msgs)]
  BY <1>1, <1>4 DEF LeaveTurn, TypeOK
<1>7. deferred' \in [Sessions -> Seq(Msgs)]
  BY <1>2 DEF LeaveTurn
<1>8. /\ pc' \in [Msgs -> Pcs]
      /\ gateQ' \in Seq(Msgs)
      /\ registered' \in [Sessions -> Msgs \cup {NoTask}]
      /\ queueOf' \in [Msgs -> Seq(Msgs)]
      /\ cycles' \in [Msgs -> 0..MaxCycles]
      /\ active' \in [Sessions -> SUBSET Msgs]
      /\ cancelled' \subseteq Msgs
      /\ loopOp' \in Msgs \cup {NoTask}
      /\ awaited' \in [Msgs -> SUBSET Msgs]
      /\ fate' \in [Msgs -> Fates]
  BY SMTT(30) DEF LeaveTurn, TypeOK, Pcs, TurnPcs
<1> QED BY <1>5, <1>6, <1>7, <1>8 DEF TypeOK

\* EnterGate keeps the types of what it changes.
LEMMA EnterGateType ==
    ASSUME TypeOK, DispatchAssumption, NEW t \in Msgs, EnterGate(t)
    PROVE  /\ pc' \in [Msgs -> Pcs]
           /\ gateQ' \in Seq(Msgs)
           /\ registered' \in [Sessions -> Msgs \cup {NoTask}]
<1>1. Append(gateQ, t) \in Seq(Msgs)
  BY DEF TypeOK
<1>2. gateQ' = gateQ \/ gateQ' = Append(gateQ, t)
  BY DEF EnterGate
<1>3. gateQ' \in Seq(Msgs)
  BY <1>1, <1>2 DEF TypeOK
<1>4. pc' = [pc EXCEPT ![t] = "run"] \/ pc' = [pc EXCEPT ![t] = "gate"]
  BY DEF EnterGate, BeginTurn
<1>5. pc' \in [Msgs -> Pcs]
  BY <1>4 DEF TypeOK, Pcs, TurnPcs
<1>6. \/ registered' = registered
      \/ registered' = [registered EXCEPT ![SessionOf[t]] = t]
  BY DEF EnterGate, BeginTurn
<1>7. registered' \in [Sessions -> Msgs \cup {NoTask}]
  BY <1>6 DEF TypeOK
<1> QED BY <1>3, <1>5, <1>7

\* The loop takes the head of the bus.
LEMMA ConsumeType ==
    ASSUME TypeOK, NEW m \in Msgs, Consume(m)
    PROVE  bus' \in Seq(Msgs)
<1>1. bus \in Seq(Msgs) /\ bus # <<>>
  BY DEF TypeOK, Consume
<1>2. Tail(bus) \in Seq(Msgs)
  BY <1>1
<1> QED BY <1>2 DEF Consume

\* Every step keeps every variable in its type.
LEMMA TypeStep ==
    ASSUME TypeOK, DispatchAssumption, [Next]_vars
    PROVE  TypeOK'
<1> USE DispatchAssumption
<1>1. CASE UNCHANGED vars
  BY <1>1 DEF TypeOK, vars
<1>2. ASSUME NEW m \in Msgs, Publish(m) PROVE TypeOK'
  BY <1>2, SMTT(30) DEF TypeOK, Publish
<1>3. ASSUME NEW m \in Msgs, CallDirect(m) PROVE TypeOK'
  BY <1>3 DEF TypeOK, CallDirect, DispatchAssumption, Pcs
<1>4. ASSUME NEW m \in Msgs, RunLoop(m) PROVE TypeOK'
  <2>0. SessionOf[m] \in Sessions
    BY DEF DispatchAssumption
  <2>1. CASE BeginInlineCommand(m)
    <3>1. bus' \in Seq(Msgs)
      BY <2>1, ConsumeType DEF BeginInlineCommand
    <3> QED BY <2>0, <2>1, <3>1 DEF TypeOK, BeginInlineCommand, CancelActive
  <2>2. CASE EndStop(m)
    <3>1. registered' \in [Sessions -> Msgs \cup {NoTask}]
      BY <2>0, <2>2 DEF EndStop, TypeOK
    <3>2. queueOf' \in [Msgs -> Seq(Msgs)]
      <4>1. <<>> \in Seq(Msgs)
        OBVIOUS
      <4> QED BY <2>2, <4>1 DEF EndStop, TypeOK
    <3>3. fate' \in [Msgs -> Fates]
      BY <2>2 DEF EndStop, TypeOK, Fates
    <3> QED BY <2>2, <3>1, <3>2, <3>3 DEF TypeOK, EndStop
  <2>3. CASE EndNewInline(m)
    BY <2>3 DEF TypeOK, EndNewInline, Fates
  <2>4. CASE Defer(m)
    <3>1. bus' \in Seq(Msgs)
      BY <2>4, ConsumeType DEF Defer
    <3>2. Append(deferred[SessionOf[m]], m) \in Seq(Msgs)
      BY <2>0 DEF TypeOK
    <3>3. deferred' \in [Sessions -> Seq(Msgs)]
      BY <2>0, <2>4, <3>2 DEF TypeOK, Defer
    <3> QED BY <2>4, <3>1, <3>3 DEF TypeOK, Defer
  <2>5. CASE RouteToPending(m)
    <3>1. registered[SessionOf[m]] \in Msgs
      BY <2>5 DEF RouteToPending, QueueHasRoom, TypeOK, DispatchAssumption
    <3>2. bus' \in Seq(Msgs)
      BY <2>5, ConsumeType DEF RouteToPending
    <3>3. Append(queueOf[registered[SessionOf[m]]], m) \in Seq(Msgs)
      BY <3>1 DEF TypeOK
    <3>4. queueOf' \in [Msgs -> Seq(Msgs)]
      BY <2>5, <3>1, <3>3 DEF TypeOK, RouteToPending
    <3> QED BY <2>5, <3>2, <3>4 DEF TypeOK, RouteToPending
  <2>6. CASE Spawn(m)
    <3>1. bus' \in Seq(Msgs)
      BY <2>6, ConsumeType DEF Spawn
    <3> QED BY <2>0, <2>6, <3>1 DEF TypeOK, Spawn, Pcs
  <2> QED BY <1>4, <2>1, <2>2, <2>3, <2>4, <2>5, <2>6 DEF RunLoop
<1>5. ASSUME NEW t \in Msgs, Proceed(t) PROVE TypeOK'
  <2>0. SessionOf[t] \in Sessions
    BY DEF DispatchAssumption
  <2>1. CASE StartTask(t)
    <3>1. /\ pc' \in [Msgs -> Pcs]
          /\ gateQ' \in Seq(Msgs)
          /\ registered' \in [Sessions -> Msgs \cup {NoTask}]
      <4>1. CASE EnterGate(t)
        BY <4>1, EnterGateType
      <4>2. CASE pc' = [pc EXCEPT ![t] = "lock"] /\ UNCHANGED <<gateQ, registered>>
        BY <4>2 DEF TypeOK, Pcs
      <4> QED BY <2>1, <4>1, <4>2 DEF StartTask
    <3>2. lockQ' \in [Sessions -> Seq(Msgs)]
      <4>1. Append(lockQ[SessionOf[t]], t) \in Seq(Msgs)
        BY <2>0 DEF TypeOK
      <4> QED BY <2>0, <2>1, <4>1 DEF StartTask, TypeOK
    <3> QED BY <2>1, <3>1, <3>2 DEF TypeOK, StartTask
  <2>2. CASE LockGranted(t)
    <3>1. /\ pc' \in [Msgs -> Pcs]
          /\ gateQ' \in Seq(Msgs)
          /\ registered' \in [Sessions -> Msgs \cup {NoTask}]
      <4>1. CASE EnterGate(t)
        BY <4>1, EnterGateType
      <4>2. CASE pc' = [pc EXCEPT ![t] = "direct"] /\ UNCHANGED <<gateQ, registered>>
        BY <4>2 DEF TypeOK, Pcs
      <4> QED BY <2>2, <4>1, <4>2 DEF LockGranted
    <3> QED BY <2>2, <3>1 DEF TypeOK, LockGranted
  <2>3. CASE GateGranted(t)
    <3>2. Tail(gateQ) \in Seq(Msgs)
      BY <2>3 DEF TypeOK, GateGranted
    <3> QED BY <2>0, <2>3, <3>2 DEF TypeOK, GateGranted, BeginTurn, Pcs, TurnPcs
  <2>4. CASE CommandNew(t)
    BY <2>0, <2>4 DEF TypeOK, CommandNew, CancelActive, Pcs, TurnPcs
  <2>5. CASE EndDirect(t)
    <3>1. Without(lockQ[SessionOf[t]], t) \in Seq(Msgs)
      BY <2>0, WithoutType DEF TypeOK
    <3> QED BY <2>5, <3>1 DEF TypeOK, EndDirect, Pcs, Fates
  <2>6. CASE CancelTurn(t)
    <3>1. /\ waiter' \in [Msgs -> {"none", "waiting", "resolved", "failed"}]
          /\ sent' \subseteq Msgs
          /\ queueOf[t] \in Seq(Msgs)
          /\ "cancelled" \in Fates
      BY <2>6 DEF TypeOK, CancelTurn, ResolveWaiter, Fates
    <3> QED BY <2>6, <3>1, LeaveTurnType DEF CancelTurn
  <2>7. CASE CancelWaiting(t)
    <3>1. /\ Without(lockQ[SessionOf[t]], t) \in Seq(Msgs)
          /\ Without(gateQ, t) \in Seq(Msgs)
      BY <2>0, WithoutType DEF TypeOK
    <3>2. /\ NextDeferred(SessionOf[t]) \in Seq(Msgs)
          /\ DropNextDeferred(SessionOf[t]) \in [Sessions -> Seq(Msgs)]
      BY <2>0, DeferredType
    <3>3. bus' \in Seq(Msgs) /\ gateQ' \in Seq(Msgs)
      BY <2>7, <3>1, <3>2 DEF TypeOK, CancelWaiting
    <3>4. /\ lockQ' \in [Sessions -> Seq(Msgs)]
          /\ deferred' \in [Sessions -> Seq(Msgs)]
          /\ active' \in [Sessions -> SUBSET Msgs]
      BY <2>0, <2>7, <3>1, <3>2 DEF TypeOK, CancelWaiting
    <3>5. pc' \in [Msgs -> Pcs] /\ fate' \in [Msgs -> Fates]
      BY <2>7 DEF TypeOK, CancelWaiting, Pcs, Fates
    <3> QED BY <2>7, <3>3, <3>4, <3>5 DEF TypeOK, CancelWaiting
  <2>8. CASE CancelUnstarted(t)
    BY <2>0, <2>8 DEF TypeOK, CancelUnstarted, Pcs, Fates
  <2> QED BY <1>5, <2>1, <2>2, <2>3, <2>4, <2>5, <2>6, <2>7, <2>8 DEF Proceed, Unwind
<1>6. ASSUME NEW t \in Msgs, EndTurn(t) PROVE TypeOK'
  <2>1. /\ waiter' \in [Msgs -> {"none", "waiting", "resolved", "failed"}]
        /\ sent' \subseteq Msgs
        /\ queueOf[t] \in Seq(Msgs)
        /\ {"answered", "failed"} \subseteq Fates
    BY <1>6 DEF TypeOK, EndTurn, FinishTurn, FailTurn, ResolveWaiter, Fates
  <2>2. \E outcome \in Fates : LeaveTurn(t, outcome, queueOf[t])
    BY <1>6, <2>1 DEF EndTurn, FinishTurn, FailTurn
  <2> QED BY <2>1, <2>2, LeaveTurnType
<1>7. ASSUME NEW t \in Msgs, DrainInjections(t) PROVE TypeOK'
  <2>1. RestOf(queueOf[t], MaxInject) \in Seq(Msgs)
    BY FirstRestType DEF TypeOK, DispatchAssumption
  <2>2. cycles' \in [Msgs -> 0..MaxCycles]
    <3>1. cycles[t] \in 0..MaxCycles /\ cycles[t] < MaxCycles /\ MaxCycles \in Nat
      BY <1>7 DEF DrainInjections, Drainable, TypeOK, DispatchAssumption
    <3>2. cycles[t] + 1 \in 0..MaxCycles
      BY <3>1
    <3> QED BY <1>7, <3>2 DEF DrainInjections, TypeOK
  <2>3. queueOf' \in [Msgs -> Seq(Msgs)]
    BY <1>7, <2>1 DEF TypeOK, DrainInjections
  <2>4. fate' \in [Msgs -> Fates]
    BY <1>7 DEF TypeOK, DrainInjections, Fates
  <2> QED BY <1>7, <2>2, <2>3, <2>4 DEF TypeOK, DrainInjections
<1>8. ASSUME NEW t \in Msgs, BlockOnContinuation(t) PROVE TypeOK'
  BY <1>8 DEF TypeOK, BlockOnContinuation, Pcs, TurnPcs
<1>9. ASSUME NEW t \in Msgs, NEW c \in Msgs, ContinueTurn(t, c) PROVE TypeOK'
  <2>1. /\ waiter' \in [Msgs -> {"none", "waiting", "resolved", "failed"}]
        /\ sent' \subseteq Msgs
        /\ "answered" \in Fates
    BY <1>9 DEF TypeOK, ContinueTurn, ResolveWaiter, Fates
  <2>2. Append(queueOf[t], c) \in Seq(Msgs)
    BY DEF TypeOK
  <2> QED BY <1>9, <2>1, <2>2, LeaveTurnType DEF ContinueTurn
<1> QED BY <1>1, <1>2, <1>3, <1>4, <1>5, <1>6, <1>7, <1>8, <1>9 DEF Next

\* Type correctness: the values every variable of the loop may take.
THEOREM TypeCorrect == Spec => []TypeOK
<1> USE DispatchAssumption
<1>1. Init => TypeOK
  BY DEF Init, TypeOK, Pcs, Fates, DispatchAssumption
<1>2. TypeOK /\ [Next]_vars => TypeOK'
  BY TypeStep
<1> QED BY <1>1, <1>2, PTL DEF Spec

----------------------------------------------------------------------------
(* The locks. *)

\* A task that moves without entering or leaving the queue of its lock.
LEMMA LockKeep ==
    ASSUME TypeOK, LockInv, NEW t \in Msgs, NEW v,
           UNCHANGED lockQ, pc' = [pc EXCEPT ![t] = v],
           pc[t] \in LockPcs <=> v \in LockPcs,
           v \in LockPcs \ {"lock"} => Head(lockQ[SessionOf[t]]) = t
    PROVE  LockInv'
<1>1. /\ pc'[t] = v
      /\ \A u \in Msgs \ {t} : pc'[u] = pc[u]
  BY DEF TypeOK
<1>2. \A s \in Sessions : lockQ[s] \in Seq(Msgs) /\ Elems(lockQ[s]) \subseteq Msgs
  BY ElemsType DEF TypeOK
<1>3. \A s \in Sessions : \A u \in Elems(lockQ'[s]) :
          SessionOf[u] = s /\ pc'[u] \in LockPcs
  BY <1>1, <1>2 DEF LockInv
<1>4. \A u \in Msgs : pc'[u] \in LockPcs => u \in Elems(lockQ'[SessionOf[u]])
  BY <1>1 DEF LockInv
<1>5. \A u \in Msgs : HoldsLock(u)' => Head(lockQ'[SessionOf[u]]) = u
  <2> SUFFICES ASSUME NEW u \in Msgs, HoldsLock(u)'
               PROVE  Head(lockQ[SessionOf[u]]) = u
    OBVIOUS
  <2>1. pc'[u] \in LockPcs \ {"lock"}
    BY DEF HoldsLock, InTurn, LockPcs, TurnPcs
  <2>2. CASE u = t
    BY <2>1, <2>2, <1>1
  <2>3. CASE u # t
    BY <2>3, <1>1 DEF HoldsLock, InTurn, LockInv
  <2> QED BY <2>2, <2>3
<1>6. \A s \in Sessions : Distinct(lockQ'[s])
  BY DEF LockInv
<1> QED BY <1>3, <1>4, <1>5, <1>6 DEF LockInv

\* A task that asks for the lock of its session, and has it only if nobody
\* else wanted it.
LEMMA LockJoin ==
    ASSUME TypeOK, DispatchAssumption, LockInv, NEW t \in Msgs, NEW v \in LockPcs,
           pc[t] \notin LockPcs,
           lockQ' = [lockQ EXCEPT ![SessionOf[t]] = Append(@, t)],
           pc' = [pc EXCEPT ![t] = v],
           v # "lock" => lockQ[SessionOf[t]] = <<>>
    PROVE  LockInv'
<1> DEFINE s == SessionOf[t]
<1>0. s \in Sessions /\ lockQ[s] \in Seq(Msgs)
  BY DEF DispatchAssumption, TypeOK
<1>1. /\ pc'[t] = v
      /\ \A u \in Msgs \ {t} : pc'[u] = pc[u]
      /\ lockQ'[s] = Append(lockQ[s], t)
      /\ \A r \in Sessions \ {s} : lockQ'[r] = lockQ[r]
  BY <1>0 DEF TypeOK
<1>2. \A r \in Sessions : Elems(lockQ[r]) \subseteq Msgs
  BY ElemsType DEF TypeOK
<1>3. t \notin Elems(lockQ[s])
  BY <1>0 DEF LockInv
<1>4. /\ Elems(lockQ'[s]) = Elems(lockQ[s]) \cup {t}
      /\ Distinct(lockQ'[s])
  BY <1>0, <1>1, <1>3, AppendElems DEF LockInv
<1>5. \A r \in Sessions : Distinct(lockQ'[r])
  BY <1>1, <1>4 DEF LockInv
<1>6. \A r \in Sessions : \A u \in Elems(lockQ'[r]) :
          SessionOf[u] = r /\ pc'[u] \in LockPcs
  <2> TAKE r \in Sessions
  <2> TAKE u \in Elems(lockQ'[r])
  <2>1. CASE u = t
    <3>1. r = s
      BY <2>1, <1>1, <1>2, <1>3 DEF LockInv
    <3> QED BY <2>1, <3>1, <1>1
  <2>2. CASE u # t
    <3>1. u \in Elems(lockQ[r])
      BY <2>2, <1>1, <1>4
    <3> QED BY <2>2, <3>1, <1>1, <1>2 DEF LockInv
  <2> QED BY <2>1, <2>2
<1>7. \A u \in Msgs : pc'[u] \in LockPcs => u \in Elems(lockQ'[SessionOf[u]])
  <2> TAKE u \in Msgs
  <2>1. SessionOf[u] \in Sessions
    BY DEF DispatchAssumption
  <2> QED BY <2>1, <1>1, <1>4 DEF LockInv
<1>8. \A u \in Msgs : HoldsLock(u)' => Head(lockQ'[SessionOf[u]]) = u
  <2> SUFFICES ASSUME NEW u \in Msgs, HoldsLock(u)'
               PROVE  Head(lockQ'[SessionOf[u]]) = u
    OBVIOUS
  <2>0. pc'[u] \in LockPcs \ {"lock"} /\ SessionOf[u] \in Sessions
    BY DEF HoldsLock, InTurn, LockPcs, TurnPcs, DispatchAssumption
  <2>1. CASE u = t
    BY <2>0, <2>1, <1>0, <1>1, AppendHead
  <2>2. CASE u # t /\ SessionOf[u] # s
    BY <2>0, <2>2, <1>1 DEF HoldsLock, InTurn, LockInv
  <2>3. CASE u # t /\ SessionOf[u] = s
    <3>1. HoldsLock(u) /\ pc[u] \in LockPcs
      BY <2>0, <2>3, <1>1 DEF HoldsLock, InTurn
    <3>2. Head(lockQ[s]) = u /\ u \in Elems(lockQ[s])
      BY <3>1, <2>3 DEF LockInv
    <3>3. lockQ[s] # <<>>
      BY <3>2, EmptyElems
    <3> QED BY <2>3, <3>2, <3>3, <1>0, <1>1, AppendHead
  <2> QED BY <2>1, <2>2, <2>3
<1> QED BY <1>5, <1>6, <1>7, <1>8 DEF LockInv

\* A task that leaves the lock or gives up waiting for it.
LEMMA LockLeave ==
    ASSUME TypeOK, DispatchAssumption, LockInv, NEW t \in Msgs,
           lockQ' = [lockQ EXCEPT ![SessionOf[t]] = Without(@, t)],
           pc' = [pc EXCEPT ![t] = "done"]
    PROVE  LockInv'
<1> DEFINE s == SessionOf[t]
<1>0. s \in Sessions /\ lockQ[s] \in Seq(Msgs) /\ "done" \notin LockPcs
  BY DEF DispatchAssumption, TypeOK, LockPcs, TurnPcs
<1>1. /\ pc'[t] = "done"
      /\ \A u \in Msgs \ {t} : pc'[u] = pc[u]
      /\ lockQ'[s] = Without(lockQ[s], t)
      /\ \A r \in Sessions \ {s} : lockQ'[r] = lockQ[r]
  BY <1>0 DEF TypeOK
<1>2. \A r \in Sessions : Elems(lockQ[r]) \subseteq Msgs
  BY ElemsType DEF TypeOK
<1>4. /\ Elems(lockQ'[s]) = Elems(lockQ[s]) \ {t}
      /\ Distinct(lockQ'[s])
  BY <1>0, <1>1, WithoutElems DEF LockInv
<1>5. \A r \in Sessions : Distinct(lockQ'[r])
  BY <1>1, <1>4 DEF LockInv
<1>6. \A r \in Sessions : \A u \in Elems(lockQ'[r]) :
          SessionOf[u] = r /\ pc'[u] \in LockPcs
  <2> TAKE r \in Sessions
  <2> TAKE u \in Elems(lockQ'[r])
  <2>1. u \in Elems(lockQ[r])
    BY <1>1, <1>4
  <2>2. SessionOf[u] = r /\ pc[u] \in LockPcs /\ u \in Msgs
    BY <2>1, <1>2 DEF LockInv
  <2>3. u # t
    BY <2>2, <1>4
  <2> QED BY <2>2, <2>3, <1>1
<1>7. \A u \in Msgs : pc'[u] \in LockPcs => u \in Elems(lockQ'[SessionOf[u]])
  <2> SUFFICES ASSUME NEW u \in Msgs, pc'[u] \in LockPcs
               PROVE  u \in Elems(lockQ'[SessionOf[u]])
    OBVIOUS
  <2>1. SessionOf[u] \in Sessions /\ u # t
    BY <1>0, <1>1 DEF DispatchAssumption
  <2> QED BY <2>1, <1>1, <1>4 DEF LockInv
<1>8. \A u \in Msgs : HoldsLock(u)' => Head(lockQ'[SessionOf[u]]) = u
  <2> SUFFICES ASSUME NEW u \in Msgs, HoldsLock(u)'
               PROVE  Head(lockQ'[SessionOf[u]]) = u
    OBVIOUS
  <2>0. pc'[u] \in LockPcs /\ SessionOf[u] \in Sessions
    BY DEF HoldsLock, InTurn, LockPcs, TurnPcs, DispatchAssumption
  <2>1. u # t
    BY <2>0, <1>0, <1>1
  <2>2. HoldsLock(u) /\ pc[u] \in LockPcs
    BY <2>0, <2>1, <1>1 DEF HoldsLock, InTurn
  <2>3. Head(lockQ[SessionOf[u]]) = u /\ u \in Elems(lockQ[SessionOf[u]])
    BY <2>2 DEF LockInv
  <2>4. CASE SessionOf[u] # s
    BY <2>0, <2>3, <2>4, <1>1
  <2>5. CASE SessionOf[u] = s
    <3>1. lockQ[s] # <<>> /\ Head(lockQ[s]) # t
      BY <2>1, <2>3, <2>5, EmptyElems
    <3> QED BY <2>3, <2>5, <3>1, <1>0, <1>1, WithoutHead
  <2> QED BY <2>4, <2>5
<1> QED BY <1>5, <1>6, <1>7, <1>8 DEF LockInv

----------------------------------------------------------------------------
(* The places where messages wait. *)

\* Messages leave places and none is added.
LEMMA PlaceShrink ==
    ASSUME TypeOK, TypeOK', PlaceInv,
           Distinct(bus'), Elems(bus') \subseteq Elems(bus),
           \A t \in Msgs : /\ Distinct(queueOf'[t])
                           /\ Elems(queueOf'[t]) \subseteq Elems(queueOf[t]),
           \A s \in Sessions : /\ Distinct(deferred'[s])
                               /\ Elems(deferred'[s]) \subseteq Elems(deferred[s]),
           \A m \in Elems(bus') : Unassigned(m)',
           \A t \in Msgs : \A m \in Elems(queueOf'[t]) : Unassigned(m)',
           \A s \in Sessions : \A m \in Elems(deferred'[s]) : Unassigned(m)'
    PROVE  PlaceInv'
<1>1. \A m \in Elems(bus') :
          /\ KindOf[m] # "direct"
          /\ \A t \in Msgs : m \notin Elems(queueOf'[t])
          /\ \A s \in Sessions : m \notin Elems(deferred'[s])
  BY DEF PlaceInv
<1>2. \A t \in Msgs : \A m \in Elems(queueOf'[t]) :
          /\ SessionOf[m] = SessionOf[t]
          /\ KindOf[m] \in {"user", "cont"}
          /\ \A u \in Msgs : m \in Elems(queueOf'[u]) => u = t
  BY DEF PlaceInv
<1>3. \A s \in Sessions : \A m \in Elems(deferred'[s]) :
          SessionOf[m] = s /\ KindOf[m] = "auto"
  BY DEF PlaceInv
<1> QED BY <1>1, <1>2, <1>3 DEF PlaceInv

\* The places do not change, and who waits there goes on waiting.
LEMMA PlaceKeep ==
    ASSUME TypeOK, TypeOK', PlaceInv, UNCHANGED <<bus, queueOf, deferred>>,
           \A m \in Msgs : Unassigned(m) => Unassigned(m)'
    PROVE  PlaceInv'
<1>1. /\ Elems(bus) \subseteq Msgs
      /\ \A t \in Msgs : Elems(queueOf[t]) \subseteq Msgs
      /\ \A s \in Sessions : Elems(deferred[s]) \subseteq Msgs
  BY ElemsType DEF TypeOK
<1>2. /\ \A m \in Elems(bus) : Unassigned(m)
      /\ \A t \in Msgs : \A m \in Elems(queueOf[t]) : Unassigned(m)
      /\ \A s \in Sessions : \A m \in Elems(deferred[s]) : Unassigned(m)
  BY DEF PlaceInv
<1>3. /\ Distinct(bus)
      /\ \A t \in Msgs : Distinct(queueOf[t])
      /\ \A s \in Sessions : Distinct(deferred[s])
  BY DEF PlaceInv
<1> QED BY <1>1, <1>2, <1>3, PlaceShrink

\* The next deferred turn leaves the deferred turns of its session, alone.
LEMMA DeferredElems ==
    ASSUME TypeOK, PlaceInv, NEW s \in Sessions
    PROVE  /\ NextDeferred(s) \in Seq(Msgs)
           /\ Distinct(NextDeferred(s))
           /\ Elems(NextDeferred(s)) \subseteq Elems(deferred[s])
           /\ \A r \in Sessions :
                 /\ Distinct(DropNextDeferred(s)[r])
                 /\ Elems(DropNextDeferred(s)[r]) \subseteq Elems(deferred[r])
                 /\ Elems(DropNextDeferred(s)[r]) \cap Elems(NextDeferred(s)) = {}
<1>0. /\ deferred[s] \in Seq(Msgs) /\ Distinct(deferred[s]) /\ 1 \in Nat
      /\ deferred \in [Sessions -> Seq(Msgs)]
  BY DEF TypeOK, PlaceInv
<1>1. /\ Elems(deferred[s]) = Elems(FirstOf(deferred[s], 1)) \cup Elems(RestOf(deferred[s], 1))
      /\ Elems(FirstOf(deferred[s], 1)) \cap Elems(RestOf(deferred[s], 1)) = {}
      /\ Distinct(FirstOf(deferred[s], 1)) /\ Distinct(RestOf(deferred[s], 1))
  BY <1>0, FirstRestElems
<1>2. NextDeferred(s) = FirstOf(deferred[s], 1)
  BY DEF NextDeferred
<1>3. DropNextDeferred(s)[s] = RestOf(deferred[s], 1)
  BY <1>0 DEF DropNextDeferred
<1>4. \A r \in Sessions \ {s} : DropNextDeferred(s)[r] = deferred[r]
  BY <1>0 DEF DropNextDeferred
<1>5. \A r \in Sessions \ {s} : Elems(deferred[r]) \cap Elems(deferred[s]) = {}
  BY DEF PlaceInv
<1>6. \A r \in Sessions \ {s} : Distinct(deferred[r])
  BY DEF PlaceInv
<1>7. NextDeferred(s) \in Seq(Msgs)
  BY DeferredType
<1> QED BY <1>1, <1>2, <1>3, <1>4, <1>5, <1>6, <1>7

\* The loop takes the head of the bus, which waits nowhere else and waits no
\* longer, and only moves it to a place or hands it over.
LEMMA ConsumeElems ==
    ASSUME TypeOK, PlaceInv, NEW m \in Msgs, Consume(m)
    PROVE  /\ bus' \in Seq(Msgs)
           /\ Distinct(bus')
           /\ Elems(bus') = Elems(bus) \ {m}
           /\ m \in Elems(bus)
           /\ Unassigned(m)
           /\ KindOf[m] # "direct"
           /\ \A t \in Msgs : m \notin Elems(queueOf[t])
           /\ \A s \in Sessions : m \notin Elems(deferred[s])
<1>1. /\ bus \in Seq(Msgs) /\ bus # <<>> /\ Distinct(bus)
      /\ m = Head(bus) /\ bus' = Tail(bus)
  BY DEF TypeOK, PlaceInv, Consume
<1>2. /\ Tail(bus) \in Seq(Msgs) /\ Head(bus) \in Elems(bus)
      /\ Elems(Tail(bus)) = Elems(bus) \ {Head(bus)}
      /\ Distinct(Tail(bus))
  BY <1>1, TailElems
<1>3. m \in Elems(bus)
  BY <1>1, <1>2
<1> QED BY <1>1, <1>2, <1>3 DEF PlaceInv

\* A message that leaves the bus for a task or for a command executed inline.
LEMMA PlaceTake ==
    ASSUME TypeOK, TypeOK', PlaceInv, NEW m \in Msgs, Consume(m),
           UNCHANGED <<queueOf, deferred>>,
           \A x \in Msgs \ {m} : Unassigned(x) => Unassigned(x)'
    PROVE  PlaceInv'
<1>1. /\ Elems(bus) \subseteq Msgs
      /\ \A t \in Msgs : Elems(queueOf[t]) \subseteq Msgs
      /\ \A s \in Sessions : Elems(deferred[s]) \subseteq Msgs
  BY ElemsType DEF TypeOK
<1>2. /\ Distinct(bus')
      /\ Elems(bus') = Elems(bus) \ {m}
      /\ \A t \in Msgs : m \notin Elems(queueOf[t])
      /\ \A s \in Sessions : m \notin Elems(deferred[s])
  BY ConsumeElems
<1>3. /\ \A x \in Elems(bus') : Unassigned(x)'
      /\ \A t \in Msgs : \A x \in Elems(queueOf[t]) : Unassigned(x)'
      /\ \A s \in Sessions : \A x \in Elems(deferred[s]) : Unassigned(x)'
  BY <1>1, <1>2 DEF PlaceInv
<1>4. /\ \A t \in Msgs : Distinct(queueOf[t])
      /\ \A s \in Sessions : Distinct(deferred[s])
  BY DEF PlaceInv
<1> QED BY <1>2, <1>3, <1>4, PlaceShrink

----------------------------------------------------------------------------
(* The producers and the loop. *)

\* A message published for the first time is only on the bus.
LEMMA PublishStep ==
    ASSUME IInv, DispatchAssumption, TypeOK', NEW m \in Msgs, Publish(m)
    PROVE  PlaceInv' /\ LifeInv' /\ LockInv'
<1> USE DEF IInv
<1>1. /\ m \notin sent /\ sent' = sent \cup {m} /\ bus' = Append(bus, m)
      /\ KindOf[m] # "direct"
      /\ UNCHANGED <<pc, lockQ, queueOf, deferred, loopOp, fate>>
  BY DEF Publish
<1>2. LockInv'
  BY <1>1 DEF LockInv, HoldsLock, InTurn
<1>3. LifeInv'
  BY <1>1 DEF LifeInv
<1>4. \A x \in Msgs : Unassigned(x) => x \in sent /\ Unassigned(x)'
  BY <1>1 DEF Unassigned
<1>5. Unassigned(m)'
  BY <1>1 DEF Unassigned, LifeInv
<1>6. /\ Elems(bus) \subseteq Msgs
      /\ \A t \in Msgs : Elems(queueOf[t]) \subseteq Msgs
      /\ \A s \in Sessions : Elems(deferred[s]) \subseteq Msgs
  BY ElemsType DEF TypeOK
<1>7. /\ m \notin Elems(bus)
      /\ \A t \in Msgs : m \notin Elems(queueOf[t])
      /\ \A s \in Sessions : m \notin Elems(deferred[s])
  BY <1>1 DEF PlaceInv, Unassigned
<1>8. Elems(bus') = Elems(bus) \cup {m} /\ Distinct(bus')
  BY <1>1, <1>7, AppendElems DEF TypeOK, PlaceInv
<1>9. \A x \in Elems(bus') :
          /\ Unassigned(x)'
          /\ KindOf[x] # "direct"
          /\ \A t \in Msgs : x \notin Elems(queueOf[t])
          /\ \A s \in Sessions : x \notin Elems(deferred[s])
  BY <1>1, <1>4, <1>5, <1>6, <1>7, <1>8 DEF PlaceInv
<1>10. \A t \in Msgs : \A x \in Elems(queueOf[t]) : Unassigned(x)'
  BY <1>4, <1>6 DEF PlaceInv
<1>11. \A s \in Sessions : \A x \in Elems(deferred[s]) : Unassigned(x)'
  BY <1>4, <1>6 DEF PlaceInv
<1>12. PlaceInv'
  <2>1. queueOf' = queueOf /\ deferred' = deferred
    BY <1>1
  <2> HIDE DEF IInv
  <2> QED BY IInv, <2>1, <1>8, <1>9, <1>10, <1>11 DEF PlaceInv, IInv
<1> QED BY <1>2, <1>3, <1>12

\* A direct call queues up for the lock of its session and nowhere else.
LEMMA CallDirectStep ==
    ASSUME IInv, DispatchAssumption, TypeOK', NEW m \in Msgs, CallDirect(m)
    PROVE  PlaceInv' /\ LifeInv' /\ LockInv'
<1> USE DEF IInv
<1>1. /\ m \notin sent /\ sent' = sent \cup {m} /\ KindOf[m] = "direct"
      /\ UNCHANGED <<bus, queueOf, deferred, loopOp, fate>>
      /\ lockQ' = [lockQ EXCEPT ![SessionOf[m]] = Append(@, m)]
      /\ pc' = [pc EXCEPT ![m] = IF lockQ[SessionOf[m]] = <<>> THEN "direct"
                                                            ELSE "lock"]
  BY DEF CallDirect
<1>2. pc[m] = "none" /\ fate[m] = "open"
  BY <1>1 DEF LifeInv
<1>3. LockInv'
  <2> DEFINE v == IF lockQ[SessionOf[m]] = <<>> THEN "direct" ELSE "lock"
  <2>1. v \in LockPcs /\ (v # "lock" => lockQ[SessionOf[m]] = <<>>)
    BY DEF LockPcs
  <2>2. pc[m] \notin LockPcs
    BY <1>2 DEF LockPcs, TurnPcs
  <2>3. pc' = [pc EXCEPT ![m] = v]
    BY <1>1
  <2> HIDE DEF v
  <2> QED BY <2>1, <2>2, <2>3, <1>1, LockJoin
<1>4. LifeInv'
  <2>1. /\ pc'[m] \in {"direct", "lock"}
        /\ \A x \in Msgs \ {m} : pc'[x] = pc[x]
    BY <1>1 DEF TypeOK
  <2> QED BY <2>1, <1>1, <1>2 DEF LifeInv
<1>5. \A x \in Msgs : Unassigned(x) => Unassigned(x)'
  BY <1>1 DEF Unassigned, TypeOK
<1>6. PlaceInv'
  BY <1>1, <1>5, PlaceKeep
<1> QED BY <1>3, <1>4, <1>6

\* A command leaves the bus to be executed inline by the loop.
LEMMA BeginInlineStep ==
    ASSUME IInv, DispatchAssumption, TypeOK', NEW m \in Msgs, BeginInlineCommand(m)
    PROVE  PlaceInv' /\ LifeInv' /\ LockInv'
<1> USE DEF IInv
<1>1. /\ Consume(m) /\ loopOp = NoTask /\ loopOp' = m
      /\ KindOf[m] \in {"stop", "new"}
      /\ UNCHANGED <<sent, pc, lockQ, queueOf, deferred, fate>>
  BY DEF BeginInlineCommand, Consume
<1>2. Unassigned(m)
  BY <1>1, ConsumeElems
<1>3. LockInv'
  BY <1>1 DEF LockInv, HoldsLock, InTurn
<1>4. LifeInv'
  BY <1>1, <1>2 DEF LifeInv, Unassigned
<1>5. \A x \in Msgs \ {m} : Unassigned(x) => Unassigned(x)'
  BY <1>1 DEF Unassigned
<1>6. PlaceInv'
  BY <1>1, <1>5, PlaceTake
<1> QED BY <1>3, <1>4, <1>6

\* A message leaves the bus to become a task of its own.
LEMMA SpawnStep ==
    ASSUME IInv, DispatchAssumption, TypeOK', NEW m \in Msgs, Spawn(m)
    PROVE  PlaceInv' /\ LifeInv' /\ LockInv'
<1> USE DEF IInv
<1>1. /\ Consume(m) /\ KindOf[m] # "stop"
      /\ pc' = [pc EXCEPT ![m] = "created"]
      /\ UNCHANGED <<sent, lockQ, queueOf, deferred, fate, loopOp>>
  BY DEF Spawn
<1>2. Unassigned(m) /\ KindOf[m] # "direct"
  BY <1>1, ConsumeElems
<1>3. LockInv'
  <2>1. "created" \notin LockPcs /\ pc[m] \notin LockPcs
    BY <1>2 DEF LockPcs, TurnPcs, Unassigned
  <2> QED BY <1>1, <2>1, LockKeep
<1>4. LifeInv'
  <2>1. /\ pc'[m] = "created"
        /\ \A x \in Msgs \ {m} : pc'[x] = pc[x]
    BY <1>1 DEF TypeOK
  <2> QED BY <1>1, <1>2, <2>1 DEF LifeInv, Unassigned
<1>5. \A x \in Msgs \ {m} : Unassigned(x) => Unassigned(x)'
  BY <1>1 DEF Unassigned, TypeOK
<1>6. PlaceInv'
  BY <1>1, <1>5, PlaceTake
<1> QED BY <1>3, <1>4, <1>6

\* A command executed inline is over.
LEMMA EndNewStep ==
    ASSUME IInv, DispatchAssumption, TypeOK', NEW m \in Msgs, EndNewInline(m)
    PROVE  PlaceInv' /\ LifeInv' /\ LockInv'
<1> USE DEF IInv
<1>1. /\ loopOp = m /\ loopOp' = NoTask
      /\ fate' = [fate EXCEPT ![m] = "answered"]
      /\ UNCHANGED <<sent, pc, lockQ, queueOf, deferred, bus>>
  BY DEF EndNewInline
<1>2. /\ fate'[m] = "answered"
      /\ \A x \in Msgs \ {m} : fate'[x] = fate[x]
  BY <1>1 DEF TypeOK
<1>3. LockInv'
  BY <1>1 DEF LockInv, HoldsLock, InTurn
<1>4. LifeInv'
  BY <1>1, <1>2 DEF LifeInv, DispatchAssumption
<1>5. \A x \in Msgs : Unassigned(x) => Unassigned(x)'
  BY <1>1, <1>2 DEF Unassigned, DispatchAssumption
<1>6. PlaceInv'
  BY <1>1, <1>5, PlaceKeep
<1> QED BY <1>3, <1>4, <1>6

\* /stop drops the follow-ups of its session's pending queue, which then are
\* nowhere.
LEMMA EndStopStep ==
    ASSUME IInv, DispatchAssumption, TypeOK', NEW m \in Msgs, EndStop(m)
    PROVE  PlaceInv' /\ LifeInv' /\ LockInv'
<1> USE DEF IInv
<1> DEFINE s == SessionOf[m]
           r == registered[s]
<1>0. s \in Sessions /\ r \in Msgs \cup {NoTask}
  BY DEF DispatchAssumption, TypeOK
<1>1. /\ loopOp = m /\ loopOp' = NoTask
      /\ queueOf' = IF r = NoTask THEN queueOf ELSE [queueOf EXCEPT ![r] = <<>>]
      /\ fate' = [x \in Msgs |->
                    IF x = m THEN "answered"
                    ELSE IF r # NoTask /\ Contains(queueOf[r], x)
                         THEN "dropped" ELSE fate[x]]
      /\ UNCHANGED <<sent, pc, lockQ, deferred, bus>>
  BY DEF EndStop
<1>2. m \in sent /\ pc[m] = "none" /\ NoTask \notin Msgs
  BY <1>1 DEF LifeInv, DispatchAssumption
<1>3. \A x \in Msgs \ {m} :
         \/ fate'[x] = fate[x]
         \/ /\ r \in Msgs /\ x \in Elems(queueOf[r])
            /\ fate'[x] = "dropped" /\ Unassigned(x)
  <2> TAKE x \in Msgs \ {m}
  <2>1. CASE r # NoTask /\ Contains(queueOf[r], x)
    <3>1. r \in Msgs /\ queueOf[r] \in Seq(Msgs)
      BY <1>0, <2>1 DEF TypeOK
    <3>2. x \in Elems(queueOf[r])
      BY <2>1, <3>1, ContainsElems
    <3>3. fate'[x] = "dropped"
      BY <1>1, <2>1
    <3> QED BY <3>1, <3>2, <3>3 DEF PlaceInv
  <2>2. CASE ~(r # NoTask /\ Contains(queueOf[r], x))
    BY <1>1, <2>2
  <2> QED BY <2>1, <2>2
<1>4. fate'[m] = "answered"
  BY <1>1
<1>5. LockInv'
  BY <1>1 DEF LockInv, HoldsLock, InTurn
<1>6. LifeInv'
  BY <1>1, <1>2, <1>3, <1>4 DEF LifeInv, Unassigned
<1>7. \A t \in Msgs : \/ queueOf'[t] = queueOf[t] /\ (r \in Msgs => t # r)
                      \/ queueOf'[t] = <<>>
  BY <1>0, <1>1 DEF TypeOK
<1>8. \A x \in Msgs : Unassigned(x) /\ (r \in Msgs => x \notin Elems(queueOf[r]))
                     => Unassigned(x)'
  BY <1>1, <1>2, <1>3 DEF Unassigned
<1>9. /\ Elems(bus) \subseteq Msgs
      /\ \A t \in Msgs : Elems(queueOf[t]) \subseteq Msgs
      /\ \A q \in Sessions : Elems(deferred[q]) \subseteq Msgs
  BY ElemsType DEF TypeOK
<1>10. \A x \in Elems(bus) : Unassigned(x)'
  BY <1>8, <1>9 DEF PlaceInv
<1>11. \A t \in Msgs : /\ Distinct(queueOf'[t])
                       /\ Elems(queueOf'[t]) \subseteq Elems(queueOf[t])
                       /\ \A x \in Elems(queueOf'[t]) : Unassigned(x)'
  BY <1>7, <1>8, <1>9, EmptyElems DEF PlaceInv
<1>12. \A q \in Sessions : \A x \in Elems(deferred[q]) : Unassigned(x)'
  <2> SUFFICES ASSUME NEW q \in Sessions, NEW x \in Elems(deferred[q])
               PROVE  Unassigned(x)'
    OBVIOUS
  <2>1. x \in Msgs /\ Unassigned(x) /\ KindOf[x] = "auto"
    BY <1>9 DEF PlaceInv
  <2>2. r \in Msgs => x \notin Elems(queueOf[r])
    BY <2>1 DEF PlaceInv
  <2> QED BY <2>1, <2>2, <1>8
<1>13. /\ Distinct(bus) /\ bus' = bus /\ deferred' = deferred
       /\ \A q \in Sessions : Distinct(deferred[q])
  BY <1>1 DEF PlaceInv
<1>14. PlaceInv'
  <2> HIDE DEF r, s
  <2> QED BY <1>10, <1>11, <1>12, <1>13, PlaceShrink
<1> QED BY <1>5, <1>6, <1>14

\* An automation turn moves from the bus to the deferred turns.
LEMMA DeferStep ==
    ASSUME IInv, DispatchAssumption, TypeOK', NEW m \in Msgs, Defer(m)
    PROVE  PlaceInv' /\ LifeInv' /\ LockInv'
<1> USE DEF IInv
<1> DEFINE s == SessionOf[m]
<1>0. s \in Sessions /\ deferred[s] \in Seq(Msgs)
  BY DEF DispatchAssumption, TypeOK
<1>1. /\ Consume(m) /\ KindOf[m] = "auto"
      /\ deferred' = [deferred EXCEPT ![s] = Append(@, m)]
      /\ UNCHANGED <<sent, pc, lockQ, queueOf, fate, loopOp>>
  BY DEF Defer
<1>2. /\ Distinct(bus') /\ Elems(bus') = Elems(bus) \ {m} /\ Unassigned(m)
      /\ \A t \in Msgs : m \notin Elems(queueOf[t])
      /\ \A q \in Sessions : m \notin Elems(deferred[q])
  BY <1>1, ConsumeElems
<1>3. LockInv'
  BY <1>1 DEF LockInv, HoldsLock, InTurn
<1>4. LifeInv'
  BY <1>1 DEF LifeInv
<1>5. \A x : Unassigned(x) => Unassigned(x)'
  BY <1>1 DEF Unassigned
<1>6. /\ Distinct(deferred'[s])
      /\ Elems(deferred'[s]) = Elems(deferred[s]) \cup {m}
      /\ \A q \in Sessions \ {s} : deferred'[q] = deferred[q]
  <2>1. /\ deferred'[s] = Append(deferred[s], m)
        /\ \A q \in Sessions \ {s} : deferred'[q] = deferred[q]
    BY <1>0, <1>1 DEF TypeOK
  <2>2. Distinct(deferred[s]) /\ m \notin Elems(deferred[s])
    BY <1>0, <1>2 DEF PlaceInv
  <2> QED BY <1>0, <2>1, <2>2, AppendElems
<1>7. \A q \in Sessions : Distinct(deferred'[q])
  BY <1>6 DEF PlaceInv
<1>8. \A q \in Sessions : \A x \in Elems(deferred'[q]) :
          Unassigned(x)' /\ SessionOf[x] = q /\ KindOf[x] = "auto"
  BY <1>1, <1>2, <1>5, <1>6 DEF PlaceInv
<1>9. \A x \in Elems(bus') :
          /\ Unassigned(x)'
          /\ KindOf[x] # "direct"
          /\ \A t \in Msgs : x \notin Elems(queueOf[t])
          /\ \A q \in Sessions : x \notin Elems(deferred'[q])
  BY <1>2, <1>5, <1>6 DEF PlaceInv
<1>10. \A t \in Msgs : \A x \in Elems(queueOf[t]) : Unassigned(x)'
  BY <1>5 DEF PlaceInv
<1>11. PlaceInv'
  BY <1>1, <1>2, <1>7, <1>8, <1>9, <1>10 DEF PlaceInv
<1> QED BY <1>3, <1>4, <1>11

\* A published pending queue belongs to the session of its task.
LEMMA RouteStep ==
    ASSUME IInv, DispatchAssumption, TypeOK', NEW m \in Msgs, RouteToPending(m)
    PROVE  PlaceInv' /\ LifeInv' /\ LockInv'
<1> USE DEF IInv
<1> DEFINE r == registered[SessionOf[m]]
<1>0. /\ r \in Msgs /\ SessionOf[r] = SessionOf[m]
      /\ queueOf[r] \in Seq(Msgs)
  BY DEF DispatchAssumption, TypeOK, RouteToPending, QueueHasRoom, QueueHasConsumer
<1>1. /\ Consume(m) /\ KindOf[m] \in {"user", "cont"}
      /\ queueOf' = [queueOf EXCEPT ![r] = Append(@, m)]
      /\ UNCHANGED <<sent, pc, lockQ, deferred, fate, loopOp>>
  BY DEF RouteToPending
<1> HIDE DEF r
<1>2. /\ Distinct(bus') /\ Elems(bus') = Elems(bus) \ {m} /\ Unassigned(m)
      /\ \A t \in Msgs : m \notin Elems(queueOf[t])
      /\ \A q \in Sessions : m \notin Elems(deferred[q])
  BY <1>1, ConsumeElems
<1>3. LockInv'
  BY <1>1 DEF LockInv, HoldsLock, InTurn
<1>4. LifeInv'
  BY <1>1 DEF LifeInv
<1>5. \A x : Unassigned(x) => Unassigned(x)'
  BY <1>1 DEF Unassigned
<1>6. /\ Distinct(queueOf'[r])
      /\ Elems(queueOf'[r]) = Elems(queueOf[r]) \cup {m}
      /\ \A t \in Msgs \ {r} : queueOf'[t] = queueOf[t]
  <2>1. /\ queueOf'[r] = Append(queueOf[r], m)
        /\ \A t \in Msgs \ {r} : queueOf'[t] = queueOf[t]
    BY <1>0, <1>1 DEF TypeOK
  <2>2. Distinct(queueOf[r]) /\ m \notin Elems(queueOf[r])
    BY <1>0, <1>2 DEF PlaceInv
  <2> QED BY <1>0, <2>1, <2>2, AppendElems
<1>7. \A t \in Msgs : Distinct(queueOf'[t])
  BY <1>6 DEF PlaceInv
<1>8. \A t \in Msgs : \A x \in Elems(queueOf'[t]) :
          /\ Unassigned(x)'
          /\ SessionOf[x] = SessionOf[t]
          /\ KindOf[x] \in {"user", "cont"}
  BY <1>0, <1>1, <1>2, <1>5, <1>6 DEF PlaceInv
<1>9. \A t \in Msgs : \A x \in Elems(queueOf'[t]) :
          \A u \in Msgs : x \in Elems(queueOf'[u]) => u = t
  <2> SUFFICES ASSUME NEW t \in Msgs, NEW u \in Msgs, NEW x \in Elems(queueOf'[t]),
                      x \in Elems(queueOf'[u])
               PROVE  u = t
    OBVIOUS
  <2>1. CASE x = m
    BY <2>1, <1>2, <1>6
  <2>2. CASE x # m
    <3>1. x \in Elems(queueOf[t]) /\ x \in Elems(queueOf[u])
      BY <2>2, <1>6
    <3> QED BY <3>1 DEF PlaceInv
  <2> QED BY <2>1, <2>2
<1>10. \A x \in Elems(bus') :
          /\ Unassigned(x)'
          /\ KindOf[x] # "direct"
          /\ \A t \in Msgs : x \notin Elems(queueOf'[t])
          /\ \A q \in Sessions : x \notin Elems(deferred[q])
  BY <1>2, <1>5, <1>6 DEF PlaceInv
<1>11. \A q \in Sessions : \A x \in Elems(deferred[q]) : Unassigned(x)'
  BY <1>5 DEF PlaceInv
<1>12. PlaceInv'
  BY <1>1, <1>2, <1>7, <1>8, <1>9, <1>10, <1>11 DEF PlaceInv
<1> QED BY <1>3, <1>4, <1>12

----------------------------------------------------------------------------
(* The tasks. *)

\* A task that is nobody's waiting message moves on: the places stay.
LEMMA TaskMoves ==
    ASSUME IInv, TypeOK', NEW t \in Msgs, NEW v \in Pcs \ {"none", "done"},
           pc[t] \notin {"none", "done"}, pc' = [pc EXCEPT ![t] = v],
           v = "direct" <=> KindOf[t] = "direct",
           UNCHANGED <<bus, sent, queueOf, deferred, loopOp, fate>>
    PROVE  PlaceInv' /\ LifeInv'
<1> USE DEF IInv
<1>1. /\ pc'[t] = v
      /\ \A u \in Msgs \ {t} : pc'[u] = pc[u]
  BY DEF TypeOK
<1>2. \A x \in Msgs : Unassigned(x) => Unassigned(x)'
  BY <1>1 DEF Unassigned
<1>3. PlaceInv'
  BY <1>2, PlaceKeep
<1>4. LifeInv'
  BY <1>1 DEF LifeInv
<1> QED BY <1>3, <1>4

\* EnterGate takes its task to the gate or into the turn.
LEMMA EnterGatePc ==
    ASSUME NEW t \in Msgs, EnterGate(t)
    PROVE  \E v \in {"gate", "run"} : pc' = [pc EXCEPT ![t] = v]
BY DEF EnterGate, BeginTurn

\* A task that starts queues up for its lock and takes it if it is free.
LEMMA StartTaskStep ==
    ASSUME IInv, DispatchAssumption, TypeOK', NEW t \in Msgs, StartTask(t)
    PROVE  PlaceInv' /\ LifeInv' /\ LockInv'
<1> USE DEF IInv
<1>1. /\ pc[t] = "created"
      /\ lockQ' = [lockQ EXCEPT ![SessionOf[t]] = Append(@, t)]
      /\ UNCHANGED <<bus, sent, queueOf, deferred, loopOp, fate>>
  BY DEF StartTask
<1>2. PICK v \in {"lock", "gate", "run"} :
          /\ pc' = [pc EXCEPT ![t] = v]
          /\ v # "lock" => lockQ[SessionOf[t]] = <<>>
  BY EnterGatePc DEF StartTask
<1>3. /\ v \in LockPcs /\ v \in Pcs \ {"none", "done"} /\ v # "direct"
      /\ pc[t] \notin LockPcs
  BY <1>1 DEF LockPcs, TurnPcs, Pcs
<1>4. LockInv'
  BY <1>1, <1>2, <1>3, LockJoin
<1>5. KindOf[t] # "direct"
  BY <1>1 DEF LifeInv
<1> QED BY <1>1, <1>2, <1>3, <1>4, <1>5, TaskMoves

\* The next waiter of a released lock goes on to the gate.
LEMMA LockGrantedStep ==
    ASSUME IInv, DispatchAssumption, TypeOK', NEW t \in Msgs, LockGranted(t)
    PROVE  PlaceInv' /\ LifeInv' /\ LockInv'
<1> USE DEF IInv
<1>1. /\ pc[t] = "lock" /\ Head(lockQ[SessionOf[t]]) = t
      /\ UNCHANGED <<bus, sent, queueOf, deferred, loopOp, fate, lockQ>>
  BY DEF LockGranted
<1>2. PICK v \in {"direct", "gate", "run"} :
          /\ pc' = [pc EXCEPT ![t] = v]
          /\ v = "direct" <=> KindOf[t] = "direct"
  BY EnterGatePc DEF LockGranted
<1>3. /\ v \in LockPcs /\ v \in Pcs \ {"none", "done"} /\ pc[t] \in LockPcs
  BY <1>1 DEF LockPcs, TurnPcs, Pcs
<1>4. LockInv'
  BY <1>1, <1>2, <1>3, LockKeep
<1> QED BY <1>1, <1>2, <1>3, <1>4, TaskMoves

\* A task that holds its lock moves on without leaving it.
LEMMA HolderMoves ==
    ASSUME IInv, TypeOK', NEW t \in Msgs, NEW v \in TurnPcs,
           HoldsLock(t), KindOf[t] # "direct", pc' = [pc EXCEPT ![t] = v],
           UNCHANGED <<bus, sent, queueOf, deferred, loopOp, fate, lockQ>>
    PROVE  PlaceInv' /\ LifeInv' /\ LockInv'
<1> USE DEF IInv
<1>1. /\ pc[t] \in LockPcs \ {"lock"} /\ pc[t] \notin {"none", "done"}
      /\ v \in LockPcs /\ v \in Pcs \ {"none", "done"} /\ v # "direct"
  BY DEF HoldsLock, InTurn, LockPcs, TurnPcs, Pcs
<1>2. Head(lockQ[SessionOf[t]]) = t
  BY DEF LockInv
<1>3. LockInv'
  BY <1>1, <1>2, LockKeep
<1> QED BY <1>1, <1>3, TaskMoves

\* Steps inside a turn leave the lock with its holder.
LEMMA HolderSteps ==
    ASSUME IInv, DispatchAssumption, TypeOK', NEW t \in Msgs,
           GateGranted(t) \/ CommandNew(t) \/ BlockOnContinuation(t)
    PROVE  PlaceInv' /\ LifeInv' /\ LockInv'
<1> USE DEF IInv
<1>1. \E v \in {"run", "await", "put"} : pc' = [pc EXCEPT ![t] = v]
  BY DEF GateGranted, BeginTurn, CommandNew, BlockOnContinuation
<1>2. pc[t] \in {"gate", "run"}
  BY DEF GateGranted, CommandNew, BlockOnContinuation
<1>3. HoldsLock(t) /\ KindOf[t] # "direct"
  BY <1>2 DEF HoldsLock, InTurn, TurnPcs, LifeInv
<1>4. UNCHANGED <<bus, sent, queueOf, deferred, loopOp, fate, lockQ>>
  BY DEF GateGranted, CommandNew, CancelActive, BlockOnContinuation
<1> QED BY <1>1, <1>3, <1>4, HolderMoves DEF TurnPcs

\* The end of a task that leaves the places alone.
LEMMA TaskEnds ==
    ASSUME IInv, TypeOK', NEW t \in Msgs, NEW outcome \in Fates \ {"open"},
           pc[t] \notin {"none", "done"}, pc' = [pc EXCEPT ![t] = "done"],
           fate' = [fate EXCEPT ![t] = outcome],
           sent \subseteq sent',
           \A x \in sent' \ sent : KindOf[x] # "direct",
           UNCHANGED loopOp
    PROVE  /\ LifeInv'
           /\ \A x \in Msgs : Unassigned(x) => Unassigned(x)'
           /\ \A x \in (sent' \ sent) \cap Msgs : Unassigned(x)'
<1> USE DEF IInv
<1>1. /\ pc'[t] = "done" /\ fate'[t] = outcome
      /\ \A u \in Msgs \ {t} : pc'[u] = pc[u] /\ fate'[u] = fate[u]
  BY DEF TypeOK
<1>2. t \in sent
  BY DEF LifeInv
<1>3. KindOf[t] # "stop"
  BY DEF LifeInv
<1>4. LifeInv'
  <2>1. \A m \in Msgs \ sent' : pc'[m] = "none" /\ fate'[m] = "open"
    BY <1>1, <1>2 DEF LifeInv
  <2>2. \A m \in Msgs : /\ pc'[m] \notin {"none", "done"} => fate'[m] = "open"
                        /\ pc'[m] = "done" => fate'[m] # "open"
                        /\ pc'[m] # "none" => KindOf[m] # "stop"
                        /\ pc'[m] = "direct" => KindOf[m] = "direct"
                        /\ KindOf[m] = "direct" => pc'[m] \in {"none", "lock", "direct", "done"}
    BY <1>1, <1>3 DEF LifeInv
  <2>3. loopOp \in Msgs => /\ loopOp \in sent'
                           /\ pc'[loopOp] = "none"
                           /\ fate'[loopOp] = "open"
                           /\ KindOf[loopOp] \in {"stop", "new"}
    BY <1>1 DEF LifeInv
  <2> QED BY <2>1, <2>2, <2>3 DEF LifeInv
<1>5. \A x \in Msgs : Unassigned(x) => Unassigned(x)'
  BY <1>1 DEF Unassigned
<1>6. \A x \in (sent' \ sent) \cap Msgs : Unassigned(x)'
  BY <1>1, <1>2 DEF Unassigned, LifeInv
<1> QED BY <1>4, <1>5, <1>6

\* A task cancelled before its first line was in no queue.
LEMMA CancelUnstartedStep ==
    ASSUME IInv, DispatchAssumption, TypeOK', NEW t \in Msgs, CancelUnstarted(t)
    PROVE  PlaceInv' /\ LifeInv' /\ LockInv'
<1> USE DEF IInv
<1>1. /\ pc[t] = "created" /\ pc' = [pc EXCEPT ![t] = "done"]
      /\ fate' = [fate EXCEPT ![t] = "cancelled"]
      /\ UNCHANGED <<bus, sent, queueOf, deferred, loopOp, lockQ>>
  BY DEF CancelUnstarted
<1>2. "cancelled" \in Fates \ {"open"} /\ pc[t] \notin LockPcs /\ "done" \notin LockPcs
  BY <1>1 DEF Fates, LockPcs, TurnPcs
<1>3. LifeInv' /\ \A x \in Msgs : Unassigned(x) => Unassigned(x)'
  BY <1>1, <1>2, TaskEnds
<1>4. LockInv'
  BY <1>1, <1>2, LockKeep
<1> QED BY <1>1, <1>3, <1>4, PlaceKeep

\* A direct call gives its lock back.
LEMMA EndDirectStep ==
    ASSUME IInv, DispatchAssumption, TypeOK', NEW t \in Msgs, EndDirect(t)
    PROVE  PlaceInv' /\ LifeInv' /\ LockInv'
<1> USE DEF IInv
<1>1. /\ pc[t] = "direct" /\ pc' = [pc EXCEPT ![t] = "done"]
      /\ lockQ' = [lockQ EXCEPT ![SessionOf[t]] = Without(@, t)]
      /\ fate' = [fate EXCEPT ![t] = "answered"]
      /\ UNCHANGED <<bus, sent, queueOf, deferred, loopOp>>
  BY DEF EndDirect
<1>2. "answered" \in Fates \ {"open"}
  BY DEF Fates
<1>3. LifeInv' /\ \A x \in Msgs : Unassigned(x) => Unassigned(x)'
  BY <1>1, <1>2, TaskEnds
<1>4. LockInv'
  BY <1>1, LockLeave
<1> QED BY <1>1, <1>3, <1>4, PlaceKeep

\* Draining takes follow-ups out of the turn's own pending queue for good.
LEMMA DrainStep ==
    ASSUME IInv, DispatchAssumption, TypeOK', NEW t \in Msgs, DrainInjections(t)
    PROVE  PlaceInv' /\ LifeInv' /\ LockInv'
<1> USE DEF IInv
<1> DEFINE taken == FirstOf(queueOf[t], MaxInject)
           rest == RestOf(queueOf[t], MaxInject)
<1>0. queueOf[t] \in Seq(Msgs) /\ MaxInject \in Nat /\ Distinct(queueOf[t])
  BY DEF TypeOK, DispatchAssumption, PlaceInv
<1>1. /\ queueOf' = [queueOf EXCEPT ![t] = rest]
      /\ fate' = [x \in Msgs |-> IF Contains(taken, x) THEN "injected" ELSE fate[x]]
      /\ UNCHANGED <<bus, sent, pc, lockQ, deferred, loopOp>>
  BY DEF DrainInjections
<1>2. /\ Elems(queueOf[t]) = Elems(taken) \cup Elems(rest)
      /\ Elems(taken) \cap Elems(rest) = {}
      /\ Distinct(rest)
      /\ taken \in Seq(Msgs)
  BY <1>0, FirstRestElems, FirstRestType
<1>3. /\ queueOf'[t] = rest
      /\ \A u \in Msgs \ {t} : queueOf'[u] = queueOf[u]
  BY <1>1 DEF TypeOK
<1>4. \A x \in Msgs : fate'[x] = IF x \in Elems(taken) THEN "injected" ELSE fate[x]
  BY <1>1, <1>2, ContainsElems
<1> HIDE DEF taken, rest
<1>5. \A x \in Elems(taken) : x \in Msgs /\ Unassigned(x)
  BY <1>2, ElemsType DEF PlaceInv
<1>6. LockInv'
  BY <1>1 DEF LockInv, HoldsLock, InTurn
<1>7. LifeInv'
  BY <1>1, <1>4, <1>5 DEF LifeInv, Unassigned
<1>8. \A x \in Msgs : Unassigned(x) /\ x \notin Elems(taken) => Unassigned(x)'
  BY <1>1, <1>4 DEF Unassigned
<1>9. /\ Elems(bus) \subseteq Msgs
      /\ \A u \in Msgs : Elems(queueOf[u]) \subseteq Msgs
      /\ \A q \in Sessions : Elems(deferred[q]) \subseteq Msgs
  BY ElemsType DEF TypeOK
<1>10. \A x \in Elems(bus) : Unassigned(x)'
  BY <1>2, <1>8, <1>9 DEF PlaceInv
<1>11. \A u \in Msgs : /\ Distinct(queueOf'[u])
                       /\ Elems(queueOf'[u]) \subseteq Elems(queueOf[u])
                       /\ \A x \in Elems(queueOf'[u]) : Unassigned(x)'
  <2> TAKE u \in Msgs
  <2>1. CASE u = t
    <3>1. \A x \in Elems(rest) : x \in Msgs /\ Unassigned(x) /\ x \notin Elems(taken)
      BY <1>2, <1>9 DEF PlaceInv
    <3> QED BY <2>1, <3>1, <1>2, <1>3, <1>8
  <2>2. CASE u # t
    <3>1. \A x \in Elems(queueOf[u]) : x \in Msgs /\ Unassigned(x) /\ x \notin Elems(taken)
      BY <2>2, <1>2, <1>9 DEF PlaceInv
    <3> QED BY <2>2, <3>1, <1>3, <1>8 DEF PlaceInv
  <2> QED BY <2>1, <2>2
<1>12. \A q \in Sessions : \A x \in Elems(deferred[q]) : Unassigned(x)'
  <2> SUFFICES ASSUME NEW q \in Sessions, NEW x \in Elems(deferred[q])
               PROVE  Unassigned(x)'
    OBVIOUS
  <2>1. x \in Msgs /\ Unassigned(x) /\ KindOf[x] = "auto"
    BY <1>9 DEF PlaceInv
  <2>2. x \notin Elems(taken)
    BY <2>1, <1>2 DEF PlaceInv
  <2> QED BY <2>1, <2>2, <1>8
<1>13. Distinct(bus) /\ \A q \in Sessions : Distinct(deferred[q])
  BY DEF PlaceInv
<1>14. PlaceInv'
  BY <1>1, <1>10, <1>11, <1>12, <1>13, PlaceShrink
<1> QED BY <1>6, <1>7, <1>14

\* A task cancelled while it waits gives up its place and publishes the next
\* deferred turn.
LEMMA CancelWaitingStep ==
    ASSUME IInv, DispatchAssumption, TypeOK', NEW t \in Msgs, CancelWaiting(t)
    PROVE  PlaceInv' /\ LifeInv' /\ LockInv'
<1> USE DEF IInv
<1> DEFINE s == SessionOf[t]
           next == NextDeferred(s)
<1>0. s \in Sessions
  BY DEF DispatchAssumption
<1>1. /\ pc[t] \in {"lock", "gate"} /\ pc' = [pc EXCEPT ![t] = "done"]
      /\ lockQ' = [lockQ EXCEPT ![s] = Without(@, t)]
      /\ fate' = [fate EXCEPT ![t] = "cancelled"]
      /\ bus' = bus \o next
      /\ deferred' = DropNextDeferred(s)
      /\ UNCHANGED <<sent, queueOf, loopOp>>
  BY DEF CancelWaiting
<1>2. "cancelled" \in Fates \ {"open"}
  BY DEF Fates
<1>3. LifeInv' /\ \A x \in Msgs : Unassigned(x) => Unassigned(x)'
  BY <1>1, <1>2, TaskEnds
<1>4. LockInv'
  BY <1>1, LockLeave
<1>5. /\ next \in Seq(Msgs) /\ Distinct(next)
      /\ Elems(next) \subseteq Elems(deferred[s])
      /\ \A r \in Sessions :
            /\ Distinct(deferred'[r])
            /\ Elems(deferred'[r]) \subseteq Elems(deferred[r])
            /\ Elems(deferred'[r]) \cap Elems(next) = {}
  BY <1>0, <1>1, DeferredElems
<1> HIDE DEF next
<1>6. Elems(bus') = Elems(bus) \cup Elems(next) /\ Distinct(bus')
  <2>1. Elems(bus) \cap Elems(next) = {}
    BY <1>0, <1>5 DEF PlaceInv
  <2>2. bus \in Seq(Msgs) /\ Distinct(bus) /\ next \in Seq(Msgs) /\ Distinct(next)
    BY <1>5 DEF TypeOK, PlaceInv
  <2>3. Elems(bus \o next) = Elems(bus) \cup Elems(next) /\ Distinct(bus \o next)
    BY <2>1, <2>2, ConcatElems
  <2> QED BY <1>1, <2>3
<1>7. /\ Elems(bus) \subseteq Msgs
      /\ \A u \in Msgs : Elems(queueOf[u]) \subseteq Msgs
      /\ \A q \in Sessions : Elems(deferred[q]) \subseteq Msgs
  BY ElemsType DEF TypeOK
<1>8. \A x \in Elems(next) : /\ x \in Msgs /\ Unassigned(x) /\ KindOf[x] = "auto"
                             /\ \A u \in Msgs : x \notin Elems(queueOf[u])
  BY <1>0, <1>5, <1>7 DEF PlaceInv
<1>9. \A x \in Elems(bus') :
          /\ Unassigned(x)'
          /\ KindOf[x] # "direct"
          /\ \A u \in Msgs : x \notin Elems(queueOf[u])
          /\ \A q \in Sessions : x \notin Elems(deferred'[q])
  BY <1>3, <1>5, <1>6, <1>7, <1>8 DEF PlaceInv
<1>10. \A u \in Msgs : \A x \in Elems(queueOf[u]) : Unassigned(x)'
  BY <1>3, <1>7 DEF PlaceInv
<1>11. \A q \in Sessions : \A x \in Elems(deferred'[q]) :
          Unassigned(x)' /\ SessionOf[x] = q /\ KindOf[x] = "auto"
  BY <1>3, <1>5, <1>7 DEF PlaceInv
<1>12. PlaceInv'
  <2>1. queueOf' = queueOf
    BY <1>1
  <2> QED BY <2>1, <1>5, <1>6, <1>9, <1>10, <1>11 DEF PlaceInv
<1> QED BY <1>3, <1>4, <1>12

\* However a turn ends: what it re-publishes comes from its own queue, or is
\* the continuation it has just made.
LEMMA LeaveTurnStep ==
    ASSUME IInv, DispatchAssumption, TypeOK', NEW t \in Msgs,
           NEW outcome \in Fates \ {"open"}, NEW left \in Seq(Msgs),
           InTurn(t), LeaveTurn(t, outcome, left),
           Distinct(left), sent' = sent \cup Elems(left),
           \A m \in Elems(left) : \/ m \in Elems(queueOf[t])
                                  \/ m \notin sent /\ KindOf[m] = "cont"
    PROVE  PlaceInv' /\ LifeInv' /\ LockInv'
<1> USE DEF IInv
<1> DEFINE s == SessionOf[t]
           next == NextDeferred(s)
<1>0. s \in Sessions
  BY DEF DispatchAssumption
<1>1. /\ pc' = [pc EXCEPT ![t] = "done"]
      /\ lockQ' = [lockQ EXCEPT ![s] = Without(@, t)]
      /\ fate' = [fate EXCEPT ![t] = outcome]
      /\ bus' = bus \o left \o next
      /\ deferred' = DropNextDeferred(s)
      /\ queueOf' = [queueOf EXCEPT ![t] = <<>>]
      /\ UNCHANGED loopOp
  BY DEF LeaveTurn
<1>2. pc[t] \notin {"none", "done"}
  BY DEF InTurn, TurnPcs
<1>3. /\ Elems(bus) \subseteq Msgs
      /\ \A u \in Msgs : Elems(queueOf[u]) \subseteq Msgs
      /\ \A q \in Sessions : Elems(deferred[q]) \subseteq Msgs
      /\ Elems(left) \subseteq Msgs
  BY ElemsType DEF TypeOK
<1>4. /\ LifeInv'
      /\ \A x \in Msgs : Unassigned(x) => Unassigned(x)'
      /\ \A x \in (sent' \ sent) \cap Msgs : Unassigned(x)'
  <2>1. \A x \in sent' \ sent : KindOf[x] # "direct"
    <3> TAKE x \in sent' \ sent
    <3>1. x \in Elems(left) /\ x \notin sent
      OBVIOUS
    <3>2. CASE x \in Elems(queueOf[t])
      BY <3>1, <3>2 DEF PlaceInv, Unassigned
    <3>3. CASE KindOf[x] = "cont"
      BY <3>3
    <3> QED BY <3>1, <3>2, <3>3
  <2>2. sent \subseteq sent'
    OBVIOUS
  <2> QED BY <2>1, <2>2, <1>1, <1>2, TaskEnds
<1>5. LockInv'
  BY <1>1, LockLeave
<1>6. /\ next \in Seq(Msgs) /\ Distinct(next)
      /\ Elems(next) \subseteq Elems(deferred[s])
      /\ \A r \in Sessions :
            /\ Distinct(deferred'[r])
            /\ Elems(deferred'[r]) \subseteq Elems(deferred[r])
            /\ Elems(deferred'[r]) \cap Elems(next) = {}
  BY <1>0, <1>1, DeferredElems
<1> HIDE DEF next
<1>7. \A x \in Elems(next) : /\ x \in Msgs /\ Unassigned(x) /\ KindOf[x] = "auto"
                             /\ \A u \in Msgs : x \notin Elems(queueOf[u])
  BY <1>0, <1>3, <1>6 DEF PlaceInv
<1>8. \A x \in Elems(left) :
          /\ x \in Msgs /\ Unassigned(x)' /\ KindOf[x] \in {"user", "cont"}
          /\ x \notin Elems(bus)
          /\ \A u \in Msgs \ {t} : x \notin Elems(queueOf[u])
          /\ \A q \in Sessions : x \notin Elems(deferred[q])
  <2> SUFFICES ASSUME NEW x \in Elems(left)
               PROVE  /\ x \in Msgs /\ Unassigned(x)'
                      /\ KindOf[x] \in {"user", "cont"}
                      /\ x \notin Elems(bus)
                      /\ \A u \in Msgs \ {t} : x \notin Elems(queueOf[u])
                      /\ \A q \in Sessions : x \notin Elems(deferred[q])
    OBVIOUS
  <2>1. CASE x \in Elems(queueOf[t])
    <3>1. x \in Msgs /\ Unassigned(x) /\ KindOf[x] \in {"user", "cont"}
      BY <2>1, <1>3 DEF PlaceInv
    <3>2. \A q \in Sessions : x \notin Elems(deferred[q])
      BY <3>1 DEF PlaceInv
    <3>3. x \notin Elems(bus) /\ \A u \in Msgs \ {t} : x \notin Elems(queueOf[u])
      BY <2>1 DEF PlaceInv
    <3> QED BY <3>1, <3>2, <3>3, <1>4
  <2>2. CASE x \notin sent /\ KindOf[x] = "cont"
    <3>1. x \in Msgs /\ x \in sent'
      BY <1>3
    <3>2. Unassigned(x)'
      BY <2>2, <3>1, <1>4
    <3> QED BY <2>2, <3>1, <3>2 DEF PlaceInv, Unassigned
  <2> QED BY <2>1, <2>2
<1>9. /\ Elems(bus') = Elems(bus) \cup Elems(left) \cup Elems(next)
      /\ Distinct(bus')
  <2>1. Elems(bus) \cap Elems(left) = {} /\ bus \in Seq(Msgs) /\ Distinct(bus)
    BY <1>8 DEF TypeOK, PlaceInv
  <2>2. /\ Elems(bus \o left) = Elems(bus) \cup Elems(left)
        /\ Distinct(bus \o left)
        /\ bus \o left \in Seq(Msgs)
    BY <2>1, ConcatElems
  <2>3. (Elems(bus) \cup Elems(left)) \cap Elems(next) = {}
    BY <1>0, <1>6, <1>8 DEF PlaceInv
  <2> DEFINE front == bus \o left
  <2>4. bus' = front \o next
    BY <1>1
  <2>5. /\ front \in Seq(Msgs) /\ Distinct(front)
        /\ Elems(front) = Elems(bus) \cup Elems(left)
    BY <2>2
  <2> HIDE DEF front
  <2>6. /\ Elems(front \o next) = Elems(front) \cup Elems(next)
        /\ Distinct(front \o next)
    BY <1>6, <2>3, <2>5, ConcatElems
  <2> QED BY <2>4, <2>5, <2>6
<1>10. \A u \in Msgs : \/ u # t /\ queueOf'[u] = queueOf[u]
                       \/ u = t /\ queueOf'[u] = <<>>
  BY <1>1 DEF TypeOK
<1>11. \A u \in Msgs : /\ Distinct(queueOf'[u])
                       /\ Elems(queueOf'[u]) \subseteq Elems(queueOf[u])
                       /\ u = t => Elems(queueOf'[u]) = {}
  BY <1>10, EmptyElems DEF PlaceInv
<1>12. \A x \in Elems(bus') :
          /\ Unassigned(x)'
          /\ KindOf[x] # "direct"
          /\ \A u \in Msgs : x \notin Elems(queueOf'[u])
          /\ \A q \in Sessions : x \notin Elems(deferred'[q])
  <2> TAKE x \in Elems(bus')
  <2>1. CASE x \in Elems(bus)
    BY <2>1, <1>3, <1>4, <1>6, <1>11 DEF PlaceInv
  <2>2. CASE x \in Elems(left)
    BY <2>2, <1>6, <1>8, <1>11
  <2>3. CASE x \in Elems(next)
    BY <2>3, <1>4, <1>6, <1>7, <1>11
  <2> QED BY <2>1, <2>2, <2>3, <1>9
<1>13. \A u \in Msgs : \A x \in Elems(queueOf'[u]) :
          /\ Unassigned(x)'
          /\ SessionOf[x] = SessionOf[u]
          /\ KindOf[x] \in {"user", "cont"}
          /\ \A w \in Msgs : x \in Elems(queueOf'[w]) => w = u
  BY <1>3, <1>4, <1>11 DEF PlaceInv
<1>14. \A q \in Sessions : \A x \in Elems(deferred'[q]) :
          Unassigned(x)' /\ SessionOf[x] = q /\ KindOf[x] = "auto"
  BY <1>3, <1>4, <1>6 DEF PlaceInv
<1>15. PlaceInv'
  <2>1. /\ Distinct(bus')
        /\ \A u \in Msgs : Distinct(queueOf'[u])
        /\ \A q \in Sessions : Distinct(deferred'[q])
    BY <1>6, <1>9, <1>11
  <2> QED BY <2>1, <1>12, <1>13, <1>14 DEF PlaceInv
<1> QED BY <1>4, <1>5, <1>15

----------------------------------------------------------------------------
(* The pending queues have a consumer. *)

\* Turns go on, and the queues stay as they are.
LEMMA ConsumerKeep ==
    ASSUME QueueHasConsumer, TypeOK, DispatchAssumption, UNCHANGED <<registered, queueOf>>,
           \A u \in Msgs : InTurn(u) => InTurn(u)'
    PROVE  QueueHasConsumer'
<1>1. \A s \in Sessions : registered[s] # NoTask => registered[s] \in Msgs
  BY DEF TypeOK
<1> QED BY <1>1 DEF QueueHasConsumer

\* A task that is not in its turn has no queue; when it moves, nobody's turn
\* ends.
LEMMA ConsumerMove ==
    ASSUME QueueHasConsumer, TypeOK, DispatchAssumption, UNCHANGED <<registered, queueOf>>,
           NEW t \in Msgs, NEW v, pc' = [pc EXCEPT ![t] = v], InTurn(t) => v \in TurnPcs
    PROVE  QueueHasConsumer'
<1>1. \A u \in Msgs : InTurn(u) => InTurn(u)'
  BY DEF InTurn, TypeOK
<1> QED BY <1>1, ConsumerKeep

\* A turn that begins with an empty, published queue keeps the queues consumed.
LEMMA ConsumerBegin ==
    ASSUME QueueHasConsumer, TypeOK, DispatchAssumption, UNCHANGED queueOf,
           NEW t \in Msgs, BeginTurn(t)
    PROVE  QueueHasConsumer'
<1>1. /\ pc'[t] = "run"
      /\ \A u \in Msgs \ {t} : pc'[u] = pc[u]
      /\ \A s \in Sessions : registered'[s] = IF s = SessionOf[t] THEN t ELSE registered[s]
  BY DEF BeginTurn, TypeOK, DispatchAssumption
<1>2. \A u \in Msgs : InTurn(u) \/ u = t => InTurn(u)'
  BY <1>1 DEF InTurn, TurnPcs
<1>3. \A s \in Sessions : registered[s] # NoTask => registered[s] \in Msgs
  BY DEF TypeOK
<1> QED BY <1>1, <1>2, <1>3 DEF QueueHasConsumer

\* EnterGate, with or without a free slot, keeps the queues consumed.
LEMMA ConsumerGate ==
    ASSUME QueueHasConsumer, TypeOK, DispatchAssumption, UNCHANGED queueOf,
           NEW t \in Msgs, EnterGate(t), ~InTurn(t)
    PROVE  QueueHasConsumer'
<1>1. CASE BeginTurn(t)
  BY <1>1, ConsumerBegin
<1>2. CASE ~BeginTurn(t)
  <2>1. pc' = [pc EXCEPT ![t] = "gate"] /\ UNCHANGED registered
    BY <1>2 DEF EnterGate
  <2> QED BY <2>1, ConsumerMove
<1> QED BY <1>1, <1>2

\* A turn that ends takes its queue's content and its registration away.
LEMMA ConsumerLeave ==
    ASSUME QueueHasConsumer, TypeOK, DispatchAssumption, NEW t \in Msgs,
           NEW outcome, NEW left, LeaveTurn(t, outcome, left)
    PROVE  QueueHasConsumer'
<1> DEFINE s == SessionOf[t]
<1>1. /\ s \in Sessions
      /\ \A u \in Msgs \ {t} : pc'[u] = pc[u] /\ queueOf'[u] = queueOf[u]
      /\ queueOf'[t] = <<>>
      /\ registered'[s] = IF registered[s] = t THEN NoTask ELSE registered[s]
      /\ \A q \in Sessions \ {s} : registered'[q] = registered[q]
  BY DEF LeaveTurn, TypeOK, DispatchAssumption
<1>2. \A u \in Msgs \ {t} : InTurn(u) => InTurn(u)'
  BY <1>1 DEF InTurn
<1>3. \A q \in Sessions : registered'[q] # NoTask =>
          pc'[registered'[q]] \in TurnPcs /\ SessionOf[registered'[q]] = q
  <2> SUFFICES ASSUME NEW q \in Sessions, registered'[q] # NoTask
               PROVE  pc'[registered'[q]] \in TurnPcs /\ SessionOf[registered'[q]] = q
    OBVIOUS
  <2>1. registered'[q] = registered[q] /\ registered[q] \in Msgs
    BY <1>1 DEF TypeOK
  <2>2. InTurn(registered[q]) /\ SessionOf[registered[q]] = q
    BY <2>1 DEF QueueHasConsumer
  <2>3. registered[q] # t
    BY <1>1, <2>1, <2>2
  <2> QED BY <2>1, <2>2, <2>3, <1>2 DEF InTurn
<1>4. \A u \in Msgs : queueOf'[u] # <<>> => InTurn(u)'
  BY <1>1, <1>2 DEF QueueHasConsumer
<1> QED BY <1>3, <1>4 DEF QueueHasConsumer, InTurn

\* Every step keeps a consumer behind every pending queue.
LEMMA ConsumerStep ==
    ASSUME IInv, DispatchAssumption, NEW t \in Msgs,
           Publish(t) \/ CallDirect(t) \/ RunLoop(t) \/ Proceed(t) \/ EndTurn(t)
              \/ DrainInjections(t) \/ BlockOnContinuation(t)
    PROVE  QueueHasConsumer'
<1> USE DEF IInv
<1>0. pc[t] \in {"none", "created", "lock", "gate", "direct"} => ~InTurn(t)
  BY DEF InTurn, TurnPcs
<1>1. CASE Publish(t)
  BY <1>1, ConsumerKeep DEF Publish, InTurn
<1>2. CASE CallDirect(t)
  <2>1. pc[t] = "none"
    BY <1>2 DEF CallDirect, LifeInv
  <2> QED BY <1>0, <1>2, <2>1, ConsumerMove DEF CallDirect
<1>3. CASE RunLoop(t)
  <2>1. CASE BeginInlineCommand(t)
    BY <2>1, ConsumerKeep DEF BeginInlineCommand, InTurn
  <2>2. CASE EndNewInline(t)
    BY <2>2, ConsumerKeep DEF EndNewInline, InTurn
  <2>3. CASE Defer(t)
    BY <2>3, ConsumerKeep DEF Defer, InTurn
  <2>4. CASE Spawn(t)
    <3>1. pc[t] = "none"
      BY <2>4, ConsumeElems DEF Spawn, Unassigned
    <3> QED BY <1>0, <2>4, <3>1, ConsumerMove DEF Spawn
  <2>5. CASE EndStop(t)
    <3> DEFINE r == registered[SessionOf[t]]
    <3>1. /\ SessionOf[t] \in Sessions /\ pc' = pc
          /\ registered' = [registered EXCEPT ![SessionOf[t]] = NoTask]
          /\ queueOf' = IF r = NoTask THEN queueOf ELSE [queueOf EXCEPT ![r] = <<>>]
      BY <2>5 DEF EndStop, DispatchAssumption
    <3>2. \A q \in Sessions : registered'[q] # NoTask => registered'[q] = registered[q]
      BY <3>1 DEF TypeOK
    <3>3. \A u \in Msgs : queueOf'[u] # <<>> => queueOf[u] # <<>>
      BY <3>1 DEF TypeOK
    <3> QED BY <3>1, <3>2, <3>3 DEF QueueHasConsumer, InTurn
  <2>6. CASE RouteToPending(t)
    <3> DEFINE r == registered[SessionOf[t]]
    <3>1. /\ SessionOf[t] \in Sessions /\ pc' = pc /\ registered' = registered
          /\ r # NoTask
          /\ queueOf' = [queueOf EXCEPT ![r] = Append(@, t)]
      BY <2>6 DEF RouteToPending, QueueHasRoom, DispatchAssumption
    <3>2. \A u \in Msgs : queueOf'[u] # queueOf[u] => u = r
      BY <3>1 DEF TypeOK
    <3> QED BY <3>1, <3>2 DEF QueueHasConsumer, InTurn
  <2> QED BY <1>3, <2>1, <2>2, <2>3, <2>4, <2>5, <2>6 DEF RunLoop
<1>4. CASE Proceed(t)
  <2>1. CASE StartTask(t)
    <3>1. ~InTurn(t) /\ UNCHANGED queueOf
      BY <1>0, <2>1 DEF StartTask
    <3>2. CASE EnterGate(t)
      BY <3>1, <3>2, ConsumerGate
    <3>3. CASE pc' = [pc EXCEPT ![t] = "lock"] /\ UNCHANGED registered
      BY <3>1, <3>3, ConsumerMove
    <3> QED BY <2>1, <3>2, <3>3 DEF StartTask
  <2>2. CASE LockGranted(t)
    <3>1. ~InTurn(t) /\ UNCHANGED queueOf
      BY <1>0, <2>2 DEF LockGranted
    <3>2. CASE EnterGate(t)
      BY <3>1, <3>2, ConsumerGate
    <3>3. CASE pc' = [pc EXCEPT ![t] = "direct"] /\ UNCHANGED registered
      BY <3>1, <3>3, ConsumerMove
    <3> QED BY <2>2, <3>2, <3>3 DEF LockGranted
  <2>3. CASE GateGranted(t)
    BY <2>3, ConsumerBegin DEF GateGranted
  <2>4. CASE CommandNew(t)
    BY <2>4, ConsumerMove DEF CommandNew, CancelActive, TurnPcs
  <2>5. CASE EndDirect(t)
    BY <1>0, <2>5, ConsumerMove DEF EndDirect
  <2>6. CASE CancelTurn(t)
    BY <2>6, ConsumerLeave DEF CancelTurn
  <2>7. CASE CancelWaiting(t)
    BY <1>0, <2>7, ConsumerMove DEF CancelWaiting
  <2>8. CASE CancelUnstarted(t)
    BY <1>0, <2>8, ConsumerMove DEF CancelUnstarted
  <2> QED BY <1>4, <2>1, <2>2, <2>3, <2>4, <2>5, <2>6, <2>7, <2>8 DEF Proceed, Unwind
<1>5. CASE EndTurn(t)
  BY <1>5, ConsumerLeave DEF EndTurn, FinishTurn, FailTurn
<1>6. CASE DrainInjections(t)
  <2>1. /\ InTurn(t) /\ pc' = pc /\ registered' = registered
        /\ queueOf' = [queueOf EXCEPT ![t] = RestOf(@, MaxInject)]
    BY <1>6 DEF DrainInjections, InTurn, TurnPcs
  <2>2. \A u \in Msgs : queueOf'[u] # queueOf[u] => u = t
    BY <2>1 DEF TypeOK
  <2> QED BY <2>1, <2>2 DEF QueueHasConsumer, InTurn
<1>7. CASE BlockOnContinuation(t)
  BY <1>7, ConsumerMove DEF BlockOnContinuation, TurnPcs
<1> QED BY <1>1, <1>2, <1>3, <1>4, <1>5, <1>6, <1>7

----------------------------------------------------------------------------
(* The inductive invariant. *)

\* The inductive invariant holds when the loop is constructed.
LEMMA InitIInv == DispatchAssumption /\ Init => IInv
<1> SUFFICES ASSUME DispatchAssumption, Init PROVE IInv
  OBVIOUS
<1>1. TypeOK
  BY DEF Init, TypeOK, Pcs, Fates, DispatchAssumption
<1>2. /\ bus = <<>>
      /\ \A t \in Msgs : queueOf[t] = <<>> /\ pc[t] = "none" /\ fate[t] = "open"
      /\ \A s \in Sessions : /\ deferred[s] = <<>> /\ lockQ[s] = <<>>
                              /\ registered[s] = NoTask
      /\ loopOp \notin Msgs
  BY DEF Init, DispatchAssumption
<1>3. /\ Elems(bus) = {} /\ Distinct(bus)
      /\ \A t \in Msgs : Elems(queueOf[t]) = {} /\ Distinct(queueOf[t])
      /\ \A s \in Sessions : /\ Elems(deferred[s]) = {} /\ Distinct(deferred[s])
                              /\ Elems(lockQ[s]) = {} /\ Distinct(lockQ[s])
  BY <1>2, EmptyElems
<1>4. PlaceInv
  BY <1>3 DEF PlaceInv
<1>5. QueueHasConsumer /\ LifeInv
  BY <1>2 DEF QueueHasConsumer, LifeInv
<1>6. LockInv
  BY <1>2, <1>3 DEF LockInv, LockPcs, HoldsLock, InTurn, TurnPcs
<1> QED BY <1>1, <1>4, <1>5, <1>6 DEF IInv

\* Every step keeps the inductive invariant.
LEMMA IInvStep ==
    ASSUME IInv, DispatchAssumption, [Next]_vars
    PROVE  IInv'
<1>0. TypeOK' /\ TypeOK
  BY TypeStep DEF IInv
<1>1. CASE UNCHANGED vars
  BY <1>0, <1>1 DEF IInv, vars, QueueHasConsumer, PlaceInv, LifeInv, LockInv,
                    InTurn, Unassigned, HoldsLock
<1>2. ASSUME NEW t \in Msgs,
             Publish(t) \/ CallDirect(t) \/ RunLoop(t) \/ Proceed(t)
                \/ EndTurn(t) \/ DrainInjections(t) \/ BlockOnContinuation(t)
      PROVE  IInv'
  <2>0. QueueHasConsumer'
    BY <1>2, ConsumerStep
  <2>1. CASE Publish(t)
    BY <1>0, <2>0, <2>1, PublishStep DEF IInv
  <2>2. CASE CallDirect(t)
    BY <1>0, <2>0, <2>2, CallDirectStep DEF IInv
  <2>3. CASE RunLoop(t)
    BY <1>0, <2>0, <2>3, BeginInlineStep, EndStopStep, EndNewStep, DeferStep,
       RouteStep, SpawnStep DEF IInv, RunLoop
  <2>4. CASE CancelTurn(t) \/ EndTurn(t)
    <3>1. PICK outcome \in {"cancelled", "answered", "failed"} :
              LeaveTurn(t, outcome, queueOf[t])
      BY <2>4 DEF CancelTurn, EndTurn, FinishTurn, FailTurn
    <3>2. InTurn(t) /\ sent' = sent
      BY <2>4 DEF CancelTurn, EndTurn, FinishTurn, FailTurn, InTurn, TurnPcs
    <3>3. /\ queueOf[t] \in Seq(Msgs) /\ Distinct(queueOf[t])
          /\ \A m \in Elems(queueOf[t]) : m \in sent
      BY DEF IInv, TypeOK, PlaceInv, Unassigned
    <3>4. outcome \in Fates \ {"open"} /\ sent' = sent \cup Elems(queueOf[t])
      BY <3>2, <3>3 DEF Fates
    <3>5. PlaceInv' /\ LifeInv' /\ LockInv'
      BY <1>0, <3>1, <3>2, <3>3, <3>4, LeaveTurnStep
    <3> QED BY <1>0, <2>0, <3>5 DEF IInv
  <2>5. CASE Proceed(t) /\ ~CancelTurn(t)
    BY <1>0, <2>0, <2>5, StartTaskStep, LockGrantedStep, HolderSteps, EndDirectStep,
       CancelWaitingStep, CancelUnstartedStep DEF IInv, Proceed, Unwind
  <2>6. CASE DrainInjections(t)
    BY <1>0, <2>0, <2>6, DrainStep DEF IInv
  <2>7. CASE BlockOnContinuation(t)
    BY <1>0, <2>0, <2>7, HolderSteps DEF IInv
  <2> QED BY <1>2, <2>1, <2>2, <2>3, <2>4, <2>5, <2>6, <2>7
<1>3. ASSUME NEW t \in Msgs, NEW c \in Msgs, ContinueTurn(t, c) PROVE IInv'
  <2> DEFINE left == Append(queueOf[t], c)
  <2>1. /\ LeaveTurn(t, "answered", left) /\ InTurn(t)
        /\ c \notin sent /\ KindOf[c] = "cont" /\ sent' = sent \cup {c}
    BY <1>3 DEF ContinueTurn, CanContinue, InTurn, TurnPcs
  <2>2. /\ queueOf[t] \in Seq(Msgs) /\ Distinct(queueOf[t])
        /\ \A m \in Elems(queueOf[t]) : m \in sent
    BY DEF IInv, TypeOK, PlaceInv, Unassigned
  <2>3. /\ left \in Seq(Msgs) /\ Distinct(left)
        /\ Elems(left) = Elems(queueOf[t]) \cup {c}
    BY <2>1, <2>2, AppendElems
  <2> HIDE DEF left
  <2>4. "answered" \in Fates \ {"open"} /\ sent' = sent \cup Elems(left)
    BY <2>1, <2>2, <2>3 DEF Fates
  <2>5. \A m \in Elems(left) : \/ m \in Elems(queueOf[t])
                               \/ m \notin sent /\ KindOf[m] = "cont"
    BY <2>1, <2>3
  <2>6. PlaceInv' /\ LifeInv' /\ LockInv'
    BY <1>0, <2>1, <2>3, <2>4, <2>5, LeaveTurnStep
  <2>7. QueueHasConsumer'
    BY <1>0, <2>1, ConsumerLeave DEF IInv
  <2> QED BY <1>0, <2>6, <2>7 DEF IInv
<1>4. CASE Next
  BY <1>2, <1>3, <1>4 DEF Next
<1> QED BY <1>1, <1>4

\* Everything the loop does keeps messages in one place, tasks in agreement with
\* their messages, the holder of a lock at the head of its queue and a consumer
\* behind every pending queue.
THEOREM Inductive == Spec => []IInv
<1>1. Init => IInv
  BY DispatchAssumption, InitIInv
<1>2. IInv /\ [Next]_vars => IInv'
  BY DispatchAssumption, IInvStep
<1> QED BY <1>1, <1>2, PTL DEF Spec

\* Per-session serial: two turns, or a turn and a direct call, never work on one
\* session at once, whatever is cancelled, deferred or re-published meanwhile.
THEOREM Exclusive == Spec => []SessionExclusive
<1>1. IInv => SessionExclusive
  BY DEF IInv, LockInv, SessionExclusive
<1> QED BY <1>1, Inductive, PTL

\* Whatever is routed into a pending queue has a turn that will look at it or
\* re-publish it.
THEOREM Consumed == Spec => []QueueHasConsumer
<1>1. IInv => QueueHasConsumer
  BY DEF IInv
<1> QED BY <1>1, Inductive, PTL

----------------------------------------------------------------------------
(* The gate, and the automation turns. *)

\* No turn begins except through the gate.
LEMMA RunningStep ==
    ASSUME TypeOK, DispatchAssumption, [Next]_vars
    PROVE  \/ Running' \subseteq Running
           \/ GateFree /\ \E t \in Msgs : Running' = Running \cup {t}
<1> DEFINE Moves(t, v) == pc' = [pc EXCEPT ![t] = v]
<1>1. ASSUME NEW t \in Msgs, NEW v, Moves(t, v), v \in TurnPcs => InTurn(t)
      PROVE  Running' \subseteq Running
  BY <1>1 DEF TypeOK, Running, InTurn
<1>2. ASSUME NEW t \in Msgs, BeginTurn(t)
      PROVE  Running' = Running \cup {t}
  <2>1. pc'[t] = "run" /\ \A u \in Msgs \ {t} : pc'[u] = pc[u]
    BY <1>2 DEF TypeOK, BeginTurn
  <2>2. "run" \in TurnPcs
    BY DEF TurnPcs
  <2>3. \A u \in Msgs : u \in Running' <=> u \in Running \/ u = t
    BY <2>1, <2>2 DEF Running, InTurn
  <2> QED BY <2>3 DEF Running
<1>3. ASSUME pc' = pc PROVE Running' \subseteq Running
  BY <1>3 DEF Running, InTurn
<1>4. \A t \in Msgs : \A v :
          Moves(t, v) /\ (v \in TurnPcs => InTurn(t)) => Running' \subseteq Running
  BY <1>1
<1>5. ASSUME NEW t \in Msgs, EnterGate(t)
      PROVE  \/ Running' \subseteq Running
             \/ GateFree /\ \E u \in Msgs : Running' = Running \cup {u}
  <2>1. CASE GateFree /\ gateQ = <<>>
    BY <1>2, <1>5, <2>1 DEF EnterGate
  <2>2. CASE ~(GateFree /\ gateQ = <<>>)
    <3>1. Moves(t, "gate") /\ "gate" \notin TurnPcs
      BY <1>5, <2>2 DEF EnterGate, TurnPcs
    <3> QED BY <3>1, <1>4
  <2> QED BY <2>1, <2>2
<1>6. CASE UNCHANGED vars
  BY <1>3, <1>6 DEF vars
<1>7. ASSUME NEW t \in Msgs, Proceed(t)
      PROVE  \/ Running' \subseteq Running
             \/ GateFree /\ \E u \in Msgs : Running' = Running \cup {u}
  <2>1. CASE EnterGate(t)
    BY <2>1, <1>5
  <2>2. CASE GateGranted(t)
    BY <2>2, <1>2 DEF GateGranted
  <2>3. CASE CommandNew(t)
    <3>1. Moves(t, "await") /\ InTurn(t)
      BY <2>3 DEF CommandNew, InTurn, TurnPcs
    <3> QED BY <3>1, <1>4
  <2>4. CASE \E v \in {"lock", "direct", "done"} : Moves(t, v)
    <3>1. \A v \in {"lock", "direct", "done"} : v \notin TurnPcs
      BY DEF TurnPcs
    <3> QED BY <2>4, <3>1, <1>4
  <2> QED BY <1>7, <2>1, <2>2, <2>3, <2>4
          DEF Proceed, StartTask, LockGranted, EndDirect, Unwind, CancelTurn,
              CancelWaiting, CancelUnstarted, LeaveTurn
<1>8. ASSUME NEW t \in Msgs,
             \/ Publish(t) \/ CallDirect(t) \/ RunLoop(t) \/ EndTurn(t)
             \/ DrainInjections(t) \/ BlockOnContinuation(t)
             \/ \E c \in Msgs : ContinueTurn(t, c)
      PROVE  Running' \subseteq Running
  <2>1. CASE pc' = pc
    BY <2>1, <1>3
  <2>2. CASE BlockOnContinuation(t)
    <3>1. Moves(t, "put") /\ InTurn(t)
      BY <2>2 DEF BlockOnContinuation, InTurn, TurnPcs
    <3> QED BY <3>1, <1>4
  <2>3. CASE \E v \in {"lock", "direct", "done", "created"} : Moves(t, v)
    <3>1. \A v \in {"lock", "direct", "done", "created"} : v \notin TurnPcs
      BY DEF TurnPcs
    <3> QED BY <2>3, <3>1, <1>4
  <2>4. CallDirect(t) => \E v \in {"lock", "direct"} : Moves(t, v)
    BY DEF CallDirect
  <2> QED BY <1>8, <2>1, <2>2, <2>3, <2>4
          DEF Publish, RunLoop, BeginInlineCommand, EndStop, EndNewInline, Defer,
              RouteToPending, Spawn, EndTurn, FinishTurn, FailTurn, LeaveTurn,
              DrainInjections, ContinueTurn
<1> QED BY <1>6, <1>7, <1>8 DEF Next

\* The concurrency gate: never more turns at once than it has slots, although a
\* slot is taken by two different steps and given back by several.
THEOREM Bounded == Spec => []GateBound
<1>1. Init => GateBound
  <2> SUFFICES ASSUME Init PROVE GateBound
    OBVIOUS
  <2>1. Running = {}
    BY DEF Init, Running, InTurn, TurnPcs
  <2> QED BY <2>1, FS_EmptySet, DispatchAssumption DEF GateBound, DispatchAssumption
<1>2. TypeOK /\ GateBound /\ [Next]_vars => GateBound'
  <2> SUFFICES ASSUME TypeOK, GateBound, [Next]_vars PROVE GateBound'
    OBVIOUS
  <2>1. /\ IsFiniteSet(Running) /\ Cardinality(Running) \in Nat
        /\ MaxConcurrent \in Nat
    <3>1. Running \subseteq Msgs /\ IsFiniteSet(Msgs)
      BY DispatchAssumption DEF Running, DispatchAssumption
    <3> QED BY <3>1, FS_Subset, FS_CardinalityType, DispatchAssumption
            DEF DispatchAssumption
  <2>2. CASE Running' \subseteq Running
    <3>1. Cardinality(Running') <= Cardinality(Running) /\ Cardinality(Running') \in Nat
      BY <2>1, <2>2, FS_Subset, FS_CardinalityType
    <3> QED BY <2>1, <3>1 DEF GateBound
  <2>3. CASE GateFree /\ \E t \in Msgs : Running' = Running \cup {t}
    <3>1. Cardinality(Running') <= Cardinality(Running) + 1 /\ Cardinality(Running') \in Nat
      BY <2>1, <2>3, FS_AddElement
    <3> QED BY <2>1, <2>3, <3>1 DEF GateBound, GateFree
  <2> QED BY <2>2, <2>3, RunningStep, DispatchAssumption
<1> QED BY <1>1, <1>2, TypeCorrect, PTL DEF Spec

\* An automation turn never joins somebody else's turn and is never thrown away
\* with a pending queue: none can get into one.
THEOREM Isolated == Spec => []AutomationIsolated
<1>1. Init => AutomationIsolated
  BY DEF Init, AutomationIsolated
<1>2. IInv /\ AutomationIsolated /\ [Next]_vars => AutomationIsolated'
  <2> SUFFICES ASSUME IInv, AutomationIsolated, [Next]_vars,
                      NEW m \in Msgs, KindOf[m] = "auto"
               PROVE  fate'[m] \notin {"injected", "dropped"}
    BY DEF AutomationIsolated
  <2>0. /\ fate[m] \notin {"injected", "dropped"} /\ fate \in [Msgs -> Fates]
        /\ MaxInject \in Nat
        /\ \A t \in Msgs : queueOf[t] \in Seq(Msgs) /\ m \notin Elems(queueOf[t])
    BY DispatchAssumption
       DEF AutomationIsolated, IInv, TypeOK, PlaceInv, DispatchAssumption
  <2>1. CASE fate' = fate
    BY <2>0, <2>1
  <2>2. CASE \E t \in Msgs, outcome \in {"answered", "failed", "cancelled"} :
                fate' = [fate EXCEPT ![t] = outcome]
    BY <2>0, <2>2
  <2>3. ASSUME NEW t \in Msgs, DrainInjections(t)
        PROVE  fate'[m] = fate[m]
    <3> DEFINE taken == FirstOf(queueOf[t], MaxInject)
    <3>1. m \notin Elems(taken) /\ taken \in Seq(Msgs)
      <4>1. queueOf[t] \in Seq(Msgs) /\ Distinct(queueOf[t]) /\ m \notin Elems(queueOf[t])
        BY <2>0 DEF IInv, PlaceInv
      <4>2. Elems(queueOf[t]) = Elems(taken) \cup Elems(RestOf(queueOf[t], MaxInject))
        BY <2>0, <4>1, FirstRestElems
      <4>3. taken \in Seq(Msgs)
        BY <2>0, FirstRestType
      <4> QED BY <4>1, <4>2, <4>3
    <3>2. ~Contains(taken, m)
      BY <3>1, ContainsElems
    <3> QED BY <2>3, <3>2 DEF DrainInjections
  <2>4. ASSUME NEW t \in Msgs, EndStop(t)
        PROVE  fate'[m] \in {fate[m], "answered"}
    <3> DEFINE r == registered[SessionOf[t]]
    <3>1. r # NoTask => r \in Msgs
      BY DispatchAssumption DEF IInv, TypeOK, DispatchAssumption
    <3>2. r # NoTask => ~Contains(queueOf[r], m)
      BY <2>0, <3>1, ContainsElems
    <3> QED BY <2>4, <3>2 DEF EndStop
  <2>5. CASE \E t \in Msgs : DrainInjections(t) \/ EndStop(t)
    BY <2>0, <2>3, <2>4, <2>5
  <2>6. \/ fate' = fate
        \/ \E t \in Msgs, outcome \in {"answered", "failed", "cancelled"} :
                fate' = [fate EXCEPT ![t] = outcome]
        \/ \E t \in Msgs : DrainInjections(t) \/ EndStop(t)
    <3>1. CASE UNCHANGED vars
      BY <3>1 DEF vars
    <3>2. ASSUME NEW t \in Msgs,
                 Publish(t) \/ CallDirect(t) \/ BlockOnContinuation(t)
          PROVE  fate' = fate
      BY <3>2 DEF Publish, CallDirect, BlockOnContinuation
    <3>3. ASSUME NEW t \in Msgs, RunLoop(t), ~EndStop(t)
          PROVE  \/ fate' = fate
                 \/ \E outcome \in {"answered", "failed", "cancelled"} :
                        fate' = [fate EXCEPT ![t] = outcome]
      BY <3>3 DEF RunLoop, BeginInlineCommand, EndNewInline, Defer, RouteToPending, Spawn
    <3>4. ASSUME NEW t \in Msgs, Proceed(t)
          PROVE  \/ fate' = fate
                 \/ \E outcome \in {"answered", "failed", "cancelled"} :
                        fate' = [fate EXCEPT ![t] = outcome]
      BY <3>4 DEF Proceed, StartTask, LockGranted, GateGranted, CommandNew, EndDirect,
                  Unwind, CancelTurn, CancelWaiting, CancelUnstarted, LeaveTurn
    <3>5. ASSUME NEW t \in Msgs, EndTurn(t) \/ \E c \in Msgs : ContinueTurn(t, c)
          PROVE  \/ fate' = fate
                 \/ \E outcome \in {"answered", "failed", "cancelled"} :
                        fate' = [fate EXCEPT ![t] = outcome]
      BY <3>5 DEF EndTurn, FinishTurn, FailTurn, ContinueTurn, LeaveTurn
    <3> QED BY <3>1, <3>2, <3>3, <3>4, <3>5 DEF Next
  <2> QED BY <2>1, <2>2, <2>5, <2>6
<1> QED BY <1>1, <1>2, Inductive, PTL DEF Spec


----------------------------------------------------------------------------
(* A message that is not over is somewhere. *)

\* The places where a message can be, without the position in them.
Placed(m) ==
    \/ m \in Elems(bus)
    \/ \E t \in Msgs : m \in Elems(queueOf[t])
    \/ m \in Elems(deferred[SessionOf[m]])
    \/ pc[m] \notin {"none", "done"}
    \/ loopOp = m

Somewhere == \A m \in sent : fate[m] = "open" => Placed(m)

\* The loop takes a message from the bus to another place.
LEMMA SomewhereTake ==
    ASSUME TypeOK, PlaceInv, Somewhere, NEW m \in Msgs, Consume(m), Placed(m)',
           UNCHANGED <<sent, fate>>,
           \A t \in Msgs : Elems(queueOf[t]) \subseteq Elems(queueOf'[t]),
           \A s \in Sessions : Elems(deferred[s]) \subseteq Elems(deferred'[s]),
           \A x \in Msgs \ {m} : pc'[x] = pc[x],
           SessionOf \in [Msgs -> Sessions]
    PROVE  Somewhere'
<1>1. Elems(bus') = Elems(bus) \ {m} /\ loopOp = NoTask
  BY ConsumeElems DEF Consume
<1>2. ASSUME NEW x \in sent, x # m, Placed(x), x \in Msgs, NoTask \notin Msgs PROVE Placed(x)'
  BY <1>1, <1>2 DEF Placed
<1> QED BY <1>2, DispatchAssumption DEF Somewhere, TypeOK, DispatchAssumption

\* What waits in a place stays there, and only messages that are over stop
\* being tasks.
LEMMA SomewhereKeep ==
    ASSUME TypeOK, Somewhere, sent' = sent,
           UNCHANGED <<bus, queueOf, deferred>>,
           \A x \in Msgs : fate'[x] = "open" => fate[x] = "open",
           \A x \in Msgs : fate'[x] = "open" /\ pc[x] \notin {"none", "done"}
                               => pc'[x] \notin {"none", "done"},
           \A x \in Msgs : fate'[x] = "open" /\ loopOp = x => loopOp' = x
    PROVE  Somewhere'
BY DEF Somewhere, Placed, TypeOK

\* A task leaves its turn or its queues: what its pending queue held and the
\* next deferred turn are on the bus again.
LEMMA SomewhereLeave ==
    ASSUME TypeOK, PlaceInv, Somewhere, DispatchAssumption,
           NEW t \in Msgs, NEW left \in Seq(Msgs),
           bus' = bus \o left \o NextDeferred(SessionOf[t]),
           deferred' = DropNextDeferred(SessionOf[t]),
           \A u \in Msgs : Elems(queueOf[u]) \subseteq Elems(queueOf'[u]) \cup Elems(left),
           sent' \subseteq sent \cup Elems(left),
           loopOp' = loopOp, fate'[t] # "open",
           \A x \in Msgs \ {t} : pc'[x] = pc[x] /\ fate'[x] = fate[x]
    PROVE  Somewhere'
<1> DEFINE s == SessionOf[t]
           next == NextDeferred(s)
<1>0. s \in Sessions /\ bus \in Seq(Msgs)
  BY DEF DispatchAssumption, TypeOK
<1>1. Elems(bus') = Elems(bus) \cup Elems(left) \cup Elems(next)
  <2>1. next \in Seq(Msgs)
    BY <1>0, DeferredElems
  <2> DEFINE both == bus \o left
  <2>2. both \in Seq(Msgs) /\ Elems(both) = Elems(bus) \cup Elems(left)
    BY <1>0, ConcatElems
  <2>3. bus' = both \o next
    OBVIOUS
  <2> HIDE DEF both, next
  <2>4. Elems(both \o next) = Elems(both) \cup Elems(next)
    BY <2>1, <2>2, ConcatElems
  <2> QED BY <2>2, <2>3, <2>4
<1>2. \A r \in Sessions : Elems(deferred[r]) \subseteq Elems(deferred'[r]) \cup Elems(next)
  <2>1. /\ deferred[s] \in Seq(Msgs) /\ Distinct(deferred[s]) /\ 1 \in Nat
        /\ deferred \in [Sessions -> Seq(Msgs)]
    BY <1>0 DEF TypeOK, PlaceInv
  <2>2. Elems(deferred[s]) = Elems(FirstOf(deferred[s], 1)) \cup Elems(RestOf(deferred[s], 1))
    BY <2>1, FirstRestElems
  <2>3. /\ deferred'[s] = RestOf(deferred[s], 1) /\ next = FirstOf(deferred[s], 1)
        /\ \A r \in Sessions \ {s} : deferred'[r] = deferred[r]
    BY <2>1, <1>0 DEF DropNextDeferred, NextDeferred
  <2> QED BY <2>2, <2>3
<1> HIDE DEF s, next
<1>3. ASSUME NEW x \in Msgs, x # t, Placed(x), SessionOf[x] \in Sessions
      PROVE  Placed(x)'
  <2>1. CASE x \in Elems(bus)
    BY <2>1, <1>1 DEF Placed
  <2>2. CASE \E u \in Msgs : x \in Elems(queueOf[u])
    BY <2>2, <1>1 DEF Placed
  <2>3. CASE x \in Elems(deferred[SessionOf[x]])
    BY <2>3, <1>1, <1>2, <1>3 DEF Placed
  <2>4. CASE pc[x] \notin {"none", "done"} \/ loopOp = x
    BY <2>4, <1>3 DEF Placed
  <2> QED BY <1>3, <2>1, <2>2, <2>3, <2>4 DEF Placed
<1>4. \A x \in Elems(left) : Placed(x)'
  BY <1>1 DEF Placed
<1> QED BY <1>3, <1>4, ElemsType DEF Somewhere, TypeOK, DispatchAssumption

\* Whatever the loop does, a message that is not over is in one of the places.
LEMMA SomewhereStep ==
    ASSUME IInv, TypeOK', Somewhere, DispatchAssumption, [Next]_vars
    PROVE  Somewhere'
<1>0. TypeOK /\ PlaceInv /\ LifeInv /\ SessionOf \in [Msgs -> Sessions] /\ NoTask \notin Msgs
  BY DEF IInv, DispatchAssumption
<1>1. CASE UNCHANGED vars
  BY <1>0, <1>1, SomewhereKeep DEF vars
<1>2. ASSUME NEW m \in Msgs, Publish(m) PROVE Somewhere'
  <2>1. Elems(bus') = Elems(bus) \cup {m}
    BY <1>0, <1>2, AppendElems DEF Publish, TypeOK
  <2> QED BY <1>0, <1>2, <2>1 DEF Publish, Somewhere, Placed, TypeOK
<1>3. ASSUME NEW m \in Msgs, CallDirect(m) PROVE Somewhere'
  <2>1. /\ pc'[m] \in {"lock", "direct"} /\ \A x \in Msgs \ {m} : pc'[x] = pc[x]
        /\ sent' = sent \cup {m} /\ UNCHANGED <<bus, queueOf, deferred, loopOp, fate>>
    BY <1>0, <1>3 DEF CallDirect, TypeOK
  <2> QED BY <1>0, <2>1 DEF Somewhere, Placed, TypeOK
<1>4. ASSUME NEW m \in Msgs, BeginInlineCommand(m) PROVE Somewhere'
  <2>1. Placed(m)' /\ Consume(m) /\ UNCHANGED <<sent, fate, queueOf, deferred, pc>>
    BY <1>4 DEF BeginInlineCommand, Placed
  <2> QED BY <1>0, <2>1, SomewhereTake
<1>5. ASSUME NEW m \in Msgs, Defer(m) PROVE Somewhere'
  <2>1. /\ deferred'[SessionOf[m]] = Append(deferred[SessionOf[m]], m)
        /\ \A s \in Sessions \ {SessionOf[m]} : deferred'[s] = deferred[s]
        /\ deferred[SessionOf[m]] \in Seq(Msgs)
    BY <1>0, <1>5 DEF Defer, TypeOK
  <2>2. Elems(deferred'[SessionOf[m]]) = Elems(deferred[SessionOf[m]]) \cup {m}
    BY <2>1, AppendElems
  <2>3. Consume(m) /\ UNCHANGED <<sent, fate, queueOf, pc>> /\ Placed(m)'
    BY <1>5, <2>2 DEF Defer, Placed
  <2> QED BY <1>0, <2>1, <2>2, <2>3, SomewhereTake
<1>6. ASSUME NEW m \in Msgs, RouteToPending(m) PROVE Somewhere'
  <2> DEFINE r == registered[SessionOf[m]]
  <2>0. r \in Msgs
    BY <1>0, <1>6 DEF RouteToPending, QueueHasRoom, TypeOK
  <2>1. /\ queueOf'[r] = Append(queueOf[r], m)
        /\ \A u \in Msgs \ {r} : queueOf'[u] = queueOf[u]
        /\ queueOf[r] \in Seq(Msgs)
    BY <1>0, <2>0, <1>6 DEF RouteToPending, TypeOK
  <2> HIDE DEF r
  <2>2. Elems(queueOf'[r]) = Elems(queueOf[r]) \cup {m}
    BY <2>1, AppendElems
  <2>3. Consume(m) /\ UNCHANGED <<sent, fate, deferred, pc>> /\ Placed(m)'
    BY <1>6, <2>0, <2>2 DEF RouteToPending, Placed
  <2> QED BY <1>0, <2>1, <2>2, <2>3, SomewhereTake
<1>7. ASSUME NEW m \in Msgs, Spawn(m) PROVE Somewhere'
  <2>1. pc'[m] = "created" /\ \A x \in Msgs \ {m} : pc'[x] = pc[x]
    BY <1>0, <1>7 DEF Spawn, TypeOK
  <2>2. Consume(m) /\ UNCHANGED <<sent, fate, queueOf, deferred>> /\ Placed(m)'
    BY <1>7, <2>1 DEF Spawn, Placed
  <2> QED BY <1>0, <2>1, <2>2, SomewhereTake
<1>8. ASSUME NEW m \in Msgs, EndNewInline(m) PROVE Somewhere'
  <2>1. fate'[m] = "answered" /\ \A x \in Msgs \ {m} : fate'[x] = fate[x]
    BY <1>0, <1>8 DEF EndNewInline, TypeOK
  <2> QED BY <1>0, <1>8, <2>1, SomewhereKeep DEF EndNewInline
<1>9. ASSUME NEW m \in Msgs, EndStop(m) PROVE Somewhere'
  <2> DEFINE r == registered[SessionOf[m]]
  <2>1. r # NoTask => r \in Msgs /\ queueOf[r] \in Seq(Msgs)
    BY <1>0 DEF TypeOK
  <2>2. \A x \in Msgs : fate'[x] = "open" =>
           /\ x # m /\ fate[x] = "open"
           /\ r # NoTask => x \notin Elems(queueOf[r])
    BY <1>9, <2>1, ContainsElems DEF EndStop
  <2>3. \A u \in Msgs : u # r => queueOf'[u] = queueOf[u]
    BY <1>0, <1>9 DEF EndStop, TypeOK
  <2>4. loopOp = m /\ UNCHANGED <<bus, sent, pc, deferred>>
    BY <1>9 DEF EndStop
  <2> HIDE DEF r
  <2>5. ASSUME NEW x \in Msgs, fate'[x] = "open", Placed(x) PROVE Placed(x)'
    BY <1>0, <2>2, <2>3, <2>4, <2>5 DEF Placed
  <2> QED BY <1>0, <2>2, <2>4, <2>5 DEF Somewhere, TypeOK
<1>10. ASSUME NEW t \in Msgs, NEW v, v \notin {"none", "done"},
              pc' = [pc EXCEPT ![t] = v],
              UNCHANGED <<bus, sent, queueOf, deferred, fate, loopOp>>
       PROVE  Somewhere'
  <2>1. pc'[t] = v /\ \A x \in Msgs \ {t} : pc'[x] = pc[x]
    BY <1>0, <1>10 DEF TypeOK
  <2> QED BY <1>0, <1>10, <2>1, SomewhereKeep
<1>11. ASSUME NEW t \in Msgs,
              \/ StartTask(t) \/ LockGranted(t) \/ GateGranted(t)
              \/ CommandNew(t) \/ BlockOnContinuation(t)
       PROVE  Somewhere'
  <2>1. PICK v : v \notin {"none", "done"} /\ pc' = [pc EXCEPT ![t] = v]
    BY <1>11 DEF StartTask, LockGranted, GateGranted, EnterGate, BeginTurn,
                 CommandNew, BlockOnContinuation
  <2>2. UNCHANGED <<bus, sent, queueOf, deferred, fate, loopOp>>
    BY <1>11 DEF StartTask, LockGranted, GateGranted, CommandNew, BlockOnContinuation
  <2> QED BY <2>1, <2>2, <1>10
<1>12. ASSUME NEW t \in Msgs, EndDirect(t) \/ CancelUnstarted(t) PROVE Somewhere'
  <2>1. /\ fate'[t] # "open" /\ \A x \in Msgs \ {t} : fate'[x] = fate[x] /\ pc'[x] = pc[x]
        /\ UNCHANGED <<bus, sent, queueOf, deferred, loopOp>>
    BY <1>0, <1>12, SMTT(30) DEF EndDirect, CancelUnstarted, TypeOK
  <2> QED BY <1>0, <2>1, SomewhereKeep
<1>13. ASSUME NEW t \in Msgs, DrainInjections(t) PROVE Somewhere'
  <2> DEFINE taken == FirstOf(queueOf[t], MaxInject)
  <2>0. /\ queueOf[t] \in Seq(Msgs) /\ Distinct(queueOf[t]) /\ MaxInject \in Nat
        /\ taken \in Seq(Msgs)
    BY <1>0, DispatchAssumption, FirstRestType DEF TypeOK, PlaceInv, DispatchAssumption
  <2>1. /\ queueOf'[t] = RestOf(queueOf[t], MaxInject)
        /\ \A u \in Msgs \ {t} : queueOf'[u] = queueOf[u]
    BY <1>0, <1>13 DEF DrainInjections, TypeOK
  <2>2. Elems(queueOf[t]) = Elems(taken) \cup Elems(queueOf'[t])
    BY <2>0, <2>1, FirstRestElems
  <2>3. \A x \in Msgs : fate'[x] = "open" => x \notin Elems(taken) /\ fate[x] = "open"
    BY <1>13, <2>0, ContainsElems DEF DrainInjections
  <2>4. UNCHANGED <<bus, sent, pc, deferred, loopOp>>
    BY <1>13 DEF DrainInjections
  <2> HIDE DEF taken
  <2>5. ASSUME NEW x \in Msgs, fate'[x] = "open", Placed(x) PROVE Placed(x)'
    <3>1. \A u \in Msgs : x \in Elems(queueOf[u]) => x \in Elems(queueOf'[u])
      BY <2>1, <2>2, <2>3, <2>5
    <3> QED BY <2>4, <2>5, <3>1 DEF Placed
  <2> QED BY <1>0, <2>3, <2>4, <2>5 DEF Somewhere, TypeOK
<1>14. ASSUME NEW t \in Msgs, CancelWaiting(t) PROVE Somewhere'
  <2>1. /\ bus' = bus \o NextDeferred(SessionOf[t])
        /\ deferred' = DropNextDeferred(SessionOf[t])
        /\ UNCHANGED <<sent, queueOf, loopOp>>
    BY <1>14 DEF CancelWaiting
  <2>2. fate'[t] = "cancelled" /\ \A x \in Msgs \ {t} : pc'[x] = pc[x] /\ fate'[x] = fate[x]
    BY <1>0, <1>14 DEF CancelWaiting, TypeOK
  <2>3. bus \o <<>> = bus /\ <<>> \in Seq(Msgs)
    BY <1>0 DEF TypeOK
  <2> DEFINE left == <<>>
  <2>4. bus' = bus \o left \o NextDeferred(SessionOf[t]) /\ left \in Seq(Msgs)
    BY <2>1, <2>3
  <2> HIDE DEF left
  <2> QED BY <1>0, <2>1, <2>2, <2>4, SomewhereLeave
<1>15. ASSUME NEW t \in Msgs, NEW outcome \in {"answered", "failed", "cancelled"},
              NEW left \in Seq(Msgs), LeaveTurn(t, outcome, left),
              Elems(queueOf[t]) \subseteq Elems(left),
              sent' \subseteq sent \cup Elems(left)
       PROVE  Somewhere'
  <2>1. /\ bus' = bus \o left \o NextDeferred(SessionOf[t])
        /\ deferred' = DropNextDeferred(SessionOf[t])
        /\ loopOp' = loopOp
    BY <1>15 DEF LeaveTurn
  <2>2. fate'[t] # "open" /\ \A x \in Msgs \ {t} : pc'[x] = pc[x] /\ fate'[x] = fate[x]
    BY <1>0, <1>15 DEF LeaveTurn, TypeOK
  <2>3. \A u \in Msgs : Elems(queueOf[u]) \subseteq Elems(queueOf'[u]) \cup Elems(left)
    BY <1>0, <1>15 DEF LeaveTurn, TypeOK
  <2> QED BY <1>0, <1>15, <2>1, <2>2, <2>3, SomewhereLeave
<1>16. ASSUME NEW t \in Msgs, CancelTurn(t) \/ EndTurn(t) PROVE Somewhere'
  <2>1. PICK outcome \in {"answered", "failed", "cancelled"} : LeaveTurn(t, outcome, queueOf[t])
    BY <1>16 DEF CancelTurn, EndTurn, FinishTurn, FailTurn
  <2>2. sent' = sent /\ queueOf[t] \in Seq(Msgs)
    BY <1>0, <1>16 DEF CancelTurn, EndTurn, FinishTurn, FailTurn, TypeOK
  <2> QED BY <2>1, <2>2, <1>15
<1>17. ASSUME NEW t \in Msgs, NEW c \in Msgs, ContinueTurn(t, c) PROVE Somewhere'
  <2>1. /\ Append(queueOf[t], c) \in Seq(Msgs)
        /\ Elems(Append(queueOf[t], c)) = Elems(queueOf[t]) \cup {c}
    BY <1>0, AppendElems DEF TypeOK
  <2>2. LeaveTurn(t, "answered", Append(queueOf[t], c)) /\ sent' = sent \cup {c}
    BY <1>17 DEF ContinueTurn
  <2> QED BY <2>1, <2>2, <1>15
<1>18. CASE Next
  BY <1>18, <1>2, <1>3, <1>4, <1>5, <1>6, <1>7, <1>8, <1>9, <1>11, <1>12, <1>13,
     <1>14, <1>16, <1>17 DEF Next, RunLoop, Proceed, Unwind
<1> QED BY <1>1, <1>18

----------------------------------------------------------------------------
(* Nothing is lost or doubled. *)

\* The positions of an element in a queue without repetitions.
LEMMA OneOccurrence ==
    ASSUME NEW S, NEW seq \in Seq(S), NEW x, Distinct(seq)
    PROVE  /\ x \notin Elems(seq) => Occurrences(seq, x) = {}
           /\ x \in Elems(seq) => \E i : Occurrences(seq, x) = {i}
<1>1. Occurrences(seq, x) = {i \in 1..Len(seq) : seq[i] = x}
  BY DEF Occurrences
<1>2. x \notin Elems(seq) => Occurrences(seq, x) = {}
  BY <1>1 DEF Elems
<1>3. ASSUME x \in Elems(seq) PROVE \E i : Occurrences(seq, x) = {i}
  <2>1. PICK i \in 1..Len(seq) : seq[i] = x
    BY <1>3 DEF Elems
  <2>2. \A j \in 1..Len(seq) : seq[j] = x => j = i
    BY <2>1 DEF Distinct
  <2>3. Occurrences(seq, x) = {i}
    BY <1>1, <2>1, <2>2
  <2> QED BY <2>3
<1> QED BY <1>2, <1>3

\* A message that is over, or not accepted, is nowhere.
LEMMA Nowhere ==
    ASSUME IInv, DispatchAssumption, NEW m \in Msgs, m \notin sent \/ fate[m] # "open"
    PROVE  Whereabouts(m) = {}
<1>0. /\ bus \in Seq(Msgs) /\ Distinct(bus)
      /\ \A t \in Msgs : queueOf[t] \in Seq(Msgs) /\ Distinct(queueOf[t])
      /\ \A s \in Sessions : deferred[s] \in Seq(Msgs) /\ Distinct(deferred[s])
      /\ SessionOf[m] \in Sessions
  BY DEF IInv, TypeOK, PlaceInv, DispatchAssumption
<1>1. /\ m \notin Elems(bus)
      /\ \A t \in Msgs : m \notin Elems(queueOf[t])
      /\ \A s \in Sessions : m \notin Elems(deferred[s])
  BY DEF IInv, PlaceInv, Unassigned
<1>2. pc[m] \in {"none", "done"} /\ loopOp # m
  BY DEF IInv, LifeInv
<1>3. Occurrences(bus, m) = {}
  BY <1>0, <1>1, OneOccurrence
<1>4. \A t \in Msgs : Occurrences(queueOf[t], m) = {}
  BY <1>0, <1>1, OneOccurrence
<1>5. Occurrences(deferred[SessionOf[m]], m) = {}
  BY <1>0, <1>1, OneOccurrence
<1> QED BY <1>2, <1>3, <1>4, <1>5 DEF Whereabouts

\* A message that is accepted and not over is in one place, once.
LEMMA OnePlace ==
    ASSUME IInv, Somewhere, DispatchAssumption, NEW m \in sent, fate[m] = "open"
    PROVE  \E w : Whereabouts(m) = {w}
<1>0. /\ bus \in Seq(Msgs) /\ Distinct(bus) /\ m \in Msgs
      /\ \A t \in Msgs : queueOf[t] \in Seq(Msgs) /\ Distinct(queueOf[t])
      /\ \A s \in Sessions : deferred[s] \in Seq(Msgs) /\ Distinct(deferred[s])
      /\ SessionOf[m] \in Sessions
  BY DEF IInv, TypeOK, PlaceInv, DispatchAssumption
<1> DEFINE onBus == {<<"bus", i>> : i \in Occurrences(bus, m)}
           ofTask(t) == {<<t, i>> : i \in Occurrences(queueOf[t], m)}
           ofTasks == UNION {ofTask(t) : t \in Msgs}
           aside == {<<"deferred", i>> : i \in Occurrences(deferred[SessionOf[m]], m)}
           asTask == IF pc[m] \in {"none", "done"} THEN {} ELSE {<<"task", 0>>}
           inline == IF loopOp = m THEN {<<"inline", 0>>} ELSE {}
<1>1. Whereabouts(m) = onBus \cup ofTasks \cup aside \cup asTask \cup inline
  BY DEF Whereabouts
<1>2. m \notin Elems(bus) => onBus = {}
  BY <1>0, OneOccurrence
<1>3. ASSUME \A t \in Msgs : m \notin Elems(queueOf[t]) PROVE ofTasks = {}
  <2>1. \A t \in Msgs : Occurrences(queueOf[t], m) = {}
    BY <1>0, <1>3, OneOccurrence
  <2> QED BY <2>1
<1>4. m \notin Elems(deferred[SessionOf[m]]) => aside = {}
  BY <1>0, OneOccurrence
<1>5. CASE m \in Elems(bus)
  <2>1. PICK i : Occurrences(bus, m) = {i}
    BY <1>0, <1>5, OneOccurrence
  <2>2. onBus = {<<"bus", i>>}
    BY <2>1
  <2>3. /\ \A t \in Msgs : m \notin Elems(queueOf[t])
        /\ m \notin Elems(deferred[SessionOf[m]])
        /\ asTask = {} /\ inline = {}
    BY <1>0, <1>5 DEF IInv, PlaceInv, Unassigned
  <2> HIDE DEF onBus, ofTasks, aside, asTask, inline
  <2>4. Whereabouts(m) = {<<"bus", i>>}
    BY <1>1, <1>3, <1>4, <2>2, <2>3
  <2> QED BY <2>4
<1>6. CASE \E t \in Msgs : m \in Elems(queueOf[t])
  <2>1. PICK t \in Msgs : m \in Elems(queueOf[t])
    BY <1>6
  <2>2. PICK i : Occurrences(queueOf[t], m) = {i}
    BY <1>0, <2>1, OneOccurrence
  <2>3. \A u \in Msgs \ {t} : m \notin Elems(queueOf[u])
    BY <2>1 DEF IInv, PlaceInv
  <2>4. \A u \in Msgs \ {t} : Occurrences(queueOf[u], m) = {}
    BY <1>0, <2>3, OneOccurrence
  <2>5. ofTask(t) = {<<t, i>>} /\ \A u \in Msgs \ {t} : ofTask(u) = {}
    BY <2>2, <2>4
  <2>6. ofTasks = {<<t, i>>}
    <3> HIDE DEF ofTask
    <3> QED BY <2>5
  <2>7. /\ m \notin Elems(bus) /\ m \notin Elems(deferred[SessionOf[m]])
        /\ asTask = {} /\ inline = {}
    BY <1>0, <2>1 DEF IInv, PlaceInv, Unassigned
  <2> HIDE DEF onBus, ofTasks, aside, asTask, inline
  <2>8. Whereabouts(m) = {<<t, i>>}
    BY <1>1, <1>2, <1>4, <2>6, <2>7
  <2> QED BY <2>8
<1>7. CASE m \in Elems(deferred[SessionOf[m]])
  <2>1. PICK i : Occurrences(deferred[SessionOf[m]], m) = {i}
    BY <1>0, <1>7, OneOccurrence
  <2>2. aside = {<<"deferred", i>>}
    BY <2>1
  <2>3. m \notin Elems(bus) /\ asTask = {} /\ inline = {} /\ KindOf[m] = "auto"
    BY <1>0, <1>7 DEF IInv, PlaceInv, Unassigned
  <2>4. \A t \in Msgs : m \notin Elems(queueOf[t])
    BY <2>3 DEF IInv, PlaceInv
  <2> HIDE DEF onBus, ofTasks, aside, asTask, inline
  <2>5. Whereabouts(m) = {<<"deferred", i>>}
    BY <1>1, <1>2, <1>3, <2>2, <2>3, <2>4
  <2> QED BY <2>5
<1>8. CASE pc[m] \notin {"none", "done"} \/ loopOp = m
  <2>1. /\ m \notin Elems(bus)
        /\ \A t \in Msgs : m \notin Elems(queueOf[t])
        /\ m \notin Elems(deferred[SessionOf[m]])
    BY <1>0, <1>8 DEF IInv, PlaceInv, Unassigned
  <2>2. \/ asTask = {<<"task", 0>>} /\ inline = {}
        \/ asTask = {} /\ inline = {<<"inline", 0>>}
    BY <1>0, <1>8 DEF IInv, LifeInv
  <2> HIDE DEF onBus, ofTasks, aside, asTask, inline
  <2>3. Whereabouts(m) = {<<"task", 0>>} \/ Whereabouts(m) = {<<"inline", 0>>}
    BY <1>1, <1>2, <1>3, <1>4, <2>1, <2>2
  <2> QED BY <2>3
<1> QED BY <1>5, <1>6, <1>7, <1>8 DEF Somewhere, Placed

\* Routing, injection, re-publication, deferral and cancellation neither lose a
\* message nor leave two copies of one to be worked on.
THEOREM NothingLost == Spec => []NothingLostOrDoubled
<1>1. Init => Somewhere
  BY DEF Init, Somewhere
<1>2. IInv /\ Somewhere /\ [Next]_vars => Somewhere'
  BY TypeStep, SomewhereStep, DispatchAssumption DEF IInv
<1>3. IInv /\ Somewhere => NothingLostOrDoubled
  <2> SUFFICES ASSUME IInv, Somewhere, NEW m \in Msgs
               PROVE  Cardinality(Whereabouts(m)) =
                          IF m \in sent /\ fate[m] = "open" THEN 1 ELSE 0
    BY DEF NothingLostOrDoubled
  <2>1. CASE m \in sent /\ fate[m] = "open"
    <3>1. PICK w : Whereabouts(m) = {w}
      BY <2>1, OnePlace, DispatchAssumption
    <3>2. Cardinality({w}) = 1
      BY FS_Singleton
    <3> QED BY <2>1, <3>1, <3>2
  <2>2. CASE ~(m \in sent /\ fate[m] = "open")
    <3>1. Whereabouts(m) = {}
      BY <2>2, Nowhere, DispatchAssumption
    <3> QED BY <2>2, <3>1, FS_EmptySet
  <2> QED BY <2>1, <2>2
<1> QED BY <1>1, <1>2, <1>3, Inductive, PTL DEF Spec

----------------------------------------------------------------------------
(* Who cancels: always a command of the session that is still executing. *)

\* _active_tasks lists tasks of the session that are not over, and a /new that
\* waits for the tasks it cancelled has left the list.
Listed ==
    \A s \in Sessions : \A t \in active[s] :
        SessionOf[t] = s /\ pc[t] \notin {"none", "done", "await"} /\ KindOf[t] # "direct"

Awaiting == \A t \in Msgs : pc[t] = "await" => t \notin cancelled /\ KindOf[t] = "new"

Commanding(c) == loopOp = c \/ pc[c] = "await"

Revoked ==
    \A t \in cancelled : pc[t] # "done" =>
        \E c \in Msgs : /\ c # t
                       /\ SessionOf[c] = SessionOf[t]
                       /\ t \in awaited[c]
                       /\ Commanding(c)

CommandInv == Listed /\ Awaiting /\ Revoked

\* A task moves, or ends, and cancels nobody.
LEMMA CommandMove ==
    ASSUME TypeOK, CommandInv, NEW t \in Msgs, NEW v,
           UNCHANGED <<cancelled, awaited, loopOp>>,
           pc' = [pc EXCEPT ![t] = v],
           pc[t] # "done", v # "await", v # "none",
           pc[t] = "await" => v = "done" /\ AwaitedDone(t) /\ loopOp # t,
           \A s \in Sessions : \A u \in active'[s] :
              \/ u \in active[s] /\ (u = t => v # "done")
              \/ u = t /\ SessionOf[t] = s /\ v = "created" /\ KindOf[t] # "direct"
    PROVE  CommandInv'
<1>1. pc'[t] = v /\ \A u \in Msgs \ {t} : pc'[u] = pc[u]
  BY DEF TypeOK
<1>2. Listed'
  BY <1>1 DEF CommandInv, Listed, TypeOK
<1>3. Awaiting'
  BY <1>1 DEF CommandInv, Awaiting
<1>4. Revoked'
  <2> SUFFICES ASSUME NEW u \in cancelled, pc'[u] # "done"
               PROVE  \E c \in Msgs : /\ c # u
                                      /\ SessionOf[c] = SessionOf[u]
                                      /\ u \in awaited[c]
                                      /\ Commanding(c)'
    BY DEF Revoked
  <2>1. u \in Msgs /\ pc[u] # "done"
    BY <1>1 DEF TypeOK
  <2>2. PICK c \in Msgs : /\ c # u
                          /\ SessionOf[c] = SessionOf[u]
                          /\ u \in awaited[c]
                          /\ Commanding(c)
    BY <2>1 DEF CommandInv, Revoked
  <2>3. Commanding(c)'
    BY <1>1, <2>1, <2>2 DEF Commanding, AwaitedDone
  <2> QED BY <2>2, <2>3
<1> QED BY <1>2, <1>3, <1>4 DEF CommandInv

\* A command m of session s begins to wait for the tasks it cancels.
LEMMA CommandBegins ==
    ASSUME TypeOK, DispatchAssumption, CommandInv, NEW m \in Msgs, NEW targets,
           targets \subseteq active[SessionOf[m]] \ {m},
           CancelActive(SessionOf[m], m, targets),
           ~Commanding(m), Commanding(m)',
           \A u \in Msgs \ {m} : pc'[u] = pc[u] /\ (loopOp = u => loopOp' = u),
           \/ pc'[m] = "await" /\ KindOf[m] = "new" /\ m \notin cancelled
           \/ pc'[m] = pc[m],
           pc[m] # "done"
    PROVE  CommandInv'
<1> DEFINE s == SessionOf[m]
<1>0. s \in Sessions /\ active[s] \subseteq Msgs
  BY DEF DispatchAssumption, TypeOK
<1>1. /\ active'[s] = {} /\ \A r \in Sessions \ {s} : active'[r] = active[r]
      /\ cancelled' = cancelled \cup targets
      /\ awaited'[m] = targets /\ \A u \in Msgs \ {m} : awaited'[u] = awaited[u]
  BY <1>0 DEF CancelActive, TypeOK
<1>2. \A u \in targets : u \in Msgs /\ u # m /\ SessionOf[u] = s /\ pc[u] # "await"
  BY <1>0 DEF CommandInv, Listed
<1>3. Listed'
  <2> SUFFICES ASSUME NEW r \in Sessions, NEW t \in active'[r]
               PROVE  /\ SessionOf[t] = r /\ KindOf[t] # "direct"
                      /\ pc'[t] \notin {"none", "done", "await"}
    BY DEF Listed
  <2>1. r # s /\ t \in active[r] /\ t \in Msgs
    BY <1>1 DEF TypeOK
  <2>2. SessionOf[t] = r /\ pc[t] \notin {"none", "done", "await"} /\ KindOf[t] # "direct"
    BY <2>1 DEF CommandInv, Listed
  <2> QED BY <2>1, <2>2
<1>4. Awaiting'
  BY <1>1, <1>2 DEF CommandInv, Awaiting
<1>5. Revoked'
  <2> SUFFICES ASSUME NEW u \in cancelled', pc'[u] # "done"
               PROVE  \E c \in Msgs : /\ c # u
                                      /\ SessionOf[c] = SessionOf[u]
                                      /\ u \in awaited'[c]
                                      /\ Commanding(c)'
    BY DEF Revoked
  <2>1. CASE u \in targets
    BY <2>1, <1>1, <1>2
  <2>2. CASE u \notin targets
    <3>1. u \in cancelled /\ u \in Msgs /\ pc[u] # "done"
      BY <2>2, <1>1 DEF TypeOK
    <3>2. PICK c \in Msgs : /\ c # u
                            /\ SessionOf[c] = SessionOf[u]
                            /\ u \in awaited[c]
                            /\ Commanding(c)
      BY <3>1 DEF CommandInv, Revoked
    <3>3. c # m
      BY <3>2
    <3>4. Commanding(c)' /\ u \in awaited'[c]
      BY <1>1, <3>2, <3>3 DEF Commanding
    <3> QED BY <3>2, <3>4
  <2> QED BY <2>1, <2>2
<1> QED BY <1>3, <1>4, <1>5 DEF CommandInv

\* Cancellations stem from commands that are executing.
LEMMA CommandStep ==
    ASSUME IInv, IInv', CommandInv, DispatchAssumption, [Next]_vars
    PROVE  CommandInv'
<1>0. TypeOK /\ PlaceInv /\ LifeInv /\ NoTask \notin Msgs
  BY DEF IInv, DispatchAssumption
<1>1. CASE UNCHANGED <<pc, active, cancelled, awaited, loopOp>>
  BY <1>1 DEF CommandInv, Listed, Awaiting, Revoked, Commanding
<1>2. ASSUME NEW m \in Msgs, CallDirect(m) PROVE CommandInv'
  <2>1. PICK v \in {"lock", "direct"} : pc' = [pc EXCEPT ![m] = v]
    BY <1>2 DEF CallDirect
  <2>2. pc[m] = "none" /\ UNCHANGED <<cancelled, awaited, loopOp, active>>
    BY <1>0, <1>2 DEF CallDirect, LifeInv
  <2> QED BY <1>0, <2>1, <2>2, CommandMove
<1>3. ASSUME NEW m \in Msgs, BeginInlineCommand(m) PROVE CommandInv'
  <2>1. pc[m] = "none" /\ loopOp = NoTask
    BY <1>0, <1>3, ConsumeElems DEF BeginInlineCommand, Unassigned, Consume
  <2>2. m \notin active[SessionOf[m]]
    BY <2>1, <1>0, DispatchAssumption DEF CommandInv, Listed, DispatchAssumption
  <2>3. /\ CancelActive(SessionOf[m], m, active[SessionOf[m]])
        /\ loopOp' = m /\ pc' = pc
    BY <1>3 DEF BeginInlineCommand
  <2>4. ~Commanding(m) /\ Commanding(m)'
    BY <1>0, <2>1, <2>3 DEF Commanding
  <2> DEFINE targets == active[SessionOf[m]]
  <2>5. targets \subseteq active[SessionOf[m]] \ {m} /\ CancelActive(SessionOf[m], m, targets)
    BY <2>2, <2>3
  <2> HIDE DEF targets
  <2> QED BY <1>0, <2>1, <2>3, <2>4, <2>5, CommandBegins
<1>4. ASSUME NEW m \in Msgs, EndStop(m) \/ EndNewInline(m) PROVE CommandInv'
  <2>1. /\ loopOp = m /\ AwaitedDone(m) /\ loopOp' = NoTask
        /\ UNCHANGED <<pc, active, cancelled, awaited>>
    BY <1>4 DEF EndStop, EndNewInline
  <2>2. Revoked'
    BY <1>0, <2>1 DEF CommandInv, Revoked, Commanding, AwaitedDone
  <2> QED BY <2>1, <2>2 DEF CommandInv, Listed, Awaiting
<1>5. ASSUME NEW m \in Msgs, Spawn(m) PROVE CommandInv'
  <2>1. /\ pc' = [pc EXCEPT ![m] = "created"]
        /\ active' = [active EXCEPT ![SessionOf[m]] = @ \cup {m}]
        /\ UNCHANGED <<cancelled, awaited, loopOp>>
    BY <1>5 DEF Spawn
  <2>2. pc[m] = "none" /\ KindOf[m] # "direct"
    BY <1>0, <1>5, ConsumeElems DEF Spawn, Unassigned
  <2>3. \A s \in Sessions : \A u \in active'[s] :
            \/ u \in active[s]
            \/ u = m /\ SessionOf[m] = s
    BY <1>0, <2>1 DEF TypeOK
  <2> DEFINE v == "created"
  <2>4. pc' = [pc EXCEPT ![m] = v] /\ v # "done" /\ v # "await" /\ v # "none" /\ v = "created"
    BY <2>1
  <2> HIDE DEF v
  <2> QED BY <1>0, <2>1, <2>2, <2>3, <2>4, CommandMove
<1>6. ASSUME NEW t \in Msgs, NEW v \in {"lock", "gate", "run", "put", "direct"},
             pc' = [pc EXCEPT ![t] = v], pc[t] \notin {"await", "done"},
             UNCHANGED <<active, cancelled, awaited, loopOp>>
      PROVE  CommandInv'
  BY <1>0, <1>6, CommandMove
<1>7. ASSUME NEW t \in Msgs,
             StartTask(t) \/ LockGranted(t) \/ GateGranted(t) \/ BlockOnContinuation(t)
      PROVE  CommandInv'
  <2>1. PICK v \in {"lock", "gate", "run", "put", "direct"} : pc' = [pc EXCEPT ![t] = v]
    BY <1>7 DEF StartTask, LockGranted, GateGranted, EnterGate, BeginTurn,
                BlockOnContinuation
  <2>2. /\ pc[t] \notin {"await", "done"}
        /\ UNCHANGED <<active, cancelled, awaited, loopOp>>
    BY <1>7 DEF StartTask, LockGranted, GateGranted, BlockOnContinuation
  <2> QED BY <2>1, <2>2, <1>6
<1>8. ASSUME NEW t \in Msgs, CommandNew(t) PROVE CommandInv'
  <2> DEFINE targets == active[SessionOf[t]] \ {t}
  <2>1. /\ pc[t] = "run" /\ KindOf[t] = "new" /\ t \notin cancelled /\ loopOp' = loopOp
        /\ CancelActive(SessionOf[t], t, targets)
        /\ targets \subseteq active[SessionOf[t]] \ {t}
    BY <1>8 DEF CommandNew
  <2>2. pc'[t] = "await" /\ \A u \in Msgs \ {t} : pc'[u] = pc[u]
    BY <1>0, <1>8 DEF CommandNew, TypeOK
  <2>3. loopOp # t
    BY <1>0, <2>1 DEF LifeInv
  <2>4. ~Commanding(t) /\ Commanding(t)'
    BY <2>1, <2>2, <2>3 DEF Commanding
  <2> HIDE DEF targets
  <2> QED BY <1>0, <2>1, <2>2, <2>4, CommandBegins
<1>9. ASSUME NEW t \in Msgs,
             pc[t] \notin {"none", "done"}, pc' = [pc EXCEPT ![t] = "done"],
             pc[t] = "await" => AwaitedDone(t),
             UNCHANGED <<cancelled, awaited, loopOp>>,
             \/ active' = [active EXCEPT ![SessionOf[t]] = @ \ {t}]
             \/ active' = active /\ KindOf[t] = "direct"
      PROVE  CommandInv'
  <2>1. \A s \in Sessions : t \in active[s] => SessionOf[t] = s /\ KindOf[t] # "direct"
    BY DEF CommandInv, Listed
  <2>2. \A s \in Sessions : \A u \in active'[s] : u \in active[s] /\ u # t
    <3>1. active \in [Sessions -> SUBSET Msgs]
      BY <1>0 DEF TypeOK
    <3>2. CASE active' = [active EXCEPT ![SessionOf[t]] = @ \ {t}]
      <4>1. \A s \in Sessions : active'[s] = IF s = SessionOf[t] THEN active[s] \ {t}
                                                              ELSE active[s]
        BY <3>1, <3>2
      <4> QED BY <4>1, <2>1, ZenonT(40)
    <3> QED BY <1>9, <2>1, <3>2
  <2>3. loopOp # t
    BY <1>0, <1>9 DEF LifeInv
  <2> DEFINE v == "done"
  <2>4. pc' = [pc EXCEPT ![t] = v] /\ v = "done" /\ v # "await" /\ v # "none"
    BY <1>9
  <2> HIDE DEF v
  <2>5. pc[t] # "done" /\ UNCHANGED <<cancelled, awaited, loopOp>>
        /\ (pc[t] = "await" => AwaitedDone(t))
    BY <1>9
  <2> QED BY <1>0, <2>2, <2>3, <2>4, <2>5, CommandMove
<1>10. ASSUME NEW t \in Msgs,
              EndDirect(t) \/ CancelUnstarted(t) \/ CancelWaiting(t)
       PROVE  CommandInv'
  <2>1. /\ pc[t] \notin {"none", "done", "await"} /\ pc' = [pc EXCEPT ![t] = "done"]
        /\ UNCHANGED <<cancelled, awaited, loopOp>>
        /\ \/ active' = [active EXCEPT ![SessionOf[t]] = @ \ {t}]
           \/ active' = active /\ KindOf[t] = "direct"
    BY <1>0, <1>10 DEF EndDirect, CancelUnstarted, CancelWaiting, LifeInv
  <2> QED BY <2>1, <1>9
<1>11. ASSUME NEW t \in Msgs, NEW outcome, NEW left, LeaveTurn(t, outcome, left),
              InTurn(t), pc[t] = "await" => AwaitedDone(t)
       PROVE  CommandInv'
  <2>1. /\ pc' = [pc EXCEPT ![t] = "done"] /\ UNCHANGED <<cancelled, awaited, loopOp>>
        /\ active' = [active EXCEPT ![SessionOf[t]] = @ \ {t}]
    BY <1>11 DEF LeaveTurn
  <2>2. pc[t] \notin {"none", "done"}
    BY <1>11 DEF InTurn, TurnPcs
  <2> QED BY <1>11, <2>1, <2>2, <1>9
<1>12. ASSUME NEW t \in Msgs, CancelTurn(t) \/ EndTurn(t) PROVE CommandInv'
  <2>1. PICK outcome : LeaveTurn(t, outcome, queueOf[t])
    BY <1>12 DEF CancelTurn, EndTurn, FinishTurn, FailTurn
  <2>2. InTurn(t) /\ (pc[t] = "await" => AwaitedDone(t))
    BY <1>12 DEF CancelTurn, EndTurn, FinishTurn, FailTurn, InTurn, TurnPcs,
                 CommandInv, Awaiting
  <2> QED BY <2>1, <2>2, <1>11
<1>13. ASSUME NEW t \in Msgs, NEW c \in Msgs, ContinueTurn(t, c) PROVE CommandInv'
  <2>1. LeaveTurn(t, "answered", Append(queueOf[t], c)) /\ pc[t] \in {"run", "put"}
    BY <1>13 DEF ContinueTurn
  <2> QED BY <2>1, <1>11 DEF InTurn, TurnPcs
<1>14. ASSUME NEW m \in Msgs,
              Publish(m) \/ Defer(m) \/ RouteToPending(m) \/ DrainInjections(m)
       PROVE  CommandInv'
  BY <1>14, <1>1 DEF Publish, Defer, RouteToPending, DrainInjections
<1>15. CASE UNCHANGED vars
  BY <1>15, <1>1 DEF vars
<1>16. CASE Next
  BY <1>16, <1>2, <1>3, <1>4, <1>5, <1>7, <1>8, <1>10, <1>12, <1>13, <1>14
     DEF Next, RunLoop, Proceed, Unwind
<1> QED BY <1>15, <1>16

----------------------------------------------------------------------------
(* Deferred automation turns, when new tasks run before the loop goes on. *)

\* While the loop executes a command no task waits for its first step: run()
\* let them all take it before it took the command from the bus.
Started == loopOp \in Msgs => \A t \in Msgs : pc[t] # "created"

\* Somebody is going to publish the next deferred turn of s.
Publishes(t, s) ==
    /\ SessionOf[t] = s
    /\ \/ pc[t] \notin {"none", "done"} /\ KindOf[t] # "direct"
       \/ KindOf[t] = "auto" /\ t \in Elems(bus)

PublisherInv ==
    \A s \in Sessions : deferred[s] # <<>> => \E t \in Msgs : Publishes(t, s)

\* The next deferred turn of t's session is published as t ends.
LEMMA PublisherLeaves ==
    ASSUME TypeOK, DispatchAssumption, PlaceInv, PublisherInv,
           NEW t \in Msgs, NEW left \in Seq(Msgs),
           bus' = bus \o left \o NextDeferred(SessionOf[t]),
           deferred' = DropNextDeferred(SessionOf[t]),
           \A x \in Msgs \ {t} : pc'[x] = pc[x]
    PROVE  PublisherInv'
<1> DEFINE r == SessionOf[t]
           next == NextDeferred(r)
<1>0. r \in Sessions /\ bus \in Seq(Msgs) /\ deferred[r] \in Seq(Msgs)
      /\ deferred \in [Sessions -> Seq(Msgs)]
  BY DEF DispatchAssumption, TypeOK
<1>1. Elems(bus') = Elems(bus) \cup Elems(left) \cup Elems(next)
  <2>1. next \in Seq(Msgs)
    BY <1>0, DeferredElems
  <2> DEFINE both == bus \o left
  <2>2. both \in Seq(Msgs) /\ Elems(both) = Elems(bus) \cup Elems(left)
    BY <1>0, ConcatElems
  <2>3. bus' = both \o next
    OBVIOUS
  <2> HIDE DEF both, next
  <2>4. Elems(both \o next) = Elems(both) \cup Elems(next)
    BY <2>1, <2>2, ConcatElems
  <2> QED BY <2>2, <2>3, <2>4
<1>2. deferred'[r] = RestOf(deferred[r], 1) /\ \A s \in Sessions \ {r} : deferred'[s] = deferred[s]
  BY <1>0 DEF DropNextDeferred
<1>3. deferred'[r] # <<>> => \E a \in Elems(deferred[r]) : a \in Elems(next)
  <2> SUFFICES ASSUME deferred'[r] # <<>>
               PROVE  \E a \in Elems(deferred[r]) : a \in Elems(next)
    OBVIOUS
  <2>1. Len(deferred[r]) >= 1 /\ next = SubSeq(deferred[r], 1, 1)
    BY <1>0, <1>2 DEF NextDeferred, FirstOf, RestOf
  <2>2. deferred[r][1] \in Elems(deferred[r]) /\ deferred[r][1] \in Elems(next)
    BY <1>0, <2>1 DEF Elems
  <2> QED BY <2>2
<1>4. \A a \in Elems(deferred[r]) : a \in Msgs /\ SessionOf[a] = r /\ KindOf[a] = "auto"
  BY <1>0, ElemsType DEF PlaceInv
<1>5. ASSUME NEW s \in Sessions, deferred'[s] # <<>>
      PROVE  \E u \in Msgs : Publishes(u, s)'
  <2>1. CASE s = r
    BY <1>1, <1>3, <1>4, <1>5, <2>1 DEF Publishes
  <2>2. CASE s # r
    <3>1. PICK u \in Msgs : Publishes(u, s)
      BY <1>2, <1>5, <2>2 DEF PublisherInv
    <3>2. u # t
      BY <2>2, <3>1 DEF Publishes
    <3> QED BY <1>1, <3>1, <3>2 DEF Publishes
  <2> QED BY <2>1, <2>2
<1> QED BY <1>5 DEF PublisherInv

\* No step leaves deferred turns behind that nobody is going to publish.
LEMMA PublisherStep ==
    ASSUME IInv, IInv', CommandInv, Started, PublisherInv, TasksStartFirst,
           DispatchAssumption, [Next]_vars
    PROVE  Started' /\ PublisherInv'
<1>0. /\ TypeOK /\ PlaceInv /\ LifeInv /\ NoTask \notin Msgs
      /\ \A m \in Msgs : SessionOf[m] \in Sessions
  BY DEF IInv, DispatchAssumption
<1>1. ASSUME UNCHANGED <<pc, loopOp>> \/ loopOp' \notin Msgs PROVE Started'
  BY <1>1 DEF Started
<1>2. ASSUME NEW t \in Msgs, NEW v, pc' = [pc EXCEPT ![t] = v], v # "created",
             UNCHANGED loopOp
      PROVE  Started'
  BY <1>0, <1>2 DEF Started, TypeOK
<1>3. ASSUME deferred' = deferred,
             \A x \in Msgs : x \in Elems(bus) => x \in Elems(bus'),
             \A x \in Msgs : pc[x] \notin {"none", "done"} /\ KindOf[x] # "direct"
                                => pc'[x] \notin {"none", "done"}
      PROVE  PublisherInv'
  BY <1>3 DEF PublisherInv, Publishes
<1>4. CASE UNCHANGED vars
  BY <1>1, <1>3, <1>4 DEF vars
<1>5. ASSUME NEW m \in Msgs, Publish(m) PROVE Started' /\ PublisherInv'
  <2>1. Elems(bus') = Elems(bus) \cup {m}
    BY <1>0, <1>5, AppendElems DEF Publish, TypeOK
  <2> QED BY <1>1, <1>3, <1>5, <2>1 DEF Publish
<1>6. ASSUME NEW m \in Msgs, CallDirect(m) PROVE Started' /\ PublisherInv'
  <2>1. PICK v \in {"lock", "direct"} : pc' = [pc EXCEPT ![m] = v]
    BY <1>6 DEF CallDirect
  <2>2. pc'[m] = v /\ \A x \in Msgs \ {m} : pc'[x] = pc[x]
    BY <1>0, <2>1 DEF TypeOK
  <2>3. UNCHANGED <<bus, deferred, loopOp>>
    BY <1>6 DEF CallDirect
  <2> QED BY <1>2, <1>3, <2>1, <2>2, <2>3
<1>7. ASSUME NEW m \in Msgs, Consume(m), KindOf[m] # "auto",
             UNCHANGED <<deferred, pc>>
      PROVE  PublisherInv'
  <2>1. Elems(bus') = Elems(bus) \ {m}
    BY <1>0, <1>7, ConsumeElems
  <2>2. ASSUME NEW s, NEW t \in Msgs, Publishes(t, s) PROVE Publishes(t, s)'
    BY <1>7, <2>1, <2>2 DEF Publishes
  <2> QED BY <1>7, <2>2 DEF PublisherInv
<1>8. ASSUME NEW m \in Msgs, BeginInlineCommand(m) PROVE Started' /\ PublisherInv'
  <2>1. /\ Consume(m) /\ KindOf[m] # "auto" /\ UNCHANGED <<deferred, pc>>
    BY <1>8 DEF BeginInlineCommand
  <2>2. \A t \in Msgs : pc[t] # "created"
    BY <2>1 DEF Consume
  <2> QED BY <1>7, <2>1, <2>2 DEF Started
<1>9. ASSUME NEW m \in Msgs, RouteToPending(m) PROVE Started' /\ PublisherInv'
  BY <1>1, <1>7, <1>9 DEF RouteToPending
<1>10. ASSUME NEW m \in Msgs, EndStop(m) \/ EndNewInline(m) PROVE Started' /\ PublisherInv'
  BY <1>0, <1>1, <1>3, <1>10 DEF EndStop, EndNewInline
<1>11. ASSUME NEW m \in Msgs, Defer(m) PROVE Started' /\ PublisherInv'
  <2> DEFINE s == SessionOf[m]
  <2>1. PICK t \in Msgs : InTurn(t) /\ SessionOf[t] = s /\ s \in Sessions
    BY <1>0, <1>11 DEF Defer, IInv, QueueHasConsumer, TypeOK
  <2>2. \A r \in Sessions \ {s} : deferred'[r] = deferred[r]
    BY <1>0, <1>11 DEF Defer, TypeOK
  <2>3. /\ Elems(bus') = Elems(bus) \ {m} /\ UNCHANGED <<pc, loopOp>>
    BY <1>0, <1>11, ConsumeElems DEF Defer
  <2>4. Publishes(t, s)'
    BY <1>0, <2>1, <2>3 DEF Publishes, InTurn, TurnPcs, LifeInv
  <2>5. \A r \in Sessions \ {s} : \A u \in Msgs : Publishes(u, r) => Publishes(u, r)'
    BY <2>3 DEF Publishes
  <2> QED BY <1>1, <2>1, <2>2, <2>3, <2>4, <2>5 DEF PublisherInv
<1>12. ASSUME NEW m \in Msgs, Spawn(m) PROVE Started' /\ PublisherInv'
  <2>1. /\ Elems(bus') = Elems(bus) \ {m} /\ KindOf[m] # "direct"
        /\ loopOp' = NoTask /\ deferred' = deferred
    BY <1>0, <1>12, ConsumeElems DEF Spawn, Consume
  <2>2. pc'[m] = "created" /\ \A x \in Msgs \ {m} : pc'[x] = pc[x]
    BY <1>0, <1>12 DEF Spawn, TypeOK
  <2>3. ASSUME NEW s, NEW t \in Msgs, Publishes(t, s) PROVE Publishes(t, s)'
    BY <2>1, <2>2, <2>3 DEF Publishes
  <2> QED BY <1>0, <1>1, <2>1, <2>3 DEF PublisherInv
<1>13. ASSUME NEW t \in Msgs,
              \/ StartTask(t) \/ LockGranted(t) \/ GateGranted(t)
              \/ CommandNew(t) \/ BlockOnContinuation(t)
       PROVE  Started' /\ PublisherInv'
  <2>1. PICK v \in {"lock", "gate", "run", "direct", "await", "put"} :
            pc' = [pc EXCEPT ![t] = v]
    BY <1>13 DEF StartTask, LockGranted, GateGranted, EnterGate, BeginTurn,
                 CommandNew, BlockOnContinuation
  <2>2. UNCHANGED <<bus, deferred, loopOp>>
    BY <1>13 DEF StartTask, LockGranted, GateGranted, CommandNew, BlockOnContinuation
  <2>3. \A x \in Msgs : pc'[x] = v \/ pc'[x] = pc[x]
    BY <1>0, <2>1 DEF TypeOK
  <2> QED BY <1>2, <1>3, <2>1, <2>2, <2>3
<1>14. ASSUME NEW t \in Msgs, EndDirect(t) PROVE Started' /\ PublisherInv'
  <2>1. pc' = [pc EXCEPT ![t] = "done"] /\ UNCHANGED <<bus, deferred, loopOp>>
    BY <1>14 DEF EndDirect
  <2>2. KindOf[t] = "direct" /\ \A x \in Msgs \ {t} : pc'[x] = pc[x]
    BY <1>0, <1>14, <2>1 DEF EndDirect, LifeInv, TypeOK
  <2> QED BY <1>2, <1>3, <2>1, <2>2
<1>15. ASSUME NEW t \in Msgs, CancelUnstarted(t) PROVE Started' /\ PublisherInv'
  <2>1. /\ pc' = [pc EXCEPT ![t] = "done"] /\ UNCHANGED <<bus, deferred, loopOp>>
        /\ t \in cancelled /\ pc[t] = "created"
    BY <1>15 DEF CancelUnstarted
  <2>2. \A x \in Msgs \ {t} : pc'[x] = pc[x]
    BY <1>0, <2>1 DEF TypeOK
  <2>3. PICK c \in Msgs : c # t /\ SessionOf[c] = SessionOf[t] /\ Commanding(c)
    BY <2>1 DEF CommandInv, Revoked
  <2>4. pc[c] = "await" /\ KindOf[c] = "new"
    BY <2>1, <2>3 DEF Started, Commanding, CommandInv, Awaiting
  <2>5. ASSUME NEW s \in Sessions, NEW u \in Msgs, Publishes(u, s)
        PROVE  \E x \in Msgs : Publishes(x, s)'
    <3>1. CASE u = t
      BY <2>2, <2>3, <2>4, <2>5, <3>1 DEF Publishes
    <3>2. CASE u # t
      BY <2>1, <2>2, <2>5, <3>2 DEF Publishes
    <3> QED BY <3>1, <3>2
  <2>6. PublisherInv'
    BY <2>1, <2>5 DEF PublisherInv
  <2> QED BY <1>2, <2>1, <2>6
<1>16. ASSUME NEW t \in Msgs, NEW left \in Seq(Msgs), pc' = [pc EXCEPT ![t] = "done"],
              bus' = bus \o left \o NextDeferred(SessionOf[t]),
              deferred' = DropNextDeferred(SessionOf[t]),
              loopOp' = loopOp
       PROVE  Started' /\ PublisherInv'
  <2>1. \A x \in Msgs \ {t} : pc'[x] = pc[x]
    BY <1>0, <1>16 DEF TypeOK
  <2> QED BY <1>0, <1>2, <1>16, <2>1, PublisherLeaves
<1>17. ASSUME NEW t \in Msgs, CancelWaiting(t) PROVE Started' /\ PublisherInv'
  <2>1. bus \o <<>> = bus /\ <<>> \in Seq(Msgs)
    BY <1>0 DEF TypeOK
  <2> DEFINE left == <<>>
  <2>2. /\ bus' = bus \o left \o NextDeferred(SessionOf[t]) /\ left \in Seq(Msgs)
        /\ deferred' = DropNextDeferred(SessionOf[t])
        /\ pc' = [pc EXCEPT ![t] = "done"] /\ loopOp' = loopOp
    BY <1>17, <2>1 DEF CancelWaiting
  <2> HIDE DEF left
  <2> QED BY <2>2, <1>16
<1>18. ASSUME NEW t \in Msgs, NEW outcome, NEW left \in Seq(Msgs), LeaveTurn(t, outcome, left)
       PROVE  Started' /\ PublisherInv'
  BY <1>16, <1>18 DEF LeaveTurn
<1>19. ASSUME NEW t \in Msgs, CancelTurn(t) \/ EndTurn(t) PROVE Started' /\ PublisherInv'
  <2>1. PICK outcome : LeaveTurn(t, outcome, queueOf[t])
    BY <1>19 DEF CancelTurn, EndTurn, FinishTurn, FailTurn
  <2>2. queueOf[t] \in Seq(Msgs)
    BY <1>0 DEF TypeOK
  <2> QED BY <2>1, <2>2, <1>18
<1>20. ASSUME NEW t \in Msgs, NEW c \in Msgs, ContinueTurn(t, c)
       PROVE  Started' /\ PublisherInv'
  <2>1. Append(queueOf[t], c) \in Seq(Msgs)
    BY <1>0 DEF TypeOK
  <2>2. LeaveTurn(t, "answered", Append(queueOf[t], c))
    BY <1>20 DEF ContinueTurn
  <2> QED BY <2>1, <2>2, <1>18
<1>21. ASSUME NEW t \in Msgs, DrainInjections(t) PROVE Started' /\ PublisherInv'
  BY <1>1, <1>3, <1>21 DEF DrainInjections
<1>22. CASE Next
  BY <1>22, <1>5, <1>6, <1>8, <1>9, <1>10, <1>11, <1>12, <1>13, <1>14, <1>15,
     <1>17, <1>19, <1>20, <1>21 DEF Next, RunLoop, Proceed, Unwind
<1> QED BY <1>4, <1>22

\* Where run() lets new tasks take their first step before it takes the next
\* message, deferred automation turns always have somebody who publishes the next
\* one, whatever is cancelled meanwhile.
THEOREM Published == TasksStartFirst => (Spec => []DeferredHasPublisher)
<1> SUFFICES ASSUME TasksStartFirst PROVE Spec => []DeferredHasPublisher
  OBVIOUS
<1>1. Init => CommandInv /\ Started /\ PublisherInv
  BY DispatchAssumption DEF Init, CommandInv, Listed, Awaiting, Revoked, Started,
                            PublisherInv
<1>2. IInv /\ [Next]_vars => IInv'
  BY DispatchAssumption, IInvStep
<1>3. IInv /\ IInv' /\ CommandInv /\ [Next]_vars => CommandInv'
  BY DispatchAssumption, CommandStep
<1>4. IInv /\ IInv' /\ CommandInv /\ Started /\ PublisherInv /\ [Next]_vars
          => Started' /\ PublisherInv'
  BY DispatchAssumption, PublisherStep
<1>5. IInv /\ PublisherInv => DeferredHasPublisher
  <2> SUFFICES ASSUME IInv, PublisherInv PROVE DeferredHasPublisher
    OBVIOUS
  <2>1. bus \in Seq(Msgs)
    BY DEF IInv, TypeOK
  <2>2. \A t : Contains(bus, t) <=> t \in Elems(bus)
    BY <2>1, ContainsElems
  <2> QED BY <2>2 DEF PublisherInv, Publishes, DeferredHasPublisher
<1> QED BY <1>1, <1>2, <1>3, <1>4, <1>5, Inductive, PTL DEF Spec

----------------------------------------------------------------------------
(* The loop implements the service. *)

\* A message is being worked on exactly while its task, or the direct call, is
\* past the lock and the gate.
LEMMA StatusOfTask ==
    ASSUME IInv, NEW m \in Msgs
    PROVE  /\ StatusOf(m) = "working" <=> InTurn(m) \/ pc[m] = "direct"
           /\ StatusOf(m) = "absent" <=> m \notin sent
           /\ StatusOf(m) = "over" <=> m \in sent /\ fate[m] # "open"
           /\ StatusOf(m) = "accepted" <=>
                 m \in sent /\ fate[m] = "open" /\ ~InTurn(m) /\ pc[m] # "direct"
<1>1. InTurn(m) \/ pc[m] = "direct" => m \in sent /\ fate[m] = "open"
  BY DEF IInv, LifeInv, InTurn, TurnPcs
<1> QED BY <1>1 DEF StatusOf

\* The same, for the messages that wait and for the command executed inline.
LEMMA StatusOfWaiting ==
    ASSUME IInv, NEW m \in Msgs, Unassigned(m) \/ loopOp = m
    PROVE  StatusOf(m) = "accepted"
BY DEF IInv, LifeInv, Unassigned, StatusOf, InTurn, TurnPcs

\* A step that changes no message's standing is none of the service's.
LEMMA StatusKeep ==
    ASSUME UNCHANGED <<sent, fate>>,
           \A x \in Msgs : \/ pc'[x] = pc[x]
                           \/ /\ InTurn(x) <=> InTurn(x)'
                              /\ pc[x] = "direct" <=> pc'[x] = "direct"
    PROVE  UNCHANGED [m \in Msgs |-> StatusOf(m)]
<1>1. \A x \in Msgs : StatusOf(x)' = StatusOf(x)
  BY DEF StatusOf, InTurn
<1> QED BY <1>1

\* Messages are over, and the others stay as they are.
LEMMA StatusOver ==
    ASSUME NEW S \in SUBSET Msgs, sent' = sent, S \subseteq sent,
           \A x \in S : fate'[x] # "open",
           \A x \in Msgs \ S : fate'[x] = fate[x] /\ pc'[x] = pc[x]
    PROVE  Service!Over(S)
<1>1. \A x \in S : StatusOf(x)' = "over"
  BY DEF StatusOf
<1>2. \A x \in Msgs \ S : StatusOf(x)' = StatusOf(x)
  BY DEF StatusOf, InTurn
<1> QED BY <1>1, <1>2 DEF Service!Over

\* A turn or a direct call begins: nobody works on the session, and a turn has
\* found the gate free.
LEMMA StatusBegin ==
    ASSUME IInv, IInv', DispatchAssumption, NEW t \in Msgs, NEW v \in {"run", "direct"},
           pc' = [pc EXCEPT ![t] = v], fate' = fate,
           ~InTurn(t), pc[t] # "direct",
           v = "run" => GateFree /\ sent' = sent,
           sent' = sent \cup {t}
    PROVE  Service!Begin(t)
<1>0. /\ pc'[t] = v /\ \A x \in Msgs \ {t} : pc'[x] = pc[x]
      /\ SessionOf[t] \in Sessions
  BY DEF IInv, TypeOK, DispatchAssumption
<1>1. HoldsLock(t)' /\ KindOf[t] # "stop" /\ (v = "direct" => KindOf[t] = "direct")
      /\ (v = "run" => KindOf[t] # "direct")
      /\ (InTurn(t)' \/ pc'[t] = "direct")
  BY <1>0 DEF IInv, LifeInv, HoldsLock, InTurn, TurnPcs
<1>2. StatusOf(t)' = "working" /\ \A x \in Msgs \ {t} : StatusOf(x)' = StatusOf(x)
  <2>1. t \in sent' /\ fate'[t] = "open"
    BY <1>1 DEF IInv, LifeInv, InTurn, TurnPcs
  <2>2. StatusOf(t)' = "working"
    BY <1>1, <2>1 DEF StatusOf
  <2> QED BY <1>0, <2>2 DEF StatusOf, InTurn
<1>3. StatusOf(t) \in {"absent", "accepted"} /\ (v = "run" => StatusOf(t) = "accepted")
  <2>1. t \in sent' /\ fate'[t] = "open"
    BY <1>1 DEF IInv, LifeInv, InTurn, TurnPcs
  <2> QED BY <2>1, StatusOfTask
<1>4. ASSUME NEW u \in Msgs, SessionOf[u] = SessionOf[t], StatusOf(u) = "working"
      PROVE  FALSE
  <2>1. HoldsLock(u) /\ u # t
    BY <1>4, StatusOfTask DEF HoldsLock
  <2>2. HoldsLock(u)'
    BY <1>0, <2>1 DEF HoldsLock, InTurn
  <2>3. Head(lockQ'[SessionOf[t]]) = t /\ Head(lockQ'[SessionOf[u]]) = u
    BY <1>1, <2>2 DEF IInv, LockInv
  <2> QED BY <1>4, <2>1, <2>3
<1>5. Service!Working(SessionOf[t]) = {}
  BY <1>4 DEF Service!Working
<1>6. Service!Gated = Running
  <2>1. \A m \in Msgs : InTurn(m) <=> StatusOf(m) = "working" /\ KindOf[m] # "direct"
    BY StatusOfTask DEF IInv, LifeInv, InTurn, TurnPcs
  <2> QED BY <2>1 DEF Service!Gated, Running
<1>7. [m \in Msgs |-> StatusOf(m)]' =
          [[m \in Msgs |-> StatusOf(m)] EXCEPT ![t] = "working"]
  BY <1>2
<1>8. Service!Cardinality(Service!Gated) = Cardinality(Running)
  BY <1>6, Zenon DEF Service!Cardinality, Cardinality
<1> QED BY <1>1, <1>3, <1>5, <1>7, <1>8 DEF Service!Begin, GateFree

Status == [m \in Msgs |-> StatusOf(m)]

\* The loop starts without a message.
LEMMA ServiceInit ==
    ASSUME Init PROVE Service!Init
<1>1. \A m \in Msgs : StatusOf(m) = "absent"
  BY DEF Init, StatusOf
<1> QED BY <1>1 DEF Service!Init

\* A task that ends in its turn, or a direct call: the turn is finished.
LEMMA ServiceFinish ==
    ASSUME IInv, NEW t \in Msgs, InTurn(t) \/ pc[t] = "direct",
           sent' = sent, fate'[t] # "open",
           \A x \in Msgs \ {t} : fate'[x] = fate[x] /\ pc'[x] = pc[x]
    PROVE  Service!Finish(t)
<1>1. StatusOf(t) = "working" /\ t \in sent
  BY StatusOfTask DEF StatusOf
<1>2. Service!Over({t})
  <2> DEFINE S == {t}
  <2>1. /\ S \in SUBSET Msgs /\ S \subseteq sent
        /\ \A x \in S : fate'[x] # "open"
        /\ \A x \in Msgs \ S : fate'[x] = fate[x] /\ pc'[x] = pc[x]
    BY <1>1
  <2> HIDE DEF S
  <2>2. Service!Over(S)
    BY <2>1, StatusOver
  <2> QED BY <2>2 DEF S
<1> QED BY <1>1, <1>2 DEF Service!Finish

\* A task that is cancelled before its turn is revoked by the command that
\* cancelled it.
LEMMA ServiceRevoke ==
    ASSUME IInv, CommandInv, NEW t \in cancelled,
           pc[t] \in {"created", "lock", "gate"},
           sent' = sent, fate'[t] # "open",
           \A x \in Msgs \ {t} : fate'[x] = fate[x] /\ pc'[x] = pc[x]
    PROVE  \E c \in Msgs : Service!Revoke(c, t)
<1>0. t \in Msgs /\ pc[t] # "done"
  BY DEF IInv, TypeOK
<1>1. PICK c \in Msgs : c # t /\ SessionOf[c] = SessionOf[t] /\ Commanding(c)
  BY <1>0 DEF CommandInv, Revoked
<1>2. StatusOf(t) = "accepted" /\ t \in sent
  <2>1. fate[t] = "open" /\ t \in sent /\ ~InTurn(t)
    BY <1>0 DEF IInv, LifeInv, InTurn, TurnPcs
  <2> QED BY <2>1 DEF StatusOf
<1>3. KindOf[c] \in {"stop", "new"} /\ StatusOf(c) \in {"accepted", "working"}
  <2>1. CASE loopOp = c
    BY <2>1, StatusOfWaiting DEF IInv, LifeInv
  <2>2. CASE pc[c] = "await"
    BY <2>2, StatusOfTask DEF CommandInv, Awaiting, InTurn, TurnPcs
  <2> QED BY <1>1, <2>1, <2>2 DEF Commanding
<1>4. Service!Over({t})
  <2> DEFINE S == {t}
  <2>1. /\ S \in SUBSET Msgs /\ S \subseteq sent
        /\ \A x \in S : fate'[x] # "open"
        /\ \A x \in Msgs \ S : fate'[x] = fate[x] /\ pc'[x] = pc[x]
    BY <1>0, <1>2
  <2> HIDE DEF S
  <2>2. Service!Over(S)
    BY <2>1, StatusOver
  <2> QED BY <2>2 DEF S
<1> QED BY <1>0, <1>1, <1>2, <1>3, <1>4 DEF Service!Revoke, Service!Command

\* Follow-ups that wait in a pending queue of the session.
LEMMA QueuedFollowUps ==
    ASSUME IInv, DispatchAssumption, NEW t \in Msgs
    PROVE  Elems(queueOf[t]) \subseteq Service!FollowUps(SessionOf[t]) \cap sent
<1> SUFFICES ASSUME NEW x \in Elems(queueOf[t])
             PROVE  x \in Service!FollowUps(SessionOf[t]) \cap sent
  OBVIOUS
<1>1. x \in Msgs
  BY ElemsType DEF IInv, TypeOK
<1>2. Unassigned(x) /\ SessionOf[x] = SessionOf[t] /\ KindOf[x] \in {"user", "cont"}
  BY DEF IInv, PlaceInv
<1>3. StatusOf(x) = "accepted" /\ x \in sent
  BY <1>1, <1>2, StatusOfWaiting DEF Unassigned
<1> QED BY <1>1, <1>2, <1>3 DEF Service!FollowUps

\* Injected follow-ups join the turn.
LEMMA ServiceJoin ==
    ASSUME IInv, DispatchAssumption, NEW t \in Msgs, DrainInjections(t)
    PROVE  Service!Join(t)
<1> DEFINE S == Elems(FirstOf(queueOf[t], MaxInject))
<1>0. /\ queueOf[t] \in Seq(Msgs) /\ Distinct(queueOf[t]) /\ MaxInject \in Nat
      /\ FirstOf(queueOf[t], MaxInject) \in Seq(Msgs)
  BY FirstRestType DEF IInv, TypeOK, PlaceInv, DispatchAssumption
<1>1. S \subseteq Elems(queueOf[t]) /\ S \subseteq Msgs
  BY <1>0, FirstRestElems, ElemsType
<1>2. S \subseteq Service!FollowUps(SessionOf[t]) /\ S \subseteq sent
  BY <1>1, QueuedFollowUps
<1>3. \A x : Contains(FirstOf(queueOf[t], MaxInject), x) <=> x \in S
  BY <1>0, ContainsElems
<1> HIDE DEF S
<1>4. /\ \A x \in S : fate'[x] # "open"
      /\ \A x \in Msgs \ S : fate'[x] = fate[x]
      /\ pc' = pc /\ sent' = sent
  BY <1>1, <1>3 DEF DrainInjections
<1>5. Service!Over(S)
  BY <1>1, <1>2, <1>4, StatusOver
<1>6. StatusOf(t) = "working"
  BY StatusOfTask DEF DrainInjections, InTurn, TurnPcs
<1> QED BY <1>2, <1>5, <1>6 DEF Service!Join

\* A command executed inline is over, and /stop takes the queued follow-ups of
\* the turn it stopped with it.
LEMMA ServiceEndCommand ==
    ASSUME IInv, DispatchAssumption, NEW m \in Msgs, EndStop(m) \/ EndNewInline(m)
    PROVE  Service!EndCommand(m)
<1>1. /\ StatusOf(m) = "accepted" /\ KindOf[m] \in {"stop", "new"} /\ m \in sent
  BY StatusOfWaiting DEF EndStop, EndNewInline, IInv, LifeInv
<1> DEFINE r == registered[SessionOf[m]]
<1>2. r \in Msgs \cup {NoTask} /\ (r # NoTask => SessionOf[r] = SessionOf[m])
  BY DEF IInv, TypeOK, QueueHasConsumer, DispatchAssumption
<1>3. ASSUME NEW S \in SUBSET Service!FollowUps(SessionOf[m]), S \subseteq sent,
             S # {} => KindOf[m] = "stop",
             sent' = sent, pc' = pc, fate'[m] # "open",
             \A x \in S : fate'[x] # "open",
             \A x \in Msgs : x \in S \/ x = m \/ fate'[x] = fate[x]
      PROVE  Service!EndCommand(m)
  <2> DEFINE T == S \cup {m}
  <2>1. /\ T \in SUBSET Msgs /\ T \subseteq sent
        /\ \A x \in T : fate'[x] # "open"
        /\ \A x \in Msgs \ T : fate'[x] = fate[x] /\ pc'[x] = pc[x]
    BY <1>1, <1>3 DEF Service!FollowUps
  <2> HIDE DEF T
  <2>2. Service!Over(T)
    BY <1>3, <2>1, StatusOver
  <2> QED BY <1>1, <1>3, <2>2 DEF T, Service!EndCommand, Service!Command
<1>4. CASE EndStop(m) /\ r # NoTask
  <2> DEFINE S == Elems(queueOf[r])
  <2>0. r \in Msgs /\ SessionOf[r] = SessionOf[m] /\ queueOf[r] \in Seq(Msgs)
    BY <1>2, <1>4 DEF IInv, TypeOK
  <2>1. S \subseteq Service!FollowUps(SessionOf[m]) /\ S \subseteq sent
    BY <2>0, QueuedFollowUps
  <2>2. \A x : Contains(queueOf[r], x) <=> x \in S
    BY <2>0, ContainsElems
  <2>3. S \subseteq Msgs /\ fate \in [Msgs -> Fates]
    BY <2>0, ElemsType DEF IInv, TypeOK
  <2> HIDE DEF S
  <2>4. /\ sent' = sent /\ pc' = pc /\ KindOf[m] = "stop" /\ fate'[m] # "open"
        /\ \A x \in S : fate'[x] # "open"
        /\ \A x \in Msgs : x \in S \/ x = m \/ fate'[x] = fate[x]
    BY <1>4, <2>2, <2>3 DEF EndStop
  <2> QED BY <2>1, <2>4, <1>3
<1>5. CASE EndNewInline(m) \/ (EndStop(m) /\ r = NoTask)
  <2>1. /\ sent' = sent /\ pc' = pc /\ fate'[m] # "open"
        /\ \A x \in Msgs : x = m \/ fate'[x] = fate[x]
    BY <1>5 DEF EndNewInline, EndStop, IInv, TypeOK
  <2> DEFINE S == {}
  <2>2. /\ S \in SUBSET Service!FollowUps(SessionOf[m]) /\ S \subseteq sent /\ S = {}
    OBVIOUS
  <2> HIDE DEF S
  <2> QED BY <2>1, <2>2, <1>3
<1> QED BY <1>4, <1>5

\* Every step of the loop is a step of the service, or none.
LEMMA ServiceStep ==
    ASSUME IInv, IInv', CommandInv, DispatchAssumption, [Next]_vars
    PROVE  Service!Next \/ UNCHANGED Status
<1>0. /\ TypeOK /\ PlaceInv /\ LifeInv
  BY DEF IInv
<1>1. CASE UNCHANGED vars
  BY <1>1, StatusKeep DEF vars, Status
<1>2. ASSUME NEW m \in Msgs, Publish(m) PROVE Service!Accept(m)
  <2>1. StatusOf(m) = "absent" /\ pc[m] = "none" /\ fate[m] = "open"
    BY <1>0, <1>2 DEF Publish, StatusOf, LifeInv
  <2>2. StatusOf(m)' = "accepted"
    BY <1>2, <2>1 DEF Publish, StatusOf, InTurn, TurnPcs
  <2>3. \A x \in Msgs \ {m} : StatusOf(x)' = StatusOf(x)
    BY <1>2 DEF Publish, StatusOf, InTurn
  <2> QED BY <2>1, <2>2, <2>3 DEF Service!Accept
<1>3. ASSUME NEW m \in Msgs, CallDirect(m) PROVE Service!Accept(m) \/ Service!Begin(m)
  <2>0. /\ pc[m] = "none" /\ fate[m] = "open" /\ m \notin sent
        /\ sent' = sent \cup {m} /\ fate' = fate
    BY <1>0, <1>3 DEF CallDirect, LifeInv
  <2>1. CASE pc' = [pc EXCEPT ![m] = "direct"]
    <3> DEFINE v == "direct"
    <3>1. /\ v \in {"run", "direct"} /\ v # "run" /\ pc' = [pc EXCEPT ![m] = v]
          /\ ~InTurn(m) /\ pc[m] # "direct"
      BY <2>0, <2>1 DEF InTurn, TurnPcs
    <3> HIDE DEF v
    <3> QED BY <2>0, <3>1, StatusBegin
  <2>2. CASE pc' = [pc EXCEPT ![m] = "lock"]
    <3>1. pc'[m] = "lock" /\ \A x \in Msgs \ {m} : pc'[x] = pc[x]
      BY <1>0, <2>2 DEF TypeOK
    <3>2. StatusOf(m) = "absent" /\ StatusOf(m)' = "accepted"
      BY <2>0, <3>1 DEF StatusOf, InTurn, TurnPcs
    <3>3. \A x \in Msgs \ {m} : StatusOf(x)' = StatusOf(x)
      BY <2>0, <3>1 DEF StatusOf, InTurn
    <3> QED BY <3>2, <3>3 DEF Service!Accept
  <2> QED BY <1>3, <2>1, <2>2 DEF CallDirect
<1>4. ASSUME NEW m \in Msgs,
             BeginInlineCommand(m) \/ Defer(m) \/ RouteToPending(m)
      PROVE  UNCHANGED Status
  BY <1>4, StatusKeep DEF BeginInlineCommand, Defer, RouteToPending, Status
<1>5. ASSUME NEW t \in Msgs, NEW v,
             pc' = [pc EXCEPT ![t] = v], UNCHANGED <<sent, fate>>,
             \/ InTurn(t) /\ v \in TurnPcs
             \/ /\ pc[t] \in {"none", "created", "lock", "gate"}
                /\ v \in {"created", "lock", "gate"}
      PROVE  UNCHANGED Status
  <2>1. pc'[t] = v /\ \A x \in Msgs \ {t} : pc'[x] = pc[x]
    BY <1>0, <1>5 DEF TypeOK
  <2>2. (InTurn(t) <=> InTurn(t)') /\ (pc[t] = "direct" <=> pc'[t] = "direct")
    BY <1>5, <2>1 DEF InTurn, TurnPcs
  <2> QED BY <1>5, <2>1, <2>2, StatusKeep DEF Status
<1>6. ASSUME NEW m \in Msgs, Spawn(m) PROVE UNCHANGED Status
  <2>1. pc[m] = "none"
    BY <1>0, <1>6, ConsumeElems DEF Spawn, Unassigned
  <2>2. pc' = [pc EXCEPT ![m] = "created"] /\ UNCHANGED <<sent, fate>>
    BY <1>6 DEF Spawn
  <2> QED BY <2>1, <2>2, <1>5
<1>7. ASSUME NEW t \in Msgs, NEW v \in {"run", "direct"}, pc' = [pc EXCEPT ![t] = v],
             UNCHANGED <<sent, fate>>, v = "run" => GateFree,
             pc[t] \in {"created", "lock", "gate"}
      PROVE  Service!Begin(t)
  <2>1. ~InTurn(t) /\ pc[t] # "direct" /\ t \in sent
    BY <1>0, <1>7 DEF InTurn, TurnPcs, LifeInv
  <2>2. sent' = sent \cup {t}
    BY <1>7, <2>1
  <2> QED BY <1>7, <2>1, <2>2, StatusBegin
<1>8. ASSUME NEW t \in Msgs, StartTask(t) \/ LockGranted(t) \/ GateGranted(t)
      PROVE  Service!Begin(t) \/ UNCHANGED Status
  <2>1. UNCHANGED <<sent, fate>> /\ pc[t] \in {"created", "lock", "gate"}
    BY <1>8 DEF StartTask, LockGranted, GateGranted
  <2>2. \/ pc' = [pc EXCEPT ![t] = "run"] /\ GateFree
        \/ pc' = [pc EXCEPT ![t] = "direct"]
        \/ \E v \in {"lock", "gate"} : pc' = [pc EXCEPT ![t] = v]
    BY <1>8 DEF StartTask, LockGranted, GateGranted, EnterGate, BeginTurn
  <2> QED BY <2>1, <2>2, <1>5, <1>7
<1>9. ASSUME NEW t \in Msgs, CommandNew(t) \/ BlockOnContinuation(t)
      PROVE  UNCHANGED Status
  <2>1. /\ UNCHANGED <<sent, fate>> /\ InTurn(t)
        /\ \E v \in TurnPcs : pc' = [pc EXCEPT ![t] = v]
    BY <1>9 DEF CommandNew, BlockOnContinuation, InTurn, TurnPcs
  <2> QED BY <2>1, <1>5
<1>10. ASSUME NEW t \in Msgs, EndDirect(t) PROVE Service!Finish(t)
  BY <1>0, <1>10, ServiceFinish DEF EndDirect, TypeOK
<1>11. ASSUME NEW t \in Msgs, CancelWaiting(t) \/ CancelUnstarted(t)
       PROVE  \E c \in Msgs : Service!Revoke(c, t)
  <2>1. /\ t \in cancelled /\ pc[t] \in {"created", "lock", "gate"} /\ sent' = sent
        /\ fate'[t] # "open"
        /\ \A x \in Msgs \ {t} : fate'[x] = fate[x] /\ pc'[x] = pc[x]
    BY <1>0, <1>11 DEF CancelWaiting, CancelUnstarted, TypeOK
  <2> QED BY <2>1, ServiceRevoke
<1>12. ASSUME NEW t \in Msgs, CancelTurn(t) \/ EndTurn(t) PROVE Service!Finish(t)
  <2>1. PICK outcome \in {"answered", "failed", "cancelled"} :
            LeaveTurn(t, outcome, queueOf[t])
    BY <1>12 DEF CancelTurn, EndTurn, FinishTurn, FailTurn
  <2>2. InTurn(t) /\ sent' = sent
    BY <1>12 DEF CancelTurn, EndTurn, FinishTurn, FailTurn, InTurn, TurnPcs
  <2>3. /\ fate'[t] # "open"
        /\ \A x \in Msgs \ {t} : fate'[x] = fate[x] /\ pc'[x] = pc[x]
    BY <1>0, <2>1 DEF LeaveTurn, TypeOK
  <2> QED BY <2>2, <2>3, ServiceFinish
<1>13. ASSUME NEW t \in Msgs, NEW c \in Msgs, ContinueTurn(t, c) PROVE Service!Finish(t)
  <2>1. /\ fate'[t] = "answered"
        /\ \A x \in Msgs \ {t} : fate'[x] = fate[x] /\ pc'[x] = pc[x]
        /\ InTurn(t) /\ sent' = sent \cup {c} /\ c \notin sent
        /\ KindOf[c] = "cont" /\ SessionOf[c] = SessionOf[t]
    BY <1>0, <1>13 DEF ContinueTurn, CanContinue, LeaveTurn, TypeOK, InTurn, TurnPcs
  <2>2. /\ StatusOf(t) = "working" /\ StatusOf(c) = "absent"
        /\ t \in sent /\ pc[c] = "none" /\ fate[c] = "open" /\ c # t
    BY <1>0, <2>1, StatusOfTask DEF StatusOf, LifeInv
  <2>3. StatusOf(t)' = "over" /\ StatusOf(c)' = "accepted"
    BY <2>1, <2>2 DEF StatusOf, InTurn, TurnPcs
  <2>4. \A x \in Msgs \ {t, c} : StatusOf(x)' = StatusOf(x)
    BY <2>1 DEF StatusOf, InTurn
  <2>5. [m \in Msgs |-> StatusOf(m)]' =
            [[m \in Msgs |-> StatusOf(m)] EXCEPT ![t] = "over", ![c] = "accepted"]
    BY <2>2, <2>3, <2>4
  <2> QED BY <2>1, <2>2, <2>5 DEF Service!Finish
<1>14. CASE \E m \in Msgs : Publish(m) \/ CallDirect(m) \/ RunLoop(m)
  <2>1. PICK m \in Msgs : Publish(m) \/ CallDirect(m) \/ RunLoop(m)
    BY <1>14
  <2>2. \/ UNCHANGED Status \/ Service!Accept(m) \/ Service!Begin(m)
        \/ Service!EndCommand(m)
    BY <2>1, <1>2, <1>3, <1>4, <1>6, ServiceEndCommand DEF RunLoop
  <2> QED BY <2>2 DEF Service!Next
<1>15. CASE \E t \in Msgs : \/ Proceed(t) \/ EndTurn(t) \/ DrainInjections(t)
                            \/ BlockOnContinuation(t)
                            \/ \E c \in Msgs : ContinueTurn(t, c)
  <2>1. PICK t \in Msgs : \/ Proceed(t) \/ EndTurn(t) \/ DrainInjections(t)
                          \/ BlockOnContinuation(t)
                          \/ \E c \in Msgs : ContinueTurn(t, c)
    BY <1>15
  <2>2. \/ UNCHANGED Status \/ Service!Begin(t) \/ Service!Join(t) \/ Service!Finish(t)
        \/ \E c \in Msgs : Service!Revoke(c, t)
    BY <2>1, <1>8, <1>9, <1>10, <1>11, <1>12, <1>13, ServiceJoin DEF Proceed, Unwind
  <2> QED BY <2>2 DEF Service!Next
<1> QED BY <1>1, <1>14, <1>15 DEF Next

\* The queues, locks, tasks and cancellations of the loop keep its promise: one
\* turn at a time for each session within the gate, follow-ups join and
\* automations do not, only commands of a session revoke, and what is over stays
\* over.
THEOREM Implements == Spec => ServiceSpec
<1>1. Init => Service!Init /\ CommandInv
  BY ServiceInit DEF Init, CommandInv, Listed, Awaiting, Revoked
<1>2. IInv /\ [Next]_vars => IInv'
  BY DispatchAssumption, IInvStep
<1>3. IInv /\ IInv' /\ CommandInv /\ [Next]_vars => CommandInv'
  BY DispatchAssumption, CommandStep
<1>4. IInv /\ IInv' /\ CommandInv /\ [Next]_vars
          => [Service!Next]_[m \in Msgs |-> StatusOf(m)]
  BY DispatchAssumption, ServiceStep DEF Status
<1> QED BY <1>1, <1>2, <1>3, <1>4, Inductive, PTL DEF Spec, ServiceSpec, Service!Spec
=============================================================================
