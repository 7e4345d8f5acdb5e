------------------------ MODULE SessionMemoryProofs ------------------------
(***************************************************************************)
(* Proofs about SessionMemory for any conversation, any bounds and any      *)
(* number of crashes: what was saved is forgotten only where lost says so,  *)
(* the cursor hides what is archived, a turn replays the rest, and what was *)
(* ended stays away.                                                       *)
(* They suppose what the memory run supposes, that no /new, command,        *)
(* deletion or direct call comes while an archive call is awaited.          *)
(***************************************************************************)
EXTENDS SessionMemory, FiniteSetTheorems, NaturalsInduction,
        WellFoundedInduction, SequenceTheorems, TLAPS

----------------------------------------------------------------------------
(* Sessions.                                                                 *)

\* Every message is an input, or is not far behind the one it answers.
Shape(ms) ==
    \A i \in 1..Len(ms) : \E j \in UsersIn(ms) : j <= i /\ i - j <= MaxReplies

\* A session whose cursor is at a user message or at its end.
Good(o) ==
    /\ o \in SessionObject
    /\ Shape(o.messages)
    /\ o.cursor <= Len(o.messages)
    /\ o.cursor < Len(o.messages) => o.cursor + 1 \in UsersIn(o.messages)

\* What the cursor hides, and what it does not.
Hidden(o) == {o.messages[i] : i \in 1..o.cursor}
Visible(o) == {o.messages[i] : i \in o.cursor + 1..Len(o.messages)}

\* The messages from position k on.
From(ms, k) == SubSeq(ms, k, Len(ms))

\* What session o still shows is the end of what session p shows.
EndOf(o, p) ==
    \E k \in p.cursor + 1..Len(p.messages) + 1 : Tail_(o) = From(p.messages, k)

----------------------------------------------------------------------------
(* The inductive invariant.                                                  *)

TurnRecord == [pc : {"idle", "lock", "build", "model"}, of : Users \cup {NoInput},
               obj : Ids \cup {0}, replay : SUBSET Messages, shown : SUBSET Messages]
JobRecord == [step : {"none", "replay", "tokens", "idle"}, obj : Ids \cup {0},
              chunk : SUBSET Messages, end : Nat, keep : Seq(Messages)]

Types ==
    /\ heap \in [Ids -> SessionObject]
    /\ cached \in Ids \cup {0}
    /\ turn \in TurnRecord
    /\ job \in JobRecord
    /\ lock \in Seq(Tasks)
    /\ archived \subseteq Messages /\ farewell \subseteq Messages
    /\ said \subseteq Messages

\* The file and the objects are sound, and the cursor hides what is archived.
Sound ==
    /\ Good(file) /\ Hidden(file) \subseteq archived
    /\ \A i \in Ids : Good(heap[i]) /\ Hidden(heap[i]) \subseteq archived
    /\ cached # 0 => heap[cached] = file

Kept == said \subseteq Visible(file) \cup archived \cup farewell \cup lost

\* A turn that waits for the lock is the last in the queue; when it goes on nobody
\* else holds the lock or waits for it.
Queue ==
    /\ turn.pc = "idle" => \A i \in 1..Len(lock) : lock[i] # "turn"
    /\ turn.pc = "lock" => /\ lock # <<>> /\ lock[Len(lock)] = "turn"
                           /\ \A i \in 1..Len(lock) - 1 : lock[i] # "turn"
    /\ turn.pc \in {"build", "model"} => lock = <<>>

\* The object of a turn holds what the file holds, also after a compaction has put
\* another one in its place.
TurnHas ==
    turn.pc # "idle" =>
        /\ turn.obj \in Ids /\ turn.of \in Users
        /\ said \subseteq Visible(heap[turn.obj]) \cup archived \cup farewell \cup lost
        /\ turn.pc = "lock" => EndOf(file, heap[turn.obj])
        /\ turn.pc = "model" =>
               LET o == heap[turn.obj]
               IN  o.cursor < Len(o.messages) /\ Len(o.messages) \in UsersIn(o.messages)

\* Job j cuts what session o shows in two at a user message, or moves its cursor to one.
CutsTail(j, o) ==
    \E k \in UsersIn(Tail_(o)) : /\ j.keep = From(Tail_(o), k)
                               /\ j.chunk = {Tail_(o)[i] : i \in 1..k - 1}
MovesCursor(j, o) ==
    /\ j.end \in o.cursor..Len(o.messages)
    /\ j.end < Len(o.messages) => j.end + 1 \in UsersIn(o.messages)
    /\ j.chunk = {o.messages[i] : i \in o.cursor + 1..j.end}

\* What a task that awaits the model is about to write.
Held ==
    Awaited =>
        /\ lock # <<>>
        /\ cached # 0 /\ job.obj = cached
        /\ job.step = "idle" => Head(lock) = "idle" /\ CutsTail(job, file)
        /\ job.step # "idle" =>
               /\ Head(lock) # "idle" /\ MovesCursor(job, file)
               /\ Head(lock) = "turn" => Len(file.messages) - job.end <= Window

\* What was ended is in no object that is still saved, and no turn adds to it.
Ended ==
    /\ \A m \in said \cup cleared : m[1] \in taken
    /\ \A i \in 1..Len(file.messages) : file.messages[i] \notin cleared
    /\ turn.pc # "idle" =>
           /\ turn.of \in taken
           /\ \A m \in cleared : m[1] # turn.of
           /\ \A i \in 1..Len(heap[turn.obj].messages) : heap[turn.obj].messages[i] \notin cleared

IInv == Types /\ Sound /\ Kept /\ Queue /\ TurnHas /\ Held /\ Ended /\ AllRecalled

----------------------------------------------------------------------------
(* Least and greatest elements.                                              *)

\* Natural numbers have a least element.
LEMMA MinIs ==
    ASSUME NEW S, S \subseteq Nat, S # {}
    PROVE  Min(S) \in S /\ \A y \in S : Min(S) <= y
<1> DEFINE R == {ss \in Nat \X Nat : ss[1] < ss[2]}
<1>0. IsWellFoundedOn(OpToRel(<, Nat), Nat)
    BY NatLessThanWellFounded
<1>1. R = OpToRel(<, Nat)
    BY DEF OpToRel
<1>2. IsWellFoundedOn(R, Nat)
    BY <1>0, <1>1
<1> HIDE DEF R
<1>3. PICK x \in S : \A y \in S : ~(<<y, x>> \in R)
    BY <1>2, WFMin
<1>4. \A y \in S : x <= y
    <2> TAKE y \in S
    <2>1. <<y, x>> \notin R /\ x \in Nat /\ y \in Nat
        BY <1>3
    <2> QED  BY <2>1 DEF R
<1> QED  BY <1>4 DEF Min

\* Bounded natural numbers have a greatest element.
LEMMA MaxIs ==
    ASSUME NEW n \in Nat, NEW S, S \subseteq 0..n, S # {}
    PROVE  Max(S) \in S /\ \A y \in S : Max(S) >= y
<1> DEFINE T == {n - y : y \in S}
<1>1. T \subseteq Nat /\ T # {}
    <2>1. \A y \in S : n - y \in Nat
        OBVIOUS
    <2> QED  BY <2>1
<1>2. Min(T) \in T /\ \A z \in T : Min(T) <= z
    BY <1>1, MinIs
<1>3. PICK x \in S : Min(T) = n - x
    BY <1>2
<1>4. \A y \in S : x >= y
    <2> TAKE y \in S
    <2>1. Min(T) <= n - y /\ x \in 0..n /\ y \in 0..n
        BY <1>2
    <2> QED  BY <2>1, <1>3
<1> QED  BY <1>4 DEF Max

\* The ends of an interval.
LEMMA IntervalEnds ==
    ASSUME NEW a \in Nat, NEW b \in Nat, a <= b
    PROVE  Min(a..b) = a /\ Max(a..b) = b
<1>1. a..b \subseteq Nat /\ a..b \subseteq 0..b /\ a..b # {} /\ a \in a..b /\ b \in a..b
    OBVIOUS
<1>2. Min(a..b) \in a..b /\ Min(a..b) <= a
    BY <1>1, MinIs
<1>3. Max(a..b) \in a..b /\ Max(a..b) >= b
    BY <1>1, MaxIs
<1> QED  BY <1>2, <1>3

----------------------------------------------------------------------------
(* Sequences and their elements.                                             *)

\* The index Without removes at.
LEMMA WithoutAt ==
    ASSUME NEW S, NEW seq \in Seq(S), NEW x, Contains(seq, x)
    PROVE  \E k \in 1..Len(seq) :
              /\ seq[k] = x
              /\ Without(seq, x) = SubSeq(seq, 1, k - 1) \o SubSeq(seq, k + 1, Len(seq))
<1> DEFINE k == CHOOSE i \in DOMAIN seq : seq[i] = x
<1>1. k \in 1..Len(seq) /\ seq[k] = x
  BY DEF Contains
<1>2. Without(seq, x) = SubSeq(seq, 1, k - 1) \o SubSeq(seq, k + 1, Len(seq))
  BY DEF Without, RemoveAt
<1> HIDE DEF k
<1> QED BY <1>1, <1>2

\* Removing an element leaves a sequence over the same set.
LEMMA WithoutType ==
    ASSUME NEW S, NEW seq \in Seq(S), NEW x
    PROVE  Without(seq, x) \in Seq(S)
<1>1. CASE ~Contains(seq, x)
  BY <1>1 DEF Without
<1>2. CASE Contains(seq, x)
  <2>1. PICK k \in 1..Len(seq) :
            Without(seq, x) = SubSeq(seq, 1, k - 1) \o SubSeq(seq, k + 1, Len(seq))
    BY <1>2, WithoutAt
  <2> QED BY <2>1
<1> QED BY <1>1, <1>2

\* Appending adds one element.
LEMMA AppendElems ==
    ASSUME NEW S, NEW seq \in Seq(S), NEW x \in S
    PROVE  Elems(Append(seq, x)) = Elems(seq) \cup {x}
<1> DEFINE new == Append(seq, x)
<1>1. /\ Len(new) = Len(seq) + 1
      /\ \A i \in 1..Len(seq) : new[i] = seq[i]
      /\ new[Len(seq) + 1] = x
  OBVIOUS
<1> HIDE DEF new
<1>2. \A i \in 1..Len(new) : new[i] \in Elems(seq) \cup {x}
  BY <1>1 DEF Elems
<1>3. \A i \in 1..Len(seq) : seq[i] \in Elems(new)
  BY <1>1 DEF Elems
<1>4. x \in Elems(new)
  BY <1>1 DEF Elems
<1>5. Elems(new) = Elems(seq) \cup {x}
  BY <1>2, <1>3, <1>4 DEF Elems
<1> QED BY <1>5 DEF new

\* Concatenating adds the elements of both.
LEMMA ConcatElems ==
    ASSUME NEW S, NEW p \in Seq(S), NEW q \in Seq(S)
    PROVE  Elems(p \o q) = Elems(p) \cup Elems(q)
<1> DEFINE new == p \o q
<1>1. /\ Len(new) = Len(p) + Len(q)
      /\ \A i \in 1..Len(p) : new[i] = p[i]
      /\ \A i \in 1..Len(q) : new[Len(p) + i] = q[i]
      /\ \A i \in Len(p) + 1..Len(new) : new[i] = q[i - Len(p)]
      /\ Len(p) \in Nat /\ Len(q) \in Nat
  OBVIOUS
<1> HIDE DEF new
<1>2. ASSUME NEW i \in 1..Len(new) PROVE new[i] \in Elems(p) \cup Elems(q)
  <2>1. CASE i \in 1..Len(p)
    BY <1>1, <2>1 DEF Elems
  <2>2. CASE i \in Len(p) + 1..Len(new)
    <3>1. i - Len(p) \in 1..Len(q) /\ new[i] = q[i - Len(p)]
      BY <1>1, <2>2
    <3> QED BY <3>1 DEF Elems
  <2> QED BY <1>1, <2>1, <2>2
<1>3. ASSUME NEW i \in 1..Len(p) PROVE p[i] \in Elems(new)
  <2>1. i \in 1..Len(new) /\ new[i] = p[i]
    BY <1>1
  <2> QED BY <2>1 DEF Elems
<1>4. ASSUME NEW i \in 1..Len(q) PROVE q[i] \in Elems(new)
  <2>1. Len(p) + i \in 1..Len(new) /\ new[Len(p) + i] = q[i]
    BY <1>1
  <2> QED BY <2>1 DEF Elems
<1>5. Elems(new) = Elems(p) \cup Elems(q)
  BY <1>2, <1>3, <1>4 DEF Elems
<1> QED BY <1>5 DEF new

\* The elements of a sub-sequence.
LEMMA SubSeqElems ==
    ASSUME NEW S, NEW seq \in Seq(S), NEW a \in Nat \ {0}, NEW b \in 0..Len(seq)
    PROVE  /\ SubSeq(seq, a, b) \in Seq(S)
           /\ Elems(SubSeq(seq, a, b)) = {seq[i] : i \in a..b}
<1> DEFINE new == SubSeq(seq, a, b)
           n == IF a <= b THEN b - a + 1 ELSE 0
<1>1. /\ new \in Seq(S) /\ Len(new) = n /\ n \in Nat
      /\ \A i \in 1..n : new[i] = seq[a + i - 1] /\ a + i - 1 \in a..b
  OBVIOUS
<1>2. \A i \in a..b : i - a + 1 \in 1..n /\ a + (i - a + 1) - 1 = i
  OBVIOUS
<1> HIDE DEF new, n
<1>3. ASSUME NEW i \in a..b PROVE seq[i] \in Elems(new)
  <2>1. i - a + 1 \in 1..Len(new) /\ new[i - a + 1] = seq[i]
    BY <1>1, <1>2
  <2> QED BY <2>1 DEF Elems
<1>4. Elems(new) = {seq[i] : i \in a..b}
  <2>1. \A i \in 1..n : new[i] \in {seq[k] : k \in a..b}
    BY <1>1
  <2> QED BY <1>1, <1>3, <2>1 DEF Elems
<1> QED BY <1>1, <1>4 DEF new

----------------------------------------------------------------------------
(* Sessions that lose a beginning.                                           *)

\* What is left of a sequence.
LEMMA FromFacts ==
    ASSUME NEW ms \in Seq(Messages), NEW k \in 1..Len(ms) + 1
    PROVE  /\ From(ms, k) \in Seq(Messages)
           /\ Len(From(ms, k)) = Len(ms) - k + 1
           /\ \A i \in 1..Len(ms) - k + 1 : From(ms, k)[i] = ms[k + i - 1] /\ k + i - 1 \in 1..Len(ms)
<1> DEFINE n == Len(ms)
<1>1. n \in Nat /\ ms \in [1..n -> Messages]
    OBVIOUS
<1>2. \A i \in 1..n - k + 1 : k + i - 1 \in 1..n
    BY <1>1
<1>3. \A i \in k..n : ms[i] \in Messages
    BY <1>1
<1>4. /\ SubSeq(ms, k, n) \in Seq(Messages)
      /\ Len(SubSeq(ms, k, n)) = IF k <= n THEN n - k + 1 ELSE 0
      /\ \A i \in 1..n - k + 1 : SubSeq(ms, k, n)[i] = ms[k + i - 1]
    BY <1>1, <1>3, SubSeqProperties
<1> QED  BY <1>1, <1>2, <1>4 DEF From

\* Two sequences of one length with the same elements are one.
LEMMA SameSeq ==
    ASSUME NEW p \in Seq(Messages), NEW q \in Seq(Messages), Len(p) = Len(q),
           \A i \in 1..Len(p) : p[i] = q[i]
    PROVE  p = q
OBVIOUS

LEMMA FromFrom ==
    ASSUME NEW ms \in Seq(Messages), NEW k \in 1..Len(ms) + 1, NEW l \in 1..Len(ms) - k + 2
    PROVE  From(From(ms, k), l) = From(ms, k + l - 1)
<1> DEFINE p == From(ms, k)
           n == Len(ms)
<1>0. n \in Nat /\ k + l - 1 \in 1..n + 1
    OBVIOUS
<1>1. p \in Seq(Messages) /\ Len(p) = n - k + 1
      /\ \A i \in 1..n - k + 1 : p[i] = ms[k + i - 1]
    BY FromFacts
<1>2. From(p, l) \in Seq(Messages) /\ Len(From(p, l)) = Len(p) - l + 1
      /\ \A i \in 1..Len(p) - l + 1 : From(p, l)[i] = p[l + i - 1]
    <2>1. l \in 1..Len(p) + 1
        BY <1>0, <1>1
    <2> HIDE DEF p
    <2> QED  BY <1>1, <2>1, FromFacts
<1>3. From(ms, k + l - 1) \in Seq(Messages) /\ Len(From(ms, k + l - 1)) = n - (k + l - 1) + 1
      /\ \A i \in 1..n - (k + l - 1) + 1 : From(ms, k + l - 1)[i] = ms[(k + l - 1) + i - 1]
    BY <1>0, FromFacts
<1> HIDE DEF p, n
<1>4. Len(From(p, l)) = Len(From(ms, k + l - 1))
    BY <1>0, <1>1, <1>2, <1>3
<1>5. ASSUME NEW i \in 1..Len(From(p, l))
      PROVE  From(p, l)[i] = From(ms, k + l - 1)[i]
    <2>0. k \in Nat /\ l \in Nat /\ k >= 1 /\ l >= 1 /\ n \in Nat /\ Len(p) = n - k + 1
        BY <1>0, <1>1
    <2>1. i \in 1..Len(p) - l + 1 /\ l + i - 1 \in 1..n - k + 1 /\ i \in 1..n - (k + l - 1) + 1
          /\ k + (l + i - 1) - 1 = (k + l - 1) + i - 1
        BY <2>0, <1>2
    <2>2. From(p, l)[i] = p[l + i - 1]
        BY <2>1, <1>2
    <2>3. p[l + i - 1] = ms[k + (l + i - 1) - 1]
        BY <2>1, <1>1
    <2> QED  BY <2>1, <2>2, <2>3, <1>3
<1> QED  BY <1>2, <1>3, <1>4, <1>5, SameSeq DEF p

\* Where the inputs are in what is left.
LEMMA FromUsers ==
    ASSUME NEW ms \in Seq(Messages), NEW k \in 1..Len(ms) + 1, NEW i \in 1..Len(ms) - k + 1
    PROVE  i \in UsersIn(From(ms, k)) <=> k + i - 1 \in UsersIn(ms)
<1>1. /\ From(ms, k)[i] = ms[k + i - 1] /\ k + i - 1 \in 1..Len(ms)
      /\ Len(From(ms, k)) = Len(ms) - k + 1
      /\ From(ms, k) \in Seq(Messages)
    BY FromFacts
<1>2. i \in DOMAIN From(ms, k) /\ k + i - 1 \in DOMAIN ms
    BY <1>1
<1> QED  BY <1>1, <1>2 DEF UsersIn

\* Positions of inputs are positions.
LEMMA UsersAt ==
    ASSUME NEW ms \in Seq(Messages)
    PROVE  /\ UsersIn(ms) \subseteq 1..Len(ms)
           /\ \A i \in 1..Len(ms) : i \in UsersIn(ms) <=> ms[i][2] = 0
BY DEF UsersIn

\* A session that begins at an input is sound.
LEMMA ShapeFrom ==
    ASSUME NEW ms \in Seq(Messages), Shape(ms), NEW k \in 1..Len(ms) + 1,
           k <= Len(ms) => k \in UsersIn(ms), MaxReplies \in Nat
    PROVE  Shape(From(ms, k))
<1> DEFINE d == From(ms, k)
           n == Len(ms)
<1>0. n \in Nat
    OBVIOUS
<1>1. Len(d) = n - k + 1
    BY FromFacts
<1>2. \A i \in 1..n - k + 1 : i \in UsersIn(d) <=> k + i - 1 \in UsersIn(ms)
    BY FromUsers
<1>3. UsersIn(ms) \subseteq 1..n /\ \A i \in 1..n : \E j \in UsersIn(ms) : j <= i /\ i - j <= MaxReplies
    BY UsersAt DEF Shape
<1> HIDE DEF d, n
<1> SUFFICES ASSUME NEW i \in 1..Len(d)
             PROVE  \E j \in UsersIn(d) : j <= i /\ i - j <= MaxReplies
    BY DEF Shape, d
<1>4. k \in Nat /\ k + i - 1 \in 1..n /\ i \in 1..n - k + 1 /\ 1 \in 1..n - k + 1 /\ k <= n
    BY <1>0, <1>1
<1>5. PICK j \in UsersIn(ms) : j <= k + i - 1 /\ k + i - 1 - j <= MaxReplies
    BY <1>3, <1>4
<1>6. j \in 1..n
    BY <1>3
<1>7. CASE j >= k
    <2>1. j - k + 1 \in 1..n - k + 1 /\ k + (j - k + 1) - 1 = j
        BY <1>0, <1>4, <1>6, <1>7
    <2>2. j - k + 1 \in UsersIn(d)
        BY <2>1, <1>2
    <2> QED  BY <2>2, <1>0, <1>4, <1>5, <1>6
<1>8. CASE j < k
    <2>1. 1 \in UsersIn(d)
        <3>1. k + 1 - 1 = k
            BY <1>4
        <3> QED  BY <3>1, <1>2, <1>4 DEF n
    <2>2. 1 <= i /\ i - 1 <= MaxReplies
        BY <1>0, <1>4, <1>5, <1>6, <1>8
    <2> QED  BY <2>1, <2>2
<1> QED  BY <1>4, <1>6, <1>7, <1>8

\* A sound session whose last message is an input may grow by the answers of a turn.
LEMMA ShapeAnswers ==
    ASSUME NEW ms \in Seq(Messages), NEW ns \in Seq(Messages), Shape(ms),
           Len(ms) \in UsersIn(ms), Len(ms) <= Len(ns), Len(ns) - Len(ms) <= MaxReplies,
           \A i \in 1..Len(ms) : ns[i] = ms[i]
    PROVE  Shape(ns)
<1> DEFINE n == Len(ms)
<1>1. n \in 1..Len(ms) /\ n \in Nat /\ Len(ns) \in Nat
    BY UsersAt
<1>2. \A i \in 1..n : i \in UsersIn(ns) <=> i \in UsersIn(ms)
    BY <1>1, UsersAt
<1>3. \A i \in 1..n : \E j \in UsersIn(ms) : j \in 1..n /\ j <= i /\ i - j <= MaxReplies
    BY UsersAt DEF Shape
<1> SUFFICES ASSUME NEW i \in 1..Len(ns)
             PROVE  \E j \in UsersIn(ns) : j <= i /\ i - j <= MaxReplies
    BY DEF Shape
<1>4. CASE i <= n
    <2>1. PICK j \in UsersIn(ms) : j \in 1..n /\ j <= i /\ i - j <= MaxReplies
        BY <1>1, <1>3, <1>4
    <2> QED  BY <2>1, <1>2
<1>5. CASE i > n
    <2>1. n \in UsersIn(ns)
        BY <1>1, <1>2
    <2>2. n <= i /\ i - n <= MaxReplies
        BY <1>1, <1>5, MemoryAssumption
    <2> QED  BY <2>1, <2>2
<1> QED  BY <1>1, <1>4, <1>5

\* It may always grow by an input.
LEMMA ShapeInput ==
    ASSUME NEW ms \in Seq(Messages), NEW m \in Messages, m[2] = 0, Shape(ms)
    PROVE  LET ns == Append(ms, m)
           IN  /\ ns \in Seq(Messages) /\ Len(ns) = Len(ms) + 1
               /\ \A i \in 1..Len(ms) : ns[i] = ms[i]
               /\ ns[Len(ns)] = m
               /\ Len(ns) \in UsersIn(ns)
               /\ Shape(ns)
<1> DEFINE ns == Append(ms, m)
           n == Len(ms)
<1>1. /\ n \in Nat /\ ns \in Seq(Messages) /\ Len(ns) = n + 1 /\ ns[n + 1] = m
      /\ \A i \in 1..n : ns[i] = ms[i]
    OBVIOUS
<1>2. n + 1 \in UsersIn(ns) /\ \A i \in 1..n : i \in UsersIn(ns) <=> i \in UsersIn(ms)
    <2>1. \A i \in 1..n + 1 : i \in UsersIn(ns) <=> ns[i][2] = 0
        BY <1>1, UsersAt
    <2>2. \A i \in 1..n : i \in UsersIn(ms) <=> ms[i][2] = 0
        BY UsersAt
    <2>3. n + 1 \in 1..n + 1 /\ \A i \in 1..n : i \in 1..n + 1
        BY <1>1
    <2> HIDE DEF ns, n
    <2> QED  BY <1>1, <2>1, <2>2, <2>3
<1>3. \A i \in 1..n : \E j \in UsersIn(ms) : j \in 1..n /\ j <= i /\ i - j <= MaxReplies
    BY UsersAt DEF Shape
<1> HIDE DEF ns
<1>4. ASSUME NEW i \in 1..Len(ns)
      PROVE  \E j \in UsersIn(ns) : j <= i /\ i - j <= MaxReplies
    <2>1. CASE i <= n
        <3>1. PICK j \in UsersIn(ms) : j \in 1..n /\ j <= i /\ i - j <= MaxReplies
            BY <1>1, <1>3, <2>1
        <3> QED  BY <3>1, <1>2
    <2>2. CASE i = n + 1
        <3>1. n + 1 <= i /\ i - (n + 1) <= MaxReplies
            BY <1>1, <2>2, MemoryAssumption
        <3> QED  BY <3>1, <1>2
    <2> QED  BY <1>1, <2>1, <2>2
<1>5. Shape(ns)
    BY <1>4 DEF Shape
<1> QED  BY <1>1, <1>2, <1>5 DEF ns

\* In a sound session the first message is an input, and every stretch longer than
\* the answers of a turn has one.
LEMMA ShapeHas ==
    ASSUME NEW ms \in Seq(Messages), Shape(ms), ms # <<>>
    PROVE  /\ 1 \in UsersIn(ms)
           /\ \E j \in UsersIn(ms) : Len(ms) - j <= MaxReplies
           /\ Len(ms) \in Nat \ {0}
<1>1. Len(ms) \in Nat \ {0} /\ 1 \in 1..Len(ms) /\ Len(ms) \in 1..Len(ms)
    OBVIOUS
<1>2. UsersIn(ms) \subseteq 1..Len(ms)
    BY UsersAt
<1>3. PICK j \in UsersIn(ms) : j <= 1
    BY <1>1 DEF Shape
<1>4. j = 1
    BY <1>2, <1>3
<1> QED  BY <1>1, <1>3, <1>4 DEF Shape

\* What is retained of a sound session is its end, from an input on.
LEMMA RetainedEnd ==
    ASSUME NEW ms \in Seq(Messages), Shape(ms), ms # <<>>,
           NEW max \in Nat \ {0}, NEW extend \in BOOLEAN,
           extend \/ max > MaxReplies
    PROVE  \E k \in UsersIn(ms) : /\ Retained(ms, max, extend) = k..Len(ms)
                                  /\ Len(ms) <= max => k = 1
                                  /\ ~extend => Len(ms) - k < max
<1> DEFINE n == Len(ms)
           users == UsersIn(ms)
           start == n - max + 1
           from == IF extend /\ users \cap 1..start # {} THEN Max(users \cap 1..start) ELSE start
           later == {i \in users : i >= from}
<1>1. n \in Nat \ {0} /\ 1 \in users /\ users \subseteq 1..n
    BY ShapeHas, UsersAt
<1>2. PICK last \in users : n - last <= MaxReplies
    BY ShapeHas
<1>3. MaxReplies \in Nat \ {0}
    BY MemoryAssumption
<1>4. CASE n <= max
    <2>1. Retained(ms, max, extend) = 1..n
        BY <1>4 DEF Retained
    <2> QED  BY <2>1, <1>1, <1>4
<1>5. CASE n > max
    <2>1. start \in 2..n
        BY <1>1, <1>5
    <2>2. Retained(ms, max, extend) =
              IF later # {} THEN Min(later)..n
              ELSE IF users # {} /\ ~extend
              THEN Max(users)..Min({n, Max(users) + max - 1})
              ELSE from..n
        <3>1. ~(n <= max)
            BY <1>1, <1>5
        <3> QED  BY <3>1, Zenon DEF Retained
    <2>3. later # {} /\ (~extend => from = start)
        <3>1. CASE extend
            <4>1. users \cap 1..start # {} /\ users \cap 1..start \subseteq 0..n
                BY <1>1, <2>1
            <4>2. Max(users \cap 1..start) \in users \cap 1..start
                BY <1>1, <4>1, MaxIs
            <4>3. from \in users
                BY <3>1, <4>1, <4>2
            <4>4. from >= from
                BY <4>3, <1>1
            <4> QED  BY <3>1, <4>3, <4>4
        <3>2. CASE ~extend
            <4>1. from = start /\ max > MaxReplies
                BY <3>2
            <4>2. last >= start
                BY <1>1, <1>2, <1>3, <2>1, <4>1
            <4> QED  BY <4>1, <4>2
        <3> QED  BY <3>1, <3>2
    <2>4. Min(later) \in later
        <3>1. later \subseteq Nat
            BY <1>1
        <3> HIDE DEF later
        <3> QED  BY <3>1, <2>3, MinIs
    <2>5. ~extend => n - Min(later) < max
        <3>1. ASSUME ~extend PROVE n - Min(later) < max
            <4>1. Min(later) >= start /\ Min(later) \in 1..n
                BY <3>1, <2>3, <2>4, <1>1
            <4> HIDE DEF later, from
            <4> QED  BY <4>1, <1>1, <2>1
        <3> QED  BY <3>1
    <2>6. Min(later) \in users
        BY <2>4
    <2> HIDE DEF later, from, start
    <2> QED  BY <2>2, <2>3, <2>5, <2>6, <1>5
<1> QED  BY <1>1, <1>4, <1>5

\* A slice to the end is the end.
LEMMA SliceEnd ==
    ASSUME NEW ms \in Seq(Messages), NEW k \in 1..Len(ms)
    PROVE  Slice(ms, k..Len(ms)) = From(ms, k)
<1>1. Len(ms) \in Nat /\ k \in Nat /\ k <= Len(ms) /\ k..Len(ms) # {}
    OBVIOUS
<1>2. Min(k..Len(ms)) = k /\ Max(k..Len(ms)) = Len(ms)
    BY <1>1, IntervalEnds
<1> QED  BY <1>1, <1>2 DEF Slice, From

\* A session cut down to what begins at its k-th message.
Cut(o, k) ==
    [messages |-> From(o.messages, k),
     cursor |-> IF o.cursor < k THEN 0 ELSE o.cursor - k + 1]

\* The cap leaves a session as it is or cuts it, and hands over what the cut removes
\* of the visible messages.
LEMMA CappedCuts ==
    ASSUME NEW o, Good(o)
    PROVE  \/ Capped(o) = o /\ CutOff(o) = {}
           \/ \E k \in UsersIn(o.messages) :
                  /\ Capped(o) = Cut(o, k)
                  /\ CutOff(o) = {o.messages[i] : i \in o.cursor + 1..k - 1}
<1> DEFINE ms == o.messages
           n == Len(ms)
           c == o.cursor
<1>1. ms \in Seq(Messages) /\ c \in Nat /\ n \in Nat /\ c <= n /\ Shape(ms) /\ DOMAIN ms = 1..n
    BY DEF Good, SessionObject
<1>2. Limit \in Nat \ {0} /\ Limit > MaxReplies
    BY MemoryAssumption
<1>3. CASE n <= Limit
    <2>1. Retained(ms, Limit, FALSE) = DOMAIN ms
        BY <1>3 DEF Retained
    <2>2. CutOff(o) = {}
        BY <2>1 DEF CutOff
    <2> QED  BY <1>3, <2>2 DEF Capped
<1>4. CASE n > Limit
    <2>1. ms # <<>>
        BY <1>1, <1>2, <1>4
    <2>2. PICK k \in UsersIn(ms) : Retained(ms, Limit, FALSE) = k..n
        BY <1>1, <1>2, <2>1, RetainedEnd
    <2>3. k \in 1..n
        BY <1>1, <2>2, UsersAt
    <2>4. Slice(ms, k..n) = From(ms, k)
        BY <1>1, <2>3, SliceEnd
    <2>5. Cardinality((k..n) \cap 1..c) = IF c < k THEN 0 ELSE c - k + 1
        <3>1. (k..n) \cap 1..c = k..c
            BY <1>1, <2>3
        <3>2. Cardinality(k..c) = IF k > c THEN 0 ELSE c - k + 1
            <4>1. k \in Int /\ c \in Int
                BY <1>1, <2>3
            <4> HIDE DEF c
            <4> QED  BY <4>1, FS_Interval
        <3> QED  BY <1>1, <2>3, <3>1, <3>2
    <2>6. Capped(o) = Cut(o, k)
        <3>1. ~(Len(o.messages) <= Limit)
            BY <1>1, <1>2, <1>4
        <3>2. Capped(o) = [messages |-> Slice(ms, k..n), cursor |-> Cardinality((k..n) \cap 1..c)]
            BY <2>2, <3>1, Zenon DEF Capped
        <3> QED  BY <2>4, <2>5, <3>2 DEF Cut
    <2>7. (1..n) \ ((k..n) \cup 1..c) = c + 1..k - 1
        BY <1>1, <2>3
    <2>8. CutOff(o) = {ms[i] : i \in c + 1..k - 1}
        BY <1>1, <2>2, <2>7 DEF CutOff
    <2> QED  BY <2>2, <2>6, <2>8
<1> QED  BY <1>1, <1>2, <1>3, <1>4

\* What a session shows.
LEMMA TailFacts ==
    ASSUME NEW o, Good(o)
    PROVE  LET ms == o.messages
               c == o.cursor
               t == Tail_(o)
           IN  /\ ms \in Seq(Messages) /\ c \in Nat /\ c + 1 \in 1..Len(ms) + 1
               /\ Len(ms) \in Nat /\ Shape(ms)
               /\ t = From(ms, c + 1)
               /\ t \in Seq(Messages) /\ Len(t) = Len(ms) - c
               /\ \A i \in 1..Len(ms) - c : t[i] = ms[c + i]
               /\ \A i \in 1..Len(ms) - c : i \in UsersIn(t) <=> c + i \in UsersIn(ms)
               /\ Shape(t)
               /\ Visible(o) = Elems(t)
<1> DEFINE ms == o.messages
           c == o.cursor
           t == Tail_(o)
           n == Len(ms)
<1>1. ms \in Seq(Messages) /\ c \in Nat /\ n \in Nat /\ c + 1 \in 1..n + 1 /\ Shape(ms)
      /\ (c < n => c + 1 \in UsersIn(ms))
    BY DEF Good, SessionObject
<1>2. t = From(ms, c + 1)
    BY DEF Tail_, From
<1>3. c + 1 <= n => c + 1 \in UsersIn(ms)
    BY <1>1
<1> HIDE DEF ms, c, t
<1>4. /\ t \in Seq(Messages) /\ Len(t) = n - (c + 1) + 1
      /\ \A i \in 1..n - (c + 1) + 1 : t[i] = ms[c + 1 + i - 1]
    BY <1>1, <1>2, FromFacts
<1>5. \A i \in 1..n - (c + 1) + 1 : i \in UsersIn(t) <=> c + 1 + i - 1 \in UsersIn(ms)
    BY <1>1, <1>2, FromUsers
<1>6. n - (c + 1) + 1 = n - c /\ \A i \in 1..n - c : c + 1 + i - 1 = c + i
    BY <1>1
<1>7. Shape(t)
    BY <1>1, <1>2, <1>3, ShapeFrom, MemoryAssumption
<1>8. Len(t) = n - c /\ \A i \in 1..n - c : t[i] = ms[c + i]
    BY <1>4, <1>6
<1>9. {ms[i] : i \in c + 1..n} = Elems(t)
    <2>1. ASSUME NEW i \in c + 1..n PROVE ms[i] \in Elems(t)
        <3>1. i - c \in 1..n - c /\ c + (i - c) = i
            BY <1>1
        <3> QED  BY <3>1, <1>8 DEF Elems
    <2>2. ASSUME NEW i \in 1..n - c PROVE c + i \in c + 1..n
        BY <1>1
    <2> QED  BY <2>1, <2>2, <1>8 DEF Elems
<1>10. \A i \in 1..n - c : i \in UsersIn(t) <=> c + i \in UsersIn(ms)
    BY <1>5, <1>6
<1> QED  BY <1>1, <1>2, <1>4, <1>7, <1>8, <1>9, <1>10 DEF Visible, ms, c, t

\* A session shows its own end.
LEMMA EndOfSelf ==
    ASSUME NEW o, Good(o)
    PROVE  EndOf(o, o)
<1>1. o.cursor + 1 \in o.cursor + 1..Len(o.messages) + 1 /\ Tail_(o) = From(o.messages, o.cursor + 1)
    BY TailFacts
<1> QED  BY <1>1 DEF EndOf

LEMMA EndOfTrans ==
    ASSUME NEW o, NEW p, NEW q, Good(o), Good(p), Good(q), EndOf(o, p), EndOf(p, q)
    PROVE  EndOf(o, q)
<1> DEFINE n == Len(p.messages)
           m == Len(q.messages)
<1>1. PICK k \in p.cursor + 1..n + 1 : Tail_(o) = From(p.messages, k)
    BY DEF EndOf
<1>2. PICK l \in q.cursor + 1..m + 1 : Tail_(p) = From(q.messages, l)
    BY DEF EndOf
<1>3. /\ p.cursor \in Nat /\ n \in Nat /\ p.cursor + 1 \in 1..n + 1
      /\ p.messages \in Seq(Messages)
      /\ Tail_(p) = From(p.messages, p.cursor + 1)
      /\ Len(Tail_(p)) = n - p.cursor
    BY TailFacts
<1>4. q.cursor \in Nat /\ m \in Nat /\ q.messages \in Seq(Messages)
    BY TailFacts
<1>5. l \in 1..m + 1 /\ k - p.cursor \in 1..n - p.cursor + 1 /\ k - p.cursor \in 1..n - (p.cursor + 1) + 2
    <2> DEFINE c == p.cursor
    <2>1. c \in Nat /\ n \in Nat /\ k \in c + 1..n + 1
        BY <1>1, <1>3
    <2>2. l \in 1..m + 1
        BY <1>2, <1>4
    <2> HIDE DEF c, n
    <2>3. k - c \in 1..n - c + 1 /\ k - c \in 1..n - (c + 1) + 2
        BY <2>1
    <2> QED  BY <2>2, <2>3 DEF c
<1>6. Len(Tail_(p)) = m - l + 1
    BY <1>2, <1>4, <1>5, FromFacts
<1>7. k - p.cursor \in 1..m - l + 2
    BY <1>3, <1>4, <1>5, <1>6
<1>8. Tail_(o) = From(Tail_(p), k - p.cursor)
    <2>1. From(From(p.messages, p.cursor + 1), k - p.cursor) = From(p.messages, p.cursor + 1 + (k - p.cursor) - 1)
        BY <1>3, <1>5, FromFrom
    <2>2. p.cursor + 1 + (k - p.cursor) - 1 = k
        BY <1>1, <1>3
    <2> QED  BY <2>1, <2>2, <1>1, <1>3
<1>9. Tail_(o) = From(q.messages, l + (k - p.cursor) - 1)
    BY <1>2, <1>4, <1>5, <1>7, <1>8, FromFrom
<1>10. l + (k - p.cursor) - 1 \in q.cursor + 1..m + 1
    <2> DEFINE j == k - p.cursor
               e == q.cursor
    <2>1. e \in Nat /\ m \in Nat /\ l \in e + 1..m + 1 /\ j \in 1..m - l + 2
        BY <1>2, <1>4, <1>7
    <2> HIDE DEF j, e, m
    <2>2. l + j - 1 \in e + 1..m + 1
        BY <2>1
    <2> QED  BY <2>2 DEF j, e
<1> QED  BY <1>9, <1>10 DEF EndOf

\* What shows the end of another session shows no more than it.
LEMMA EndOfVisible ==
    ASSUME NEW o, NEW p, Good(o), Good(p), EndOf(o, p)
    PROVE  Visible(o) \subseteq Visible(p)
<1> DEFINE n == Len(p.messages)
<1>1. PICK k \in p.cursor + 1..n + 1 : Tail_(o) = From(p.messages, k)
    BY DEF EndOf
<1>2. p.cursor \in Nat /\ n \in Nat /\ p.messages \in Seq(Messages)
    BY TailFacts
<1>3. k \in 1..n + 1
    BY <1>1, <1>2
<1>4. /\ Len(Tail_(o)) = n - k + 1
      /\ \A i \in 1..n - k + 1 : Tail_(o)[i] = p.messages[k + i - 1]
    BY <1>1, <1>2, <1>3, FromFacts
<1>5. \A i \in 1..n - k + 1 : k + i - 1 \in p.cursor + 1..n
    BY <1>1, <1>2
<1>6. Visible(o) = Elems(Tail_(o))
    BY TailFacts
<1>7. Elems(Tail_(o)) = {Tail_(o)[i] : i \in 1..n - k + 1}
    BY <1>4 DEF Elems
<1>8. Visible(p) = {p.messages[i] : i \in p.cursor + 1..n}
    BY DEF Visible
<1> HIDE DEF n
<1> QED  BY <1>4, <1>5, <1>6, <1>7, <1>8

\* What a session keeps of itself when it becomes another one: the new one is sound,
\* hides no more, shows an end of what the old one showed, and ends as it ended.
Shrinks(d, o) ==
    /\ Good(d)
    /\ Hidden(d) \subseteq Hidden(o)
    /\ Elems(d.messages) \subseteq Elems(o.messages)
    /\ EndOf(d, o)
    /\ Len(d.messages) - d.cursor <= Len(o.messages) - o.cursor
    /\ o.cursor < Len(o.messages) => d.cursor < Len(d.messages)
    /\ Len(o.messages) \in UsersIn(o.messages) => Len(d.messages) \in UsersIn(d.messages)

LEMMA CutShrinks ==
    ASSUME NEW o, Good(o), NEW k \in UsersIn(o.messages)
    PROVE  /\ Shrinks(Cut(o, k), o)
           /\ Visible(o) = Visible(Cut(o, k)) \cup {o.messages[i] : i \in o.cursor + 1..k - 1}
<1> DEFINE ms == o.messages
           n == Len(ms)
           c == o.cursor
           d == Cut(o, k)
           ds == From(ms, k)
           e == IF c < k THEN 0 ELSE c - k + 1
<1>1. ms \in Seq(Messages) /\ c \in Nat /\ n \in Nat /\ c <= n /\ Shape(ms)
      /\ (c < n => c + 1 \in UsersIn(ms))
    BY DEF Good, SessionObject
<1>2. k \in 1..n
    BY <1>1, UsersAt
<1>3. d.messages = ds /\ d.cursor = e /\ d = [messages |-> ds, cursor |-> e]
    BY DEF Cut
<1>4. k \in 1..n + 1
    BY <1>2
<1>5. /\ ds \in Seq(Messages) /\ Len(ds) = n - k + 1
      /\ \A i \in 1..n - k + 1 : ds[i] = ms[k + i - 1] /\ k + i - 1 \in 1..n
    BY <1>1, <1>4, FromFacts
<1>6. \A i \in 1..n - k + 1 : i \in UsersIn(ds) <=> k + i - 1 \in UsersIn(ms)
    BY <1>1, <1>4, FromUsers
<1>7. Shape(ds)
    BY <1>1, <1>4, ShapeFrom, MemoryAssumption
<1> HIDE DEF d, ds, ms, c, n
<1>8. e \in Nat /\ e <= n - k + 1 /\ k + e = (IF c < k THEN k ELSE c + 1) /\ k + e \in c + 1..n + 1
    <2>1. CASE c < k
        BY <1>1, <1>2, <2>1
    <2>2. CASE c >= k
        BY <1>1, <1>2, <2>2
    <2> QED  BY <1>1, <1>2, <2>1, <2>2
<1> HIDE DEF e
<1>9. Good(d)
    <2>1. d \in SessionObject
        BY <1>3, <1>5, <1>8 DEF SessionObject
    <2>2. ASSUME e < Len(ds) PROVE e + 1 \in UsersIn(ds)
        <3>1. e + 1 \in 1..n - k + 1 /\ k + (e + 1) - 1 = k + e
            BY <1>1, <1>2, <1>5, <1>8, <2>2
        <3>2. k + e \in UsersIn(ms)
            <4>1. CASE c < k
                BY <1>8, <4>1 DEF ms
            <4>2. CASE ~(c < k)
                <5>1. k + e = c + 1 /\ c < n
                    BY <1>1, <1>2, <1>5, <1>8, <2>2, <4>2
                <5> QED  BY <5>1, <1>1
            <4> QED  BY <4>1, <4>2
        <3> QED  BY <3>1, <3>2, <1>6
    <2> QED  BY <2>1, <2>2, <1>3, <1>5, <1>7, <1>8 DEF Good
<1>10. Hidden(d) \subseteq Hidden(o)
    <2>1. \A i \in 1..e : i \in 1..n - k + 1 /\ k + i - 1 \in 1..c
        BY <1>1, <1>2, <1>8 DEF e
    <2> QED  BY <2>1, <1>3, <1>5 DEF Hidden, ms, c
<1>11. Elems(d.messages) \subseteq Elems(o.messages)
    BY <1>3, <1>5 DEF Elems, ms, n
<1>12. EndOf(d, o)
    <2>1. Tail_(d) = From(ds, e + 1)
        BY <1>3 DEF Tail_, From
    <2>2. e + 1 \in 1..n - k + 2
        BY <1>1, <1>2, <1>8
    <2>3. From(ds, e + 1) = From(ms, k + (e + 1) - 1)
        BY <1>1, <1>4, <2>2, FromFrom DEF ds, n
    <2>4. k + (e + 1) - 1 = k + e
        BY <1>2, <1>8
    <2> QED  BY <2>1, <2>3, <2>4, <1>8 DEF EndOf, ms, c, n
<1>13. Len(ds) - e <= n - c /\ (c < n => e < Len(ds))
    BY <1>1, <1>2, <1>5, <1>8 DEF e
<1>14. n \in UsersIn(ms) => Len(ds) \in UsersIn(ds)
    <2>1. Len(ds) \in 1..n - k + 1 /\ k + Len(ds) - 1 = n
        BY <1>1, <1>2, <1>5
    <2> QED  BY <2>1, <1>6
<1>15. {ms[i] : i \in c + 1..n} = {ds[i] : i \in e + 1..Len(ds)} \cup {ms[i] : i \in c + 1..k - 1}
    <2>1. ASSUME NEW i \in c + 1..n, i >= k PROVE ms[i] \in {ds[j] : j \in e + 1..Len(ds)}
        <3>1. i - k + 1 \in e + 1..Len(ds) /\ i - k + 1 \in 1..n - k + 1 /\ k + (i - k + 1) - 1 = i
            BY <1>1, <1>2, <1>5, <1>8, <2>1
        <3> QED  BY <3>1, <1>5
    <2>2. ASSUME NEW i \in e + 1..Len(ds) PROVE ds[i] \in {ms[j] : j \in c + 1..n}
        <3>1. i \in 1..n - k + 1 /\ k + i - 1 \in c + 1..n
            BY <1>1, <1>2, <1>5, <1>8
        <3> QED  BY <3>1, <1>5
    <2>3. \A i \in c + 1..k - 1 : i \in c + 1..n
        BY <1>1, <1>2
    <2>4. \A i \in c + 1..n : i >= k \/ i \in c + 1..k - 1
        BY <1>1, <1>2
    <2> QED  BY <2>1, <2>2, <2>3, <2>4
<1> QED  BY <1>3, <1>9, <1>10, <1>11, <1>12, <1>13, <1>14, <1>15 DEF Shrinks, Visible, d, ms, c, n

\* The cap keeps a session sound, and hands over the visible messages it removes.
LEMMA CapShrinks ==
    ASSUME NEW o, Good(o)
    PROVE  /\ Shrinks(Capped(o), o)
           /\ Visible(o) = Visible(Capped(o)) \cup CutOff(o)
<1>1. CASE Capped(o) = o /\ CutOff(o) = {}
    <2>1. Len(o.messages) - o.cursor \in Int
        BY TailFacts
    <2> QED  BY <1>1, <2>1, EndOfSelf DEF Shrinks
<1>2. CASE \E k \in UsersIn(o.messages) :
               /\ Capped(o) = Cut(o, k)
               /\ CutOff(o) = {o.messages[i] : i \in o.cursor + 1..k - 1}
    BY <1>2, CutShrinks
<1> QED  BY <1>1, <1>2, CappedCuts

----------------------------------------------------------------------------
(* The manager of sessions.                                                  *)

\* Every object of a heap is sound, and hides what is archived.
AllGood(h, known) ==
    /\ h \in [Ids -> SessionObject]
    /\ \A i \in Ids : Good(h[i]) /\ Hidden(h[i]) \subseteq known

\* An empty session.
LEMMA FreshGood ==
    /\ Good(Fresh) /\ Hidden(Fresh) = {} /\ Visible(Fresh) = {} /\ Elems(Fresh.messages) = {}
<1>1. Fresh.messages = <<>> /\ Fresh.cursor = 0 /\ Fresh \in SessionObject /\ Len(<<>>) = 0
    BY DEF Fresh, SessionObject
<1> QED  BY <1>1 DEF Good, Shape, Hidden, Visible, Elems

\* Objects that are referred to stay, the others are gone.
LEMMA HeapKeeps ==
    ASSUME NEW h, NEW known, AllGood(h, known), HeapIs(h)
    PROVE  /\ AllGood(heap', known)
           /\ \A i \in Ids : i \in {cached', turn'.obj, job'.obj} => heap'[i] = h[i]
<1>1. Fresh \in SessionObject
    BY FreshGood DEF Good
<1> QED  BY <1>1, FreshGood DEF AllGood, HeapIs

\* The heap after a write.
LEMMA HeapWrite ==
    ASSUME NEW h, NEW known, AllGood(h, known), NEW id \in Ids, NEW o, Good(o),
           Hidden(o) \subseteq known
    PROVE  /\ AllGood([h EXCEPT ![id] = o], known)
           /\ [h EXCEPT ![id] = o][id] = o
           /\ \A i \in Ids : i # id => [h EXCEPT ![id] = o][i] = h[i]
<1>1. o \in SessionObject
    BY DEF Good
<1> QED  BY <1>1 DEF AllGood

\* There is room for a new object.
LEMMA FreeIs ==
    ASSUME Types
    PROVE  Free \in Ids /\ Free # cached /\ Free # turn.obj /\ Free # job.obj
<1> DEFINE S == Ids \ {cached, turn.obj, job.obj}
<1>1. S \subseteq Nat /\ S # {}
    <2>1. Ids = {1, 2, 3, 4}
        BY DEF Ids
    <2>2. \A a, b, c : {1, 2, 3, 4} \ {a, b, c} # {}
        OBVIOUS
    <2> QED  BY <2>1, <2>2
<1>2. Min(S) \in S
    BY <1>1, MinIs
<1> QED  BY <1>2 DEF Free

\* What a look-up finds is the session as it is in the file.
LEMMA LookUp ==
    ASSUME Types, Sound
    PROVE  /\ Loaded = file
           /\ Session \in Ids /\ 0 \notin Ids
           /\ AllGood(heap, archived)
           /\ AllGood(Heap, archived)
           /\ Heap[Session] = file
           /\ cached # 0 => Session = cached
           /\ \A i \in Ids : i # Session => Heap[i] = heap[i]
           /\ turn.obj \in Ids => Heap[turn.obj] = heap[turn.obj]
           /\ job.obj \in Ids => Heap[job.obj] = heap[job.obj]
<1>1. Loaded = file
    BY DEF Loaded, Sound, Good
<1>2. AllGood(heap, archived) /\ Good(file) /\ Hidden(file) \subseteq archived
    BY DEF Types, Sound, AllGood
<1>3. Free \in Ids /\ Free # turn.obj /\ Free # job.obj
    BY FreeIs
<1>4. 0 \notin Ids
    BY DEF Ids
<1>5. CASE cached # 0
    <2>1. Session = cached /\ Heap = heap /\ cached \in Ids /\ heap[cached] = file
        BY <1>5 DEF Session, Heap, Types, Sound
    <2> QED  BY <1>1, <1>2, <1>4, <2>1
<1>6. CASE cached = 0
    <2>1. Session = Free /\ Heap = [heap EXCEPT ![Free] = file]
        BY <1>1, <1>6 DEF Session, Heap
    <2>2. /\ AllGood(Heap, archived) /\ Heap[Free] = file
          /\ \A i \in Ids : i # Free => Heap[i] = heap[i]
        <3>1. /\ AllGood([heap EXCEPT ![Free] = file], archived)
              /\ [heap EXCEPT ![Free] = file][Free] = file
              /\ \A i \in Ids : i # Free => [heap EXCEPT ![Free] = file][i] = heap[i]
            BY <1>2, <1>3 DEF AllGood, Good
        <3> QED  BY <2>1, <3>1, Zenon
    <2> QED  BY <1>1, <1>2, <1>3, <1>4, <1>6, <2>1, <2>2
<1> QED  BY <1>5, <1>6

\* After a step that looks the session up.
LEMMA LookedUp ==
    ASSUME Types, Sound, cached' = Session, HeapIs(Heap), UNCHANGED <<file, archived>>
    PROVE  /\ Sound' /\ heap' \in [Ids -> SessionObject] /\ cached' \in Ids
           /\ heap'[Session] = file
           /\ turn'.obj = turn.obj /\ turn.obj \in Ids => heap'[turn.obj] = heap[turn.obj]
<1>1. /\ AllGood(heap', archived)
      /\ \A i \in Ids : i \in {cached', turn'.obj, job'.obj} => heap'[i] = Heap[i]
    BY LookUp, HeapKeeps
<1>2. heap'[Session] = file /\ Session \in Ids
    BY <1>1, LookUp
<1>3. Sound'
    BY <1>1, <1>2 DEF Sound, AllGood, Good, Hidden
<1> QED  BY <1>1, <1>2, <1>3, LookUp DEF AllGood

\* Messages of sound sessions.
LEMMA MessagesOf ==
    ASSUME NEW o, Good(o)
    PROVE  Visible(o) \subseteq Messages /\ Hidden(o) \subseteq Messages
           /\ Visible(o) \subseteq Elems(o.messages) /\ Elems(o.messages) \subseteq Messages
           /\ Elems(o.messages) = Visible(o) \cup Hidden(o)
<1> DEFINE ms == o.messages
           n == Len(ms)
           c == o.cursor
<1>1. ms \in Seq(Messages) /\ n \in Nat /\ c \in Nat /\ c <= n
    BY DEF Good, SessionObject
<1>2. \A i \in 1..n : ms[i] \in Messages
    BY <1>1
<1>3. /\ \A i \in 1..c : i \in 1..n
      /\ \A i \in c + 1..n : i \in 1..n
      /\ \A i \in 1..n : i \in 1..c \/ i \in c + 1..n
    BY <1>1
<1> QED  BY <1>2, <1>3 DEF Visible, Hidden, Elems

\* Saving a sound session leaves all sound; what the cap cuts off is archived.
LEMMA Saved ==
    ASSUME Types, NEW h, AllGood(h, archived), NEW id \in Ids, NEW o, Good(o),
           NEW more \in SUBSET Messages, Hidden(o) \subseteq archived \cup more,
           Save(h, id, o, more)
    PROVE  /\ file' = Capped(o) /\ Shrinks(file', o)
           /\ Sound' /\ heap' \in [Ids -> SessionObject]
           /\ cached' = id /\ heap'[id] = file'
           /\ archived \cup more \subseteq archived' /\ archived' \subseteq Messages
           /\ Visible(o) \subseteq Visible(file') \cup archived'
           /\ \A i \in Ids \ {id} : i \in {turn'.obj, job'.obj} => heap'[i] = h[i]
<1>1. /\ file' = Capped(o) /\ cached' = id
      /\ archived' = archived \cup CutOff(o) \cup more
      /\ HeapIs([h EXCEPT ![id] = Capped(o)])
    BY DEF Save
<1>2. Shrinks(Capped(o), o) /\ Visible(o) = Visible(Capped(o)) \cup CutOff(o)
    BY CapShrinks
<1>3. Good(Capped(o)) /\ Hidden(Capped(o)) \subseteq archived'
    BY <1>1, <1>2 DEF Shrinks
<1>4. AllGood(h, archived')
    BY <1>1 DEF AllGood
<1>5. /\ AllGood([h EXCEPT ![id] = Capped(o)], archived')
      /\ [h EXCEPT ![id] = Capped(o)][id] = Capped(o)
      /\ \A i \in Ids : i # id => [h EXCEPT ![id] = Capped(o)][i] = h[i]
    BY <1>3, <1>4, HeapWrite
<1>6. /\ AllGood(heap', archived')
      /\ \A i \in Ids : i \in {cached', turn'.obj, job'.obj} => heap'[i] = [h EXCEPT ![id] = Capped(o)][i]
    BY <1>1, <1>5, HeapKeeps
<1>7. heap'[id] = file' /\ \A i \in Ids \ {id} : i \in {turn'.obj, job'.obj} => heap'[i] = h[i]
    BY <1>1, <1>5, <1>6
<1>8. archived' \subseteq Messages
    BY <1>1, <1>2, MessagesOf DEF Types
<1>9. Sound'
    BY <1>1, <1>3, <1>6, <1>7 DEF Sound, AllGood, Good, Hidden
<1> QED  BY <1>1, <1>2, <1>6, <1>7, <1>8, <1>9 DEF AllGood

----------------------------------------------------------------------------
(* What a turn is shown, and what is archived before it is.                  *)

\* The greater of two numbers.
LEMMA MaxOfTwo ==
    ASSUME NEW x \in Int
    PROVE  Max({1, x}) \in {1, x} /\ Max({1, x}) >= 1 /\ Max({1, x}) >= x
<1>1. \E z \in {1, x} : \A y \in {1, x} : z >= y
    <2>1. CASE x >= 1
        BY <2>1
    <2>2. CASE x < 1
        BY <2>2
    <2> QED  BY <2>1, <2>2
<1>2. Max({1, x}) \in {1, x} /\ \A y \in {1, x} : Max({1, x}) >= y
    BY <1>1 DEF Max
<1> QED  BY <1>2

LEMMA ReplayType ==
    ASSUME NEW p, Good(p)
    PROVE  /\ Replay(p) \subseteq Messages
           /\ Replayed(p) \subseteq 1..Len(Tail_(p))
<1> DEFINE t == Tail_(p)
           start == Max({1, Len(t) - Window + 1})
<1>1. t \in Seq(Messages) /\ Len(t) \in Nat
    BY TailFacts
<1>2. Len(t) - Window + 1 \in Int
    BY <1>1, MemoryAssumption
<1>3. start \in Int /\ start >= 1
    BY <1>2, MaxOfTwo
<1> HIDE DEF t, start
<1>4. \A i \in start..Len(t) : i \in 1..Len(t) /\ t[i] \in Messages
    BY <1>1, <1>3
<1>5. Replayed(p) \subseteq start..Len(t)
    BY DEF Replayed, t, start
<1> QED  BY <1>4, <1>5 DEF Replay, t

\* The token budget leaves out only the beginning of what may be replayed.
LEMMA BudgetKeepsEnd ==
    ASSUME NEW p, Good(p), NEW shown \in Histories(p)
    PROVE  /\ shown \subseteq Messages
           /\ Replay(p) # {} => shown # {}
           /\ \A m \in Replay(p) \ shown, n \in shown : Before(p, m, n)
<1> DEFINE t == Tail_(p)
           Rest(from) == {t[i] : i \in {k \in Replayed(p) : k >= from}}
<1>1. /\ p.cursor \in Nat /\ Len(p.messages) \in Nat
      /\ Len(t) = Len(p.messages) - p.cursor
      /\ \A i \in 1..Len(t) : t[i] = p.messages[p.cursor + i]
    BY TailFacts
<1>2. Replayed(p) \subseteq 1..Len(t) /\ Replay(p) \subseteq Messages
    BY ReplayType
<1>3. Replay(p) = {t[i] : i \in Replayed(p)}
    BY DEF Replay
<1>4. Budgeted(p) \subseteq Replayed(p)
    BY DEF Budgeted
<1> HIDE DEF t
<1>5. CASE shown = Replay(p)
    BY <1>2, <1>5
<1>6. ASSUME NEW from \in Budgeted(p), shown = Rest(from)
      PROVE  /\ shown \subseteq Replay(p) /\ shown # {}
             /\ \A m \in Replay(p) \ shown, n \in shown : Before(p, m, n)
    <2>1. from \in Replayed(p) /\ from \in 1..Len(t) /\ from >= from
        BY <1>1, <1>2, <1>4
    <2>2. t[from] \in shown /\ shown \subseteq Replay(p)
        BY <1>3, <1>6, <2>1
    <2> SUFFICES ASSUME NEW m \in Replay(p) \ shown, NEW n \in shown
                 PROVE  Before(p, m, n)
        BY <2>2
    <2>3. PICK a \in Replayed(p) : m = t[a]
        BY <1>3
    <2>4. PICK b \in Replayed(p) : b >= from /\ n = t[b]
        BY <1>6
    <2>5. ~(a >= from)
        BY <1>6, <2>3
    <2>6. /\ p.cursor + a \in DOMAIN p.messages /\ p.cursor + b \in DOMAIN p.messages
          /\ p.cursor + a < p.cursor + b
        <3>1. a \in 1..Len(t) /\ b \in 1..Len(t) /\ a < b
            BY <1>1, <1>2, <2>1, <2>4, <2>5
        <3>2. p.cursor + a \in 1..Len(p.messages) /\ p.cursor + b \in 1..Len(p.messages)
              /\ p.cursor + a < p.cursor + b
            BY <1>1, <3>1
        <3>3. DOMAIN p.messages = 1..Len(p.messages)
            BY DEF Good, SessionObject
        <3> QED  BY <3>2, <3>3
    <2>7. p.messages[p.cursor + a] = m /\ p.messages[p.cursor + b] = n
        BY <1>1, <1>2, <2>3, <2>4
    <2> QED  BY <2>6, <2>7 DEF Before
<1>7. shown = Replay(p) \/ \E from \in Budgeted(p) : shown = Rest(from)
    BY DEF Histories, Replay, t
<1> QED  BY <1>2, <1>5, <1>6, <1>7

\* A session that shows the end of another one, and fits into the window, is replayed
\* from the other.
LEMMA ReplayShows ==
    ASSUME NEW o, NEW p, Good(o), Good(p), EndOf(o, p),
           Len(o.messages) - o.cursor <= Window,
           NEW m \in Visible(o), m[1] \in Users
    PROVE  m \in Replay(p)
<1> DEFINE t == Tail_(p)
           s == Tail_(o)
           n == Len(t)
           start == Max({1, n - Window + 1})
           recent == start..n
           users == recent \cap UsersIn(t)
<1>1. PICK k \in p.cursor + 1..Len(p.messages) + 1 : s = From(p.messages, k)
    BY DEF EndOf
<1>2. /\ p.cursor \in Nat /\ Len(p.messages) \in Nat /\ p.messages \in Seq(Messages)
      /\ t \in Seq(Messages) /\ n = Len(p.messages) - p.cursor
      /\ \A i \in 1..n : t[i] = p.messages[p.cursor + i]
    BY TailFacts
<1>3. /\ o.cursor \in Nat /\ Len(o.messages) \in Nat
      /\ s \in Seq(Messages) /\ Len(s) = Len(o.messages) - o.cursor
      /\ \A i \in 1..Len(s) : i \in UsersIn(s) <=> o.cursor + i \in UsersIn(o.messages)
      /\ Visible(o) = Elems(s)
    BY TailFacts
<1>4. PICK i \in 1..Len(s) : m = s[i]
    BY <1>3 DEF Elems
<1>5. k \in 1..Len(p.messages) + 1
    BY <1>1, <1>2
<1>6. /\ Len(s) = Len(p.messages) - k + 1
      /\ \A l \in 1..Len(p.messages) - k + 1 : s[l] = p.messages[k + l - 1]
    <2>1. /\ Len(From(p.messages, k)) = Len(p.messages) - k + 1
          /\ \A l \in 1..Len(p.messages) - k + 1 : From(p.messages, k)[l] = p.messages[k + l - 1]
        BY <1>2, <1>5, FromFacts
    <2> HIDE DEF s
    <2> QED  BY <1>1, <2>1
<1> DEFINE j == k - p.cursor
<1>7. /\ n \in Nat /\ j \in 1..n /\ Len(s) = n - j + 1 /\ j + i - 1 \in j..n
      /\ p.cursor + j = k /\ p.cursor + (j + i - 1) = k + i - 1
      /\ i \in 1..Len(p.messages) - k + 1 /\ 1 \in 1..Len(p.messages) - k + 1
    <2> DEFINE c == p.cursor
               len == Len(p.messages)
               ls == Len(s)
    <2>1. c \in Nat /\ len \in Nat /\ k \in c + 1..len + 1 /\ n = len - c /\ ls = len - k + 1 /\ i \in 1..ls
        BY <1>1, <1>2, <1>4, <1>6
    <2> HIDE DEF c, len, ls, n
    <2>2. /\ n \in Nat /\ k - c \in 1..n /\ ls = n - (k - c) + 1 /\ (k - c) + i - 1 \in (k - c)..n
          /\ c + (k - c) = k /\ c + ((k - c) + i - 1) = k + i - 1
          /\ i \in 1..len - k + 1 /\ 1 \in 1..len - k + 1
        BY <2>1
    <2> QED  BY <2>2 DEF c, len, ls
<1>8. t[j + i - 1] = m
    <2>1. j + i - 1 \in 1..n
        BY <1>7
    <2>2. t[j + i - 1] = p.messages[k + i - 1]
        BY <1>2, <1>7, <2>1
    <2> QED  BY <1>4, <1>6, <1>7, <2>2
<1>9. j \in UsersIn(t)
    <2>1. 1 \in 1..Len(s) /\ o.cursor < Len(o.messages)
        BY <1>3, <1>4
    <2>2. 1 \in UsersIn(s)
        BY <1>3, <2>1 DEF Good
    <2>3. s[1] = p.messages[k] /\ t[j] = p.messages[k]
        <3>1. k + 1 - 1 = k
            BY <1>5
        <3>2. s[1] = p.messages[k + 1 - 1]
            BY <1>6, <1>7
        <3> QED  BY <1>2, <1>7, <3>1, <3>2
    <2>4. s[1][2] = 0
        BY <1>3, <2>1, <2>2, UsersAt
    <2> QED  BY <1>2, <1>7, <2>3, <2>4, UsersAt
<1>10. Window \in Nat
    BY MemoryAssumption
<1>11. start \in {1, n - Window + 1} /\ start >= 1
    <2>1. n - Window + 1 \in Int
        BY <1>7, <1>10
    <2> QED  BY <2>1, MaxOfTwo
<1>12. start \in Nat /\ start <= j
    <2>1. n - j + 1 <= Window
        BY <1>3, <1>7
    <2>2. CASE start = 1
        BY <1>7, <2>2
    <2>3. CASE start = n - Window + 1
        <3> HIDE DEF start, j, n
        <3>1. n \in Int /\ j \in Int /\ Window \in Int
            BY <1>7, <1>10
        <3>2. start \in Int /\ start <= j
            BY <2>1, <2>3, <3>1
        <3> QED  BY <1>11, <3>2
    <2> QED  BY <1>11, <2>2, <2>3
<1> HIDE DEF start, j, n, t, s
<1>13. j \in users /\ users \subseteq Nat
    BY <1>7, <1>9, <1>12
<1>14. Min(users) <= j /\ Min(users) \in Nat
    BY <1>13, MinIs
<1>15. j + i - 1 \in recent /\ j + i - 1 >= Min(users)
    BY <1>4, <1>7, <1>12, <1>14
<1> HIDE DEF recent, users
<1>16. j + i - 1 \in {x \in recent : (users # {} => x >= Min(users)) /\ t[x][1] \in Users}
    BY <1>8, <1>15
<1>17. j + i - 1 \in Replayed(p)
    BY <1>16 DEF Replayed, recent, users, start, n, t
<1> QED  BY <1>8, <1>17 DEF Replay, t

\* What overflows the window ends where a turn begins, and the rest fits.
LEMMA OverflowFacts ==
    ASSUME NEW o, Good(o)
    PROVE  LET end == ReplayOverflow(o)
           IN  /\ end \in o.cursor..Len(o.messages)
               /\ end < Len(o.messages) => end + 1 \in UsersIn(o.messages)
               /\ Len(o.messages) - end <= Window
<1> DEFINE t == Tail_(o)
           n == Len(o.messages)
           c == o.cursor
           start == Len(t) - Window + 1
           later == {i \in UsersIn(t) : i >= start}
<1>1. /\ c \in Nat /\ n \in Nat /\ c + 1 \in 1..n + 1 /\ t \in Seq(Messages) /\ Len(t) = n - c
      /\ \A i \in 1..n - c : i \in UsersIn(t) <=> c + i \in UsersIn(o.messages)
      /\ Shape(t)
    BY TailFacts
<1>2. Window \in Nat /\ MaxReplies \in Nat /\ Window > MaxReplies
    BY MemoryAssumption
<1>3. CASE Len(t) <= Window
    <2>1. ReplayOverflow(o) = c
        BY <1>3 DEF ReplayOverflow
    <2>2. c < n => c + 1 \in UsersIn(o.messages)
        BY DEF Good
    <2> QED  BY <1>1, <1>3, <2>1, <2>2
<1>4. CASE Len(t) > Window
    <2>1. t # <<>>
        BY <1>1, <1>2, <1>4
    <2>2. PICK j \in UsersIn(t) : Len(t) - j <= MaxReplies
        BY <1>1, <2>1, ShapeHas
    <2>3. UsersIn(t) \subseteq 1..Len(t)
        BY <1>1, UsersAt
    <2>4. j \in later
        BY <1>1, <1>2, <2>2, <2>3
    <2>5. later \subseteq Nat /\ later # {}
        BY <2>3, <2>4
    <2>6. Min(later) \in later
        <3> HIDE DEF later
        <3> QED  BY <2>5, MinIs
    <2>7. ReplayOverflow(o) = c - 1 + Min(later)
        <3>1. ~(Len(t) <= Window)
            BY <1>1, <1>2, <1>4
        <3>2. ReplayOverflow(o) = c - 1 + (IF later # {} THEN Min(later)
                                           ELSE IF UsersIn(t) # {} THEN Max(UsersIn(t)) ELSE start)
            BY <3>1, Zenon DEF ReplayOverflow
        <3> HIDE DEF later
        <3> QED  BY <2>5, <3>2, Zenon
    <2> DEFINE x == Min(later)
    <2>8. x \in UsersIn(t) /\ x \in 1..n - c /\ x >= n - c - Window + 1
        BY <1>1, <2>3, <2>6
    <2>9. c + x \in UsersIn(o.messages)
        BY <1>1, <2>8
    <2> HIDE DEF x, n, c
    <2>10. c - 1 + x \in c..n /\ (c - 1 + x) + 1 = c + x /\ n - (c - 1 + x) <= Window
        BY <1>1, <1>2, <2>8
    <2> QED  BY <2>7, <2>9, <2>10 DEF x, n, c
<1> QED  BY <1>1, <1>2, <1>3, <1>4

\* The chunk that is archived.
LEMMA ChunkIs ==
    ASSUME NEW ms \in Seq(Messages), NEW c \in Nat, NEW end \in c..Len(ms)
    PROVE  ToSet(SubSeq(ms, c + 1, end)) = {ms[i] : i \in c + 1..end}
<1> DEFINE q == SubSeq(ms, c + 1, end)
<1>1. c + 1 \in Nat \ {0} /\ end \in 0..Len(ms)
    OBVIOUS
<1>2. q \in Seq(Messages) /\ Elems(q) = {ms[i] : i \in c + 1..end}
    BY <1>1, SubSeqElems
<1> HIDE DEF q
<1>3. ToSet(q) = Elems(q)
    BY <1>2 DEF ToSet, Elems
<1> QED  BY <1>2, <1>3 DEF q

----------------------------------------------------------------------------
(* The lock.                                                                 *)

\* A cancelled turn leaves nothing of itself in the queue, and another task that
\* holds the lock goes on holding it.
LEMMA WithoutTurn ==
    ASSUME Types, Queue
    PROVE  LET w == Without(lock, "turn")
           IN  /\ w \in Seq(Tasks)
               /\ \A i \in 1..Len(w) : w[i] # "turn"
               /\ lock # <<>> /\ Head(lock) # "turn" => w # <<>> /\ Head(w) = Head(lock)
<1> DEFINE w == Without(lock, "turn")
<1>0. lock \in Seq(Tasks) /\ w \in Seq(Tasks)
    BY WithoutType DEF Types
<1>1. CASE ~Contains(lock, "turn")
    <2>1. w = lock
        BY <1>1 DEF Without
    <2>2. \A i \in 1..Len(lock) : lock[i] # "turn"
        BY <1>0, <1>1 DEF Contains
    <2> QED  BY <1>0, <2>1, <2>2
<1>2. CASE Contains(lock, "turn")
    <2>1. PICK k \in 1..Len(lock) :
              /\ lock[k] = "turn"
              /\ w = SubSeq(lock, 1, k - 1) \o SubSeq(lock, k + 1, Len(lock))
        BY <1>0, <1>2, WithoutAt
    <2> DEFINE n == Len(lock)
    <2>2. n \in Nat \ {0} /\ lock # <<>>
        BY <1>0, <2>1
    <2>3. turn.pc = "lock"
        BY <2>1, <2>2 DEF Queue, Types, TurnRecord
    <2>4. k = n /\ \A i \in 1..n - 1 : lock[i] # "turn"
        BY <2>1, <2>2, <2>3 DEF Queue
    <2>5. w = SubSeq(lock, 1, n - 1) \o SubSeq(lock, n + 1, n)
        BY <2>1, <2>4
    <2>6. SubSeq(lock, n + 1, n) = <<>>
        BY <1>0, <2>2
    <2>7. SubSeq(lock, 1, n - 1) \in Seq(Tasks) /\ Len(SubSeq(lock, 1, n - 1)) = n - 1
          /\ \A i \in 1..n - 1 : SubSeq(lock, 1, n - 1)[i] = lock[i]
        <3>1. n - 1 \in Nat /\ \A i \in 1..n - 1 : lock[i] \in Tasks
            BY <1>0, <2>2
        <3> HIDE DEF n
        <3>2. /\ SubSeq(lock, 1, n - 1) \in Seq(Tasks)
              /\ Len(SubSeq(lock, 1, n - 1)) = IF 1 <= n - 1 THEN n - 1 - 1 + 1 ELSE 0
              /\ \A i \in 1..n - 1 - 1 + 1 : SubSeq(lock, 1, n - 1)[i] = lock[1 + i - 1]
            BY <3>1, SubSeqProperties
        <3>3. n - 1 - 1 + 1 = n - 1 /\ \A i \in 1..n - 1 : 1 + i - 1 = i
            BY <3>1
        <3> QED  BY <3>1, <3>2, <3>3
    <2>8. w = SubSeq(lock, 1, n - 1)
        BY <2>5, <2>6, <2>7
    <2>9. Len(w) = n - 1 /\ \A i \in 1..n - 1 : w[i] = lock[i]
        BY <2>7, <2>8
    <2> HIDE DEF w
    <2>10. ASSUME Head(lock) # "turn" PROVE w # <<>> /\ Head(w) = Head(lock)
        <3>1. lock[1] # "turn" /\ Head(lock) = lock[1]
            BY <1>0, <2>2, <2>10
        <3>2. n # 1
            BY <2>1, <2>4, <3>1
        <3>3. 1 \in 1..n - 1
            <4> HIDE DEF n
            <4> QED  BY <2>2, <3>2
        <3>4. w # <<>> /\ Head(w) = w[1]
            BY <1>0, <2>9, <3>3
        <3> QED  BY <2>9, <3>1, <3>3, <3>4
    <2>11. \A i \in 1..Len(w) : w[i] # "turn"
        <3> HIDE DEF n
        <3> QED  BY <2>4, <2>9
    <2> QED  BY <1>0, <2>10, <2>11 DEF w
<1> QED  BY <1>1, <1>2 DEF w

\* A queue that grows at its end.
LEMMA QueueGrows ==
    ASSUME Types, NEW t \in Tasks
    PROVE  /\ Append(lock, t) \in Seq(Tasks) /\ Append(lock, t) # <<>>
           /\ Len(Append(lock, t)) = Len(lock) + 1 /\ Len(lock) \in Nat
           /\ Append(lock, t)[Len(lock) + 1] = t
           /\ \A i \in 1..Len(lock) : Append(lock, t)[i] = lock[i]
           /\ lock # <<>> => Head(Append(lock, t)) = Head(lock)
BY DEF Types

\* When the holder releases the lock.
LEMMA QueueShrinks ==
    ASSUME Types, Queue, lock # <<>>
    PROVE  /\ Tail(lock) \in Seq(Tasks) /\ Len(Tail(lock)) = Len(lock) - 1 /\ Len(lock) \in Nat \ {0}
           /\ \A i \in 1..Len(lock) - 1 : Tail(lock)[i] = lock[i + 1] /\ i + 1 \in 1..Len(lock)
           /\ turn.pc \in {"idle", "lock"}
           /\ Head(lock) = "turn" => turn.pc = "lock" /\ Tail(lock) = <<>>
           /\ Head(lock) = lock[1] /\ Head(lock) \in Tasks
<1>1. /\ Tail(lock) \in Seq(Tasks) /\ Len(Tail(lock)) = Len(lock) - 1 /\ Len(lock) \in Nat \ {0}
      /\ \A i \in 1..Len(lock) - 1 : Tail(lock)[i] = lock[i + 1] /\ i + 1 \in 1..Len(lock)
      /\ Head(lock) = lock[1] /\ Head(lock) \in Tasks
    BY DEF Types
<1>2. turn.pc \in {"idle", "lock"}
    BY DEF Queue, Types, TurnRecord
<1>3. ASSUME Head(lock) = "turn" PROVE turn.pc = "lock" /\ Tail(lock) = <<>>
    <2>1. turn.pc = "lock"
        BY <1>1, <1>2, <1>3 DEF Queue
    <2>2. Len(lock) = 1
        BY <1>1, <1>3, <2>1 DEF Queue
    <2> DEFINE q == Tail(lock)
    <2>3. q \in Seq(Tasks) /\ Len(q) = 0
        BY <1>1, <2>2
    <2>4. q = <<>>
        <3> HIDE DEF q
        <3> QED  BY <2>3
    <2> QED  BY <2>1, <2>4
<1> QED  BY <1>1, <1>2, <1>3

----------------------------------------------------------------------------
(* A task that holds the lock writes the session and leaves.                 *)

\* What the turn keeps while a task works.
TurnStays == turn'.obj = turn.obj /\ turn'.of = turn.of /\ (turn'.pc # "idle" => turn.pc # "idle")

\* A task that saves an end of the session, and archives what it cuts, takes nothing
\* away from the turn.
LEMMA Rewritten ==
    ASSUME Types, Sound, Kept, TurnHas, Ended,
           turn.pc # "idle" => EndOf(file, heap[turn.obj]),
           NEW id \in Ids, NEW o, Good(o), NEW more \in SUBSET Messages,
           Hidden(o) \subseteq archived \cup more,
           EndOf(o, file), Visible(file) \subseteq Visible(o) \cup more,
           Elems(o.messages) \subseteq Elems(file.messages),
           Save(heap, id, o, more), TurnStays,
           UNCHANGED <<farewell, taken, said, cleared, lost>>
    PROVE  /\ file' = Capped(o) /\ Shrinks(file', o) /\ cached' = id /\ heap'[id] = file'
           /\ heap' \in [Ids -> SessionObject] /\ archived' \subseteq Messages
           /\ Sound' /\ Kept' /\ Ended'
           /\ turn.pc # "idle" =>
                  /\ said' \subseteq Visible(heap'[turn.obj]) \cup archived' \cup farewell' \cup lost'
                  /\ EndOf(file', heap'[turn.obj])
<1>1. AllGood(heap, archived)
    BY LookUp
<1>2. /\ file' = Capped(o) /\ Shrinks(file', o)
      /\ Sound' /\ heap' \in [Ids -> SessionObject]
      /\ cached' = id /\ heap'[id] = file'
      /\ archived \cup more \subseteq archived' /\ archived' \subseteq Messages
      /\ Visible(o) \subseteq Visible(file') \cup archived'
      /\ \A i \in Ids \ {id} : i \in {turn'.obj, job'.obj} => heap'[i] = heap[i]
    BY <1>1, Saved
<1>3. said' \subseteq Visible(file') \cup archived' \cup farewell' \cup lost'
    BY <1>2 DEF Kept
<1>4. Kept'
    BY <1>3 DEF Kept, Visible
<1>5. Good(file') /\ EndOf(file', o) /\ Elems(file'.messages) \subseteq Elems(file.messages)
    BY <1>2 DEF Shrinks
<1>6. Good(file)
    BY DEF Sound
<1>7. EndOf(file', file)
    BY <1>5, <1>6, EndOfTrans
<1>8. \A i \in 1..Len(file'.messages) : file'.messages[i] \notin cleared
    BY <1>5 DEF Ended, Elems
<1>9. ASSUME turn.pc # "idle"
      PROVE  /\ turn.obj \in Ids
             /\ said' \subseteq Visible(heap'[turn.obj]) \cup archived' \cup farewell' \cup lost'
             /\ EndOf(file', heap'[turn.obj])
             /\ \A i \in 1..Len(heap'[turn.obj].messages) : heap'[turn.obj].messages[i] \notin cleared
    <2>1. turn.obj \in Ids /\ said \subseteq Visible(heap[turn.obj]) \cup archived \cup farewell \cup lost
        BY <1>9 DEF TurnHas
    <2>2. CASE turn.obj = id
        <3>1. heap'[turn.obj] = file'
            BY <1>2, <2>2
        <3> QED  BY <1>3, <1>5, <1>8, <2>1, <3>1, EndOfSelf
    <2>3. CASE turn.obj # id
        <3>1. heap'[turn.obj] = heap[turn.obj]
            BY <1>2, <2>1, <2>3 DEF TurnStays
        <3>2. Good(heap[turn.obj])
            BY <2>1 DEF Sound
        <3>3. EndOf(file', heap[turn.obj])
            BY <1>5, <1>6, <1>7, <1>9, <3>2, EndOfTrans
        <3> QED  BY <1>2, <1>9, <2>1, <3>1, <3>3 DEF Ended
    <2> QED  BY <2>2, <2>3
<1>10. Ended'
    <2>1. \A m \in said' \cup cleared' : m[1] \in taken'
        BY DEF Ended
    <2>2. ASSUME turn'.pc # "idle"
          PROVE  /\ turn'.of \in taken'
                 /\ \A m \in cleared' : m[1] # turn'.of
                 /\ \A i \in 1..Len(heap'[turn'.obj].messages) : heap'[turn'.obj].messages[i] \notin cleared'
        BY <1>9, <2>2 DEF Ended, TurnStays
    <2> QED  BY <1>8, <2>1, <2>2 DEF Ended
<1> QED  BY <1>2, <1>4, <1>9, <1>10

\* The task that held the lock is gone, and a turn that held it asks the model with
\* everything that is not archived.
LEMMA Left ==
    ASSUME Types, Queue, lock # <<>>, NEW t, t = Head(lock), NEW h, Leave(t, h),
           Sound', Kept', TurnHas,
           turn.pc # "idle" =>
                  /\ said' \subseteq Visible(heap'[turn.obj]) \cup archived' \cup farewell' \cup lost'
                  /\ EndOf(file', heap'[turn.obj]),
           t = "turn" => /\ h[turn.obj] = heap'[turn.obj]
                         /\ Len(file'.messages) - file'.cursor <= Window
    PROVE  /\ turn' \in TurnRecord /\ lock' \in Seq(Tasks) /\ job' \in JobRecord
           /\ Queue' /\ TurnHas' /\ Held' /\ AllRecalled'
<1>0. /\ lock' = Tail(lock) /\ job' = NoJob
      /\ t # "turn" => turn' = turn
      /\ t = "turn" =>
             \E shown \in Histories(h[turn.obj]) :
                 turn' = [turn EXCEPT !.pc = "build", !.replay = Replay(h[turn.obj]), !.shown = shown]
    BY DEF Leave, Resumes
<1>1. job' = NoJob /\ NoJob \in JobRecord /\ NoJob.step = "none"
    <2>1. NoJob \in JobRecord /\ NoJob.step = "none"
        BY DEF NoJob, JobRecord
    <2> QED  BY <1>0, <2>1
<1>2. Held'
    BY <1>1 DEF Held, Awaited
<1>3. lock' = Tail(lock) /\ Tail(lock) \in Seq(Tasks)
    BY <1>0, QueueShrinks
<1>4. CASE t = "turn"
    <2>1. turn.pc = "lock" /\ lock' = <<>>
        BY <1>3, <1>4, QueueShrinks
    <2>2. turn.obj \in Ids /\ turn.of \in Users /\ turn \in TurnRecord
        BY <2>1 DEF TurnHas, Types
    <2>3. Good(heap'[turn.obj]) /\ Good(file')
        BY <2>2 DEF Sound, Good
    <2> DEFINE p == heap'[turn.obj]
    <2>4. PICK shown \in Histories(p) :
              turn' = [turn EXCEPT !.pc = "build", !.replay = Replay(p), !.shown = shown]
        BY <1>0, <1>4
    <2>5. /\ Replay(p) \subseteq Messages /\ shown \subseteq Messages
          /\ Replay(p) # {} => shown # {}
          /\ \A m \in Replay(p) \ shown, n \in shown : Before(p, m, n)
        BY <2>3, ReplayType, BudgetKeepsEnd
    <2>6. turn' \in TurnRecord /\ turn'.pc = "build" /\ turn'.obj = turn.obj /\ turn'.of = turn.of
          /\ turn'.replay = Replay(p) /\ turn'.shown = shown
        BY <2>2, <2>4, <2>5 DEF TurnRecord
    <2>7. Queue'
        BY <2>1, <2>6 DEF Queue
    <2>8. TurnHas'
        <3>1. said' \subseteq Visible(heap'[turn'.obj]) \cup archived' \cup farewell' \cup lost'
            BY <2>1, <2>6
        <3> QED  BY <2>2, <2>6, <3>1 DEF TurnHas, Visible
    <2>9. AllRecalled'
        <3>1. \A m \in Visible(file') : m[1] \in Users => m \in turn'.replay
            <4> TAKE m \in Visible(file')
            <4>1. ASSUME m[1] \in Users PROVE m \in Replay(p)
                BY <1>4, <2>1, <2>3, <4>1, ReplayShows
            <4> QED  BY <2>6, <4>1
        <3>2. said' \subseteq Visible(file') \cup archived' \cup farewell' \cup lost'
            BY DEF Kept, Visible
        <3>3. heap'[turn'.obj] = p
            BY <2>6
        <3> HIDE DEF p
        <3>4. \A m \in turn'.replay \ turn'.shown, n \in turn'.shown : Before(heap'[turn'.obj], m, n)
            BY <2>5, <2>6, <3>3
        <3> QED  BY <2>5, <2>6, <3>1, <3>2, <3>4 DEF AllRecalled, Before
    <2> QED  BY <1>1, <1>2, <1>3, <2>6, <2>7, <2>8, <2>9
<1>5. CASE t # "turn"
    <2>1. turn' = turn /\ turn \in TurnRecord /\ turn.pc \in {"idle", "lock"}
        BY <1>0, <1>5, QueueShrinks DEF Types
    <2>2. Queue'
        <3>1. /\ Len(Tail(lock)) = Len(lock) - 1 /\ Len(lock) \in Nat \ {0}
              /\ \A i \in 1..Len(lock) - 1 : Tail(lock)[i] = lock[i + 1] /\ i + 1 \in 1..Len(lock)
              /\ Head(lock) = lock[1]
            BY QueueShrinks
        <3>2. CASE turn.pc = "idle"
            BY <1>3, <2>1, <3>1, <3>2 DEF Queue
        <3>3. CASE turn.pc = "lock"
            <4>1. lock[Len(lock)] = "turn" /\ \A i \in 1..Len(lock) - 1 : lock[i] # "turn"
                BY <3>3 DEF Queue
            <4>2. Len(lock) # 1
                BY <1>5, <3>1, <4>1
            <4>3. Len(lock) - 1 \in 1..Len(lock) - 1 /\ (Len(lock) - 1) + 1 = Len(lock)
                BY <3>1, <4>2
            <4>4. Tail(lock)[Len(lock) - 1] = "turn" /\ Tail(lock) # <<>>
                <5>1. Tail(lock)[Len(lock) - 1] = lock[(Len(lock) - 1) + 1]
                    BY <3>1, <4>3
                <5>2. Len(Tail(lock)) # 0
                    BY <3>1, <4>3
                <5>3. Tail(lock) # <<>>
                    <6>1. Len(<<>>) = 0
                        OBVIOUS
                    <6> QED  BY <5>2, <6>1, Zenon
                <5>4. lock[(Len(lock) - 1) + 1] = "turn"
                    BY <4>1, <4>3
                <5> QED  BY <5>1, <5>3, <5>4
            <4>5. \A i \in 1..(Len(lock) - 1) - 1 : i + 1 \in 1..Len(lock) - 1 /\ i \in 1..Len(lock) - 1
                BY <3>1
            <4>6. \A i \in 1..Len(Tail(lock)) - 1 : Tail(lock)[i] # "turn"
                BY <3>1, <4>1, <4>5
            <4> QED  BY <1>3, <2>1, <3>1, <3>3, <4>4, <4>6 DEF Queue
        <3> QED  BY <2>1, <3>2, <3>3
    <2>3. TurnHas'
        <3>1. CASE turn.pc = "idle"
            BY <2>1, <3>1 DEF TurnHas
        <3>2. CASE turn.pc = "lock"
            <4>1. /\ turn.obj \in Ids /\ turn.of \in Users
                  /\ said' \subseteq Visible(heap'[turn.obj]) \cup archived' \cup farewell' \cup lost'
                  /\ EndOf(file', heap'[turn.obj])
                BY <3>2 DEF TurnHas
            <4> QED  BY <2>1, <3>2, <4>1 DEF TurnHas, Visible, EndOf, Tail_
        <3> QED  BY <2>1, <3>1, <3>2
    <2>4. AllRecalled'
        BY <2>1 DEF AllRecalled
    <2> QED  BY <1>1, <1>2, <1>3, <2>1, <2>2, <2>3, <2>4
<1> QED  BY <1>4, <1>5

\* A task that holds the lock awaits the archive call for a chunk up to the start of
\* a turn.
LEMMA Awaits ==
    ASSUME Types, Queue, TurnHas, lock # <<>>, Head(lock) \in {"turn", "bg"},
           NEW step \in {"replay", "tokens"}, NEW o, NEW end, Await(step, cached', o, end),
           o = file', Good(o), cached' \in Ids,
           end \in o.cursor..Len(o.messages),
           end < Len(o.messages) => end + 1 \in UsersIn(o.messages),
           Head(lock) = "turn" => Len(o.messages) - end <= Window,
           turn.pc # "idle" =>
                  /\ said' \subseteq Visible(heap'[turn.obj]) \cup archived' \cup farewell' \cup lost'
                  /\ EndOf(file', heap'[turn.obj])
    PROVE  /\ turn' \in TurnRecord /\ lock' \in Seq(Tasks) /\ job' \in JobRecord
           /\ Queue' /\ TurnHas' /\ Held' /\ AllRecalled'
<1> DEFINE chunk == {o.messages[i] : i \in o.cursor + 1..end}
<1>1. lock' = lock /\ turn' = turn
    BY DEF Await
<1>2. turn.pc \in {"idle", "lock"}
    BY QueueShrinks
<1>3. o.messages \in Seq(Messages) /\ o.cursor \in Nat
    BY DEF Good, SessionObject
<1>4. ToSet(SubSeq(o.messages, o.cursor + 1, end)) = chunk
    BY <1>3, ChunkIs
<1>5. chunk \subseteq Messages /\ end \in Nat
    <2>1. \A i \in o.cursor + 1..end : i \in 1..Len(o.messages)
        BY <1>3
    <2> QED  BY <1>3, <2>1
<1>6. job' = [NoJob EXCEPT !.step = step, !.obj = cached', !.end = end, !.chunk = chunk]
    BY <1>4 DEF Await
<1> HIDE DEF chunk
<1>7. /\ job'.step = step /\ job'.obj = cached' /\ job'.end = end /\ job'.chunk = chunk
      /\ job' \in JobRecord
    <2>1. job' = [step |-> step, obj |-> cached', chunk |-> chunk, end |-> end, keep |-> <<>>]
        BY <1>6 DEF NoJob
    <2>2. <<>> \in Seq(Messages) /\ cached' \in Ids \cup {0}
          /\ step \in {"none", "replay", "tokens", "idle"}
        OBVIOUS
    <2> QED  BY <1>5, <2>1, <2>2 DEF JobRecord
<1>8. Queue'
    BY <1>1 DEF Queue
<1>9. TurnHas'
    <2>1. CASE turn.pc = "idle"
        BY <1>1, <2>1 DEF TurnHas
    <2>2. CASE turn.pc = "lock"
        <3>1. /\ turn.obj \in Ids /\ turn.of \in Users
              /\ said' \subseteq Visible(heap'[turn.obj]) \cup archived' \cup farewell' \cup lost'
              /\ EndOf(file', heap'[turn.obj])
            BY <2>2 DEF TurnHas
        <3> QED  BY <1>1, <2>2, <3>1 DEF TurnHas, Visible, EndOf, Tail_
    <2> QED  BY <1>2, <2>1, <2>2
<1>10. AllRecalled'
    BY <1>1, <1>2 DEF AllRecalled
<1>11. Held'
    <2>1. cached' # 0
        BY DEF Ids
    <2>2. job'.chunk = {file'.messages[i] : i \in file'.cursor + 1..job'.end}
        BY <1>7 DEF chunk
    <2>3. step # "idle" /\ Head(lock) # "idle"
        OBVIOUS
    <2>4. MovesCursor(job', file') /\ (Head(lock') = "turn" => Len(file'.messages) - job'.end <= Window)
        BY <1>1, <1>7, <2>2 DEF MovesCursor
    <2>5. MovesCursor(job, file)'
        BY <2>4 DEF MovesCursor, UsersIn
    <2> QED  BY <1>1, <1>7, <2>1, <2>3, <2>4, <2>5 DEF Held
<1> QED  BY <1>1, <1>7, <1>8, <1>9, <1>10, <1>11 DEF Types

\* A step that leaves the session, the job and the holder of the lock alone.
LEMMA HeldStays ==
    ASSUME Held, UNCHANGED <<job, file>>,
           Awaited => lock' # <<>> /\ Head(lock') = Head(lock) /\ cached' = cached
    PROVE  Held'
<1>1. CASE ~Awaited
    BY <1>1 DEF Held, Awaited
<1>2. CASE Awaited
    <2>1. /\ job' = job /\ file' = file /\ cached' = cached
          /\ lock' # <<>> /\ Head(lock') = Head(lock)
        BY <1>2
    <2>2. /\ job.step = "idle" => CutsTail(job', file')
          /\ job.step # "idle" => MovesCursor(job', file')
        BY <1>2, <2>1 DEF Held
    <2>3. /\ job.step = "idle" => CutsTail(job, file)'
          /\ job.step # "idle" => MovesCursor(job, file)'
        BY <2>2 DEF CutsTail, MovesCursor, UsersIn, Tail_, From
    <2> QED  BY <1>2, <2>1, <2>3 DEF Held
<1> QED  BY <1>1, <1>2

----------------------------------------------------------------------------
(* Every step keeps the invariant.                                           *)

LEMMA StartTurnStep ==
    ASSUME IInv, NEW u \in Users, StartTurn(u)
    PROVE  IInv'
<1>0. Types /\ Sound /\ Kept /\ Queue /\ TurnHas /\ Held /\ Ended /\ AllRecalled
    BY DEF IInv
<1>1. /\ turn.pc = "idle" /\ u \notin taken /\ taken' = taken \cup {u}
      /\ turn' = [NoTurn EXCEPT !.pc = "lock", !.of = u, !.obj = Session]
      /\ lock' = Append(lock, "turn") /\ cached' = Session /\ HeapIs(Heap)
      /\ UNCHANGED <<file, job, archived, farewell, said, cleared, lost>>
    BY DEF StartTurn
<1>2. /\ Sound' /\ heap' \in [Ids -> SessionObject] /\ cached' \in Ids
      /\ heap'[Session] = file
    BY <1>0, <1>1, LookedUp
<1>3. /\ turn' \in TurnRecord /\ turn'.pc = "lock" /\ turn'.of = u /\ turn'.obj = Session
    BY <1>1, <1>2 DEF NoTurn, TurnRecord
<1>4. /\ lock' \in Seq(Tasks) /\ lock' # <<>> /\ Len(lock') = Len(lock) + 1 /\ Len(lock) \in Nat
      /\ lock'[Len(lock) + 1] = "turn"
      /\ \A i \in 1..Len(lock) : lock'[i] = lock[i]
      /\ lock # <<>> => Head(lock') = Head(lock)
    BY <1>0, <1>1, QueueGrows DEF Tasks
<1>5. Types'
    BY <1>0, <1>1, <1>2, <1>3, <1>4 DEF Types
<1>6. Kept'
    BY <1>0, <1>1 DEF Kept, Visible
<1>7. Queue'
    <2>1. \A i \in 1..Len(lock) : lock[i] # "turn"
        BY <1>0, <1>1 DEF Queue
    <2>2. lock'[Len(lock')] = "turn" /\ \A i \in 1..Len(lock') - 1 : lock'[i] # "turn"
        BY <1>4, <2>1
    <2> QED  BY <1>3, <1>4, <2>2 DEF Queue
<1>8. TurnHas'
    <2>1. EndOf(file, file)
        BY <1>0, EndOfSelf DEF Sound
    <2>2. said' \subseteq Visible(heap'[turn'.obj]) \cup archived' \cup farewell' \cup lost'
        BY <1>0, <1>1, <1>2, <1>3 DEF Kept
    <2>3. EndOf(file', heap'[turn'.obj])
        BY <1>1, <1>2, <1>3, <2>1
    <2> QED  BY <1>1, <1>2, <1>3, <2>2, <2>3 DEF TurnHas, EndOf, Visible, Tail_
<1>9. Held'
    <2>1. ASSUME Awaited PROVE cached' = cached /\ lock # <<>> /\ cached # 0
        BY <1>0, <1>1, <2>1 DEF Held, Session
    <2> QED  BY <1>0, <1>1, <1>4, <2>1, HeldStays
<1>10. Ended'
    BY <1>0, <1>1, <1>2, <1>3 DEF Ended
<1>11. AllRecalled'
    BY <1>3 DEF AllRecalled
<1> QED  BY <1>5, <1>2, <1>6, <1>7, <1>8, <1>9, <1>10, <1>11 DEF IInv

LEMMA ConsolidateStep ==
    ASSUME IInv, NEW t, Consolidate(t)
    PROVE  IInv'
<1>0. Types /\ Sound /\ Kept /\ Queue /\ TurnHas /\ Held /\ Ended /\ AllRecalled
    BY DEF IInv
<1>1. /\ t \in {"turn", "bg"} /\ lock # <<>> /\ Head(lock) = t /\ ~Awaited
      /\ cached' = Session /\ HeapIs(Heap)
      /\ UNCHANGED <<file, archived, farewell, taken, said, cleared, lost>>
    BY DEF Consolidate
<1>2. Heap[Session] = file /\ Good(file)
    BY <1>0, LookUp DEF Sound
<1>3. \/ file.messages = <<>> /\ Leave(t, Heap)
      \/ ReplayOverflow(file) > file.cursor /\ Await("replay", Session, file, ReplayOverflow(file))
      \/ ~(ReplayOverflow(file) > file.cursor) /\ Leave(t, Heap)
      \/ /\ ~(ReplayOverflow(file) > file.cursor)
         /\ \E end \in Boundaries(file) : Await("tokens", Session, file, end)
    BY <1>2, Zenon DEF Consolidate, Rounds
<1>4. TurnStays
    BY <1>0, <1>1, <1>3, QueueShrinks DEF TurnStays, Leave, Resumes, Await, Types, TurnRecord
<1>5. /\ Sound' /\ heap' \in [Ids -> SessionObject] /\ cached' \in Ids
      /\ turn.obj \in Ids => heap'[turn.obj] = heap[turn.obj]
    BY <1>0, <1>1, <1>4, LookedUp DEF TurnStays
<1>6. Kept'
    BY <1>0, <1>1 DEF Kept, Visible
<1>7. turn.pc # "idle" => /\ turn.obj \in Ids
                          /\ said' \subseteq Visible(heap'[turn.obj]) \cup archived' \cup farewell' \cup lost'
                          /\ EndOf(file', heap'[turn.obj])
    <2> SUFFICES ASSUME turn.pc # "idle"
                 PROVE  /\ turn.obj \in Ids
                        /\ said' \subseteq Visible(heap'[turn.obj]) \cup archived' \cup farewell' \cup lost'
                        /\ EndOf(file', heap'[turn.obj])
        OBVIOUS
    <2>1. turn.pc = "lock"
        BY <1>0, <1>1, QueueShrinks
    <2>2. turn.obj \in Ids /\ said \subseteq Visible(heap[turn.obj]) \cup archived \cup farewell \cup lost
          /\ EndOf(file, heap[turn.obj])
        BY <1>0, <2>1 DEF TurnHas
    <2> QED  BY <1>1, <1>5, <2>2
<1>8. /\ file.cursor \in Nat /\ Len(file.messages) \in Nat /\ file.cursor <= Len(file.messages)
      /\ Len(<<>>) = 0 /\ Window \in Nat
    BY <1>2, MemoryAssumption DEF Good, SessionObject
<1>9. LET end == ReplayOverflow(file)
      IN  /\ end \in file.cursor..Len(file.messages)
          /\ end < Len(file.messages) => end + 1 \in UsersIn(file.messages)
          /\ Len(file.messages) - end <= Window
    BY <1>2, OverflowFacts
<1>10. ~(ReplayOverflow(file) > file.cursor) => Len(file.messages) - file.cursor <= Window
    BY <1>8, <1>9
<1>11. /\ turn' \in TurnRecord /\ lock' \in Seq(Tasks) /\ job' \in JobRecord
       /\ Queue' /\ TurnHas' /\ Held' /\ AllRecalled'
    <2>1. CASE Leave(t, Heap) /\ (file.messages = <<>> \/ ~(ReplayOverflow(file) > file.cursor))
        <3>1. Len(file'.messages) - file'.cursor <= Window
            BY <1>1, <1>8, <1>10, <2>1
        <3>2. t = "turn" => Heap[turn.obj] = heap'[turn.obj]
            BY <1>0, <1>1, <1>5, <1>7, LookUp, QueueShrinks
        <3> QED  BY <1>0, <1>1, <1>5, <1>6, <1>7, <2>1, <3>1, <3>2, Left
    <2>2. CASE Await("replay", Session, file, ReplayOverflow(file))
        BY <1>0, <1>1, <1>2, <1>5, <1>7, <1>9, <2>2, Awaits
    <2>3. CASE /\ ~(ReplayOverflow(file) > file.cursor)
               /\ \E end \in Boundaries(file) : Await("tokens", Session, file, end)
        <3>1. PICK end \in Boundaries(file) : Await("tokens", Session, file, end)
            BY <2>3
        <3>2. end \in file.cursor + 1..Len(file.messages) - 1 /\ end + 1 \in UsersIn(file.messages)
            BY <3>1 DEF Boundaries
        <3>3. end \in file.cursor..Len(file.messages) /\ Len(file.messages) - end <= Window
            BY <1>8, <1>10, <2>3, <3>2
        <3> QED  BY <1>0, <1>1, <1>2, <1>5, <1>7, <3>1, <3>2, <3>3, Awaits
    <2> QED  BY <1>3, <2>1, <2>2, <2>3
<1>12. Types'
    BY <1>0, <1>1, <1>5, <1>11 DEF Types
<1>13. Ended'
    BY <1>0, <1>1, <1>4, <1>5, <1>7 DEF Ended, TurnStays
<1> QED  BY <1>5, <1>6, <1>11, <1>12, <1>13 DEF IInv

\* A sound session is sound when its cursor moves to where a turn begins.
LEMMA MovedCursor ==
    ASSUME NEW p, Good(p), NEW j, MovesCursor(j, p)
    PROVE  LET o == [p EXCEPT !.cursor = j.end]
           IN  /\ Good(o) /\ o.messages = p.messages /\ o.cursor = j.end
               /\ Hidden(o) = Hidden(p) \cup j.chunk
               /\ Visible(p) = Visible(o) \cup j.chunk
               /\ EndOf(o, p)
<1> DEFINE o == [p EXCEPT !.cursor = j.end]
           c == p.cursor
           n == Len(p.messages)
           e == j.end
           ms == p.messages
<1>1. /\ p \in SessionObject /\ Shape(ms) /\ c \in Nat /\ n \in Nat /\ c <= n /\ ms \in Seq(Messages)
      /\ e \in c..n /\ (e < n => e + 1 \in UsersIn(ms))
      /\ j.chunk = {ms[i] : i \in c + 1..e}
    BY DEF Good, SessionObject, MovesCursor
<1>2. o.messages = ms /\ o.cursor = e /\ o \in SessionObject
    BY <1>1 DEF SessionObject
<1> HIDE DEF o, c, n, e, ms
<1>3. e \in Nat /\ e <= n
    BY <1>1
<1>4. Good(o)
    BY <1>1, <1>2, <1>3 DEF Good, n, ms
<1>5. {ms[i] : i \in 1..e} = {ms[i] : i \in 1..c} \cup {ms[i] : i \in c + 1..e}
    <2>1. 1..e = (1..c) \cup (c + 1..e)
        BY <1>1
    <2> QED  BY <2>1
<1>6. {ms[i] : i \in c + 1..n} = {ms[i] : i \in e + 1..n} \cup {ms[i] : i \in c + 1..e}
    <2>1. c + 1..n = (e + 1..n) \cup (c + 1..e)
        BY <1>1
    <2> QED  BY <2>1
<1>7. EndOf(o, p)
    <2>1. Tail_(o) = From(ms, e + 1)
        BY <1>2 DEF Tail_, From
    <2>2. e + 1 \in c + 1..n + 1
        BY <1>1
    <2> QED  BY <2>1, <2>2 DEF EndOf, ms, c, n
<1> QED  BY <1>1, <1>2, <1>4, <1>5, <1>6, <1>7 DEF Hidden, Visible, o, c, n, e, ms

LEMMA ArchiveStep ==
    ASSUME IInv, NEW t, NEW ok, Archive(t, ok)
    PROVE  IInv'
<1>0. Types /\ Sound /\ Kept /\ Queue /\ TurnHas /\ Held /\ Ended /\ AllRecalled
    BY DEF IInv
<1> DEFINE id == job.obj
           o == [heap[id] EXCEPT !.cursor = job.end]
           h == [heap EXCEPT ![id] = Capped(o)]
<1>1. /\ t \in {"turn", "bg"} /\ lock # <<>> /\ Head(lock) = t /\ Awaited
      /\ IF job.step = "tokens" /\ ~ok THEN Leave(t, h) ELSE Rounds(t, h, id)
      /\ Save(heap, id, o, job.chunk)
      /\ UNCHANGED <<farewell, taken, said, cleared, lost>>
    BY DEF Archive
<1>2. /\ cached # 0 /\ id = cached /\ id \in Ids /\ heap[id] = file /\ Good(file)
      /\ Hidden(file) \subseteq archived
    BY <1>0, <1>1 DEF Held, Types, Sound
<1>3. /\ MovesCursor(job, file)
      /\ Head(lock) = "turn" => Len(file.messages) - job.end <= Window
    BY <1>0, <1>1 DEF Held
<1>4. job.chunk \in SUBSET Messages
    BY <1>0 DEF Types, JobRecord
<1>5. /\ Good(o) /\ o.messages = file.messages /\ o.cursor = job.end
      /\ Hidden(o) = Hidden(file) \cup job.chunk
      /\ Visible(file) = Visible(o) \cup job.chunk
      /\ EndOf(o, file)
    BY <1>2, <1>3, MovedCursor
<1>6. \/ Leave(t, h)
      \/ \E end \in Boundaries(h[id]) : Await("tokens", id, h[id], end)
    BY <1>1, Zenon DEF Rounds
<1>7. TurnStays
    BY <1>0, <1>1, <1>6, QueueShrinks DEF TurnStays, Leave, Resumes, Await, Types, TurnRecord
<1>8. turn.pc # "idle" => turn.obj \in Ids /\ EndOf(file, heap[turn.obj])
    BY <1>0, <1>1, QueueShrinks DEF TurnHas
<1> HIDE DEF o
<1>9. /\ file' = Capped(o) /\ Shrinks(file', o) /\ cached' = id /\ heap'[id] = file'
      /\ heap' \in [Ids -> SessionObject] /\ archived' \subseteq Messages
      /\ Sound' /\ Kept' /\ Ended'
      /\ turn.pc # "idle" =>
             /\ said' \subseteq Visible(heap'[turn.obj]) \cup archived' \cup farewell' \cup lost'
             /\ EndOf(file', heap'[turn.obj])
    <2>1. Hidden(o) \subseteq archived \cup job.chunk /\ Elems(o.messages) \subseteq Elems(file.messages)
        BY <1>2, <1>5
    <2> HIDE DEF id, h
    <2> QED  BY <1>0, <1>1, <1>2, <1>4, <1>5, <1>7, <1>8, <2>1, Rewritten
<1>10. h[id] = file' /\ (turn.pc # "idle" => h[turn.obj] = heap'[turn.obj])
    <2>1. heap \in [Ids -> SessionObject]
        BY <1>0 DEF Types
    <2>2. HeapIs(h)
        BY <1>1 DEF Save
    <2>3. h[id] = file'
        BY <1>2, <1>9, <2>1
    <2>4. ASSUME turn.pc # "idle" PROVE h[turn.obj] = heap'[turn.obj]
        BY <1>7, <1>8, <2>2, <2>4 DEF HeapIs, TurnStays
    <2> QED  BY <2>3, <2>4
<1> HIDE DEF h
<1>11. Good(file') /\ Len(file'.messages) - file'.cursor <= Len(file.messages) - job.end
    BY <1>5, <1>9 DEF Shrinks
<1>12. /\ file'.cursor \in Nat /\ Len(file'.messages) \in Nat /\ Window \in Nat
       /\ Len(file.messages) \in Nat /\ job.end \in Nat
    BY <1>0, <1>2, <1>11, MemoryAssumption DEF Good, SessionObject, Types, JobRecord
<1>13. t = "turn" => Len(file'.messages) - file'.cursor <= Window
    <2>1. ASSUME t = "turn" PROVE Len(file.messages) - job.end <= Window
        BY <1>1, <1>3, <2>1
    <2> QED  BY <1>11, <1>12, <2>1
<1>14. /\ turn' \in TurnRecord /\ lock' \in Seq(Tasks) /\ job' \in JobRecord
       /\ Queue' /\ TurnHas' /\ Held' /\ AllRecalled'
    <2>1. CASE Leave(t, h)
        <3>1. t = "turn" => h[turn.obj] = heap'[turn.obj]
            BY <1>0, <1>1, <1>10, QueueShrinks
        <3> QED  BY <1>0, <1>1, <1>9, <1>13, <2>1, <3>1, Left
    <2>2. CASE \E end \in Boundaries(h[id]) : Await("tokens", id, h[id], end)
        <3>1. PICK end \in Boundaries(file') : Await("tokens", cached', file', end)
            BY <1>9, <1>10, <2>2
        <3>2. end \in file'.cursor + 1..Len(file'.messages) - 1 /\ end + 1 \in UsersIn(file'.messages)
            BY <3>1 DEF Boundaries
        <3>3. /\ end \in file'.cursor..Len(file'.messages)
              /\ t = "turn" => Len(file'.messages) - end <= Window
            BY <1>12, <1>13, <3>2
        <3> QED  BY <1>0, <1>1, <1>2, <1>9, <1>11, <3>1, <3>2, <3>3, Awaits
    <2> QED  BY <1>6, <2>1, <2>2
<1>15. Types'
    BY <1>0, <1>1, <1>2, <1>9, <1>14 DEF Types
<1> QED  BY <1>9, <1>14, <1>15 DEF IInv

\* When the turn has the session for itself nothing is awaited.
LEMMA NobodyElse ==
    ASSUME Types, Queue, Held, turn.pc \in {"build", "model"}
    PROVE  lock = <<>> /\ ~Awaited
BY DEF Queue, Held

\* A session with other messages.
LEMMA WithMessages ==
    ASSUME NEW p \in SessionObject, NEW q
    PROVE  LET o == [p EXCEPT !.messages = q]
           IN  /\ o = [messages |-> q, cursor |-> p.cursor]
               /\ o.messages = q /\ o.cursor = p.cursor
BY DEF SessionObject

\* A session grows by a user message.
LEMMA GrowsByInput ==
    ASSUME NEW p, Good(p), NEW m \in Messages, m[2] = 0
    PROVE  LET o == [p EXCEPT !.messages = Append(@, m)]
           IN  /\ Good(o) /\ o.cursor = p.cursor /\ o.messages = Append(p.messages, m)
               /\ Len(o.messages) = Len(p.messages) + 1
               /\ \A i \in 1..Len(p.messages) : o.messages[i] = p.messages[i]
               /\ Len(o.messages) \in UsersIn(o.messages) /\ o.messages[Len(p.messages) + 1] = m
               /\ o.cursor < Len(o.messages)
               /\ Hidden(o) = Hidden(p)
               /\ Visible(o) = Visible(p) \cup {m}
               /\ Elems(o.messages) = Elems(p.messages) \cup {m}
<1> DEFINE ms == p.messages
           ns == Append(ms, m)
           n == Len(ms)
           c == p.cursor
           o == [p EXCEPT !.messages = Append(@, m)]
<1>1. /\ p \in SessionObject /\ Shape(ms) /\ c \in Nat /\ n \in Nat /\ c <= n /\ ms \in Seq(Messages)
      /\ (c < n => c + 1 \in UsersIn(ms))
    BY DEF Good, SessionObject
<1>2. /\ ns \in Seq(Messages) /\ Len(ns) = n + 1
      /\ \A i \in 1..n : ns[i] = ms[i]
      /\ ns[n + 1] = m /\ n + 1 \in UsersIn(ns) /\ Shape(ns)
    BY <1>1, ShapeInput
<1>3. o.messages = ns /\ o.cursor = c /\ o = [messages |-> ns, cursor |-> c]
    BY <1>1, WithMessages
<1>4. Elems(ns) = Elems(ms) \cup {m}
    BY <1>1, AppendElems
<1> HIDE DEF o, ns, n, c, ms
<1>5. Good(o)
    <2>1. o \in SessionObject
        BY <1>1, <1>2, <1>3 DEF SessionObject
    <2>2. c <= n + 1 /\ (c < n + 1 => c + 1 \in UsersIn(ns))
        <3>1. CASE c < n
            <4>1. c + 1 \in 1..n /\ c + 1 \in 1..n + 1
                BY <1>1, <3>1
            <4>2. ns[c + 1][2] = 0
                BY <1>1, <1>2, <3>1, <4>1, UsersAt DEF n
            <4> QED  BY <1>1, <1>2, <4>1, <4>2, UsersAt
        <3>2. CASE c = n
            BY <1>1, <1>2, <3>2
        <3> QED  BY <1>1, <3>1, <3>2
    <2> QED  BY <1>2, <1>3, <2>1, <2>2 DEF Good
<1>6. {ns[i] : i \in 1..c} = {ms[i] : i \in 1..c}
    <2>1. \A i \in 1..c : ns[i] = ms[i]
        BY <1>1, <1>2
    <2> QED  BY <2>1
<1>7. {ns[i] : i \in c + 1..n + 1} = {ms[i] : i \in c + 1..n} \cup {m}
    <2>1. \A i \in c + 1..n : ns[i] = ms[i] /\ i \in c + 1..n + 1
        BY <1>1, <1>2
    <2>2. \A i \in c + 1..n + 1 : i \in c + 1..n \/ i = n + 1
        BY <1>1
    <2>3. n + 1 \in c + 1..n + 1
        BY <1>1
    <2> QED  BY <1>2, <2>1, <2>2, <2>3
<1>8. c < n + 1
    BY <1>1
<1>9. /\ Good(o) /\ o.cursor = p.cursor /\ o.messages = ns
      /\ Len(o.messages) = Len(p.messages) + 1
      /\ \A i \in 1..Len(p.messages) : o.messages[i] = p.messages[i]
      /\ Len(o.messages) \in UsersIn(o.messages) /\ o.messages[Len(p.messages) + 1] = m
      /\ o.cursor < Len(o.messages)
    BY <1>2, <1>3, <1>5, <1>8 DEF n, c, ms
<1>10. /\ Hidden(o) = Hidden(p)
       /\ Visible(o) = Visible(p) \cup {m}
       /\ Elems(o.messages) = Elems(p.messages) \cup {m}
    <2>1. Hidden(o) = {ns[i] : i \in 1..c} /\ Hidden(p) = {ms[i] : i \in 1..c}
        BY <1>3 DEF Hidden, c, ms
    <2>2. Visible(o) = {ns[i] : i \in c + 1..n + 1} /\ Visible(p) = {ms[i] : i \in c + 1..n}
        BY <1>2, <1>3 DEF Visible, n, c, ms
    <2> QED  BY <1>3, <1>4, <1>6, <1>7, <2>1, <2>2 DEF ms
<1> QED  BY <1>9, <1>10 DEF o, ns, ms

\* A session that ends with a user message, which the cursor does not hide, grows by
\* answers.
LEMMA GrowsByAnswers ==
    ASSUME NEW p, Good(p), Len(p.messages) \in UsersIn(p.messages), p.cursor < Len(p.messages),
           NEW q \in Seq(Messages), Len(q) <= MaxReplies
    PROVE  LET o == [p EXCEPT !.messages = @ \o q]
           IN  /\ Good(o) /\ o.cursor = p.cursor /\ o.messages = p.messages \o q
               /\ Hidden(o) = Hidden(p)
               /\ Visible(o) = Visible(p) \cup Elems(q)
               /\ Elems(o.messages) = Elems(p.messages) \cup Elems(q)
               /\ Len(o.messages) = Len(p.messages) + Len(q)
               /\ \A i \in 1..Len(p.messages) : o.messages[i] = p.messages[i]
<1> DEFINE ms == p.messages
           ns == ms \o q
           n == Len(ms)
           l == Len(q)
           c == p.cursor
           o == [p EXCEPT !.messages = @ \o q]
<1>1. /\ p \in SessionObject /\ Shape(ms) /\ c \in Nat /\ n \in Nat /\ c < n /\ ms \in Seq(Messages)
      /\ c + 1 \in UsersIn(ms)
    BY DEF Good, SessionObject
<1>2. /\ ns \in Seq(Messages) /\ Len(ns) = n + l /\ l \in Nat
      /\ \A i \in 1..n : ns[i] = ms[i]
      /\ \A i \in 1..l : ns[n + i] = q[i]
    BY <1>1
<1>3. o.messages = ns /\ o.cursor = c /\ o = [messages |-> ns, cursor |-> c]
    BY <1>1, WithMessages
<1>4. Elems(ns) = Elems(ms) \cup Elems(q)
    BY <1>1, ConcatElems
<1>5. Shape(ns)
    <2> HIDE DEF ns
    <2>1. Len(ms) <= Len(ns) /\ Len(ns) - Len(ms) <= MaxReplies
        BY <1>1, <1>2, MemoryAssumption
    <2> QED  BY <1>1, <1>2, <2>1, ShapeAnswers
<1>6. n \in UsersIn(ms) /\ l <= MaxReplies
    OBVIOUS
<1> HIDE DEF o, ns, n, c, ms, l
<1>7. Good(o)
    <2>1. o \in SessionObject
        BY <1>1, <1>2, <1>3 DEF SessionObject
    <2>2. c <= n + l /\ c + 1 \in 1..n /\ c + 1 \in 1..n + l
        BY <1>1, <1>2
    <2>3. c + 1 \in UsersIn(ns)
        <3>1. ns[c + 1][2] = 0
            BY <1>1, <1>2, <2>2, UsersAt DEF n
        <3> QED  BY <1>2, <2>2, <3>1, UsersAt
    <2> QED  BY <1>2, <1>3, <1>5, <2>1, <2>2, <2>3 DEF Good
<1>8. {ns[i] : i \in 1..c} = {ms[i] : i \in 1..c}
    <2>1. \A i \in 1..c : ns[i] = ms[i]
        BY <1>1, <1>2
    <2> QED  BY <2>1
<1>9. {ns[i] : i \in c + 1..n + l} = {ms[i] : i \in c + 1..n} \cup {q[i] : i \in 1..l}
    <2>1. \A i \in c + 1..n : ns[i] = ms[i] /\ i \in c + 1..n + l
        BY <1>1, <1>2
    <2>2. \A i \in c + 1..n + l : i \in c + 1..n \/ (i - n \in 1..l /\ n + (i - n) = i)
        BY <1>1, <1>2
    <2>3. \A i \in 1..l : n + i \in c + 1..n + l
        BY <1>1, <1>2
    <2> QED  BY <1>2, <2>1, <2>2, <2>3
<1>10. /\ Good(o) /\ o.cursor = p.cursor /\ o.messages = ns
       /\ Len(o.messages) = Len(p.messages) + Len(q)
       /\ \A i \in 1..Len(p.messages) : o.messages[i] = p.messages[i]
    BY <1>2, <1>3, <1>7 DEF n, c, ms, l
<1>11. /\ Hidden(o) = Hidden(p)
       /\ Visible(o) = Visible(p) \cup {q[i] : i \in 1..l}
       /\ Elems(o.messages) = Elems(p.messages) \cup Elems(q)
    BY <1>2, <1>3, <1>4, <1>8, <1>9 DEF Hidden, Visible, n, c, ms
<1> QED  BY <1>10, <1>11 DEF Elems, o, ns, ms, l

LEMMA PersistStep ==
    ASSUME IInv, Persist
    PROVE  IInv'
<1>0. Types /\ Sound /\ Kept /\ Queue /\ TurnHas /\ Held /\ Ended /\ AllRecalled
    BY DEF IInv
<1> DEFINE id == turn.obj
           m == <<turn.of, 0>>
           p == heap[id]
           o == [p EXCEPT !.messages = Append(@, m)]
<1>1. /\ turn.pc = "build" /\ turn' = [turn EXCEPT !.pc = "model"]
      /\ said' = said \cup {m}
      /\ UNCHANGED <<lock, job, farewell, taken, cleared, lost>>
      /\ Save(heap, id, o, {})
    BY DEF Persist
<1>2. lock = <<>> /\ ~Awaited
    BY <1>0, <1>1, NobodyElse
<1>3. /\ id \in Ids /\ turn.of \in Users
      /\ said \subseteq Visible(p) \cup archived \cup farewell \cup lost
    BY <1>0, <1>1 DEF TurnHas
<1>4. AllGood(heap, archived) /\ Good(p) /\ Hidden(p) \subseteq archived
    BY <1>0, <1>3, LookUp DEF Sound
<1>5. m \in Messages /\ m[1] = turn.of /\ m[2] = 0
    BY <1>3, MemoryAssumption DEF Messages
<1>6. turn' \in TurnRecord /\ turn'.pc = "model" /\ turn'.obj = id /\ turn'.of = turn.of
      /\ turn'.replay = turn.replay /\ turn'.shown = turn.shown
    BY <1>0, <1>1 DEF Types, TurnRecord
<1> HIDE DEF m
<1>7. /\ Good(o)
      /\ Len(o.messages) \in UsersIn(o.messages)
      /\ o.cursor < Len(o.messages)
      /\ Hidden(o) = Hidden(p)
      /\ Visible(o) = Visible(p) \cup {m}
      /\ Elems(o.messages) = Elems(p.messages) \cup {m}
    BY <1>4, <1>5, GrowsByInput
<1> HIDE DEF o, id, p
<1>8. /\ file' = Capped(o) /\ Shrinks(file', o)
      /\ Sound' /\ heap' \in [Ids -> SessionObject]
      /\ cached' = id /\ heap'[id] = file'
      /\ archived \subseteq archived' /\ archived' \subseteq Messages
      /\ Visible(o) \subseteq Visible(file') \cup archived'
    <2>1. {} \in SUBSET Messages /\ Hidden(o) \subseteq archived \cup {}
        BY <1>4, <1>7
    <2> QED  BY <1>0, <1>1, <1>3, <1>4, <1>7, <2>1, Saved
<1>9. said' \subseteq Visible(file') \cup archived' \cup farewell' \cup lost'
    BY <1>1, <1>3, <1>7, <1>8
<1>10. Kept'
    BY <1>9 DEF Kept, Visible
<1>11. Types'
    BY <1>0, <1>1, <1>3, <1>5, <1>6, <1>8 DEF Types
<1>12. Queue'
    BY <1>1, <1>2, <1>6 DEF Queue
<1>13. TurnHas'
    <2>1. file'.cursor < Len(file'.messages) /\ Len(file'.messages) \in UsersIn(file'.messages)
        BY <1>7, <1>8 DEF Shrinks
    <2>2. said' \subseteq Visible(heap'[turn'.obj]) \cup archived' \cup farewell' \cup lost'
        BY <1>6, <1>8, <1>9
    <2>3. heap'[turn'.obj] = file'
        BY <1>6, <1>8
    <2>4. /\ heap'[turn'.obj].cursor < Len(heap'[turn'.obj].messages)
          /\ Len(heap'[turn'.obj].messages) \in UsersIn(heap'[turn'.obj].messages)
        BY <2>1, <2>3
    <2> QED  BY <1>3, <1>6, <2>2, <2>4 DEF TurnHas, Visible, UsersIn
<1>14. Held'
    BY <1>1, <1>2 DEF Held, Awaited
<1>15. Ended'
    <2>1. turn.of \in taken /\ \A x \in cleared : x[1] # turn.of
        BY <1>0, <1>1 DEF Ended
    <2>2. \A i \in 1..Len(p.messages) : p.messages[i] \notin cleared
        BY <1>0, <1>1 DEF Ended, p, id
    <2>3. m \notin cleared
        BY <1>5, <2>1
    <2>4. \A x \in Elems(o.messages) : x \notin cleared
        BY <1>7, <2>2, <2>3 DEF Elems
    <2>5. Elems(file'.messages) \subseteq Elems(o.messages)
        BY <1>8 DEF Shrinks
    <2>6. \A i \in 1..Len(file'.messages) : file'.messages[i] \notin cleared'
        BY <1>1, <2>4, <2>5 DEF Elems
    <2>7. \A x \in said' \cup cleared' : x[1] \in taken'
        BY <1>0, <1>1, <1>5, <2>1 DEF Ended
    <2> QED  BY <1>1, <1>6, <1>8, <2>1, <2>6, <2>7 DEF Ended
<1>16. AllRecalled'
    BY <1>0, <1>1, <1>5, <1>6, <1>8 DEF AllRecalled
<1> QED  BY <1>8, <1>10, <1>11, <1>12, <1>13, <1>14, <1>15, <1>16 DEF IInv

\* The answers of a turn.
LEMMA AnswerIs ==
    ASSUME NEW u \in Users \cup Commands, NEW n \in 1..MaxReplies
    PROVE  LET answer == [i \in 1..n |-> <<u, i>>]
           IN  /\ answer \in Seq(Messages) /\ Len(answer) = n
               /\ \A m \in Elems(answer) : m[1] = u /\ m \in Messages
               /\ ToSet(answer) = Elems(answer)
<1> DEFINE answer == [i \in 1..n |-> <<u, i>>]
<1>1. n \in Nat /\ \A i \in 1..n : i \in 0..MaxReplies
    BY MemoryAssumption
<1>2. \A i \in 1..n : <<u, i>> \in Messages
    BY <1>1 DEF Messages
<1>3. answer \in Seq(Messages) /\ Len(answer) = n /\ DOMAIN answer = 1..n
    BY <1>1, <1>2
<1>4. \A i \in 1..n : answer[i] = <<u, i>>
    OBVIOUS
<1> HIDE DEF answer
<1>5. ToSet(answer) = Elems(answer)
    BY <1>3 DEF ToSet, Elems
<1> QED  BY <1>2, <1>3, <1>4, <1>5 DEF Elems, answer

LEMMA FinishStep ==
    ASSUME IInv, NEW n \in 1..MaxReplies, Finish(n)
    PROVE  IInv'
<1>0. Types /\ Sound /\ Kept /\ Queue /\ TurnHas /\ Held /\ Ended /\ AllRecalled
    BY DEF IInv
<1> DEFINE id == turn.obj
           answer == [i \in 1..n |-> <<turn.of, i>>]
           p == heap[id]
           o == [p EXCEPT !.messages = @ \o answer]
<1>1. /\ turn.pc = "model" /\ turn' = NoTurn
      /\ said' = said \cup ToSet(answer)
      /\ lock' = Append(lock, "bg")
      /\ UNCHANGED <<job, farewell, taken, cleared, lost>>
      /\ Save(heap, id, o, {})
    BY DEF Finish
<1>2. lock = <<>> /\ ~Awaited
    BY <1>0, <1>1, NobodyElse
<1>3. /\ id \in Ids /\ turn.of \in Users
      /\ said \subseteq Visible(p) \cup archived \cup farewell \cup lost
      /\ p.cursor < Len(p.messages) /\ Len(p.messages) \in UsersIn(p.messages)
    BY <1>0, <1>1 DEF TurnHas
<1>4. AllGood(heap, archived) /\ Good(p) /\ Hidden(p) \subseteq archived
    BY <1>0, <1>3, LookUp DEF Sound
<1>5. /\ answer \in Seq(Messages) /\ Len(answer) <= MaxReplies
      /\ \A m \in Elems(answer) : m[1] = turn.of /\ m \in Messages
      /\ ToSet(answer) = Elems(answer)
    <2>1. n <= MaxReplies
        BY MemoryAssumption
    <2>2. turn.of \in Users \cup Commands
        BY <1>3
    <2> QED  BY <2>1, <2>2, AnswerIs
<1> HIDE DEF answer
<1>6. /\ Good(o)
      /\ Hidden(o) = Hidden(p)
      /\ Visible(o) = Visible(p) \cup Elems(answer)
      /\ Elems(o.messages) = Elems(p.messages) \cup Elems(answer)
    BY <1>3, <1>4, <1>5, GrowsByAnswers
<1> HIDE DEF o, id, p
<1>7. /\ file' = Capped(o) /\ Shrinks(file', o)
      /\ Sound' /\ heap' \in [Ids -> SessionObject]
      /\ cached' = id
      /\ archived \subseteq archived' /\ archived' \subseteq Messages
      /\ Visible(o) \subseteq Visible(file') \cup archived'
    <2>1. {} \in SUBSET Messages /\ Hidden(o) \subseteq archived \cup {}
        BY <1>4, <1>6
    <2> QED  BY <1>0, <1>1, <1>3, <1>4, <1>6, <2>1, Saved
<1>8. Kept'
    <2>1. said' \subseteq Visible(file') \cup archived' \cup farewell' \cup lost'
        BY <1>1, <1>3, <1>5, <1>6, <1>7
    <2> QED  BY <2>1 DEF Kept, Visible
<1>9. turn' \in TurnRecord /\ turn'.pc = "idle"
    BY <1>1 DEF NoTurn, TurnRecord
<1>10. lock' = <<"bg">> /\ lock' \in Seq(Tasks)
    BY <1>1, <1>2 DEF Tasks
<1>11. Types'
    BY <1>0, <1>1, <1>3, <1>5, <1>7, <1>9, <1>10 DEF Types
<1>12. Queue'
    BY <1>9, <1>10 DEF Queue
<1>13. TurnHas' /\ AllRecalled'
    BY <1>9 DEF TurnHas, AllRecalled
<1>14. Held'
    BY <1>1, <1>2 DEF Held, Awaited
<1>15. Ended'
    <2>1. turn.of \in taken /\ \A x \in cleared : x[1] # turn.of
        BY <1>0, <1>1 DEF Ended
    <2>2. \A i \in 1..Len(p.messages) : p.messages[i] \notin cleared
        BY <1>0, <1>1 DEF Ended, p, id
    <2>3. \A x \in Elems(o.messages) : x \notin cleared
        BY <1>5, <1>6, <2>1, <2>2 DEF Elems
    <2>4. Elems(file'.messages) \subseteq Elems(o.messages)
        BY <1>7 DEF Shrinks
    <2>5. \A i \in 1..Len(file'.messages) : file'.messages[i] \notin cleared'
        BY <1>1, <2>3, <2>4 DEF Elems
    <2>6. \A x \in said' \cup cleared' : x[1] \in taken'
        BY <1>0, <1>1, <1>5, <2>1 DEF Ended
    <2> QED  BY <1>9, <2>5, <2>6 DEF Ended
<1> QED  BY <1>7, <1>8, <1>11, <1>12, <1>13, <1>14, <1>15 DEF IInv

\* Messages that a command adds at the end change nothing for a task that is to move
\* the cursor.
LEMMA MovesOn ==
    ASSUME NEW p, Good(p), NEW o, Good(o), NEW j, MovesCursor(j, p),
           o.cursor = p.cursor, Len(p.messages) < Len(o.messages),
           \A i \in 1..Len(p.messages) : o.messages[i] = p.messages[i],
           Len(p.messages) + 1 \in UsersIn(o.messages)
    PROVE  MovesCursor(j, o)
<1> DEFINE n == Len(p.messages)
           c == p.cursor
           e == j.end
<1>1. /\ c \in Nat /\ n \in Nat /\ e \in c..n /\ Len(o.messages) \in Nat
      /\ p.messages \in Seq(Messages) /\ o.messages \in Seq(Messages)
      /\ e < n => e + 1 \in UsersIn(p.messages)
      /\ j.chunk = {p.messages[i] : i \in c + 1..e}
    BY DEF MovesCursor, Good, SessionObject
<1>2. {p.messages[i] : i \in c + 1..e} = {o.messages[i] : i \in c + 1..e}
    <2>1. \A i \in c + 1..e : i \in 1..n
        BY <1>1
    <2> QED  BY <2>1
<1>3. e + 1 \in UsersIn(o.messages)
    <2>1. CASE e < n
        <3>1. e + 1 \in 1..n /\ e + 1 \in 1..Len(o.messages)
            BY <1>1, <2>1
        <3>2. p.messages[e + 1][2] = 0 /\ o.messages[e + 1] = p.messages[e + 1]
            BY <1>1, <2>1, <3>1, UsersAt
        <3> QED  BY <1>1, <3>1, <3>2, UsersAt
    <2>2. CASE e = n
        BY <2>2
    <2> QED  BY <1>1, <2>1, <2>2
<1>4. e \in o.cursor..Len(o.messages)
    <2> HIDE DEF n
    <2> QED  BY <1>1 DEF n
<1> QED  BY <1>1, <1>2, <1>3, <1>4 DEF MovesCursor

LEMMA CommandStep ==
    ASSUME Racing = {}, IInv, NEW c \in Commands, Command(c)
    PROVE  IInv'
<1>0. Types /\ Sound /\ Kept /\ Queue /\ TurnHas /\ Held /\ Ended /\ AllRecalled
    BY DEF IInv
<1> DEFINE m0 == <<c, 0>>
           m1 == <<c, 1>>
           a == [file EXCEPT !.messages = Append(@, m0)]
           b == Capped(a)
           o == [b EXCEPT !.messages = Append(@, m1)]
<1>1. Heap[Session] = file /\ Session \in Ids /\ AllGood(Heap, archived) /\ Good(file)
      /\ Hidden(file) \subseteq archived
    BY <1>0, LookUp DEF Sound
<1>2. /\ turn.pc = "idle" /\ c \notin taken /\ Harmless
      /\ taken' = taken \cup {c}
      /\ said' = said \cup {m0, m1}
      /\ UNCHANGED <<turn, lock, job, farewell, cleared, lost>>
      /\ Save(Heap, Session, o, CutOff(a))
    BY <1>1 DEF Command
<1>3. m0 \in Messages /\ m1 \in Messages /\ m0[1] = c /\ m1[1] = c /\ m0[2] = 0
    BY MemoryAssumption DEF Messages
<1> HIDE DEF m0, m1
<1>4. /\ Good(a) /\ a.cursor = file.cursor
      /\ Len(a.messages) = Len(file.messages) + 1
      /\ \A i \in 1..Len(file.messages) : a.messages[i] = file.messages[i]
      /\ Len(a.messages) \in UsersIn(a.messages)
      /\ a.cursor < Len(a.messages)
      /\ Hidden(a) = Hidden(file)
      /\ Visible(a) = Visible(file) \cup {m0}
      /\ Elems(a.messages) = Elems(file.messages) \cup {m0}
    <2>0. Good(file) /\ m0 \in Messages /\ m0[2] = 0
        BY <1>1, <1>3
    <2>1. /\ Good(a) /\ Len(a.messages) \in UsersIn(a.messages)
          /\ a.cursor < Len(a.messages)
          /\ Hidden(a) = Hidden(file)
          /\ Visible(a) = Visible(file) \cup {m0}
          /\ Elems(a.messages) = Elems(file.messages) \cup {m0}
        BY <2>0, GrowsByInput
    <2>2. a.cursor = file.cursor /\ Len(a.messages) = Len(file.messages) + 1
        BY <2>0, GrowsByInput
    <2>3. \A i \in 1..Len(file.messages) : a.messages[i] = file.messages[i]
        BY <2>0, GrowsByInput
    <2> QED  BY <2>1, <2>2, <2>3, Zenon
<1> HIDE DEF a
<1>5. /\ Good(b) /\ b.cursor < Len(b.messages) /\ Len(b.messages) \in UsersIn(b.messages)
      /\ Hidden(b) \subseteq Hidden(a) /\ Elems(b.messages) \subseteq Elems(a.messages)
      /\ Visible(a) = Visible(b) \cup CutOff(a)
    BY <1>4, CapShrinks DEF Shrinks
<1>6. /\ Good(o) /\ o.cursor = b.cursor
      /\ Hidden(o) = Hidden(b)
      /\ Visible(o) = Visible(b) \cup {m1}
      /\ Elems(o.messages) = Elems(b.messages) \cup {m1}
      /\ Len(o.messages) = Len(b.messages) + 1
      /\ \A i \in 1..Len(b.messages) : o.messages[i] = b.messages[i]
    <2> DEFINE q == <<m1>>
    <2>1. q \in Seq(Messages) /\ Len(q) = 1 /\ Elems(q) = {m1}
        BY <1>3 DEF Elems
    <2>2. 1 <= MaxReplies
        BY MemoryAssumption
    <2>3. b \in SessionObject /\ b.messages \in Seq(Messages)
        BY <1>5 DEF Good, SessionObject
    <2>4. Append(b.messages, m1) = b.messages \o q
        BY <1>3, <2>3
    <2>5. o = [b EXCEPT !.messages = @ \o q]
        BY <2>4
    <2> HIDE DEF q, b, o
    <2>6. Len(q) <= MaxReplies /\ Good(b) /\ Len(b.messages) \in UsersIn(b.messages) /\ b.cursor < Len(b.messages)
        BY <1>5, <2>1, <2>2
    <2>7. LET x == [b EXCEPT !.messages = @ \o q]
          IN  /\ Good(x) /\ x.cursor = b.cursor
              /\ Hidden(x) = Hidden(b)
              /\ Visible(x) = Visible(b) \cup Elems(q)
              /\ Elems(x.messages) = Elems(b.messages) \cup Elems(q)
              /\ Len(x.messages) = Len(b.messages) + Len(q)
              /\ \A i \in 1..Len(b.messages) : x.messages[i] = b.messages[i]
        BY <2>1, <2>6, GrowsByAnswers
    <2> QED  BY <2>1, <2>5, <2>7
<1> HIDE DEF b, o
<1>7. /\ file' = Capped(o) /\ Shrinks(file', o)
      /\ Sound' /\ heap' \in [Ids -> SessionObject]
      /\ cached' = Session
      /\ archived \cup CutOff(a) \subseteq archived' /\ archived' \subseteq Messages
      /\ Visible(o) \subseteq Visible(file') \cup archived'
    <2>1. CutOff(a) \in SUBSET Messages
        BY <1>4, <1>5, MessagesOf
    <2>2. Hidden(o) \subseteq archived \cup CutOff(a)
        BY <1>1, <1>4, <1>5, <1>6
    <2> QED  BY <1>0, <1>1, <1>2, <1>6, <2>1, <2>2, Saved
<1>8. Kept'
    <2>1. said \subseteq Visible(file) \cup archived \cup farewell \cup lost
        BY <1>0 DEF Kept
    <2>2. said' \subseteq Visible(file') \cup archived' \cup farewell' \cup lost'
        BY <1>2, <1>4, <1>5, <1>6, <1>7, <2>1
    <2> QED  BY <2>2 DEF Kept, Visible
<1>9. Types'
    BY <1>0, <1>1, <1>2, <1>3, <1>7 DEF Types
<1>10. Queue'
    BY <1>0, <1>2 DEF Queue
<1>11. TurnHas' /\ AllRecalled'
    BY <1>2 DEF TurnHas, AllRecalled
<1>12. Held'
    <2>1. CASE ~Awaited
        BY <1>2, <2>1 DEF Held, Awaited
    <2>2. CASE Awaited
        <3>1. /\ lock # <<>> /\ cached # 0 /\ job.obj = cached /\ job.step # "idle"
              /\ Head(lock) # "idle" /\ MovesCursor(job, file)
            BY <1>0, <1>2, <2>2 DEF Held, Harmless
        <3>2. heap[job.obj] = file /\ Session = cached
            BY <1>0, <3>1 DEF Sound, Session
        <3>3. Len(file.messages) + 2 <= Limit
            BY <1>2, <2>2, <3>2 DEF Harmless
        <3>4. Limit \in Nat /\ Len(file.messages) \in Nat
            BY <1>1, MemoryAssumption DEF Good, SessionObject
        <3>5. Len(a.messages) <= Limit /\ b = a
            <4>1. Len(a.messages) <= Limit
                BY <1>4, <3>3, <3>4
            <4> QED  BY <4>1 DEF Capped, b
        <3>6. Len(o.messages) = Len(file.messages) + 2 /\ Len(o.messages) <= Limit
            BY <1>4, <1>6, <3>3, <3>4, <3>5
        <3>7. file' = o
            BY <1>7, <3>6 DEF Capped
        <3>8. \A i \in 1..Len(file.messages) + 1 : o.messages[i] = a.messages[i]
            BY <1>4, <1>6, <3>5
        <3>9. Len(file.messages) + 1 \in UsersIn(o.messages)
            <4>1. Len(file.messages) + 1 \in 1..Len(a.messages) /\ Len(file.messages) + 1 \in 1..Len(o.messages)
                BY <1>4, <3>4, <3>6
            <4>2. a.messages \in Seq(Messages) /\ o.messages \in Seq(Messages)
                BY <1>4, <1>6 DEF Good, SessionObject
            <4> QED  BY <1>4, <3>4, <3>8, <4>1, <4>2, UsersAt
        <3>10. MovesCursor(job', file')
            <4>1. /\ o.cursor = file.cursor /\ Len(file.messages) < Len(o.messages)
                  /\ \A i \in 1..Len(file.messages) : o.messages[i] = file.messages[i]
                BY <1>4, <1>6, <3>4, <3>5, <3>6, <3>8
            <4>2. MovesCursor(job, o)
                BY <1>1, <1>6, <3>1, <3>9, <4>1, MovesOn
            <4> QED  BY <1>2, <3>7, <4>2
        <3>11. MovesCursor(job, file)'
            BY <3>10 DEF MovesCursor, UsersIn
        <3>12. Head(lock) # "turn"
            BY <1>0, <1>2, <3>1, QueueShrinks
        <3> QED  BY <1>2, <1>7, <3>1, <3>2, <3>11, <3>12 DEF Held
    <2> QED  BY <2>1, <2>2
<1>13. Ended'
    <2>1. \A x \in cleared : x[1] # c
        BY <1>0, <1>2 DEF Ended
    <2>2. \A x \in Elems(o.messages) : x \notin cleared
        <3>1. \A x \in Elems(file.messages) : x \notin cleared
            BY <1>0 DEF Ended, Elems
        <3>2. m0 \notin cleared /\ m1 \notin cleared
            BY <1>3, <2>1
        <3> QED  BY <1>4, <1>5, <1>6, <3>1, <3>2
    <2>3. \A i \in 1..Len(file'.messages) : file'.messages[i] \notin cleared'
        BY <1>2, <1>7, <2>2 DEF Elems, Shrinks
    <2>4. \A x \in said' \cup cleared' : x[1] \in taken'
        BY <1>0, <1>2, <1>3 DEF Ended
    <2> QED  BY <1>2, <2>3, <2>4 DEF Ended
<1> QED  BY <1>7, <1>8, <1>9, <1>10, <1>11, <1>12, <1>13 DEF IInv

\* What is left of a turn that is cancelled: nothing.
LEMMA Cancelled ==
    ASSUME Types, Queue, CancelTurn
    PROVE  /\ turn' \in TurnRecord /\ turn'.pc = "idle" /\ turn'.obj = 0
           /\ lock' \in Seq(Tasks) /\ job' \in JobRecord
           /\ Queue' /\ TurnHas' /\ AllRecalled'
           /\ Awaited' => job' = job
           /\ Awaited' /\ lock # <<>> =>
                  Head(lock) # "turn" /\ lock' # <<>> /\ Head(lock') = Head(lock)
<1>1. turn' \in TurnRecord /\ turn'.pc = "idle" /\ turn'.obj = 0
    BY DEF CancelTurn, NoTurn, TurnRecord
<1>2. /\ lock' \in Seq(Tasks)
      /\ \A i \in 1..Len(lock') : lock'[i] # "turn"
      /\ lock # <<>> /\ Head(lock) # "turn" => lock' # <<>> /\ Head(lock') = Head(lock)
    BY WithoutTurn DEF CancelTurn
<1>3. NoJob \in JobRecord /\ NoJob.step = "none"
    BY DEF NoJob, JobRecord
<1>4. job' \in JobRecord /\ (Awaited' => job' = job)
      /\ (Awaited' /\ lock # <<>> => Head(lock) # "turn")
    BY <1>3 DEF CancelTurn, Types, Awaited
<1>5. Queue' /\ TurnHas' /\ AllRecalled'
    BY <1>1, <1>2 DEF Queue, TurnHas, AllRecalled
<1> QED  BY <1>1, <1>2, <1>4, <1>5

LEMMA StopStep ==
    ASSUME IInv, Stop
    PROVE  IInv'
<1>0. Types /\ Sound /\ Kept /\ Queue /\ TurnHas /\ Held /\ Ended /\ AllRecalled
    BY DEF IInv
<1>1. /\ CancelTurn /\ HeapIs(heap)
      /\ UNCHANGED <<cached, file, archived, farewell, taken, said, cleared, lost>>
    BY DEF Stop
<1>2. /\ turn' \in TurnRecord /\ turn'.pc = "idle"
      /\ lock' \in Seq(Tasks) /\ job' \in JobRecord
      /\ Queue' /\ TurnHas' /\ AllRecalled'
      /\ Awaited' => job' = job
      /\ Awaited' /\ lock # <<>> =>
             Head(lock) # "turn" /\ lock' # <<>> /\ Head(lock') = Head(lock)
    BY <1>0, <1>1, Cancelled
<1>3. /\ AllGood(heap', archived)
      /\ \A i \in Ids : i \in {cached', turn'.obj, job'.obj} => heap'[i] = heap[i]
    BY <1>0, <1>1, LookUp, HeapKeeps
<1>4. Sound'
    <2>1. cached' # 0 => heap'[cached'] = file'
        BY <1>0, <1>1, <1>3 DEF Sound, Types
    <2> QED  BY <1>0, <1>1, <1>3, <2>1 DEF Sound, AllGood, Good, Hidden
<1>5. Types'
    BY <1>0, <1>1, <1>2, <1>3 DEF Types, AllGood
<1>6. Kept'
    BY <1>0, <1>1 DEF Kept, Visible
<1>7. Held'
    <2>1. CASE ~Awaited'
        BY <2>1 DEF Held
    <2>2. CASE Awaited'
        <3>1. job' = job /\ Awaited
            BY <1>2, <2>2 DEF Awaited
        <3>2. lock # <<>>
            BY <1>0, <3>1 DEF Held
        <3> QED  BY <1>0, <1>1, <1>2, <2>2, <3>1, <3>2, HeldStays
    <2> QED  BY <2>1, <2>2
<1>8. Ended'
    BY <1>0, <1>1, <1>2 DEF Ended
<1> QED  BY <1>2, <1>4, <1>5, <1>6, <1>7, <1>8 DEF IInv

LEMMA NewStep ==
    ASSUME Racing = {}, IInv, NEW n, New(n)
    PROVE  IInv'
<1>0. Types /\ Sound /\ Kept /\ Queue /\ TurnHas /\ Held /\ Ended /\ AllRecalled
    BY DEF IInv
<1>1. /\ Quiet /\ CancelTurn /\ taken' = taken \cup {n}
      /\ farewell' = farewell \cup ToSet(Tail_(Heap[Session]))
      /\ cleared' = cleared \cup said
      /\ file' = Fresh /\ cached' = 0
      /\ UNCHANGED <<archived, said, lost>>
      /\ HeapIs([Heap EXCEPT ![Session] = Fresh])
    BY DEF New
<1>2. Heap[Session] = file /\ Session \in Ids /\ AllGood(Heap, archived) /\ Good(file)
    BY <1>0, LookUp DEF Sound
<1>3. /\ turn' \in TurnRecord /\ turn'.pc = "idle"
      /\ lock' \in Seq(Tasks) /\ job' \in JobRecord
      /\ Queue' /\ TurnHas' /\ AllRecalled'
      /\ Awaited' => job' = job
      /\ Awaited' /\ lock # <<>> => Head(lock) # "turn"
    BY <1>0, <1>1, Cancelled
<1>4. ToSet(Tail_(file)) = Visible(file) /\ Visible(file) \subseteq Messages
    <2>1. Tail_(file) \in Seq(Messages) /\ Visible(file) = Elems(Tail_(file))
        BY <1>2, TailFacts
    <2>2. ToSet(Tail_(file)) = Elems(Tail_(file))
        BY <2>1 DEF ToSet, Elems
    <2> QED  BY <1>2, <2>1, <2>2, MessagesOf
<1>5. Good(Fresh) /\ Hidden(Fresh) = {} /\ Visible(Fresh) = {} /\ Elems(Fresh.messages) = {}
    BY FreshGood
<1>6. AllGood(heap', archived)
    <2>1. AllGood([Heap EXCEPT ![Session] = Fresh], archived)
        BY <1>2, <1>5, HeapWrite
    <2> QED  BY <1>1, <2>1, HeapKeeps
<1>7. Sound'
    BY <1>1, <1>5, <1>6 DEF Sound, AllGood, Good, Hidden
<1>8. Types'
    BY <1>0, <1>1, <1>2, <1>3, <1>4, <1>6 DEF Types, AllGood
<1>9. Kept'
    BY <1>0, <1>1, <1>2, <1>4 DEF Kept
<1>10. Held'
    <2>1. ~Awaited'
        BY <1>0, <1>1, <1>3 DEF Awaited, Quiet, Held
    <2> QED  BY <2>1 DEF Held
<1>11. Ended'
    <2>1. \A i \in 1..Len(file'.messages) : file'.messages[i] \notin cleared'
        BY <1>1, <1>5 DEF Elems
    <2>2. \A m \in said' \cup cleared' : m[1] \in taken'
        BY <1>0, <1>1 DEF Ended
    <2> QED  BY <1>3, <2>1, <2>2 DEF Ended
<1> QED  BY <1>3, <1>7, <1>8, <1>9, <1>10, <1>11 DEF IInv

LEMMA FarewellStep ==
    ASSUME IInv, Farewell
    PROVE  IInv'
<1>0. Types /\ Sound /\ Kept /\ Queue /\ TurnHas /\ Held /\ Ended /\ AllRecalled
    BY DEF IInv
<1>1. /\ archived' = archived \cup farewell /\ farewell' = {}
      /\ UNCHANGED <<heap, cached, file, turn, lock, job, taken, said, cleared, lost>>
    BY DEF Farewell
<1>2. Types'
    BY <1>0, <1>1 DEF Types
<1>3. Sound'
    <2>1. Hidden(file) \subseteq archived' /\ \A i \in Ids : Hidden(heap[i]) \subseteq archived'
        BY <1>0, <1>1 DEF Sound
    <2>2. Good(file) /\ \A i \in Ids : Good(heap[i])
        BY <1>0 DEF Sound
    <2>3. /\ Good(file') /\ Hidden(file') \subseteq archived'
          /\ \A i \in Ids : Good(heap'[i]) /\ Hidden(heap'[i]) \subseteq archived'
        BY <1>1, <2>1, <2>2
    <2> QED  BY <1>0, <1>1, <2>3 DEF Sound, Good, Hidden
<1>4. Kept'
    BY <1>0, <1>1 DEF Kept, Visible
<1>5. Queue'
    BY <1>0, <1>1 DEF Queue
<1>6. TurnHas'
    <2>1. turn.pc # "idle" => said \subseteq Visible(heap[turn.obj]) \cup archived' \cup farewell' \cup lost
        BY <1>0, <1>1 DEF TurnHas
    <2> QED  BY <1>0, <1>1, <2>1 DEF TurnHas, Visible, EndOf, Tail_, UsersIn
<1>7. Held'
    BY <1>0, <1>1, HeldStays DEF Held
<1>8. Ended' /\ AllRecalled'
    BY <1>0, <1>1 DEF Ended, AllRecalled
<1> QED  BY <1>2, <1>3, <1>4, <1>5, <1>6, <1>7, <1>8 DEF IInv

LEMMA DeleteStep ==
    ASSUME Racing = {}, IInv, NEW d, Delete(d)
    PROVE  IInv'
<1>0. Types /\ Sound /\ Kept /\ Queue /\ TurnHas /\ Held /\ Ended /\ AllRecalled
    BY DEF IInv
<1>1. /\ turn.pc = "idle" /\ ~Awaited /\ taken' = taken \cup {d}
      /\ file' = Fresh /\ cached' = 0
      /\ cleared' = cleared \cup said
      /\ lost' = lost \cup (said \ (archived \cup farewell))
      /\ UNCHANGED <<turn, lock, job, archived, farewell, said>>
      /\ HeapIs(heap)
    BY DEF Delete
<1>2. Good(Fresh) /\ Hidden(Fresh) = {} /\ Elems(Fresh.messages) = {}
    BY FreshGood
<1>3. AllGood(heap', archived)
    BY <1>0, <1>1, LookUp, HeapKeeps
<1>4. Sound'
    BY <1>1, <1>2, <1>3 DEF Sound, AllGood, Good, Hidden
<1>5. Types'
    BY <1>0, <1>1, <1>3 DEF Types, AllGood
<1>6. Kept'
    BY <1>1 DEF Kept
<1>7. Queue' /\ TurnHas' /\ AllRecalled'
    BY <1>0, <1>1 DEF Queue, TurnHas, AllRecalled
<1>8. Held'
    BY <1>1 DEF Held, Awaited
<1>9. Ended'
    <2>1. \A i \in 1..Len(file'.messages) : file'.messages[i] \notin cleared'
        BY <1>1, <1>2 DEF Elems
    <2>2. \A m \in said' \cup cleared' : m[1] \in taken'
        BY <1>0, <1>1 DEF Ended
    <2> QED  BY <1>1, <2>1, <2>2 DEF Ended
<1> QED  BY <1>4, <1>5, <1>6, <1>7, <1>8, <1>9 DEF IInv

LEMMA CheckExpiredStep ==
    ASSUME Racing = {}, IInv, CheckExpired
    PROVE  IInv'
<1>0. Types /\ Sound /\ Kept /\ Queue /\ TurnHas /\ Held /\ Ended /\ AllRecalled
    BY DEF IInv
<1>1. /\ turn.pc = "idle" /\ lock' = Append(lock, "idle") /\ cached' = Session /\ HeapIs(Heap)
      /\ UNCHANGED <<file, turn, job, archived, farewell, taken, said, cleared, lost>>
    BY DEF CheckExpired
<1>2. Sound' /\ heap' \in [Ids -> SessionObject] /\ cached' \in Ids
    BY <1>0, <1>1, LookedUp
<1>3. /\ lock' \in Seq(Tasks) /\ lock' # <<>> /\ Len(lock') = Len(lock) + 1 /\ Len(lock) \in Nat
      /\ lock'[Len(lock) + 1] = "idle"
      /\ \A i \in 1..Len(lock) : lock'[i] = lock[i]
      /\ lock # <<>> => Head(lock') = Head(lock)
    BY <1>0, <1>1, QueueGrows DEF Tasks
<1>4. Types'
    BY <1>0, <1>1, <1>2, <1>3 DEF Types
<1>5. Kept'
    BY <1>0, <1>1 DEF Kept, Visible
<1>6. Queue'
    <2>1. \A i \in 1..Len(lock) : lock[i] # "turn"
        BY <1>0, <1>1 DEF Queue
    <2>2. \A i \in 1..Len(lock') : lock'[i] # "turn"
        BY <1>3, <2>1
    <2> QED  BY <1>1, <2>2 DEF Queue
<1>7. TurnHas' /\ AllRecalled'
    BY <1>1 DEF TurnHas, AllRecalled
<1>8. Held'
    <2>1. ASSUME Awaited PROVE cached' = cached /\ lock # <<>>
        BY <1>0, <1>1, <2>1 DEF Held, Session
    <2> QED  BY <1>0, <1>1, <1>3, <2>1, HeldStays
<1>9. Ended'
    BY <1>0, <1>1 DEF Ended
<1> QED  BY <1>2, <1>4, <1>5, <1>6, <1>7, <1>8, <1>9 DEF IInv

LEMMA CrashStep ==
    ASSUME IInv, Crash
    PROVE  IInv'
<1>0. Types /\ Sound /\ Kept /\ Queue /\ TurnHas /\ Held /\ Ended /\ AllRecalled
    BY DEF IInv
<1>1. /\ cached' = 0 /\ turn' = NoTurn /\ lock' = <<>> /\ job' = NoJob
      /\ farewell' = {}
      /\ lost' = lost \cup (farewell \ archived)
      /\ heap' = [i \in Ids |-> Fresh]
      /\ UNCHANGED <<file, archived, taken, said, cleared>>
    BY DEF Crash
<1>2. Good(Fresh) /\ Hidden(Fresh) = {} /\ Fresh \in SessionObject
    BY FreshGood DEF Good
<1>3. NoTurn \in TurnRecord /\ NoTurn.pc = "idle" /\ NoJob \in JobRecord /\ NoJob.step = "none"
    BY DEF NoTurn, TurnRecord, NoJob, JobRecord
<1>4. Types'
    BY <1>0, <1>1, <1>2, <1>3 DEF Types
<1>5. Sound'
    BY <1>0, <1>1, <1>2 DEF Sound, Good, Hidden
<1>6. Kept'
    BY <1>0, <1>1 DEF Kept, Visible
<1>7. Queue' /\ TurnHas' /\ AllRecalled' /\ Held'
    BY <1>1, <1>3 DEF Queue, TurnHas, AllRecalled, Held, Awaited
<1>8. Ended'
    BY <1>0, <1>1, <1>3 DEF Ended
<1> QED  BY <1>4, <1>5, <1>6, <1>7, <1>8 DEF IInv

\* What is left when what a session shows is cut at a user message and stands alone.
LEMMA StandsAlone ==
    ASSUME NEW p, Good(p), NEW k \in UsersIn(Tail_(p))
    PROVE  LET o == [messages |-> From(Tail_(p), k), cursor |-> 0]
           IN  /\ Good(o) /\ Hidden(o) = {} /\ EndOf(o, p)
               /\ Visible(p) = Visible(o) \cup {Tail_(p)[i] : i \in 1..k - 1}
               /\ Elems(o.messages) \subseteq Elems(p.messages)
<1> DEFINE t == Tail_(p)
           c == p.cursor
           n == Len(t)
           d == From(t, k)
           o == [messages |-> d, cursor |-> 0]
           q == [messages |-> t, cursor |-> 0]
<1>1. /\ p.messages \in Seq(Messages) /\ c \in Nat /\ c + 1 \in 1..Len(p.messages) + 1
      /\ Len(p.messages) \in Nat
      /\ t = From(p.messages, c + 1)
      /\ t \in Seq(Messages) /\ n = Len(p.messages) - c
      /\ Shape(t) /\ Visible(p) = Elems(t)
    BY TailFacts
<1>2. k \in 1..n /\ n \in Nat
    BY <1>1, UsersAt
<1>3. /\ d \in Seq(Messages) /\ Len(d) = n - k + 1 /\ Shape(d)
      /\ \A i \in 1..n - k + 1 : d[i] = t[k + i - 1]
    <2> HIDE DEF t
    <2>1. k \in 1..Len(t) + 1 /\ k \in UsersIn(t)
        BY <1>2 DEF t
    <2>2. Shape(From(t, k))
        BY <1>1, <2>1, ShapeFrom, MemoryAssumption
    <2>3. /\ From(t, k) \in Seq(Messages) /\ Len(From(t, k)) = Len(t) - k + 1
          /\ \A i \in 1..Len(t) - k + 1 : From(t, k)[i] = t[k + i - 1]
        BY <1>1, <2>1, FromFacts
    <2> QED  BY <2>2, <2>3
<1>4. d # <<>>
    BY <1>2, <1>3
<1>5. 1 \in UsersIn(d) /\ Len(d) \in Nat \ {0}
    BY <1>3, <1>4, ShapeHas
<1>6. o.messages = d /\ o.cursor = 0
    OBVIOUS
<1> HIDE DEF o, d
<1>7. o \in SessionObject
    BY <1>3 DEF o, SessionObject
<1>8. Good(o)
    BY <1>3, <1>5, <1>6, <1>7 DEF Good
<1>9. Tail_(o) = d
    <2>1. Tail_(o) = From(d, 0 + 1)
        BY <1>6 DEF Tail_, From
    <2>2. 1 \in 1..Len(d) + 1
        BY <1>5
    <2>3. /\ From(d, 1) \in Seq(Messages) /\ Len(From(d, 1)) = Len(d) - 1 + 1
          /\ \A i \in 1..Len(d) - 1 + 1 : From(d, 1)[i] = d[1 + i - 1]
        BY <1>3, <2>2, FromFacts
    <2>4. Len(From(d, 1)) = Len(d) /\ \A i \in 1..Len(d) : From(d, 1)[i] = d[i]
        <3>1. Len(d) - 1 + 1 = Len(d) /\ \A i \in 1..Len(d) : 1 + i - 1 = i
            BY <1>5
        <3> QED  BY <2>3, <3>1
    <2> QED  BY <1>3, <2>1, <2>3, <2>4, SameSeq
<1>10. EndOf(o, p)
    <2>1. k \in 1..Len(p.messages) - (c + 1) + 2
        BY <1>1, <1>2
    <2>2. From(From(p.messages, c + 1), k) = From(p.messages, c + 1 + k - 1)
        BY <1>1, <2>1, FromFrom
    <2>3. c + 1 + k - 1 \in c + 1..Len(p.messages) + 1
        <3> HIDE DEF c, n
        <3> QED  BY <1>1, <1>2
    <2> QED  BY <1>1, <1>9, <2>2, <2>3 DEF EndOf, d
<1>11. Hidden(o) = {}
    BY <1>6 DEF Hidden
<1> HIDE DEF t, n, c
<1>12. Elems(t) = Elems(d) \cup {t[i] : i \in 1..k - 1}
    <2>1. ASSUME NEW i \in 1..n PROVE i \in 1..k - 1 \/ t[i] \in Elems(d)
        <3>1. CASE i >= k
            <4>1. i - k + 1 \in 1..n - k + 1 /\ k + (i - k + 1) - 1 = i
                BY <1>2, <3>1
            <4> QED  BY <1>3, <4>1 DEF Elems
        <3>2. CASE i < k
            BY <1>2, <3>2
        <3> QED  BY <1>2, <3>1, <3>2
    <2>2. \A i \in 1..n - k + 1 : k + i - 1 \in 1..n
        BY <1>2
    <2>3. \A i \in 1..k - 1 : i \in 1..n
        BY <1>2
    <2>4. Elems(t) = {t[i] : i \in 1..n} /\ Elems(d) = {d[i] : i \in 1..n - k + 1}
        BY <1>3 DEF Elems, n
    <2>5. ASSUME NEW x \in Elems(d) PROVE x \in Elems(t)
        BY <1>3, <2>2, <2>4
    <2>6. {t[i] : i \in 1..k - 1} \subseteq Elems(t)
        BY <2>3, <2>4
    <2>7. Elems(t) \subseteq Elems(d) \cup {t[i] : i \in 1..k - 1}
        BY <2>1, <2>4
    <2> QED  BY <2>5, <2>6, <2>7
<1>13. Visible(o) = Elems(d)
    BY <1>6 DEF Visible, Elems
<1>14. Elems(d) \subseteq Elems(p.messages)
    <2>1. Elems(t) \subseteq Elems(p.messages)
        BY <1>1, MessagesOf DEF t
    <2> QED  BY <1>12, <2>1
<1>15. /\ Good(o) /\ Hidden(o) = {} /\ EndOf(o, p)
       /\ Visible(p) = Visible(o) \cup {t[i] : i \in 1..k - 1}
       /\ Elems(o.messages) \subseteq Elems(p.messages)
    BY <1>1, <1>6, <1>8, <1>10, <1>11, <1>12, <1>13, <1>14
<1> QED  BY <1>15 DEF o, d, t

\* A session whose whole tail stands alone.
LEMMA TailAlone ==
    ASSUME NEW p, Good(p), Tail_(p) # <<>>
    PROVE  LET o == [messages |-> Tail_(p), cursor |-> 0]
           IN  /\ Good(o) /\ Hidden(o) = {} /\ EndOf(o, p)
               /\ Visible(p) = Visible(o)
               /\ Elems(o.messages) \subseteq Elems(p.messages)
<1> DEFINE t == Tail_(p)
           o == [messages |-> t, cursor |-> 0]
<1>1. t \in Seq(Messages) /\ Shape(t)
    BY TailFacts
<1>2. 1 \in UsersIn(t) /\ Len(t) \in Nat \ {0}
    BY <1>1, ShapeHas
<1>3. From(t, 1) = t
    <2> HIDE DEF t
    <2>1. 1 \in 1..Len(t) + 1
        BY <1>2
    <2>2. /\ From(t, 1) \in Seq(Messages) /\ Len(From(t, 1)) = Len(t) - 1 + 1
          /\ \A i \in 1..Len(t) - 1 + 1 : From(t, 1)[i] = t[1 + i - 1]
        BY <1>1, <2>1, FromFacts
    <2>3. Len(From(t, 1)) = Len(t) /\ \A i \in 1..Len(t) : From(t, 1)[i] = t[i]
        <3>1. Len(t) - 1 + 1 = Len(t) /\ \A i \in 1..Len(t) : 1 + i - 1 = i
            BY <1>2
        <3> QED  BY <2>2, <3>1
    <2> QED  BY <1>1, <2>2, <2>3, SameSeq
<1>4. {t[i] : i \in 1..1 - 1} = {}
    OBVIOUS
<1>5. LET x == [messages |-> From(t, 1), cursor |-> 0]
      IN  /\ Good(x) /\ Hidden(x) = {} /\ EndOf(x, p)
          /\ Visible(p) = Visible(x) \cup {t[i] : i \in 1..1 - 1}
          /\ Elems(x.messages) \subseteq Elems(p.messages)
    BY <1>2, StandsAlone
<1> HIDE DEF t
<1>6. /\ Good(o) /\ Hidden(o) = {} /\ EndOf(o, p)
      /\ Visible(p) = Visible(o) \cup {t[i] : i \in 1..1 - 1}
      /\ Elems(o.messages) \subseteq Elems(p.messages)
    BY <1>3, <1>5
<1> QED  BY <1>4, <1>6 DEF t

LEMMA CompactStep ==
    ASSUME IInv, Compact
    PROVE  IInv'
<1>0. Types /\ Sound /\ Kept /\ Queue /\ TurnHas /\ Held /\ Ended /\ AllRecalled
    BY DEF IInv
<1> DEFINE ms == Tail_(Loaded)
           kept == Retained(ms, Suffix, TRUE)
           keep == Slice(ms, kept)
           o == IF ms = <<>> THEN Loaded ELSE [messages |-> ms, cursor |-> 0]
           chunk == {ms[i] : i \in DOMAIN ms \ kept}
<1>1. /\ lock # <<>> /\ Head(lock) = "idle" /\ ~Awaited
      /\ UNCHANGED <<farewell, taken, said, cleared, lost>>
    BY DEF Compact
<1>2. Loaded = file /\ AllGood(heap, archived) /\ Good(file) /\ Hidden(file) \subseteq archived
    BY <1>0, LookUp DEF Sound
<1>3. \/ kept = DOMAIN ms /\ Leave("idle", heap) /\ Save(heap, Free, o, {})
      \/ /\ kept # DOMAIN ms
         /\ job' = [NoJob EXCEPT !.step = "idle", !.obj = Free, !.keep = keep, !.chunk = chunk]
         /\ cached' = Free /\ UNCHANGED <<file, archived, turn, lock>>
         /\ HeapIs([heap EXCEPT ![Free] = Loaded])
    BY DEF Compact
<1>4. Free \in Ids /\ Free # turn.obj
    BY <1>0, FreeIs
<1>5. turn.pc # "idle" => turn.obj \in Ids /\ EndOf(file, heap[turn.obj]) /\ turn.pc = "lock"
    BY <1>0, <1>1, QueueShrinks DEF TurnHas
<1>6. ms \in Seq(Messages) /\ Shape(ms) /\ DOMAIN ms = 1..Len(ms) /\ Len(ms) \in Nat
    BY <1>2, TailFacts
<1>7. CASE Leave("idle", heap) /\ Save(heap, Free, o, {})
    <2>1. /\ Good(o) /\ Hidden(o) \subseteq archived /\ EndOf(o, file)
          /\ Visible(file) = Visible(o)
          /\ Elems(o.messages) \subseteq Elems(file.messages)
        <3>1. CASE ms = <<>>
            BY <1>2, <3>1, EndOfSelf
        <3>2. CASE ms # <<>>
            <4>1. o = [messages |-> ms, cursor |-> 0]
                BY <3>2
            <4> HIDE DEF o
            <4> QED  BY <1>2, <3>2, <4>1, TailAlone
        <3> QED  BY <3>1, <3>2
    <2>2. TurnStays
        BY <1>7 DEF TurnStays, Leave, Resumes
    <2> HIDE DEF o
    <2>3. /\ cached' = Free /\ heap' \in [Ids -> SessionObject] /\ archived' \subseteq Messages
          /\ Sound' /\ Kept' /\ Ended'
          /\ turn.pc # "idle" =>
                 /\ said' \subseteq Visible(heap'[turn.obj]) \cup archived' \cup farewell' \cup lost'
                 /\ EndOf(file', heap'[turn.obj])
        <3>1. {} \in SUBSET Messages /\ Hidden(o) \subseteq archived \cup {}
              /\ Visible(file) \subseteq Visible(o) \cup {}
            BY <2>1
        <3> QED  BY <1>0, <1>1, <1>4, <1>5, <1>7, <2>1, <2>2, <3>1, Rewritten
    <2>4. /\ turn' \in TurnRecord /\ lock' \in Seq(Tasks) /\ job' \in JobRecord
          /\ Queue' /\ TurnHas' /\ Held' /\ AllRecalled'
        BY <1>0, <1>1, <1>7, <2>3, Left
    <2>5. Types'
        BY <1>0, <1>1, <1>4, <2>3, <2>4 DEF Types
    <2> QED  BY <2>3, <2>4, <2>5 DEF IInv
<1>8. CASE /\ kept # DOMAIN ms
           /\ job' = [NoJob EXCEPT !.step = "idle", !.obj = Free, !.keep = keep, !.chunk = chunk]
           /\ cached' = Free /\ UNCHANGED <<file, archived, turn, lock>>
           /\ HeapIs([heap EXCEPT ![Free] = Loaded])
    <2>1. ms # <<>>
        <3>1. ASSUME ms = <<>> PROVE FALSE
            <4>1. Len(ms) = 0 /\ Suffix \in Nat
                BY <3>1, MemoryAssumption
            <4>2. Len(ms) <= Suffix
                BY <4>1
            <4> QED  BY <1>8, <4>2 DEF Retained
        <3> QED  BY <3>1
    <2>2. PICK k \in UsersIn(ms) : kept = k..Len(ms)
        <3>1. TRUE \in BOOLEAN /\ Suffix \in Nat \ {0}
            BY MemoryAssumption
        <3> HIDE DEF ms
        <3> QED  BY <1>6, <2>1, <3>1, RetainedEnd
    <2>3. k \in 1..Len(ms)
        BY <1>6, <2>2, UsersAt
    <2>4. keep = From(ms, k)
        BY <1>6, <2>2, <2>3, SliceEnd
    <2>5. chunk = {ms[i] : i \in 1..k - 1}
        <3>1. (1..Len(ms)) \ (k..Len(ms)) = 1..k - 1
            BY <1>6, <2>3
        <3> QED  BY <1>6, <2>2, <3>1
    <2>6. keep \in Seq(Messages) /\ chunk \subseteq Messages
        <3>1. From(ms, k) \in Seq(Messages)
            <4>1. k \in 1..Len(ms) + 1
                BY <1>6, <2>3
            <4> QED  BY <1>6, <4>1, FromFacts
        <3>2. \A i \in 1..Len(ms) : ms[i] \in Messages
            BY <1>6
        <3> QED  BY <1>6, <2>4, <3>1, <3>2
    <2> HIDE DEF kept, keep, chunk
    <2>7. /\ job'.step = "idle" /\ job'.obj = Free /\ job'.keep = keep /\ job'.chunk = chunk
          /\ job' \in JobRecord
        <3>1. job' = [step |-> "idle", obj |-> Free, chunk |-> chunk, end |-> 0, keep |-> keep]
            BY <1>8 DEF NoJob
        <3> QED  BY <1>4, <2>6, <3>1 DEF JobRecord
    <2>8. /\ AllGood([heap EXCEPT ![Free] = Loaded], archived)
          /\ [heap EXCEPT ![Free] = Loaded][Free] = Loaded
          /\ \A i \in Ids : i # Free => [heap EXCEPT ![Free] = Loaded][i] = heap[i]
        BY <1>2, <1>4 DEF AllGood, Good
    <2>9. /\ AllGood(heap', archived)
          /\ \A i \in Ids : i \in {cached', turn'.obj, job'.obj} => heap'[i] = [heap EXCEPT ![Free] = Loaded][i]
        BY <1>8, <2>8, HeapKeeps
    <2>10. heap'[Free] = file /\ (turn.pc # "idle" => heap'[turn.obj] = heap[turn.obj])
        BY <1>2, <1>4, <1>5, <1>8, <2>8, <2>9
    <2>11. Sound'
        <3>1. cached' # 0 => heap'[cached'] = file'
            BY <1>8, <2>10
        <3> QED  BY <1>2, <1>8, <2>9, <3>1 DEF Sound, AllGood, Good, Hidden
    <2>12. Types'
        BY <1>0, <1>1, <1>4, <1>8, <2>7, <2>9 DEF Types, AllGood
    <2>13. Kept'
        BY <1>0, <1>1, <1>8 DEF Kept, Visible
    <2>14. Queue' /\ AllRecalled'
        BY <1>0, <1>1, <1>5, <1>8 DEF Queue, AllRecalled
    <2>15. TurnHas'
        <3>1. CASE turn.pc = "idle"
            BY <1>8, <3>1 DEF TurnHas
        <3>2. CASE turn.pc # "idle"
            <4>1. /\ turn.pc = "lock" /\ turn.obj \in Ids /\ turn.of \in Users
                  /\ said \subseteq Visible(heap[turn.obj]) \cup archived \cup farewell \cup lost
                  /\ EndOf(file, heap[turn.obj])
                BY <1>0, <1>5, <3>2 DEF TurnHas
            <4>2. /\ said' \subseteq Visible(heap'[turn'.obj]) \cup archived' \cup farewell' \cup lost'
                  /\ EndOf(file', heap'[turn'.obj])
                BY <1>1, <1>8, <2>10, <3>2, <4>1
            <4> QED  BY <1>8, <4>1, <4>2 DEF TurnHas, EndOf, Visible, Tail_
        <3> QED  BY <3>1, <3>2
    <2>16. Held'
        <3>1. CutsTail(job', Loaded)
            BY <2>2, <2>4, <2>5, <2>7 DEF CutsTail
        <3>2. CutsTail(job', file')
            BY <1>2, <1>8, <3>1
        <3>4. CutsTail(job, file)'
            BY <3>2 DEF CutsTail, UsersIn, Tail_, From
        <3>3. Free # 0
            BY <1>4 DEF Ids
        <3> QED  BY <1>1, <1>8, <2>7, <3>3, <3>4 DEF Held
    <2>17. Ended'
        <3>1. turn'.pc # "idle" => heap'[turn'.obj] = heap[turn.obj]
            BY <1>8, <2>10
        <3> QED  BY <1>0, <1>1, <1>8, <3>1 DEF Ended
    <2> QED  BY <2>11, <2>12, <2>13, <2>14, <2>15, <2>16, <2>17 DEF IInv
<1> QED  BY <1>3, <1>7, <1>8

LEMMA CompactedStep ==
    ASSUME IInv, Compacted
    PROVE  IInv'
<1>0. Types /\ Sound /\ Kept /\ Queue /\ TurnHas /\ Held /\ Ended /\ AllRecalled
    BY DEF IInv
<1> DEFINE o == [messages |-> job.keep, cursor |-> 0]
<1>1. /\ lock # <<>> /\ Head(lock) = "idle" /\ Awaited
      /\ Leave("idle", heap) /\ Save(heap, job.obj, o, job.chunk)
      /\ UNCHANGED <<farewell, taken, said, cleared, lost>>
    BY DEF Compacted
<1>2. /\ cached # 0 /\ job.obj = cached /\ cached \in Ids /\ CutsTail(job, file)
    BY <1>0, <1>1 DEF Held, Types
<1>3. Good(file) /\ job.chunk \in SUBSET Messages
    BY <1>0 DEF Sound, Types, JobRecord
<1>4. PICK k \in UsersIn(Tail_(file)) : /\ job.keep = From(Tail_(file), k)
                                        /\ job.chunk = {Tail_(file)[i] : i \in 1..k - 1}
    BY <1>2 DEF CutsTail
<1>5. o = [messages |-> From(Tail_(file), k), cursor |-> 0]
    BY <1>4
<1> HIDE DEF o
<1>6. /\ Good(o) /\ Hidden(o) = {} /\ EndOf(o, file)
      /\ Visible(file) = Visible(o) \cup job.chunk
      /\ Elems(o.messages) \subseteq Elems(file.messages)
    BY <1>3, <1>4, <1>5, StandsAlone
<1>7. turn.pc # "idle" => turn.obj \in Ids /\ EndOf(file, heap[turn.obj])
    BY <1>0, <1>1, QueueShrinks DEF TurnHas
<1>8. TurnStays
    BY <1>1 DEF TurnStays, Leave, Resumes
<1>9. /\ cached' = cached /\ heap' \in [Ids -> SessionObject] /\ archived' \subseteq Messages
      /\ Sound' /\ Kept' /\ Ended'
      /\ turn.pc # "idle" =>
             /\ said' \subseteq Visible(heap'[turn.obj]) \cup archived' \cup farewell' \cup lost'
             /\ EndOf(file', heap'[turn.obj])
    <2>1. Hidden(o) \subseteq archived \cup job.chunk /\ Visible(file) \subseteq Visible(o) \cup job.chunk
        BY <1>6
    <2> QED  BY <1>0, <1>1, <1>2, <1>3, <1>6, <1>7, <1>8, <2>1, Rewritten
<1>10. /\ turn' \in TurnRecord /\ lock' \in Seq(Tasks) /\ job' \in JobRecord
       /\ Queue' /\ TurnHas' /\ Held' /\ AllRecalled'
    BY <1>0, <1>1, <1>9, Left
<1>11. Types'
    BY <1>0, <1>1, <1>2, <1>9, <1>10 DEF Types
<1> QED  BY <1>9, <1>10, <1>11 DEF IInv

----------------------------------------------------------------------------
(* The theorems.                                                             *)

LEMMA InitIInv == Init => IInv
<1> SUFFICES ASSUME Init PROVE IInv
    OBVIOUS
<1>1. /\ heap = [i \in Ids |-> Fresh] /\ cached = 0 /\ file = Fresh /\ turn = NoTurn
      /\ lock = <<>> /\ job = NoJob
      /\ archived = {} /\ farewell = {} /\ said = {} /\ cleared = {} /\ lost = {}
    BY DEF Init
<1>2. Good(Fresh) /\ Hidden(Fresh) = {} /\ Elems(Fresh.messages) = {} /\ Fresh \in SessionObject
    BY FreshGood DEF Good
<1>3. NoTurn \in TurnRecord /\ NoTurn.pc = "idle" /\ NoJob \in JobRecord /\ NoJob.step = "none"
    BY DEF NoTurn, TurnRecord, NoJob, JobRecord
<1>4. Types
    BY <1>1, <1>2, <1>3 DEF Types
<1>5. Sound
    BY <1>1, <1>2 DEF Sound
<1>6. Kept
    BY <1>1 DEF Kept
<1>7. Queue /\ TurnHas /\ Held /\ AllRecalled
    BY <1>1, <1>3 DEF Queue, TurnHas, Held, Awaited, AllRecalled
<1>8. Ended
    <2>1. \A i \in 1..Len(file.messages) : file.messages[i] \notin cleared
        BY <1>1
    <2> QED  BY <1>1, <1>3, <2>1 DEF Ended
<1> QED  BY <1>4, <1>5, <1>6, <1>7, <1>8 DEF IInv

LEMMA IInvStep ==
    ASSUME Racing = {}, IInv, [Next]_vars
    PROVE  IInv'
<1>1. CASE \E u \in Users : StartTurn(u)
    BY <1>1, StartTurnStep
<1>2. CASE \E t \in Tasks : Consolidate(t)
    BY <1>2, ConsolidateStep
<1>3. CASE \E t \in Tasks, ok \in BOOLEAN : Archive(t, ok)
    BY <1>3, ArchiveStep
<1>4. CASE Persist
    BY <1>4, PersistStep
<1>5. CASE \E n \in 1..MaxReplies : Finish(n)
    BY <1>5, FinishStep
<1>6. CASE \E c \in Commands : Command(c)
    BY <1>6, CommandStep
<1>7. CASE Stop
    BY <1>7, StopStep
<1>8. CASE \E n \in Resets : New(n)
    BY <1>8, NewStep
<1>9. CASE Farewell
    BY <1>9, FarewellStep
<1>10. CASE \E d \in Deletes : Delete(d)
    BY <1>10, DeleteStep
<1>11. CASE CheckExpired
    BY <1>11, CheckExpiredStep
<1>12. CASE Compact
    BY <1>12, CompactStep
<1>13. CASE Compacted
    BY <1>13, CompactedStep
<1>14. CASE Crash
    BY <1>14, CrashStep
<1>15. CASE UNCHANGED vars
    <2>1. /\ UNCHANGED <<heap, cached, file, turn, lock, job>>
          /\ UNCHANGED <<archived, farewell, taken, said, cleared, lost>>
        BY <1>15 DEF vars
    <2>2. Types /\ Sound /\ Kept /\ Queue /\ TurnHas /\ Held /\ Ended /\ AllRecalled
        BY DEF IInv
    <2>3. Types' /\ Kept' /\ Queue' /\ Ended' /\ AllRecalled'
        BY <2>1, <2>2 DEF Types, Kept, Queue, Ended, AllRecalled, Visible
    <2>4. Sound'
        BY <2>1, <2>2 DEF Sound, Good, Hidden
    <2>5. TurnHas'
        BY <2>1, <2>2 DEF TurnHas, Visible, EndOf, Tail_, UsersIn
    <2>6. Held'
        BY <2>1, <2>2, HeldStays DEF Held
    <2> QED  BY <2>3, <2>4, <2>5, <2>6 DEF IInv
<1> QED  BY <1>1, <1>2, <1>3, <1>4, <1>5, <1>6, <1>7, <1>8, <1>9, <1>10, <1>11, <1>12, <1>13,
            <1>14, <1>15 DEF Next

LEMMA Inductive ==
    ASSUME Racing = {}
    PROVE  Spec => []IInv
<1>1. IInv /\ [Next]_vars => IInv'
    BY IInvStep
<1> QED  BY InitIInv, <1>1, PTL DEF Spec

\* A message that was saved is in the session file, in history.jsonl, or with the
\* background archive of /new; only a deletion discards it, or a crash that ends that
\* archive.
THEOREM NotForgotten ==
    ASSUME Racing = {}
    PROVE  Spec => []NothingForgotten
<1>1. IInv => NothingForgotten
    <2> SUFFICES ASSUME IInv PROVE NothingForgotten
        OBVIOUS
    <2>1. Kept /\ Good(file)
        BY DEF IInv, Sound
    <2>2. ToSet(file.messages) = Elems(file.messages)
        BY <2>1 DEF Good, SessionObject, ToSet, Elems
    <2>3. Visible(file) \subseteq Elems(file.messages)
        BY <2>1, MessagesOf
    <2> QED  BY <2>1, <2>2, <2>3 DEF NothingForgotten, Kept
<1> QED  BY <1>1, Inductive, PTL

\* The cursor is inside the session, and hides only what is archived, in the file and
\* in every object that a task may still save.
THEOREM HiddenArchived ==
    ASSUME Racing = {}
    PROVE  Spec => []HiddenIsArchived
<1>1. IInv => HiddenIsArchived
    BY DEF IInv, Sound, Good, Hidden, HiddenIsArchived
<1> QED  BY <1>1, Inductive, PTL

\* A turn replays every earlier chat message that is not archived; only the token
\* budget leaves some of them out of its prompt, and only from the beginning.
THEOREM Recalled ==
    ASSUME Racing = {}
    PROVE  Spec => []AllRecalled
<1>1. IInv => AllRecalled
    BY DEF IInv
<1> QED  BY <1>1, Inductive, PTL

\* What /new or a deletion ended does not come back into the session.
THEOREM StaysFresh ==
    ASSUME Racing = {}
    PROVE  Spec => []FreshAfterNew
<1>1. IInv => FreshAfterNew
    <2> SUFFICES ASSUME IInv PROVE FreshAfterNew
        OBVIOUS
    <2>1. Good(file) /\ (cached # 0 => heap[cached] = file) /\ Ended
        BY DEF IInv, Sound
    <2>2. ToSet(file.messages) = Elems(file.messages)
        BY <2>1 DEF Good, SessionObject, ToSet, Elems
    <2>3. cleared \cap Elems(file.messages) = {}
        BY <2>1 DEF Ended, Elems
    <2> QED  BY <2>1, <2>2, <2>3 DEF FreshAfterNew
<1> QED  BY <1>1, Inductive, PTL
=============================================================================
