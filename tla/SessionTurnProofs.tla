-------------------------- MODULE SessionTurnProofs --------------------------
(***************************************************************************)
(* What the turns leave in the session, for any messages, commands, resets *)
(* and number of iterations.                                               *)
(***************************************************************************)
EXTENDS SessionTurn, SequenceTheorems, TLAPS

Session == [messages : Seq(Entries), checkpoint : Seq(Entries), pending : BOOLEAN]

\* A checkpoint restores calls with their results, or an answer.
Restorable(c) ==
    \/ c = <<>>
    \/ Len(c) = 1 /\ c[1].role = "assistant"
    \/ Len(c) = 2 /\ c[1].role = "call" /\ c[2].role = "tool" /\ c[2].of = c[1].of

----------------------------------------------------------------------------
(* Histories. *)

\* Two complete histories in a row are one.
LEMMA PairedConcat ==
    ASSUME NEW g \in Seq(Entries), NEW h \in Seq(Entries), CallsPaired(g), CallsPaired(h)
    PROVE  CallsPaired(g \o h)
<1> DEFINE k == g \o h
<1>1. /\ Len(g) \in Nat /\ Len(h) \in Nat /\ Len(k) = Len(g) + Len(h) /\ DOMAIN k = 1..Len(k)
      /\ \A i \in 1..Len(g) : k[i] = g[i]
      /\ \A i \in 1..Len(h) : k[Len(g) + i] = h[i]
  OBVIOUS
<1> HIDE DEF k
<1>2. ASSUME NEW i \in 1..Len(g)
      PROVE  /\ k[i].role = "call" => i < Len(k) /\ k[i + 1].role = "tool" /\ k[i + 1].of = k[i].of
             /\ k[i].role = "tool" => i > 1 /\ k[i - 1].role = "call" /\ k[i - 1].of = k[i].of
  <2>1. k[i] = g[i] /\ i \in DOMAIN g
    BY <1>1
  <2>2. /\ g[i].role = "call" => i < Len(g) /\ g[i + 1].role = "tool" /\ g[i + 1].of = g[i].of
        /\ g[i].role = "tool" => i > 1 /\ g[i - 1].role = "call" /\ g[i - 1].of = g[i].of
    BY <2>1 DEF CallsPaired
  <2> QED BY <1>1, <2>1, <2>2, SMTT(30)
<1>3. ASSUME NEW j \in 1..Len(h)
      PROVE  LET i == Len(g) + j
             IN  /\ k[i].role = "call" => i < Len(k) /\ k[i + 1].role = "tool" /\ k[i + 1].of = k[i].of
                 /\ k[i].role = "tool" => i > 1 /\ k[i - 1].role = "call" /\ k[i - 1].of = k[i].of
  <2>1. k[Len(g) + j] = h[j] /\ j \in DOMAIN h
    BY <1>1
  <2>2. /\ h[j].role = "call" => j < Len(h) /\ h[j + 1].role = "tool" /\ h[j + 1].of = h[j].of
        /\ h[j].role = "tool" => j > 1 /\ h[j - 1].role = "call" /\ h[j - 1].of = h[j].of
    BY <2>1 DEF CallsPaired
  <2>3. j < Len(h) => k[Len(g) + j + 1] = h[j + 1]
    BY <1>1
  <2>4. j > 1 => k[Len(g) + j - 1] = h[j - 1]
    BY <1>1
  <2> QED BY <1>1, <2>1, <2>2, <2>3, <2>4, SMTT(30)
<1>4. \A i \in 1..Len(k) : i \in 1..Len(g) \/ \E j \in 1..Len(h) : i = Len(g) + j
  <2> SUFFICES ASSUME NEW i \in 1..Len(k), i \notin 1..Len(g)
               PROVE  \E j \in 1..Len(h) : i = Len(g) + j
    OBVIOUS
  <2>1. i - Len(g) \in 1..Len(h) /\ i = Len(g) + (i - Len(g))
    BY <1>1
  <2> QED BY <2>1
<1>5. ASSUME NEW i \in DOMAIN k
      PROVE  /\ k[i].role = "call" => i < Len(k) /\ k[i + 1].role = "tool" /\ k[i + 1].of = k[i].of
             /\ k[i].role = "tool" => i > 1 /\ k[i - 1].role = "call" /\ k[i - 1].of = k[i].of
  <2>1. CASE i \in 1..Len(g)
    BY <2>1, <1>2
  <2>2. CASE i \notin 1..Len(g)
    <3>1. PICK j \in 1..Len(h) : i = Len(g) + j
      BY <1>1, <1>4, <2>2
    <3> QED BY <3>1, <1>3
  <2> QED BY <2>1, <2>2
<1>6. CallsPaired(k)
  BY <1>5 DEF CallsPaired
<1> QED BY <1>6 DEF k

\* A message that is neither a call nor a result.
LEMMA PairedSingle ==
    ASSUME NEW m \in Entries, m.role \in {"user", "assistant"}
    PROVE  CallsPaired(<<m>>) /\ <<m>> \in Seq(Entries)
BY DEF CallsPaired

\* A call with its result.
LEMMA PairedCall ==
    ASSUME NEW c \in Entries, NEW r \in Entries, c.role = "call", r.role = "tool", r.of = c.of
    PROVE  CallsPaired(<<c, r>>) /\ <<c, r>> \in Seq(Entries)
BY DEF CallsPaired

\* The same after another history.
LEMMA PairedAppend ==
    ASSUME NEW h \in Seq(Entries), NEW m \in Entries, m.role \in {"user", "assistant"},
           CallsPaired(h)
    PROVE  CallsPaired(Append(h, m))
<1>1. Append(h, m) = h \o <<m>>
  OBVIOUS
<1> QED BY <1>1, PairedSingle, PairedConcat

\* Two user messages in a row only at the positions of C.
AlternatingBut(h, C) ==
    \A i \in 1..Len(h) - 1 : VisibleUser(h[i]) /\ VisibleUser(h[i + 1]) => i \in C

\* Histories that can follow each other.
Meets(g, h) ==
    g = <<>> \/ h = <<>> \/ ~VisibleUser(g[Len(g)]) \/ ~VisibleUser(h[1])

LEMMA AnsweredMeets ==
    ASSUME NEW g \in Seq(Entries), NEW h, LastRole(g) # "user"
    PROVE  Meets(g, h)
BY DEF LastRole, Meets, VisibleUser

\* More positions allow more.
LEMMA AlternatingMore ==
    ASSUME NEW h, NEW C, NEW D, C \subseteq D, AlternatingBut(h, C)
    PROVE  AlternatingBut(h, D)
BY DEF AlternatingBut

\* Histories meet where not both have a user message, or at a position of C.
LEMMA AlternatingConcat ==
    ASSUME NEW g \in Seq(Entries), NEW h \in Seq(Entries), NEW C,
           AlternatingBut(g, C), AlternatingBut(h, {}),
           Meets(g, h) \/ Len(g) \in C
    PROVE  AlternatingBut(g \o h, C)
<1> DEFINE k == g \o h
<1>1. /\ Len(g) \in Nat /\ Len(h) \in Nat /\ Len(k) = Len(g) + Len(h)
      /\ \A i \in 1..Len(g) : k[i] = g[i]
      /\ \A i \in 1..Len(h) : k[Len(g) + i] = h[i]
  OBVIOUS
<1> HIDE DEF k
<1>2. ASSUME NEW i \in 1..Len(k) - 1, VisibleUser(k[i]), VisibleUser(k[i + 1]) PROVE i \in C
  <2>1. CASE i < Len(g)
    <3>1. i \in 1..Len(g) - 1 /\ k[i] = g[i] /\ k[i + 1] = g[i + 1]
      BY <1>1, <2>1
    <3>2. VisibleUser(g[i]) /\ VisibleUser(g[i + 1])
      BY <1>2, <3>1
    <3> QED BY <3>1, <3>2 DEF AlternatingBut
  <2>2. CASE i = Len(g)
    <3>1. k[i] = g[Len(g)] /\ k[i + 1] = h[1] /\ g # <<>> /\ h # <<>>
      BY <1>1, <2>2
    <3>2. VisibleUser(g[Len(g)]) /\ VisibleUser(h[1])
      BY <1>2, <3>1
    <3> QED BY <2>2, <3>1, <3>2 DEF Meets
  <2>3. CASE i > Len(g)
    <3> DEFINE j == i - Len(g)
    <3>1. j \in 1..Len(h) - 1 /\ j + 1 \in 1..Len(h) /\ i = Len(g) + j /\ i + 1 = Len(g) + (j + 1)
      BY <1>1, <2>3
    <3> HIDE DEF j
    <3>2. k[Len(g) + j] = h[j] /\ k[Len(g) + (j + 1)] = h[j + 1]
      <4>1. j \in 1..Len(h)
        BY <1>1, <3>1
      <4>2. \A n \in 1..Len(h) : k[Len(g) + n] = h[n]
        BY <1>1
      <4> QED BY <3>1, <4>1, <4>2
    <3>3. k[i] = h[j] /\ k[i + 1] = h[j + 1]
      BY <3>1, <3>2
    <3>4. VisibleUser(h[j]) /\ VisibleUser(h[j + 1])
      BY <1>2, <3>3
    <3> QED BY <3>1, <3>4 DEF AlternatingBut
  <2> QED BY <1>1, <2>1, <2>2, <2>3
<1> QED BY <1>2 DEF AlternatingBut, k

\* Where the user messages of a history are, when another follows it.
LEMMA UsersConcat ==
    ASSUME NEW g \in Seq(Entries), NEW h \in Seq(Entries)
    PROVE  UsersIn(g) \subseteq UsersIn(g \o h)
<1> DEFINE k == g \o h
<1>1. DOMAIN g \subseteq DOMAIN k /\ \A i \in DOMAIN g : k[i] = g[i]
  OBVIOUS
<1> HIDE DEF k
<1>2. UsersIn(g) \subseteq UsersIn(k)
  BY <1>1 DEF UsersIn
<1> QED BY <1>2 DEF k

\* The history after a message that the turn stores.
LEMMA UsersAppend ==
    ASSUME NEW h \in Seq(Entries), NEW m \in Entries
    PROVE  /\ UsersIn(h) \subseteq UsersIn(Append(h, m))
           /\ m.role = "user" => m.of \subseteq UsersIn(Append(h, m))
<1> DEFINE k == Append(h, m)
<1>1. /\ DOMAIN h \subseteq DOMAIN k /\ \A i \in DOMAIN h : k[i] = h[i]
      /\ Len(k) \in DOMAIN k /\ k[Len(k)] = m
  OBVIOUS
<1> HIDE DEF k
<1>2. UsersIn(h) \subseteq UsersIn(k) /\ (m.role = "user" => m.of \subseteq UsersIn(k))
  BY <1>1 DEF UsersIn
<1> QED BY <1>2 DEF k

----------------------------------------------------------------------------
(* Restoring. *)

\* The overlap found is one, and it is at most the checkpoint.
LEMMA OverlapFound ==
    ASSUME NEW h \in Seq(Entries), NEW c \in Seq(Entries), Len(c) \in {1, 2}
    PROVE  /\ Overlap(h, c) \in 0..Len(c)
           /\ Overlap(h, c) <= Len(h)
           /\ SubSeq(h, Len(h) - Overlap(h, c) + 1, Len(h)) = SubSeq(c, 1, Overlap(h, c))
<1> DEFINE S == {n \in 0..Len(c) : /\ n <= Len(h)
                                   /\ SubSeq(h, Len(h) - n + 1, Len(h)) = SubSeq(c, 1, n)}
<1>1. 0 \in S
  <2>1. SubSeq(h, Len(h) - 0 + 1, Len(h)) = <<>> /\ SubSeq(c, 1, 0) = <<>>
    OBVIOUS
  <2> QED BY <2>1
<1>2. S \subseteq {0, 1, 2} /\ S \subseteq Int
  OBVIOUS
<1>3. Overlap(h, c) = CHOOSE x \in S : \A y \in S : x >= y
  BY DEF Overlap, Max
<1>4. \A n \in S : /\ n \in 0..Len(c) /\ n <= Len(h)
                   /\ SubSeq(h, Len(h) - n + 1, Len(h)) = SubSeq(c, 1, n)
  OBVIOUS
<1> HIDE DEF S
<1>5. \E x \in S : \A y \in S : x >= y
  <2>1. CASE 2 \in S
    BY <2>1, <1>2
  <2>2. CASE 2 \notin S /\ 1 \in S
    BY <2>2, <1>2
  <2>3. CASE 2 \notin S /\ 1 \notin S
    BY <2>3, <1>1, <1>2
  <2> QED BY <2>1, <2>2, <2>3
<1>6. Overlap(h, c) \in S
  BY <1>3, <1>5
<1> QED BY <1>4, <1>6

\* The checkpoint c is appended to the history h, or h already ends with it.
Absorbs(g, h, c) == g = h \o c \/ (g = h /\ h # <<>> /\ LastRole(h) = c[Len(c)].role)

\* What is left of the checkpoint beyond the overlap is all of it or nothing: a
\* part of it would be a call without result at the end of a stored history.
LEMMA OverlapAbsorbs ==
    ASSUME NEW h \in Seq(Entries), NEW c \in Seq(Entries), c # <<>>,
           Restorable(c), CallsPaired(h)
    PROVE  LET g == h \o SubSeq(c, Overlap(h, c) + 1, Len(c))
           IN  Absorbs(g, h, c) /\ g \in Seq(Entries)
<1> DEFINE n == Overlap(h, c)
<1>0. Len(c) \in {1, 2}
  BY DEF Restorable
<1>1. /\ n \in 0..Len(c) /\ n <= Len(h)
      /\ SubSeq(h, Len(h) - n + 1, Len(h)) = SubSeq(c, 1, n)
  BY <1>0, OverlapFound
<1> HIDE DEF n
<1>2. CASE n = 0
  <2>1. SubSeq(c, n + 1, Len(c)) = c
    BY <1>2
  <2>2. h \o c \in Seq(Entries) /\ Absorbs(h \o c, h, c)
    BY DEF Absorbs
  <2> QED BY <2>1, <2>2 DEF n
<1>3. CASE n = Len(c)
  <2>1. SubSeq(c, n + 1, Len(c)) = <<>> /\ h \o <<>> = h
    BY <1>3
  <2>2. SubSeq(h, Len(h) - n + 1, Len(h))[n] = h[Len(h)] /\ SubSeq(c, 1, n)[n] = c[n]
    BY <1>0, <1>1, <1>3
  <2>3. h[Len(h)] = c[Len(c)] /\ h # <<>>
    BY <1>0, <1>1, <1>3, <2>2
  <2>4. Absorbs(h, h, c)
    BY <2>3 DEF Absorbs, LastRole
  <2> QED BY <2>1, <2>4 DEF n
<1>4. CASE n = 1 /\ Len(c) = 2
  <2>1. SubSeq(h, Len(h) - n + 1, Len(h))[1] = h[Len(h)] /\ SubSeq(c, 1, n)[1] = c[1]
    BY <1>1, <1>4
  <2>2. h[Len(h)].role = "call" /\ Len(h) \in DOMAIN h
    BY <1>1, <1>4, <2>1 DEF Restorable
  <2>3. Len(h) < Len(h)
    BY <2>2 DEF CallsPaired
  <2>4. Len(h) \in Nat
    OBVIOUS
  <2> QED BY <2>3, <2>4
<1>5. n = 0 \/ n = Len(c) \/ (n = 1 /\ Len(c) = 2)
  <2>1. n \in 0..Len(c)
    BY <1>1
  <2>2. CASE Len(c) = 1
    BY <2>1, <2>2
  <2>3. CASE Len(c) = 2
    BY <2>1, <2>3
  <2> QED BY <1>0, <2>2, <2>3
<1> QED BY <1>2, <1>3, <1>4, <1>5

\* Restoring a checkpoint.
LEMMA CheckpointRestored ==
    ASSUME NEW s \in Session, Restorable(s.checkpoint), CallsPaired(s.messages)
    PROVE  /\ RestoreCheckpoint(s) \in Session
           /\ RestoreCheckpoint(s).checkpoint = <<>>
           /\ s.checkpoint = <<>> => RestoreCheckpoint(s) = s
           /\ s.checkpoint # <<>> =>
                 /\ RestoreCheckpoint(s).pending = FALSE
                 /\ Absorbs(RestoreCheckpoint(s).messages, s.messages, s.checkpoint)
<1>1. CASE s.checkpoint = <<>>
  BY <1>1 DEF RestoreCheckpoint
<1>2. CASE s.checkpoint # <<>>
  <2> DEFINE g == s.messages \o SubSeq(s.checkpoint, Overlap(s.messages, s.checkpoint) + 1,
                                       Len(s.checkpoint))
  <2>1. RestoreCheckpoint(s) = [messages |-> g, checkpoint |-> <<>>, pending |-> FALSE]
    BY <1>2 DEF RestoreCheckpoint
  <2>2. s.messages \in Seq(Entries) /\ s.checkpoint \in Seq(Entries)
    BY DEF Session
  <2>3. Absorbs(g, s.messages, s.checkpoint) /\ g \in Seq(Entries)
    BY <1>2, <2>2, OverlapAbsorbs
  <2> HIDE DEF g
  <2>4. RestoreCheckpoint(s) \in Session
    BY <2>1, <2>3 DEF Session
  <2> QED BY <1>2, <2>1, <2>3, <2>4
<1> QED BY <1>1, <1>2

----------------------------------------------------------------------------
(* What the runner has appended so far. *)

\* What may join a turn.
Joining == Users \cup Results \cup Continuations

\* Complete, alternating, and not begun by a user message: what joins at the
\* beginning becomes part of the turn's own input.
RunPart(r) ==
    /\ r \in Seq(Entries)
    /\ CallsPaired(r)
    /\ AlternatingBut(r, {})
    /\ r # <<>> => ~VisibleUser(r[1])
    /\ \A i \in DOMAIN r : r[i].role = "user" => r[i].of \subseteq Joining

\* An element of two histories in a row is one of either.
LEMMA EitherPart ==
    ASSUME NEW g \in Seq(Entries), NEW h \in Seq(Entries)
    PROVE  \A i \in DOMAIN (g \o h) : \/ i \in DOMAIN g /\ (g \o h)[i] = g[i]
                                     \/ \E j \in DOMAIN h : (g \o h)[i] = h[j]
<1> SUFFICES ASSUME NEW i \in DOMAIN (g \o h), i \notin DOMAIN g
             PROVE  \E j \in DOMAIN h : (g \o h)[i] = h[j]
  OBVIOUS
<1>1. i - Len(g) \in DOMAIN h /\ (g \o h)[i] = h[i - Len(g)]
  OBVIOUS
<1> QED BY <1>1

\* The answer of the model, an error or a placeholder.
LEMMA RunText ==
    ASSUME NEW r, RunPart(r), NEW m \in Entries, m.role = "assistant"
    PROVE  RunPart(Append(r, m)) /\ LastRole(Append(r, m)) = "assistant"
<1>0. r \in Seq(Entries)
  BY DEF RunPart
<1>1. CallsPaired(Append(r, m))
  BY <1>0, PairedAppend DEF RunPart
<1>2. AlternatingBut(Append(r, m), {})
  <2>1. Append(r, m) = r \o <<m>> /\ <<m>> \in Seq(Entries) /\ <<m>>[1] = m /\ <<m>> # <<>>
    BY <1>0
  <2>2. AlternatingBut(<<m>>, {}) /\ Meets(r, <<m>>)
    BY <2>1 DEF AlternatingBut, Meets, VisibleUser
  <2> DEFINE h == <<m>>
  <2> HIDE DEF h
  <2>3. AlternatingBut(r \o h, {})
    BY <1>0, <2>1, <2>2, AlternatingConcat DEF RunPart, h
  <2> QED BY <2>1, <2>3 DEF h
<1>3. /\ Append(r, m) \in Seq(Entries)
      /\ Append(r, m) # <<>>
      /\ Append(r, m)[Len(Append(r, m))] = m
      /\ Append(r, m)[1] = IF r = <<>> THEN m ELSE r[1]
  BY <1>0
<1>4. \A i \in DOMAIN Append(r, m) : \/ i \in DOMAIN r /\ Append(r, m)[i] = r[i]
                                     \/ Append(r, m)[i] = m
  BY <1>0
<1>5. ~VisibleUser(Append(r, m)[1])
  BY <1>3 DEF RunPart, VisibleUser
<1> QED BY <1>1, <1>2, <1>3, <1>4, <1>5 DEF RunPart, LastRole

\* A call and its result.
LEMMA RunTools ==
    ASSUME NEW r, RunPart(r), NEW c \in Entries, NEW t \in Entries,
           c.role = "call", t.role = "tool", t.of = c.of
    PROVE  RunPart(Append(Append(r, c), t))
<1> DEFINE h == <<c, t>>
<1>0. r \in Seq(Entries) /\ h \in Seq(Entries) /\ Append(Append(r, c), t) = r \o h
  BY DEF RunPart
<1>1. CallsPaired(h)
  BY PairedCall
<1>2. AlternatingBut(h, {}) /\ h # <<>> /\ h[1] = c /\ ~VisibleUser(c) /\ Meets(r, h)
  BY DEF AlternatingBut, VisibleUser, Meets
<1> HIDE DEF h
<1>3. CallsPaired(r \o h)
  BY <1>0, <1>1, PairedConcat DEF RunPart
<1>4. AlternatingBut(r \o h, {})
  BY <1>0, <1>2, AlternatingConcat DEF RunPart
<1>5. r \o h \in Seq(Entries) /\ (r \o h)[1] = IF r = <<>> THEN c ELSE r[1]
  BY <1>0, <1>2
<1>6. \A j \in DOMAIN h : h[j].role # "user"
  BY DEF h
<1>7. \A i \in DOMAIN (r \o h) : (r \o h)[i].role = "user" => (r \o h)[i].of \subseteq Joining
  BY <1>0, <1>6, EitherPart DEF RunPart
<1>8. ~VisibleUser((r \o h)[1])
  BY <1>2, <1>5 DEF RunPart
<1> QED BY <1>0, <1>3, <1>4, <1>5, <1>7, <1>8 DEF RunPart

\* An answer, and the request to go on.
LEMMA RunGoOn ==
    ASSUME NEW r, RunPart(r), NEW m \in Entries, NEW u \in Entries,
           m.role = "assistant", u.role = "user", u.of \subseteq Joining
    PROVE  RunPart(r \o <<m, u>>)
<1> DEFINE h == <<m, u>>
<1>0. r \in Seq(Entries) /\ h \in Seq(Entries)
  BY DEF RunPart
<1>1. CallsPaired(h)
  BY DEF CallsPaired
<1>2. AlternatingBut(h, {}) /\ h # <<>> /\ h[1] = m /\ ~VisibleUser(m) /\ Meets(r, h)
  BY DEF AlternatingBut, VisibleUser, Meets
<1> HIDE DEF h
<1>3. CallsPaired(r \o h)
  BY <1>0, <1>1, PairedConcat DEF RunPart
<1>4. AlternatingBut(r \o h, {})
  BY <1>0, <1>2, AlternatingConcat DEF RunPart
<1>5. r \o h \in Seq(Entries) /\ (r \o h)[1] = IF r = <<>> THEN m ELSE r[1]
  BY <1>0, <1>2
<1>6. \A j \in DOMAIN h : h[j].role = "user" => h[j].of \subseteq Joining
  BY DEF h
<1>7. \A i \in DOMAIN (r \o h) : (r \o h)[i].role = "user" => (r \o h)[i].of \subseteq Joining
  BY <1>0, <1>6, EitherPart DEF RunPart
<1>8. ~VisibleUser((r \o h)[1])
  BY <1>2, <1>5 DEF RunPart
<1>9. RunPart(r \o h)
  BY <1>3, <1>4, <1>5, <1>7, <1>8 DEF RunPart
<1> QED BY <1>9 DEF h

\* The last message, into which a follow-up is merged.
Merge(r, m) == [r EXCEPT ![Len(r)].of = @ \cup {m}]

\* Another last message.
LEMMA LastReplaced ==
    ASSUME NEW S, NEW r \in Seq(S), r # <<>>, NEW e \in S
    PROVE  /\ [r EXCEPT ![Len(r)] = e] \in Seq(S)
           /\ Len([r EXCEPT ![Len(r)] = e]) = Len(r)
           /\ DOMAIN [r EXCEPT ![Len(r)] = e] = DOMAIN r
           /\ [r EXCEPT ![Len(r)] = e][Len(r)] = e
           /\ \A i \in DOMAIN r : i # Len(r) => [r EXCEPT ![Len(r)] = e][i] = r[i]
<1>1. Len(r) \in 1..Len(r) /\ DOMAIN r = 1..Len(r)
  OBVIOUS
<1> QED BY <1>1, ExceptSeq

\* A follow-up that joins is merged, or a message of its own.
LEMMA JoinCases ==
    ASSUME NEW r \in Seq(Entries), NEW m \in Joining
    PROVE  \/ m \notin Results /\ r = <<>> /\ WithJoined(r, m) = r
           \/ /\ m \notin Results /\ r # <<>> /\ VisibleUser(r[Len(r)])
              /\ WithJoined(r, m) = Merge(r, m)
           \/ /\ WithJoined(r, m) = r \o <<User({m})>> /\ <<User({m})>> \in Seq(Entries)
              /\ Meets(r, <<User({m})>>)
              /\ r = <<>> => ~VisibleUser(User({m}))
<1>1. CASE m \notin Results /\ r = <<>>
  BY <1>1 DEF WithJoined
<1>2. CASE m \notin Results /\ r # <<>> /\ VisibleUser(r[Len(r)])
  BY <1>2 DEF WithJoined, Merge
<1>3. CASE m \in Results \/ (r # <<>> /\ ~VisibleUser(r[Len(r)]))
  <2>1. PICK e : e = User({m})
    OBVIOUS
  <2>2. e \in Entries /\ e.role = "user" /\ e.of = {m}
    BY <2>1 DEF User, Entries, Joining
  <2>3. WithJoined(r, m) = Append(r, e)
    BY <1>3, <2>1 DEF WithJoined
  <2>4. Append(r, e) = r \o <<e>> /\ <<e>> \in Seq(Entries) /\ <<e>>[1] = e
    BY <2>2
  <2>5. m \in Results => ~VisibleUser(e)
    BY <2>2 DEF VisibleUser
  <2>6. Meets(r, <<e>>) /\ (r = <<>> => ~VisibleUser(e))
    BY <1>3, <2>4, <2>5 DEF Meets
  <2> QED BY <2>1, <2>3, <2>4, <2>6
<1> QED BY <1>1, <1>2, <1>3

\* Merging leaves everything else as it is.
LEMMA Merged ==
    ASSUME NEW r, RunPart(r), NEW m \in Joining \ Results, r # <<>>, VisibleUser(r[Len(r)]),
           NEW h, h = Merge(r, m)
    PROVE  /\ h \in Seq(Entries) /\ Len(h) = Len(r) /\ DOMAIN h = DOMAIN r
           /\ \A i \in DOMAIN r : /\ h[i].role = r[i].role
                                  /\ r[i].role # "user" => h[i] = r[i]
                                  /\ VisibleUser(h[i]) => VisibleUser(r[i])
                                  /\ h[i].role = "user" => h[i].of \subseteq Joining
<1>0. r \in Seq(Entries)
  BY DEF RunPart
<1>1. PICK e : e = [r[Len(r)] EXCEPT !.of = @ \cup {m}]
  OBVIOUS
<1>2. Len(r) \in DOMAIN r /\ r[Len(r)] \in Entries /\ r[Len(r)].role = "user" /\ Len(r) \in Nat
  BY <1>0 DEF VisibleUser
<1>3. r[Len(r)].of \subseteq Joining /\ r[Len(r)].of \cup {m} \subseteq Joining
  BY <1>2 DEF RunPart
<1>4. e.role = "user" /\ e.of \subseteq Joining /\ e \in Entries
  <2>1. r[Len(r)].of \cup {m} \in SUBSET (Users \cup Commands \cup Results \cup Continuations)
    BY <1>3 DEF Joining
  <2> QED BY <1>1, <1>2, <1>3, <2>1 DEF Entries
<1>5. h = [r EXCEPT ![Len(r)] = e]
  BY <1>1 DEF Merge
<1>6. /\ Len(h) = Len(r) /\ DOMAIN h = DOMAIN r /\ h \in Seq(Entries)
      /\ h[Len(r)] = e /\ \A i \in DOMAIN r : i # Len(r) => h[i] = r[i]
  BY <1>0, <1>4, <1>5, LastReplaced
<1> QED BY <1>2, <1>4, <1>6 DEF RunPart

\* A follow-up that joins.
LEMMA RunJoins ==
    ASSUME NEW r, RunPart(r), NEW m \in Joining
    PROVE  RunPart(WithJoined(r, m))
<1>0. r \in Seq(Entries)
  BY DEF RunPart
<1>1. CASE WithJoined(r, m) = r
  BY <1>1
<1>2. CASE /\ m \notin Results /\ r # <<>> /\ VisibleUser(r[Len(r)])
           /\ WithJoined(r, m) = Merge(r, m)
  <2>1. PICK h : h = Merge(r, m)
    OBVIOUS
  <2>2. /\ h \in Seq(Entries) /\ Len(h) = Len(r) /\ DOMAIN h = DOMAIN r
        /\ \A i \in DOMAIN r : /\ h[i].role = r[i].role
                               /\ r[i].role # "user" => h[i] = r[i]
                               /\ VisibleUser(h[i]) => VisibleUser(r[i])
                               /\ h[i].role = "user" => h[i].of \subseteq Joining
    <3>1. m \in Joining \ Results
      BY <1>2
    <3> QED BY <1>2, <2>1, <3>1, Merged
  <2>3. DOMAIN r = 1..Len(r) /\ Len(r) \in Nat
    BY <1>0
  <2>4. CallsPaired(h)
    <3> SUFFICES ASSUME NEW i \in DOMAIN r
                 PROVE  /\ h[i].role = "call" => i < Len(h) /\ h[i + 1].role = "tool"
                                                /\ h[i + 1].of = h[i].of
                        /\ h[i].role = "tool" => i > 1 /\ h[i - 1].role = "call"
                                                /\ h[i - 1].of = h[i].of
      BY <2>2 DEF CallsPaired
    <3>1. /\ r[i].role = "call" => i < Len(r) /\ r[i + 1].role = "tool" /\ r[i + 1].of = r[i].of
          /\ r[i].role = "tool" => i > 1 /\ r[i - 1].role = "call" /\ r[i - 1].of = r[i].of
      BY DEF RunPart, CallsPaired
    <3>2. (i < Len(r) => i + 1 \in DOMAIN r) /\ (i > 1 => i - 1 \in DOMAIN r)
      BY <2>3
    <3> QED BY <2>2, <3>1, <3>2
  <2>5. AlternatingBut(h, {})
    <3>1. \A i \in 1..Len(r) - 1 : i \in DOMAIN r /\ i + 1 \in DOMAIN r
      BY <2>3
    <3> QED BY <2>2, <3>1 DEF RunPart, AlternatingBut
  <2>6. ~VisibleUser(h[1])
    <3>1. 1 \in DOMAIN r
      BY <1>0, <1>2
    <3> QED BY <1>2, <2>2, <3>1 DEF RunPart
  <2> QED BY <1>2, <2>1, <2>2, <2>4, <2>5, <2>6 DEF RunPart
<1>3. CASE /\ WithJoined(r, m) = r \o <<User({m})>> /\ <<User({m})>> \in Seq(Entries)
           /\ Meets(r, <<User({m})>>)
           /\ r = <<>> => ~VisibleUser(User({m}))
  <2>1. PICK e : e = User({m})
    OBVIOUS
  <2>2. e.role = "user" /\ e.of = {m}
    BY <2>1 DEF User
  <2>3. PICK h : h = <<e>>
    OBVIOUS
  <2>4. /\ WithJoined(r, m) = r \o h /\ h \in Seq(Entries) /\ Meets(r, h)
        /\ h # <<>> /\ h[1] = e /\ (r = <<>> => ~VisibleUser(e))
    BY <1>3, <2>1, <2>3
  <2>5. CallsPaired(h) /\ AlternatingBut(h, {})
    BY <2>2, <2>3 DEF CallsPaired, AlternatingBut
  <2>6. CallsPaired(r \o h)
    BY <1>0, <2>4, <2>5, PairedConcat DEF RunPart
  <2>7. AlternatingBut(r \o h, {})
    BY <1>0, <2>4, <2>5, AlternatingConcat DEF RunPart
  <2>8. r \o h \in Seq(Entries) /\ (r \o h)[1] = IF r = <<>> THEN e ELSE r[1]
    BY <1>0, <2>4
  <2>9. ~VisibleUser((r \o h)[1])
    BY <2>4, <2>8 DEF RunPart
  <2>10. \A j \in DOMAIN h : h[j].of \subseteq Joining
    BY <2>2, <2>3
  <2>11. \A i \in DOMAIN (r \o h) : (r \o h)[i].role = "user" => (r \o h)[i].of \subseteq Joining
    BY <1>0, <2>4, <2>10, EitherPart DEF RunPart
  <2> QED BY <2>4, <2>6, <2>7, <2>8, <2>9, <2>11 DEF RunPart
<1> QED BY <1>0, <1>1, <1>2, <1>3, JoinCases

----------------------------------------------------------------------------
(* The inductive invariant. *)

\* A history that ends with a user message ends where a continuation was due.
Due(h, C) == LastRole(h) = "user" => Len(h) \in C

\* A session that the next turn can begin with: an unanswered message at its
\* end is marked, so that restoring closes it, or was cut off.
SessionOK(s, C) ==
    /\ s \in Session
    /\ Restorable(s.checkpoint)
    /\ CallsPaired(s.messages)
    /\ AlternatingBut(s.messages, C)
    /\ s.pending \/ Due(s.messages, C)

\* The messages that are about, and the lengths at which a turn was cut.
MessageTypes ==
    /\ taken \subseteq Inputs \cup Results
    /\ queued \subseteq Continuations
    /\ stored \subseteq Users \cup Commands
    /\ cut \subseteq Nat

Types ==
    /\ pc \in {"idle", "build", "reply", "model", "tools", "join", "exhausted", "cut", "save"}
    /\ input \in Inputs \cup {NoInput}
    /\ iteration \in 0..Iterations + 1
    /\ MessageTypes

\* Where the turn is, and with what.
Positions ==
    /\ pc # "idle" => input \in Inputs
    /\ pc = "build" => mem.checkpoint = <<>> /\ ~mem.pending
    /\ pc = "reply" => mem.checkpoint = <<>>
    /\ pc \in {"model", "tools", "join"} => iteration \in 1..Iterations

\* What SaveTurn appends: nothing while the results of its calls are missing.
RunOK ==
    /\ pc = "tools" => /\ run \in Seq(Entries) /\ run # <<>> /\ run[Len(run)] = Call
                       /\ RunPart(SubSeq(run, 1, Len(run) - 1))
    /\ pc # "tools" => RunPart(run)
    /\ pc = "save" => run # <<>> /\ LastRole(run) # "user"

\* The file is behind the memory by a flag that changes nothing at most.
Same ==
    /\ disk \in Session
    /\ disk.messages = mem.messages
    /\ disk.checkpoint = mem.checkpoint
    /\ \/ disk.pending = mem.pending
       \/ mem.checkpoint = <<>> /\ ~mem.pending /\ LastRole(mem.messages) # "user"

Kept == stored \subseteq UsersIn(mem.messages)

IInv == Types /\ Positions /\ SessionOK(mem, cut) /\ Same /\ RunOK /\ Kept

----------------------------------------------------------------------------
(* Sessions. *)

\* Restoring the checkpoint leaves a session that the next turn can begin with.
LEMMA CheckpointRestoredOK ==
    ASSUME NEW s, NEW C, SessionOK(s, C)
    PROVE  /\ SessionOK(RestoreCheckpoint(s), C)
           /\ RestoreCheckpoint(s).checkpoint = <<>>
           /\ UsersIn(s.messages) \subseteq UsersIn(RestoreCheckpoint(s).messages)
           /\ s.checkpoint = <<>> => RestoreCheckpoint(s) = s
           /\ s.checkpoint # <<>> => /\ RestoreCheckpoint(s).pending = FALSE
                                     /\ LastRole(RestoreCheckpoint(s).messages) # "user"
<1>1. /\ RestoreCheckpoint(s) \in Session
      /\ RestoreCheckpoint(s).checkpoint = <<>>
      /\ s.checkpoint = <<>> => RestoreCheckpoint(s) = s
      /\ s.checkpoint # <<>> =>
            /\ RestoreCheckpoint(s).pending = FALSE
            /\ Absorbs(RestoreCheckpoint(s).messages, s.messages, s.checkpoint)
  BY CheckpointRestored DEF SessionOK
<1>2. CASE s.checkpoint = <<>>
  BY <1>1, <1>2
<1>3. CASE s.checkpoint # <<>>
  <2>1. PICK g : g = RestoreCheckpoint(s).messages
    OBVIOUS
  <2>2. PICK h : h = s.messages
    OBVIOUS
  <2>3. PICK c : c = s.checkpoint
    OBVIOUS
  <2>4. /\ g \in Seq(Entries) /\ h \in Seq(Entries) /\ c \in Seq(Entries)
        /\ Absorbs(g, h, c) /\ Restorable(c) /\ c # <<>> /\ CallsPaired(h) /\ AlternatingBut(h, C)
    BY <1>1, <1>3, <2>1, <2>2, <2>3 DEF SessionOK, Session
  <2>5. /\ CallsPaired(c) /\ c[1].role # "user" /\ c[Len(c)].role # "user"
        /\ AlternatingBut(c, {}) /\ Meets(h, c)
    <3>1. CallsPaired(c) /\ c[1].role # "user" /\ c[Len(c)].role # "user"
      BY <2>4 DEF Restorable, CallsPaired
    <3>2. \A i \in 1..Len(c) - 1 : c[i].role # "user"
      BY <2>4 DEF Restorable
    <3> QED BY <3>1, <3>2 DEF AlternatingBut, Meets, VisibleUser
  <2>6. /\ CallsPaired(g) /\ AlternatingBut(g, C) /\ UsersIn(h) \subseteq UsersIn(g)
        /\ LastRole(g) # "user"
    <3>1. CASE g = h \o c
      <4>1. CallsPaired(h \o c) /\ AlternatingBut(h \o c, C) /\ UsersIn(h) \subseteq UsersIn(h \o c)
        BY <2>4, <2>5, PairedConcat, AlternatingConcat, UsersConcat
      <4>2. h \o c # <<>> /\ (h \o c)[Len(h \o c)] = c[Len(c)]
        BY <2>4
      <4> QED BY <2>5, <3>1, <4>1, <4>2 DEF LastRole
    <3>2. CASE g = h /\ h # <<>> /\ LastRole(h) = c[Len(c)].role
      BY <2>4, <2>5, <3>2
    <3> QED BY <2>4, <3>1, <3>2 DEF Absorbs
  <2>7. SessionOK(RestoreCheckpoint(s), C)
    BY <1>1, <2>1, <2>6 DEF SessionOK, Restorable, Due
  <2> QED BY <1>1, <1>3, <2>1, <2>2, <2>6, <2>7
<1> QED BY <1>2, <1>3

\* The session after a message that is not a call or a result.
LEMMA AppendOK ==
    ASSUME NEW s, NEW C, SessionOK(s, C), NEW m \in Entries, m.role \in {"user", "assistant"},
           m.role = "user" => Due(s.messages, C)
    PROVE  /\ Append(s.messages, m) \in Seq(Entries)
           /\ CallsPaired(Append(s.messages, m))
           /\ AlternatingBut(Append(s.messages, m), C)
           /\ LastRole(Append(s.messages, m)) = m.role
           /\ UsersIn(s.messages) \subseteq UsersIn(Append(s.messages, m))
           /\ m.role = "user" => m.of \subseteq UsersIn(Append(s.messages, m))
<1>1. PICK h : h = s.messages
  OBVIOUS
<1>2. h \in Seq(Entries) /\ CallsPaired(h) /\ AlternatingBut(h, C)
  BY <1>1 DEF SessionOK, Session
<1>3. PICK t : t = <<m>>
  OBVIOUS
<1>4. Append(h, m) = h \o t /\ t \in Seq(Entries) /\ t[1] = m
  BY <1>2, <1>3
<1>5. AlternatingBut(t, {}) /\ (Meets(h, t) \/ Len(h) \in C)
  <2>1. AlternatingBut(t, {})
    BY <1>3 DEF AlternatingBut
  <2>2. CASE m.role = "assistant"
    BY <1>4, <2>1, <2>2 DEF Meets, VisibleUser
  <2>3. CASE m.role = "user"
    BY <1>1, <1>2, <2>1, <2>3, AnsweredMeets DEF Due
  <2> QED BY <2>2, <2>3
<1>6. AlternatingBut(h \o t, C)
  BY <1>2, <1>4, <1>5, AlternatingConcat
<1>7. CallsPaired(Append(h, m))
  BY <1>2, PairedAppend
<1>8. /\ UsersIn(h) \subseteq UsersIn(Append(h, m))
      /\ m.role = "user" => m.of \subseteq UsersIn(Append(h, m))
  BY <1>2, UsersAppend
<1>9. /\ Append(h, m) \in Seq(Entries) /\ Append(h, m) # <<>>
      /\ Append(h, m)[Len(Append(h, m))] = m
  BY <1>2
<1> QED BY <1>1, <1>4, <1>6, <1>7, <1>8, <1>9 DEF LastRole

\* What restoring does to the second flag.
LEMMA PendingRestored ==
    ASSUME NEW h, NEW c, NEW p, NEW s, s = [messages |-> h, checkpoint |-> c, pending |-> p]
    PROVE  RestorePending(s) =
               [messages |-> IF p /\ LastRole(h) = "user" THEN Append(h, Closing) ELSE h,
                checkpoint |-> c, pending |-> FALSE]
<1> DEFINE k == IF s.pending /\ LastRole(s.messages) = "user"
                THEN Append(s.messages, Closing) ELSE s.messages
<1>1. RestorePending(s) = [[s EXCEPT !.pending = FALSE] EXCEPT !.messages = k]
  BY DEF RestorePending
<1>2. k = IF p /\ LastRole(h) = "user" THEN Append(h, Closing) ELSE h
  OBVIOUS
<1> HIDE DEF k
<1>3. RestorePending(s) = [messages |-> k, checkpoint |-> c, pending |-> FALSE]
  BY <1>1
<1> QED BY <1>2, <1>3

\* Restoring leaves a session without flags whose last message is answered, or
\* was cut off.
LEMMA RestoredOK ==
    ASSUME NEW s, NEW C, SessionOK(s, C)
    PROVE  /\ SessionOK(Restored(s), C)
           /\ Restored(s).checkpoint = <<>> /\ Restored(s).pending = FALSE
           /\ UsersIn(s.messages) \subseteq UsersIn(Restored(s).messages)
           /\ (s.checkpoint = <<>> /\ ~s.pending) => Restored(s) = s
<1>1. PICK g : g = RestoreCheckpoint(s)
  OBVIOUS
<1>2. /\ SessionOK(g, C) /\ g.checkpoint = <<>> /\ UsersIn(s.messages) \subseteq UsersIn(g.messages)
      /\ s.checkpoint = <<>> => g = s
  BY <1>1, CheckpointRestoredOK
<1>3. Restored(s) = RestorePending(g)
  BY <1>1 DEF Restored
<1>4. /\ g \in Session /\ g.pending \in BOOLEAN
      /\ g = [messages |-> g.messages, checkpoint |-> g.checkpoint, pending |-> g.pending]
  BY <1>2 DEF SessionOK, Session
<1>5. CASE g.pending /\ LastRole(g.messages) = "user"
  <2>1. PICK h : h = Append(g.messages, Closing)
    OBVIOUS
  <2>2. Closing \in Entries /\ Closing.role = "assistant"
    BY DEF Closing, Entries
  <2>3. RestorePending(g) = [messages |-> h, checkpoint |-> <<>>, pending |-> FALSE]
    BY <1>2, <1>4, <1>5, <2>1, PendingRestored
  <2>4. /\ h \in Seq(Entries) /\ CallsPaired(h) /\ AlternatingBut(h, C) /\ LastRole(h) = "assistant"
        /\ UsersIn(g.messages) \subseteq UsersIn(h)
    BY <1>2, <2>1, <2>2, AppendOK
  <2>5. SessionOK(RestorePending(g), C)
    BY <2>3, <2>4 DEF SessionOK, Session, Restorable, Due
  <2> QED BY <1>2, <1>3, <1>5, <2>3, <2>4, <2>5
<1>6. CASE ~(g.pending /\ LastRole(g.messages) = "user")
  <2>1. RestorePending(g) = [messages |-> g.messages, checkpoint |-> <<>>, pending |-> FALSE]
    BY <1>2, <1>4, <1>6, PendingRestored
  <2>2. Due(g.messages, C)
    BY <1>2, <1>6 DEF SessionOK, Due
  <2>3. SessionOK(RestorePending(g), C)
    BY <1>2, <2>1, <2>2 DEF SessionOK, Session, Restorable
  <2> QED BY <1>2, <1>3, <1>4, <2>1, <2>2, <2>3
<1> QED BY <1>5, <1>6

\* The file restores to what the memory restores to.
LEMMA DiskRestored ==
    ASSUME SessionOK(mem, cut), Same
    PROVE  SessionOK(disk, cut) /\ Restored(disk).messages = Restored(mem).messages
<1>1. SessionOK(disk, cut)
  BY DEF SessionOK, Same, Due
<1>2. CASE disk.pending = mem.pending
  <2>1. /\ disk = [messages |-> disk.messages, checkpoint |-> disk.checkpoint, pending |-> disk.pending]
        /\ mem = [messages |-> mem.messages, checkpoint |-> mem.checkpoint, pending |-> mem.pending]
    BY DEF Same, SessionOK, Session
  <2>2. disk = mem
    BY <1>2, <2>1 DEF Same
  <2> QED BY <1>1, <2>2
<1>3. CASE mem.checkpoint = <<>> /\ ~mem.pending /\ LastRole(mem.messages) # "user"
  <2>1. Restored(mem) = mem
    BY <1>3, RestoredOK
  <2>2. RestoreCheckpoint(disk) = disk /\ disk \in Session
    BY <1>3 DEF Same, RestoreCheckpoint
  <2>3. Restored(disk).messages = disk.messages
    BY <1>3, <2>2 DEF Restored, RestorePending, Same, Session
  <2> QED BY <1>1, <2>1, <2>3 DEF Same
<1> QED BY <1>2, <1>3 DEF Same

\* A session saved in memory and on disk.
LEMMA SavedSame ==
    ASSUME NEW C, SessionOK(mem', C), disk' = mem'
    PROVE  Same'
BY DEF Same, SessionOK

----------------------------------------------------------------------------
(* Messages of the turn. *)

\* What the turn writes are messages of the session.
LEMMA TurnMessages ==
    ASSUME Types, pc # "idle", Positions
    PROVE  /\ {Call, Result, Text, Unfinished, GoOn} \subseteq Entries
           /\ Call.role = "call" /\ Result.role = "tool" /\ Text.role = "assistant"
           /\ Unfinished.role = "tool" /\ GoOn.role = "user" /\ GoOn.of = {}
           /\ Result.of = Call.of /\ Unfinished.of = Call.of
           /\ input \in Users \cup Commands =>
                 /\ User({input}) \in Entries
                 /\ User({input}).role = "user" /\ User({input}).of = {input}
<1>1. Reply \in Inputs \X (0..Iterations + 1)
  BY DEF Types, Positions, Reply
<1>2. {Reply} \in (SUBSET (Users \cup Commands \cup Results \cup Continuations))
                    \cup {{r} : r \in Inputs \X (0..Iterations + 1)}
  BY <1>1
<1>3. Call \in Entries /\ Result \in Entries /\ Text \in Entries
  BY <1>2 DEF Entries, Call, Result, Text
<1>4. Unfinished = [role |-> "tool", of |-> {Reply}, text |-> "interrupted"]
  BY DEF Unfinished, Result
<1>5. Unfinished \in Entries
  BY <1>2, <1>4 DEF Entries
<1>6. GoOn \in Entries
  BY DEF Entries, GoOn
<1>7. /\ Call.role = "call" /\ Result.role = "tool" /\ Text.role = "assistant"
      /\ Unfinished.role = "tool" /\ GoOn.role = "user" /\ GoOn.of = {}
      /\ Result.of = Call.of /\ Unfinished.of = Call.of
  BY <1>4 DEF Call, Result, Text, GoOn
<1>8. input \in Users \cup Commands =>
         /\ User({input}) \in Entries
         /\ User({input}).role = "user" /\ User({input}).of = {input}
  BY DEF Entries, User
<1> QED BY <1>3, <1>5, <1>6, <1>7, <1>8

\* The checkpoints of the runner can be restored, and change nothing else.
LEMMA CheckpointOK ==
    ASSUME IInv, NEW c \in Seq(Entries), Restorable(c), Checkpoint(c), UNCHANGED cut
    PROVE  SessionOK(mem, cut)' /\ Same' /\ mem'.messages = mem.messages
<1>1. mem' = [mem EXCEPT !.checkpoint = c] /\ disk' = mem'
  BY DEF Checkpoint, Save
<1>2. mem \in Session
  BY DEF IInv, SessionOK
<1>3. /\ mem' \in Session /\ mem'.messages = mem.messages
      /\ mem'.checkpoint = c /\ mem'.pending = mem.pending
  BY <1>1, <1>2 DEF Session
<1>4. SessionOK(mem', cut)
  BY <1>3 DEF IInv, SessionOK
<1> QED BY <1>1, <1>3, <1>4, SavedSame

\* Nothing of the session changes.
LEMMA SessionUnchanged ==
    ASSUME IInv, UNCHANGED <<mem, disk, cut>>
    PROVE  SessionOK(mem, cut)' /\ Same' /\ mem'.messages = mem.messages
BY DEF IInv, Same

\* Nothing is running.
LEMMA OverOK ==
    ASSUME TurnOver
    PROVE  Positions' /\ RunOK' /\ pc' = "idle" /\ input' = NoInput /\ iteration' = 0
<1>1. RunPart(<<>>)
  BY DEF RunPart, CallsPaired, AlternatingBut
<1> QED BY <1>1 DEF TurnOver, Positions, RunOK

----------------------------------------------------------------------------
(* One lemma per action. *)

LEMMA InitInv == ASSUME Init PROVE IInv
<1>1. mem \in Session /\ SessionOK(mem, cut)
  BY DEF Init, Session, SessionOK, Restorable, CallsPaired, AlternatingBut, Due, LastRole
<1>2. RunPart(run)
  BY DEF Init, RunPart, CallsPaired, AlternatingBut
<1>3. Types /\ Positions /\ Kept
  BY TurnAssumption DEF Init, Types, MessageTypes, Positions, Kept
<1> QED BY <1>1, <1>2, <1>3 DEF IInv, Init, Same, RunOK

LEMMA RestoreInv ==
    ASSUME IInv, NEW u \in Inputs, Restore(u)
    PROVE  IInv'
<1>1. /\ SessionOK(Restored(mem), cut) /\ Restored(mem).checkpoint = <<>>
      /\ Restored(mem).pending = FALSE
      /\ UsersIn(mem.messages) \subseteq UsersIn(Restored(mem).messages)
      /\ (mem.checkpoint = <<>> /\ ~mem.pending) => Restored(mem) = mem
  BY RestoredOK DEF IInv
<1>2. mem' = Restored(mem) /\ cut' = cut
  BY DEF Restore
<1>3. SessionOK(mem, cut)'
  BY <1>1, <1>2
<1>4. Same'
  <2>1. CASE mem.checkpoint # <<>> \/ mem.pending
    BY <1>3, <2>1, SavedSame DEF Restore
  <2>2. CASE ~(mem.checkpoint # <<>> \/ mem.pending)
    <3>1. mem' = mem /\ disk' = disk
      BY <1>1, <1>2, <2>2 DEF Restore
    <3> QED BY <3>1 DEF IInv, Same
  <2> QED BY <2>1, <2>2
<1>5. Types' /\ Positions' /\ RunOK'
  BY <1>1, <1>2 DEF IInv, Types, MessageTypes, Positions, RunOK, Restore
<1>6. Kept'
  BY <1>1, <1>2 DEF IInv, Kept, Restore
<1> QED BY <1>3, <1>4, <1>5, <1>6 DEF IInv

\* Build and Shortcut store the message of the turn.
LEMMA InputStored ==
    ASSUME IInv, pc = "build", input \in Users \cup Commands,
           Save(WithInput(mem)), stored' = stored \cup {input}, UNCHANGED cut
    PROVE  SessionOK(mem, cut)' /\ Same' /\ Kept' /\ mem'.checkpoint = <<>>
<1>1. PICK m : m = User({input})
  OBVIOUS
<1>2. m \in Entries /\ m.role = "user" /\ m.of = {input}
  BY <1>1, TurnMessages DEF IInv
<1>3. PICK h : h = Append(mem.messages, m)
  OBVIOUS
<1>4. mem \in Session /\ mem.checkpoint = <<>> /\ Due(mem.messages, cut)
  BY DEF IInv, Positions, SessionOK
<1>5. /\ h \in Seq(Entries) /\ CallsPaired(h) /\ AlternatingBut(h, cut)
      /\ UsersIn(mem.messages) \subseteq UsersIn(h) /\ {input} \subseteq UsersIn(h)
  BY <1>2, <1>3, <1>4, AppendOK DEF IInv
<1>6. disk' = mem' /\ mem' = WithInput(mem)
  BY DEF Save
<1>7. mem' = [messages |-> h, checkpoint |-> <<>>, pending |-> TRUE]
  <2>1. mem = [messages |-> mem.messages, checkpoint |-> <<>>, pending |-> mem.pending]
    BY <1>4 DEF Session
  <2>2. WithInput(mem) = [[mem EXCEPT !.messages = h] EXCEPT !.pending = TRUE]
    BY <1>1, <1>3 DEF WithInput
  <2>3. [mem EXCEPT !.messages = h]
            = [messages |-> h, checkpoint |-> <<>>, pending |-> mem.pending]
    BY <2>1
  <2> QED BY <1>6, <2>2, <2>3
<1>8. SessionOK(mem', cut)
  BY <1>5, <1>7 DEF SessionOK, Session, Restorable
<1>9. Kept'
  BY <1>5, <1>7 DEF IInv, Kept
<1>10. Same'
  BY <1>6, <1>8, SavedSame
<1>11. SessionOK(mem, cut)'
  BY <1>8
<1> QED BY <1>7, <1>9, <1>10, <1>11

LEMMA BuildInv ==
    ASSUME IInv, Build
    PROVE  IInv'
<1>1. SessionOK(mem, cut)' /\ Same' /\ Kept'
  BY InputStored DEF Build
<1>2. Types' /\ Positions' /\ RunOK'
  BY TurnAssumption DEF Build, IInv, Types, MessageTypes, Positions, RunOK
<1> QED BY <1>1, <1>2 DEF IInv

LEMMA BuildContinuationInv ==
    ASSUME IInv, BuildContinuation
    PROVE  IInv'
<1>1. SessionOK(mem, cut)' /\ Same' /\ mem'.messages = mem.messages
  BY SessionUnchanged DEF BuildContinuation
<1>2. Types' /\ Positions' /\ RunOK'
  BY TurnAssumption DEF BuildContinuation, IInv, Types, MessageTypes, Positions, RunOK
<1> QED BY <1>1, <1>2 DEF IInv, Kept, BuildContinuation

LEMMA ShortcutInv ==
    ASSUME IInv, Shortcut
    PROVE  IInv'
<1>1. SessionOK(mem, cut)' /\ Same' /\ Kept' /\ mem'.checkpoint = <<>>
  BY InputStored DEF Shortcut
<1>2. Types' /\ Positions' /\ RunOK'
  BY <1>1 DEF Shortcut, IInv, Types, MessageTypes, Positions, RunOK
<1> QED BY <1>1, <1>2 DEF IInv

LEMMA ShortcutReplyInv ==
    ASSUME IInv, ShortcutReply
    PROVE  IInv'
<1>1. pc = "reply"
  BY DEF ShortcutReply
<1>2. PICK m : m = Text
  OBVIOUS
<1>3. m \in Entries /\ m.role = "assistant"
  BY <1>1, <1>2, TurnMessages DEF IInv
<1>4. PICK h : h = Append(mem.messages, m)
  OBVIOUS
<1>5. /\ h \in Seq(Entries) /\ CallsPaired(h) /\ AlternatingBut(h, cut) /\ LastRole(h) = "assistant"
      /\ UsersIn(mem.messages) \subseteq UsersIn(h)
  BY <1>3, <1>4, AppendOK DEF IInv
<1>6. /\ mem = [messages |-> mem.messages, checkpoint |-> <<>>, pending |-> mem.pending]
      /\ mem.pending \in BOOLEAN
  BY <1>1 DEF IInv, Positions, SessionOK, Session
<1>7. disk' = [messages |-> h, checkpoint |-> <<>>, pending |-> mem.pending]
  <2>1. disk' = [mem EXCEPT !.messages = h]
    BY <1>2, <1>4 DEF ShortcutReply
  <2> QED BY <1>6, <2>1
<1>8. mem' = [messages |-> h, checkpoint |-> <<>>, pending |-> FALSE]
  <2>1. mem' = [disk' EXCEPT !.pending = FALSE]
    BY DEF ShortcutReply
  <2> QED BY <1>7, <2>1
<1>9. SessionOK(mem, cut)'
  <2>1. SessionOK(mem', cut)
    BY <1>5, <1>8 DEF SessionOK, Session, Restorable, Due
  <2> QED BY <2>1 DEF ShortcutReply
<1>10. Same'
  BY <1>5, <1>6, <1>7, <1>8 DEF Same, Session
<1>11. Types' /\ Positions' /\ RunOK'
  <2>1. Positions' /\ RunOK' /\ pc' = "idle" /\ input' = NoInput /\ iteration' = 0
    BY OverOK DEF ShortcutReply
  <2>2. UNCHANGED <<taken, queued, stored, cut>>
    BY DEF ShortcutReply
  <2> QED BY <2>1, <2>2, TurnAssumption DEF IInv, Types, MessageTypes
<1>12. Kept'
  <2>1. stored' = stored
    BY DEF ShortcutReply
  <2>2. mem'.messages = h
    BY <1>8
  <2> QED BY <1>5, <2>1, <2>2 DEF IInv, Kept
<1> QED BY <1>9, <1>10, <1>11, <1>12 DEF IInv

----------------------------------------------------------------------------
(* The runner. *)

\* Another iteration, or none.
LEMMA NextIterationOK ==
    ASSUME IInv, pc \in {"model", "tools", "join"}, NextIteration, input' = input,
           MessageTypes', RunPart(run')
    PROVE  Types' /\ Positions' /\ RunOK'
<1>1. iteration \in 1..Iterations /\ Iterations \in Nat
  BY TurnAssumption DEF IInv, Positions
<1>2. CASE iteration < Iterations
  BY <1>1, <1>2 DEF IInv, Types, Positions, RunOK, NextIteration
<1>3. CASE ~(iteration < Iterations)
  BY <1>1, <1>3 DEF IInv, Types, Positions, RunOK, NextIteration
<1> QED BY <1>2, <1>3

LEMMA LeaveRunnerOK ==
    ASSUME IInv, pc # "idle", LeaveRunner, input' = input, MessageTypes',
           RunPart(run'), LastRole(run') = "assistant"
    PROVE  Types' /\ Positions' /\ RunOK'
<1>1. run' # <<>>
  BY DEF LastRole
<1> QED BY <1>1 DEF IInv, Types, Positions, RunOK, LeaveRunner

LEMMA TakeFollowUpsOK ==
    ASSUME IInv, pc \in {"model", "tools"}, TakeFollowUps, input' = input, MessageTypes',
           RunPart(run')
    PROVE  Types' /\ Positions' /\ RunOK'
BY DEF IInv, Types, Positions, RunOK, TakeFollowUps

\* No message begins a turn, joins one, or is stored.
LEMMA NoMessage ==
    ASSUME IInv, UNCHANGED <<taken, queued, stored, cut>>
    PROVE  MessageTypes'
BY DEF IInv, Types, MessageTypes

LEMMA KeptOK ==
    ASSUME IInv, mem'.messages = mem.messages, UNCHANGED stored
    PROVE  Kept'
BY DEF IInv, Kept

LEMMA CallToolsInv ==
    ASSUME IInv, CallTools
    PROVE  IInv'
<1>1. pc = "model" /\ RunPart(run) /\ run \in Seq(Entries)
  BY DEF CallTools, IInv, RunOK, RunPart
<1>2. /\ Call \in Entries /\ Unfinished \in Entries
      /\ Call.role = "call" /\ Unfinished.role = "tool" /\ Unfinished.of = Call.of
  BY <1>1, TurnMessages DEF IInv
<1>3. PICK c : c = <<Call, Unfinished>>
  OBVIOUS
<1>4. c \in Seq(Entries) /\ Restorable(c)
  BY <1>2, <1>3 DEF Restorable
<1>5. SessionOK(mem, cut)' /\ Same' /\ mem'.messages = mem.messages
  BY <1>3, <1>4, CheckpointOK DEF CallTools
<1>6. Call' = Call
  BY DEF CallTools, Call, Reply
<1>7. RunOK'
  <2>1. run' = Append(run, Call) /\ pc' = "tools"
    BY DEF CallTools
  <2>2. /\ run' \in Seq(Entries) /\ run' # <<>> /\ run'[Len(run')] = Call
        /\ SubSeq(run', 1, Len(run') - 1) = run
    BY <1>1, <1>2, <2>1
  <2> QED BY <1>1, <1>6, <2>1, <2>2 DEF RunOK
<1>8. Types' /\ Positions'
  BY NoMessage DEF CallTools, IInv, Types, Positions
<1> QED BY <1>5, <1>7, <1>8, KeptOK DEF IInv, CallTools

\* The messages of the run once the results are there.
LEMMA Finished ==
    ASSUME IInv, pc = "tools"
    PROVE  /\ RunPart(Append(run, Result))
           /\ RunPart(run \o <<Result, Text>>)
           /\ LastRole(run \o <<Result, Text>>) = "assistant"
           /\ <<Call, Result>> \in Seq(Entries) /\ Restorable(<<Call, Result>>)
<1>1. /\ Call \in Entries /\ Result \in Entries /\ Text \in Entries
      /\ Call.role = "call" /\ Result.role = "tool" /\ Text.role = "assistant"
      /\ Result.of = Call.of
  BY TurnMessages DEF IInv
<1>2. PICK r : r = SubSeq(run, 1, Len(run) - 1)
  OBVIOUS
<1>3. /\ run \in Seq(Entries) /\ run # <<>> /\ run[Len(run)] = Call /\ RunPart(r)
  BY <1>2 DEF IInv, RunOK
<1>4. run = Append(r, Call)
  BY <1>2, <1>3
<1>5. RunPart(Append(run, Result))
  BY <1>1, <1>3, <1>4, RunTools
<1>6. RunPart(Append(Append(run, Result), Text))
      /\ LastRole(Append(Append(run, Result), Text)) = "assistant"
  BY <1>1, <1>5, RunText
<1>7. run \o <<Result, Text>> = Append(Append(run, Result), Text)
  BY <1>1, <1>3
<1>8. <<Call, Result>> \in Seq(Entries) /\ Restorable(<<Call, Result>>)
  BY <1>1 DEF Restorable
<1> QED BY <1>5, <1>6, <1>7, <1>8

LEMMA ToolsCompletedInv ==
    ASSUME IInv, ToolsCompleted
    PROVE  IInv'
<1>1. pc = "tools" /\ input' = input
  BY DEF ToolsCompleted
<1>2. RunPart(run') /\ MessageTypes'
  BY <1>1, Finished, NoMessage DEF ToolsCompleted
<1>3. SessionOK(mem, cut)' /\ Same' /\ mem'.messages = mem.messages
  BY <1>1, Finished, CheckpointOK DEF ToolsCompleted
<1>4. Types' /\ Positions' /\ RunOK'
  BY <1>1, <1>2, NextIterationOK, TakeFollowUpsOK DEF ToolsCompleted
<1> QED BY <1>3, <1>4, KeptOK DEF IInv, ToolsCompleted

LEMMA ToolsFailedInv ==
    ASSUME IInv, ToolsFailed
    PROVE  IInv'
<1>1. pc = "tools" /\ input' = input
  BY DEF ToolsFailed
<1>2. RunPart(run') /\ LastRole(run') = "assistant" /\ MessageTypes'
  BY <1>1, Finished, NoMessage DEF ToolsFailed
<1>3. SessionOK(mem, cut)' /\ Same' /\ mem'.messages = mem.messages
  BY SessionUnchanged DEF ToolsFailed, NoCheckpoint
<1>4. Types' /\ Positions' /\ RunOK'
  BY <1>1, <1>2, LeaveRunnerOK, TakeFollowUpsOK DEF ToolsFailed
<1> QED BY <1>3, <1>4, KeptOK DEF IInv, ToolsFailed

\* The messages of the run once the model has answered.
LEMMA Answered ==
    ASSUME IInv, pc = "model"
    PROVE  /\ RunPart(run) /\ RunPart(Append(run, Text))
           /\ LastRole(Append(run, Text)) = "assistant"
           /\ RunPart(run \o <<Text, GoOn>>)
           /\ <<Text>> \in Seq(Entries) /\ Restorable(<<Text>>)
<1>1. /\ Text \in Entries /\ GoOn \in Entries /\ Text.role = "assistant"
      /\ GoOn.role = "user" /\ GoOn.of = {}
  BY TurnMessages DEF IInv
<1>2. RunPart(run)
  BY DEF IInv, RunOK
<1>3. RunPart(Append(run, Text)) /\ LastRole(Append(run, Text)) = "assistant"
  BY <1>1, <1>2, RunText
<1>4. RunPart(run \o <<Text, GoOn>>)
  BY <1>1, <1>2, RunGoOn
<1>5. <<Text>> \in Seq(Entries) /\ Restorable(<<Text>>)
  BY <1>1 DEF Restorable
<1> QED BY <1>2, <1>3, <1>4, <1>5

LEMMA AnswerInv ==
    ASSUME IInv, Answer
    PROVE  IInv'
<1>1. pc = "model" /\ input' = input
  BY DEF Answer
<1>2. RunPart(run') /\ LastRole(run') = "assistant" /\ MessageTypes'
  BY <1>1, Answered, NoMessage DEF Answer
<1>3. SessionOK(mem, cut)' /\ Same' /\ mem'.messages = mem.messages
  BY <1>1, Answered, CheckpointOK DEF Answer
<1>4. Types' /\ Positions' /\ RunOK'
  BY <1>1, <1>2, LeaveRunnerOK, TakeFollowUpsOK DEF Answer
<1> QED BY <1>3, <1>4, KeptOK DEF IInv, Answer

LEMMA GoalGoesOnInv ==
    ASSUME IInv, GoalGoesOn
    PROVE  IInv'
<1>1. pc = "model" /\ input' = input
  BY DEF GoalGoesOn
<1>2. RunPart(run') /\ MessageTypes'
  BY <1>1, Answered, NoMessage DEF GoalGoesOn
<1>3. SessionOK(mem, cut)' /\ Same' /\ mem'.messages = mem.messages
  BY <1>1, Answered, CheckpointOK DEF GoalGoesOn
<1>4. Types' /\ Positions' /\ RunOK'
  BY <1>1, <1>2, NextIterationOK DEF GoalGoesOn
<1> QED BY <1>3, <1>4, KeptOK DEF IInv, GoalGoesOn

LEMMA NoAnswerInv ==
    ASSUME IInv, NoAnswer
    PROVE  IInv'
<1>1. pc = "model" /\ input' = input /\ MessageTypes'
  BY NoMessage DEF NoAnswer
<1>2. Types' /\ Positions' /\ RunOK'
  <2>1. CASE run' = run /\ TakeFollowUps
    BY <1>1, <2>1, Answered, TakeFollowUpsOK
  <2>2. CASE run' = Append(run, Text) /\ (LeaveRunner \/ TakeFollowUps)
    <3>1. RunPart(run') /\ LastRole(run') = "assistant"
      BY <1>1, <2>2, Answered
    <3> QED BY <1>1, <2>2, <3>1, LeaveRunnerOK, TakeFollowUpsOK
  <2> QED BY <2>1, <2>2 DEF NoAnswer
<1>3. SessionOK(mem, cut)' /\ Same' /\ mem'.messages = mem.messages
  BY SessionUnchanged DEF NoAnswer, NoCheckpoint
<1> QED BY <1>2, <1>3, KeptOK DEF IInv, NoAnswer

LEMMA BlankInv ==
    ASSUME IInv, Blank
    PROVE  IInv'
<1>1. pc = "model" /\ input' = input
  BY DEF Blank
<1>2. RunPart(run') /\ MessageTypes'
  BY <1>1, Answered, NoMessage DEF Blank
<1>3. SessionOK(mem, cut)' /\ Same' /\ mem'.messages = mem.messages
  BY SessionUnchanged DEF Blank
<1>4. Types' /\ Positions' /\ RunOK'
  BY <1>1, <1>2, NextIterationOK DEF Blank
<1> QED BY <1>3, <1>4, KeptOK DEF IInv, Blank

LEMMA TruncatedInv ==
    ASSUME IInv, Truncated
    PROVE  IInv'
<1>1. pc = "model" /\ input' = input
  BY DEF Truncated
<1>2. RunPart(run') /\ MessageTypes'
  BY <1>1, Answered, NoMessage DEF Truncated
<1>3. SessionOK(mem, cut)' /\ Same' /\ mem'.messages = mem.messages
  BY SessionUnchanged DEF Truncated
<1>4. Types' /\ Positions' /\ RunOK'
  BY <1>1, <1>2, NextIterationOK DEF Truncated
<1> QED BY <1>3, <1>4, KeptOK DEF IInv, Truncated

LEMMA JoinInv ==
    ASSUME IInv, NEW m, Join(m)
    PROVE  IInv'
<1>1. /\ pc \in {"join", "exhausted"} /\ m \in FollowUps /\ run' = WithJoined(run, m)
      /\ UNCHANGED <<mem, disk, input, stored, cut>>
  BY DEF Join
<1>2. m \in Joining
  BY <1>1 DEF FollowUps, Joining, IInv, Types, MessageTypes
<1>3. RunPart(run')
  <2>1. RunPart(run)
    BY <1>1 DEF IInv, RunOK
  <2> QED BY <1>1, <1>2, <2>1, RunJoins
<1>4. MessageTypes'
  BY <1>1, <1>2 DEF Join, IInv, Types, MessageTypes, Joining, Inputs
<1>5. SessionOK(mem, cut)' /\ Same' /\ mem'.messages = mem.messages
  BY <1>1, SessionUnchanged
<1>6. Types' /\ Positions' /\ RunOK'
  <2>1. CASE pc = "join" /\ NextIteration
    BY <1>1, <1>3, <1>4, <2>1, NextIterationOK
  <2>2. CASE UNCHANGED <<pc, iteration>>
    BY <1>1, <1>3, <1>4, <2>2 DEF IInv, Types, Positions, RunOK
  <2> QED BY <2>1, <2>2 DEF Join
<1> QED BY <1>1, <1>5, <1>6, KeptOK DEF IInv

LEMMA OutOfIterationsInv ==
    ASSUME IInv, OutOfIterations
    PROVE  IInv'
<1>1. pc = "exhausted" /\ run' = Append(run, Text) /\ input' = input
  BY DEF OutOfIterations
<1>2. Text \in Entries /\ Text.role = "assistant"
  BY <1>1, TurnMessages DEF IInv
<1>3. RunPart(run') /\ LastRole(run') = "assistant" /\ MessageTypes'
  BY <1>1, <1>2, RunText, NoMessage DEF IInv, RunOK, OutOfIterations
<1>4. SessionOK(mem, cut)' /\ Same' /\ mem'.messages = mem.messages
  BY SessionUnchanged DEF OutOfIterations
<1>5. Types' /\ Positions' /\ RunOK'
  BY <1>1, <1>3, LeaveRunnerOK DEF OutOfIterations
<1> QED BY <1>4, <1>5, KeptOK DEF IInv, OutOfIterations

LEMMA ContinueLaterInv ==
    ASSUME IInv, NEW c \in Continuations, ContinueLater(c)
    PROVE  IInv'
<1>1. SessionOK(mem, cut)' /\ Same' /\ mem'.messages = mem.messages
  BY SessionUnchanged DEF ContinueLater
<1>2. Types' /\ Positions' /\ RunOK'
  BY DEF ContinueLater, IInv, Types, MessageTypes, Positions, RunOK
<1> QED BY <1>1, <1>2, KeptOK DEF IInv, ContinueLater

----------------------------------------------------------------------------
(* How a turn ends. *)

\* A turn that is over.
LEMMA OverTypes ==
    ASSUME IInv, TurnOver, MessageTypes'
    PROVE  Types' /\ Positions' /\ RunOK'
BY OverOK, TurnAssumption DEF IInv, Types

LEMMA SaveTurnInv ==
    ASSUME IInv, SaveTurn
    PROVE  IInv'
<1>1. PICK g : g = mem.messages
  OBVIOUS
<1>2. PICK h : h = g \o run
  OBVIOUS
<1>3. /\ g \in Seq(Entries) /\ CallsPaired(g) /\ AlternatingBut(g, cut)
      /\ RunPart(run) /\ run \in Seq(Entries) /\ AlternatingBut(run, {})
      /\ pc = "save" => run # <<>> /\ LastRole(run) # "user"
  BY <1>1 DEF SaveTurn, IInv, SessionOK, Session, RunOK, RunPart
<1>4. Meets(g, run)
  BY <1>3 DEF Meets, RunPart
<1>5. CallsPaired(h) /\ AlternatingBut(h, cut) /\ UsersIn(g) \subseteq UsersIn(h)
  BY <1>2, <1>3, <1>4, PairedConcat, AlternatingConcat, UsersConcat DEF RunPart
<1>6. h \in Seq(Entries) /\ Len(h) \in Nat /\ cut \subseteq cut' /\ Due(h, cut')
  <2>1. h \in Seq(Entries) /\ Len(h) \in Nat
    BY <1>2, <1>3
  <2>2. CASE pc = "cut"
    BY <1>1, <1>2, <2>1, <2>2 DEF SaveTurn, Due
  <2>3. CASE pc = "save"
    <3>1. h # <<>> /\ h[Len(h)] = run[Len(run)]
      BY <1>2, <1>3, <2>3
    <3>2. LastRole(h) # "user"
      BY <1>3, <2>3, <3>1 DEF LastRole
    <3> QED BY <2>1, <2>3, <3>2 DEF SaveTurn, Due
  <2> QED BY <2>2, <2>3 DEF SaveTurn
<1>7. mem' = [messages |-> h, checkpoint |-> <<>>, pending |-> FALSE] /\ disk' = mem'
  BY <1>1, <1>2 DEF SaveTurn, Save
<1>8. AlternatingBut(h, cut')
  BY <1>5, <1>6, AlternatingMore
<1>9. SessionOK(mem', cut')
  BY <1>5, <1>6, <1>7, <1>8 DEF SessionOK, Session, Restorable
<1>10. Same'
  BY <1>7, <1>9, SavedSame
<1>11. Types' /\ Positions' /\ RunOK'
  <2>1. MessageTypes'
    BY <1>1, <1>2, <1>6 DEF SaveTurn, IInv, Types, MessageTypes
  <2> QED BY <2>1, OverTypes DEF SaveTurn
<1>12. Kept'
  <2>1. mem'.messages = h /\ stored' = stored
    BY <1>7 DEF SaveTurn
  <2> QED BY <1>1, <1>5, <2>1 DEF IInv, Kept
<1> QED BY <1>9, <1>10, <1>11, <1>12 DEF IInv

LEMMA CancelInv ==
    ASSUME IInv, Cancel
    PROVE  IInv'
<1>1. Types' /\ Positions' /\ RunOK'
  BY OverTypes, NoMessage DEF Cancel
<1>2. CASE mem.checkpoint # <<>>
  <2>1. mem' = RestoreCheckpoint(mem) /\ disk' = mem' /\ stored' = stored /\ cut' = cut
    BY <1>2 DEF Cancel, Save
  <2>2. SessionOK(mem', cut) /\ UsersIn(mem.messages) \subseteq UsersIn(mem'.messages)
    BY <2>1, CheckpointRestoredOK DEF IInv
  <2> QED BY <1>1, <2>1, <2>2, SavedSame DEF IInv, Kept
<1>3. CASE mem.checkpoint = <<>>
  <2>1. UNCHANGED <<mem, disk, cut>> /\ stored' = stored
    BY <1>3 DEF Cancel, NoCheckpoint
  <2> QED BY <1>1, <2>1, SessionUnchanged, KeptOK DEF IInv
<1> QED BY <1>2, <1>3

LEMMA FailInv ==
    ASSUME IInv, Fail
    PROVE  IInv'
<1>1. Types' /\ Positions' /\ RunOK'
  BY OverTypes, NoMessage DEF Fail
<1>2. UNCHANGED <<mem, disk, cut>> /\ stored' = stored
  BY DEF Fail
<1> QED BY <1>1, <1>2, SessionUnchanged, KeptOK DEF IInv

\* The session that /new leaves.
LEMMA ClearedOK ==
    ASSUME NEW s, NEW C, SessionOK(s, C), NEW D
    PROVE  SessionOK(Cleared(s), D)
<1>1. /\ Cleared(s) \in Session /\ Cleared(s).messages = <<>>
      /\ Cleared(s).checkpoint = s.checkpoint /\ Cleared(s).pending = s.pending
  <2>1. <<>> \in Seq(Entries)
    OBVIOUS
  <2>2. PICK e : e = <<>>
    OBVIOUS
  <2>3. Cleared(s) = [s EXCEPT !.messages = e] /\ e \in Seq(Entries) /\ s \in Session
    BY <2>1, <2>2 DEF Cleared, SessionOK
  <2> QED BY <2>2, <2>3 DEF Session
<1>2. CallsPaired(<<>>) /\ AlternatingBut(<<>>, D) /\ Due(<<>>, D)
  BY DEF CallsPaired, AlternatingBut, Due, LastRole
<1> QED BY <1>1, <1>2 DEF SessionOK

LEMMA NewInv ==
    ASSUME IInv, New
    PROVE  IInv'
<1>1. Types' /\ Positions' /\ RunOK'
  <2>1. MessageTypes'
    BY DEF New, IInv, Types, MessageTypes
  <2> QED BY <2>1, OverTypes DEF New
<1>2. mem' = Cleared(mem) /\ disk' = mem' /\ stored' = {}
  BY DEF New, Save
<1>3. SessionOK(mem', cut')
  BY <1>2, ClearedOK DEF IInv
<1> QED BY <1>1, <1>2, <1>3, SavedSame DEF IInv, Kept

LEMMA NewInlineInv ==
    ASSUME IInv, NEW u \in Inputs, NewInline(u)
    PROVE  IInv'
<1>1. Types' /\ Positions' /\ RunOK'
  <2>1. MessageTypes'
    BY DEF NewInline, IInv, Types, MessageTypes
  <2> QED BY <2>1, OverTypes DEF NewInline
<1>2. mem' = Cleared(RestoreCheckpoint(mem)) /\ disk' = mem' /\ stored' = {}
  BY DEF NewInline, Save
<1>3. SessionOK(RestoreCheckpoint(mem), cut)
  BY CheckpointRestoredOK DEF IInv
<1>4. SessionOK(mem', cut')
  BY <1>2, <1>3, ClearedOK
<1> QED BY <1>1, <1>2, <1>4, SavedSame DEF IInv, Kept

LEMMA CrashInv ==
    ASSUME IInv, Crash
    PROVE  IInv'
<1>1. Types' /\ Positions' /\ RunOK'
  <2>1. MessageTypes'
    BY DEF Crash, IInv, Types, MessageTypes
  <2> QED BY <2>1, OverTypes DEF Crash
<1>2. mem' = disk /\ disk' = disk /\ stored' = stored /\ cut' = cut
  BY DEF Crash
<1>3. SessionOK(mem', cut)
  BY <1>2, DiskRestored DEF IInv
<1>4. Kept'
  BY <1>2 DEF IInv, Kept, Same
<1> QED BY <1>1, <1>2, <1>3, <1>4, SavedSame DEF IInv

\* No step breaks the invariant.
LEMMA NextInv ==
    ASSUME IInv, [Next]_vars
    PROVE  IInv'
<1>1. CASE \E u \in Inputs : Restore(u) \/ NewInline(u)
  BY <1>1, RestoreInv, NewInlineInv
<1>2. CASE Build \/ BuildContinuation \/ Shortcut \/ ShortcutReply \/ New
  BY <1>2, BuildInv, BuildContinuationInv, ShortcutInv, ShortcutReplyInv, NewInv
<1>3. CASE RunnerStep
  BY <1>3, CallToolsInv, BlankInv, TruncatedInv, GoalGoesOnInv, ToolsCompletedInv,
     ToolsFailedInv, AnswerInv, NoAnswerInv, JoinInv, OutOfIterationsInv, ContinueLaterInv
     DEF RunnerStep
<1>4. CASE SaveTurn \/ Cancel \/ Fail \/ Crash
  BY <1>4, SaveTurnInv, CancelInv, FailInv, CrashInv
<1>5. CASE UNCHANGED vars
  BY <1>5 DEF vars, IInv, Types, MessageTypes, Positions, Same, RunOK, Kept, Call, Reply
<1> QED BY <1>1, <1>2, <1>3, <1>4, <1>5 DEF Next

\* The invariant holds throughout.
THEOREM Invariant == Spec => []IInv
<1>1. Init => IInv
  BY InitInv
<1>2. IInv /\ [Next]_vars => IInv'
  BY NextInv
<1> QED BY <1>1, <1>2, PTL DEF Spec

----------------------------------------------------------------------------
(* The properties of SessionTurn. *)

\* The session, its file and the locals of the turn keep their types, and the
\* runner begins no more iterations than it may.
THEOREM TypeCorrect == Spec => []TypeOK
<1>1. IInv => TypeOK
  <2> SUFFICES ASSUME IInv PROVE TypeOK
    OBVIOUS
  <2>1. ASSUME NEW s \in Session PROVE SessionType(s)
    BY DEF Session, SessionType
  <2>2. SessionType(mem) /\ SessionType(disk)
    BY <2>1 DEF IInv, SessionOK, Same
  <2>3. run \in Seq(Entries)
    BY DEF IInv, RunOK, RunPart
  <2> QED BY <2>2, <2>3 DEF IInv, Types, MessageTypes, TypeOK
<1> QED BY <1>1, Invariant, PTL

\* Every tool call in the history that the next turn sends to the model is
\* followed by its result and every result follows its call, in memory and in
\* the file, however the turns before it ended.
THEOREM CallsHaveResults == Spec => []Paired
<1>1. IInv => Paired
  <2> SUFFICES ASSUME IInv PROVE Paired
    OBVIOUS
  <2>1. SessionOK(mem, cut) /\ SessionOK(disk, cut)
    BY DiskRestored DEF IInv
  <2>2. SessionOK(Restored(mem), cut) /\ SessionOK(Restored(disk), cut)
    BY <2>1, RestoredOK
  <2> QED BY <2>2 DEF Paired, SessionOK
<1> QED BY <1>1, Invariant, PTL

\* The restored history has two user messages in a row (results of subagents do
\* not count) only where a turn was cut at its budget and its continuation is due.
THEOREM Answers == Spec => []Alternates
<1>1. IInv => Alternates
  <2> SUFFICES ASSUME IInv PROVE Alternates
    OBVIOUS
  <2>1. SessionOK(mem, cut) /\ SessionOK(disk, cut)
    BY DiskRestored DEF IInv
  <2>2. SessionOK(Restored(mem), cut) /\ SessionOK(Restored(disk), cut)
    BY <2>1, RestoredOK
  <2>3. /\ AlternatingBut(Restored(mem).messages, cut)
        /\ AlternatingBut(Restored(disk).messages, cut)
    BY <2>2 DEF SessionOK
  <2> QED BY <2>3 DEF Alternates, AlternatingBut
<1> QED BY <1>1, Invariant, PTL

\* The message that began a turn is in the file before the model is asked, and
\* no way for the turn to end takes it out again.
THEOREM MessageKept == Spec => []UserKept
<1>1. IInv => UserKept
  BY DEF IInv, Kept, Same, UserKept
<1> QED BY <1>1, Invariant, PTL

\* A process that dies between two turns loses nothing the next turn builds on.
THEOREM NothingLostByCrash == Spec => []CrashLosesNothing
<1>1. IInv => CrashLosesNothing
  BY DiskRestored DEF IInv, CrashLosesNothing
<1> QED BY <1>1, Invariant, PTL

----------------------------------------------------------------------------
(* Nothing is restored twice.  Calls, results and answers are told apart by  *)
(* the turn and the iteration they come from.                                *)

Distinct(h) ==
    \A i, j \in DOMAIN h :
        i # j /\ h[i].role \in {"call", "tool", "assistant"} /\ h[i].role = h[j].role
            => h[i].of # h[j].of \/ h[i].of = {}

\* What h has from the model is from turns of T, from their iterations up to n.
From(h, T, n) ==
    \A i \in DOMAIN h : (h[i].role # "user" /\ h[i].of # {})
                            => \E u \in T, k \in 0..n : h[i].of = {<<u, k>>}

Apart(g, h) ==
    \A i \in DOMAIN g, j \in DOMAIN h :
        (g[i].role # "user" /\ g[i].role = h[j].role) => g[i].of # h[j].of \/ g[i].of = {}

\* The session has nothing yet of the turn that is running, and nothing of
\* what its checkpoint would restore.
SessionNumbered ==
    /\ Distinct(mem.messages)
    /\ From(mem.messages, taken \ {input}, Iterations + 1)
    /\ From(mem.checkpoint, taken, Iterations + 1)
    /\ Apart(mem.messages, mem.checkpoint)

\* The runner writes one call, result and answer in an iteration at most.
Numbered(r, n) == Distinct(r) /\ From(r, {input}, n)

RunNumbered ==
    /\ pc # "idle" => input \in taken
    /\ pc \in {"idle", "build", "reply"} => run = <<>>
    /\ pc = "tools" => Numbered(SubSeq(run, 1, Len(run) - 1), iteration - 1)
    /\ pc \in {"model", "exhausted"} => Numbered(run, iteration - 1)
    /\ pc = "join" => Numbered(run, iteration)
    /\ pc \in {"save", "cut"} => Numbered(run, Iterations + 1)

NInv == IInv /\ SessionNumbered /\ RunNumbered

\* Two histories in a row.
LEMMA DistinctConcat ==
    ASSUME NEW g \in Seq(Entries), NEW h \in Seq(Entries), Distinct(g), Distinct(h), Apart(g, h)
    PROVE  Distinct(g \o h)
<1>1. PICK k : k = g \o h
  OBVIOUS
<1>2. /\ Len(g) \in Nat /\ Len(h) \in Nat /\ DOMAIN k = 1..(Len(g) + Len(h))
      /\ DOMAIN g = 1..Len(g) /\ DOMAIN h = 1..Len(h)
      /\ \A i \in 1..Len(g) : k[i] = g[i]
      /\ \A i \in 1..Len(h) : k[Len(g) + i] = h[i]
  BY <1>1
<1>3. \A i \in DOMAIN k : i \notin 1..Len(g) => \E a \in 1..Len(h) : i = Len(g) + a /\ k[i] = h[a]
  <2> SUFFICES ASSUME NEW i \in DOMAIN k, i \notin 1..Len(g)
               PROVE  \E a \in 1..Len(h) : i = Len(g) + a /\ k[i] = h[a]
    OBVIOUS
  <2>1. i - Len(g) \in 1..Len(h) /\ i = Len(g) + (i - Len(g))
    BY <1>2
  <2> QED BY <1>2, <2>1
<1>4. ASSUME NEW i \in DOMAIN k, NEW j \in DOMAIN k, i # j,
             k[i].role \in {"call", "tool", "assistant"}, k[i].role = k[j].role
      PROVE  k[i].of # k[j].of \/ k[i].of = {}
  <2>1. CASE i \in 1..Len(g) /\ j \in 1..Len(g)
    BY <1>2, <1>4, <2>1 DEF Distinct
  <2>2. CASE i \in 1..Len(g) /\ j \notin 1..Len(g)
    <3>1. PICK b \in 1..Len(h) : k[j] = h[b]
      BY <1>3, <2>2
    <3> QED BY <1>2, <1>4, <2>2, <3>1 DEF Apart
  <2>3. CASE i \notin 1..Len(g) /\ j \in 1..Len(g)
    <3>1. PICK a \in 1..Len(h) : k[i] = h[a]
      BY <1>3, <2>3
    <3> QED BY <1>2, <1>4, <2>3, <3>1 DEF Apart
  <2>4. CASE i \notin 1..Len(g) /\ j \notin 1..Len(g)
    <3>1. PICK a \in 1..Len(h) : i = Len(g) + a /\ k[i] = h[a]
      BY <1>3, <2>4
    <3>2. PICK b \in 1..Len(h) : j = Len(g) + b /\ k[j] = h[b]
      BY <1>3, <2>4
    <3> QED BY <1>2, <1>4, <3>1, <3>2, ZenonT(40) DEF Distinct
  <2> QED BY <2>1, <2>2, <2>3, <2>4
<1>5. Distinct(k)
  BY <1>4 DEF Distinct
<1> QED BY <1>1, <1>5

LEMMA FromConcat ==
    ASSUME NEW g \in Seq(Entries), NEW h \in Seq(Entries), NEW T, NEW n \in Nat,
           From(g, T, n), From(h, T, n)
    PROVE  From(g \o h, T, n)
<1>1. PICK k : k = g \o h
  OBVIOUS
<1>2. \A i \in DOMAIN k : \/ i \in DOMAIN g /\ k[i] = g[i]
                          \/ \E j \in DOMAIN h : k[i] = h[j]
  BY <1>1, EitherPart
<1>3. ASSUME NEW i \in DOMAIN k, k[i].role # "user", k[i].of # {}
      PROVE  \E u \in T, l \in 0..n : k[i].of = {<<u, l>>}
  <2>1. CASE i \in DOMAIN g /\ k[i] = g[i]
    BY <1>3, <2>1 DEF From
  <2>2. CASE \E j \in DOMAIN h : k[i] = h[j]
    BY <1>3, <2>2 DEF From
  <2> QED BY <1>2, <2>1, <2>2
<1>4. From(k, T, n)
  BY <1>3 DEF From
<1> QED BY <1>1, <1>4

LEMMA FromMore ==
    ASSUME NEW h, NEW T, NEW n \in Nat, From(h, T, n),
           NEW U, T \subseteq U, NEW m \in Nat, n <= m
    PROVE  From(h, U, m)
<1>1. 0..n \subseteq 0..m
  OBVIOUS
<1> QED BY <1>1 DEF From

\* Other turns, other messages.
LEMMA TurnsApart ==
    ASSUME NEW g, NEW h, NEW T, NEW U, NEW n \in Nat, NEW m \in Nat,
           From(g, T, n), From(h, U, m), T \cap U = {}
    PROVE  Apart(g, h)
BY DEF From, Apart

\* What iteration k adds to what was there of the iterations up to n.
LEMMA IterationAdds ==
    ASSUME NEW r \in Seq(Entries), NEW n \in Int, NEW k \in Nat, n < k, Numbered(r, n),
           NEW h \in Seq(Entries), Distinct(h),
           \A i \in DOMAIN h : h[i].role = "user" \/ h[i].of = {<<input, k>>}
    PROVE  Numbered(r \o h, k)
<1>1. From(r, {input}, k)
  <2>1. 0..n \subseteq 0..k
    OBVIOUS
  <2> QED BY <2>1 DEF Numbered, From
<1>2. From(h, {input}, k)
  BY DEF From
<1>3. Apart(r, h)
  <2> SUFFICES ASSUME NEW i \in DOMAIN r, NEW j \in DOMAIN h,
                      r[i].role # "user", r[i].role = h[j].role, r[i].of # {}
               PROVE  r[i].of # h[j].of
    BY DEF Apart
  <2>1. PICK l \in 0..n : r[i].of = {<<input, l>>}
    BY DEF Numbered, From
  <2>2. h[j].of = {<<input, k>>} /\ <<input, l>> # <<input, k>>
    OBVIOUS
  <2>3. \A x, y : x # y => {x} # {y}
    OBVIOUS
  <2>4. {<<input, l>>} # {<<input, k>>}
    BY <2>2, <2>3
  <2> QED BY <2>1, <2>2, <2>4
<1> QED BY <1>1, <1>2, <1>3, DistinctConcat, FromConcat DEF Numbered

\* Follow-ups that join are user messages.
LEMMA JoinedNumbered ==
    ASSUME NEW r, RunPart(r), NEW n \in Int, Numbered(r, n), NEW m \in Joining
    PROVE  Numbered(WithJoined(r, m), n)
<1>0. r \in Seq(Entries)
  BY DEF RunPart
<1>1. CASE WithJoined(r, m) = r
  BY <1>1
<1>2. CASE /\ m \notin Results /\ r # <<>> /\ VisibleUser(r[Len(r)])
           /\ WithJoined(r, m) = Merge(r, m)
  <2>1. PICK h : h = Merge(r, m)
    OBVIOUS
  <2>2. /\ DOMAIN h = DOMAIN r
        /\ \A i \in DOMAIN r : h[i].role = r[i].role /\ (r[i].role # "user" => h[i] = r[i])
    BY <1>2, <2>1, Merged
  <2>3. Distinct(h)
    BY <2>2 DEF Numbered, Distinct
  <2>4. From(h, {input}, n)
    BY <2>2 DEF Numbered, From
  <2> QED BY <1>2, <2>1, <2>3, <2>4 DEF Numbered
<1>3. CASE WithJoined(r, m) = r \o <<User({m})>> /\ <<User({m})>> \in Seq(Entries)
  <2>1. PICK h : h = <<User({m})>>
    OBVIOUS
  <2>2. User({m}).role = "user"
    BY DEF User
  <2>3. WithJoined(r, m) = r \o h /\ h \in Seq(Entries) /\ \A i \in DOMAIN h : h[i].role = "user"
    <3>1. PICK e : e = User({m})
      OBVIOUS
    <3>2. h = <<e>> /\ e.role = "user"
      BY <2>1, <2>2, <3>1
    <3>3. WithJoined(r, m) = r \o h /\ h \in Seq(Entries)
      BY <1>3, <2>1
    <3>4. \A i \in DOMAIN h : h[i].role = "user"
      BY <3>2
    <3> QED BY <3>3, <3>4
  <2>4. Distinct(h) /\ Apart(r, h) /\ From(h, {input}, n)
    BY <2>3 DEF Distinct, Apart, From
  <2>5. Distinct(r \o h)
    BY <1>0, <2>3, <2>4, DistinctConcat DEF Numbered
  <2>6. \A i \in DOMAIN (r \o h) : \/ i \in DOMAIN r /\ (r \o h)[i] = r[i]
                                   \/ \E j \in DOMAIN h : (r \o h)[i] = h[j]
    BY <1>0, <2>3, EitherPart
  <2>7. From(r \o h, {input}, n)
    BY <2>3, <2>6 DEF Numbered, From
  <2> QED BY <2>3, <2>5, <2>7 DEF Numbered
<1> QED BY <1>0, <1>1, <1>2, <1>3, JoinCases

----------------------------------------------------------------------------
(* Sessions whose messages are numbered. *)

\* What restoring leaves is distinct, and of the same turns.
LEMMA RestoredDistinct ==
    ASSUME NEW s, NEW C, SessionOK(s, C), Distinct(s.messages), Apart(s.messages, s.checkpoint),
           NEW T, NEW n \in Nat, From(s.messages, T, n), From(s.checkpoint, T, n)
    PROVE  /\ Distinct(RestoreCheckpoint(s).messages)
           /\ From(RestoreCheckpoint(s).messages, T, n)
           /\ Distinct(Restored(s).messages)
           /\ From(Restored(s).messages, T, n)
<1>1. PICK g : g = RestoreCheckpoint(s)
  OBVIOUS
<1>2. Distinct(g.messages) /\ From(g.messages, T, n)
  <2>1. CASE s.checkpoint = <<>>
    <3>1. g = s
      BY <1>1, <2>1, CheckpointRestoredOK
    <3> QED BY <3>1
  <2>2. CASE s.checkpoint # <<>>
    <3>1. PICK h : h = s.messages
      OBVIOUS
    <3>2. PICK c : c = s.checkpoint
      OBVIOUS
    <3>3. h \in Seq(Entries) /\ c \in Seq(Entries) /\ Restorable(c) /\ c # <<>>
      BY <2>2, <3>1, <3>2 DEF SessionOK, Session
    <3>4. g.messages = h \o c \/ g.messages = h
      <4>1. Absorbs(g.messages, h, c)
        BY <1>1, <2>2, <3>1, <3>2, CheckpointRestored DEF SessionOK
      <4> QED BY <4>1 DEF Absorbs
    <3>5. Distinct(c)
      BY <3>3 DEF Restorable, Distinct
    <3>6. Distinct(h \o c) /\ From(h \o c, T, n)
      BY <3>1, <3>2, <3>3, <3>5, DistinctConcat, FromConcat
    <3> QED BY <3>1, <3>4, <3>6
  <2> QED BY <2>1, <2>2
<1>3. Distinct(Restored(s).messages) /\ From(Restored(s).messages, T, n)
  <2>1. Restored(s) = RestorePending(g) /\ SessionOK(g, C)
    BY <1>1, CheckpointRestoredOK DEF Restored
  <2>2. PICK h : h = g.messages
    OBVIOUS
  <2>3. /\ g = [messages |-> h, checkpoint |-> g.checkpoint, pending |-> g.pending]
        /\ h \in Seq(Entries)
    BY <2>1, <2>2 DEF SessionOK, Session
  <2>4. Restored(s).messages = Append(h, Closing) \/ Restored(s).messages = h
    BY <2>1, <2>3, PendingRestored
  <2>5. PICK t : t = <<Closing>>
    OBVIOUS
  <2>6. Closing \in Entries /\ Closing.of = {}
    BY DEF Closing, Entries
  <2>7. Append(h, Closing) = h \o t /\ t \in Seq(Entries) /\ \A i \in DOMAIN t : t[i].of = {}
    BY <2>3, <2>5, <2>6
  <2>8. Distinct(t) /\ Apart(h, t) /\ From(t, T, n)
    BY <2>7 DEF Distinct, Apart, From
  <2>9. Distinct(h \o t) /\ From(h \o t, T, n)
    BY <1>2, <2>2, <2>3, <2>7, <2>8, DistinctConcat, FromConcat
  <2> QED BY <1>2, <2>2, <2>4, <2>7, <2>9
<1> QED BY <1>1, <1>2, <1>3

\* A session without a checkpoint.
LEMMA WithoutCheckpoint ==
    ASSUME mem'.checkpoint = <<>>, Distinct(mem'.messages),
           From(mem'.messages, taken' \ {input'}, Iterations + 1)
    PROVE  SessionNumbered'
BY DEF SessionNumbered, From, Apart

\* The turns of the session are among those that have begun and are over.
LEMMA OthersKept ==
    ASSUME NInv, UNCHANGED <<mem.messages, mem.checkpoint>>, taken \subseteq taken',
           input' = input \/ input' \notin taken'
    PROVE  SessionNumbered'
<1>1. taken \ {input} \subseteq taken' \ {input'} /\ Iterations + 1 \in Nat
  BY TurnAssumption
<1>2. PICK h : h = mem.messages
  OBVIOUS
<1>3. PICK c : c = mem.checkpoint
  OBVIOUS
<1>4. /\ Distinct(h) /\ From(h, taken \ {input}, Iterations + 1)
      /\ From(c, taken, Iterations + 1) /\ Apart(h, c)
  BY <1>2, <1>3 DEF NInv, SessionNumbered
<1>5. From(h, taken' \ {input'}, Iterations + 1) /\ From(c, taken', Iterations + 1)
  BY <1>1, <1>4, FromMore
<1> QED BY <1>2, <1>3, <1>4, <1>5 DEF SessionNumbered

\* A checkpoint of the turn that is running.
LEMMA CheckpointNumbered ==
    ASSUME NInv, input \in taken, NEW c, Checkpoint(c), input' = input, taken \subseteq taken',
           From(c, {input}, Iterations + 1)
    PROVE  SessionNumbered'
<1>1. mem'.messages = mem.messages /\ mem'.checkpoint = c
  BY DEF Checkpoint, Save, NInv, IInv, SessionOK, Session
<1>2. taken \ {input} \subseteq taken' \ {input} /\ Iterations + 1 \in Nat /\ {input} \subseteq taken'
  BY TurnAssumption
<1>3. PICK h : h = mem.messages
  OBVIOUS
<1>4. Distinct(h) /\ From(h, taken \ {input}, Iterations + 1)
  BY <1>3 DEF NInv, SessionNumbered
<1>5. Apart(h, c)
  BY <1>2, <1>4, TurnsApart
<1>6. From(h, taken' \ {input}, Iterations + 1) /\ From(c, taken', Iterations + 1)
  BY <1>2, <1>4, FromMore
<1> QED BY <1>1, <1>3, <1>4, <1>5, <1>6 DEF SessionNumbered

\* A turn that is over.
LEMMA OverNumbered ==
    ASSUME TurnOver
    PROVE  RunNumbered'
BY DEF TurnOver, RunNumbered

----------------------------------------------------------------------------
(* One lemma per action. *)

LEMMA InitNumbered == ASSUME Init PROVE SessionNumbered /\ RunNumbered
BY DEF Init, SessionNumbered, RunNumbered, Distinct, From, Apart

LEMMA RestoreNumbered ==
    ASSUME NInv, NEW u \in Inputs, Restore(u)
    PROVE  SessionNumbered' /\ RunNumbered'
<1>1. Iterations + 1 \in Nat
  BY TurnAssumption
<1>2. From(mem.messages, taken, Iterations + 1)
  BY <1>1, FromMore DEF NInv, SessionNumbered
<1>3. Distinct(Restored(mem).messages) /\ From(Restored(mem).messages, taken, Iterations + 1)
  BY <1>1, <1>2, RestoredDistinct DEF NInv, IInv, SessionNumbered
<1>4. /\ mem' = Restored(mem) /\ input' = u /\ u \notin taken /\ taken' = taken \cup {u}
      /\ pc' = "build" /\ pc = "idle" /\ run' = run
  BY DEF Restore
<1>5. taken = taken' \ {input'}
  BY <1>4
<1>6. Restored(mem).checkpoint = <<>>
  BY RestoredOK DEF NInv, IInv
<1>7. SessionNumbered'
  BY <1>3, <1>4, <1>5, <1>6, WithoutCheckpoint
<1> QED BY <1>4, <1>7 DEF NInv, RunNumbered

\* The message of the turn is a user message.
LEMMA InputNumbered ==
    ASSUME NInv, pc = "build", input \in Users \cup Commands, Save(WithInput(mem)),
           UNCHANGED <<input, taken>>
    PROVE  SessionNumbered'
<1>1. PICK m : m = User({input})
  OBVIOUS
<1>2. m \in Entries /\ m.role = "user"
  BY <1>1, TurnMessages DEF NInv, IInv
<1>3. PICK h : h = mem.messages
  OBVIOUS
<1>4. PICK t : t = <<m>>
  OBVIOUS
<1>5. /\ h \in Seq(Entries) /\ t \in Seq(Entries) /\ Append(h, m) = h \o t
      /\ \A i \in DOMAIN t : t[i].role = "user"
  BY <1>2, <1>3, <1>4, SMTT(30) DEF NInv, IInv, SessionOK, Session
<1>6. Distinct(t) /\ Apart(h, t) /\ From(t, taken \ {input}, Iterations + 1)
  BY <1>5 DEF Distinct, Apart, From
<1>7. Iterations + 1 \in Nat
  BY TurnAssumption
<1>8. Distinct(h \o t) /\ From(h \o t, taken \ {input}, Iterations + 1)
  BY <1>3, <1>5, <1>6, <1>7, DistinctConcat, FromConcat DEF NInv, SessionNumbered
<1>9. mem'.messages = h \o t /\ mem'.checkpoint = <<>>
  <2>1. mem' = [[mem EXCEPT !.messages = h \o t] EXCEPT !.pending = TRUE]
    BY <1>1, <1>3, <1>5 DEF Save, WithInput
  <2>2. mem \in Session /\ mem.checkpoint = <<>>
    BY DEF NInv, IInv, SessionOK, Positions
  <2> QED BY <2>1, <2>2 DEF Session
<1> QED BY <1>8, <1>9, WithoutCheckpoint

LEMMA BuildNumbered ==
    ASSUME NInv, Build
    PROVE  SessionNumbered' /\ RunNumbered'
<1>1. SessionNumbered'
  BY InputNumbered DEF Build
<1>2. Numbered(<<>>, 0)'
  BY DEF Numbered, Distinct, From
<1> QED BY <1>1, <1>2 DEF Build, NInv, RunNumbered

LEMMA BuildContinuationNumbered ==
    ASSUME NInv, BuildContinuation
    PROVE  SessionNumbered' /\ RunNumbered'
<1>1. SessionNumbered'
  BY OthersKept DEF BuildContinuation
<1>2. Numbered(<<>>, 0)'
  BY DEF Numbered, Distinct, From
<1> QED BY <1>1, <1>2 DEF BuildContinuation, NInv, RunNumbered

LEMMA ShortcutNumbered ==
    ASSUME NInv, Shortcut
    PROVE  SessionNumbered' /\ RunNumbered'
<1>1. SessionNumbered'
  BY InputNumbered DEF Shortcut
<1> QED BY <1>1 DEF Shortcut, NInv, RunNumbered

LEMMA ShortcutReplyNumbered ==
    ASSUME NInv, ShortcutReply
    PROVE  SessionNumbered' /\ RunNumbered'
<1>1. pc = "reply" /\ input \in taken
  BY DEF ShortcutReply, NInv, RunNumbered
<1>2. PICK t : t = <<Text>>
  OBVIOUS
<1>3. PICK h : h = mem.messages
  OBVIOUS
<1>4. /\ Text \in Entries /\ Text.role = "assistant" /\ Text.of = {<<input, iteration>>}
      /\ iteration \in 0..Iterations + 1 /\ Iterations + 1 \in Nat
  BY <1>1, TurnMessages, TurnAssumption DEF NInv, IInv, Types, Text, Reply
<1>5. /\ h \in Seq(Entries) /\ t \in Seq(Entries) /\ Append(h, Text) = h \o t
      /\ \A i \in DOMAIN t : t[i].of = {<<input, iteration>>}
      /\ \A i, j \in DOMAIN t : i = j
  <2>1. PICK e : e = Text
    OBVIOUS
  <2>2. t = <<e>> /\ e \in Entries /\ e.of = {<<input, iteration>>}
    BY <1>2, <1>4, <2>1
  <2>3. h \in Seq(Entries)
    BY <1>3 DEF NInv, IInv, SessionOK, Session
  <2>4. t \in Seq(Entries) /\ DOMAIN t = {1} /\ t[1] = e /\ Append(h, e) = h \o t
    BY <2>2, <2>3
  <2> QED BY <2>1, <2>2, <2>3, <2>4
<1>6. Distinct(t) /\ From(t, {input}, Iterations + 1)
  BY <1>4, <1>5 DEF Distinct, From
<1>7. Distinct(h) /\ From(h, taken \ {input}, Iterations + 1)
  BY <1>3 DEF NInv, SessionNumbered
<1>8. Apart(h, t)
  BY <1>4, <1>6, <1>7, TurnsApart
<1>9. From(h, taken, Iterations + 1) /\ From(t, taken, Iterations + 1)
  BY <1>1, <1>4, <1>6, <1>7, FromMore
<1>10. Distinct(h \o t) /\ From(h \o t, taken, Iterations + 1)
  BY <1>4, <1>5, <1>6, <1>7, <1>8, <1>9, DistinctConcat, FromConcat
<1>11. mem'.messages = h \o t /\ mem'.checkpoint = <<>>
  <2>1. mem' = [[mem EXCEPT !.messages = h \o t] EXCEPT !.pending = FALSE]
    BY <1>3, <1>5 DEF ShortcutReply
  <2>2. mem \in Session /\ mem.checkpoint = <<>>
    BY <1>1 DEF NInv, IInv, SessionOK, Positions
  <2> QED BY <2>1, <2>2 DEF Session
<1>12. taken' \ {input'} = taken
  BY TurnAssumption DEF ShortcutReply, TurnOver, NInv, IInv, Types, MessageTypes, Inputs
<1>13. SessionNumbered'
  BY <1>10, <1>11, <1>12, WithoutCheckpoint
<1> QED BY <1>13, OverNumbered DEF ShortcutReply

----------------------------------------------------------------------------
(* The runner writes one of each in an iteration. *)

\* What the runner adds, and the checkpoints it sets.
LEMMA WritesNumbered ==
    ASSUME NInv, pc \in {"model", "tools", "join", "exhausted"}
    PROVE  /\ iteration \in 0..Iterations + 1 /\ Iterations \in Nat /\ input \in taken
           /\ pc \in {"model", "tools", "join"} => iteration > 0
           /\ \A h \in {<<Text>>, <<Text, GoOn>>, <<Call, Result>>, <<Call, Result, Text>>} :
                 /\ h \in Seq(Entries) /\ Distinct(h)
                 /\ \A i \in DOMAIN h : h[i].role = "user" \/ h[i].of = {<<input, iteration>>}
           /\ \A c \in {<<Text>>, <<Call, Unfinished>>, <<Call, Result>>} :
                 From(c, {input}, Iterations + 1)
<1>1. /\ {Call, Result, Text, Unfinished, GoOn} \subseteq Entries
      /\ Call.role = "call" /\ Result.role = "tool" /\ Text.role = "assistant"
      /\ Unfinished.role = "tool" /\ GoOn.role = "user"
  BY TurnMessages DEF NInv, IInv
<1>2. /\ Call.of = {<<input, iteration>>} /\ Result.of = {<<input, iteration>>}
      /\ Text.of = {<<input, iteration>>} /\ Unfinished.of = {<<input, iteration>>}
  <2>1. Unfinished.of = Result.of
    BY DEF Unfinished, Result
  <2> QED BY <2>1 DEF Call, Result, Text, Reply
<1>3. /\ iteration \in 0..Iterations + 1 /\ Iterations \in Nat /\ input \in taken
      /\ pc \in {"model", "tools", "join"} => iteration > 0
  BY TurnAssumption DEF NInv, IInv, Types, Positions, RunNumbered
<1>4. ASSUME NEW h \in {<<Text>>, <<Text, GoOn>>, <<Call, Result>>, <<Call, Result, Text>>}
      PROVE  /\ h \in Seq(Entries) /\ Distinct(h)
             /\ \A i \in DOMAIN h : h[i].role = "user" \/ h[i].of = {<<input, iteration>>}
  <2>1. CASE h = <<Text>>
    BY <1>1, <1>2, <2>1 DEF Distinct
  <2>2. CASE h = <<Text, GoOn>>
    BY <1>1, <1>2, <2>2 DEF Distinct
  <2>3. CASE h = <<Call, Result>>
    BY <1>1, <1>2, <2>3 DEF Distinct
  <2>4. CASE h = <<Call, Result, Text>>
    BY <1>1, <1>2, <2>4 DEF Distinct
  <2> QED BY <1>4, <2>1, <2>2, <2>3, <2>4
<1>5. ASSUME NEW c \in {<<Text>>, <<Call, Unfinished>>, <<Call, Result>>}
      PROVE  From(c, {input}, Iterations + 1)
  <2>1. \A i \in DOMAIN c : c[i].of = {<<input, iteration>>}
    BY <1>2, <1>5
  <2>2. iteration \in 0..Iterations + 1
    BY <1>3
  <2> QED BY <2>1, <2>2 DEF From
<1> QED BY <1>3, <1>4, <1>5

\* The next iteration, or SAVE, with what has been written up to this one.
LEMMA IterationNumbered ==
    ASSUME NInv, pc \in {"model", "tools", "join", "exhausted"}, input' = input,
           taken \subseteq taken', NEW n \in Nat, n <= iteration, Numbered(run', n),
           NextIteration \/ LeaveRunner \/ TakeFollowUps
    PROVE  RunNumbered'
<1>1. iteration \in 0..Iterations + 1 /\ Iterations \in Nat /\ input \in taken
  BY WritesNumbered
<1>2. PICK r : r = run'
  OBVIOUS
<1>3. Distinct(r) /\ From(r, {input}, iteration) /\ From(r, {input}, Iterations + 1)
  <2>1. iteration \in Nat /\ iteration <= Iterations + 1
        /\ Iterations + 1 \in Nat
    BY <1>1
  <2> QED BY <1>2, <2>1, FromMore DEF Numbered
<1>4. CASE NextIteration
  <2>1. iteration' - 1 = iteration /\ pc' \in {"model", "exhausted"}
    BY <1>1, <1>4 DEF NextIteration
  <2> QED BY <1>1, <1>2, <1>3, <2>1 DEF RunNumbered, Numbered
<1>5. CASE LeaveRunner
  BY <1>1, <1>2, <1>3, <1>5 DEF LeaveRunner, RunNumbered, Numbered
<1>6. CASE TakeFollowUps
  BY <1>1, <1>2, <1>3, <1>6 DEF TakeFollowUps, RunNumbered, Numbered
<1> QED BY <1>4, <1>5, <1>6

LEMMA CallToolsNumbered ==
    ASSUME NInv, CallTools
    PROVE  SessionNumbered' /\ RunNumbered'
<1>1. /\ pc = "model" /\ Checkpoint(<<Call, Unfinished>>) /\ run' = Append(run, Call)
      /\ UNCHANGED <<input, iteration, taken>> /\ pc' = "tools"
  BY DEF CallTools
<1>2. SessionNumbered'
  BY <1>1, WritesNumbered, CheckpointNumbered
<1>3. Call \in Entries /\ run \in Seq(Entries) /\ input \in taken
  BY <1>1, TurnMessages DEF NInv, IInv, RunOK, RunPart, RunNumbered
<1>4. PICK r : r = run
  OBVIOUS
<1>5. SubSeq(run', 1, Len(run') - 1) = r
  BY <1>1, <1>3, <1>4
<1>6. Distinct(r) /\ From(r, {input}, iteration - 1)
  BY <1>1, <1>4 DEF NInv, RunNumbered, Numbered
<1> QED BY <1>1, <1>2, <1>3, <1>5, <1>6 DEF RunNumbered, Numbered

\* The messages of the run once the results are there.
LEMMA FinishedNumbered ==
    ASSUME NInv, pc = "tools"
    PROVE  Numbered(Append(run, Result), iteration) /\ Numbered(run \o <<Result, Text>>, iteration)
<1>1. PICK r : r = SubSeq(run, 1, Len(run) - 1)
  OBVIOUS
<1>2. /\ r \in Seq(Entries) /\ run \in Seq(Entries) /\ run # <<>> /\ run[Len(run)] = Call
      /\ Numbered(r, iteration - 1)
  BY <1>1 DEF NInv, IInv, RunOK, RunNumbered, RunPart
<1>3. Call \in Entries /\ Result \in Entries /\ Text \in Entries
  BY TurnMessages DEF NInv, IInv
<1>4. run = Append(r, Call)
  BY <1>1, <1>2
<1>5. /\ Append(run, Result) = r \o <<Call, Result>>
      /\ run \o <<Result, Text>> = r \o <<Call, Result, Text>>
  <2>1. PICK a : a = Call
    OBVIOUS
  <2>2. PICK b : b = Result
    OBVIOUS
  <2>3. PICK t : t = Text
    OBVIOUS
  <2>4. Append(Append(r, a), b) = r \o <<a, b>>
    BY <1>2, <1>3, <2>1, <2>2
  <2>5. Append(r, a) \o <<b, t>> = r \o <<a, b, t>>
    <3>1. PICK q : q = Append(r, a)
      OBVIOUS
    <3>2. q \in Seq(Entries) /\ Len(q) = Len(r) + 1 /\ q[Len(r) + 1] = a
          /\ \A i \in 1..Len(r) : q[i] = r[i]
      BY <1>2, <1>3, <2>1, <3>1
    <3>3. /\ Len(q \o <<b, t>>) = Len(r) + 3 /\ Len(r \o <<a, b, t>>) = Len(r) + 3
          /\ q \o <<b, t>> \in Seq(Entries) /\ r \o <<a, b, t>> \in Seq(Entries)
      BY <1>2, <1>3, <2>1, <2>2, <2>3, <3>2
    <3>4. ASSUME NEW i \in 1..Len(r) + 3
          PROVE  (q \o <<b, t>>)[i] = (r \o <<a, b, t>>)[i]
      <4>1. i \in 1..Len(r) \/ i = Len(r) + 1 \/ i = Len(r) + 2 \/ i = Len(r) + 3
        BY <1>2
      <4> QED BY <1>2, <3>2, <4>1
    <3> QED BY <3>1, <3>3, <3>4, SeqEqual
  <2> QED BY <1>4, <2>1, <2>2, <2>3, <2>4, <2>5
<1>6. iteration \in Nat /\ iteration - 1 \in Int /\ iteration - 1 < iteration
  BY WritesNumbered
<1>7. Numbered(r \o <<Call, Result>>, iteration)
  BY <1>2, <1>6, IterationAdds, WritesNumbered
<1>8. Numbered(r \o <<Call, Result, Text>>, iteration)
  BY <1>2, <1>6, IterationAdds, WritesNumbered
<1> QED BY <1>5, <1>7, <1>8

LEMMA ToolsCompletedNumbered ==
    ASSUME NInv, ToolsCompleted
    PROVE  SessionNumbered' /\ RunNumbered'
<1>1. /\ pc = "tools" /\ Checkpoint(<<Call, Result>>) /\ run' = Append(run, Result)
      /\ UNCHANGED <<input, taken>> /\ (NextIteration \/ TakeFollowUps)
  BY DEF ToolsCompleted
<1>2. PICK r : r = Append(run, Result)
  OBVIOUS
<1>3. Numbered(r, iteration)
  BY <1>1, <1>2, FinishedNumbered
<1>4. Numbered(run', iteration)
  BY <1>1, <1>2, <1>3 DEF Numbered
<1>5. iteration \in Nat /\ iteration <= iteration
  BY <1>1, WritesNumbered
<1> QED BY <1>1, <1>4, <1>5, IterationNumbered, WritesNumbered, CheckpointNumbered

LEMMA ToolsFailedNumbered ==
    ASSUME NInv, ToolsFailed
    PROVE  SessionNumbered' /\ RunNumbered'
<1>1. /\ pc = "tools" /\ UNCHANGED <<mem, input, taken>> /\ run' = run \o <<Result, Text>>
      /\ LeaveRunner \/ TakeFollowUps
  BY DEF ToolsFailed, NoCheckpoint
<1>2. PICK r : r = run \o <<Result, Text>>
  OBVIOUS
<1>3. Numbered(r, iteration)
  BY <1>1, <1>2, FinishedNumbered
<1>4. Numbered(run', iteration)
  BY <1>1, <1>2, <1>3 DEF Numbered
<1>5. iteration \in Nat /\ iteration <= iteration
  BY <1>1, WritesNumbered
<1> QED BY <1>1, <1>4, <1>5, IterationNumbered, OthersKept

\* The messages of the run once the model has answered.
LEMMA AnsweredNumbered ==
    ASSUME NInv, pc = "model"
    PROVE  /\ Numbered(run, iteration - 1) /\ Numbered(Append(run, Text), iteration)
           /\ Numbered(run \o <<Text, GoOn>>, iteration)
<1>1. Numbered(run, iteration - 1) /\ run \in Seq(Entries)
  BY DEF NInv, IInv, RunOK, RunNumbered, RunPart
<1>2. iteration \in Nat /\ iteration - 1 \in Int /\ iteration - 1 < iteration
  BY WritesNumbered
<1>3. Append(run, Text) = run \o <<Text>>
  BY <1>1
<1>4. Numbered(run \o <<Text>>, iteration)
  BY <1>1, <1>2, IterationAdds, WritesNumbered
<1>5. Numbered(run \o <<Text, GoOn>>, iteration)
  BY <1>1, <1>2, IterationAdds, WritesNumbered
<1> QED BY <1>1, <1>3, <1>4, <1>5

LEMMA AnswerNumbered ==
    ASSUME NInv, Answer
    PROVE  SessionNumbered' /\ RunNumbered'
<1>1. /\ pc = "model" /\ Checkpoint(<<Text>>) /\ run' = Append(run, Text)
      /\ UNCHANGED <<input, taken>> /\ (LeaveRunner \/ TakeFollowUps)
  BY DEF Answer
<1>2. PICK r : r = Append(run, Text)
  OBVIOUS
<1>3. Numbered(r, iteration)
  BY <1>1, <1>2, AnsweredNumbered
<1>4. Numbered(run', iteration)
  BY <1>1, <1>2, <1>3 DEF Numbered
<1>5. iteration \in Nat /\ iteration <= iteration
  BY <1>1, WritesNumbered
<1> QED BY <1>1, <1>4, <1>5, IterationNumbered, WritesNumbered, CheckpointNumbered

LEMMA GoalGoesOnNumbered ==
    ASSUME NInv, GoalGoesOn
    PROVE  SessionNumbered' /\ RunNumbered'
<1>1. /\ pc = "model" /\ Checkpoint(<<Text>>) /\ run' = run \o <<Text, GoOn>>
      /\ UNCHANGED <<input, taken>> /\ NextIteration
  BY DEF GoalGoesOn
<1>2. PICK r : r = run \o <<Text, GoOn>>
  OBVIOUS
<1>3. Numbered(r, iteration)
  BY <1>1, <1>2, AnsweredNumbered
<1>4. Numbered(run', iteration)
  BY <1>1, <1>2, <1>3 DEF Numbered
<1>5. iteration \in Nat /\ iteration <= iteration
  BY <1>1, WritesNumbered
<1> QED BY <1>5, <1>1, <1>4, IterationNumbered, WritesNumbered, CheckpointNumbered

LEMMA NoAnswerNumbered ==
    ASSUME NInv, NoAnswer
    PROVE  SessionNumbered' /\ RunNumbered'
<1>1. /\ pc = "model" /\ UNCHANGED <<mem, input, taken>> /\ (LeaveRunner \/ TakeFollowUps)
      /\ run' = run \/ run' = Append(run, Text)
  BY DEF NoAnswer, NoCheckpoint
<1>2. PICK r : r = run'
  OBVIOUS
<1>3. /\ iteration - 1 \in Nat /\ iteration - 1 <= iteration
      /\ iteration \in Nat /\ iteration <= iteration
  BY <1>1, WritesNumbered
<1>4. CASE run' = run
  <2>1. Numbered(r, iteration - 1)
    BY <1>1, <1>2, <1>4, AnsweredNumbered
  <2>2. Numbered(run', iteration - 1)
    BY <1>1, <1>2, <2>1 DEF Numbered
  <2> QED BY <1>1, <1>3, <2>2, IterationNumbered, OthersKept
<1>5. CASE run' = Append(run, Text)
  <2>1. Numbered(r, iteration)
    BY <1>1, <1>2, <1>5, AnsweredNumbered
  <2>2. Numbered(run', iteration)
    BY <1>1, <1>2, <2>1 DEF Numbered
  <2> QED BY <1>1, <1>3, <2>2, IterationNumbered, OthersKept
<1> QED BY <1>1, <1>4, <1>5

LEMMA BlankNumbered ==
    ASSUME NInv, Blank
    PROVE  SessionNumbered' /\ RunNumbered'
<1>1. pc = "model" /\ UNCHANGED <<mem, input, run, taken>> /\ NextIteration
  BY DEF Blank
<1>2. PICK r : r = run
  OBVIOUS
<1>3. Numbered(r, iteration - 1)
  BY <1>1, <1>2, AnsweredNumbered
<1>4. Numbered(run', iteration - 1)
  BY <1>1, <1>2, <1>3 DEF Numbered
<1>5. iteration - 1 \in Nat /\ iteration - 1 <= iteration
  BY <1>1, WritesNumbered
<1> QED BY <1>5, <1>1, <1>4, IterationNumbered, OthersKept

LEMMA TruncatedNumbered ==
    ASSUME NInv, Truncated
    PROVE  SessionNumbered' /\ RunNumbered'
<1>1. /\ pc = "model" /\ UNCHANGED <<mem, input, taken>> /\ NextIteration
      /\ run' = run \o <<Text, GoOn>>
  BY DEF Truncated
<1>2. PICK r : r = run \o <<Text, GoOn>>
  OBVIOUS
<1>3. Numbered(r, iteration)
  BY <1>1, <1>2, AnsweredNumbered
<1>4. Numbered(run', iteration)
  BY <1>1, <1>2, <1>3 DEF Numbered
<1>5. iteration \in Nat /\ iteration <= iteration
  BY <1>1, WritesNumbered
<1> QED BY <1>5, <1>1, <1>4, IterationNumbered, OthersKept

LEMMA JoinNumbered ==
    ASSUME NInv, NEW m, Join(m)
    PROVE  SessionNumbered' /\ RunNumbered'
<1>1. /\ pc \in {"join", "exhausted"} /\ m \in FollowUps /\ run' = WithJoined(run, m)
      /\ UNCHANGED <<mem, input>> /\ taken \subseteq taken'
  BY DEF Join
<1>2. m \in Joining /\ RunPart(run)
  BY <1>1 DEF FollowUps, Joining, NInv, IInv, RunOK, Types, MessageTypes
<1>3. iteration \in Nat /\ iteration - 1 \in Int /\ iteration <= iteration /\ input \in taken
  BY <1>1, WritesNumbered
<1>4. SessionNumbered'
  BY <1>1, OthersKept
<1>5. PICK r : r = WithJoined(run, m)
  OBVIOUS
<1>6. CASE pc = "join"
  <2>1. Numbered(r, iteration)
    BY <1>2, <1>3, <1>5, <1>6, JoinedNumbered DEF NInv, RunNumbered
  <2>2. Numbered(run', iteration)
    BY <1>1, <1>5, <2>1 DEF Numbered
  <2>3. CASE NextIteration
    BY <1>1, <1>3, <1>4, <2>2, <2>3, IterationNumbered
  <2>4. CASE UNCHANGED <<pc, iteration>>
    BY <1>1, <1>3, <1>4, <1>5, <1>6, <2>1, <2>4 DEF RunNumbered, Numbered
  <2> QED BY <2>3, <2>4 DEF Join
<1>7. CASE pc = "exhausted"
  <2>1. Numbered(r, iteration - 1)
    BY <1>2, <1>3, <1>5, <1>7, JoinedNumbered DEF NInv, RunNumbered
  <2>2. UNCHANGED <<pc, iteration>>
    BY <1>7 DEF Join
  <2> QED BY <1>1, <1>3, <1>4, <1>5, <1>7, <2>1, <2>2 DEF RunNumbered, Numbered
<1> QED BY <1>1, <1>6, <1>7

LEMMA OutOfIterationsNumbered ==
    ASSUME NInv, OutOfIterations
    PROVE  SessionNumbered' /\ RunNumbered'
<1>1. /\ pc = "exhausted" /\ run' = Append(run, Text)
      /\ UNCHANGED <<mem, input, taken>> /\ LeaveRunner
  BY DEF OutOfIterations
<1>2. iteration \in Nat /\ iteration - 1 \in Int /\ iteration - 1 < iteration
  BY <1>1, WritesNumbered
<1>3. Numbered(run, iteration - 1) /\ run \in Seq(Entries)
  BY <1>1 DEF NInv, IInv, RunOK, RunNumbered, RunPart
<1>4. Numbered(run \o <<Text>>, iteration)
  BY <1>1, <1>2, <1>3, IterationAdds, WritesNumbered
<1>5. run' = run \o <<Text>>
  BY <1>1, <1>3
<1>6. PICK k : k = run \o <<Text>>
  OBVIOUS
<1>7. Numbered(run', iteration)
  BY <1>1, <1>4, <1>5, <1>6 DEF Numbered
<1>8. iteration \in Nat /\ iteration <= iteration
  BY <1>1, WritesNumbered
<1> QED BY <1>8, <1>1, <1>7, IterationNumbered, OthersKept

LEMMA ContinueLaterNumbered ==
    ASSUME NInv, NEW c, ContinueLater(c)
    PROVE  SessionNumbered' /\ RunNumbered'
<1>1. /\ pc = "exhausted" /\ pc' = "cut" /\ UNCHANGED <<mem, input, run, taken>>
  BY DEF ContinueLater
<1>2. iteration \in 0..Iterations + 1 /\ Iterations \in Nat /\ input \in taken
  BY <1>1, WritesNumbered
<1>3. 0..iteration - 1 \subseteq 0..Iterations + 1
  BY <1>2
<1>4. Numbered(run, iteration - 1)
  BY <1>1 DEF NInv, RunNumbered
<1>5. Distinct(run) /\ From(run, {input}, Iterations + 1)
  BY <1>3, <1>4 DEF Numbered, From
<1>6. PICK r : r = run
  OBVIOUS
<1>7. Numbered(run, Iterations + 1)'
  BY <1>1, <1>5, <1>6 DEF Numbered
<1>8. SessionNumbered'
  BY <1>1, OthersKept
<1> QED BY <1>1, <1>2, <1>7, <1>8 DEF RunNumbered

----------------------------------------------------------------------------
(* How a turn ends. *)

LEMMA SaveTurnNumbered ==
    ASSUME NInv, SaveTurn
    PROVE  SessionNumbered' /\ RunNumbered'
<1>1. pc \in {"save", "cut"} /\ input \in taken /\ Iterations + 1 \in Nat
  BY TurnAssumption DEF SaveTurn, NInv, RunNumbered
<1>2. PICK h : h = mem.messages
  OBVIOUS
<1>3. PICK r : r = run
  OBVIOUS
<1>4. /\ h \in Seq(Entries) /\ r \in Seq(Entries)
      /\ Distinct(h) /\ From(h, taken \ {input}, Iterations + 1)
      /\ Distinct(r) /\ From(r, {input}, Iterations + 1)
  BY <1>1, <1>2, <1>3
     DEF NInv, IInv, SessionOK, Session, SessionNumbered, RunNumbered, Numbered, RunOK, RunPart
<1>5. Apart(h, r)
  BY <1>1, <1>4, TurnsApart
<1>6. From(h, taken, Iterations + 1) /\ From(r, taken, Iterations + 1)
  BY <1>1, <1>4, FromMore
<1>7. Distinct(h \o r) /\ From(h \o r, taken, Iterations + 1)
  BY <1>1, <1>4, <1>5, <1>6, DistinctConcat, FromConcat
<1>8. mem'.messages = h \o r /\ mem'.checkpoint = <<>>
  BY <1>2, <1>3 DEF SaveTurn, Save
<1>9. taken' \ {input'} = taken
  BY TurnAssumption DEF SaveTurn, TurnOver, NInv, IInv, Types, MessageTypes, Inputs
<1>10. SessionNumbered'
  BY <1>7, <1>8, <1>9, WithoutCheckpoint
<1> QED BY <1>10, OverNumbered DEF SaveTurn

LEMMA CancelNumbered ==
    ASSUME NInv, Cancel
    PROVE  SessionNumbered' /\ RunNumbered'
<1>1. Iterations + 1 \in Nat /\ taken' = taken /\ taken' \ {input'} = taken /\ input' \notin taken'
  BY TurnAssumption DEF Cancel, TurnOver, NInv, IInv, Types, MessageTypes, Inputs
<1>2. CASE mem.checkpoint # <<>>
  <2>1. From(mem.messages, taken, Iterations + 1)
    BY <1>1, FromMore DEF NInv, SessionNumbered
  <2>2. /\ Distinct(RestoreCheckpoint(mem).messages)
        /\ From(RestoreCheckpoint(mem).messages, taken, Iterations + 1)
    BY <1>1, <2>1, RestoredDistinct DEF NInv, IInv, SessionNumbered
  <2>3. mem' = RestoreCheckpoint(mem) /\ RestoreCheckpoint(mem).checkpoint = <<>>
    BY <1>2, CheckpointRestoredOK DEF Cancel, Save, NInv, IInv
  <2>4. SessionNumbered'
    BY <1>1, <2>2, <2>3, WithoutCheckpoint
  <2> QED BY <2>4, OverNumbered DEF Cancel
<1>3. CASE mem.checkpoint = <<>>
  <2>1. UNCHANGED mem
    BY <1>3 DEF Cancel, NoCheckpoint
  <2> QED BY <1>1, <2>1, OthersKept, OverNumbered DEF Cancel
<1> QED BY <1>2, <1>3

LEMMA FailNumbered ==
    ASSUME NInv, Fail
    PROVE  SessionNumbered' /\ RunNumbered'
<1>1. taken' = taken /\ input' \notin taken' /\ UNCHANGED mem
  BY TurnAssumption DEF Fail, TurnOver, NInv, IInv, Types, MessageTypes, Inputs
<1> QED BY <1>1, OthersKept, OverNumbered DEF Fail

\* Nothing is left in the history to tell apart.
LEMMA ClearedNumbered ==
    ASSUME NInv, mem'.messages = <<>>, taken \subseteq taken',
           mem'.checkpoint = mem.checkpoint \/ mem'.checkpoint = <<>>
    PROVE  SessionNumbered'
<1>1. Iterations + 1 \in Nat
  BY TurnAssumption
<1>2. PICK c : c = mem.checkpoint
  OBVIOUS
<1>3. From(c, taken', Iterations + 1) /\ From(<<>>, taken', Iterations + 1)
  BY <1>1, <1>2, FromMore DEF NInv, SessionNumbered, From
<1>4. /\ Distinct(<<>>) /\ From(<<>>, taken' \ {input'}, Iterations + 1)
      /\ Apart(<<>>, c) /\ Apart(<<>>, <<>>)
  BY DEF Distinct, From, Apart
<1> QED BY <1>2, <1>3, <1>4 DEF SessionNumbered

LEMMA NewNumbered ==
    ASSUME NInv, New
    PROVE  SessionNumbered' /\ RunNumbered'
<1>1. mem' = [mem EXCEPT !.messages = <<>>] /\ taken' = taken
  BY DEF New, Save, Cleared
<1>2. mem'.messages = <<>> /\ mem'.checkpoint = mem.checkpoint
  BY <1>1 DEF NInv, IInv, SessionOK, Session
<1> QED BY <1>1, <1>2, ClearedNumbered, OverNumbered DEF New

LEMMA NewInlineNumbered ==
    ASSUME NInv, NEW u \in Inputs, NewInline(u)
    PROVE  SessionNumbered' /\ RunNumbered'
<1>1. PICK s : s = RestoreCheckpoint(mem)
  OBVIOUS
<1>2. s \in Session /\ s.checkpoint = <<>>
  BY <1>1, CheckpointRestoredOK DEF NInv, IInv, SessionOK
<1>3. mem' = [s EXCEPT !.messages = <<>>] /\ taken \subseteq taken'
  BY <1>1 DEF NewInline, Save, Cleared
<1>4. mem'.messages = <<>> /\ mem'.checkpoint = <<>>
  BY <1>2, <1>3 DEF Session
<1> QED BY <1>3, <1>4, ClearedNumbered, OverNumbered DEF NewInline

LEMMA CrashNumbered ==
    ASSUME NInv, Crash
    PROVE  SessionNumbered' /\ RunNumbered'
<1>1. /\ mem'.messages = mem.messages /\ mem'.checkpoint = mem.checkpoint
      /\ taken' = taken
  BY DEF Crash, NInv, IInv, Same
<1>2. input' \notin taken'
  BY TurnAssumption DEF Crash, TurnOver, NInv, IInv, Types, MessageTypes, Inputs
<1> QED BY <1>1, <1>2, OthersKept, OverNumbered DEF Crash

\* No step breaks the invariant.
LEMMA NextNumbered ==
    ASSUME NInv, [Next]_vars
    PROVE  NInv'
<1>1. IInv'
  BY NextInv DEF NInv
<1>2. SessionNumbered' /\ RunNumbered'
  <2>1. CASE \E u \in Inputs : Restore(u) \/ NewInline(u)
    BY <2>1, RestoreNumbered, NewInlineNumbered
  <2>2. CASE Build \/ BuildContinuation \/ Shortcut \/ ShortcutReply \/ New
    BY <2>2, BuildNumbered, BuildContinuationNumbered, ShortcutNumbered, ShortcutReplyNumbered,
       NewNumbered
  <2>3. CASE RunnerStep
    BY <2>3, CallToolsNumbered, BlankNumbered, TruncatedNumbered, GoalGoesOnNumbered,
       ToolsCompletedNumbered, ToolsFailedNumbered, AnswerNumbered, NoAnswerNumbered,
       JoinNumbered, OutOfIterationsNumbered, ContinueLaterNumbered DEF RunnerStep
  <2>4. CASE SaveTurn \/ Cancel \/ Fail \/ Crash
    BY <2>4, SaveTurnNumbered, CancelNumbered, FailNumbered, CrashNumbered
  <2>5. CASE UNCHANGED vars
    BY <2>5 DEF vars, NInv, SessionNumbered, RunNumbered, Numbered
  <2> QED BY <2>1, <2>2, <2>3, <2>4, <2>5 DEF Next
<1> QED BY <1>1, <1>2 DEF NInv

\* A restored checkpoint never repeats what the history already has: no call,
\* no result and no answer is twice in the history the next turn begins with.
THEOREM RestoredOnce == Spec => []NoneTwice
<1>1. Init => NInv
  BY InitInv, InitNumbered DEF NInv
<1>2. NInv /\ [Next]_vars => NInv'
  BY NextNumbered
<1>3. NInv => NoneTwice
  <2> SUFFICES ASSUME NInv PROVE NoneTwice
    OBVIOUS
  <2>1. Iterations + 1 \in Nat
    BY TurnAssumption
  <2>2. From(mem.messages, taken, Iterations + 1)
    BY <2>1, FromMore DEF NInv, SessionNumbered
  <2>3. Distinct(Restored(mem).messages)
    BY <2>1, <2>2, RestoredDistinct DEF NInv, IInv, SessionNumbered
  <2>4. Restored(disk).messages = Restored(mem).messages
    BY DiskRestored DEF NInv, IInv
  <2> QED BY <2>3, <2>4 DEF NoneTwice, Distinct
<1> QED BY <1>1, <1>2, <1>3, PTL DEF Spec
=============================================================================
