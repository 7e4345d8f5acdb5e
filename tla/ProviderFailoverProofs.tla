----------------------- MODULE ProviderFailoverProofs -----------------------
(***************************************************************************)
(* Theorems about ProviderFailover, for any number of requests, fallbacks  *)
(* and retries.                                                            *)
(***************************************************************************)
EXTENDS ProviderFailover, TLAPS

----------------------------------------------------------------------------
(* The inductive invariant. *)

Hears(q) == ~q.dropped /\ ~q.muted
InCall(q) == q.pc \in {"primary", "fallback"}

\* How the flags of the two layers go with what the user sees: the flag of the
\* retries says whether the segment has content, that of the failover whether
\* the call that ended last has put it there.  A call that is heard begins with
\* an empty segment.
Consistent(q) ==
    /\ q.segment \notin {"mixed", "blank"}
    /\ q.mode = "stream" => ~q.muted /\ ~q.dropped /\ q.segment # "earlier"
    /\ ~q.muted => (q.outer <=> q.segment # "empty")
    /\ q.pc \in {"primary", "next", "fallback"} /\ q.inner /\ ~q.muted => q.outer
    /\ q.pc \in {"next", "fallback"} => Fallbacks > 0
    /\ q.pc = "answered" => q.response \in Errors \cup {"ok", "circuit"}
    /\ InCall(q) /\ Hears(q) /\ ~q.spoke => q.segment = "empty"
    /\ InCall(q) /\ Fallbacks > 0 /\ ~q.dropped /\ q.spoke => q.inner
    /\ q.pc = "next" /\ Hears(q) /\ ~q.inner => q.segment = "empty"
    /\ q.pc \in {"attempt", "waiting"} /\ ~q.muted => q.segment = "empty"

IInv == TypeOK /\ \A r \in Requests : Consistent(req[r])

----------------------------------------------------------------------------
(* Every action preserves the invariant. *)

\* A step writes the record of one request.
LEMMA OneRequest ==
    ASSUME IInv, NEW r \in Requests, NEW q \in Request, Consistent(q),
           req' = [req EXCEPT ![r] = q],
           failures' \in 0..Threshold, circuit' \in {"closed", "open", "cooled"},
           circuit' # "closed" <=> failures' = Threshold
    PROVE  IInv'
<1>1. req' \in [Requests -> Request]
  BY DEF IInv, TypeOK
<1>2. ASSUME NEW s \in Requests PROVE Consistent(req'[s])
  <2>1. CASE s = r
    BY <2>1 DEF IInv, TypeOK
  <2>2. CASE s # r
    BY <2>2 DEF IInv, TypeOK
  <2> QED BY <2>1, <2>2
<1> QED BY <1>1, <1>2 DEF IInv, TypeOK, Consistent, InCall, Hears

Pcs == {"idle", "attempt", "primary", "next", "fallback", "answered", "waiting", "done"}
Segments == {"empty", "this", "earlier", "mixed", "blank"}
Responses == Errors \cup {"ok", "circuit", "none", "abandoned"}

\* A flag of a record is set or cleared.
LEMMA Flags ==
    ASSUME NEW q \in Request, NEW b \in BOOLEAN
    PROVE  /\ [q EXCEPT !.outer = b] \in Request
           /\ [q EXCEPT !.inner = b] \in Request
           /\ [q EXCEPT !.muted = b] \in Request
           /\ [q EXCEPT !.dropped = b] \in Request
           /\ [q EXCEPT !.failed = b] \in Request
           /\ [q EXCEPT !.spoke = b] \in Request
           /\ [q EXCEPT !.final = b] \in Request
<1>1. [q EXCEPT !.outer = b] \in Request
  BY DEF Request
<1>2. [q EXCEPT !.inner = b] \in Request
  BY DEF Request
<1>3. [q EXCEPT !.muted = b] \in Request
  BY DEF Request
<1>4. [q EXCEPT !.dropped = b] \in Request
  BY DEF Request
<1>5. [q EXCEPT !.failed = b] \in Request
  BY DEF Request
<1>6. [q EXCEPT !.spoke = b] \in Request
  BY DEF Request
<1>7. [q EXCEPT !.final = b] \in Request
  BY DEF Request
<1> QED BY <1>1, <1>2, <1>3, <1>4, <1>5, <1>6, <1>7

\* Another field of a record gets a value of its type.
LEMMA Values ==
    ASSUME NEW q \in Request
    PROVE  /\ \A c \in Pcs : [q EXCEPT !.pc = c] \in Request
           /\ \A s \in Segments : [q EXCEPT !.segment = s] \in Request
           /\ \A a \in Responses : [q EXCEPT !.response = a] \in Request
           /\ \A n \in 0..Retries + 1 : [q EXCEPT !.attempt = n] \in Request
           /\ \A n \in 0..Fallbacks : [q EXCEPT !.at = n] \in Request
           /\ \A e \in (Errors \ Raised) \cup {"none"} : [q EXCEPT !.last = e] \in Request
           /\ \A e \in Errors \cup {"circuit", "none"} : [q EXCEPT !.key = e] \in Request
           /\ \A n \in Nat : [q EXCEPT !.same = n] \in Request
<1>1. \A c \in Pcs : [q EXCEPT !.pc = c] \in Request
  BY DEF Request, Pcs
<1>2. \A s \in Segments : [q EXCEPT !.segment = s] \in Request
  BY DEF Request, Segments
<1>3. \A a \in Responses : [q EXCEPT !.response = a] \in Request
  BY DEF Request, Responses
<1>4. \A n \in 0..Retries + 1 : [q EXCEPT !.attempt = n] \in Request
  BY DEF Request
<1>5. \A n \in 0..Fallbacks : [q EXCEPT !.at = n] \in Request
  BY DEF Request
<1>6. \A e \in (Errors \ Raised) \cup {"none"} : [q EXCEPT !.last = e] \in Request
  BY DEF Request
<1>7. \A e \in Errors \cup {"circuit", "none"} : [q EXCEPT !.key = e] \in Request
  BY DEF Request
<1>8. \A n \in Nat : [q EXCEPT !.same = n] \in Request
  BY DEF Request
<1> QED BY <1>1, <1>2, <1>3, <1>4, <1>5, <1>6, <1>7, <1>8

\* Closing a segment keeps the type of the record.
LEMMA RecoveredType ==
    ASSUME NEW q \in Request
    PROVE  Recovered(q) \in Request
<1> DEFINE s == IF q.segment = "empty" THEN "blank" ELSE "empty"
           p == [q EXCEPT !.outer = FALSE]
<1>1. s \in Segments
  BY DEF Segments
<1>2. p \in Request
  BY Flags
<1>3. [p EXCEPT !.segment = s] \in Request
  BY <1>1, <1>2, Values
<1> QED BY <1>3 DEF Recovered

\* So does going on after a call that has streamed.
LEMMA ReopenedType ==
    ASSUME NEW q \in Request
    PROVE  Reopened(q) \in Request
<1>1. CASE ~q.inner
  BY <1>1 DEF Reopened
<1>2. CASE q.inner /\ q.mode = "stream"
  <2>1. [Recovered(q) EXCEPT !.inner = FALSE] \in Request
    BY RecoveredType, Flags
  <2> QED BY <1>2, <2>1 DEF Reopened
<1>3. CASE q.inner /\ q.mode # "stream"
  <2> DEFINE p == [q EXCEPT !.inner = FALSE]
  <2>1. p \in Request
    BY Flags
  <2>2. [p EXCEPT !.dropped = TRUE] \in Request
    BY <2>1, Flags
  <2> QED BY <1>3, <2>2 DEF Reopened
<1> QED BY <1>1, <1>2, <1>3

\* So does going on after a response.
LEMMA ResumedType ==
    ASSUME NEW q \in Request
    PROVE  Resumed(q) \in Request
<1>1. [q EXCEPT !.muted = TRUE] \in Request
  BY Flags
<1> QED BY <1>1, RecoveredType DEF Resumed

\* So does the beginning of a call.
LEMMA CallingType ==
    ASSUME NEW q \in Request, NEW c \in Pcs
    PROVE  Calling(q, c) \in Request
<1> DEFINE s == IF q.segment = "this" THEN "earlier" ELSE q.segment
           p1 == [q EXCEPT !.pc = c]
           p2 == [p1 EXCEPT !.spoke = FALSE]
<1>1. s \in Segments
  BY DEF Segments, Request
<1>2. p1 \in Request
  BY Values
<1>3. p2 \in Request
  BY <1>2, Flags
<1>4. [p2 EXCEPT !.segment = s] \in Request
  BY <1>1, <1>3, Values
<1> QED BY <1>4 DEF Calling

\* So does the end of the failover.
LEMMA AnsweredType ==
    ASSUME NEW q \in Request, NEW a \in Responses
    PROVE  Answered(q, a) \in Request
<1> DEFINE p == [q EXCEPT !.pc = "answered"]
<1>1. p \in Request
  BY Values DEF Pcs
<1>2. [p EXCEPT !.response = a] \in Request
  BY <1>1, Values
<1> QED BY <1>2 DEF Answered

\* Content reaches a segment that is empty.
LEMMA DeltaStep ==
    ASSUME FailoverAssumption, IInv, NEW r \in Requests, Delta(r)
    PROVE  IInv'
<1> DEFINE q == req[r]
<1>1. q \in Request /\ Consistent(q) /\ TypeOK
  BY DEF IInv, TypeOK
<1> DEFINE x == [q EXCEPT !.spoke = TRUE,
                           !.inner = Fallbacks > 0 /\ ~q.dropped,
                           !.outer = @ \/ (~q.dropped /\ ~q.muted),
                           !.segment = IF ~(~q.dropped /\ ~q.muted) THEN @
                                       ELSE IF @ = "empty" THEN "this" ELSE "mixed"]
<1>2. req' = [req EXCEPT ![r] = x]
  BY DEF Delta
<1>3. x \in Request
  <2> DEFINE i == Fallbacks > 0 /\ ~q.dropped
             o == q.outer \/ (~q.dropped /\ ~q.muted)
             s == IF ~(~q.dropped /\ ~q.muted) THEN q.segment
                  ELSE IF q.segment = "empty" THEN "this" ELSE "mixed"
             p1 == [q EXCEPT !.spoke = TRUE]
             p2 == [p1 EXCEPT !.inner = i]
             p3 == [p2 EXCEPT !.outer = o]
  <2>1. i \in BOOLEAN /\ o \in BOOLEAN
    OBVIOUS
  <2>2. s \in Segments
    BY <1>1 DEF Segments, Request
  <2> HIDE DEF i, o, s
  <2>3. p1 \in Request
    BY <1>1, Flags
  <2>4. p2 \in Request
    BY <2>1, <2>3, Flags
  <2>5. p3 \in Request
    BY <2>1, <2>4, Flags
  <2>6. [p3 EXCEPT !.segment = s] \in Request
    BY <2>2, <2>5, Values
  <2> QED BY <2>6 DEF i, o, s
<1>4. Consistent(x)
  <2> DEFINE heard == ~q.dropped /\ ~q.muted
  <2>1. /\ x.pc = q.pc /\ x.mode = q.mode /\ x.muted = q.muted /\ x.dropped = q.dropped
        /\ x.response = q.response /\ x.spoke = TRUE
        /\ x.inner = (Fallbacks > 0 /\ ~q.dropped)
        /\ x.outer = (q.outer \/ heard)
        /\ x.segment = IF ~heard THEN q.segment
                       ELSE IF q.segment = "empty" THEN "this" ELSE "mixed"
    BY <1>1 DEF Request
  <2>2. q.pc \in {"primary", "fallback"} /\ ~q.spoke
    BY DEF Delta
  <2> HIDE DEF x
  <2>3. CASE heard
    <3>1. q.segment = "empty"
      BY <1>1, <2>2, <2>3 DEF Consistent, InCall, Hears
    <3> QED BY <1>1, <2>1, <2>2, <2>3, <3>1 DEF Consistent, InCall, Hears
  <2>4. CASE ~heard
    <3>1. x.segment = q.segment /\ x.outer = q.outer
      BY <1>1, <2>1, <2>4, Zenon DEF Request
    <3> QED BY <1>1, <2>1, <2>2, <2>4, <3>1 DEF Consistent, InCall, Hears
  <2> QED BY <2>3, <2>4
<1>5. /\ failures' \in 0..Threshold /\ circuit' \in {"closed", "open", "cooled"}
      /\ circuit' # "closed" <=> failures' = Threshold
  BY <1>1 DEF Delta, TypeOK
<1> HIDE DEF x
<1> QED BY <1>2, <1>3, <1>4, <1>5, OneRequest

\* The sleep changes nothing else.
LEMMA WakeStep ==
    ASSUME FailoverAssumption, IInv, NEW r \in Requests, Wake(r)
    PROVE  IInv'
<1> DEFINE q == req[r]
<1>1. q \in Request /\ Consistent(q) /\ TypeOK
  BY DEF IInv, TypeOK
<1> DEFINE x == [q EXCEPT !.pc = "attempt"]
<1>2. req' = [req EXCEPT ![r] = x]
  BY DEF Wake
<1>3. x \in Request
  BY <1>1, Values DEF Pcs
<1>4. Consistent(x)
  BY <1>1 DEF Wake, Consistent, InCall, Hears, Request
<1>5. /\ failures' \in 0..Threshold /\ circuit' \in {"closed", "open", "cooled"}
      /\ circuit' # "closed" <=> failures' = Threshold
  BY <1>1 DEF Wake, TypeOK
<1> HIDE DEF x
<1> QED BY <1>2, <1>3, <1>4, <1>5, OneRequest

\* An abandoned request shows what it showed.
LEMMA AbandonStep ==
    ASSUME FailoverAssumption, IInv, NEW r \in Requests, Abandon(r)
    PROVE  IInv'
<1> DEFINE q == req[r]
<1>1. q \in Request /\ Consistent(q) /\ TypeOK
  BY DEF IInv, TypeOK
<1> DEFINE x == [q EXCEPT !.pc = "done", !.response = "abandoned"]
<1>2. req' = [req EXCEPT ![r] = x]
  BY DEF Abandon
<1>3. x \in Request
  <2> DEFINE p == [q EXCEPT !.pc = "done"]
  <2>1. p \in Request
    BY <1>1, Values DEF Pcs
  <2> QED BY <2>1, Values DEF Responses
<1>4. Consistent(x)
  BY <1>1 DEF Abandon, Consistent, InCall, Hears, Request
<1>5. /\ failures' \in 0..Threshold /\ circuit' \in {"closed", "open", "cooled"}
      /\ circuit' # "closed" <=> failures' = Threshold
  BY <1>1 DEF Abandon, TypeOK
<1> HIDE DEF x
<1> QED BY <1>2, <1>3, <1>4, <1>5, OneRequest

\* The answer of the primary.
LEMMA PrimaryAnswersStep ==
    ASSUME FailoverAssumption, IInv, NEW r \in Requests, PrimaryAnswers(r)
    PROVE  IInv'
<1> DEFINE q == req[r]
<1>1. q \in Request /\ Consistent(q) /\ TypeOK
  BY DEF IInv, TypeOK
<1> DEFINE x == Answered(q, "ok")
<1>2. req' = [req EXCEPT ![r] = x]
  BY DEF PrimaryAnswers
<1>3. x \in Request
  BY <1>1, AnsweredType DEF Responses
<1>4. Consistent(x)
  BY <1>1 DEF PrimaryAnswers, Answered, Consistent, InCall, Hears, Request
<1>5. /\ failures' \in 0..Threshold /\ circuit' \in {"closed", "open", "cooled"}
      /\ circuit' # "closed" <=> failures' = Threshold
  BY <1>1 DEF PrimaryAnswers, BreakerResets, TypeOK, FailoverAssumption
<1> HIDE DEF x
<1> QED BY <1>2, <1>3, <1>4, <1>5, OneRequest

\* What the failover returns when it ends.
LEMMA NoFallbackLeftStep ==
    ASSUME FailoverAssumption, IInv, NEW r \in Requests, NoFallbackLeft(r)
    PROVE  IInv'
<1> DEFINE q == req[r]
<1>1. q \in Request /\ Consistent(q) /\ TypeOK
  BY DEF IInv, TypeOK
<1> DEFINE x == Answered(q, IF q.last = "none" THEN "circuit" ELSE q.last)
<1>2. req' = [req EXCEPT ![r] = x]
  BY DEF NoFallbackLeft
<1>3. x \in Request
  <2>1. (IF q.last = "none" THEN "circuit" ELSE q.last) \in Responses
    BY <1>1 DEF Request, Responses
  <2> QED BY <1>1, <2>1, AnsweredType
<1>4. Consistent(x)
  BY <1>1 DEF NoFallbackLeft, Answered, Consistent, InCall, Hears, Request
<1>5. /\ failures' \in 0..Threshold /\ circuit' \in {"closed", "open", "cooled"}
      /\ circuit' # "closed" <=> failures' = Threshold
  BY <1>1 DEF NoFallbackLeft, TypeOK
<1> HIDE DEF x
<1> QED BY <1>2, <1>3, <1>4, <1>5, OneRequest

\* An error of the primary that is returned.
LEMMA PrimaryErrorStep ==
    ASSUME FailoverAssumption, IInv, NEW r \in Requests, PrimaryError(r)
    PROVE  IInv'
<1> DEFINE q == req[r]
<1>1. q \in Request /\ Consistent(q) /\ TypeOK
  BY DEF IInv, TypeOK
<1>2. PICK e \in Errors : req' = [req EXCEPT ![r] = Answered(q, e)]
  BY DEF PrimaryError
<1> DEFINE x == Answered(q, e)
<1>3. x \in Request
  BY <1>1, AnsweredType DEF Responses
<1>4. Consistent(x)
  BY <1>1 DEF PrimaryError, Answered, Consistent, InCall, Hears, Request
<1>5. /\ failures' \in 0..Threshold /\ circuit' \in {"closed", "open", "cooled"}
      /\ circuit' # "closed" <=> failures' = Threshold
  BY <1>1 DEF PrimaryError, TypeOK
<1> HIDE DEF x
<1>6. req' = [req EXCEPT ![r] = x]
  BY <1>2 DEF x
<1> QED BY <1>3, <1>4, <1>5, <1>6, OneRequest

\* A new attempt, whose call begins with an empty segment when it is heard.
LEMMA AttemptStep ==
    ASSUME FailoverAssumption, IInv, NEW r \in Requests, Attempt(r)
    PROVE  IInv'
<1> DEFINE q == req[r]
<1>1. q \in Request /\ Consistent(q) /\ TypeOK
  BY DEF IInv, TypeOK
<1> DEFINE n == IF q.final \/ q.attempt > Retries THEN q.attempt ELSE q.attempt + 1
           q1 == [q EXCEPT !.attempt = n, !.inner = FALSE, !.dropped = FALSE, !.at = 0,
                           !.failed = FALSE, !.last = "none", !.response = "none"]
<1>6. n \in 0..Retries + 1
  BY <1>1 DEF Request, FailoverAssumption
<1>7. q1 \in Request
  <2> HIDE DEF n
  <2> DEFINE p1 == [q EXCEPT !.attempt = n]
             p2 == [p1 EXCEPT !.inner = FALSE]
             p3 == [p2 EXCEPT !.dropped = FALSE]
             p4 == [p3 EXCEPT !.at = 0]
             p5 == [p4 EXCEPT !.failed = FALSE]
             p6 == [p5 EXCEPT !.last = "none"]
  <2>1. p1 \in Request
    BY <1>1, <1>6, Values
  <2>2. p2 \in Request
    BY <2>1, Flags
  <2>3. p3 \in Request
    BY <2>2, Flags
  <2>4. p4 \in Request
    <3>1. 0 \in 0..Fallbacks
      BY DEF FailoverAssumption
    <3> QED BY <2>3, <3>1, Values
  <2>5. p5 \in Request
    BY <2>4, Flags
  <2>6. p6 \in Request
    BY <2>5, Values
  <2> QED BY <2>6, Values DEF Responses
<1> DEFINE x == IF PrimaryAvailable THEN Calling(q1, "primary") ELSE [q1 EXCEPT !.pc = "next"]
<1>2. req' = [req EXCEPT ![r] = x]
  BY DEF Attempt
<1>3. x \in Request
  BY <1>7, CallingType, Values DEF Pcs
<1>4. Consistent(x)
  BY <1>1, <1>7 DEF Attempt, PrimaryAvailable, Calling, FailoverAssumption, Consistent, InCall, Hears, Request
<1>5. /\ failures' \in 0..Threshold /\ circuit' \in {"closed", "open", "cooled"}
      /\ circuit' # "closed" <=> failures' = Threshold
  BY <1>1 DEF Attempt, TypeOK
<1> HIDE DEF x
<1> QED BY <1>2, <1>3, <1>4, <1>5, OneRequest

\* The failover takes over: what the primary has shown is closed, or nothing more is
\* heard.
LEMMA PrimaryFailsStep ==
    ASSUME FailoverAssumption, IInv, NEW r \in Requests, PrimaryFails(r)
    PROVE  IInv'
<1> DEFINE q == req[r]
<1>1. q \in Request /\ Consistent(q) /\ TypeOK
  BY DEF IInv, TypeOK
<1> DEFINE x == [Reopened(q) EXCEPT !.pc = "next", !.failed = TRUE]
<1>2. req' = [req EXCEPT ![r] = x]
  BY DEF PrimaryFails
<1>3. x \in Request
  <2> DEFINE p == [Reopened(q) EXCEPT !.pc = "next"]
  <2>1. p \in Request
    BY <1>1, ReopenedType, Values DEF Pcs
  <2> QED BY <2>1, Flags
<1>4. Consistent(x)
  BY <1>1 DEF PrimaryFails, FailsOver, Reopened, Recovered, Consistent, InCall, Hears, Request
<1>5. /\ failures' \in 0..Threshold /\ circuit' \in {"closed", "open", "cooled"}
      /\ circuit' # "closed" <=> failures' = Threshold
  BY <1>1 DEF PrimaryFails, BreakerFails, TypeOK, FailoverAssumption
<1> HIDE DEF x
<1> QED BY <1>2, <1>3, <1>4, <1>5, OneRequest

\* A fallback is called, or cannot be made.
LEMMA NextFallbackStep ==
    ASSUME FailoverAssumption, IInv, NEW r \in Requests, NextFallback(r)
    PROVE  IInv'
<1> DEFINE q == req[r]
<1>1. q \in Request /\ Consistent(q) /\ TypeOK
  BY DEF IInv, TypeOK
<1> DEFINE p == [Reopened(q) EXCEPT !.at = @ + 1]
<1>2. p \in Request
  <2>1. Reopened(q) \in Request
    BY <1>1, ReopenedType
  <2>2. Reopened(q).at = q.at
    BY <1>1 DEF Reopened, Recovered, Request
  <2>3. q.at + 1 \in 0..Fallbacks
    BY <1>1 DEF NextFallback, GoesOn, Request, FailoverAssumption
  <2> QED BY <2>1, <2>2, <2>3, Values
<1>3. Calling(p, "fallback") \in Request
  BY <1>2, CallingType DEF Pcs
<1>4. Consistent(p)
  BY <1>1 DEF NextFallback, Reopened, Recovered, Consistent, InCall, Hears, Request
<1>5. Consistent(Calling(p, "fallback"))
  BY <1>1 DEF NextFallback, Calling, Reopened, Recovered, Consistent, InCall, Hears, Request
<1>6. /\ failures' \in 0..Threshold /\ circuit' \in {"closed", "open", "cooled"}
      /\ circuit' # "closed" <=> failures' = Threshold
  BY <1>1 DEF NextFallback, TypeOK
<1>7. \/ req' = [req EXCEPT ![r] = Calling(p, "fallback")]
      \/ req' = [req EXCEPT ![r] = p]
  BY DEF NextFallback
<1> HIDE DEF p
<1> QED BY <1>2, <1>3, <1>4, <1>5, <1>6, <1>7, OneRequest

\* The answer of a fallback.
LEMMA FallbackReturnsStep ==
    ASSUME FailoverAssumption, IInv, NEW r \in Requests, FallbackReturns(r)
    PROVE  IInv'
<1> DEFINE q == req[r]
<1>1. q \in Request /\ Consistent(q) /\ TypeOK
  BY DEF IInv, TypeOK
<1>2. PICK a \in Errors \cup {"ok"} :
           req' = [req EXCEPT ![r] =
              IF a \in Raised \cup {"ok"} THEN Answered(q, a)
                                          ELSE [q EXCEPT !.pc = "next", !.last = a]]
  BY DEF FallbackReturns
<1>3. /\ failures' \in 0..Threshold /\ circuit' \in {"closed", "open", "cooled"}
      /\ circuit' # "closed" <=> failures' = Threshold
  BY <1>1 DEF FallbackReturns, TypeOK
<1>4. CASE a \in Raised \cup {"ok"}
  <2> DEFINE x == Answered(q, a)
  <2>1. x \in Request
    BY <1>1, AnsweredType DEF Responses
  <2>2. Consistent(x)
    BY <1>1 DEF FallbackReturns, Answered, Consistent, InCall, Hears, Request
  <2>3. req' = [req EXCEPT ![r] = x]
    BY <1>2, <1>4
  <2> HIDE DEF x
  <2> QED BY <1>3, <2>1, <2>2, <2>3, OneRequest
<1>5. CASE a \notin Raised \cup {"ok"}
  <2> DEFINE p == [q EXCEPT !.pc = "next"]
             x == [p EXCEPT !.last = a]
  <2>1. x \in Request
    <3>1. p \in Request
      BY <1>1, Values DEF Pcs
    <3>2. a \in (Errors \ Raised) \cup {"none"}
      BY <1>5
    <3> QED BY <3>1, <3>2, Values
  <2>2. Consistent(x)
    BY <1>1 DEF FallbackReturns, Consistent, InCall, Hears, Request
  <2>3. req' = [req EXCEPT ![r] = x]
    BY <1>2, <1>5
  <2> HIDE DEF x
  <2> QED BY <1>3, <2>1, <2>2, <2>3, OneRequest
<1> QED BY <1>4, <1>5

\* A request begins with nothing shown.
LEMMA BeginStep ==
    ASSUME FailoverAssumption, IInv, NEW r \in Requests, Begin(r)
    PROVE  IInv'
<1>1. PICK mode \in Modes, persistent \in Persistence, images \in BOOLEAN :
           req' = [req EXCEPT ![r] = NewRequest(mode, persistent, images)]
  BY DEF Begin
<1> DEFINE x == NewRequest(mode, persistent, images)
<1>2. mode \in {"stream", "progress", "plain"} /\ persistent \in BOOLEAN
  BY DEF FailoverAssumption
<1>3. x \in Request
  BY <1>2 DEF NewRequest, Request, FailoverAssumption
<1>4. Consistent(x)
  BY <1>2 DEF NewRequest, Consistent, InCall, Hears
<1>5. /\ failures' \in 0..Threshold /\ circuit' \in {"closed", "open", "cooled"}
      /\ circuit' # "closed" <=> failures' = Threshold
  BY DEF Begin, IInv, TypeOK
<1>6. req' = [req EXCEPT ![r] = x]
  BY <1>1
<1> HIDE DEF x
<1> QED BY <1>3, <1>4, <1>5, <1>6, OneRequest

\* The response is judged: the request ends, or nothing of it is in the open
\* segment of a caller that would hear the next attempt.
LEMMA DecideStep ==
    ASSUME FailoverAssumption, IInv, NEW r \in Requests, Decide(r)
    PROVE  IInv'
<1> DEFINE q == req[r]
<1>1. q \in Request /\ Consistent(q) /\ TypeOK /\ q.pc = "answered"
  BY DEF IInv, TypeOK, Decide
<1>2. /\ failures' \in 0..Threshold /\ circuit' \in {"closed", "open", "cooled"}
      /\ circuit' # "closed" <=> failures' = Threshold
  BY <1>1 DEF Decide, TypeOK
<1>3. CASE GivesUpAtOnce(q)
  <2> DEFINE x == [q EXCEPT !.pc = "done"]
  <2>1. x \in Request
    BY <1>1, Values DEF Pcs
  <2>2. Consistent(x)
    BY <1>1 DEF Consistent, InCall, Hears, Request
  <2>3. req' = [req EXCEPT ![r] = x]
    BY <1>3 DEF Decide
  <2> HIDE DEF x
  <2> QED BY <1>2, <2>1, <2>2, <2>3, OneRequest
<1>4. CASE ~GivesUpAtOnce(q)
  <2> DEFINE u == Resumed(q)
             p == [u EXCEPT !.key = u.response]
             c == Counted(u)
             x == Judged(c)
  <2>1. /\ u \in Request /\ u.response = q.response /\ u.pc = q.pc
        /\ Consistent(u)
        /\ ~u.muted => u.segment = "empty"
    <3>1. u \in Request
      BY <1>1, ResumedType
    <3>2. /\ u.response = q.response /\ u.pc = q.pc
          /\ Consistent(u)
          /\ ~u.muted => u.segment = "empty"
      BY <1>1 DEF Resumed, Shown, Recovered, Consistent, InCall, Hears, Request
    <3> QED BY <3>1, <3>2
  <2>2. u.response \in Errors \cup {"circuit"}
    BY <1>1, <1>4, <2>1 DEF GivesUpAtOnce, Consistent
  <2> HIDE DEF u
  <2>3. c \in Request /\ c.muted = u.muted /\ c.segment = u.segment
    <3> DEFINE n == IF u.response = u.key THEN u.same + 1 ELSE 1
    <3>1. n \in Nat
      BY <2>1 DEF Request
    <3> HIDE DEF n
    <3>2. p \in Request
      BY <2>1, <2>2, Values
    <3>3. [p EXCEPT !.same = n] \in Request
      BY <3>1, <3>2, Values
    <3>4. c = [p EXCEPT !.same = n]
      BY DEF Counted, n
    <3>5. c.muted = u.muted /\ c.segment = u.segment
      BY <2>1 DEF Counted, Request
    <3> QED BY <3>3, <3>4, <3>5
  <2>4. Consistent(c) /\ (~c.muted => c.segment = "empty")
    BY <2>1, <2>3 DEF Counted, Consistent, InCall, Hears, Request
  <2> HIDE DEF c
  <2>5. /\ [c EXCEPT !.pc = "done"] \in Request
        /\ Consistent([c EXCEPT !.pc = "done"])
    <3>1. [c EXCEPT !.pc = "done"] \in Request
      BY <2>3, Values DEF Pcs
    <3>2. Consistent([c EXCEPT !.pc = "done"])
      BY <2>3, <2>4 DEF Consistent, InCall, Hears, Request
    <3> QED BY <3>1, <3>2
  <2>6. /\ [c EXCEPT !.pc = "waiting"] \in Request
        /\ Consistent([c EXCEPT !.pc = "waiting"])
    <3>1. [c EXCEPT !.pc = "waiting"] \in Request
      BY <2>3, Values DEF Pcs
    <3>2. Consistent([c EXCEPT !.pc = "waiting"])
      BY <2>3, <2>4 DEF Consistent, InCall, Hears, Request
    <3> QED BY <3>1, <3>2
  <2>7. /\ [c EXCEPT !.pc = "attempt", !.final = TRUE] \in Request
        /\ Consistent([c EXCEPT !.pc = "attempt", !.final = TRUE])
    <3> DEFINE d == [c EXCEPT !.pc = "attempt"]
    <3>1. d \in Request
      BY <2>3, Values DEF Pcs
    <3>2. [d EXCEPT !.final = TRUE] \in Request
      BY <3>1, Flags
    <3>3. Consistent([c EXCEPT !.pc = "attempt", !.final = TRUE])
      BY <2>3, <2>4 DEF Consistent, InCall, Hears, Request
    <3> QED BY <3>2, <3>3
  <2>8. x \in Request /\ Consistent(x)
    BY <2>5, <2>6, <2>7 DEF Judged
  <2>9. req' = [req EXCEPT ![r] = x]
    BY <1>4 DEF Decide, c, u
  <2> HIDE DEF x
  <2> QED BY <1>2, <2>8, <2>9, OneRequest
<1> QED BY <1>3, <1>4

\* The circuit breaker belongs to no request.
LEMMA CircuitStep ==
    ASSUME FailoverAssumption, IInv, Elsewhere \/ CoolDown
    PROVE  IInv'
<1>1. req' = req
  BY DEF Elsewhere, CoolDown
<1>2. /\ failures' \in 0..Threshold /\ circuit' \in {"closed", "open", "cooled"}
      /\ circuit' # "closed" <=> failures' = Threshold
  BY DEF Elsewhere, CoolDown, BreakerFails, BreakerResets, IInv, TypeOK, FailoverAssumption
<1> QED BY <1>1, <1>2 DEF IInv, TypeOK, Consistent, InCall, Hears

\* The invariant holds at the beginning.
LEMMA InitIInv ==
    ASSUME FailoverAssumption, Init
    PROVE  IInv
<1>1. NewRequest("plain", FALSE, FALSE) \in Request
  BY DEF NewRequest, Request, FailoverAssumption
<1>2. Idle \in Request
  BY <1>1, Values DEF Idle, Pcs
<1>3. Consistent(Idle)
  BY <1>1 DEF Idle, NewRequest, Consistent, InCall, Hears, Request
<1> QED BY <1>2, <1>3 DEF Init, IInv, TypeOK, FailoverAssumption

\* No step of any request, nor one of the circuit breaker, breaks it.
LEMMA StepIInv ==
    ASSUME FailoverAssumption, IInv, [Next]_vars
    PROVE  IInv'
<1>1. ASSUME NEW r \in Requests, Begin(r) \/ Step(r) \/ Abandon(r)
      PROVE  IInv'
  <2>1. CASE Begin(r) \/ Abandon(r)
    BY <2>1, BeginStep, AbandonStep
  <2>2. CASE Attempt(r) \/ Delta(r)
    BY <2>2, AttemptStep, DeltaStep
  <2>3. CASE PrimaryAnswers(r) \/ PrimaryError(r) \/ PrimaryFails(r)
    BY <2>3, PrimaryAnswersStep, PrimaryErrorStep, PrimaryFailsStep
  <2>4. CASE NextFallback(r) \/ FallbackReturns(r) \/ NoFallbackLeft(r)
    BY <2>4, NextFallbackStep, FallbackReturnsStep, NoFallbackLeftStep
  <2>5. CASE Decide(r) \/ Wake(r)
    BY <2>5, DecideStep, WakeStep
  <2> QED BY <1>1, <2>1, <2>2, <2>3, <2>4, <2>5 DEF Step
<1>2. CASE Elsewhere \/ CoolDown
  BY <1>2, CircuitStep
<1>3. CASE UNCHANGED vars
  BY <1>3 DEF vars, IInv, TypeOK, Consistent, InCall, Hears
<1> QED BY <1>1, <1>2, <1>3 DEF Next

----------------------------------------------------------------------------
(* The theorems. *)

\* The inductive invariant holds in every reachable state.
THEOREM Invariant == Spec => []IInv
<1>1. Init => IInv
  BY FailoverAssumption, InitIInv
<1>2. IInv /\ [Next]_vars => IInv'
  BY FailoverAssumption, StepIInv
<1> QED BY <1>1, <1>2, PTL DEF Spec

\* The records of the requests and the circuit breaker stay within their types;
\* the breaker is open, or was until it cooled down, exactly while its count of
\* failures is at the threshold.
THEOREM TypeCorrect == Spec => []TypeOK
<1>1. IInv => TypeOK
  BY DEF IInv
<1> QED BY <1>1, Invariant, PTL

\* However many requests share the provider, whatever fails over, stalls or is
\* retried: no segment of a stream shows content of two calls, none is closed
\* empty, and that of a successful streamed request shows nothing but the answer.
THEOREM SegmentsOfOneCall == Spec => []SegmentOfOneCall
<1>1. IInv => SegmentOfOneCall
  BY DEF IInv, Consistent, SegmentOfOneCall
<1> QED BY <1>1, Invariant, PTL

----------------------------------------------------------------------------
(* Giving up. *)

\* What a request still owes before it may give up: the callers that are not heard
\* have shown something before, identical errors are counted up to the limit, and an
\* error that the user has seen nothing of (or that is about to be cleared away)
\* comes from the last fallback, or from the primary if the failover does not take it up.
Owes(q) ==
    /\ q.muted => q.segment # "empty"
    /\ q.persistent /\ ~q.final /\ q.pc # "done" => q.same < IdenticalLimit
    /\ q.pc = "primary" => q.at = 0
    /\ q.pc = "answered" /\ q.response \in Transient =>
           \/ q.segment # "empty" /\ ~(q.mode = "stream" /\ q.response = "timeout")
           \/ FallbacksUsed(q)
    /\ q.pc = "done" /\ q.response \in Transient /\ ~q.final /\ q.segment = "empty" =>
           /\ IF q.persistent THEN q.same = IdenticalLimit ELSE q.attempt = Retries + 1
           /\ FallbacksUsed(q)

Owing == \A r \in Requests : Owes(req[r])

\* A step writes the record of one request.
LEMMA OneOwes ==
    ASSUME IInv, Owing, NEW r \in Requests, NEW q, Owes(q), req' = [req EXCEPT ![r] = q]
    PROVE  Owing'
<1>1. ASSUME NEW s \in Requests PROVE Owes(req'[s])
  <2>1. CASE s = r
    BY <2>1 DEF IInv, TypeOK
  <2>2. CASE s # r
    BY <2>2 DEF IInv, TypeOK, Owing
  <2> QED BY <2>1, <2>2
<1> QED BY <1>1 DEF Owing, Owes

\* While a request waits for a provider it owes what it owed.
LEMMA OwesInCall ==
    ASSUME FailoverAssumption, IInv, Owing, NEW r \in Requests,
           Attempt(r) \/ Delta(r) \/ PrimaryFails(r) \/ Wake(r)
    PROVE  Owing'
<1> DEFINE q == req[r]
<1>1. q \in Request /\ Consistent(q) /\ Owes(q)
  BY DEF IInv, TypeOK, Owing
<1>2. CASE Attempt(r)
  <2> DEFINE n == IF q.final \/ q.attempt > Retries THEN q.attempt ELSE q.attempt + 1
             q1 == [q EXCEPT !.attempt = n, !.inner = FALSE, !.dropped = FALSE, !.at = 0,
                             !.failed = FALSE, !.last = "none", !.response = "none"]
             x == IF PrimaryAvailable THEN Calling(q1, "primary") ELSE [q1 EXCEPT !.pc = "next"]
  <2>1. Owes(x)
    <3> HIDE DEF n
    <3>1. q.pc = "attempt"
      BY <1>2 DEF Attempt
    <3> QED BY <1>1, <3>1 DEF Calling, Owes, Request
  <2>2. req' = [req EXCEPT ![r] = x]
    BY <1>2 DEF Attempt
  <2> HIDE DEF x
  <2> QED BY <2>1, <2>2, OneOwes
<1>3. CASE Delta(r)
  <2> DEFINE x == [q EXCEPT !.spoke = TRUE,
                            !.inner = Fallbacks > 0 /\ ~q.dropped,
                            !.outer = @ \/ (~q.dropped /\ ~q.muted),
                            !.segment = IF ~(~q.dropped /\ ~q.muted) THEN @
                                        ELSE IF @ = "empty" THEN "this" ELSE "mixed"]
  <2>1. Owes(x)
    BY <1>1, <1>3 DEF Delta, Owes, Request
  <2>2. req' = [req EXCEPT ![r] = x]
    BY <1>3 DEF Delta
  <2> HIDE DEF x
  <2> QED BY <2>1, <2>2, OneOwes
<1>4. CASE PrimaryFails(r)
  <2> DEFINE x == [Reopened(q) EXCEPT !.pc = "next", !.failed = TRUE]
  <2>1. Owes(x)
    BY <1>1, <1>4 DEF PrimaryFails, Reopened, Recovered, Consistent, Owes, Request
  <2>2. req' = [req EXCEPT ![r] = x]
    BY <1>4 DEF PrimaryFails
  <2> HIDE DEF x
  <2> QED BY <2>1, <2>2, OneOwes
<1>5. CASE Wake(r)
  <2> DEFINE x == [q EXCEPT !.pc = "attempt"]
  <2>1. Owes(x)
    BY <1>1, <1>5 DEF Wake, Owes, Request
  <2>2. req' = [req EXCEPT ![r] = x]
    BY <1>5 DEF Wake
  <2> HIDE DEF x
  <2> QED BY <2>1, <2>2, OneOwes
<1> QED BY <1>2, <1>3, <1>4, <1>5

\* The next fallback is called, or cannot be made; or the one that was called
\* passes its error on.
LEMMA OwesNext ==
    ASSUME FailoverAssumption, IInv, Owing, NEW r \in Requests, NextFallback(r)
    PROVE  Owing'
<1> DEFINE q == req[r]
           p == [Reopened(q) EXCEPT !.at = @ + 1]
<1>1. q \in Request /\ Consistent(q) /\ Owes(q) /\ q.pc = "next"
  BY DEF IInv, TypeOK, Owing, NextFallback
<1>2. Owes(p)
  BY <1>1 DEF Reopened, Recovered, Consistent, Owes, Request
<1>3. Owes(Calling(p, "fallback"))
  BY <1>1 DEF Calling, Reopened, Recovered, Consistent, Owes, Request
<1>4. req' = [req EXCEPT ![r] = p] \/ req' = [req EXCEPT ![r] = Calling(p, "fallback")]
  BY DEF NextFallback
<1> HIDE DEF p
<1> QED BY <1>2, <1>3, <1>4, OneOwes

\* The failover passes an error on after content that cannot be cleared away, or
\* when no fallback is left.
LEMMA OwesAnswered ==
    ASSUME FailoverAssumption, IInv, Owing, NEW r \in Requests,
           \/ PrimaryAnswers(r) \/ PrimaryError(r) \/ FallbackReturns(r) \/ NoFallbackLeft(r)
    PROVE  Owing'
<1> DEFINE q == req[r]
<1>1. q \in Request /\ Consistent(q) /\ Owes(q)
  BY DEF IInv, TypeOK, Owing
<1>2. CASE PrimaryAnswers(r)
  <2>1. Owes(Answered(q, "ok"))
    BY <1>1, <1>2 DEF PrimaryAnswers, Answered, Owes, Request, Transient
  <2> QED BY <1>2, <2>1, OneOwes DEF PrimaryAnswers
<1>3. CASE PrimaryError(r)
  <2>1. PICK e \in Errors : ~FailsOver(q, e) /\ req' = [req EXCEPT ![r] = Answered(q, e)]
    BY <1>3 DEF PrimaryError
  <2>2. e \in Transient => \/ q.segment # "empty" /\ e # "timeout"
                           \/ FallbacksUsed(Answered(q, e))
    <3>1. q.pc = "primary" /\ q.at = 0
      BY <1>1, <1>3 DEF PrimaryError, Owes
    <3>2. Answered(q, e).at = 0 /\ Answered(q, e).response = e
      BY <1>1, <3>1 DEF Answered, Request
    <3>3. CASE Fallbacks = 0 \/ e \notin Fallbackable
      BY <3>2, <3>3 DEF FallbacksUsed
    <3>4. CASE Fallbacks > 0 /\ e \in Fallbackable
      <4>1. q.inner /\ e # "timeout"
        BY <2>1, <3>4 DEF FailsOver
      <4> QED BY <1>1, <3>1, <4>1 DEF Consistent, Owes
    <3> QED BY <3>3, <3>4, FailoverAssumption DEF FailoverAssumption
  <2>3. Owes(Answered(q, e))
    BY <1>1, <1>3, <2>2 DEF PrimaryError, Answered, Owes, Request
  <2> QED BY <2>1, <2>3, OneOwes
<1>4. CASE FallbackReturns(r)
  <2>1. PICK a \in Errors \cup {"ok"} :
           req' = [req EXCEPT ![r] =
              IF a \in Raised \cup {"ok"} THEN Answered(q, a)
                                          ELSE [q EXCEPT !.pc = "next", !.last = a]]
    BY <1>4 DEF FallbackReturns
  <2>2. Owes(Answered(q, a)) \/ a \notin Raised \cup {"ok"}
    BY <1>1, <1>4 DEF FallbackReturns, Answered, FallbacksUsed, Owes, Request, Transient, Raised
  <2>3. Owes([q EXCEPT !.pc = "next", !.last = a])
    BY <1>1, <1>4 DEF FallbackReturns, Owes, Request
  <2> QED BY <2>1, <2>2, <2>3, OneOwes
<1>5. CASE NoFallbackLeft(r)
  <2> DEFINE e == IF q.last = "none" THEN "circuit" ELSE q.last
  <2>1. e \in Transient =>
           \/ q.segment # "empty" /\ ~(q.mode = "stream" /\ e = "timeout")
           \/ q.at = Fallbacks
    BY <1>1, <1>5 DEF NoFallbackLeft, GoesOn, Transient, Consistent, Owes, Request,
                      FailoverAssumption
  <2>2. req' = [req EXCEPT ![r] = Answered(q, e)]
    BY <1>5 DEF NoFallbackLeft
  <2> HIDE DEF e
  <2>3. Owes(Answered(q, e))
    BY <1>1, <1>5, <2>1 DEF NoFallbackLeft, Answered, FallbacksUsed, Owes, Request
  <2> QED BY <2>2, <2>3, OneOwes
<1> QED BY <1>2, <1>3, <1>4, <1>5

\* The retries give up when the account is settled.
LEMMA OwesDecide ==
    ASSUME FailoverAssumption, IInv, Owing, NEW r \in Requests, Decide(r)
    PROVE  Owing'
<1> DEFINE q == req[r]
<1>1. q \in Request /\ Consistent(q) /\ Owes(q) /\ q.pc = "answered"
  BY DEF IInv, TypeOK, Owing, Decide
<1>2. CASE GivesUpAtOnce(q)
  <2>1. Owes([q EXCEPT !.pc = "done"])
    BY <1>1, <1>2 DEF GivesUpAtOnce, Shown, Consistent, Owes, Request, Transient
  <2> QED BY <1>2, <2>1, OneOwes DEF Decide
<1>3. CASE ~GivesUpAtOnce(q)
  <2> DEFINE u == Resumed(q)
             c == Counted(u)
  <2>1. /\ u \in Request /\ u.response = q.response /\ u.pc = "answered" /\ ~u.final
        /\ u.muted => u.segment # "empty"
        /\ u.persistent => u.same < IdenticalLimit
        /\ u.response \in Transient => u.segment # "empty" \/ FallbacksUsed(u)
    <3>1. u \in Request
      BY <1>1, ResumedType
    <3>2. /\ u.response = q.response /\ u.pc = "answered" /\ ~u.final
          /\ u.persistent => u.same < IdenticalLimit
      BY <1>1, <1>3 DEF Resumed, Recovered, GivesUpAtOnce, Owes, Request
    <3>3. u.muted => u.segment # "empty"
      BY <1>1 DEF Resumed, Recovered, Shown, Consistent, Owes, Request
    <3>4. u.response \in Transient => u.segment # "empty" \/ FallbacksUsed(u)
      BY <1>1, <1>3 DEF Resumed, Recovered, Shown, GivesUpAtOnce, FallbacksUsed, Consistent, Owes, Request
    <3> QED BY <3>1, <3>2, <3>3, <3>4
  <2> HIDE DEF u
  <2>2. /\ c.response = u.response /\ ~c.final /\ c.muted = u.muted
        /\ c.segment = u.segment /\ c.at = u.at
        /\ c.persistent = u.persistent /\ c.attempt = u.attempt /\ c.images = u.images
        /\ c.persistent => c.same \in Nat /\ c.same <= IdenticalLimit
    BY <2>1 DEF Counted, Request, FailoverAssumption
  <2>3. c.attempt \in 0..Retries + 1
    BY <2>1, <2>2 DEF Request
  <2>4. c \in [DOMAIN c -> {c[f] : f \in DOMAIN c}] /\ {"pc", "final"} \subseteq DOMAIN c
    BY <2>1 DEF Counted, Request
  <2> HIDE DEF c
  <2>5. CASE c.response \notin Transient
    <3>1. Owes([c EXCEPT !.pc = "attempt", !.final = TRUE])
      BY <2>1, <2>2, <2>4 DEF Owes
    <3>2. Owes([c EXCEPT !.pc = "done"])
      BY <2>1, <2>2, <2>4, <2>5 DEF Owes
    <3>3. Judged(c) \in {[c EXCEPT !.pc = "attempt", !.final = TRUE], [c EXCEPT !.pc = "done"]}
      BY <2>5 DEF Judged
    <3> QED BY <1>3, <3>1, <3>2, <3>3, OneOwes DEF Decide, c, u
  <2>6. CASE c.response \in Transient /\ Exhausted(c)
    <3>1. Owes([c EXCEPT !.pc = "done"])
      BY <2>1, <2>2, <2>3, <2>4, <2>6 DEF Owes, FallbacksUsed, Exhausted, FailoverAssumption
    <3> QED BY <1>3, <2>6, <3>1, OneOwes DEF Decide, Judged, c, u
  <2>7. CASE c.response \in Transient /\ ~Exhausted(c)
    <3>1. Owes([c EXCEPT !.pc = "waiting"])
      BY <2>1, <2>2, <2>4, <2>7 DEF Owes, Exhausted, FailoverAssumption
    <3> QED BY <1>3, <2>7, <3>1, OneOwes DEF Decide, Judged, c, u
  <2> QED BY <2>5, <2>6, <2>7
<1> QED BY <1>2, <1>3

\* No step of a request, nor one of the circuit breaker, breaks it.
LEMMA OwesStep ==
    ASSUME FailoverAssumption, IInv, Owing, [Next]_vars
    PROVE  Owing'
<1>1. ASSUME NEW r \in Requests, Begin(r) PROVE Owing'
  <2>1. PICK mode \in Modes, persistent \in Persistence, images \in BOOLEAN :
             req' = [req EXCEPT ![r] = NewRequest(mode, persistent, images)]
    BY <1>1 DEF Begin
  <2>2. Owes(NewRequest(mode, persistent, images))
    BY DEF NewRequest, Owes, FailoverAssumption
  <2> QED BY <2>1, <2>2, OneOwes
<1>2. ASSUME NEW r \in Requests, Abandon(r) PROVE Owing'
  <2> DEFINE x == [req[r] EXCEPT !.pc = "done", !.response = "abandoned"]
  <2>1. Owes(x)
    BY DEF Owing, Owes, IInv, TypeOK, Request, Transient
  <2> QED BY <1>2, <2>1, OneOwes DEF Abandon
<1>3. ASSUME NEW r \in Requests, Step(r) PROVE Owing'
  BY <1>3, OwesInCall, OwesNext, OwesAnswered, OwesDecide DEF Step
<1>4. CASE Elsewhere \/ CoolDown \/ UNCHANGED vars
  <2>1. req' = req
    BY <1>4 DEF Elsewhere, CoolDown, vars
  <2> QED BY <2>1 DEF Owing, Owes
<1> QED BY <1>1, <1>2, <1>3, <1>4 DEF Next

\* A transient error comes back to a caller who has shown the user nothing only when
\* the retries are used up, and in the last of them the fallbacks, if the failover
\* takes the error up.
THEOREM GivesUpLast == Spec => []GivesUpLate
<1>1. Init => IInv /\ Owing
  <2>1. Init => Owing
    BY FailoverAssumption DEF Init, Idle, NewRequest, Owing, Owes, FailoverAssumption
  <2> QED BY <2>1, FailoverAssumption, InitIInv
<1>2. (IInv /\ Owing) /\ [Next]_vars => (IInv /\ Owing)'
  BY FailoverAssumption, StepIInv, OwesStep
<1>3. IInv /\ Owing => GivesUpLate
  BY DEF Owing, Owes, GivesUpLate
<1> QED BY <1>1, <1>2, <1>3, PTL DEF Spec
=============================================================================
