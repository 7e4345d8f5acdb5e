-------------------------- MODULE ProviderFailover --------------------------
(***************************************************************************)
(* A request to the model: FallbackProvider in                             *)
(* nanobot/providers/fallback_provider.py, which tries the primary model   *)
(* and then the fallbacks, inside the retries of                           *)
(* LLMProvider._run_with_retry in nanobot/providers/base.py.               *)
(*                                                                         *)
(* Each layer remembers on its own whether content was streamed, and both  *)
(* may close the stream segment the user sees.  The sessions of a process  *)
(* share the provider, hence its circuit breaker.  A response is "ok" or   *)
(* the class of its error; a call streams at most one delta, since a       *)
(* second one changes nothing.                                             *)
(***************************************************************************)
EXTENDS Integers, FiniteSets

CONSTANTS
    Requests,       \* concurrent requests, one per session
    Modes,          \* how they are made: subset of {"stream", "progress", "plain"}
    Persistence,    \* the values of provider_retry_mode == "persistent"
    Fallbacks,      \* number of fallback presets
    Threshold,      \* _PRIMARY_FAILURE_THRESHOLD (3 in the code)
    Retries,        \* len(_CHAT_RETRY_DELAYS) (3 in the code)
    IdenticalLimit, \* _PERSISTENT_IDENTICAL_ERROR_LIMIT (10 in the code)
    FactoryFails    \* whether the provider of a fallback may fail to be made

ASSUME FailoverAssumption ==
    /\ Modes \subseteq {"stream", "progress", "plain"}
    /\ Persistence \subseteq BOOLEAN
    /\ Fallbacks \in Nat
    /\ Threshold \in Nat \ {0}
    /\ Retries \in Nat \ {0}
    /\ IdenticalLimit \in Nat \ {0}
    /\ FactoryFails \in BOOLEAN

VARIABLES
    req,        \* each request: a record of the locals of the two layers
    failures,   \* _primary_failures, saturated at Threshold
    circuit     \* _primary_tripped_at: "closed", "open", or "cooled" when 60 s are over

vars == <<req, failures, circuit>>

\* Exceptions of a provider skip the failover; _safe_chat_stream makes errors of
\* them, transient or not by their text.
Raised == {"raised", "raised_network"}
Errors == {"timeout", "server", "quota", "invalid", "disputed"} \cup Raised

\* _is_transient_response.  "disputed" is a status 400, 404 or 422 with one of the
\* transient markers in its text: the retries go by the text, ...
Transient == {"timeout", "server", "disputed", "raised_network"}

\* _should_fallback: ... the failover by the status.
Fallbackable == {"timeout", "server", "quota"}

----------------------------------------------------------------------------
(* A request. *)

\* "stream" passes on_content_delta and on_stream_recover, "progress" only the
\* first; "plain" is chat_with_retry.
NewRequest(mode, persistent, images) ==
    [pc |-> "attempt", mode |-> mode, persistent |-> persistent,
     images |-> images,         \* the messages contain images
     final |-> FALSE,           \* the call that retries without them
     attempt |-> 0,             \* saturated at Retries + 1
     key |-> "none", same |-> 0,\* last_error_key, identical_error_count
     outer |-> FALSE,           \* has_streamed_content of the retries
     muted |-> FALSE,           \* the retries have dropped on_content_delta
     inner |-> FALSE,           \* has_streamed[0] of the failover
     dropped |-> FALSE,         \* the failover has dropped on_content_delta
     at |-> 0,                  \* fallbacks tried in this attempt
     failed |-> FALSE,          \* the primary was tried in this attempt, in vain
     last |-> "none",           \* last_response of the failover
     response |-> "none",       \* what the retries got
     spoke |-> FALSE,           \* the call in progress has streamed
     segment |-> "empty"]       \* whose content the open segment shows

Idle == [NewRequest("plain", FALSE, FALSE) EXCEPT !.pc = "idle"]

\* _recover_stream: the segment is closed, what comes next starts a new one.
Recovered(q) ==
    [q EXCEPT !.outer = FALSE,
              !.segment = IF @ = "empty" THEN "blank" ELSE "empty"]

\* What an earlier call has shown stays in the segment.
Calling(q, pc) ==
    [q EXCEPT !.pc = pc, !.spoke = FALSE,
              !.segment = IF @ = "this" THEN "earlier" ELSE @]

Answered(q, response) == [q EXCEPT !.pc = "answered", !.response = response]

Init ==
    /\ req = [r \in Requests |-> Idle]
    /\ failures = 0
    /\ circuit = "closed"

Begin(r) ==
    /\ req[r].pc = "idle"
    /\ \E mode \in Modes, persistent \in Persistence, images \in BOOLEAN :
          req' = [req EXCEPT ![r] = NewRequest(mode, persistent, images)]
    /\ UNCHANGED <<failures, circuit>>

----------------------------------------------------------------------------
(* The failover. *)

\* _primary_available.  Without fallbacks the breaker is not asked.
PrimaryAvailable == Fallbacks = 0 \/ circuit # "open"

\* The retries call chat or chat_stream, and the failover begins.
Attempt(r) ==
    LET q == req[r]
        q1 == [q EXCEPT !.attempt = IF q.final \/ @ > Retries THEN @ ELSE @ + 1,
                        !.inner = FALSE, !.dropped = FALSE, !.at = 0,
                        !.failed = FALSE, !.last = "none", !.response = "none"]
    IN  /\ q.pc = "attempt"
        /\ req' = [req EXCEPT ![r] =
              IF PrimaryAvailable THEN Calling(q1, "primary") ELSE [q1 EXCEPT !.pc = "next"]]
        /\ UNCHANGED <<failures, circuit>>

\* Content arrives: through _tracking_delta of the failover, then through that
\* of the retries, unless one of them has dropped the callback.
Delta(r) ==
    LET q == req[r]
        heard == ~q.dropped /\ ~q.muted
    IN  /\ q.pc \in {"primary", "fallback"}
        /\ q.mode # "plain"
        /\ ~q.spoke
        /\ req' = [req EXCEPT ![r] =
              [q EXCEPT !.spoke = TRUE,
                        !.inner = Fallbacks > 0 /\ ~q.dropped,
                        !.outer = @ \/ heard,
                        !.segment = IF ~heard THEN @
                                    ELSE IF @ = "empty" THEN "this" ELSE "mixed"]]
        /\ UNCHANGED <<failures, circuit>>

BreakerResets == failures' = 0 /\ circuit' = "closed"

BreakerFails ==
    /\ failures' = IF failures < Threshold THEN failures + 1 ELSE failures
    /\ circuit' = IF failures' = Threshold THEN "open" ELSE circuit

PrimaryAnswers(r) ==
    /\ req[r].pc = "primary"
    /\ req' = [req EXCEPT ![r] = Answered(@, "ok")]
    /\ IF Fallbacks = 0 THEN UNCHANGED <<failures, circuit>> ELSE BreakerResets

\* The failover passes an error of the primary on.
FailsOver(q, e) ==
    /\ Fallbacks > 0
    /\ e \in Fallbackable
    /\ q.inner => e = "timeout"

PrimaryError(r) ==
    /\ req[r].pc = "primary"
    /\ \E e \in Errors :
          /\ ~FailsOver(req[r], e)
          /\ req' = [req EXCEPT ![r] = Answered(@, e)]
    /\ UNCHANGED <<failures, circuit>>

\* Mutant: the segment of the stalled call stays open.
Reopened_NotClosed(q) == [q EXCEPT !.inner = FALSE]

\* After content was streamed the segment is closed, or, when the caller cannot
\* do that, the fallbacks are not heard.
Reopened(q) ==
    IF ~q.inner THEN q
    ELSE IF q.mode = "stream" THEN [Recovered(q) EXCEPT !.inner = FALSE]
    ELSE [q EXCEPT !.inner = FALSE, !.dropped = TRUE]

PrimaryFails(r) ==
    /\ req[r].pc = "primary"
    /\ \E e \in Errors : FailsOver(req[r], e)
    /\ req' = [req EXCEPT ![r] = [Reopened(@) EXCEPT !.pc = "next", !.failed = TRUE]]
    /\ BreakerFails

\* A stalled fallback that has streamed is followed by the next one only when the
\* segment can be closed.
GoesOn(q) ==
    /\ q.at < Fallbacks
    /\ q.inner => q.last = "timeout" /\ q.mode = "stream"

NextFallback(r) ==
    LET q == [Reopened(req[r]) EXCEPT !.at = @ + 1]
    IN  /\ req[r].pc = "next"
        /\ GoesOn(req[r])
        /\ \/ req' = [req EXCEPT ![r] = Calling(q, "fallback")]
           \/ FactoryFails /\ req' = [req EXCEPT ![r] = q]
        /\ UNCHANGED <<failures, circuit>>

FallbackReturns(r) ==
    /\ req[r].pc = "fallback"
    /\ \E a \in Errors \cup {"ok"} :
          req' = [req EXCEPT ![r] =
             IF a \in Raised \cup {"ok"} THEN Answered(@, a)
                                         ELSE [@ EXCEPT !.pc = "next", !.last = a]]
    /\ UNCHANGED <<failures, circuit>>

\* Without any error of a fallback the failover makes one up.
NoFallbackLeft(r) ==
    LET q == req[r]
    IN  /\ q.pc = "next"
        /\ ~GoesOn(q)
        /\ req' = [req EXCEPT ![r] = Answered(q, IF q.last = "none" THEN "circuit" ELSE q.last)]
        /\ UNCHANGED <<failures, circuit>>

\* A request of a session outside Requests comes to the end of its call of the
\* primary; it may have begun before the breaker opened.
Elsewhere ==
    /\ Fallbacks > 0
    /\ \/ BreakerFails
       \/ BreakerResets
    /\ UNCHANGED req

\* _PRIMARY_COOLDOWN_S have passed since the breaker opened.
CoolDown ==
    /\ circuit = "open"
    /\ circuit' = "cooled"
    /\ UNCHANGED <<req, failures>>

----------------------------------------------------------------------------
(* The retries. *)

\* should_retry_guard says no.
Shown(q) == q.outer /\ ~q.muted

\* The response is returned as it is: an answer, the result of the call without
\* images, or an error after content that is not a stall.
GivesUpAtOnce(q) == q.response = "ok" \/ q.final \/ (Shown(q) /\ q.response # "timeout")

\* A stall after content: a new segment, or no more content at all.
Resumed(q) ==
    IF ~Shown(q) THEN q
    ELSE IF q.mode = "stream" THEN Recovered(q)
    ELSE [q EXCEPT !.muted = TRUE]

Counted(q) ==
    [q EXCEPT !.key = q.response,
              !.same = IF q.response = q.key THEN @ + 1 ELSE 1]

\* Mutant: one retry less.
Exhausted_Early(q) ==
    IF q.persistent THEN q.same >= IdenticalLimit ELSE q.attempt >= Retries

\* Mutant: the number of attempts is not limited.
Exhausted_Never(q) == q.persistent /\ q.same >= IdenticalLimit

Exhausted(q) ==
    IF q.persistent THEN q.same >= IdenticalLimit ELSE q.attempt > Retries

Judged(q) ==
    IF q.response \notin Transient
    THEN IF q.images THEN [q EXCEPT !.pc = "attempt", !.final = TRUE]
                     ELSE [q EXCEPT !.pc = "done"]
    ELSE IF Exhausted(q) THEN [q EXCEPT !.pc = "done"]
    ELSE [q EXCEPT !.pc = "waiting"]

Decide(r) ==
    LET q == req[r]
    IN  /\ q.pc = "answered"
        /\ req' = [req EXCEPT ![r] =
              IF GivesUpAtOnce(q) THEN [q EXCEPT !.pc = "done"] ELSE Judged(Counted(Resumed(q)))]
        /\ UNCHANGED <<failures, circuit>>

\* _sleep_with_heartbeat is over.
Wake(r) ==
    /\ req[r].pc = "waiting"
    /\ req' = [req EXCEPT ![r].pc = "attempt"]
    /\ UNCHANGED <<failures, circuit>>

\* The wait_for of the runner expires, or the turn is cancelled.
Abandon(r) ==
    /\ req[r].pc \notin {"idle", "done"}
    /\ req' = [req EXCEPT ![r].pc = "done", ![r].response = "abandoned"]
    /\ UNCHANGED <<failures, circuit>>

----------------------------------------------------------------------------
Step(r) ==
    \/ Attempt(r)
    \/ Delta(r)
    \/ PrimaryAnswers(r)
    \/ PrimaryError(r)
    \/ PrimaryFails(r)
    \/ NextFallback(r)
    \/ FallbackReturns(r)
    \/ NoFallbackLeft(r)
    \/ Decide(r)
    \/ Wake(r)

Next ==
    \/ \E r \in Requests : Begin(r) \/ Step(r) \/ Abandon(r)
    \/ Elsewhere
    \/ CoolDown

Spec == Init /\ [][Next]_vars

\* Providers answer or stall, and an idle stream times out.
FairSpec == Spec /\ \A r \in Requests : WF_vars(Step(r))

----------------------------------------------------------------------------
(* Properties. *)

Request ==
    [pc : {"idle", "attempt", "primary", "next", "fallback", "answered", "waiting", "done"},
     mode : {"stream", "progress", "plain"}, persistent : BOOLEAN, images : BOOLEAN,
     final : BOOLEAN, attempt : 0..Retries + 1,
     key : Errors \cup {"circuit", "none"}, same : Nat,
     outer : BOOLEAN, muted : BOOLEAN, inner : BOOLEAN, dropped : BOOLEAN,
     at : 0..Fallbacks, failed : BOOLEAN,
     last : (Errors \ Raised) \cup {"none"},
     response : Errors \cup {"ok", "circuit", "none", "abandoned"},
     spoke : BOOLEAN, segment : {"empty", "this", "earlier", "mixed", "blank"}]

\* The values every variable may take.
TypeOK ==
    /\ req \in [Requests -> Request]
    /\ failures \in 0..Threshold
    /\ circuit \in {"closed", "open", "cooled"}
    /\ circuit # "closed" <=> failures = Threshold

\* Whatever fails over, stalls or is retried, one segment of the stream never
\* shows content of two calls, no segment is closed without content, and the
\* segment open at the end of a successful streamed request, which replaces the
\* regular message, shows nothing but the answer.
SegmentOfOneCall ==
    \A r \in Requests :
        /\ req[r].segment \notin {"mixed", "blank"}
        /\ req[r].pc = "done" /\ req[r].response = "ok" /\ req[r].mode = "stream"
              => req[r].segment # "earlier"

\* The last attempt got its error from the last fallback, or from a provider that
\* raised it, or from the primary, and it is none that the failover takes up.
FallbacksUsed(q) ==
    \/ q.at = Fallbacks
    \/ q.response \in Raised
    \/ q.response \notin Fallbackable /\ q.at = 0

\* A transient error is returned to the caller while the user sees nothing only
\* after all retries, and in the last of them no fallback was left untried for an
\* error that the failover takes up: neither layer gives up because of a flag, or a
\* count, that an earlier call, a fallback or another session has left behind.
GivesUpLate ==
    \A r \in Requests :
        LET q == req[r]
        IN  q.pc = "done" /\ q.response \in Transient /\ ~q.final /\ q.segment = "empty"
            => /\ IF q.persistent THEN q.same = IdenticalLimit ELSE q.attempt = Retries + 1
               /\ FallbacksUsed(q)

\* Every request ends, whatever the providers answer.
RequestsEnd ==
    \A r \in Requests :
        req[r].pc = "attempt" /\ ~req[r].persistent ~> req[r].pc = "done"

=============================================================================
