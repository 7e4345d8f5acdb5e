--------------------------- MODULE ChannelManager ---------------------------
(***************************************************************************)
(* What leaves the program: the outbound dispatcher and the channel         *)
(* instances it sends through (nanobot/channels/manager.py).                *)
(*                                                                         *)
(* Producers publish into the outbound queue; one dispatcher takes messages *)
(* out, merges the deltas of a stream that follow each other, suppresses    *)
(* repeated answers and sends with retries.  Meanwhile settings requests    *)
(* replace and remove the instances it sends through, start() of a channel  *)
(* may end at any time, and a shutdown stops everything.                    *)
(***************************************************************************)
EXTENDS Integers, Sequences, FiniteSets, SequencesExt

CONSTANTS
    Producers,    \* turns, cron jobs, channels: whoever publishes
    Script,       \* per producer the messages it publishes, in order
    Names,        \* runtime names of channels
    Initially,    \* those enabled in the configuration
    Callers,      \* settings requests in flight
    Outcomes,     \* what a channel's send may do
    None,         \* no text, no stream, no message id
    MaxInstances, \* bound: instances per name
    MaxDropped,   \* bound: instances that cancelled requests leave behind
    MaxAttempts   \* channels.send_max_retries

Message == [channel : Names, chat : STRING, wanted : BOOLEAN,
            kind : {"delta", "end", "plain", "progress"},
            stream : STRING \cup {None}, text : STRING \cup {None},
            message_id : STRING \cup {None}, origin : STRING \cup {None}]

ASSUME ChannelAssumption ==
    /\ \A p \in Producers : Script[p] \in Seq(Message)
    /\ Initially \subseteq Names /\ "stop_all" \notin Callers
    /\ Outcomes \subseteq {"ok", "error", "late_error", "cancelled"}
    /\ MaxInstances \in Nat \ {0} /\ MaxAttempts \in Nat \ {0} /\ MaxDropped \in Nat

\* A message is named by its producer and its place in the script.
Ids == UNION {{<<p, i>> : i \in 1..Len(Script[p])} : p \in Producers}

VARIABLES
    published, \* history: the messages in the order of publication
    outbound,  \* MessageBus.outbound
    pending,   \* what coalescing has read too far
    hand,      \* the messages the dispatcher sends as one, through which instance
    replied,   \* _origin_reply_fingerprints
    shown,     \* history: what a channel has put out, as blocks of messages
    fate,      \* what has become of a message
    channels,  \* self.channels: runtime name -> instance, 0 is none
    tasks,     \* self._channel_tasks: runtime name -> instance whose start() it runs
    instance,  \* every instance that was built
    call,      \* the settings requests, and "stop_all", with what they await
    started,   \* self._started
    todo,      \* the names stop_all has still to stop
    forsaken   \* history: instances whose task a cancelled request took and dropped

delivery == <<published, outbound, pending, hand, replied, shown, fate>>
runtime == <<channels, tasks, instance, call, started, todo, forsaken>>
vars == <<delivery, runtime>>

Everyone == Callers \cup {"stop_all"}
Idle == [pc |-> "idle", name |-> None, old |-> 0, task |-> 0, new |-> 0]
NoHand == [pc |-> "ready", ids |-> <<>>, inst |-> 0, attempt |-> 0]

----------------------------------------------------------------------------
(* Publishing.                                                               *)

Msg(id) == Script[id[1]][id[2]]
Next_(p) == Cardinality({i \in DOMAIN published : published[i][1] = p}) + 1

Publish(p) ==
    LET id == <<p, Next_(p)>>
    IN  /\ id \in Ids
        /\ published' = Append(published, id)
        /\ outbound' = Append(outbound, id)
        /\ fate' = [fate EXCEPT ![id] = "queued"]
        /\ UNCHANGED <<pending, hand, replied, shown, runtime>>

----------------------------------------------------------------------------
(* The dispatcher.                                                           *)

Target(m) == <<m.channel, m.chat, m.stream>>

\* The next message continues the stream: a delta, or an end that has text.
Continues(id, next) ==
    /\ Target(Msg(next)) = Target(Msg(id))
    /\ \/ Msg(next).kind = "delta"
       \/ Msg(next).kind = "end" /\ Msg(next).text # None

\* Mutant: what stopped the merging is thrown away.
Coalesce_Drops(id, queue) ==
    LET stops == {i \in DOMAIN queue : ~Continues(id, queue[i])}
        ends  == {i \in DOMAIN queue : Msg(queue[i]).kind = "end"}
        n     == Min({i - 1 : i \in stops} \cup ends \cup {Len(queue)})
        read  == IF n + 1 \in stops /\ n \notin ends THEN n + 1 ELSE n
    IN  [ids |-> <<id>> \o SubSeq(queue, 1, n), aside |-> <<>>,
         queue |-> SubSeq(queue, read + 1, Len(queue))]

\* Mutant: merging goes on past the first message that does not match.
Coalesce_ReadsOn(id, queue) ==
    [ids   |-> <<id>> \o SelectSeq(queue, LAMBDA q : Continues(id, q)),
     aside |-> SelectSeq(queue, LAMBDA q : ~Continues(id, q)), queue |-> <<>>]

\* _coalesce_stream_deltas: up to the end of the stream or the first message that
\* does not continue it, which is put aside.
Coalesce(id, queue) ==
    LET stops == {i \in DOMAIN queue : ~Continues(id, queue[i])}
        ends  == {i \in DOMAIN queue : Msg(queue[i]).kind = "end"}
        n     == Min({i - 1 : i \in stops} \cup ends \cup {Len(queue)})
        read  == IF n + 1 \in stops /\ n \notin ends THEN n + 1 ELSE n
    IN  [ids   |-> <<id>> \o SubSeq(queue, 1, n),
         aside |-> SubSeq(queue, n + 1, read),
         queue |-> SubSeq(queue, read + 1, Len(queue))]

\* Mutant: one answer for the whole chat.
Suppressed_ByChat(m) == m.text # None /\ \E k \in replied : k[2] = m.chat /\ k[4] = m.text

\* _should_suppress_outbound: the same text as the latest answer to that message.
Suppressed(m) == m.origin # None /\ m.text # None /\ <<m.channel, m.chat, m.origin, m.text>> \in replied

\* The fingerprints it leaves: one text per message, the latest.
Fingerprints(m) ==
    LET of == {m.origin, m.message_id} \ {None}
    IN  IF m.text = None THEN replied
        ELSE {k \in replied : ~(k[1] = m.channel /\ k[2] = m.chat /\ k[3] \in of)}
             \cup {<<m.channel, m.chat, o, m.text>> : o \in of}

Settle(ids, what) == [id \in Ids |-> IF id \in ToSet(ids) THEN what ELSE fate[id]]

\* What happens to a message before the dispatcher awaits again.
Handle(ids) ==
    LET m == Msg(ids[1])
        repeated == m.kind = "plain" /\ Suppressed(m)
    IN  IF ~m.wanted
        THEN /\ fate' = Settle(ids, "muted") /\ hand' = NoHand /\ UNCHANGED replied
        ELSE IF channels[m.channel] = 0
        THEN /\ fate' = Settle(ids, "no_channel") /\ hand' = NoHand /\ UNCHANGED replied
        ELSE IF repeated
        THEN /\ fate' = Settle(ids, "suppressed") /\ hand' = NoHand /\ UNCHANGED replied
        ELSE /\ replied' = IF m.kind = "plain" THEN Fingerprints(m) ELSE replied
             /\ hand' = [pc |-> "send", ids |-> ids, inst |-> channels[m.channel], attempt |-> 1]
             /\ UNCHANGED fate

\* One round of _dispatch_outbound: what was put aside comes first.
Dispatch ==
    /\ hand.pc = "ready"
    /\ pending \o outbound # <<>>
    /\ started
    /\ LET id   == Head(pending \o outbound)
           rest == IF pending = <<>> THEN Tail(outbound) ELSE outbound
           more == IF pending = <<>> THEN <<>> ELSE Tail(pending)
           c    == Coalesce(id, rest)
       IN  IF Msg(id).kind = "delta"
           THEN /\ outbound' = c.queue /\ pending' = more \o c.aside /\ Handle(c.ids)
           ELSE /\ outbound' = rest /\ pending' = more /\ Handle(<<id>>)
    /\ UNCHANGED <<published, shown, runtime>>

\* One attempt of _send_with_retry, on the instance it was given.
Send(outcome) ==
    /\ hand.pc = "send"
    /\ outcome \in Outcomes
    /\ LET ids == hand.ids
           out == outcome \in {"ok", "late_error"}
           over == outcome = "ok" \/ (outcome # "cancelled" /\ hand.attempt >= MaxAttempts)
       IN  /\ shown' = IF out /\ (shown = <<>> \/ Last(shown) # ids) THEN Append(shown, ids) ELSE shown
           /\ hand' = IF over THEN NoHand
                      ELSE IF outcome = "cancelled" THEN [NoHand EXCEPT !.pc = "ended"]
                      ELSE [hand EXCEPT !.attempt = @ + 1]
           /\ fate' = IF over THEN Settle(ids, IF outcome = "ok" THEN "sent" ELSE "given_up") ELSE fate
    /\ UNCHANGED <<published, outbound, pending, replied, runtime>>

----------------------------------------------------------------------------
(* Instances.                                                                *)

Alive(n, i) == instance[n][i] = "live"

Init ==
    /\ published = <<>> /\ outbound = <<>> /\ pending = <<>> /\ hand = NoHand
    /\ replied = {} /\ shown = <<>> /\ fate = [id \in Ids |-> "none"]
    /\ channels = [n \in Names |-> IF n \in Initially THEN 1 ELSE 0]
    /\ tasks = [n \in Names |-> 0]
    /\ instance = [n \in Names |-> [i \in 1..MaxInstances |->
                       IF i = 1 /\ n \in Initially THEN "built" ELSE "none"]]
    /\ call = [c \in Everyone |-> Idle]
    /\ started = FALSE /\ todo = {} /\ forsaken = {}

StartAll ==
    /\ ~started /\ call["stop_all"].pc = "idle"
    /\ \E n \in Names : channels[n] # 0
    /\ started' = TRUE
    /\ tasks' = channels
    /\ instance' = [n \in Names |-> [i \in 1..MaxInstances |->
                       IF channels[n] = i THEN "live" ELSE instance[n][i]]]
    /\ UNCHANGED <<delivery, channels, call, todo, forsaken>>

\* start() of a channel returns or raises; _start_channel catches it.
StartEnds(n, i) ==
    /\ Alive(n, i)
    /\ instance' = [instance EXCEPT ![n][i] = "ended"]
    /\ UNCHANGED <<delivery, channels, tasks, call, started, todo, forsaken>>

\* _stop_channel up to the await of channel.stop().
BeginStop(c, n, pc, new) ==
    /\ call' = [call EXCEPT ![c] = [pc |-> pc, name |-> n, old |-> channels[n],
                                    task |-> tasks[n], new |-> new]]
    /\ tasks' = [tasks EXCEPT ![n] = 0]

Built(n, i) == [instance EXCEPT ![n][i] = "built"]

\* The new instance takes the name, and runs if the manager does.
Register(n, i, inst) ==
    /\ channels' = [channels EXCEPT ![n] = i]
    /\ tasks' = IF started THEN [tasks EXCEPT ![n] = i] ELSE tasks
    /\ instance' = IF started THEN [inst EXCEPT ![n][i] = "live"] ELSE inst

Acting(c) == call[c].pc = "idle" /\ (started \/ call["stop_all"].pc # "idle")

\* enable: a new instance is built; an old one is stopped first.
Enable(c, n) ==
    /\ Acting(c)
    /\ \E i \in 1..MaxInstances :
        /\ instance[n][i] = "none" /\ \A j \in 1..(i - 1) : instance[n][j] # "none"
        /\ IF channels[n] = 0
           THEN /\ Register(n, i, Built(n, i)) /\ UNCHANGED call
           ELSE /\ BeginStop(c, n, "replace", i)
                /\ instance' = Built(n, i)
                /\ UNCHANGED channels
    /\ UNCHANGED <<delivery, started, todo, forsaken>>

Disable(c, n) ==
    /\ Acting(c)
    /\ channels[n] # 0
    /\ BeginStop(c, n, "remove", 0)
    /\ UNCHANGED <<delivery, channels, instance, started, todo, forsaken>>

\* Mutant: the old instance is not stopped.
Halted_NotCancelled(c) == instance

\* stop() has returned or raised, and the task of start() was cancelled.
Halted(c) ==
    LET k == call[c]
    IN  IF k.task # 0 THEN [instance EXCEPT ![k.name][k.task] = "ended"] ELSE instance

Replaced(c) ==
    /\ call[c].pc = "replace"
    /\ Register(call[c].name, call[c].new, Halted(c))
    /\ call' = [call EXCEPT ![c] = Idle]
    /\ UNCHANGED <<delivery, started, todo, forsaken>>

Removed(c) ==
    /\ call[c].pc = "remove"
    /\ channels' = [channels EXCEPT ![call[c].name] = 0]
    /\ instance' = Halted(c)
    /\ call' = [call EXCEPT ![c] = Idle]
    /\ UNCHANGED <<delivery, tasks, started, todo, forsaken>>

\* The request is cancelled while it awaits stop(): _stop_channel raises, the task it
\* had taken is not cancelled, the new instance is dropped, the old one stays registered.
Dropped(c) ==
    /\ call[c].pc \in {"replace", "remove"}
    /\ Cardinality(forsaken) < MaxDropped
    /\ forsaken' = IF call[c].task = 0 THEN forsaken
                   ELSE forsaken \cup {<<call[c].name, call[c].task>>}
    /\ call' = [call EXCEPT ![c] = Idle]
    /\ UNCHANGED <<delivery, channels, tasks, instance, started, todo>>

----------------------------------------------------------------------------
(* stop_all.                                                                 *)

\* The dispatcher is cancelled where it awaits.
StopAll ==
    /\ started /\ call["stop_all"].pc = "idle"
    /\ started' = FALSE
    /\ hand' = [NoHand EXCEPT !.pc = "ended"]
    /\ todo' = {n \in Names : channels[n] # 0}
    /\ call' = [call EXCEPT !["stop_all"].pc = "next"]
    /\ UNCHANGED <<published, outbound, pending, replied, shown, fate, channels, tasks, instance,
                   forsaken>>

StopNext(n) ==
    /\ call["stop_all"].pc = "next"
    /\ n \in todo
    /\ todo' = todo \ {n}
    /\ IF channels[n] = 0
       THEN /\ tasks' = [tasks EXCEPT ![n] = 0] /\ UNCHANGED call
       ELSE BeginStop("stop_all", n, "stop", 0)
    /\ UNCHANGED <<delivery, channels, instance, started, forsaken>>

Stopped ==
    /\ call["stop_all"].pc = "stop"
    /\ instance' = Halted("stop_all")
    /\ call' = [call EXCEPT !["stop_all"] = [Idle EXCEPT !.pc = "next"]]
    /\ UNCHANGED <<delivery, channels, tasks, started, todo, forsaken>>

----------------------------------------------------------------------------
Next ==
    \/ \E p \in Producers : Publish(p)
    \/ Dispatch
    \/ \E o \in Outcomes : Send(o)
    \/ StartAll
    \/ \E n \in Names, i \in 1..MaxInstances : StartEnds(n, i)
    \/ \E c \in Callers, n \in Names : Enable(c, n) \/ Disable(c, n)
    \/ \E c \in Callers : Replaced(c) \/ Removed(c) \/ Dropped(c)
    \/ StopAll
    \/ \E n \in Names : StopNext(n)
    \/ Stopped

Spec == Init /\ [][Next]_vars

\* A send and a stop() return or raise, and the dispatcher is a task of its own.
Fairness ==
    /\ WF_vars(StartAll)
    /\ WF_vars(Dispatch) /\ WF_vars(\E o \in Outcomes : Send(o))
    /\ \A c \in Callers : WF_vars(Replaced(c)) /\ WF_vars(Removed(c))
    /\ \A n \in Names : WF_vars(StopNext(n))
    /\ WF_vars(Stopped)

FairSpec == Spec /\ Fairness

----------------------------------------------------------------------------
\* The state space.
TypeOK ==
    /\ published \in Seq(Ids) /\ outbound \in Seq(Ids) /\ pending \in Seq(Ids)
    /\ hand \in [pc : {"ready", "send", "ended"}, ids : Seq(Ids),
                 inst : 0..MaxInstances, attempt : 0..MaxAttempts]
    /\ fate \in [Ids -> {"none", "queued", "sent", "given_up", "suppressed", "muted", "no_channel"}]
    /\ shown \in Seq(Seq(Ids))
    /\ channels \in [Names -> 0..MaxInstances] /\ tasks \in [Names -> 0..MaxInstances]
    /\ instance \in [Names -> [1..MaxInstances -> {"none", "built", "live", "ended"}]]
    /\ call \in [Everyone -> [pc : {"idle", "replace", "remove", "next", "stop"},
                             name : Names \cup {None}, old : 0..MaxInstances,
                             task : 0..MaxInstances, new : 0..MaxInstances]]
    /\ started \in BOOLEAN /\ todo \subseteq Names
    /\ forsaken \subseteq (Names \cup {None}) \X (1..MaxInstances)

PlaceOf(id) == CHOOSE i \in DOMAIN published : published[i] = id
Places(ids) == {PlaceOf(ids[k]) : k \in DOMAIN ids}

\* What the user sees is in the order of publication, whatever was merged, put
\* aside, retried or suppressed, and a merged block has no hole.
InOrder ==
    /\ \A i, j \in DOMAIN shown : i < j =>
           Max(Places(shown[i])) < Min(Places(shown[j]))
    /\ \A i \in DOMAIN shown : Places(shown[i]) = Min(Places(shown[i]))..Max(Places(shown[i]))

\* Only a repetition is suppressed: the same text, in the same chat, about the same
\* message, of which a channel had been given a copy ("so repeated content from
\* separate turns is still delivered").
OnlyRepetitions ==
    \A id \in Ids : fate[id] = "suppressed" =>
        \E other \in Ids :
            /\ fate[other] \in {"sent", "given_up"} \/ hand.pc = "ended"
            /\ Msg(other).chat = Msg(id).chat /\ Msg(other).text = Msg(id).text
            /\ Msg(id).origin \in {Msg(other).message_id, Msg(other).origin} \ {None}

Stopping(n, i) == \E c \in Everyone : call[c].name = n /\ call[c].task = i

\* A running instance is the one registered under its name, with the task that can
\* cancel it, or somebody is stopping it, also while stop_all goes over the channels.
\* The one way to lose the task of a running instance is to cancel the request that
\* stops it, in its `await channel.stop()`.
Owned ==
    \A n \in Names, i \in 1..MaxInstances : Alive(n, i) =>
        \/ Stopping(n, i)
        \/ channels[n] = i /\ tasks[n] = i /\ (started \/ n \in todo)
        \/ <<n, i>> \in forsaken

\* Until the manager is stopped, every published message is in the end sent, given up
\* after its attempts or dropped for a reason: the queue never stalls, and nothing
\* that coalescing put aside is forgotten.
Delivered == <>[](~started \/ \A id \in Ids : fate[id] # "queued")
=============================================================================
