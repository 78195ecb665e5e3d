-------------------------- MODULE ContextPipeline --------------------------
(***************************************************************************)
(* How the context of a channel (which experiment, step and cycle it runs) *)
(* travels: the executor enqueues it, context_publisher_loop drains the    *)
(* bounded queue to MQTT retained topics, and the ingester keeps the last  *)
(* context of each channel to tag telemetry rows with.  events.py drains   *)
(* its queue of cycle_complete events with the same loop.                  *)
(*                                                                         *)
(* The publisher awaits the broker and the queue, so it is a small state   *)
(* machine; enqueueing never awaits.  The broker is external: it keeps the *)
(* last payload of a topic, an empty payload deletes it, a subscriber gets *)
(* the retained payloads on subscribing and new payloads in order while it *)
(* is connected.                                                           *)
(***************************************************************************)
EXTENDS Naturals, Sequences, FiniteSets, SequencesExt

CONSTANTS
    Topics,          \* experiment/<chassis>/<channel>, one per channel
    QueueMax,        \* QUEUE_MAX
    MaxUpdates,      \* bound: contexts the executor enqueues per channel
    MaxPubErrors,    \* bound: publishes that fail
    MaxDrops         \* bound: connection losses of the ingester

ASSUME PipelineAssumption ==
    /\ IsFiniteSet(Topics)
    /\ QueueMax \in Nat \ {0} /\ MaxUpdates \in Nat
    /\ MaxPubErrors \in Nat /\ MaxDrops \in Nat

VARIABLES
    latest,     \* per channel, the message the executor enqueued last
    refused,    \* messages dropped because the queue was full
    queue,      \* context._queue
    pub,        \* context_publisher_loop: where it is, the message in hand
    sent,       \* messages the broker has taken
    retained,   \* the broker's retained payload of each topic
    online,     \* the ingester's connection
    inbox,      \* messages on their way to the ingester
    context,    \* the ingester's ContextMap
    pubErrors, drops

pipe == <<latest, refused, queue, pub, sent, retained>>
ingester == <<online, inbox, context>>
vars == <<pipe, ingester, pubErrors, drops>>

\* A message is the n-th of its topic; an empty payload clears.
Messages == [topic : Topics, n : 1..MaxUpdates, clear : BOOLEAN]
None == [topic |-> "none", n |-> 0, clear |-> TRUE]
Places == {"connect", "get", "publish", "put", "backoff"}

\* Types, with the bound of the queue (QUEUE_MAX in _enqueue and in put).
TypeOK ==
    /\ latest \in [Topics -> Messages \cup {None}]
    /\ refused \subseteq Messages
    /\ queue \in BoundedSeq(Messages, QueueMax)
    /\ pub.at \in Places
    /\ pub.msg \in Messages \cup {None}
    /\ pub.at \in {"publish", "put"} <=> pub.msg # None
    /\ sent \subseteq Messages
    /\ retained \in [Topics -> Messages \cup {None}]
    /\ online \in BOOLEAN
    /\ context \in [Topics -> Messages \cup {None}]

Init ==
    /\ latest = [t \in Topics |-> None]
    /\ refused = {} /\ queue = <<>> /\ sent = {}
    /\ pub = [at |-> "connect", msg |-> None]
    /\ retained = [t \in Topics |-> None]
    /\ online = FALSE /\ inbox = <<>>
    /\ context = [t \in Topics |-> None]
    /\ pubErrors = 0 /\ drops = 0

-----------------------------------------------------------------------------
(* The executor: publish_context and clear_context.                        *)

\* Mutant: the queue has no limit.
EnqueueUnbounded(m) ==
    /\ latest' = [latest EXCEPT ![m.topic] = m]
    /\ queue' = Append(queue, m)
    /\ UNCHANGED refused

\* Mutant: a full queue makes room by dropping its oldest entry.
EnqueueEvicting(m) ==
    /\ latest' = [latest EXCEPT ![m.topic] = m]
    /\ queue' = Append(IF Len(queue) < QueueMax THEN queue ELSE Tail(queue), m)
    /\ UNCHANGED refused

\* _enqueue: put_nowait; a full queue drops the new entry.
Enqueue(m) ==
    /\ latest' = [latest EXCEPT ![m.topic] = m]
    /\ IF Len(queue) < QueueMax
       THEN queue' = Append(queue, m) /\ UNCHANGED refused
       ELSE refused' = refused \cup {m} /\ UNCHANGED queue

Update(t, clear) ==
    /\ latest[t].n < MaxUpdates
    /\ Enqueue([topic |-> t, n |-> latest[t].n + 1, clear |-> clear])
    /\ UNCHANGED <<pub, sent, retained, ingester, pubErrors, drops>>

-----------------------------------------------------------------------------
(* context_publisher_loop, and the broker.                                 *)

At(from, to, msg) == pub.at = from /\ pub' = [at |-> to, msg |-> msg]

Connect ==
    /\ At("connect", "get", None)
    /\ UNCHANGED <<latest, refused, queue, sent, retained, ingester, pubErrors, drops>>

Get ==
    /\ queue # <<>>
    /\ At("get", "publish", Head(queue))
    /\ queue' = Tail(queue)
    /\ UNCHANGED <<latest, refused, sent, retained, ingester, pubErrors, drops>>

\* The broker stores the payload, or deletes the retained one, and forwards.
BrokerTakes(m) ==
    /\ sent' = sent \cup {m}
    /\ retained' = [retained EXCEPT ![m.topic] = IF m.clear THEN None ELSE m]
    /\ inbox' = IF online THEN Append(inbox, m) ELSE inbox
    /\ UNCHANGED <<online, context>>

Publish ==
    /\ At("publish", "get", None)
    /\ BrokerTakes(pub.msg)
    /\ UNCHANGED <<latest, refused, queue, pubErrors, drops>>

\* Mutant: the failed message is not put back.
PublishErrorForgets ==
    /\ At("publish", "backoff", None)
    /\ pubErrors < MaxPubErrors /\ pubErrors' = pubErrors + 1
    /\ UNCHANGED <<latest, refused, queue, sent, retained, ingester, drops>>

\* MqttError from publish: the broker may or may not have taken the message.
PublishError ==
    /\ At("publish", "put", pub.msg)
    /\ pubErrors < MaxPubErrors /\ pubErrors' = pubErrors + 1
    /\ \/ BrokerTakes(pub.msg)
       \/ UNCHANGED <<sent, retained, ingester>>
    /\ UNCHANGED <<latest, refused, queue, drops>>

\* await _queue.put: to the end of the queue, and it waits while it is full.
PutBack ==
    /\ Len(queue) < QueueMax
    /\ At("put", "backoff", None)
    /\ queue' = Append(queue, pub.msg)
    /\ UNCHANGED <<latest, refused, sent, retained, ingester, pubErrors, drops>>

Backoff ==
    /\ At("backoff", "connect", None)
    /\ UNCHANGED <<latest, refused, queue, sent, retained, ingester, pubErrors, drops>>

Publisher == Connect \/ Get \/ Publish \/ PublishError \/ PutBack \/ Backoff

-----------------------------------------------------------------------------
(* The ingester.                                                           *)

\* Mutant: subscribes without asking for what is retained.
SubscribeLive ==
    /\ ~online /\ online' = TRUE
    /\ inbox' = <<>>
    /\ UNCHANGED <<pipe, context, pubErrors, drops>>

\* Subscribing delivers the retained payloads; the ContextMap is kept.
Subscribe ==
    /\ ~online /\ online' = TRUE
    /\ inbox' = SetToSeq({retained[t] : t \in Topics} \ {None})
    /\ UNCHANGED <<pipe, context, pubErrors, drops>>

\* _parse_context: an empty payload is no context
ParseContext(m) == IF m.clear THEN None ELSE m

\* The branch of main for experiment/ topics.
Receive ==
    /\ online /\ inbox # <<>>
    /\ LET m == Head(inbox)
       IN  context' = [context EXCEPT ![m.topic] = ParseContext(m)]
    /\ inbox' = Tail(inbox)
    /\ UNCHANGED <<pipe, online, pubErrors, drops>>

\* MqttError, PostgresError or OSError: the connection and what is on its way
\* are lost, the ContextMap stays; a restart of the service loses it too.
Disconnect ==
    /\ online /\ drops < MaxDrops
    /\ drops' = drops + 1
    /\ online' = FALSE /\ inbox' = <<>>
    /\ context' \in {context, [t \in Topics |-> None]}
    /\ UNCHANGED <<pipe, pubErrors>>

Ingester == Subscribe \/ Receive \/ Disconnect

Next == \/ \E t \in Topics, clear \in BOOLEAN : Update(t, clear)
        \/ Publisher
        \/ Ingester

Spec == Init /\ [][Next]_vars

\* Both services' loops keep running; the broker comes back.
FairSpec == /\ Spec
            /\ WF_vars(Connect \/ Get \/ Publish \/ PutBack \/ Backoff)
            /\ WF_vars(Subscribe \/ Receive)

-----------------------------------------------------------------------------
(* Properties.                                                             *)

\* A message that entered the queue is there exactly once, or in the
\* publisher's hand, until the broker has taken it: "reconnects don't lose
\* events" (event_publisher_loop, context_publisher_loop).
NothingLost ==
    \A t \in Topics : \A n \in 1..latest[t].n :
        LET Mine(m) == m.topic = t /\ m.n = n
            waiting == Append(queue, pub.msg)
            places == {i \in DOMAIN waiting : Mine(waiting[i])}
        IN  /\ \A i, j \in places : i = j
            /\ places # {} \/ \E m \in sent \cup refused : Mine(m)

\* Nothing is on its way any more.
Settled == queue = <<>> /\ pub.at = "get" /\ online /\ inbox = <<>>

\* "A reconnecting ingester gets the latest context for every active channel"
\* and "a late-joining ingester won't see stale context for an idle channel":
\* whenever nothing is on its way, a channel is tagged with what the executor
\* enqueued last, as long as the publisher dropped nothing and met no error (a
\* message that is put back is published after the newer ones in the queue).
\* The exception is a channel that is cleared when the ingester has lost a
\* connection: a deleted topic delivers nothing on subscribing, and the
\* ContextMap of the service that stays up keeps the old context.
ContextSettles ==
    Settled /\ pubErrors = 0 /\ refused = {} =>
        \A t \in Topics :
            \/ context[t] = ParseContext(latest[t])
            \/ latest[t].clear /\ drops > 0

\* The publisher cannot put its message back into a full queue, and nobody else
\* takes from it.
Blocked == pub.at = "put" /\ Len(queue) = QueueMax

\* The publisher makes progress: the last context of a channel is eventually
\* taken by the broker, or was dropped at the full queue, unless a publish
\* failed while the queue was full: then the publisher waits for itself.
QueueDrains ==
    \A t \in Topics : latest[t] # None ~> latest[t] \in sent \cup refused \/ Blocked
-----------------------------------------------------------------------------
(* What the properties rest on (ContextPipelineProofs).                    *)

\* Some message of q is about channel t, and the last one means context c.
OfTopic(q, t) == \E i \in 1..Len(q) : q[i].topic = t
EndsWith(q, t, c) ==
    \A i \in 1..Len(q) :
        q[i].topic = t /\ (\A j \in (i + 1)..Len(q) : q[j].topic # t)
            => ParseContext(q[i]) = c

\* The two sequences are sequences, and every channel has its own messages.
Shapes ==
    /\ pub \in [at : Places, msg : Messages \cup {None}]
    /\ queue \in Seq(Messages) /\ Len(queue) <= QueueMax
    /\ inbox \in Seq(Messages)
    /\ pubErrors \in Nat /\ drops \in Nat
    /\ \A t \in Topics :
          /\ latest[t] # None => latest[t].topic = t
          /\ retained[t] # None => retained[t].topic = t /\ ~retained[t].clear

\* What waits was enqueued, and is there once.
WaitingOnce ==
    /\ \A i \in 1..Len(queue) : queue[i].n <= latest[queue[i].topic].n
    /\ pub.msg # None => pub.msg.n <= latest[pub.msg.topic].n
    /\ \A i, j \in 1..Len(queue) :
          queue[i].topic = queue[j].topic /\ queue[i].n = queue[j].n => i = j
    /\ pub.msg # None =>
          \A i \in 1..Len(queue) : queue[i].topic # pub.msg.topic \/ queue[i].n # pub.msg.n

\* What was enqueued waits, or was taken by the broker, or was dropped.
AllPresent ==
    \A t \in Topics : \A n \in 1..latest[t].n :
        \/ \E i \in 1..Len(queue) : queue[i].topic = t /\ queue[i].n = n
        \/ pub.msg.topic = t /\ pub.msg.n = n
        \/ \E m \in sent \cup refused : m.topic = t /\ m.n = n

\* The orchestrator's side: without drops and errors the messages of a channel
\* stay in order, so the last one is the latest, wherever it is.
OrderedUpstream ==
    pubErrors = 0 /\ refused = {} =>
        /\ pub.at \notin {"put", "backoff"}
        /\ \A t \in Topics :
              /\ EndsWith(queue, t, ParseContext(latest[t]))
              /\ ~OfTopic(queue, t) =>
                    IF pub.at = "publish" /\ pub.msg.topic = t
                    THEN ParseContext(pub.msg) = ParseContext(latest[t])
                    ELSE retained[t] = ParseContext(latest[t])

\* The ingester's side: what is on its way to it ends in what is retained.
OrderedDownstream ==
    /\ online => \A t \in Topics :
          /\ EndsWith(inbox, t, retained[t])
          /\ ~OfTopic(inbox, t) =>
                context[t] = retained[t] \/ (retained[t] = None /\ drops > 0)
    /\ ~online => inbox = <<>> /\ (drops = 0 => context = [t \in Topics |-> None])

PipelineIndInv ==
    TypeOK /\ Shapes /\ WaitingOnce /\ AllPresent /\ OrderedUpstream /\ OrderedDownstream
=============================================================================
