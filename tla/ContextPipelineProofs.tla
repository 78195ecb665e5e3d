------------------------ MODULE ContextPipelineProofs ------------------------
(***************************************************************************)
(* The safety properties of ContextPipeline, for every finite set of       *)
(* channels, every queue size and any number of updates, failed publishes  *)
(* and lost connections.                                                   *)
(***************************************************************************)
EXTENDS ContextPipeline, SequenceTheorems, FiniteSetTheorems, TLAPS

(* Facts about the operators.                                              *)

\* None is no message.
LEMMA NoneIsNoMessage == None \notin Messages /\ None.n = 0 /\ None.clear = TRUE
BY DEF None, Messages

\* What a message is made of.
LEMMA MessageParts ==
  ASSUME NEW m \in Messages
  PROVE  m.topic \in Topics /\ m.n \in 1..MaxUpdates /\ m.clear \in BOOLEAN
BY DEF Messages

\* A parsed message is a context that is not a clear, or none.
LEMMA ParseFacts ==
  ASSUME NEW m \in Messages \cup {None}
  PROVE  /\ ParseContext(m) \in Messages \cup {None}
         /\ ParseContext(m) # None => ParseContext(m) = m /\ ~m.clear
         /\ ParseContext(m) = None => m.clear
<1>1. CASE m \in Messages
  BY <1>1, NoneIsNoMessage, MessageParts DEF ParseContext
<1>2. CASE m = None
  BY <1>2, NoneIsNoMessage DEF ParseContext
<1> QED
  BY <1>1, <1>2

\* The bounded sequences are the sequences that are short enough.
LEMMA BoundedSeqFacts ==
  ASSUME NEW S, NEW n \in Nat, NEW q
  PROVE  q \in BoundedSeq(S, n) <=> q \in Seq(S) /\ Len(q) <= n
<1>1. ASSUME q \in BoundedSeq(S, n) PROVE q \in Seq(S) /\ Len(q) <= n
  <2>1. PICK m \in 0..n : q \in [1..m -> S]
    BY <1>1 DEF BoundedSeq, SeqOf
  <2> QED
    BY <2>1
<1>2. ASSUME q \in Seq(S), Len(q) <= n PROVE q \in BoundedSeq(S, n)
  <2>1. Len(q) \in 0..n /\ q \in [1..Len(q) -> S]
    BY <1>2, LenProperties
  <2> QED
    BY <2>1 DEF BoundedSeq, SeqOf
<1> QED
  BY <1>1, <1>2

\* Append, position by position.
LEMMA AppendFacts ==
  ASSUME NEW q \in Seq(Messages), NEW m \in Messages
  PROVE  /\ Append(q, m) \in Seq(Messages)
         /\ Len(q) \in Nat /\ Len(Append(q, m)) = Len(q) + 1
         /\ \A i \in 1..Len(q) : Append(q, m)[i] = q[i] /\ q[i] \in Messages
         /\ Append(q, m)[Len(q) + 1] = m
<1>1. Len(q) \in Nat /\ \A i \in 1..Len(q) : q[i] \in Messages
  BY LenProperties, ElementOfSeq
<1> QED
  BY <1>1, AppendProperties

\* Appending a message makes it the last of its channel and disturbs no other.
LEMMA AppendOrder ==
  ASSUME NEW q \in Seq(Messages), NEW m \in Messages, NEW t, NEW c
  PROVE  /\ EndsWith(Append(q, m), m.topic, ParseContext(m))
         /\ t # m.topic /\ EndsWith(q, t, c) => EndsWith(Append(q, m), t, c)
         /\ OfTopic(Append(q, m), t) <=> OfTopic(q, t) \/ m.topic = t
<1> DEFINE a == Append(q, m)
           k == Len(q)
<1>1. /\ k \in Nat /\ Len(a) = k + 1 /\ a[k + 1] = m
      /\ \A i \in 1..k : a[i] = q[i]
  BY AppendFacts
<1> HIDE DEF a, k
<1>2. EndsWith(a, m.topic, ParseContext(m))
  <2> SUFFICES ASSUME NEW i \in 1..(k + 1),
                      \A j \in (i + 1)..(k + 1) : a[j].topic # m.topic
               PROVE  ParseContext(a[i]) = ParseContext(m)
    BY <1>1 DEF EndsWith
  <2>1. CASE i = k + 1
    BY <2>1, <1>1
  <2>2. CASE i # k + 1
    BY <2>2, <1>1
  <2> QED
    BY <2>1, <2>2
<1>3. ASSUME t # m.topic, EndsWith(q, t, c) PROVE EndsWith(a, t, c)
  <2> SUFFICES ASSUME NEW i \in 1..(k + 1), a[i].topic = t,
                      \A j \in (i + 1)..(k + 1) : a[j].topic # t
               PROVE  ParseContext(a[i]) = c
    BY <1>1 DEF EndsWith
  <2>1. i \in 1..k /\ a[i] = q[i]
    BY <1>1, <1>3
  <2>2. \A j \in (i + 1)..k : q[j].topic # t
    BY <1>1, <2>1
  <2> QED
    BY <1>3, <2>1, <2>2 DEF EndsWith, k
<1>4. OfTopic(a, t) <=> OfTopic(q, t) \/ m.topic = t
  <2>1. OfTopic(a, t) => OfTopic(q, t) \/ m.topic = t
    BY <1>1 DEF OfTopic, k
  <2>2. OfTopic(q, t) => OfTopic(a, t)
    <3> SUFFICES ASSUME NEW i \in 1..k, q[i].topic = t PROVE OfTopic(a, t)
      BY DEF OfTopic, k
    <3> QED
      BY <1>1 DEF OfTopic
  <2>3. m.topic = t => OfTopic(a, t)
    BY <1>1 DEF OfTopic
  <2> QED
    BY <2>1, <2>2, <2>3
<1> QED
  BY <1>2, <1>3, <1>4 DEF a

\* Taking the head leaves the last message of a channel where it is, unless it
\* was the head itself.
LEMMA TailOrder ==
  ASSUME NEW q \in Seq(Messages), q # <<>>, NEW t, NEW c
  PROVE  /\ Head(q) \in Messages /\ Tail(q) \in Seq(Messages)
         /\ Head(q) = q[1] /\ Len(Tail(q)) \in Nat /\ Len(q) = Len(Tail(q)) + 1
         /\ \A i \in 1..Len(Tail(q)) : Tail(q)[i] = q[i + 1] /\ q[i + 1] \in Messages
         /\ EndsWith(q, t, c) => EndsWith(Tail(q), t, c)
         /\ EndsWith(q, t, c) /\ Head(q).topic = t /\ ~OfTopic(Tail(q), t)
               => ParseContext(Head(q)) = c
         /\ OfTopic(q, t) <=> OfTopic(Tail(q), t) \/ Head(q).topic = t
<1> DEFINE r == Tail(q)
           k == Len(r)
<1>1. /\ Head(q) \in Messages /\ r \in Seq(Messages) /\ k \in Nat /\ Len(q) = k + 1
      /\ \A i \in 1..k : r[i] = q[i + 1]
  BY HeadTailProperties, LenProperties
<1>2. Head(q) = q[1] /\ \A i \in 1..(k + 1) : q[i] \in Messages
  BY <1>1, ElementOfSeq
<1> HIDE DEF r, k
<1>3. ASSUME EndsWith(q, t, c) PROVE EndsWith(r, t, c)
  <2> SUFFICES ASSUME NEW i \in 1..k, r[i].topic = t,
                      \A j \in (i + 1)..k : r[j].topic # t
               PROVE  ParseContext(r[i]) = c
    BY <1>1 DEF EndsWith, k
  <2>1. \A j \in ((i + 1) + 1)..(k + 1) : q[j].topic # t
    <3> SUFFICES ASSUME NEW j \in ((i + 1) + 1)..(k + 1) PROVE q[j].topic # t
      OBVIOUS
    <3>1. j - 1 \in (i + 1)..k /\ j - 1 \in 1..k /\ (j - 1) + 1 = j
      BY <1>1
    <3> QED
      BY <3>1, <1>1
  <2>2. i + 1 \in 1..(k + 1) /\ q[i + 1] = r[i]
    BY <1>1
  <2> QED
    BY <1>1, <1>3, <2>1, <2>2 DEF EndsWith
<1>4. ASSUME EndsWith(q, t, c), Head(q).topic = t, ~OfTopic(r, t)
      PROVE  ParseContext(Head(q)) = c
  <2>1. \A j \in (1 + 1)..(k + 1) : q[j].topic # t
    <3> SUFFICES ASSUME NEW j \in (1 + 1)..(k + 1) PROVE q[j].topic # t
      OBVIOUS
    <3>1. j - 1 \in 1..k /\ (j - 1) + 1 = j
      BY <1>1
    <3> QED
      BY <3>1, <1>1, <1>4 DEF OfTopic, k
  <2> QED
    BY <1>1, <1>2, <1>4, <2>1 DEF EndsWith
<1>5. OfTopic(q, t) <=> OfTopic(r, t) \/ Head(q).topic = t
  <2>1. ASSUME NEW i \in 1..(k + 1), q[i].topic = t, i # 1 PROVE OfTopic(r, t)
    <3>1. i - 1 \in 1..k /\ (i - 1) + 1 = i
      BY <1>1, <2>1
    <3> QED
      BY <1>1, <2>1, <3>1 DEF OfTopic, k
  <2>2. ASSUME NEW i \in 1..k, r[i].topic = t PROVE OfTopic(q, t)
    <3>1. i + 1 \in 1..(k + 1)
      BY <1>1
    <3> QED
      BY <1>1, <2>2, <3>1 DEF OfTopic
  <2>3. Head(q).topic = t => OfTopic(q, t)
    BY <1>1, <1>2 DEF OfTopic
  <2> QED
    BY <1>1, <1>2, <2>1, <2>2, <2>3 DEF OfTopic, k
<1>6. \A i \in 1..k : r[i] = q[i + 1] /\ q[i + 1] \in Messages
  BY <1>1, <1>2
<1> QED
  BY <1>1, <1>2, <1>3, <1>4, <1>5, <1>6 DEF r, k

\* The sequence of a finite set holds its elements, each of them.
LEMMA SetToSeqFacts ==
  ASSUME NEW S, IsFiniteSet(S)
  PROVE  /\ SetToSeq(S) \in Seq(S)
         /\ \A x \in S : \E i \in 1..Len(SetToSeq(S)) : SetToSeq(S)[i] = x
<1> DEFINE n == Cardinality(S)
           f == SetToSeq(S)
<1>1. n \in Nat /\ ExistsBijection(1..n, S)
  BY FS_CardinalityType
<1>2. \E g \in [1..n -> S] : IsInjective(g)
  BY <1>1 DEF ExistsBijection, Bijection, Injection
<1>3. f \in [1..n -> S] /\ IsInjective(f)
  BY <1>2 DEF SetToSeq
<1>4. f \in Injection(1..n, S)
  BY <1>3 DEF Injection
<1>5. Cardinality(1..n) = n
  BY <1>1, FS_Interval
<1>6. f \in Surjection(1..n, S)
  BY <1>4, <1>5, FS_Injection
<1>7. f \in Seq(S) /\ Len(f) = n
  BY <1>1, <1>3
<1> QED
  BY <1>6, <1>7 DEF Surjection

-----------------------------------------------------------------------------
(* Initial states.                                                         *)

\* Nothing is on its way at the start.
LEMMA PipelineInit == Init => PipelineIndInv
<1> SUFFICES ASSUME Init PROVE PipelineIndInv
  OBVIOUS
<1>1. queue = <<>> /\ inbox = <<>> /\ Len(queue) = 0 /\ Len(inbox) = 0
  BY DEF Init
<1>2. Shapes
  BY <1>1, PipelineAssumption DEF Init, Shapes, Places
<1>3. TypeOK
  <2>1. queue \in BoundedSeq(Messages, QueueMax)
    BY <1>2, BoundedSeqFacts, PipelineAssumption DEF Shapes
  <2> QED
    BY <2>1, NoneIsNoMessage DEF Init, TypeOK, Places
<1>4. WaitingOnce
  BY <1>1 DEF Init, WaitingOnce
<1>5. AllPresent
  BY NoneIsNoMessage DEF Init, AllPresent
<1>6. OrderedUpstream
  BY <1>1, NoneIsNoMessage DEF Init, OrderedUpstream, EndsWith, OfTopic, ParseContext
<1>7. OrderedDownstream
  BY <1>1 DEF Init, OrderedDownstream
<1> QED
  BY <1>2, <1>3, <1>4, <1>5, <1>6, <1>7 DEF PipelineIndInv

-----------------------------------------------------------------------------
(* The executor.                                                           *)

\* A new message gets the next number of its channel, and waits last in the
\* queue or is dropped.
LEMMA UpdateStep ==
  ASSUME PipelineIndInv, NEW t \in Topics, NEW clear \in BOOLEAN, Update(t, clear)
  PROVE  PipelineIndInv'
<1> USE DEF ingester
<1> DEFINE m == [topic |-> t, n |-> latest[t].n + 1, clear |-> clear]
<1>1. TypeOK /\ Shapes /\ WaitingOnce /\ AllPresent /\ OrderedUpstream /\ OrderedDownstream
  BY DEF PipelineIndInv
<1>2. latest[t].n \in 0..MaxUpdates
  BY <1>1, NoneIsNoMessage, MessageParts, PipelineAssumption DEF TypeOK
<1>3. m \in Messages /\ m.topic = t /\ m.n = latest[t].n + 1
  BY <1>2, PipelineAssumption DEF Update, Messages
<1>4. /\ latest' = [latest EXCEPT ![t] = m]
      /\ \/ Len(queue) < QueueMax /\ queue' = Append(queue, m) /\ UNCHANGED refused
         \/ refused' = refused \cup {m} /\ UNCHANGED queue
      /\ UNCHANGED <<pub, sent, retained, online, inbox, context, pubErrors, drops>>
  BY DEF Update, Enqueue
<1> HIDE DEF m
<1>5. /\ latest' \in [Topics -> Messages \cup {None}] /\ latest'[t] = m
      /\ \A u \in Topics \ {t} : latest'[u] = latest[u]
  BY <1>1, <1>3, <1>4 DEF TypeOK
<1>6. \A u \in Topics : /\ latest[u].n \in Nat /\ latest'[u].n \in Nat
                        /\ latest[u].n <= latest'[u].n
  BY <1>1, <1>2, <1>3, <1>5, NoneIsNoMessage, MessageParts, PipelineAssumption DEF TypeOK
<1>7. OrderedDownstream'
  BY <1>1, <1>4 DEF OrderedDownstream
<1>8. pub.msg # None => pub.msg \in Messages /\ pub.msg.topic \in Topics /\ pub.msg.n \in Nat
  BY <1>1, MessageParts DEF TypeOK
<1>9. Len(queue) \in Nat /\ \A i \in 1..Len(queue) :
          queue[i] \in Messages /\ queue[i].topic \in Topics /\ queue[i].n \in Nat
  BY <1>1, LenProperties, ElementOfSeq, MessageParts DEF Shapes
<1>10. pub.msg # None => pub.msg.n <= latest'[pub.msg.topic].n
  BY <1>1, <1>6, <1>8 DEF WaitingOnce
<1>11. \A i \in 1..Len(queue) : queue[i].n <= latest'[queue[i].topic].n
  BY <1>1, <1>6, <1>9 DEF WaitingOnce
<1>12. \A u \in Topics : /\ latest'[u] # None => latest'[u].topic = u
                         /\ retained[u] # None => retained[u].topic = u /\ ~retained[u].clear
  BY <1>1, <1>3, <1>5 DEF Shapes
<1>13. CASE Len(queue) < QueueMax /\ queue' = Append(queue, m) /\ UNCHANGED refused
  <2>1. /\ queue' \in Seq(Messages) /\ Len(queue') = Len(queue) + 1
        /\ \A i \in 1..Len(queue) : queue'[i] = queue[i]
        /\ queue'[Len(queue) + 1] = m
    BY <1>1, <1>3, <1>13, AppendFacts DEF Shapes
  <2>2. Len(queue') <= QueueMax
    BY <1>9, <1>13, <2>1, PipelineAssumption
  <2>3. Shapes'
    BY <1>1, <1>4, <1>12, <2>1, <2>2 DEF Shapes
  <2>4. TypeOK'
    <3>1. queue' \in BoundedSeq(Messages, QueueMax)
      BY <2>1, <2>2, BoundedSeqFacts, PipelineAssumption
    <3> QED
      BY <1>1, <1>4, <1>5, <1>13, <3>1 DEF TypeOK
  <2>5. WaitingOnce'
    <3>1. \A i \in 1..Len(queue') : queue'[i].n <= latest'[queue'[i].topic].n
      <4>1. m.n <= latest'[m.topic].n
        BY <1>2, <1>3, <1>5
      <4> QED
        BY <1>9, <1>11, <2>1, <4>1
    <3>2. \A i, j \in 1..Len(queue') :
             queue'[i].topic = queue'[j].topic /\ queue'[i].n = queue'[j].n => i = j
      <4>1. \A i \in 1..Len(queue) : queue[i].topic # t \/ queue[i].n # m.n
        BY <1>1, <1>2, <1>3, <1>9 DEF WaitingOnce
      <4> QED
        BY <1>1, <1>3, <1>9, <2>1, <4>1 DEF WaitingOnce
    <3>3. pub.msg # None =>
             \A i \in 1..Len(queue') :
                 queue'[i].topic # pub.msg.topic \/ queue'[i].n # pub.msg.n
      <4>1. pub.msg # None => pub.msg.topic # t \/ pub.msg.n # m.n
        BY <1>1, <1>2, <1>3, <1>8 DEF WaitingOnce
      <4> QED
        BY <1>1, <1>3, <1>9, <2>1, <4>1 DEF WaitingOnce
    <3> QED
      BY <1>4, <1>10, <3>1, <3>2, <3>3 DEF WaitingOnce
  <2>6. AllPresent'
    <3> SUFFICES ASSUME NEW u \in Topics, NEW n \in 1..latest'[u].n
                 PROVE  (\/ \E i \in 1..Len(queue) : queue[i].topic = u /\ queue[i].n = n
                         \/ pub.msg.topic = u /\ pub.msg.n = n
                         \/ \E x \in sent \cup refused : x.topic = u /\ x.n = n)'
      BY DEF AllPresent
    <3>1. CASE u = t /\ n = m.n
      <4>1. Len(queue) + 1 \in 1..Len(queue')
        BY <1>9, <2>1
      <4> QED
        BY <3>1, <4>1, <1>3, <2>1
    <3>2. CASE n \in 1..latest[u].n
      BY <3>2, <1>1, <1>4, <1>9, <1>13, <2>1 DEF AllPresent
    <3>3. (u = t /\ n = m.n) \/ n \in 1..latest[u].n
      BY <1>2, <1>3, <1>5, <1>6
    <3> QED
      BY <3>1, <3>2, <3>3
  <2>7. OrderedUpstream'
    <3> SUFFICES ASSUME pubErrors = 0, refused = {}, NEW u \in Topics
                 PROVE  (/\ pub.at \notin {"put", "backoff"}
                         /\ EndsWith(queue, u, ParseContext(latest[u]))
                         /\ ~OfTopic(queue, u) =>
                              IF pub.at = "publish" /\ pub.msg.topic = u
                              THEN ParseContext(pub.msg) = ParseContext(latest[u])
                              ELSE retained[u] = ParseContext(latest[u]))'
      BY <1>4, <1>1, <1>13 DEF OrderedUpstream
    <3>1. pub'.at \notin {"put", "backoff"}
      BY <1>1, <1>4 DEF OrderedUpstream
    <3>2. queue \in Seq(Messages)
      BY <1>1 DEF Shapes
    <3>3. CASE u = t
      <4>1. EndsWith(Append(queue, m), u, ParseContext(m)) /\ OfTopic(Append(queue, m), u)
        BY <3>2, <3>3, <1>3, AppendOrder
      <4>2. EndsWith(queue', u, ParseContext(latest'[u])) /\ OfTopic(queue', u)
        BY <4>1, <3>3, <1>5, <1>13
      <4> QED
        BY <3>1, <4>2 DEF OfTopic, EndsWith, ParseContext
    <3>4. CASE u # t
      <4>1. EndsWith(queue, u, ParseContext(latest[u]))
        BY <1>1 DEF OrderedUpstream
      <4>2. /\ EndsWith(Append(queue, m), u, ParseContext(latest[u]))
            /\ OfTopic(Append(queue, m), u) <=> OfTopic(queue, u)
        BY <3>2, <3>4, <4>1, <1>3, AppendOrder
      <4>3. ~OfTopic(queue, u) => IF pub.at = "publish" /\ pub.msg.topic = u
                                  THEN ParseContext(pub.msg) = ParseContext(latest[u])
                                  ELSE retained[u] = ParseContext(latest[u])
        BY <1>1 DEF OrderedUpstream
      <4>4. latest'[u] = latest[u]
        BY <3>4, <1>5
      <4>5. EndsWith(queue', u, ParseContext(latest'[u])) /\ (OfTopic(queue', u) <=> OfTopic(queue, u))
        BY <4>2, <4>4, <1>13
      <4> QED
        BY <3>1, <4>3, <4>4, <4>5, <1>4 DEF OfTopic, EndsWith, ParseContext
    <3> QED
      BY <3>3, <3>4
  <2> QED
    BY <1>7, <2>3, <2>4, <2>5, <2>6, <2>7 DEF PipelineIndInv
<1>14. CASE refused' = refused \cup {m} /\ UNCHANGED queue
  <2>1. TypeOK' /\ Shapes'
    BY <1>1, <1>3, <1>4, <1>5, <1>12, <1>14 DEF TypeOK, Shapes
  <2>2. WaitingOnce'
    BY <1>1, <1>4, <1>10, <1>11, <1>14 DEF WaitingOnce
  <2>3. AllPresent'
    <3> SUFFICES ASSUME NEW u \in Topics, NEW n \in 1..latest'[u].n
                 PROVE  (\/ \E i \in 1..Len(queue) : queue[i].topic = u /\ queue[i].n = n
                         \/ pub.msg.topic = u /\ pub.msg.n = n
                         \/ \E x \in sent \cup refused : x.topic = u /\ x.n = n)'
      BY DEF AllPresent
    <3>1. CASE u = t /\ n = m.n
      BY <3>1, <1>3, <1>14
    <3>2. CASE n \in 1..latest[u].n
      BY <3>2, <1>1, <1>4, <1>14 DEF AllPresent
    <3>3. (u = t /\ n = m.n) \/ n \in 1..latest[u].n
      BY <1>2, <1>3, <1>5, <1>6
    <3> QED
      BY <3>1, <3>2, <3>3
  <2>4. OrderedUpstream'
    BY <1>14 DEF OrderedUpstream
  <2> QED
    BY <1>7, <2>1, <2>2, <2>3, <2>4 DEF PipelineIndInv
<1> QED
  BY <1>4, <1>13, <1>14

-----------------------------------------------------------------------------
(* The publisher and the broker.                                           *)

\* Where the publisher is while it has no message in hand changes nothing else.
LEMMA IdleStep ==
  ASSUME PipelineIndInv, NEW from, NEW to \in Places \ {"publish", "put", "backoff"},
         from \notin {"publish", "put"}, At(from, to, None),
         UNCHANGED <<latest, refused, queue, sent, retained, ingester, pubErrors, drops>>
  PROVE  PipelineIndInv'
<1> USE DEF ingester
<1>1. TypeOK /\ Shapes /\ WaitingOnce /\ AllPresent /\ OrderedUpstream /\ OrderedDownstream
  BY DEF PipelineIndInv
<1>2. /\ pub' \in [at : Places, msg : Messages \cup {None}]
      /\ pub'.at = to /\ pub'.msg = None /\ pub.at = from /\ pub.msg = None
  BY <1>1 DEF At, TypeOK
<1>3. TypeOK' /\ Shapes'
  BY <1>1, <1>2 DEF TypeOK, Shapes
<1>4. WaitingOnce' /\ AllPresent'
  BY <1>1, <1>2 DEF WaitingOnce, AllPresent
<1>5. OrderedUpstream'
  BY <1>1, <1>2 DEF OrderedUpstream, OfTopic, EndsWith, ParseContext
<1>6. OrderedDownstream'
  BY <1>1 DEF OrderedDownstream, OfTopic, EndsWith, ParseContext
<1> QED
  BY <1>3, <1>4, <1>5, <1>6 DEF PipelineIndInv

\* The message in hand is the head of the queue; behind it are newer ones only.
LEMMA GetStep == PipelineIndInv /\ Get => PipelineIndInv'
<1> SUFFICES ASSUME PipelineIndInv, Get PROVE PipelineIndInv'
  OBVIOUS
<1> USE DEF ingester
<1>1. TypeOK /\ Shapes /\ WaitingOnce /\ AllPresent /\ OrderedUpstream /\ OrderedDownstream
  BY DEF PipelineIndInv
<1>2. /\ queue \in Seq(Messages) /\ queue # <<>> /\ queue' = Tail(queue)
      /\ pub.at = "get" /\ pub.msg = None
      /\ pub' = [at |-> "publish", msg |-> Head(queue)]
      /\ UNCHANGED <<latest, refused, sent, retained, online, inbox, context, pubErrors, drops>>
  BY <1>1 DEF Get, At, Shapes, TypeOK
<1>3. /\ Head(queue) \in Messages /\ queue' \in Seq(Messages) /\ Head(queue) = queue[1]
      /\ Len(queue') \in Nat /\ Len(queue) = Len(queue') + 1
      /\ \A i \in 1..Len(queue') : queue'[i] = queue[i + 1] /\ queue[i + 1] \in Messages
  BY <1>2, TailOrder
<1>4. pub'.at = "publish" /\ pub'.msg = queue[1] /\ queue[1] \in Messages
  BY <1>2, <1>3
<1>5. Shapes' /\ TypeOK'
  <2>1. Len(queue') <= QueueMax
    BY <1>1, <1>3, PipelineAssumption DEF Shapes
  <2>2. queue' \in BoundedSeq(Messages, QueueMax)
    BY <2>1, <1>3, BoundedSeqFacts, PipelineAssumption
  <2>3. pub' \in [at : Places, msg : Messages \cup {None}]
    BY <1>2, <1>3 DEF Places
  <2>4. Shapes'
    BY <1>1, <1>2, <1>3, <2>1, <2>3 DEF Shapes
  <2> QED
    BY <1>1, <1>2, <1>4, <2>2, <2>4, NoneIsNoMessage DEF TypeOK, Places
<1>6. 1 \in 1..Len(queue) /\ \A i \in 1..Len(queue') : i + 1 \in 1..Len(queue) /\ i + 1 # 1
  BY <1>3
<1>7. WaitingOnce'
  <2>1. pub'.msg.n <= latest'[pub'.msg.topic].n
    BY <1>1, <1>2, <1>4, <1>6 DEF WaitingOnce
  <2>2. \A i \in 1..Len(queue') : queue'[i].n <= latest'[queue'[i].topic].n
    BY <1>1, <1>2, <1>3, <1>6 DEF WaitingOnce
  <2>3. \A i, j \in 1..Len(queue') :
           queue'[i].topic = queue'[j].topic /\ queue'[i].n = queue'[j].n => i = j
    <3> SUFFICES ASSUME NEW i \in 1..Len(queue'), NEW j \in 1..Len(queue'),
                        queue'[i].topic = queue'[j].topic, queue'[i].n = queue'[j].n
                 PROVE  i = j
      OBVIOUS
    <3>1. i + 1 = j + 1
      BY <1>1, <1>3, <1>6 DEF WaitingOnce
    <3> QED
      BY <1>3, <3>1
  <2>4. \A i \in 1..Len(queue') : queue'[i].topic # pub'.msg.topic \/ queue'[i].n # pub'.msg.n
    BY <1>1, <1>3, <1>4, <1>6 DEF WaitingOnce
  <2> QED
    BY <2>1, <2>2, <2>3, <2>4 DEF WaitingOnce
<1>8. AllPresent'
  <2> SUFFICES ASSUME NEW u \in Topics, NEW n \in 1..latest[u].n
               PROVE  (\/ \E i \in 1..Len(queue) : queue[i].topic = u /\ queue[i].n = n
                       \/ pub.msg.topic = u /\ pub.msg.n = n
                       \/ \E x \in sent \cup refused : x.topic = u /\ x.n = n)'
    BY <1>2 DEF AllPresent
  <2>1. \/ \E i \in 1..Len(queue) : queue[i].topic = u /\ queue[i].n = n
        \/ \E x \in sent \cup refused : x.topic = u /\ x.n = n
    BY <1>1, <1>2, NoneIsNoMessage DEF AllPresent
  <2>2. ASSUME NEW i \in 1..Len(queue), queue[i].topic = u, queue[i].n = n, i # 1
        PROVE  \E j \in 1..Len(queue') : queue'[j].topic = u /\ queue'[j].n = n
    <3>1. i - 1 \in 1..Len(queue') /\ (i - 1) + 1 = i
      BY <1>3, <2>2
    <3> QED
      BY <1>3, <2>2, <3>1
  <2> QED
    BY <1>2, <1>4, <2>1, <2>2
<1>9. OrderedUpstream'
  <2> SUFFICES ASSUME pubErrors = 0, refused = {}, NEW u \in Topics
               PROVE  (/\ EndsWith(queue, u, ParseContext(latest[u]))
                       /\ ~OfTopic(queue, u) =>
                            IF pub.at = "publish" /\ pub.msg.topic = u
                            THEN ParseContext(pub.msg) = ParseContext(latest[u])
                            ELSE retained[u] = ParseContext(latest[u]))'
    BY <1>2, <1>4 DEF OrderedUpstream
  <2>1. /\ EndsWith(queue, u, ParseContext(latest[u]))
        /\ ~OfTopic(queue, u) => retained[u] = ParseContext(latest[u])
    BY <1>1, <1>2 DEF OrderedUpstream
  <2>2. /\ EndsWith(queue', u, ParseContext(latest[u]))
        /\ Head(queue).topic = u /\ ~OfTopic(queue', u)
               => ParseContext(Head(queue)) = ParseContext(latest[u])
        /\ OfTopic(queue, u) <=> OfTopic(queue', u) \/ Head(queue).topic = u
    BY <1>2, <2>1, TailOrder
  <2> QED
    BY <1>2, <1>3, <1>4, <2>1, <2>2 DEF OfTopic, EndsWith, ParseContext
<1>10. OrderedDownstream'
  BY <1>1, <1>2 DEF OrderedDownstream
<1> QED
  BY <1>5, <1>7, <1>8, <1>9, <1>10 DEF PipelineIndInv

\* A message the broker takes becomes the retained one, and the last one on
\* its way to a connected ingester.
LEMMA BrokerTakesFacts ==
  ASSUME PipelineIndInv, NEW m \in Messages, BrokerTakes(m), UNCHANGED drops
  PROVE  /\ sent' = sent \cup {m} /\ sent' \subseteq Messages
         /\ retained' \in [Topics -> Messages \cup {None}]
         /\ retained'[m.topic] = ParseContext(m)
         /\ \A u \in Topics \ {m.topic} : retained'[u] = retained[u]
         /\ \A u \in Topics : retained'[u] # None => retained'[u].topic = u /\ ~retained'[u].clear
         /\ inbox' \in Seq(Messages) /\ UNCHANGED <<online, context>>
         /\ OrderedDownstream'
<1>1. TypeOK /\ Shapes /\ OrderedDownstream
  BY DEF PipelineIndInv
<1>2. m.topic \in Topics
  BY MessageParts
<1>3. /\ sent' = sent \cup {m} /\ sent' \subseteq Messages /\ UNCHANGED <<online, context>>
      /\ inbox' = IF online THEN Append(inbox, m) ELSE inbox
  BY <1>1 DEF BrokerTakes, TypeOK
<1>4. /\ retained' = [retained EXCEPT ![m.topic] = ParseContext(m)]
      /\ ParseContext(m) \in Messages \cup {None}
  BY ParseFacts DEF BrokerTakes, ParseContext
<1>5. /\ retained' \in [Topics -> Messages \cup {None}]
      /\ retained'[m.topic] = ParseContext(m)
      /\ \A u \in Topics \ {m.topic} : retained'[u] = retained[u]
  BY <1>1, <1>2, <1>4 DEF TypeOK
<1>6. \A u \in Topics : retained'[u] # None => retained'[u].topic = u /\ ~retained'[u].clear
  BY <1>1, <1>5, ParseFacts DEF Shapes
<1>7. inbox \in Seq(Messages) /\ inbox' \in Seq(Messages)
  BY <1>1, <1>3, AppendFacts DEF Shapes
<1>8. OrderedDownstream'
  <2>1. CASE ~online
    BY <2>1, <1>1, <1>3 DEF OrderedDownstream
  <2>2. CASE online
    <3> SUFFICES ASSUME NEW u \in Topics
                 PROVE  (/\ EndsWith(inbox, u, retained[u])
                         /\ ~OfTopic(inbox, u) =>
                              context[u] = retained[u] \/ (retained[u] = None /\ drops > 0))'
      BY <2>2, <1>3 DEF OrderedDownstream
    <3>1. inbox' = Append(inbox, m)
      BY <2>2, <1>3
    <3>2. CASE u = m.topic
      <4>1. EndsWith(Append(inbox, m), u, ParseContext(m)) /\ OfTopic(Append(inbox, m), u)
        BY <3>2, <1>7, AppendOrder
      <4>2. EndsWith(inbox', u, retained'[u]) /\ OfTopic(inbox', u)
        BY <4>1, <3>1, <3>2, <1>5
      <4> QED
        BY <4>2 DEF EndsWith, OfTopic, ParseContext
    <3>3. CASE u # m.topic
      <4>1. /\ EndsWith(inbox, u, retained[u])
            /\ ~OfTopic(inbox, u) =>
                  context[u] = retained[u] \/ (retained[u] = None /\ drops > 0)
        BY <2>2, <1>1 DEF OrderedDownstream
      <4>2. /\ EndsWith(Append(inbox, m), u, retained[u])
            /\ OfTopic(Append(inbox, m), u) <=> OfTopic(inbox, u)
        BY <3>3, <4>1, <1>7, AppendOrder
      <4>3. retained'[u] = retained[u]
        BY <3>3, <1>5
      <4>4. EndsWith(inbox', u, retained'[u]) /\ (OfTopic(inbox', u) <=> OfTopic(inbox, u))
        BY <4>2, <4>3, <3>1
      <4> QED
        BY <4>1, <4>3, <4>4, <1>3 DEF EndsWith, OfTopic, ParseContext
    <3> QED
      BY <3>2, <3>3
  <2> QED
    BY <2>1, <2>2, <1>1 DEF TypeOK
<1> QED
  BY <1>3, <1>5, <1>6, <1>7, <1>8

\* A published message is the retained one; it is the latest if none of its
\* channel waits.
LEMMA PublishStep == PipelineIndInv /\ Publish => PipelineIndInv'
<1> SUFFICES ASSUME PipelineIndInv, Publish PROVE PipelineIndInv'
  OBVIOUS
<1>1. TypeOK /\ Shapes /\ WaitingOnce /\ AllPresent /\ OrderedUpstream
  BY DEF PipelineIndInv
<1>2. PICK m : m = pub.msg
  OBVIOUS
<1>3. /\ pub.at = "publish" /\ m \in Messages /\ BrokerTakes(m)
      /\ pub' = [at |-> "get", msg |-> None]
      /\ UNCHANGED <<latest, refused, queue, pubErrors, drops>>
  BY <1>1, <1>2 DEF Publish, At, TypeOK
<1>4. /\ sent' = sent \cup {m} /\ sent' \subseteq Messages
      /\ retained' \in [Topics -> Messages \cup {None}]
      /\ retained'[m.topic] = ParseContext(m)
      /\ \A u \in Topics \ {m.topic} : retained'[u] = retained[u]
      /\ \A u \in Topics : retained'[u] # None => retained'[u].topic = u /\ ~retained'[u].clear
      /\ inbox' \in Seq(Messages) /\ UNCHANGED <<online, context>>
      /\ OrderedDownstream'
  BY <1>3, BrokerTakesFacts
<1>5. pub'.at = "get" /\ pub'.msg = None /\ pub' \in [at : Places, msg : Messages \cup {None}]
  BY <1>3 DEF Places
<1>6. TypeOK' /\ Shapes'
  BY <1>1, <1>3, <1>4, <1>5 DEF TypeOK, Shapes
<1>7. WaitingOnce'
  BY <1>1, <1>3, <1>5 DEF WaitingOnce
<1>8. AllPresent'
  BY <1>1, <1>2, <1>3, <1>4, <1>5 DEF AllPresent
<1>9. OrderedUpstream'
  <2> SUFFICES ASSUME pubErrors = 0, refused = {}, NEW u \in Topics
               PROVE  (/\ EndsWith(queue, u, ParseContext(latest[u]))
                       /\ ~OfTopic(queue, u) => retained[u] = ParseContext(latest[u]))'
    BY <1>3, <1>5 DEF OrderedUpstream
  <2>1. /\ EndsWith(queue, u, ParseContext(latest[u]))
        /\ ~OfTopic(queue, u) => IF m.topic = u
                                 THEN ParseContext(m) = ParseContext(latest[u])
                                 ELSE retained[u] = ParseContext(latest[u])
    BY <1>1, <1>2, <1>3 DEF OrderedUpstream
  <2>2. ~OfTopic(queue, u) => retained'[u] = ParseContext(latest[u])
    BY <2>1, <1>4
  <2> QED
    BY <2>1, <2>2, <1>3 DEF EndsWith, OfTopic, ParseContext
<1> QED
  BY <1>4, <1>6, <1>7, <1>8, <1>9 DEF PipelineIndInv

\* A failed publish keeps the message in hand, whether the broker took it or not.
LEMMA PublishErrorStep == PipelineIndInv /\ PublishError => PipelineIndInv'
<1> SUFFICES ASSUME PipelineIndInv, PublishError PROVE PipelineIndInv'
  OBVIOUS
<1> USE DEF ingester
<1>1. TypeOK /\ Shapes /\ WaitingOnce /\ AllPresent /\ OrderedUpstream /\ OrderedDownstream
  BY DEF PipelineIndInv
<1>2. PICK m : m = pub.msg
  OBVIOUS
<1>3. /\ pub.at = "publish" /\ m \in Messages /\ m # None
      /\ pub' = [at |-> "put", msg |-> m]
      /\ BrokerTakes(m) \/ UNCHANGED <<sent, retained, ingester>>
      /\ pubErrors' = pubErrors + 1
      /\ UNCHANGED <<latest, refused, queue, drops>>
  BY <1>1, <1>2 DEF PublishError, At, TypeOK
<1>4. pub'.at = "put" /\ pub'.msg = m /\ pub' \in [at : Places, msg : Messages \cup {None}]
  BY <1>3 DEF Places
<1>5. /\ sent \subseteq sent' /\ sent' \subseteq Messages
      /\ retained' \in [Topics -> Messages \cup {None}]
      /\ \A u \in Topics : retained'[u] # None => retained'[u].topic = u /\ ~retained'[u].clear
      /\ inbox' \in Seq(Messages) /\ UNCHANGED <<online, context>>
      /\ OrderedDownstream'
  <2>1. CASE BrokerTakes(m)
    BY <2>1, <1>3, BrokerTakesFacts
  <2>2. CASE UNCHANGED <<sent, retained, ingester>>
    BY <2>2, <1>1, <1>3 DEF TypeOK, Shapes, OrderedDownstream
  <2> QED
    BY <2>1, <2>2, <1>3
<1>6. pubErrors' \in Nat /\ pubErrors' # 0
  BY <1>1, <1>3 DEF Shapes
<1>7. TypeOK' /\ Shapes'
  BY <1>1, <1>3, <1>4, <1>5, <1>6 DEF TypeOK, Shapes
<1>8. WaitingOnce'
  BY <1>1, <1>2, <1>3, <1>4 DEF WaitingOnce
<1>9. AllPresent'
  BY <1>1, <1>2, <1>3, <1>4, <1>5 DEF AllPresent
<1>10. OrderedUpstream'
  BY <1>6 DEF OrderedUpstream
<1> QED
  BY <1>5, <1>7, <1>8, <1>9, <1>10 DEF PipelineIndInv

\* A message that is put back is in the queue once more, at its end.
LEMMA PutBackStep == PipelineIndInv /\ PutBack => PipelineIndInv'
<1> SUFFICES ASSUME PipelineIndInv, PutBack PROVE PipelineIndInv'
  OBVIOUS
<1> USE DEF ingester
<1>1. TypeOK /\ Shapes /\ WaitingOnce /\ AllPresent /\ OrderedUpstream /\ OrderedDownstream
  BY DEF PipelineIndInv
<1>2. PICK m : m = pub.msg
  OBVIOUS
<1>3. /\ pub.at = "put" /\ m \in Messages /\ m # None /\ Len(queue) < QueueMax
      /\ pub' = [at |-> "backoff", msg |-> None] /\ queue' = Append(queue, m)
      /\ UNCHANGED <<latest, refused, sent, retained, online, inbox, context, pubErrors, drops>>
  BY <1>1, <1>2 DEF PutBack, At, TypeOK
<1>4. /\ queue \in Seq(Messages) /\ queue' \in Seq(Messages)
      /\ Len(queue) \in Nat /\ Len(queue') = Len(queue) + 1
      /\ \A i \in 1..Len(queue) : queue'[i] = queue[i]
      /\ queue'[Len(queue) + 1] = m
  BY <1>1, <1>3, AppendFacts DEF Shapes
<1>5. pub'.at = "backoff" /\ pub'.msg = None /\ pub' \in [at : Places, msg : Messages \cup {None}]
  BY <1>3 DEF Places
<1>6. Len(queue') <= QueueMax
  BY <1>3, <1>4, PipelineAssumption
<1>7. Shapes'
  BY <1>1, <1>3, <1>4, <1>5, <1>6 DEF Shapes
<1>8. TypeOK'
  <2>1. queue' \in BoundedSeq(Messages, QueueMax)
    BY <1>4, <1>6, BoundedSeqFacts, PipelineAssumption
  <2> QED
    BY <1>1, <1>3, <1>5, <2>1 DEF TypeOK
<1>9. WaitingOnce'
  <2>1. \A i \in 1..Len(queue') : queue'[i].n <= latest'[queue'[i].topic].n
    BY <1>1, <1>2, <1>3, <1>4 DEF WaitingOnce
  <2>2. \A i \in 1..Len(queue) : queue[i].topic # m.topic \/ queue[i].n # m.n
    BY <1>1, <1>2, <1>3 DEF WaitingOnce
  <2>3. \A i, j \in 1..Len(queue') :
           queue'[i].topic = queue'[j].topic /\ queue'[i].n = queue'[j].n => i = j
    BY <1>1, <1>4, <2>2 DEF WaitingOnce
  <2> QED
    BY <1>5, <2>1, <2>3 DEF WaitingOnce
<1>10. AllPresent'
  <2> SUFFICES ASSUME NEW u \in Topics, NEW n \in 1..latest[u].n
               PROVE  (\/ \E i \in 1..Len(queue) : queue[i].topic = u /\ queue[i].n = n
                       \/ pub.msg.topic = u /\ pub.msg.n = n
                       \/ \E x \in sent \cup refused : x.topic = u /\ x.n = n)'
    BY <1>3 DEF AllPresent
  <2>1. \/ \E i \in 1..Len(queue) : queue[i].topic = u /\ queue[i].n = n
        \/ m.topic = u /\ m.n = n
        \/ \E x \in sent \cup refused : x.topic = u /\ x.n = n
    BY <1>1, <1>2 DEF AllPresent
  <2>2. Len(queue) + 1 \in 1..Len(queue')
    BY <1>4
  <2>3. \A i \in 1..Len(queue) : i \in 1..Len(queue')
    BY <1>4
  <2> QED
    BY <1>3, <1>4, <2>1, <2>2, <2>3
<1>11. OrderedUpstream'
  BY <1>1, <1>3 DEF OrderedUpstream
<1>12. OrderedDownstream'
  BY <1>1, <1>3 DEF OrderedDownstream
<1> QED
  BY <1>7, <1>8, <1>9, <1>10, <1>11, <1>12 DEF PipelineIndInv

-----------------------------------------------------------------------------
(* The ingester.                                                           *)

\* Subscribing brings what is retained; a channel without a retained payload
\* keeps the context it had.
LEMMA SubscribeStep == PipelineIndInv /\ Subscribe => PipelineIndInv'
<1> SUFFICES ASSUME PipelineIndInv, Subscribe PROVE PipelineIndInv'
  OBVIOUS
<1> USE DEF pipe
<1> DEFINE S == {retained[t] : t \in Topics} \ {None}
           all == {retained[t] : t \in Topics}
<1>1. TypeOK /\ Shapes /\ WaitingOnce /\ AllPresent /\ OrderedUpstream /\ OrderedDownstream
  BY DEF PipelineIndInv
<1>2. /\ ~online /\ online' = TRUE /\ inbox' = SetToSeq(S)
      /\ UNCHANGED <<latest, refused, queue, pub, sent, retained, context, pubErrors, drops>>
  BY DEF Subscribe
<1>3. IsFiniteSet(S)
  <2>1. retained \in [Topics -> all] /\ \A x \in all : \E t \in Topics : retained[t] = x
    BY <1>1 DEF TypeOK
  <2>2. retained \in Surjection(Topics, all)
    BY <2>1 DEF Surjection
  <2>3. IsFiniteSet(all)
    BY <2>2, FS_Surjection, PipelineAssumption
  <2> QED
    BY <2>3, FS_RemoveElement
<1>4. /\ inbox' \in Seq(S)
      /\ \A x \in S : \E i \in 1..Len(inbox') : inbox'[i] = x
  BY <1>2, <1>3, SetToSeqFacts
<1>5. \A x \in S : /\ x \in Messages /\ x.topic \in Topics
                   /\ x = retained[x.topic] /\ ParseContext(x) = x
  <2> SUFFICES ASSUME NEW t \in Topics, retained[t] # None
               PROVE  /\ retained[t] \in Messages /\ retained[t].topic = t
                      /\ ParseContext(retained[t]) = retained[t]
    OBVIOUS
  <2> QED
    BY <1>1 DEF TypeOK, Shapes, ParseContext
<1>6. inbox' \in Seq(Messages)
  BY <1>4, <1>5, SeqMonotonic
<1>7. \A i \in 1..Len(inbox') : inbox'[i] \in S
  BY <1>4, ElementOfSeq
<1>8. TypeOK' /\ Shapes'
  BY <1>1, <1>2, <1>6 DEF TypeOK, Shapes
<1>9. WaitingOnce' /\ AllPresent'
  BY <1>1, <1>2 DEF WaitingOnce, AllPresent
<1>10. OrderedUpstream'
  BY <1>1, <1>2 DEF OrderedUpstream, OfTopic, EndsWith, ParseContext
<1>11. OrderedDownstream'
  <2> SUFFICES ASSUME NEW u \in Topics
               PROVE  (/\ EndsWith(inbox, u, retained[u])
                       /\ ~OfTopic(inbox, u) =>
                            context[u] = retained[u] \/ (retained[u] = None /\ drops > 0))'
    BY <1>2 DEF OrderedDownstream
  <2>1. EndsWith(inbox', u, retained[u])
    BY <1>5, <1>7 DEF EndsWith
  <2>2. ASSUME ~OfTopic(inbox', u) PROVE retained[u] = None
    <3> SUFFICES ASSUME retained[u] # None PROVE FALSE
      OBVIOUS
    <3>1. retained[u] \in S /\ retained[u].topic = u
      BY <1>1 DEF Shapes
    <3> QED
      BY <1>4, <2>2, <3>1 DEF OfTopic
  <2>3. drops = 0 => context[u] = None
    BY <1>1, <1>2 DEF OrderedDownstream
  <2>4. drops = 0 \/ drops > 0
    BY <1>1 DEF Shapes
  <2> QED
    BY <1>2, <2>1, <2>2, <2>3, <2>4 DEF EndsWith, OfTopic, ParseContext
<1> QED
  BY <1>8, <1>9, <1>10, <1>11 DEF PipelineIndInv

\* A channel's context becomes what the message that arrives says; after the
\* last one it is what is retained.
LEMMA ReceiveStep == PipelineIndInv /\ Receive => PipelineIndInv'
<1> SUFFICES ASSUME PipelineIndInv, Receive PROVE PipelineIndInv'
  OBVIOUS
<1> USE DEF pipe
<1>1. TypeOK /\ Shapes /\ WaitingOnce /\ AllPresent /\ OrderedUpstream /\ OrderedDownstream
  BY DEF PipelineIndInv
<1>2. PICK m : m = Head(inbox)
  OBVIOUS
<1>3. /\ online /\ inbox \in Seq(Messages) /\ inbox # <<>> /\ inbox' = Tail(inbox)
      /\ context' = [context EXCEPT ![m.topic] = ParseContext(m)]
      /\ UNCHANGED <<latest, refused, queue, pub, sent, retained, online, pubErrors, drops>>
  BY <1>1, <1>2 DEF Receive, Shapes
<1>4. m \in Messages /\ inbox' \in Seq(Messages)
  BY <1>2, <1>3, TailOrder
<1>5. /\ context' \in [Topics -> Messages \cup {None}] /\ m.topic \in Topics
      /\ context'[m.topic] = ParseContext(m)
      /\ \A u \in Topics \ {m.topic} : context'[u] = context[u]
  BY <1>1, <1>3, <1>4, MessageParts, ParseFacts DEF TypeOK
<1>6. TypeOK' /\ Shapes'
  BY <1>1, <1>3, <1>4, <1>5 DEF TypeOK, Shapes
<1>7. WaitingOnce' /\ AllPresent'
  BY <1>1, <1>3 DEF WaitingOnce, AllPresent
<1>8. OrderedUpstream'
  BY <1>1, <1>3 DEF OrderedUpstream, OfTopic, EndsWith, ParseContext
<1>9. OrderedDownstream'
  <2> SUFFICES ASSUME NEW u \in Topics
               PROVE  (/\ EndsWith(inbox, u, retained[u])
                       /\ ~OfTopic(inbox, u) =>
                            context[u] = retained[u] \/ (retained[u] = None /\ drops > 0))'
    BY <1>3 DEF OrderedDownstream
  <2>1. /\ EndsWith(inbox, u, retained[u])
        /\ ~OfTopic(inbox, u) =>
              context[u] = retained[u] \/ (retained[u] = None /\ drops > 0)
    BY <1>1, <1>3 DEF OrderedDownstream
  <2>2. /\ EndsWith(inbox', u, retained[u])
        /\ m.topic = u /\ ~OfTopic(inbox', u) => ParseContext(m) = retained[u]
        /\ OfTopic(inbox, u) <=> OfTopic(inbox', u) \/ m.topic = u
    BY <1>2, <1>3, <2>1, TailOrder
  <2>3. ~OfTopic(inbox', u) =>
           context'[u] = retained[u] \/ (retained[u] = None /\ drops > 0)
    BY <1>5, <2>1, <2>2
  <2> QED
    BY <1>3, <2>2, <2>3 DEF EndsWith, OfTopic, ParseContext
<1> QED
  BY <1>6, <1>7, <1>8, <1>9 DEF PipelineIndInv

\* A lost connection loses what is on its way to the ingester.
LEMMA DisconnectStep == PipelineIndInv /\ Disconnect => PipelineIndInv'
<1> SUFFICES ASSUME PipelineIndInv, Disconnect PROVE PipelineIndInv'
  OBVIOUS
<1> USE DEF pipe
<1>1. TypeOK /\ Shapes /\ WaitingOnce /\ AllPresent /\ OrderedUpstream
  BY DEF PipelineIndInv
<1>2. /\ online' = FALSE /\ inbox' = <<>> /\ drops' = drops + 1
      /\ context' \in {context, [t \in Topics |-> None]}
      /\ UNCHANGED <<latest, refused, queue, pub, sent, retained, pubErrors>>
  BY DEF Disconnect
<1>3. drops' \in Nat /\ drops' # 0 /\ inbox' \in Seq(Messages)
  BY <1>1, <1>2 DEF Shapes
<1>4. context' \in [Topics -> Messages \cup {None}]
  BY <1>1, <1>2 DEF TypeOK
<1>5. TypeOK' /\ Shapes'
  BY <1>1, <1>2, <1>3, <1>4 DEF TypeOK, Shapes
<1>6. WaitingOnce' /\ AllPresent'
  BY <1>1, <1>2 DEF WaitingOnce, AllPresent
<1>7. OrderedUpstream'
  BY <1>1, <1>2 DEF OrderedUpstream, OfTopic, EndsWith, ParseContext
<1>8. OrderedDownstream'
  BY <1>2, <1>3 DEF OrderedDownstream
<1> QED
  BY <1>5, <1>6, <1>7, <1>8 DEF PipelineIndInv

-----------------------------------------------------------------------------
(* The theorems.                                                           *)

\* Every step of the executor, the publisher, the broker and the ingester keeps
\* the inductive invariant (context.py, and the context branch of the ingester).
THEOREM PipelineInvariance == Spec => []PipelineIndInv
<1>1. ASSUME PipelineIndInv, [Next]_vars PROVE PipelineIndInv'
  <2>1. CASE \E t \in Topics, clear \in BOOLEAN : Update(t, clear)
    BY <2>1, <1>1, UpdateStep
  <2>2. CASE Connect
    BY <2>2, <1>1, IdleStep DEF Connect, Places
  <2>3. CASE Backoff
    BY <2>3, <1>1, IdleStep DEF Backoff, Places
  <2>4. CASE Get \/ Publish \/ PublishError \/ PutBack
    BY <2>4, <1>1, GetStep, PublishStep, PublishErrorStep, PutBackStep
  <2>5. CASE Ingester
    BY <2>5, <1>1, SubscribeStep, ReceiveStep, DisconnectStep DEF Ingester
  <2>6. CASE UNCHANGED vars
    BY <2>6, <1>1 DEF vars, pipe, ingester, PipelineIndInv, TypeOK, Shapes, WaitingOnce,
       AllPresent, OrderedUpstream, OrderedDownstream, OfTopic, EndsWith, ParseContext
  <2> QED
    BY <1>1, <2>1, <2>2, <2>3, <2>4, <2>5, <2>6 DEF Next, Publisher
<1> QED
  BY <1>1, PipelineInit, PTL DEF Spec

\* The pipeline's state keeps its types and the queue its bound, also when a
\* failed message is put back (_enqueue, context_publisher_loop).
THEOREM PipelineTypes == Spec => []TypeOK
<1>1. PipelineIndInv => TypeOK
  BY DEF PipelineIndInv
<1> QED
  BY <1>1, PipelineInvariance, PTL

\* A message that entered the queue waits there or in the publisher's hand, in
\* one place, until the broker has taken it (context_publisher_loop).
THEOREM NothingLostAlways == Spec => []NothingLost
<1>1. ASSUME PipelineIndInv PROVE NothingLost
  <2> DEFINE w == Append(queue, pub.msg)
  <2> SUFFICES ASSUME NEW t \in Topics, NEW n \in 1..latest[t].n
               PROVE  LET Mine(m) == m.topic = t /\ m.n = n
                          places == {i \in DOMAIN w : Mine(w[i])}
                      IN  /\ \A i, j \in places : i = j
                          /\ places # {} \/ \E m \in sent \cup refused : Mine(m)
    BY DEF NothingLost
  <2>1. TypeOK /\ Shapes /\ WaitingOnce /\ AllPresent
    BY <1>1 DEF PipelineIndInv
  <2>2. queue \in Seq(Messages \cup {None}) /\ pub.msg \in Messages \cup {None}
    BY <2>1, SeqMonotonic DEF Shapes, TypeOK
  <2>3. /\ w \in Seq(Messages \cup {None}) /\ Len(w) = Len(queue) + 1
        /\ \A i \in 1..Len(queue) : w[i] = queue[i]
        /\ w[Len(queue) + 1] = pub.msg /\ Len(queue) \in Nat
    BY <2>2, AppendProperties, LenProperties
  <2> HIDE DEF w
  <2>4. DOMAIN w = 1..(Len(queue) + 1)
    BY <2>3, LenProperties
  <2>5. n # 0
    BY <2>1, NoneIsNoMessage, MessageParts DEF TypeOK
  <2>6. ASSUME NEW i \in DOMAIN w, NEW j \in DOMAIN w,
               w[i].topic = t, w[i].n = n, w[j].topic = t, w[j].n = n
        PROVE  i = j
    <3>1. pub.msg = None => pub.msg.n # n
      BY <2>5, NoneIsNoMessage
    <3> QED
      BY <2>1, <2>3, <2>4, <2>6, <3>1 DEF WaitingOnce
  <2>7. \/ \E i \in 1..Len(queue) : queue[i].topic = t /\ queue[i].n = n
        \/ pub.msg.topic = t /\ pub.msg.n = n
        \/ \E m \in sent \cup refused : m.topic = t /\ m.n = n
    BY <2>1 DEF AllPresent
  <2>8. Len(queue) + 1 \in DOMAIN w /\ \A i \in 1..Len(queue) : i \in DOMAIN w
    BY <2>3, <2>4
  <2> QED
    BY <2>3, <2>6, <2>7, <2>8
<1> QED
  BY <1>1, PipelineInvariance, PTL

\* When nothing is on its way, every channel is tagged with what the executor
\* said last, if the publisher dropped nothing and met no error; a cleared
\* channel is the exception after a lost connection (context.py, and the
\* ingester's ContextMap).
THEOREM ContextSettlesAlways == Spec => []ContextSettles
<1>1. ASSUME PipelineIndInv PROVE ContextSettles
  <2> SUFFICES ASSUME Settled, pubErrors = 0, refused = {}, NEW t \in Topics
               PROVE  \/ context[t] = ParseContext(latest[t])
                      \/ latest[t].clear /\ drops > 0
    BY DEF ContextSettles
  <2>1. TypeOK /\ OrderedUpstream /\ OrderedDownstream
    BY <1>1 DEF PipelineIndInv
  <2>2. /\ queue = <<>> /\ inbox = <<>> /\ pub.at = "get" /\ online
        /\ Len(queue) = 0 /\ Len(inbox) = 0
    BY DEF Settled
  <2>3. ~OfTopic(queue, t) /\ ~OfTopic(inbox, t)
    BY <2>2 DEF OfTopic
  <2>4. retained[t] = ParseContext(latest[t])
    BY <2>1, <2>2, <2>3 DEF OrderedUpstream
  <2>5. context[t] = retained[t] \/ (retained[t] = None /\ drops > 0)
    BY <2>1, <2>2, <2>3 DEF OrderedDownstream
  <2>6. retained[t] = None => latest[t].clear
    BY <2>1, <2>4, ParseFacts DEF TypeOK
  <2> QED
    BY <2>4, <2>5, <2>6
<1> QED
  BY <1>1, PipelineInvariance, PTL
=============================================================================
