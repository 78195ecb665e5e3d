--------------------------- MODULE WatchdogProofs ---------------------------
(***************************************************************************)
(* The safety properties of Watchdog, for every grace, every capacity of   *)
(* the retry queue and any number of changes, failed INSERTs and sessions. *)
(***************************************************************************)
EXTENDS Watchdog, SequenceTheorems, TLAPS

(* Facts about the operators.                                              *)

\* The bounded sequences are the sequences that are short enough.
LEMMA BoundedSeqFacts ==
  ASSUME NEW S, NEW n \in Nat, NEW q
  PROVE  q \in BoundedSeq(S, n) <=> q \in Seq(S) /\ Len(q) <= n
<1>1. ASSUME q \in BoundedSeq(S, n) PROVE q \in Seq(S) /\ Len(q) <= n
  <2>1. PICK m \in 0..n : q \in [1..m -> S]
    BY <1>1 DEF BoundedSeq, SeqOf
  <2> QED
    BY <2>1
<1>2. ASSUME q \in Seq(S), Len(q) <= n PROVE q \in BoundedSeq(S, n)
  <2>1. Len(q) \in 0..n /\ q \in [1..Len(q) -> S]
    BY <1>2, LenProperties
  <2> QED
    BY <2>1 DEF BoundedSeq, SeqOf
<1> QED
  BY <1>1, <1>2

\* The retry queue is a sequence of alerts that is not longer than its cap.
LEMMA RetryIsSeq ==
  ASSUME TypeOK
  PROVE  /\ retry \in Seq(Alerts) /\ Len(retry) \in Nat /\ Len(retry) <= RetryCap
         /\ RetryCap \in Nat /\ RetryCap > 0
<1>1. RetryCap \in Nat /\ RetryCap > 0
  BY WatchdogAssumption
<1>2. retry \in Seq(Alerts) /\ Len(retry) <= RetryCap
  BY <1>1, BoundedSeqFacts DEF TypeOK
<1> QED
  BY <1>1, <1>2, LenProperties

\* popleft removes the head and nothing else.
LEMMA TailFacts ==
  ASSUME NEW q \in Seq(Alerts), q # <<>>
  PROVE  /\ Tail(q) \in Seq(Alerts) /\ Len(Tail(q)) \in Nat /\ Len(q) = Len(Tail(q)) + 1
         /\ Head(q) \in Alerts
         /\ \A a : Contains(q, a) => a = Head(q) \/ Contains(Tail(q), a)
<1>1. /\ Head(q) \in Alerts /\ Tail(q) \in Seq(Alerts) /\ Len(Tail(q)) = Len(q) - 1
      /\ \A i \in 1..Len(Tail(q)) : Tail(q)[i] = q[i + 1]
  BY HeadTailProperties
<1>2. Len(q) \in Nat /\ Len(Tail(q)) \in Nat /\ Head(q) = q[1]
  BY <1>1, LenProperties
<1>3. ASSUME NEW a, NEW i \in 1..Len(q), q[i] = a, a # Head(q) PROVE Contains(Tail(q), a)
  <2>1. i - 1 \in 1..Len(Tail(q)) /\ (i - 1) + 1 = i
    BY <1>1, <1>2, <1>3
  <2> QED
    BY <1>1, <1>3, <2>1 DEF Contains
<1> QED
  BY <1>1, <1>2, <1>3 DEF Contains

\* A full queue makes room by losing its head; the new alert is at its end.
LEMMA RequeueFacts ==
  ASSUME TypeOK, NEW a \in Alerts
  PROVE  /\ Requeue(a) \in BoundedSeq(Alerts, RetryCap)
         /\ Contains(Requeue(a), a)
         /\ Len(retry) # RetryCap => \A b : Contains(retry, b) => Contains(Requeue(a), b)
<1> DEFINE q == IF Len(retry) < RetryCap THEN retry ELSE Tail(retry)
           r == Append(q, a)
<1>1. /\ retry \in Seq(Alerts) /\ Len(retry) \in Nat /\ Len(retry) <= RetryCap
      /\ RetryCap \in Nat /\ RetryCap > 0
  BY RetryIsSeq
<1>2. q \in Seq(Alerts) /\ Len(q) \in Nat /\ Len(q) < RetryCap
  <2>1. CASE Len(retry) < RetryCap
    BY <2>1, <1>1
  <2>2. CASE ~(Len(retry) < RetryCap)
    <3>1. Len(retry) = RetryCap /\ retry # <<>>
      BY <2>2, <1>1
    <3>2. Tail(retry) \in Seq(Alerts) /\ Len(Tail(retry)) \in Nat
          /\ Len(retry) = Len(Tail(retry)) + 1
      BY <3>1, <1>1, TailFacts
    <3> QED
      BY <2>2, <3>1, <3>2
  <2> QED
    BY <2>1, <2>2
<1>3. Len(retry) # RetryCap => q = retry
  BY <1>1
<1> HIDE DEF q
<1>4. /\ r \in Seq(Alerts) /\ Len(r) = Len(q) + 1
      /\ \A i \in 1..Len(q) : r[i] = q[i]
      /\ r[Len(q) + 1] = a
  BY <1>2, AppendProperties
<1>5. r = Requeue(a)
  BY DEF Requeue, q
<1> HIDE DEF r
<1>6. r \in BoundedSeq(Alerts, RetryCap)
  BY <1>1, <1>2, <1>4, BoundedSeqFacts
<1>7. Contains(r, a)
  <2>1. Len(q) + 1 \in 1..Len(r)
    BY <1>2, <1>4
  <2> QED
    BY <1>4, <2>1 DEF Contains
<1>8. \A b : Contains(q, b) => Contains(r, b)
  <2>1. \A i \in 1..Len(q) : i \in 1..Len(r)
    BY <1>2, <1>4
  <2> QED
    BY <1>4, <2>1 DEF Contains
<1> QED
  BY <1>3, <1>5, <1>6, <1>7, <1>8

-----------------------------------------------------------------------------
(* Initial states.                                                         *)

\* The service starts with an empty sink and every monitor asleep.
LEMMA WatchdogInit == Init => WatchdogIndInv
<1> SUFFICES ASSUME Init PROVE WatchdogIndInv
  OBVIOUS
<1>1. retry \in BoundedSeq(Alerts, RetryCap)
  <2>1. retry \in Seq(Alerts) /\ Len(retry) = 0
    BY DEF Init
  <2>2. RetryCap \in Nat /\ 0 <= RetryCap
    BY WatchdogAssumption
  <2> QED
    BY <2>1, <2>2, BoundedSeqFacts
<1>2. TypeOK
  <2>1. polls \in 0..(GracePolls + 1) /\ sessions \in 1..MaxSessions
    BY WatchdogAssumption DEF Init
  <2>2. raised \in [Keys -> 0..MaxAlerts]
    BY WatchdogAssumption DEF Init
  <2>3. /\ at \in [Monitors -> {"sleep", "drain", "insert", "publish"}]
        /\ hand \in [Monitors -> Alerts \cup {None}]
        /\ queued \in [Monitors -> Alerts \cup {None}]
    BY DEF Init, Asleep, NoAlert
  <2>4. edge \in [Keys -> BOOLEAN]
    BY DEF Init
  <2> QED
    BY <1>1, <2>1, <2>2, <2>3, <2>4 DEF Init, TypeOK, Keys
<1>3. EmitInHand /\ SessionsLeft
  BY DEF Init, EmitInHand, SessionsLeft, Asleep
<1>4. AlertsAccounted
  BY DEF Init, AlertsAccounted
<1> QED
  BY <1>2, <1>3, <1>4 DEF WatchdogIndInv

-----------------------------------------------------------------------------
(* The watched world, and the monitors.                                    *)

\* The world and the edges are no part of the account of alerts.
LEMMA WorldStep ==
  ASSUME WatchdogIndInv, Change \/ HeartbeatResumes \/ GapGrows
  PROVE  WatchdogIndInv'
<1>1. TypeOK /\ EmitInHand /\ SessionsLeft /\ AlertsAccounted
  BY DEF WatchdogIndInv
<1>2. UNCHANGED <<edge, emits, sink, episodes, session, raised, shed, dbErrors>>
  BY DEF Change, HeartbeatResumes, GapGrows
<1>3. /\ silent' \in BOOLEAN /\ stale' \in BOOLEAN /\ massFailure' \in BOOLEAN
      /\ sustained' \in BOOLEAN
      /\ chassis' \in {"ok", "tripped", "unreachable"}
  <2>1. CASE Change
    BY <2>1, <1>1 DEF Change, TypeOK
  <2>2. CASE HeartbeatResumes
    BY <2>2, <1>1 DEF HeartbeatResumes, TypeOK
  <2>3. CASE GapGrows
    BY <2>3, <1>1 DEF GapGrows, TypeOK
  <2> QED
    BY <2>1, <2>2, <2>3
<1>4. TypeOK'
  BY <1>1, <1>2, <1>3 DEF TypeOK, emits, sink, episodes, session
<1>5. EmitInHand' /\ SessionsLeft'
  BY <1>1, <1>2 DEF EmitInHand, SessionsLeft, emits, session
<1>6. AlertsAccounted'
  BY <1>1, <1>2 DEF AlertsAccounted, InHand, emits, sink, session
<1> QED
  BY <1>4, <1>5, <1>6 DEF WatchdogIndInv

\* A poll that raises an alert has it in hand; no monitor in the middle of emit
\* polls.
LEMMA ReportStep ==
  ASSUME WatchdogIndInv, NEW m \in Monitors, NEW k \in Keys, NEW condition,
         NEW refuted, NEW newEdge \in [Keys -> BOOLEAN], NEW allowed,
         Ready(m), Report(m, k, condition, refuted, newEdge, allowed),
         polls' \in 0..(GracePolls + 1)
  PROVE  WatchdogIndInv'
<1>1. TypeOK /\ EmitInHand /\ SessionsLeft /\ AlertsAccounted
  BY DEF WatchdogIndInv
<1>2. /\ edge' = newEdge /\ UNCHANGED <<world, sink, sessions, live, died, shed>>
      /\ reported' \subseteq Keys /\ spent' \subseteq Keys
  BY <1>1 DEF Report, TypeOK
<1>3. live /\ at[m] = "sleep"
  BY DEF Ready
<1>4. CASE UNCHANGED <<raised, emits>>
  <2>1. TypeOK'
    BY <1>1, <1>2, <1>4 DEF TypeOK, world, sink, emits
  <2>2. EmitInHand' /\ SessionsLeft'
    BY <1>1, <1>2, <1>4 DEF EmitInHand, SessionsLeft, emits
  <2>3. AlertsAccounted'
    BY <1>1, <1>2, <1>4 DEF AlertsAccounted, InHand, emits, sink
  <2> QED
    BY <2>1, <2>2, <2>3 DEF WatchdogIndInv
<1>5. CASE /\ raised[k] < MaxAlerts
           /\ raised' = [raised EXCEPT ![k] = @ + 1]
           /\ Begin(m, [key |-> k, n |-> raised[k] + 1], retry)
  <2> DEFINE a == [key |-> k, n |-> raised[k] + 1]
  <2>1. raised[k] \in 0..MaxAlerts /\ raised[k] + 1 \in 1..MaxAlerts
    BY <1>1, <1>5, WatchdogAssumption DEF TypeOK
  <2>2. a \in Alerts
    BY <2>1 DEF Alerts
  <2>3. /\ raised' \in [Keys -> 0..MaxAlerts] /\ raised'[k] = raised[k] + 1
        /\ \A l \in Keys \ {k} : raised'[l] = raised[l]
    BY <1>1, <1>5, <2>1, WatchdogAssumption DEF TypeOK
  <2>4. /\ at' = [at EXCEPT ![m] = IF retry = <<>> THEN "insert" ELSE "drain"]
        /\ hand' = [hand EXCEPT ![m] = a]
        /\ queued' = [queued EXCEPT ![m] = IF retry = <<>> THEN None ELSE Head(retry)]
    BY <1>5 DEF Begin
  <2> HIDE DEF a
  <2>5. retry # <<>> => Head(retry) \in Alerts
    BY <1>1, RetryIsSeq, TailFacts
  <2>6. /\ at' \in [Monitors -> {"sleep", "drain", "insert", "publish"}]
        /\ at'[m] = IF retry = <<>> THEN "insert" ELSE "drain"
        /\ \A o \in Monitors \ {m} : at'[o] = at[o]
    BY <1>1, <2>4 DEF TypeOK
  <2>7. /\ hand' \in [Monitors -> Alerts \cup {None}] /\ hand'[m] = a
        /\ \A o \in Monitors \ {m} : hand'[o] = hand[o]
    BY <1>1, <2>2, <2>4 DEF TypeOK
  <2>8. /\ queued' \in [Monitors -> Alerts \cup {None}]
        /\ queued'[m] = IF retry = <<>> THEN None ELSE Head(retry)
        /\ \A o \in Monitors \ {m} : queued'[o] = queued[o]
    BY <1>1, <2>4, <2>5 DEF TypeOK
  <2>9. TypeOK'
    BY <1>1, <1>2, <2>3, <2>6, <2>7, <2>8 DEF TypeOK, world, sink
  <2>10. EmitInHand' /\ SessionsLeft'
    BY <1>1, <1>2, <2>2, <2>5, <2>6, <2>7, <2>8 DEF EmitInHand, SessionsLeft
  <2>11. AlertsAccounted'
    <3> SUFFICES ASSUME sessions = 1, ~shed, NEW l \in Keys, NEW n \in 1..raised'[l],
                        NEW b, b = [key |-> l, n |-> n]
                 PROVE  b \in alerts \/ InHand(b)' \/ Contains(retry, b)
      BY <1>2 DEF AlertsAccounted, sink, InHand, Contains
    <3>1. CASE l = k /\ n = raised[k] + 1
      <4>1. b = a
        BY <3>1 DEF a
      <4> QED
        BY <4>1, <2>6, <2>7 DEF InHand
    <3>2. CASE n \in 1..raised[l]
      <4>1. b \in alerts \/ InHand(b) \/ Contains(retry, b)
        BY <3>2, <1>1, <1>3 DEF AlertsAccounted
      <4>2. InHand(b) => InHand(b)'
        BY <1>3, <2>6, <2>7 DEF InHand
      <4> QED
        BY <4>1, <4>2
    <3>3. raised[l] \in Nat
      BY <1>1, WatchdogAssumption DEF TypeOK
    <3> QED
      BY <2>1, <2>3, <3>1, <3>2, <3>3
  <2> QED
    BY <2>9, <2>10, <2>11 DEF WatchdogIndInv
<1> QED
  BY <1>4, <1>5 DEF Report

\* A monitor with one condition.
LEMMA ReportOneStep ==
  ASSUME WatchdogIndInv, NEW m \in Monitors, NEW k \in Keys, NEW condition \in BOOLEAN,
         Ready(m), ReportOne(m, k, condition), polls' \in 0..(GracePolls + 1)
  PROVE  WatchdogIndInv'
<1>1. [edge EXCEPT ![k] = condition] \in [Keys -> BOOLEAN]
  BY DEF WatchdogIndInv, TypeOK
<1> QED
  BY <1>1, ReportStep DEF ReportOne

\* A poll of a monitor, with the edges it leaves behind.
LEMMA PollStep == WatchdogIndInv /\ Poll => WatchdogIndInv'
<1> SUFFICES ASSUME WatchdogIndInv, Poll PROVE WatchdogIndInv'
  OBVIOUS
<1>1. TypeOK
  BY DEF WatchdogIndInv
<1>2. /\ edge \in [Keys -> BOOLEAN] /\ stale \in BOOLEAN /\ massFailure \in BOOLEAN
      /\ sustained \in BOOLEAN /\ polls \in 0..(GracePolls + 1)
  BY <1>1 DEF TypeOK
<1>3. CASE PollHeartbeat
  <2>1. "heartbeat" \in Monitors /\ "heartbeat_stale" \in Keys /\ polls' = polls
    BY <1>3 DEF Monitors, Keys, PollHeartbeat
  <2> QED
    BY <1>2, <1>3, <2>1, ReportOneStep DEF PollHeartbeat
<1>4. CASE PollFleet
  <2>1. PICK counted \in {massFailure, FALSE} : ReportOne("fleet", "mass_failure", counted)
    BY <1>4 DEF PollFleet
  <2>2. "fleet" \in Monitors /\ "mass_failure" \in Keys /\ polls' = polls /\ Ready("fleet")
    BY <1>4 DEF Monitors, Keys, PollFleet
  <2> QED
    BY <1>2, <2>1, <2>2, ReportOneStep
<1>6. CASE PollChamber
  <2>1. "chamber" \in Monitors /\ "chamber_breach" \in Keys /\ polls' = polls
    BY <1>6 DEF Monitors, Keys, PollChamber
  <2> QED
    BY <1>2, <1>6, <2>1, ReportOneStep DEF PollChamber
<1>5. CASE PollChassis
  <2> DEFINE lost == ReadStatus = "unreachable"
             trip == ReadStatus = "tripped"
             firesLost == lost /\ ~edge["unreachable"] /\ polls >= GracePolls
             k == IF lost THEN "unreachable" ELSE "tripped"
             refuted == {"unreachable", "tripped"} \ (IF lost \/ trip THEN {k} ELSE {})
             newEdge == EdgesAfter(lost, trip, firesLost)
  <2>1. Ready("chassis")
        /\ Report("chassis", k, lost \/ trip, refuted, newEdge, polls >= GracePolls)
    BY <1>5 DEF PollChassis
  <2>2. newEdge \in [Keys -> BOOLEAN]
    BY <1>2 DEF EdgesAfter
  <2>3. polls' \in 0..(GracePolls + 1)
    BY <1>2, <1>5, WatchdogAssumption DEF PollChassis, PollsAfter
  <2>4. "chassis" \in Monitors /\ k \in Keys
    BY DEF Monitors, Keys
  <2> HIDE DEF k, refuted, newEdge
  <2> QED
    BY <2>1, <2>2, <2>3, <2>4, ReportStep
<1> QED
  BY <1>3, <1>4, <1>5, <1>6 DEF Poll

-----------------------------------------------------------------------------
(* AlertSink.emit.                                                         *)

\* The head that was inserted leaves the retry queue; when another monitor has
\* taken it the account is closed (shed), and without a head the service dies.
LEMMA DrainedStep ==
  ASSUME WatchdogIndInv, NEW m \in Monitors, live, Drained(m)
  PROVE  WatchdogIndInv'
<1>1. TypeOK /\ EmitInHand /\ SessionsLeft /\ AlertsAccounted
  BY DEF WatchdogIndInv
<1>2. /\ at[m] = "drain" /\ alerts' = alerts \cup {queued[m]} /\ queued[m] \in Alerts
      /\ hand[m] \in Alerts
      /\ UNCHANGED <<world, edge, episodes, polls, sessions, raised, dbErrors>>
  BY <1>1 DEF Drained, EmitInHand
<1>3. /\ shed' \in BOOLEAN
      /\ ~shed' => ~shed /\ retry # <<>> /\ Head(retry) = queued[m]
  BY DEF Drained
<1>4. alerts' \subseteq Alerts
  BY <1>1, <1>2 DEF TypeOK
<1>5. CASE died' = TRUE /\ live' = FALSE /\ UNCHANGED <<retry, emits>>
  <2>1. TypeOK'
    BY <1>1, <1>2, <1>3, <1>4, <1>5 DEF TypeOK, world, emits, episodes
  <2>2. EmitInHand' /\ SessionsLeft'
    BY <1>1, <1>5 DEF EmitInHand, SessionsLeft, emits
  <2>3. AlertsAccounted'
    BY <1>5 DEF AlertsAccounted
  <2> QED
    BY <2>1, <2>2, <2>3 DEF WatchdogIndInv
<1>6. CASE /\ retry # <<>> /\ retry' = Tail(retry) /\ Begin(m, hand[m], retry')
           /\ UNCHANGED <<died, live>>
  <2>1. /\ retry' \in Seq(Alerts) /\ Len(retry') \in Nat /\ Len(retry) = Len(retry') + 1
        /\ \A a : Contains(retry, a) => a = Head(retry) \/ Contains(retry', a)
    BY <1>1, <1>6, RetryIsSeq, TailFacts
  <2>2. retry' \in BoundedSeq(Alerts, RetryCap)
    BY <1>1, <2>1, RetryIsSeq, BoundedSeqFacts
  <2>3. retry' # <<>> => Head(retry') \in Alerts
    BY <2>1, TailFacts
  <2>4. /\ at' = [at EXCEPT ![m] = IF retry' = <<>> THEN "insert" ELSE "drain"]
        /\ hand' = [hand EXCEPT ![m] = hand[m]]
        /\ queued' = [queued EXCEPT ![m] = IF retry' = <<>> THEN None ELSE Head(retry')]
    BY <1>6 DEF Begin
  <2>5. /\ at' \in [Monitors -> {"sleep", "drain", "insert", "publish"}]
        /\ at'[m] = IF retry' = <<>> THEN "insert" ELSE "drain"
        /\ \A o \in Monitors \ {m} : at'[o] = at[o]
    BY <1>1, <2>4 DEF TypeOK
  <2>6. hand' = hand
    BY <1>1, <2>4 DEF TypeOK
  <2>7. /\ queued' \in [Monitors -> Alerts \cup {None}]
        /\ queued'[m] = IF retry' = <<>> THEN None ELSE Head(retry')
        /\ \A o \in Monitors \ {m} : queued'[o] = queued[o]
    BY <1>1, <2>3, <2>4 DEF TypeOK
  <2>8. TypeOK'
    BY <1>1, <1>2, <1>3, <1>4, <1>6, <2>2, <2>5, <2>6, <2>7 DEF TypeOK, world, episodes
  <2>9. EmitInHand' /\ SessionsLeft'
    BY <1>1, <1>2, <1>6, <2>3, <2>5, <2>6, <2>7 DEF EmitInHand, SessionsLeft
  <2>10. AlertsAccounted'
    <3> SUFFICES ASSUME sessions = 1, ~shed', NEW l \in Keys, NEW n \in 1..raised[l],
                        NEW b, b = [key |-> l, n |-> n]
                 PROVE  b \in alerts' \/ InHand(b)' \/ Contains(retry', b)
      BY <1>2 DEF AlertsAccounted, InHand, Contains
    <3>1. b \in alerts \/ InHand(b) \/ Contains(retry, b)
      BY <1>1, <1>3 DEF AlertsAccounted
    <3>2. InHand(b) => InHand(b)'
      BY <2>5, <2>6 DEF InHand
    <3> QED
      BY <1>2, <1>3, <2>1, <3>1, <3>2
  <2> QED
    BY <2>8, <2>9, <2>10 DEF WatchdogIndInv
<1> QED
  BY <1>5, <1>6 DEF Drained

\* A failed INSERT of the head leaves the retry queue as it is.
LEMMA DrainFailsStep ==
  ASSUME WatchdogIndInv, NEW m \in Monitors, DrainFails(m)
  PROVE  WatchdogIndInv'
<1>1. TypeOK /\ EmitInHand /\ SessionsLeft /\ AlertsAccounted
  BY DEF WatchdogIndInv
<1>2. /\ at[m] = "drain"
      /\ UNCHANGED <<world, edge, hand, queued, sink, episodes, session, raised, shed>>
  BY DEF DrainFails
<1>3. /\ at' \in [Monitors -> {"sleep", "drain", "insert", "publish"}]
      /\ at'[m] = "insert"
      /\ \A o \in Monitors \ {m} : at'[o] = at[o]
  BY <1>1 DEF DrainFails, Continue, TypeOK
<1>4. TypeOK'
  BY <1>1, <1>2, <1>3 DEF TypeOK, world, sink, episodes, session
<1>5. EmitInHand' /\ SessionsLeft'
  BY <1>1, <1>2, <1>3 DEF EmitInHand, SessionsLeft, session
<1>6. AlertsAccounted'
  <2>1. \A b : InHand(b) => InHand(b)'
    BY <1>2, <1>3 DEF InHand
  <2> QED
    BY <1>1, <1>2, <2>1 DEF AlertsAccounted, sink, session
<1> QED
  BY <1>4, <1>5, <1>6 DEF WatchdogIndInv

\* An alert that cannot be stored is requeued; a full queue sheds one.
LEMMA InsertStep ==
  ASSUME WatchdogIndInv, NEW m \in Monitors, Insert(m)
  PROVE  WatchdogIndInv'
<1>1. TypeOK /\ EmitInHand /\ SessionsLeft /\ AlertsAccounted
  BY DEF WatchdogIndInv
<1>2. PICK a : a = hand[m]
  OBVIOUS
<1>3. /\ at[m] = "insert" /\ a \in Alerts
      /\ UNCHANGED <<world, edge, episodes, session, raised>>
  BY <1>1, <1>2 DEF Insert, EmitInHand
<1>4. /\ at' \in [Monitors -> {"sleep", "drain", "insert", "publish"}]
      /\ at'[m] = "sleep" \/ (at'[m] = "publish" /\ hand'[m] = hand[m])
      /\ hand' \in [Monitors -> Alerts \cup {None}]
      /\ queued' \in [Monitors -> Alerts \cup {None}]
      /\ \A o \in Monitors \ {m} : /\ at'[o] = at[o] /\ hand'[o] = hand[o]
                                   /\ queued'[o] = queued[o]
  <2>1. CASE Continue(m, "publish") /\ UNCHANGED <<hand, queued>>
    BY <1>1, <2>1 DEF Continue, TypeOK
  <2>2. CASE Emitted(m)
    BY <1>1, <2>2 DEF Emitted, Continue, TypeOK
  <2> QED
    BY <2>1, <2>2 DEF Insert
<1>5. /\ alerts' \subseteq Alerts /\ retry' \in BoundedSeq(Alerts, RetryCap)
      /\ shed' \in BOOLEAN /\ (shed => shed')
      /\ alerts \subseteq alerts'
      /\ ~shed' => \A b : Contains(retry, b) => Contains(retry', b)
      /\ a \in alerts' \/ Contains(retry', a)
  <2>1. CASE alerts' = alerts \cup {a} /\ UNCHANGED <<retry, shed>>
    BY <2>1, <1>1, <1>3 DEF TypeOK
  <2>2. CASE retry' = Requeue(a) /\ UNCHANGED alerts /\ shed' = (shed \/ Len(retry) = RetryCap)
    <3>1. /\ Requeue(a) \in BoundedSeq(Alerts, RetryCap)
          /\ Contains(Requeue(a), a)
          /\ Len(retry) # RetryCap => \A b : Contains(retry, b) => Contains(Requeue(a), b)
      BY <1>1, <1>3, RequeueFacts
    <3>2. shed' \in BOOLEAN /\ (shed => shed') /\ (~shed' => Len(retry) # RetryCap)
      BY <2>2
    <3> QED
      BY <2>2, <1>1, <3>1, <3>2 DEF TypeOK
  <2> QED
    BY <1>2, <2>1, <2>2 DEF Insert
<1>6. TypeOK'
  BY <1>1, <1>3, <1>4, <1>5 DEF TypeOK, world, episodes, session
<1>7. EmitInHand' /\ SessionsLeft'
  BY <1>1, <1>2, <1>3, <1>4 DEF EmitInHand, SessionsLeft, session
<1>8. AlertsAccounted'
  <2> SUFFICES ASSUME sessions = 1, live, ~shed', NEW l \in Keys, NEW n \in 1..raised[l],
                      NEW b, b = [key |-> l, n |-> n]
               PROVE  b \in alerts' \/ InHand(b)' \/ Contains(retry', b)
    BY <1>3 DEF AlertsAccounted, InHand, Contains, session
  <2>1. b \in alerts \/ InHand(b) \/ Contains(retry, b)
    BY <1>1, <1>5 DEF AlertsAccounted
  <2>2. InHand(b) => InHand(b)' \/ b = a
    BY <1>2, <1>3, <1>4 DEF InHand
  <2> QED
    BY <1>5, <2>1, <2>2
<1> QED
  BY <1>6, <1>7, <1>8 DEF WatchdogIndInv

\* Publishing ends the emit of an alert that is stored or requeued already.
LEMMA PublishStep ==
  ASSUME WatchdogIndInv, NEW m \in Monitors, Publish(m)
  PROVE  WatchdogIndInv'
<1>1. TypeOK /\ EmitInHand /\ SessionsLeft /\ AlertsAccounted
  BY DEF WatchdogIndInv
<1>2. /\ at[m] = "publish"
      /\ hand[m] \in Alerts
      /\ UNCHANGED <<world, retry, alerts, session, raised, shed, dbErrors>>
  BY <1>1 DEF Publish, EmitInHand
<1>3. /\ at' \in [Monitors -> {"sleep", "drain", "insert", "publish"}]
      /\ at'[m] = "sleep"
      /\ \A o \in Monitors \ {m} : at'[o] = at[o]
  BY <1>1 DEF Publish, Emitted, Continue, TypeOK
<1>4. /\ hand' \in [Monitors -> Alerts \cup {None}]
      /\ queued' \in [Monitors -> Alerts \cup {None}]
      /\ \A o \in Monitors \ {m} : hand'[o] = hand[o] /\ queued'[o] = queued[o]
  BY <1>1 DEF Publish, Emitted, TypeOK
<1>5. edge' \in [Keys -> BOOLEAN]
  <2>1. [edge EXCEPT !["tripped"] = FALSE] \in [Keys -> BOOLEAN] /\ edge \in [Keys -> BOOLEAN]
    BY <1>1 DEF TypeOK
  <2> QED
    BY <2>1 DEF Publish
<1>6. TypeOK'
  <2>1. reported' \subseteq Keys /\ spent' \subseteq Keys
    BY <1>1, <1>2 DEF Publish, TypeOK, Alerts
  <2> QED
    BY <1>1, <1>2, <1>3, <1>4, <1>5, <2>1 DEF TypeOK, world, session
<1>7. EmitInHand' /\ SessionsLeft'
  BY <1>1, <1>2, <1>3, <1>4 DEF EmitInHand, SessionsLeft, session
<1>8. AlertsAccounted'
  <2>1. \A b : InHand(b) => InHand(b)'
    BY <1>2, <1>3, <1>4 DEF InHand
  <2> QED
    BY <1>1, <1>2, <2>1 DEF AlertsAccounted, session
<1> QED
  BY <1>6, <1>7, <1>8 DEF WatchdogIndInv

-----------------------------------------------------------------------------
(* The end of the service and of a session.                                *)

\* After a crash or a lost session there is no account to keep.
LEMMA EndStep ==
  ASSUME WatchdogIndInv, InsertRaises \/ SessionLost
  PROVE  WatchdogIndInv'
<1>1. TypeOK /\ EmitInHand /\ SessionsLeft
  BY DEF WatchdogIndInv
<1>2. live' = FALSE /\ AlertsAccounted'
  BY DEF InsertRaises, SessionLost, AlertsAccounted
<1>3. CASE InsertRaises
  <2>1. /\ died' = TRUE
        /\ UNCHANGED <<world, edge, emits, sink, episodes, polls, sessions, raised, shed>>
    BY <1>3 DEF InsertRaises
  <2>2. TypeOK'
    BY <1>1, <1>2, <2>1 DEF TypeOK, world, emits, sink, episodes
  <2>3. EmitInHand' /\ SessionsLeft'
    BY <1>1, <2>1 DEF EmitInHand, SessionsLeft, emits
  <2> QED
    BY <1>2, <2>2, <2>3 DEF WatchdogIndInv
<1>4. CASE SessionLost
  <2>1. /\ sessions < MaxSessions /\ at' = Asleep /\ hand' = NoAlert /\ queued' = NoAlert
        /\ retry' = <<>>
        /\ spent' = spent \cup EdgesInEmit /\ EdgesInEmit \subseteq Keys
        /\ UNCHANGED <<world, edge, alerts, reported, polls, sessions, died, raised, shed>>
    BY <1>4 DEF SessionLost, EdgesInEmit
  <2>2. retry' \in BoundedSeq(Alerts, RetryCap)
    <3>1. retry' \in Seq(Alerts) /\ Len(retry') = 0 /\ RetryCap \in Nat /\ 0 <= RetryCap
      BY <2>1, WatchdogAssumption
    <3> QED
      BY <3>1, BoundedSeqFacts
  <2>3. /\ at' \in [Monitors -> {"sleep", "drain", "insert", "publish"}]
        /\ hand' \in [Monitors -> Alerts \cup {None}]
        /\ queued' \in [Monitors -> Alerts \cup {None}]
        /\ \A o \in Monitors : at'[o] = "sleep"
    BY <2>1 DEF Asleep, NoAlert
  <2>4. TypeOK'
    BY <1>1, <1>2, <2>1, <2>2, <2>3 DEF TypeOK, world
  <2>5. EmitInHand' /\ SessionsLeft'
    BY <2>1, <2>3 DEF EmitInHand, SessionsLeft
  <2> QED
    BY <1>2, <2>4, <2>5 DEF WatchdogIndInv
<1> QED
  BY <1>3, <1>4

\* A new session has its number, a new grace and the heartbeat's edge reset.
LEMMA SessionStartsStep == WatchdogIndInv /\ SessionStarts => WatchdogIndInv'
<1> SUFFICES ASSUME WatchdogIndInv, SessionStarts PROVE WatchdogIndInv'
  OBVIOUS
<1>1. TypeOK /\ EmitInHand /\ SessionsLeft
  BY DEF WatchdogIndInv
<1>2. /\ ~live /\ ~died /\ live' = TRUE /\ sessions' = sessions + 1
      /\ stale' = FALSE /\ sustained' = FALSE /\ polls' = 0 /\ edge' = ResetEdge
      /\ UNCHANGED <<silent, chassis, massFailure, changes, emits, sink, episodes, died,
                     raised, shed, dbErrors>>
  BY DEF SessionStarts
<1>3. sessions \in 1..MaxSessions /\ sessions < MaxSessions
  BY <1>1, <1>2 DEF TypeOK, SessionsLeft
<1>4. sessions' \in 1..MaxSessions /\ sessions' # 1
  BY <1>2, <1>3, WatchdogAssumption
<1>5. polls' \in 0..(GracePolls + 1)
  BY <1>2, WatchdogAssumption
<1>6. edge' \in [Keys -> BOOLEAN]
  BY <1>1, <1>2 DEF ResetEdge, TypeOK
<1>7. TypeOK'
  BY <1>1, <1>2, <1>4, <1>5, <1>6 DEF TypeOK, emits, sink, episodes
<1>8. EmitInHand' /\ SessionsLeft'
  BY <1>1, <1>2 DEF EmitInHand, SessionsLeft, emits
<1>9. AlertsAccounted'
  BY <1>4 DEF AlertsAccounted
<1> QED
  BY <1>7, <1>8, <1>9 DEF WatchdogIndInv

-----------------------------------------------------------------------------
(* The theorems.                                                           *)

\* Every step of the monitors, the sink and the sessions keeps the inductive
\* invariant (watchdog/main.py).
THEOREM WatchdogInvariance == Spec => []WatchdogIndInv
<1>1. ASSUME WatchdogIndInv, [Next]_vars PROVE WatchdogIndInv'
  <2>1. CASE Change \/ HeartbeatResumes \/ GapGrows
    BY <2>1, <1>1, WorldStep
  <2>2. CASE Poll
    BY <2>2, <1>1, PollStep
  <2>3. ASSUME NEW m \in Monitors, Emit(m) PROVE WatchdogIndInv'
    BY <2>3, <1>1, DrainedStep, DrainFailsStep, InsertStep, PublishStep DEF Emit
  <2>4. CASE InsertRaises \/ SessionLost
    BY <2>4, <1>1, EndStep
  <2>5. CASE SessionStarts
    BY <2>5, <1>1, SessionStartsStep
  <2>6. CASE UNCHANGED vars
    <3>1. TypeOK' /\ EmitInHand' /\ SessionsLeft'
      BY <2>6, <1>1 DEF vars, world, emits, sink, episodes, session, WatchdogIndInv, TypeOK, EmitInHand,
         SessionsLeft
    <3>2. AlertsAccounted'
      BY <2>6, <1>1 DEF vars, emits, sink, session, WatchdogIndInv, AlertsAccounted, InHand
    <3> QED
      BY <3>1, <3>2 DEF WatchdogIndInv
  <2> QED
    BY <1>1, <2>1, <2>2, <2>3, <2>4, <2>5, <2>6 DEF Next
<1> QED
  BY <1>1, WatchdogInit, PTL DEF Spec

\* The watchdog's state keeps its types and the retry queue its cap, whatever
\* INSERTs fail and however the monitors overlap in emit.
THEOREM WatchdogTypes == Spec => []TypeOK
<1>1. WatchdogIndInv => TypeOK
  BY DEF WatchdogIndInv
<1> QED
  BY <1>1, WatchdogInvariance, PTL

\* In the first session every alert that was raised is stored, in the retry
\* queue or still in emit, until the queue overflows or two monitors drain it
\* at the same time (AlertSink.emit).
THEOREM AlertsAccountedAlways == Spec => []AlertsAccounted
<1>1. WatchdogIndInv => AlertsAccounted
  BY DEF WatchdogIndInv
<1> QED
  BY <1>1, WatchdogInvariance, PTL
=============================================================================
