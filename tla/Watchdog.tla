------------------------------ MODULE Watchdog ------------------------------
(***************************************************************************)
(* The watchdog service: monitors that poll a condition and emit an alert  *)
(* on its rising edge (EdgeTrigger), and the AlertSink they share, which   *)
(* writes alerts to Postgres, keeps those it could not write in a retry    *)
(* queue, and publishes critical ones.  The monitors are tasks of one MQTT *)
(* session; when the session is lost they are cancelled wherever they are, *)
(* and the next session has a new AlertSink and new monitor state, but the *)
(* same EdgeTrigger.                                                       *)
(*                                                                         *)
(* Every await of AlertSink.emit is an action: between reading the head of *)
(* the retry queue and removing it there is an INSERT, during which the    *)
(* other monitors run.                                                     *)
(***************************************************************************)
EXTENDS Naturals, Sequences, FiniteSets, SequencesExt

CONSTANTS
    GracePolls,      \* startup_grace_polls of the chassis monitor
    RetryCap,        \* RETRY_QUEUE_CAP
    MaxAlerts,       \* bound: alerts per key
    MaxChanges,      \* bound: changes of the watched conditions
    MaxDbErrors,     \* bound: INSERTs that fail
    MaxSessions      \* bound: MQTT sessions

ASSUME WatchdogAssumption ==
    /\ GracePolls \in Nat /\ RetryCap \in Nat \ {0} /\ MaxAlerts \in Nat
    /\ MaxChanges \in Nat /\ MaxDbErrors \in Nat /\ MaxSessions \in Nat \ {0}
    \* no alert is cut off by the bound
    /\ MaxAlerts >= MaxSessions + MaxChanges + MaxDbErrors

Monitors == {"heartbeat", "chassis", "fleet", "chamber"}
Keys == {"heartbeat_stale", "tripped", "unreachable", "mass_failure", "chamber_breach"}

VARIABLES
    silent, stale,    \* the orchestrator is silent; the gap exceeds the threshold
    chassis,          \* what a probe of the chassis finds
    massFailure,      \* enough experiments failed in the window
    sustained,        \* a chamber is out of its band for too long (Chamber)
    edge,             \* EdgeTrigger: the condition at the last update
    polls,            \* polls of the chassis monitor in this session
    at, hand, queued, \* per monitor: next await of emit, its alert, the head read
    retry, alerts,    \* AlertSink._retry, table alerts
    reported,         \* conditions whose alert went out since a poll last refuted them
    spent,            \* conditions whose edge rose without an alert, in a grace or in
                      \* an emit the session did not survive, and no poll refuted since
    raised,           \* alerts emitted, per key
    sessions, live,   \* sessions so far; whether one is connected
    died,             \* the service has crashed
    shed,             \* the retry queue has overflowed or was drained by two at once
    changes, dbErrors

world == <<silent, stale, chassis, massFailure, sustained, changes>>
emits == <<at, hand, queued>>
sink == <<retry, alerts>>
episodes == <<reported, spent>>
session == <<polls, sessions, live, died>>
vars == <<world, edge, emits, sink, episodes, session, raised, shed, dbErrors>>

Alerts == [key : Keys, n : 1..MaxAlerts]
None == [key |-> "none", n |-> 0]

\* Types, with the cap of the retry queue (RETRY_QUEUE_CAP in emit).
TypeOK ==
    /\ silent \in BOOLEAN /\ stale \in BOOLEAN
    /\ massFailure \in BOOLEAN /\ sustained \in BOOLEAN
    /\ chassis \in {"ok", "tripped", "unreachable"}
    /\ edge \in [Keys -> BOOLEAN]
    /\ polls \in 0..(GracePolls + 1)
    /\ at \in [Monitors -> {"sleep", "drain", "insert", "publish"}]
    /\ hand \in [Monitors -> Alerts \cup {None}]
    /\ queued \in [Monitors -> Alerts \cup {None}]
    /\ retry \in BoundedSeq(Alerts, RetryCap)
    /\ alerts \subseteq Alerts
    /\ reported \subseteq Keys /\ spent \subseteq Keys
    /\ raised \in [Keys -> 0..MaxAlerts]
    /\ sessions \in 1..MaxSessions
    /\ live \in BOOLEAN /\ died \in BOOLEAN /\ shed \in BOOLEAN

Asleep == [m \in Monitors |-> "sleep"]
NoAlert == [m \in Monitors |-> None]

Init ==
    /\ silent = FALSE /\ stale = FALSE /\ chassis = "ok"
    /\ massFailure = FALSE /\ sustained = FALSE
    /\ edge = [k \in Keys |-> FALSE]
    /\ polls = 0 /\ at = Asleep /\ hand = NoAlert /\ queued = NoAlert
    /\ retry = <<>> /\ alerts = {} /\ reported = {} /\ spent = {}
    /\ raised = [k \in Keys |-> 0]
    /\ sessions = 1 /\ live = TRUE /\ died = FALSE /\ shed = FALSE
    /\ changes = 0 /\ dbErrors = 0

-----------------------------------------------------------------------------
(* The watched world.                                                      *)

\* mark_rx: a heartbeat that arrives ends the gap.
HeartbeatResumes ==
    /\ changes < MaxChanges /\ changes' = changes + 1
    /\ silent /\ silent' = FALSE /\ stale' = FALSE
    /\ UNCHANGED <<chassis, massFailure, sustained, edge, emits, sink, episodes, session,
                   raised, shed, dbErrors>>

Change ==
    /\ changes < MaxChanges /\ changes' = changes + 1
    /\ \/ ~silent /\ silent' = TRUE /\ UNCHANGED <<stale, chassis, massFailure, sustained>>
       \/ chassis' \in {"ok", "tripped", "unreachable"} \ {chassis}
          /\ UNCHANGED <<silent, stale, massFailure, sustained>>
       \/ massFailure' = ~massFailure /\ UNCHANGED <<silent, stale, chassis, sustained>>
       \/ sustained' = ~sustained /\ UNCHANGED <<silent, stale, chassis, massFailure>>
    /\ UNCHANGED <<edge, emits, sink, episodes, session, raised, shed, dbErrors>>

\* No heartbeat for longer than the threshold, while connected.
GapGrows ==
    /\ silent /\ live /\ ~stale /\ stale' = TRUE
    /\ UNCHANGED <<silent, chassis, massFailure, sustained, changes, edge, emits, sink,
                   episodes, session, raised, shed, dbErrors>>

-----------------------------------------------------------------------------
(* Monitors.                                                               *)

\* EdgeTrigger.update: a rising edge
Rises(k, condition) == condition /\ ~edge[k]

\* The first thing emit does: read the head of the retry queue, if any.
Begin(m, a, q) ==
    /\ at' = [at EXCEPT ![m] = IF q = <<>> THEN "insert" ELSE "drain"]
    /\ hand' = [hand EXCEPT ![m] = a]
    /\ queued' = [queued EXCEPT ![m] = IF q = <<>> THEN None ELSE Head(q)]

\* Update the edge of k and emit its alert if it rose (and may be emitted).  The
\* poll has found the conditions in refuted to be false.
Report(m, k, condition, refuted, newEdge, allowed) ==
    /\ edge' = newEdge
    /\ IF Rises(k, condition) /\ allowed
       THEN /\ raised[k] < MaxAlerts
            /\ raised' = [raised EXCEPT ![k] = @ + 1]
            /\ Begin(m, [key |-> k, n |-> raised[k] + 1], retry)
       ELSE UNCHANGED <<raised, emits>>
    /\ reported' = reported \ refuted
    /\ spent' = (spent \ refuted) \cup (IF Rises(k, condition) /\ ~allowed THEN {k} ELSE {})
    /\ UNCHANGED <<world, sink, sessions, live, died, shed>>

Ready(m) == live /\ at[m] = "sleep"

\* The poll of a monitor with one condition.
ReportOne(m, k, condition) ==
    Report(m, k, condition, IF condition THEN {} ELSE {k},
           [edge EXCEPT ![k] = condition], TRUE)

PollHeartbeat ==
    /\ Ready("heartbeat")
    /\ ReportOne("heartbeat", "heartbeat_stale", stale)
    /\ UNCHANGED <<polls, dbErrors>>

\* A failed count reads as zero failures, which re-arms the edge.
PollFleet ==
    /\ Ready("fleet")
    /\ \E counted \in {massFailure, FALSE} :
         /\ counted # massFailure => dbErrors < MaxDbErrors
         /\ dbErrors' = IF counted = massFailure THEN dbErrors ELSE dbErrors + 1
         /\ ReportOne("fleet", "mass_failure", counted)
    /\ UNCHANGED polls

\* chamber_check_loop shares the sink; Chamber has its sweep in detail.
PollChamber ==
    /\ Ready("chamber")
    /\ ReportOne("chamber", "chamber_breach", sustained)
    /\ UNCHANGED <<polls, dbErrors>>

\* ChassisProbe.read_status: the status register, or OSError
ReadStatus == chassis

\* poll_count, as far as the grace looks at it
PollsAfter == IF polls > GracePolls THEN polls ELSE polls + 1

\* Mutant: a chassis that recovers does not re-arm the tripped edge.
EdgesAfterStuck(lost, trip, firesLost) ==
    [edge EXCEPT !["unreachable"] = lost,
                 !["tripped"] = IF firesLost THEN @ ELSE trip \/ (@ /\ ~lost)]

\* An unreachable chassis clears the tripped edge, after the emit if it firesLost.
EdgesAfter(lost, trip, firesLost) ==
    [edge EXCEPT !["unreachable"] = lost,
                 !["tripped"] = IF firesLost THEN @ ELSE trip]

\* One pass of chassis_monitor_loop.  The grace suppresses the alert, not the
\* update of the edge.
PollChassis ==
    LET lost  == ReadStatus = "unreachable"
        trip  == ReadStatus = "tripped"
        k     == IF lost THEN "unreachable" ELSE "tripped"
        firesLost == lost /\ ~edge["unreachable"] /\ polls >= GracePolls
    IN  /\ Ready("chassis")
        /\ polls' = PollsAfter
        /\ Report("chassis", k, lost \/ trip,
                  {"unreachable", "tripped"} \ (IF lost \/ trip THEN {k} ELSE {}),
                  EdgesAfter(lost, trip, firesLost),
                  polls >= GracePolls)
        /\ UNCHANGED dbErrors

-----------------------------------------------------------------------------
(* AlertSink.emit.                                                         *)

\* The monitor goes on at label, its part of the retry queue being q.
Continue(m, label) == at' = [at EXCEPT ![m] = label]

\* The INSERT of the head that was read succeeds; popleft takes whatever is
\* the head now, and raises IndexError when there is none: no one catches it.
Drained(m) ==
    /\ at[m] = "drain"
    /\ alerts' = alerts \cup {queued[m]}
    /\ shed' = (shed \/ retry = <<>> \/ Head(retry) # queued[m])
    /\ IF retry = <<>>
       THEN died' = TRUE /\ live' = FALSE /\ UNCHANGED <<retry, emits>>
       ELSE /\ retry' = Tail(retry)
            /\ Begin(m, hand[m], retry')
            /\ UNCHANGED <<died, live>>
    /\ UNCHANGED <<world, edge, episodes, polls, sessions, raised, dbErrors>>

\* The INSERT of the head fails: leave the queue as it is.
DrainFails(m) ==
    /\ at[m] = "drain" /\ dbErrors < MaxDbErrors
    /\ dbErrors' = dbErrors + 1
    /\ Continue(m, "insert")
    /\ UNCHANGED <<world, edge, hand, queued, sink, episodes, session, raised, shed>>

\* Mutants: the alert is forgotten; the queue has no maxlen.
RequeueNot(a) == retry
RequeueUnbounded(a) == Append(retry, a)

\* deque(maxlen): appending to a full queue drops its head
Requeue(a) == Append(IF Len(retry) < RetryCap THEN retry ELSE Tail(retry), a)

\* The end of emit.
Emitted(m) ==
    /\ Continue(m, "sleep")
    /\ hand' = [hand EXCEPT ![m] = None]
    /\ queued' = [queued EXCEPT ![m] = None]

\* The alert itself.  Only a critical one is published: all but the chamber's.
Insert(m) ==
    /\ at[m] = "insert"
    /\ \/ alerts' = alerts \cup {hand[m]} /\ UNCHANGED <<retry, shed, dbErrors>>
       \/ /\ dbErrors < MaxDbErrors /\ dbErrors' = dbErrors + 1
          /\ retry' = Requeue(hand[m]) /\ UNCHANGED alerts
          /\ shed' = (shed \/ Len(retry) = RetryCap)
    /\ \/ m # "chamber" /\ Continue(m, "publish") /\ UNCHANGED <<hand, queued>>
       \/ m = "chamber" /\ Emitted(m)
    /\ UNCHANGED <<world, edge, episodes, session, raised>>

\* The publish succeeds, or its MqttError is logged.
Publish(m) ==
    /\ at[m] = "publish"
    /\ reported' = reported \cup {hand[m].key} /\ UNCHANGED spent
    /\ Emitted(m)
    /\ edge' = IF hand[m].key = "unreachable" THEN [edge EXCEPT !["tripped"] = FALSE]
               ELSE edge
    /\ UNCHANGED <<world, retry, alerts, session, raised, shed, dbErrors>>

Emit(m) == live /\ (Drained(m) \/ DrainFails(m) \/ Insert(m) \/ Publish(m))

\* An INSERT that raises something other than PostgresError (the connection is
\* refused: OSError) is caught neither here nor in _run: the service exits,
\* with the alert neither stored nor published.
InsertRaises ==
    /\ live /\ dbErrors < MaxDbErrors /\ dbErrors' = dbErrors + 1
    /\ \E m \in Monitors : at[m] \in {"drain", "insert"}
    /\ died' = TRUE /\ live' = FALSE
    /\ UNCHANGED <<world, edge, emits, sink, episodes, polls, sessions, raised, shed>>

-----------------------------------------------------------------------------
(* Sessions.                                                               *)

\* The edges a monitor has set and may not have reported yet.
EdgesInEmit ==
    {k \in Keys : edge[k] /\ at[CASE k = "heartbeat_stale" -> "heartbeat"
                                   [] k = "mass_failure"    -> "fleet"
                                   [] k = "chamber_breach"  -> "chamber"
                                   [] OTHER                 -> "chassis"] # "sleep"}

\* MqttError: the TaskGroup cancels every monitor, the AlertSink is gone.
SessionLost ==
    /\ live /\ live' = FALSE
    /\ sessions < MaxSessions
    /\ at' = Asleep /\ hand' = NoAlert /\ queued' = NoAlert
    /\ retry' = <<>>
    /\ spent' = spent \cup EdgesInEmit
    /\ UNCHANGED <<world, edge, alerts, reported, polls, sessions, died, raised,
                   shed, dbErrors>>

\* Mutant: the heartbeat's edge is not reset.
ResetEdgeNot == edge

\* _run_session: edge.reset of the heartbeat key
ResetEdge == [edge EXCEPT !["heartbeat_stale"] = FALSE]

\* _run_session: new monitor state, and subscribe
SessionStarts ==
    /\ ~live /\ ~died /\ live' = TRUE
    /\ sessions' = sessions + 1
    /\ stale' = FALSE /\ sustained' = FALSE /\ polls' = 0
    /\ edge' = ResetEdge
    /\ UNCHANGED <<silent, chassis, massFailure, changes, emits, sink, episodes, died,
                   raised, shed, dbErrors>>

Poll == PollHeartbeat \/ PollFleet \/ PollChassis \/ PollChamber

Next == \/ Change \/ HeartbeatResumes \/ GapGrows \/ Poll
        \/ \E m \in Monitors : Emit(m)
        \/ InsertRaises \/ SessionLost \/ SessionStarts

Spec == Init /\ [][Next]_vars

\* The event loop runs every task, time passes, and the broker comes back.
FairSpec ==
    /\ Spec
    /\ WF_vars(GapGrows) /\ WF_vars(SessionStarts)
    /\ WF_vars(PollHeartbeat) /\ WF_vars(PollFleet)
    /\ WF_vars(PollChassis) /\ WF_vars(PollChamber)
    /\ \A m \in Monitors : WF_vars(Emit(m))

-----------------------------------------------------------------------------
(* Properties.                                                             *)

InHand(a) == \E m \in Monitors : hand[m] = a /\ at[m] \in {"drain", "insert"}

\* An alert that was raised is in the table, in the retry queue or still in
\* emit, as long as the session lasts, the retry queue does not overflow and no
\* two monitors drain it at the same time (AlertSink.emit).
AlertsAccounted ==
    sessions = 1 /\ live /\ ~shed =>
        \A k \in Keys : \A n \in 1..raised[k] :
            LET a == [key |-> k, n |-> n]
            IN  a \in alerts \/ InHand(a) \/ Contains(retry, a)

\* An orchestrator that stays silent is reported, and again each time it falls
\* silent after a poll has found it alive: whatever sessions are lost on the way,
\* with the alert in the middle of emit, the publication of an alert is
\* attempted, unless the service itself has exited (heartbeat_check_loop, and
\* the reset of the edge in _run_session).
SilenceReported ==
    silent ~> ~silent \/ "heartbeat_stale" \in reported \/ died

\* A chassis that stays tripped is reported, and again each time it trips after a
\* poll has found it recovered or unreachable, whatever the sink meets, unless
\* the service has exited.  The exception is an edge that is spent: the grace of
\* a session updates the edge and skips the emit ("real trips will fire on the
\* next cycle", but the edge has gone by), and a session lost in the middle of
\* the chassis monitor's emit leaves the edge set behind.  Only a poll that
\* finds the chassis not tripped re-arms it (chassis_monitor_loop).
TripReported ==
    chassis = "tripped" ~>
        chassis # "tripped" \/ "tripped" \in reported \cup spent \/ died
-----------------------------------------------------------------------------
(* What the properties rest on (WatchdogProofs).                           *)

\* A monitor in the middle of emit has its alert in hand, and the head it read
\* while it drains the retry queue.
EmitInHand ==
    \A m \in Monitors : /\ at[m] # "sleep" => hand[m] \in Alerts
                        /\ at[m] = "drain" => queued[m] \in Alerts

\* Between two sessions there is room for the next one.
SessionsLeft == ~live /\ ~died => sessions < MaxSessions

WatchdogIndInv == TypeOK /\ EmitInHand /\ SessionsLeft /\ AlertsAccounted
=============================================================================
