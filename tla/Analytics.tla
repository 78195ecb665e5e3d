----------------------------- MODULE Analytics -----------------------------
(***************************************************************************)
(* From a finished cycle to its features: the orchestrator's queue of      *)
(* cycle_complete events and its publisher, the broker with its one        *)
(* retained event, and the analytics service, which handles one event at   *)
(* a time: it reads the cycle's step windows, its telemetry rows and the   *)
(* R0 of the previous cycle, upserts the features and may raise an alert.  *)
(* EXTENDS Ingester: the rows it reads are those the ingester has stored   *)
(* by then.                                                                *)
(*                                                                         *)
(* One experiment.  Cycle n runs the steps of Profile, one sample each, so *)
(* a sample belongs to one step of one cycle; samples after the last cycle *)
(* are those of the idle channel.  R0 is the resistance Ohm[n] of the cell *)
(* in that cycle where compute_features can estimate it at all.            *)
(***************************************************************************)
EXTENDS Ingester, FiniteSets, FiniteSetsExt

CONSTANTS
    Profile,         \* the steps of a cycle, in order
    Ohm,             \* per cycle, the cell's R0; 0: current step below 1 mA
    MinRows,         \* rows compute_features asks for (10)
    JumpPct          \* ANALYTICS_R0_JUMP_THRESHOLD_PCT

L == Len(Profile)
Cycles == 1..Len(Ohm)

\* A cycle has more than one step: of a cycle without any closed step row, which
\* one failed insert could then leave, fetch_cycle_telemetry would use the
\* cycle_index of the rows instead.
ASSUME AnalyticsAssumption ==
    /\ Profile \in Seq(STRING) /\ L > 1 /\ MinRows \in Nat /\ JumpPct \in Nat /\ Ohm \in Seq(Nat)
    /\ MaxSamples >= L * Len(Ohm)

VARIABLES
    completed,  \* cycles the orchestrator has finished
    gaps,       \* samples whose step has no closed row in experiment_steps
    events,     \* events._queue
    pub,        \* event_publisher_loop: the event in hand, Waiting or Down
    retained,   \* the broker's retained event, 0 if none
    listening,  \* analytics is subscribed
    mail,       \* events on their way to analytics
    job,        \* process_cycle: where it is and what it has read
    features,   \* the cycle_features table
    alerts,     \* alerts with source analytics.anomaly: cycle and baseline
    finished,   \* events analytics is done with, in one way or another
    pubErrors, drops, dbErrors

eventVars == <<completed, gaps, events, pub, retained, pubErrors>>
jobVars == <<listening, mail, job, features, alerts, finished, drops, dbErrors>>
vars == <<rowVars, eventVars, jobVars>>

Waiting == 0
Down == Len(Ohm) + 1

\* The samples of a cycle and the step of a sample.
Window(n) == ((n - 1) * L + 1)..(n * L)
StepOf(s) == Profile[((s - 1) % L) + 1]

\* No row; and what a row is made from: the telemetry rows used, whether R0
\* was estimated, and the cycle whose R0 the jump is relative to (0: NULL).
NoRow == [rows |-> {}, r0 |-> FALSE, base |-> 0]
Idle == [at |-> "idle", n |-> 0, row |-> NoRow]

Init ==
    /\ RowInit
    /\ completed = 0 /\ gaps = {} /\ events = <<>>
    /\ pub = Waiting /\ retained = 0
    /\ listening = TRUE /\ mail = <<>> /\ job = Idle
    /\ features = [n \in Cycles |-> NoRow]
    /\ alerts = {} /\ finished = {}
    /\ pubErrors = 0 /\ drops = 0 /\ dbErrors = 0

\* Faults of all kinds share one budget.
MayFail == rowFaults + pubErrors + drops + dbErrors + Cardinality(gaps) < MaxFaults

-----------------------------------------------------------------------------
(* The orchestrator.                                                       *)

\* The last step of the cycle is closed, then enqueue_cycle_complete.  The
\* insert of one of the cycle's step rows may have failed before.
CycleComplete ==
    /\ completed < Len(Ohm) /\ sent = (completed + 1) * L
    /\ completed' = completed + 1
    /\ events' = Append(events, completed + 1)
    /\ \/ UNCHANGED gaps
       \/ MayFail /\ \E s \in Window(completed + 1) : gaps' = gaps \cup {s}
    /\ UNCHANGED <<rowVars, jobVars, pub, retained, pubErrors>>

GetEvent ==
    /\ pub = Waiting /\ events # <<>>
    /\ pub' = Head(events) /\ events' = Tail(events)
    /\ UNCHANGED <<rowVars, jobVars, completed, gaps, retained, pubErrors>>

\* External: the broker keeps the event for later subscribers and forwards it.
BrokerTakes(n) ==
    /\ retained' = n
    /\ mail' = IF listening THEN Append(mail, n) ELSE mail

Publish ==
    /\ pub \in Cycles /\ pub' = Waiting
    /\ BrokerTakes(pub)
    /\ UNCHANGED <<rowVars, completed, gaps, events, pubErrors,
                   listening, job, features, alerts, finished, drops, dbErrors>>

\* MqttError: the event goes to the end of the queue, taken or not.
PublishError ==
    /\ pub \in Cycles /\ pub' = Down
    /\ MayFail /\ pubErrors' = pubErrors + 1
    /\ events' = Append(events, pub)
    /\ BrokerTakes(pub) \/ UNCHANGED <<retained, mail>>
    /\ UNCHANGED <<rowVars, completed, gaps,
                   listening, job, features, alerts, finished, drops, dbErrors>>

\* Two seconds later, with a new client.
Reconnect ==
    /\ pub = Down /\ pub' = Waiting
    /\ UNCHANGED <<rowVars, jobVars, completed, gaps, events, retained, pubErrors>>

Publisher == GetEvent \/ Publish \/ Reconnect

-----------------------------------------------------------------------------
(* The analytics service.                                                  *)

\* Mutant: the subscription starts with new events only.
ListenLive ==
    /\ ~listening /\ job = Idle
    /\ listening' = TRUE
    /\ mail' = <<>>
    /\ UNCHANGED <<rowVars, eventVars, job, features, alerts, finished, drops, dbErrors>>

\* Subscribing delivers the retained event, if there is one.
Listen ==
    /\ ~listening /\ job = Idle
    /\ listening' = TRUE
    /\ mail' = IF retained = 0 THEN <<>> ELSE <<retained>>
    /\ UNCHANGED <<rowVars, eventVars, job, features, alerts, finished, drops, dbErrors>>

Finish == job' = Idle /\ finished' = finished \cup {job.n}

\* The next message; _process_event validates it and starts process_cycle.
TakeEvent ==
    /\ listening /\ job = Idle /\ mail # <<>>
    /\ job' = [Idle EXCEPT !.at = "fetch", !.n = Head(mail)]
    /\ mail' = Tail(mail)
    /\ UNCHANGED <<rowVars, eventVars, listening, features, alerts, finished, drops, dbErrors>>

\* fetch_step_intervals: the samples inside the cycle's closed step rows.
Labelled(n) == Window(n) \ gaps

\* fetch_cycle_telemetry: the stored rows between the first and the last of the
\* cycle's closed step rows.
CycleTelemetry(n) ==
    {s \in Min(Labelled(n))..Max(Labelled(n)) : stored[s] > 0}

\* compute_features: R0 is estimated from the last CC sample and the first CV
\* sample, if in this order, unless the current step between them is too small.
EstimatesR0(n, seen) ==
    LET Of(step) == {s \in seen \cap Labelled(n) : StepOf(s) = step}
    IN  /\ Ohm[n] > 0
        /\ Of("cc") # {} /\ Of("cv") # {}
        /\ Max(Of("cc")) < Min(Of("cv"))

\* The rows of earlier cycles.
EarlierRows(n) == {m \in Cycles : m < n /\ features[m] # NoRow}

\* Mutant: ORDER BY cycle_index without DESC.
PreviousR0First(n) ==
    LET rows == EarlierRows(n)
    IN  IF rows # {} /\ features[Min(rows)].r0 THEN Min(rows) ELSE 0

\* previous_r0: of the nearest earlier cycle that has a row; 0 if there is none
\* or its r0_ohm is NULL.
PreviousR0(n) ==
    LET m == Max(EarlierRows(n) \cup {0})
    IN  IF m > 0 /\ features[m].r0 THEN m ELSE 0

\* The reads, then compute_features; too few rows end the event here.  Only
\* this task writes cycle_features and the step rows are closed, so the moment
\* that matters is that of the telemetry query.
Compute ==
    /\ job.at = "fetch"
    /\ LET seen == CycleTelemetry(job.n)
           r0 == EstimatesR0(job.n, seen)
           base == IF r0 THEN PreviousR0(job.n) ELSE 0
       IN  IF Cardinality(seen) < MinRows
           THEN Finish
           ELSE /\ job' = [job EXCEPT !.at = "upsert",
                                      !.row = [rows |-> seen, r0 |-> r0, base |-> base]]
                /\ UNCHANGED finished
    /\ UNCHANGED <<rowVars, eventVars, listening, mail, features, alerts, drops, dbErrors>>

\* r0_jump_pct(Ohm[n], Ohm[base]) > the threshold.
Jumps(n, row) == row.base > 0 /\ (Ohm[n] - Ohm[row.base]) * 100 > JumpPct * Ohm[row.base]

\* INSERT ... ON CONFLICT DO UPDATE of every column.
Upserted == [features EXCEPT ![job.n] = job.row]

\* Mutant: a cycle that already has a row is not looked at for an alert.
UpsertNewOnly ==
    /\ job.at = "upsert"
    /\ features' = Upserted
    /\ IF Jumps(job.n, job.row) /\ features[job.n] = NoRow
       THEN job' = [job EXCEPT !.at = "alert"] /\ UNCHANGED finished
       ELSE Finish
    /\ UNCHANGED <<rowVars, eventVars, listening, mail, alerts, drops, dbErrors>>

Upsert ==
    /\ job.at = "upsert"
    /\ features' = Upserted
    /\ IF Jumps(job.n, job.row)
       THEN job' = [job EXCEPT !.at = "alert"] /\ UNCHANGED finished
       ELSE Finish
    /\ UNCHANGED <<rowVars, eventVars, listening, mail, alerts, drops, dbErrors>>

NewAlert == alerts \cup {[n |-> job.n, base |-> job.row.base]}

\* emit_anomaly_alert appends; the same alert again is not told apart here.
Alert ==
    /\ job.at = "alert"
    /\ alerts' = NewAlert
    /\ Finish
    /\ UNCHANGED <<rowVars, eventVars, listening, mail, features, drops, dbErrors>>

\* PostgresError or OSError at any of the awaits: the event is dropped.  A
\* statement may have taken effect.
DbError ==
    /\ job.at # "idle"
    /\ MayFail /\ dbErrors' = dbErrors + 1
    /\ \/ UNCHANGED <<features, alerts>>
       \/ job.at = "upsert" /\ features' = Upserted /\ UNCHANGED alerts
       \/ job.at = "alert" /\ alerts' = NewAlert /\ UNCHANGED features
    /\ Finish
    /\ UNCHANGED <<rowVars, eventVars, listening, mail, drops>>

\* The connection breaks, with the clean session's undelivered events; the
\* event in hand goes on, or dies with the process if that is restarted.
Hangup ==
    /\ listening /\ MayFail
    /\ drops' = drops + 1
    /\ listening' = FALSE /\ mail' = <<>>
    /\ job' \in {job, Idle}
    /\ UNCHANGED <<rowVars, eventVars, features, alerts, finished, dbErrors>>

Service == Listen \/ TakeEvent \/ Compute \/ Upsert \/ Alert

-----------------------------------------------------------------------------

\* The row path goes on by itself.  A cycle ends when the orchestrator says so:
\* its event comes before the samples of the next one.
RowPath ==
    /\ RowNext
    /\ sent' # sent => (sent = (completed + 1) * L => completed = Len(Ohm))
    /\ rowFaults' # rowFaults => MayFail
    /\ UNCHANGED <<eventVars, jobVars>>

Next == \/ RowPath
        \/ CycleComplete \/ Publisher \/ PublishError
        \/ Service \/ DbError \/ Hangup

Spec == Init /\ [][Next]_vars

\* The publisher's and the service's loops keep running; the broker comes back.
FairSpec == Spec /\ WF_vars(Publisher) /\ WF_vars(Service)

-----------------------------------------------------------------------------
(* Properties.                                                             *)

\* Types.
TypeOK ==
    /\ RowTypeOK
    /\ completed \in 0..Len(Ohm) /\ gaps \subseteq Samples
    /\ events \in Seq(Cycles) /\ mail \in Seq(Cycles)
    /\ pub \in 0..Down /\ retained \in 0..completed
    /\ job.at \in {"idle", "fetch", "upsert", "alert"}
    /\ job.at = "idle" <=> job.n = 0
    /\ \A n \in Cycles : features[n].rows \subseteq Window(n) /\ features[n].base < n
    /\ finished \subseteq Cycles

\* cycle_features.r0_jump_pct is the jump "vs. previous cycle": no cycle that
\* has features lies between a cycle and the baseline of its jump.  Events that
\* are lost, delivered twice or handled before the rows are flushed, and
\* failing statements, do not break this; a publish error does, because it
\* changes the order of events.
BaselineIsNearest ==
    pubErrors = 0 =>
        \A n \in Cycles : features[n].base > 0 =>
            /\ features[features[n].base].r0
            /\ \A m \in (features[n].base + 1)..(n - 1) : features[m] = NoRow

\* Alerts and features agree (process_cycle upserts first and alerts then):
\* an alert quotes the baseline its cycle's row has, although the same event
\* may be processed again on more rows; and every row with a jump above the
\* threshold was alerted, unless a statement failed or the process stopped.
AlertsMatchFeatures ==
    /\ pubErrors = 0 => \A a \in alerts : features[a.n].base = a.base
    /\ drops + dbErrors = 0 =>
           \A n \in Cycles : Jumps(n, features[n]) =>
               \/ [n |-> n, base |-> features[n].base] \in alerts
               \/ job.at = "alert" /\ job.n = n

\* The retained event (event_publisher_loop) is what a returning analytics
\* service finds: again and again analytics is done with it, so the event that is
\* published last is eventually processed, or dropped by a failing statement,
\* whatever connections were lost in between.
LatestCycleHandled == []<>(retained \in finished \cup {0})

\* event_publisher_loop puts a failed event behind newer ones because
\* "analytics is idempotent on (experiment_id, cycle_index) so order doesn't
\* matter": once every event is handled, and all were handled on complete rows,
\* each jump is relative to the previous cycle, as cycle_features promises.
OrderDoesNotMatter ==
    (\A n \in Cycles : n \in finished /\ features[n].rows = Window(n)) =>
        \A n \in Cycles \ {1} : features[n].base = n - 1

-----------------------------------------------------------------------------
(* What the properties rest on (AnalyticsProofs).                          *)

Rows == [rows : SUBSET Samples, r0 : BOOLEAN, base : 0..Len(Ohm)]

RecordTypes ==
    /\ job \in [at : {"idle", "fetch", "upsert", "alert"}, n : 0..Len(Ohm), row : Rows]
    /\ features \in [Cycles -> Rows]
    /\ alerts \subseteq [n : Cycles, base : Cycles]
    /\ pubErrors \in Nat /\ drops \in Nat /\ dbErrors \in Nat

Computed == job.at \in {"upsert", "alert"}

\* Every event, wherever it is, is of a finished cycle.
EventsOfCycles ==
    /\ pub \in Cycles => pub <= completed
    /\ \A i \in 1..Len(events) : events[i] <= completed
    /\ \A i \in 1..Len(mail) : mail[i] <= completed
    /\ job.n <= completed

\* The step rows that are missing are of finished cycles, one of each at most.
OneGap ==
    /\ \A s \in gaps : s <= completed * L
    /\ \A n \in Cycles : \A s, t \in gaps \cap Window(n) : s = t

\* Features are computed from rows of the table, and again only from more rows.
RowsFromTable ==
    /\ \A n \in Cycles : features[n] # NoRow =>
           /\ n <= completed
           /\ features[n].rows \subseteq CycleTelemetry(n)
           /\ features[n].r0 <=> EstimatesR0(n, features[n].rows)
    /\ Computed =>
           /\ job.row.rows \subseteq CycleTelemetry(job.n)
           /\ features[job.n].rows \subseteq job.row.rows
           /\ job.row.r0 <=> EstimatesR0(job.n, job.row.rows)
           /\ job.row.base < job.n

\* An alert is due for the row that was just written.
AlertDue == job.at = "alert" => features[job.n] = job.row /\ job.row.base > 0

\* Without a publish error events are handled in the order of their cycles: no
\* row is of a later cycle than an event that is still to be handled.
EventOrder ==
    pubErrors = 0 =>
        /\ \A i \in 1..Len(events) : retained <= events[i]
        /\ \A i, j \in 1..Len(events) : i < j => events[i] <= events[j]
        /\ pub \in Cycles =>
               retained <= pub /\ \A i \in 1..Len(events) : pub <= events[i]
        /\ \A i \in 1..Len(mail) : mail[i] <= retained
        /\ \A i, j \in 1..Len(mail) : i < j => mail[i] <= mail[j]
        /\ job.n <= retained /\ \A i \in 1..Len(mail) : job.n <= mail[i]
        /\ \A m \in Cycles : features[m] # NoRow =>
               /\ m <= retained /\ \A i \in 1..Len(mail) : m <= mail[i]
               /\ job.n > 0 => m <= job.n

\* The baseline a cycle with an R0 has to have.
Baseline(n, r0) == IF r0 THEN PreviousR0(n) ELSE 0

\* Every baseline is still the nearest earlier R0.
BasesPrevious ==
    pubErrors = 0 =>
        /\ \A n \in Cycles : features[n].base = Baseline(n, features[n].r0)
        /\ Computed => job.row.base = Baseline(job.n, job.row.r0)

\* The second half of AlertsMatchFeatures.
JumpsAlerted ==
    drops + dbErrors = 0 =>
        \A n \in Cycles : Jumps(n, features[n]) =>
            \/ [n |-> n, base |-> features[n].base] \in alerts
            \/ job.at = "alert" /\ job.n = n

AnalyticsIndInv ==
    /\ RowIndInv /\ TypeOK /\ RecordTypes
    /\ EventsOfCycles /\ OneGap /\ RowsFromTable /\ AlertDue
    /\ EventOrder /\ BasesPrevious /\ JumpsAlerted

\* In every cycle each CC step comes before each CV step.
ChargesOnce ==
    \A n \in Cycles : \A s, t \in Window(n) :
        StepOf(s) = "cc" /\ StepOf(t) = "cv" => s < t

\* The first half of AlertsMatchFeatures; an R0, once estimated, stays so.
AlertsHeld ==
    pubErrors = 0 => \A a \in alerts : features[a.n].r0 /\ features[a.n].base = a.base
=============================================================================
