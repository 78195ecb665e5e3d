--------------------------- MODULE ParquetExport ---------------------------
(***************************************************************************)
(* The archive: hours of telemetry move from TimescaleDB to one parquet    *)
(* object per hour, a ledger row (parquet_exports) says which hours are    *)
(* done, and the chunks behind the cutoff are dropped.  The periodic       *)
(* service and the operator's one-shot "--now" are separate processes that *)
(* run the same pass (run_once) over the same tables and objects.          *)
(*                                                                         *)
(* An hour's rows come in batches, the unit of a cursor fetch.  Every      *)
(* await is an action.  TimescaleDB and MinIO are external: a cursor reads *)
(* the snapshot of its opening, drop_chunks waits for open cursors on its  *)
(* chunks, and an object is replaced as a whole when its sink is closed.   *)
(***************************************************************************)
EXTENDS Naturals, FiniteSets, FiniteSetsExt

CONSTANTS
    Exporters,      \* "periodic" and "now"
    AgeHours,       \* PARQUET_EXPORT_AGE_HOURS of the periodic service
    MaxHour,        \* bound: hours of telemetry
    Batches,        \* batches an hour holds when it is over
    MaxLate,        \* bound: batches that arrive when their hour is over
    MaxErrors,      \* bound: PostgresError or OSError
    MaxKills        \* bound: deaths of an exporter

ASSUME ExportAssumption ==
    /\ Exporters \subseteq {"periodic", "now"}
    /\ AgeHours \in Nat /\ MaxHour \in Nat \ {0} /\ Batches \in Nat \ {0}
    /\ MaxLate \in Nat /\ MaxErrors \in Nat /\ MaxKills \in Nat

Hours == 0..(MaxHour - 1)
OnTime == 1..Batches
AllBatches == 1..(Batches + MaxLate)

VARIABLES
    clock,        \* the hour in progress
    telemetry,    \* per hour, the batches in the hypertable
    object,       \* per hour, the batches in its parquet object
    ledger,       \* parquet_exports
    at, hour,     \* per exporter: the next await, the hour it is at
    cutoff, pending,            \* per exporter: its pass
    unread, written,            \* per exporter: its cursor and its file
    ran,          \* exporters that have started a pass
    late, errors, kills

tables == <<telemetry, object, ledger>>
passes == <<at, hour, cutoff, pending, unread, written, ran>>
faults == <<late, errors, kills>>
vars == <<clock, tables, passes, faults>>

Awaits == {"idle", "open", "fetch", "close", "record", "drop"}

\* Types; a pass never reaches beyond the hour in progress (hour_floor).
TypeOK ==
    /\ clock \in 0..MaxHour
    /\ telemetry \in [Hours -> SUBSET AllBatches]
    /\ object \in [Hours -> SUBSET AllBatches]
    /\ ledger \subseteq Hours
    /\ at \in [Exporters -> Awaits]
    /\ hour \in [Exporters -> Hours]
    /\ cutoff \in [Exporters -> 0..clock]
    /\ pending \in [Exporters -> SUBSET Hours]
    /\ unread \in [Exporters -> SUBSET AllBatches]
    /\ written \in [Exporters -> SUBSET AllBatches]
    /\ ran \subseteq Exporters

Init ==
    /\ clock = 0
    /\ telemetry = [h \in Hours |-> {}]
    /\ object = [h \in Hours |-> {}]
    /\ ledger = {}
    /\ at = [x \in Exporters |-> "idle"]
    /\ hour = [x \in Exporters |-> 0]
    /\ cutoff = [x \in Exporters |-> 0]
    /\ pending = [x \in Exporters |-> {}]
    /\ unread = [x \in Exporters |-> {}]
    /\ written = [x \in Exporters |-> {}]
    /\ ran = {} /\ late = 0 /\ errors = 0 /\ kills = 0

-----------------------------------------------------------------------------
(* The rest of the system.                                                 *)

\* An hour goes by; the ingester has stored its batches.
HourPasses ==
    /\ clock < MaxHour
    /\ clock' = clock + 1
    /\ telemetry' = [telemetry EXCEPT ![clock] = @ \cup OnTime]
    /\ UNCHANGED <<object, ledger, passes, faults>>

\* A batch the ingester still had in its buffer when the hour was over.
LateBatch(h) ==
    /\ h < clock /\ late < MaxLate
    /\ late' = late + 1
    /\ telemetry' = [telemetry EXCEPT ![h] = @ \cup {Batches + late'}]
    /\ UNCHANGED <<clock, object, ledger, passes, errors, kills>>

-----------------------------------------------------------------------------
(* run_once                                                                *)

Goto(x, label) == at' = [at EXCEPT ![x] = label]

Age(x) == IF x = "now" THEN 0 ELSE AgeHours

\* The loop over the pending hours: the next one, or the drop at the end of a
\* pass that exported something (only a pass without an error gets there).
NextHour(x, left) ==
    IF left = {} THEN Goto(x, "drop") /\ UNCHANGED hour
    ELSE Goto(x, "open") /\ hour' = [hour EXCEPT ![x] = Min(left)]

\* Mutant: only the hour before the cutoff.
FindPendingLast(h, c) == telemetry[h] # {} /\ h + 1 = c /\ h \notin ledger

\* find_pending_hours: hours with rows, before the cutoff, not in the ledger
FindPending(h, c) == telemetry[h] # {} /\ h < c /\ h \notin ledger

\* Mutant: the age is added.
CutoffAhead(x) == clock + Age(x)

\* hour_floor(now - age)
Cutoff(x) == IF clock < Age(x) THEN 0 ELSE clock - Age(x)

StartPass(x) ==
    LET c == Cutoff(x)
        found == {h \in Hours : FindPending(h, c)}
    IN  /\ at[x] = "idle" /\ found # {}
        /\ cutoff' = [cutoff EXCEPT ![x] = c]
        /\ pending' = [pending EXCEPT ![x] = found]
        /\ NextHour(x, found)
        /\ ran' = ran \cup {x}
        /\ UNCHANGED <<clock, tables, unread, written, faults>>

\* export_hour: a transaction and its cursor
Open(x) ==
    /\ at[x] = "open" /\ Goto(x, "fetch")
    /\ unread' = [unread EXCEPT ![x] = telemetry[hour[x]]]
    /\ written' = [written EXCEPT ![x] = {}]
    /\ UNCHANGED <<clock, tables, hour, cutoff, pending, ran, faults>>

\* Mutant: the hour is recorded when its rows are read, before the sink is closed.
FetchRecords(x) ==
    /\ at[x] = "fetch"
    /\ Goto(x, "close")
    /\ unread' = [unread EXCEPT ![x] = {}]
    /\ written' = [written EXCEPT ![x] = unread[x]]
    /\ ledger' = ledger \cup {hour[x]}
    /\ UNCHANGED <<clock, telemetry, object, hour, cutoff, pending, ran, faults>>

\* One batch is fetched and written to the file, or the cursor is at its end
\* and the transaction commits.
Fetch(x) ==
    /\ at[x] = "fetch"
    /\ IF unread[x] = {}
       THEN Goto(x, "close") /\ UNCHANGED <<unread, written>>
       ELSE LET b == Min(unread[x])
            IN  /\ unread' = [unread EXCEPT ![x] = @ \ {b}]
                /\ written' = [written EXCEPT ![x] = @ \cup {b}]
                /\ UNCHANGED at
    /\ UNCHANGED <<clock, tables, hour, cutoff, pending, ran, faults>>

\* Closing the sink replaces the object; without rows there is no sink.
CloseSink(x) ==
    object' = IF written[x] = {} THEN object
              ELSE [object EXCEPT ![hour[x]] = written[x]]

Close(x) ==
    /\ at[x] = "close" /\ Goto(x, "record")
    /\ CloseSink(x)
    /\ UNCHANGED <<clock, telemetry, ledger, hour, cutoff, pending, unread,
                   written, ran, faults>>

\* record_export, also for an hour that turned out empty
Record(x) ==
    /\ at[x] = "record"
    /\ ledger' = ledger \cup {hour[x]}
    /\ pending' = [pending EXCEPT ![x] = @ \ {hour[x]}]
    /\ NextHour(x, pending'[x])
    /\ UNCHANGED <<clock, telemetry, object, cutoff, unread, written, ran, faults>>

\* drop_exported_chunks: everything before the cutoff of this pass
Dropped(x) == {h \in Hours : h < cutoff[x]}

\* drop_chunks waits while a cursor holds one of the chunks.
Drop(x) ==
    /\ at[x] = "drop" /\ Goto(x, "idle")
    /\ \A y \in Exporters : at[y] = "fetch" => hour[y] \notin Dropped(x)
    /\ telemetry' = [h \in Hours |-> IF h \in Dropped(x) THEN {} ELSE telemetry[h]]
    /\ UNCHANGED <<clock, object, ledger, hour, cutoff, pending, unread, written,
                   ran, faults>>

-----------------------------------------------------------------------------
(* Failures.                                                               *)

\* Mutant: an error skips the hour and the pass goes on to the drop.
GiveUpHour(x) ==
    /\ pending' = [pending EXCEPT ![x] = @ \ {hour[x]}]
    /\ NextHour(x, pending'[x])

\* The pass stops where it is; nothing is dropped.
GiveUp(x) == Goto(x, "idle") /\ UNCHANGED <<hour, pending>>

\* PostgresError or OSError at an await of export_hour or at the drop; Ctrl-C of
\* "--now" cancels its task and ends the pass in the same way.  While the cursor
\* is open, "finally" closes writer and sink on what was fetched so
\* far; an error of the sink leaves the object alone; the INSERT may have taken
\* effect.
Error(x) ==
    /\ at[x] # "idle" /\ errors < MaxErrors
    /\ errors' = errors + 1
    /\ GiveUp(x)
    /\ IF at[x] = "fetch" THEN CloseSink(x) ELSE UNCHANGED object
    /\ \/ UNCHANGED ledger
       \/ at[x] = "record" /\ ledger' = ledger \cup {hour[x]}
    /\ UNCHANGED <<clock, telemetry, cutoff, unread, written, ran, late, kills>>

\* The process dies: an open sink never replaces its object.
Kill(x) ==
    /\ at[x] # "idle" /\ kills < MaxKills
    /\ kills' = kills + 1
    /\ Goto(x, "idle")
    /\ UNCHANGED <<clock, tables, hour, cutoff, pending, unread, written, ran, late, errors>>

Continue(x) == Open(x) \/ Fetch(x) \/ Close(x) \/ Record(x) \/ Drop(x)

Next == \/ HourPasses
        \/ \E h \in Hours : LateBatch(h)
        \/ \E x \in Exporters : StartPass(x) \/ Continue(x) \/ Error(x) \/ Kill(x)

Spec == Init /\ [][Next]_vars

\* The periodic service starts a pass every period and is restarted when it
\* dies; a process that runs makes progress.  Nobody has to run "--now".
FairSpec == /\ Spec
            /\ WF_vars(StartPass("periodic"))
            /\ \A x \in Exporters : WF_vars(Continue(x))

-----------------------------------------------------------------------------
(* Properties.                                                             *)

\* Both exporters have run, and one of them failed or met late rows.  Then the
\* slower one may replace a complete object by what it could read itself.
Interfered == errors + late > 0 /\ ran = {"periodic", "now"}

\* An hour in the ledger has all its rows in its object, whatever the exporters
\* were killed at and however their passes overlap, and for one exporter alone
\* whatever fails: parquet_exports is "consistent with what actually landed in
\* MinIO" (run_once).
LedgerMatchesArchive ==
    ~Interfered => \A h \in ledger : OnTime \subseteq object[h]

\* No row of a finished hour disappears: it is in the hypertable or in the
\* archive, although drop_chunks does not look at the ledger (run_once,
\* drop_exported_chunks).
RowsKept ==
    ~Interfered =>
        \A h \in Hours : h < clock => OnTime \subseteq telemetry[h] \cup object[h]

\* Every hour that is old enough is archived in the end, after any number of
\* failed or killed passes (_run).
EveryHourArchived ==
    \A h \in Hours : h + AgeHours < clock ~> h \in ledger

\* main.py _run_now: "Concurrent with the periodic loop is safe - both paths
\* land on the same ON CONFLICT DO NOTHING insert and rewrite identical S3
\* objects under the same hive path".
ConcurrentExportSafe ==
    \A h \in Hours : h < clock => OnTime \subseteq telemetry[h] \cup object[h]
-----------------------------------------------------------------------------
(* What the properties rest on (ParquetExportProofs).                      *)

Archived(h) == OnTime \subseteq object[h]

InHour(x) == at[x] \in {"open", "fetch", "close", "record"}

\* A pass only has hours before its cutoff in hand, and drops when none is left.
PassBounds ==
    \A x \in Exporters :
        /\ at[x] # "idle" => x \in ran /\ \A h \in pending[x] : h < cutoff[x]
        /\ InHour(x) => hour[x] \in pending[x]
        /\ at[x] = "drop" => pending[x] = {}

\* No more late batches than AllBatches has numbers for.
Counted == late \in 0..MaxLate /\ errors \in Nat /\ kills \in Nat

\* A finished hour is complete in the hypertable or in the archive.
HoursComplete == \A h \in Hours : h < clock => OnTime \subseteq telemetry[h] \/ Archived(h)

\* What an exporter has read of its hour is all of it, or nothing because
\* another one has archived and dropped it; what it leaves behind is archived.
ReadsComplete ==
    \A x \in Exporters :
        /\ at[x] = "fetch" =>
              \/ OnTime \subseteq unread[x] \cup written[x]
              \/ unread[x] = {} /\ written[x] = {} /\ Archived(hour[x])
        /\ at[x] = "close" =>
              OnTime \subseteq written[x] \/ (written[x] = {} /\ Archived(hour[x]))
        /\ at[x] = "record" => Archived(hour[x])
        /\ at[x] # "idle" =>
              \A h \in Hours : h < cutoff[x] => h \in pending[x] \/ Archived(h)

\* Without late batches and errors an hour is there as a whole or not at all,
\* wherever it is.
WholeHours ==
    errors = 0 /\ late = 0 =>
        /\ \A h \in Hours : telemetry[h] \in {{}, OnTime} /\ object[h] \in {{}, OnTime}
        /\ \A x \in Exporters :
              /\ at[x] = "fetch" => unread[x] \cup written[x] \in {{}, OnTime}
              /\ at[x] = "close" => written[x] \in {{}, OnTime}

\* As long as one exporter alone has run, only hours in the ledger are missing
\* in the hypertable, and it never exports one of those again.
AloneExact ==
    ran # {"periodic", "now"} =>
        /\ \A h \in Hours : h < clock => OnTime \subseteq telemetry[h] \/ h \in ledger
        /\ \A x \in Exporters : at[x] # "idle" =>
              /\ pending[x] \cap ledger = {}
              /\ \A h \in Hours : h < cutoff[x] => h \in pending[x] \/ h \in ledger

ExportIndInv ==
    /\ TypeOK /\ PassBounds /\ Counted
    /\ ~Interfered =>
          LedgerMatchesArchive /\ HoursComplete /\ ReadsComplete /\ WholeHours /\ AloneExact
=============================================================================
