------------------------------ MODULE Ingester ------------------------------
(***************************************************************************)
(* The row path of telemetry: the cycler publishes a sample of a channel   *)
(* with QoS 0, the ingester's only task receives it, buffers its row and   *)
(* writes the buffer with COPY once it is full or old.  Connection losses, *)
(* failing COPYs and lost samples are actions.                             *)
(*                                                                         *)
(* A sample is its number, which is also its time.  How rows get their     *)
(* context is ContextPipeline's subject.                                   *)
(***************************************************************************)
EXTENDS Naturals, Sequences, SequencesExt

CONSTANTS
    MaxSamples,      \* bound: samples of the channel
    MaxInbox,        \* bound: samples on their way (aiomqtt's queue has none)
    BatchMax,        \* BATCH_MAX
    HardCap,         \* BUFFER_HARD_CAP
    MaxFaults        \* bound: faults of all kinds

ASSUME IngesterAssumption ==
    /\ MaxSamples \in Nat /\ MaxInbox \in Nat /\ MaxFaults \in Nat
    /\ BatchMax \in Nat \ {0} /\ HardCap \in Nat /\ HardCap >= BatchMax

VARIABLES
    sent,       \* samples the channel has produced
    online,     \* the ingester is subscribed
    inbox,      \* samples on their way to it
    buffer,     \* main's deque
    batch,      \* the rows flush has in hand; it waits for COPY while not empty
    stored,     \* per sample, how many rows of the telemetry table hold it
    rowFaults   \* faults of the row path so far

rowVars == <<sent, online, inbox, buffer, batch, stored, rowFaults>>

Samples == 1..MaxSamples

RowInit ==
    /\ sent = 0 /\ online = TRUE
    /\ inbox = <<>> /\ buffer = <<>> /\ batch = <<>>
    /\ stored = [s \in Samples |-> 0]
    /\ rowFaults = 0

\* One more fault of the row path.
RowFault == rowFaults < MaxFaults /\ rowFaults' = rowFaults + 1

-----------------------------------------------------------------------------
(* telemetry_publisher of the cycler.                                      *)

\* A sample is published; QoS 0 reaches whoever is subscribed.
Sample ==
    /\ sent < MaxSamples /\ Len(inbox) < MaxInbox
    /\ sent' = sent + 1
    /\ inbox' = IF online THEN Append(inbox, sent + 1) ELSE inbox
    /\ UNCHANGED <<online, buffer, batch, stored, rowFaults>>

\* The publisher is reconnecting (MqttError, 2 s): the sample is not sent.
SampleLost ==
    /\ sent < MaxSamples
    /\ sent' = sent + 1
    /\ RowFault
    /\ UNCHANGED <<online, inbox, buffer, batch, stored>>

-----------------------------------------------------------------------------
(* main of the ingester.                                                   *)

\* Subscribe with a new pool, client and buffer.
Subscribe ==
    /\ ~online /\ online' = TRUE
    /\ UNCHANGED <<sent, inbox, buffer, batch, stored, rowFaults>>

\* Append to the deque, dropping its oldest row at the hard cap.
Buffered(row) == Append(IF Len(buffer) >= HardCap THEN Tail(buffer) ELSE buffer, row)

\* Mutant: only the age of the buffer is looked at.
FlushDueByAge(rows, aged) == aged

\* The buffer is full, or its last flush is BATCH_MAX_AGE_S ago.
FlushDue(rows, aged) == Len(rows) >= BatchMax \/ aged

\* One message: its row is buffered and, when due, the buffer becomes the
\* batch of a flush.  The age is only looked at here, when a message arrives,
\* and any time may have passed since the last one.
Receive(aged) ==
    /\ online /\ batch = <<>> /\ inbox # <<>>
    /\ inbox' = Tail(inbox)
    /\ LET rows == Buffered(Head(inbox))
       IN  IF FlushDue(rows, aged)
           THEN batch' = rows /\ buffer' = <<>>
           ELSE buffer' = rows /\ UNCHANGED batch
    /\ UNCHANGED <<sent, online, stored, rowFaults>>

\* COPY is one statement: all rows of the batch or none.
Copied == [s \in Samples |-> IF Contains(batch, s) THEN stored[s] + 1 ELSE stored[s]]

FlushDone ==
    /\ batch # <<>> /\ batch' = <<>>
    /\ stored' = Copied
    /\ UNCHANGED <<sent, online, inbox, buffer, rowFaults>>

\* Leaving the connection's scope loses the client's queue and the buffer.
Reconnecting == online' = FALSE /\ inbox' = <<>> /\ buffer' = <<>> /\ batch' = <<>>

\* Mutant: the batch of a failed flush is kept for the next connection.
FlushFailsKeeping ==
    /\ batch # <<>> /\ RowFault
    /\ stored' \in {stored, Copied}
    /\ online' = FALSE /\ inbox' = <<>> /\ batch' = <<>>
    /\ buffer' = batch
    /\ UNCHANGED sent

\* PostgresError or OSError from COPY: the server may have committed before the
\* connection broke.
FlushFails ==
    /\ batch # <<>> /\ RowFault
    /\ stored' \in {stored, Copied}
    /\ Reconnecting
    /\ UNCHANGED sent

\* MqttError while it waits for a message, or the process is restarted.
Disconnect ==
    /\ online /\ batch = <<>> /\ RowFault
    /\ Reconnecting
    /\ UNCHANGED <<sent, stored>>

RowNext == \/ Sample \/ SampleLost
           \/ Subscribe \/ (\E aged \in BOOLEAN : Receive(aged)) \/ FlushDone
           \/ FlushFails \/ Disconnect

RowSpec == RowInit /\ [][RowNext]_rowVars

-----------------------------------------------------------------------------
(* Properties.                                                             *)

\* Types.  The buffer never reaches BATCH_MAX between two messages, so
\* BUFFER_HARD_CAP is never reached either and main's "drops oldest rows on
\* sustained back-pressure" does not happen: nothing is received while COPY is
\* awaited, and the backlog grows in the client's queue.
RowTypeOK ==
    /\ sent \in 0..MaxSamples /\ online \in BOOLEAN
    /\ inbox \in Seq(Samples) /\ Len(inbox) <= MaxInbox
    /\ buffer \in Seq(Samples) /\ Len(buffer) < BatchMax
    /\ batch \in Seq(Samples) /\ Len(batch) <= BatchMax
    /\ stored \in [Samples -> Nat] /\ rowFaults \in 0..MaxFaults

\* The rows that are not in the table yet, oldest first.
InFlight == batch \o buffer \o inbox

\* "At-most-once delivery" (ingester main): a sample is stored at most once and
\* is never both stored and still on its way, whatever flush fails after its
\* commit and whatever connection is lost; and without a fault none is missing
\* and none overtakes another.
RowsStoredOnce ==
    /\ \A s \in Samples : stored[s] <= 1 /\ (stored[s] = 1 => ~Contains(InFlight, s))
    /\ \A i, j \in DOMAIN InFlight : i < j => InFlight[i] < InFlight[j]
    /\ rowFaults = 0 =>
           InFlight = [i \in 1..Len(InFlight) |-> sent - Len(InFlight) + i]
           /\ \A s \in 1..sent : stored[s] = 1 \/ Contains(InFlight, s)

-----------------------------------------------------------------------------
(* What the properties rest on (AnalyticsProofs).                          *)

\* What n samples, the table st and the sequence f of the rows in flight say of
\* each other: position by position, with nothing stored or on its way that was
\* not sent.
RowFacts(f, n, st, faults) ==
    /\ \A s \in Samples : st[s] <= 1 /\ (st[s] > 0 => s <= n)
    /\ \A i \in 1..Len(f) : f[i] <= n /\ st[f[i]] = 0
    /\ \A i, j \in 1..Len(f) : i < j => f[i] < f[j]
    /\ faults = 0 => /\ \A i \in 1..Len(f) : f[i] = n - Len(f) + i
                     /\ \A s \in 1..n : st[s] = 1 \/ \E i \in 1..Len(f) : f[i] = s

\* Only a fault takes the ingester offline.
OnlineUnlessFault == rowFaults = 0 => online

RowIndInv ==
    RowTypeOK /\ RowFacts(InFlight, sent, stored, rowFaults) /\ OnlineUnlessFault
=============================================================================
