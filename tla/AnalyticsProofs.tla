--------------------------- MODULE AnalyticsProofs ---------------------------
(***************************************************************************)
(* The safety properties of Ingester and Analytics, for every number of    *)
(* samples and faults, every batch size, profile and row of resistances.   *)
(***************************************************************************)
EXTENDS Analytics, SequenceTheorems, WellFoundedInduction, TLAPS

-----------------------------------------------------------------------------
(* The rows in flight.                                                     *)

\* The rows in flight as one sequence, position by position.
LEMMA InFlightFacts ==
  ASSUME RowTypeOK
  PROVE  /\ InFlight \in Seq(Samples) /\ Len(InFlight) \in Nat
         /\ DOMAIN InFlight = 1..Len(InFlight)
         /\ InFlight = batch \o (buffer \o inbox)
         /\ Len(InFlight) = Len(batch) + Len(buffer \o inbox)
         /\ \A i \in 1..Len(InFlight) : InFlight[i] \in Samples
<1>1. batch \in Seq(Samples) /\ buffer \in Seq(Samples) /\ inbox \in Seq(Samples)
  BY DEF RowTypeOK
<1>2. batch \o buffer \in Seq(Samples) /\ buffer \o inbox \in Seq(Samples)
  BY <1>1, ConcatProperties
<1>3. InFlight \in Seq(Samples)
  BY <1>1, <1>2, ConcatProperties DEF InFlight
<1>4. InFlight = batch \o (buffer \o inbox)
  BY <1>1, ConcatAssociative DEF InFlight
<1>5. Len(InFlight) = Len(batch) + Len(buffer \o inbox)
  BY <1>1, <1>2, <1>4, ConcatProperties
<1>6. DOMAIN InFlight = 1..Len(InFlight) /\ Len(InFlight) \in Nat
  BY <1>3, LenProperties
<1> QED
  BY <1>3, <1>4, <1>5, <1>6, ElementOfSeq

\* RowsStoredOnce, from the rows position by position.
LEMMA RowFactsSuffice ==
  ASSUME RowTypeOK, RowFacts(InFlight, sent, stored, rowFaults)
  PROVE  RowsStoredOnce
<1> DEFINE f == InFlight
<1>1. f \in Seq(Samples) /\ Len(f) \in Nat /\ DOMAIN f = 1..Len(f)
      /\ \A i \in 1..Len(f) : f[i] \in Samples
  BY InFlightFacts
<1>2. sent \in Nat /\ stored \in [Samples -> Nat] /\ Samples \subseteq Nat
  BY IngesterAssumption DEF RowTypeOK, Samples
<1>a. RowsStoredOnce <=>
        /\ \A s \in Samples : stored[s] <= 1 /\ (stored[s] = 1 => ~\E i \in 1..Len(f) : f[i] = s)
        /\ \A i, j \in 1..Len(f) : i < j => f[i] < f[j]
        /\ rowFaults = 0 =>
              /\ f = [i \in 1..Len(f) |-> sent - Len(f) + i]
              /\ \A s \in 1..sent : stored[s] = 1 \/ \E i \in 1..Len(f) : f[i] = s
  BY <1>1 DEF RowsStoredOnce, Contains
<1>b. RowFacts(f, sent, stored, rowFaults)
  OBVIOUS
<1> HIDE DEF f
<1>c. f = [i \in 1..Len(f) |-> f[i]]
  BY <1>1
<1>3. (\A i \in 1..Len(f) : f[i] = sent - Len(f) + i)
      => f = [i \in 1..Len(f) |-> sent - Len(f) + i]
  BY <1>1, <1>c
<1>4. \A s \in Samples : stored[s] <= 1 /\ (stored[s] = 1 => ~\E i \in 1..Len(f) : f[i] = s)
  BY <1>1, <1>2, <1>b DEF RowFacts
<1> QED
  BY <1>a, <1>b, <1>3, <1>4 DEF RowFacts

\* Initially nothing is in flight.
LEMMA RowInitInd == RowInit => RowIndInv
<1> SUFFICES ASSUME RowInit PROVE RowIndInv
  OBVIOUS
<1>1. RowTypeOK
  BY EmptySeq, IngesterAssumption DEF RowInit, RowTypeOK
<1>2. InFlight = <<>>
  <2>1. <<>> \in Seq(Samples)
    BY EmptySeq
  <2>2. <<>> \o <<>> = <<>>
    BY <2>1, ConcatEmptySeq
  <2> QED
    BY <2>2 DEF RowInit, InFlight
<1>3. RowFacts(<<>>, 0, stored, 0)
  BY EmptySeq DEF RowFacts, RowInit
<1> QED
  BY <1>1, <1>2, <1>3 DEF RowInit, RowIndInv, OnlineUnlessFault

\* The batch of a COPY was in flight: none of its rows is in the table yet.
LEMMA CopiedOnce ==
  ASSUME RowTypeOK, RowFacts(InFlight, sent, stored, rowFaults)
  PROVE  /\ Copied \in [Samples -> Nat]
         /\ \A s \in Samples : Copied[s] <= 1 /\ (Copied[s] > 0 => s <= sent)
         /\ RowFacts(buffer \o inbox, sent, Copied, rowFaults)
<1> DEFINE f == InFlight
           r == buffer \o inbox
           b == Len(batch)
<1>1. /\ f \in Seq(Samples) /\ Len(f) \in Nat /\ f = batch \o r
      /\ Len(f) = b + Len(r) /\ \A i \in 1..Len(f) : f[i] \in Samples
  BY InFlightFacts
<1>2. batch \in Seq(Samples) /\ r \in Seq(Samples) /\ b \in Nat /\ Len(r) \in Nat
  BY ConcatProperties, LenProperties DEF RowTypeOK
<1>3. /\ \A i \in 1..b : f[i] = batch[i]
      /\ \A i \in 1..Len(r) : f[b + i] = r[i]
  BY <1>1, <1>2, ConcatProperties
<1>4. sent \in Nat /\ stored \in [Samples -> Nat] /\ Samples \subseteq Nat
  BY DEF RowTypeOK, Samples
<1>5. Copied = [s \in Samples |-> IF \E i \in 1..b : batch[i] = s THEN stored[s] + 1 ELSE stored[s]]
  BY DEF Copied, Contains
<1>6. RowFacts(f, sent, stored, rowFaults)
  OBVIOUS
<1> DEFINE cp == Copied
<1> SUFFICES /\ cp \in [Samples -> Nat]
             /\ \A s \in Samples : cp[s] <= 1 /\ (cp[s] > 0 => s <= sent)
             /\ RowFacts(r, sent, cp, rowFaults)
  OBVIOUS
<1>7. cp = [s \in Samples |-> IF \E i \in 1..b : f[i] = s THEN stored[s] + 1 ELSE stored[s]]
  BY <1>3, <1>5, Zenon
<1> HIDE DEF f, r, b, cp
<1>8. \A i \in 1..b : i \in 1..Len(f)
  BY <1>1, <1>2
<1>9. cp \in [Samples -> Nat]
  BY <1>4, <1>7
<1>10. \A s \in Samples : cp[s] <= 1 /\ (cp[s] > 0 => s <= sent)
  <2> SUFFICES ASSUME NEW s \in Samples PROVE cp[s] <= 1 /\ (cp[s] > 0 => s <= sent)
    OBVIOUS
  <2>1. stored[s] \in Nat /\ stored[s] <= 1 /\ (stored[s] > 0 => s <= sent)
    BY <1>4, <1>6 DEF RowFacts
  <2>2. CASE \E i \in 1..b : f[i] = s
    <3>1. PICK i \in 1..b : f[i] = s
      BY <2>2
    <3>2. s <= sent /\ stored[s] = 0
      BY <3>1, <1>6, <1>8 DEF RowFacts
    <3> QED
      BY <3>2, <2>2, <1>7
  <2>3. CASE ~\E i \in 1..b : f[i] = s
    BY <2>1, <2>3, <1>7
  <2> QED
    BY <2>2, <2>3
<1>11. \A i \in 1..Len(r) : b + i \in 1..Len(f) /\ r[i] = f[b + i]
  BY <1>1, <1>2, <1>3
<1>12. \A i \in 1..Len(r) : r[i] <= sent /\ cp[r[i]] = 0
  <2> SUFFICES ASSUME NEW i \in 1..Len(r) PROVE r[i] <= sent /\ cp[r[i]] = 0
    OBVIOUS
  <2>1. r[i] = f[b + i] /\ f[b + i] \in Samples /\ f[b + i] <= sent /\ stored[f[b + i]] = 0
    BY <1>1, <1>6, <1>11 DEF RowFacts
  <2>2. \A j \in 1..b : f[j] < f[b + i]
    BY <1>2, <1>6, <1>8, <1>11 DEF RowFacts
  <2>3. ~\E j \in 1..b : f[j] = f[b + i]
    <3>1. f[b + i] \in Nat
      BY <2>1, <1>4
    <3>2. ~(f[b + i] < f[b + i])
      BY <3>1
    <3> QED
      BY <2>2, <3>2
  <2> QED
    BY <2>1, <2>3, <1>7
<1>13. \A i, j \in 1..Len(r) : i < j => r[i] < r[j]
  BY <1>2, <1>6, <1>11 DEF RowFacts
<1>14. ASSUME rowFaults = 0
       PROVE  /\ \A i \in 1..Len(r) : r[i] = sent - Len(r) + i
              /\ \A s \in 1..sent : cp[s] = 1 \/ \E i \in 1..Len(r) : r[i] = s
  <2>1. /\ \A i \in 1..Len(f) : f[i] = sent - Len(f) + i
        /\ \A s \in 1..sent : stored[s] = 1 \/ \E i \in 1..Len(f) : f[i] = s
    BY <1>6, <1>14 DEF RowFacts
  <2>2. ASSUME NEW i \in 1..Len(r) PROVE r[i] = sent - Len(r) + i
    <3>1. r[i] = sent - Len(f) + (b + i)
      BY <2>1, <1>11
    <3>2. Len(f) = b + Len(r) /\ b \in Nat /\ Len(r) \in Nat /\ sent \in Nat
      BY <1>1, <1>2, <1>4
    <3> QED
      BY <3>1, <3>2
  <2>3. ASSUME NEW s \in 1..sent PROVE cp[s] = 1 \/ \E i \in 1..Len(r) : r[i] = s
    <3>0. s \in Samples
      BY IngesterAssumption DEF RowTypeOK, Samples
    <3>1. CASE stored[s] = 1
      <4>1. cp[s] >= 1
        BY <3>0, <3>1, <1>7
      <4> QED
        BY <4>1, <3>0, <1>9, <1>10
    <3>2. ASSUME NEW i \in 1..Len(f), f[i] = s
          PROVE  cp[s] = 1 \/ \E k \in 1..Len(r) : r[k] = s
      <4>1. CASE i \in 1..b
        <5>1. stored[s] = 0
          BY <3>2, <1>6 DEF RowFacts
        <5> QED
          BY <5>1, <4>1, <3>0, <3>2, <1>7
      <4>2. CASE i \notin 1..b
        <5>1. i - b \in 1..Len(r) /\ b + (i - b) = i
          BY <4>2, <1>1, <1>2
        <5> QED
          BY <5>1, <3>2, <1>11
      <4> QED
        BY <4>1, <4>2
    <3> QED
      BY <2>1, <3>1, <3>2
  <2> QED
    BY <2>2, <2>3
<1> QED
  BY <1>9, <1>10, <1>12, <1>13, <1>14 DEF RowFacts

\* Receive hands rows on but changes neither their set nor their order: the
\* buffer is short of BATCH_MAX, so the hard cap drops nothing.
LEMMA ReceiveKeepsInFlight ==
  ASSUME RowTypeOK, NEW aged \in BOOLEAN, Receive(aged)
  PROVE  InFlight' = InFlight /\ RowTypeOK'
<1> DEFINE x == Head(inbox)
           rows == Append(buffer, x)
<1>1. /\ batch = <<>> /\ inbox # <<>> /\ inbox \in Seq(Samples)
      /\ buffer \in Seq(Samples) /\ Len(buffer) < BatchMax
      /\ Len(buffer) \in Nat /\ Len(inbox) \in Nat /\ Len(inbox) <= MaxInbox
  BY LenProperties DEF Receive, RowTypeOK
<1>2. Buffered(x) = rows
  BY <1>1, IngesterAssumption DEF Buffered
<1>3. x \in Samples /\ Tail(inbox) \in Seq(Samples) /\ Len(Tail(inbox)) = Len(inbox) - 1
      /\ \A i \in 1..Len(Tail(inbox)) : Tail(inbox)[i] = inbox[i + 1]
  BY <1>1, HeadTailProperties
<1>4. rows \in Seq(Samples) /\ Len(rows) = Len(buffer) + 1 /\ rows = buffer \o <<x>>
  BY <1>1, <1>3, AppendProperties, AppendIsConcat
<1>5. <<x>> \in Seq(Samples) /\ <<x>> \o Tail(inbox) = inbox
  <2>1. <<x>> \in Seq(Samples) /\ Len(<<x>>) = 1 /\ <<x>>[1] = x
    BY <1>3
  <2>2. /\ <<x>> \o Tail(inbox) \in Seq(Samples)
        /\ Len(<<x>> \o Tail(inbox)) = Len(inbox)
        /\ \A i \in 1..Len(inbox) : (<<x>> \o Tail(inbox))[i] = IF i <= 1 THEN x ELSE Tail(inbox)[i - 1]
    BY <2>1, <1>1, <1>3, ConcatProperties
  <2>3. \A i \in 1..Len(inbox) : (<<x>> \o Tail(inbox))[i] = inbox[i]
    BY <2>2, <1>1, <1>3
  <2> QED
    BY <2>1, <2>2, <2>3, <1>1, SeqEqual
<1>6. rows \o Tail(inbox) = buffer \o inbox
  BY <1>1, <1>3, <1>4, <1>5, ConcatAssociative
<1>7. <<>> \in Seq(Samples)
  BY EmptySeq
<1>8. InFlight = buffer \o inbox
  BY <1>1, ConcatEmptySeq DEF InFlight
<1>9. /\ inbox' = Tail(inbox) /\ UNCHANGED <<sent, online, stored, rowFaults>>
      /\ \/ batch' = rows /\ buffer' = <<>> 
         \/ batch' = <<>> /\ buffer' = rows /\ ~FlushDue(rows, aged)
  BY <1>1, <1>2 DEF Receive
<1> HIDE DEF rows, x
<1>10. InFlight' = InFlight
  <2>1. rows \o <<>> = rows /\ <<>> \o rows = rows
    BY <1>4, ConcatEmptySeq
  <2> QED
    BY <2>1, <1>6, <1>8, <1>9 DEF InFlight
<1>11. RowTypeOK'
  <2>1. Len(inbox') <= MaxInbox
    BY <1>1, <1>3, <1>9, IngesterAssumption
  <2>2. CASE batch' = rows /\ buffer' = <<>>
    BY <2>1, <2>2, <1>1, <1>3, <1>4, <1>7, <1>9, IngesterAssumption, EmptySeq DEF RowTypeOK
  <2>3. CASE batch' = <<>> /\ buffer' = rows /\ ~FlushDue(rows, aged)
    BY <2>1, <2>3, <1>1, <1>3, <1>4, <1>7, <1>9, IngesterAssumption, EmptySeq
       DEF RowTypeOK, FlushDue
  <2> QED
    BY <1>9, <2>2, <2>3
<1> QED
  BY <1>10, <1>11

\* A published sample goes to the end of the rows in flight.
LEMMA SampleInd == ASSUME RowIndInv, Sample PROVE RowIndInv'
<1> DEFINE f == InFlight
<1>0. RowTypeOK
  BY DEF RowIndInv
<1>1. /\ f \in Seq(Samples) /\ Len(f) \in Nat /\ \A i \in 1..Len(f) : f[i] \in Samples
      /\ RowFacts(f, sent, stored, rowFaults) /\ (rowFaults = 0 => online)
  BY <1>0, InFlightFacts DEF RowIndInv, OnlineUnlessFault
<1>2. /\ sent \in Nat /\ sent + 1 \in Samples /\ sent' = sent + 1 /\ Samples \subseteq Nat
      /\ UNCHANGED <<online, buffer, batch, stored, rowFaults>>
      /\ stored \in [Samples -> Nat]
  BY <1>0, IngesterAssumption DEF RowTypeOK, Sample, Samples
<1>3. RowTypeOK'
  <2>1. inbox' \in Seq(Samples) /\ Len(inbox') <= MaxInbox
    <3>1. CASE online
      BY <3>1, <1>0, <1>2, AppendProperties, LenProperties, IngesterAssumption DEF RowTypeOK, Sample
    <3>2. CASE ~online
      BY <3>2, <1>0 DEF RowTypeOK, Sample
    <3> QED
      BY <3>1, <3>2
  <2>2. sent' \in 0..MaxSamples
    BY <1>2, IngesterAssumption DEF Sample
  <2> QED
    BY <2>1, <2>2, <1>0, <1>2 DEF RowTypeOK
<1>4. CASE online
  <2>1. InFlight' = Append(f, sent + 1)
    <3>1. inbox' = Append(inbox, sent + 1)
      BY <1>4 DEF Sample
    <3>2. /\ batch \in Seq(Samples) /\ buffer \in Seq(Samples) /\ inbox \in Seq(Samples)
          /\ batch \o buffer \in Seq(Samples) /\ <<sent + 1>> \in Seq(Samples)
      BY <1>0, <1>2, ConcatProperties DEF RowTypeOK
    <3>3. inbox' = inbox \o <<sent + 1>>
      BY <3>1, <3>2, <1>2, AppendIsConcat
    <3>4. (batch \o buffer) \o (inbox \o <<sent + 1>>) = ((batch \o buffer) \o inbox) \o <<sent + 1>>
      BY <3>2, ConcatAssociative
    <3>5. Append(f, sent + 1) = f \o <<sent + 1>>
      BY <1>1, <1>2, AppendIsConcat
    <3> QED
      BY <3>3, <3>4, <3>5, <1>2 DEF InFlight
  <2> DEFINE g == Append(f, sent + 1)
  <2>2. /\ g \in Seq(Samples) /\ Len(g) = Len(f) + 1 /\ g[Len(f) + 1] = sent + 1
        /\ \A i \in 1..Len(f) : g[i] = f[i]
    BY <1>1, <1>2, AppendProperties
  <2> HIDE DEF f, g
  <2>3. \A i \in 1..Len(f) : f[i] <= sent /\ stored[f[i]] = 0 /\ f[i] \in Nat
    BY <1>1, <1>2 DEF RowFacts
  <2>4. stored[sent + 1] = 0
    BY <1>1, <1>2 DEF RowFacts
  <2>5. \A s \in Samples : stored[s] <= 1 /\ (stored[s] > 0 => s <= sent + 1)
    BY <1>1, <1>2 DEF RowFacts
  <2>6. \A i \in 1..Len(g) : g[i] <= sent + 1 /\ stored[g[i]] = 0
    BY <2>2, <2>3, <2>4, <1>1, <1>2
  <2>7. \A i, j \in 1..Len(g) : i < j => g[i] < g[j]
    <3> SUFFICES ASSUME NEW i \in 1..Len(g), NEW j \in 1..Len(g), i < j PROVE g[i] < g[j]
      OBVIOUS
    <3>1. i \in 1..Len(f) /\ g[i] = f[i]
      BY <2>2, <1>1
    <3>2. CASE j = Len(f) + 1
      BY <3>1, <3>2, <2>2, <2>3, <1>2
    <3>3. CASE j # Len(f) + 1
      <4>1. j \in 1..Len(f) /\ g[j] = f[j]
        BY <3>3, <2>2, <1>1
      <4> QED
        BY <4>1, <3>1, <1>1 DEF RowFacts
    <3> QED
      BY <3>2, <3>3
  <2>8. ASSUME rowFaults = 0
        PROVE  /\ \A i \in 1..Len(g) : g[i] = (sent + 1) - Len(g) + i
               /\ \A s \in 1..(sent + 1) : stored[s] = 1 \/ \E i \in 1..Len(g) : g[i] = s
    <3>1. /\ \A i \in 1..Len(f) : f[i] = sent - Len(f) + i
          /\ \A s \in 1..sent : stored[s] = 1 \/ \E i \in 1..Len(f) : f[i] = s
      BY <1>1, <2>8 DEF RowFacts
    <3>2. ASSUME NEW i \in 1..Len(g) PROVE g[i] = (sent + 1) - Len(g) + i
      <4>1. CASE i = Len(f) + 1
        BY <4>1, <2>2, <1>1, <1>2
      <4>2. CASE i # Len(f) + 1
        <5>1. i \in 1..Len(f)
          BY <4>2, <2>2, <1>1
        <5> QED
          BY <5>1, <3>1, <2>2, <1>1, <1>2
      <4> QED
        BY <4>1, <4>2
    <3>3. ASSUME NEW s \in 1..(sent + 1) PROVE stored[s] = 1 \/ \E i \in 1..Len(g) : g[i] = s
      <4>1. CASE s = sent + 1
        BY <4>1, <2>2, <1>1
      <4>2. CASE s # sent + 1
        <5>1. s \in 1..sent
          BY <4>2, <1>2
        <5>2. \A i \in 1..Len(f) : i \in 1..Len(g)
          BY <2>2, <1>1
        <5> QED
          BY <5>1, <5>2, <3>1, <2>2
      <4> QED
        BY <4>1, <4>2
    <3> QED
      BY <3>2, <3>3
  <2>9. RowFacts(g, sent + 1, stored, rowFaults)
    BY <2>5, <2>6, <2>7, <2>8 DEF RowFacts
  <2>10. RowFacts(InFlight', sent', stored', rowFaults')
    BY <2>9, <2>1, <1>2 DEF g
  <2> QED
    BY <2>10, <1>1, <1>2, <1>3 DEF RowIndInv, OnlineUnlessFault
<1>5. CASE ~online
  <2>1. InFlight' = f /\ rowFaults # 0
    BY <1>1, <1>2, <1>5 DEF Sample, InFlight
  <2>2. RowFacts(f, sent + 1, stored, rowFaults)
    <3> HIDE DEF f
    <3>1. \A s \in Samples : stored[s] <= 1 /\ (stored[s] > 0 => s <= sent + 1)
      BY <1>1, <1>2 DEF RowFacts
    <3>2. \A i \in 1..Len(f) : f[i] <= sent + 1 /\ stored[f[i]] = 0
      <4>1. \A i \in 1..Len(f) : f[i] \in Nat /\ f[i] <= sent /\ stored[f[i]] = 0
        BY <1>1, <1>2 DEF RowFacts
      <4> QED
        BY <4>1, <1>2
    <3> QED
      BY <3>1, <3>2, <2>1, <1>1 DEF RowFacts
  <2>3. RowFacts(InFlight', sent', stored', rowFaults')
    BY <2>1, <2>2, <1>2
  <2> QED
    BY <2>3, <1>1, <1>2, <1>3 DEF RowIndInv, OnlineUnlessFault
<1> QED
  BY <1>4, <1>5

\* A fault that leaves nothing in flight, with the batch stored or not.
LEMMA AllLost ==
  ASSUME RowIndInv, RowFault, inbox' = <<>>, buffer' = <<>>, batch' = <<>>,
         sent' = sent, online' \in BOOLEAN, stored' \in {stored, Copied}
  PROVE  RowIndInv'
<1>0. RowTypeOK /\ RowFacts(InFlight, sent, stored, rowFaults)
  BY DEF RowIndInv
<1>1. /\ stored' \in [Samples -> Nat]
      /\ \A s \in Samples : stored'[s] <= 1 /\ (stored'[s] > 0 => s <= sent)
  <2>1. CASE stored' = stored
    BY <2>1, <1>0 DEF RowTypeOK, RowFacts
  <2>2. CASE stored' = Copied
    BY <2>2, <1>0, CopiedOnce
  <2> QED
    BY <2>1, <2>2
<1>2. rowFaults' \in 0..MaxFaults /\ rowFaults' # 0
  BY <1>0, IngesterAssumption DEF RowFault, RowTypeOK
<1>3. RowTypeOK'
  BY <1>0, <1>1, <1>2, EmptySeq, IngesterAssumption DEF RowTypeOK
<1>4. InFlight' = <<>>
  <2>1. <<>> \in Seq(Samples)
    BY EmptySeq
  <2>2. <<>> \o <<>> = <<>>
    BY <2>1, ConcatEmptySeq
  <2> QED
    BY <2>2 DEF InFlight
<1>5. RowFacts(<<>>, sent, stored', rowFaults')
  BY <1>1, <1>2, EmptySeq DEF RowFacts
<1> QED
  BY <1>2, <1>3, <1>4, <1>5 DEF RowIndInv, OnlineUnlessFault

\* The row path keeps its inductive invariant.
LEMMA RowNextInd == RowIndInv /\ [RowNext]_rowVars => RowIndInv'
<1> SUFFICES ASSUME RowIndInv, [RowNext]_rowVars PROVE RowIndInv'
  OBVIOUS
<1>0. RowTypeOK /\ RowFacts(InFlight, sent, stored, rowFaults) /\ (rowFaults = 0 => online)
  BY DEF RowIndInv, OnlineUnlessFault
<1>1. CASE Sample
  BY <1>1, SampleInd
<1>2. CASE SampleLost
  <2> DEFINE f == InFlight
  <2>1. /\ sent \in Nat /\ sent' = sent + 1 /\ sent' \in 0..MaxSamples
        /\ rowFaults' # 0 /\ rowFaults' \in 0..MaxFaults /\ stored \in [Samples -> Nat]
        /\ UNCHANGED <<online, inbox, buffer, batch, stored>> /\ Samples \subseteq Nat
    BY <1>0, <1>2, IngesterAssumption DEF SampleLost, RowFault, RowTypeOK, Samples
  <2>2. RowTypeOK' /\ InFlight' = f
    BY <1>0, <2>1 DEF RowTypeOK, InFlight
  <2>3. Len(f) \in Nat /\ \A i \in 1..Len(f) : f[i] \in Nat
    BY <1>0, <2>1, InFlightFacts
  <2>4. RowFacts(f, sent, stored, rowFaults)
    BY <1>0
  <2> HIDE DEF f
  <2>5. \A s \in Samples : stored[s] <= 1 /\ (stored[s] > 0 => s <= sent + 1)
    BY <2>1, <2>4 DEF RowFacts
  <2>6. \A i \in 1..Len(f) : f[i] <= sent + 1 /\ stored[f[i]] = 0
    <3>1. \A i \in 1..Len(f) : f[i] <= sent /\ stored[f[i]] = 0
      BY <2>4 DEF RowFacts
    <3> QED
      BY <3>1, <2>1, <2>3
  <2>7. RowFacts(f, sent + 1, stored, rowFaults')
    BY <2>1, <2>4, <2>5, <2>6 DEF RowFacts
  <2> QED
    BY <2>1, <2>2, <2>7 DEF RowIndInv, OnlineUnlessFault
<1>3. CASE Subscribe
  BY <1>0, <1>3 DEF Subscribe, RowIndInv, RowTypeOK, InFlight, OnlineUnlessFault
<1>4. ASSUME NEW aged \in BOOLEAN, Receive(aged) PROVE RowIndInv'
  <2>1. InFlight' = InFlight /\ RowTypeOK'
    BY <1>0, <1>4, ReceiveKeepsInFlight
  <2>2. UNCHANGED <<sent, online, stored, rowFaults>>
    BY <1>4 DEF Receive
  <2> QED
    BY <1>0, <2>1, <2>2 DEF RowIndInv, OnlineUnlessFault
<1>5. CASE FlushDone
  <2>1. /\ Copied \in [Samples -> Nat]
        /\ RowFacts(buffer \o inbox, sent, Copied, rowFaults)
    BY <1>0, CopiedOnce
  <2>2. InFlight' = buffer \o inbox
    <3>1. <<>> \o buffer = buffer
      BY <1>0, ConcatEmptySeq DEF RowTypeOK
    <3> QED
      BY <1>5, <3>1 DEF FlushDone, InFlight
  <2>3. RowTypeOK'
    BY <1>0, <1>5, <2>1, EmptySeq, IngesterAssumption DEF FlushDone, RowTypeOK
  <2> QED
    BY <1>0, <1>5, <2>1, <2>2, <2>3 DEF FlushDone, RowIndInv, OnlineUnlessFault
<1>6. CASE FlushFails
  BY <1>6, AllLost DEF FlushFails, Reconnecting
<1>7. CASE Disconnect
  BY <1>7, AllLost DEF Disconnect, Reconnecting
<1>8. CASE UNCHANGED rowVars
  BY <1>0, <1>8 DEF rowVars, RowIndInv, RowTypeOK, InFlight, OnlineUnlessFault
<1> QED
  BY <1>1, <1>2, <1>3, <1>4, <1>5, <1>6, <1>7, <1>8 DEF RowNext

\* "At-most-once delivery" of the ingester (main): no sample is stored twice,
\* none is stored and still on its way, and without faults none is missing and
\* none overtakes another; for every batch size, inbox and number of faults.
THEOREM IngesterStoresOnce == RowSpec => []RowsStoredOnce
<1>1. RowIndInv => RowsStoredOnce
  BY RowFactsSuffice DEF RowIndInv
<1> QED
  BY <1>1, RowInitInd, RowNextInd, PTL DEF RowSpec

-----------------------------------------------------------------------------
(* Facts about the operators of Analytics.                                 *)

\* A non-empty set of naturals has a least element, which Min is.
LEMMA MinFacts ==
  ASSUME NEW T \in SUBSET Nat, T # {}
  PROVE  Min(T) \in T /\ \A y \in T : Min(T) <= y
<1>1. IsWellFoundedOn(OpToRel(<, Nat), Nat)
  BY NatLessThanWellFounded
<1>2. PICK x \in T : \A y \in T : ~(<<y, x>> \in OpToRel(<, Nat))
  BY <1>1, WFMin
<1>3. \A y \in T : ~(y < x)
  BY <1>2 DEF OpToRel
<1>4. \A y \in T : x <= y
  BY <1>3
<1> QED
  BY <1>4 DEF Min

\* A non-empty bounded set of naturals has a greatest element, which Max is.
LEMMA MaxFacts ==
  ASSUME NEW b \in Nat, NEW T \in SUBSET (0..b), T # {}
  PROVE  Max(T) \in T /\ \A y \in T : y <= Max(T)
<1> DEFINE D == {d \in 0..b : b - d \in T}
<1>1. D \in SUBSET Nat /\ D # {}
  <2>1. PICK y \in T : TRUE
    OBVIOUS
  <2>2. b - y \in 0..b /\ b - (b - y) = y
    BY <2>1
  <2>3. b - y \in D
    BY <2>1, <2>2
  <2>4. D \in SUBSET Nat
    OBVIOUS
  <2> HIDE DEF D
  <2> QED
    BY <2>3, <2>4
<1>2. Min(D) \in D /\ \A d \in D : Min(D) <= d
  BY <1>1, MinFacts
<1> DEFINE x == b - Min(D)
<1>3. x \in T /\ \A y \in T : y <= x
  <2>1. x \in T
    BY <1>2
  <2>2. ASSUME NEW y \in T PROVE y <= x
    <3>1. b - y \in 0..b /\ b - (b - y) = y
      OBVIOUS
    <3>2. b - y \in D
      BY <3>1
    <3>3. Min(D) <= b - y /\ Min(D) \in 0..b
      BY <3>2, <1>2
    <3> QED
      BY <3>3
  <2> QED
    BY <2>1, <2>2
<1> HIDE DEF D, x
<1>4. \A y \in T : x >= y
  BY <1>3
<1>5. Max(T) \in T /\ \A y \in T : Max(T) >= y
  BY <1>3, <1>4 DEF Max
<1> QED
  BY <1>5

\* Multiplication by the length of a cycle keeps order.
LEMMA TimesMonotone ==
  ASSUME NEW a \in Nat, NEW b \in Nat, NEW l \in Nat, a <= b
  PROVE  a * l <= b * l
  OBVIOUS

\* The constants.
LEMMA ConstantFacts ==
  /\ L \in Nat /\ L > 1 /\ Len(Ohm) \in Nat /\ MaxSamples \in Nat
  /\ L * Len(Ohm) <= MaxSamples /\ Cycles = 1..Len(Ohm)
  /\ Ohm \in [Cycles -> Nat]
<1>1. Profile \in Seq(STRING) /\ L > 1 /\ Ohm \in Seq(Nat) /\ MaxSamples >= L * Len(Ohm)
  BY AnalyticsAssumption
<1>2. L \in Nat /\ Len(Ohm) \in Nat /\ Ohm \in [1..Len(Ohm) -> Nat]
  BY <1>1, LenProperties DEF L
<1>3. L * Len(Ohm) \in Nat
  BY <1>2
<1> QED
  BY <1>1, <1>2, <1>3, IngesterAssumption DEF Cycles

\* The samples of a cycle are samples, more than one, and those of different
\* cycles are apart.
LEMMA WindowFacts ==
  ASSUME NEW n \in Cycles
  PROVE  /\ Window(n) \subseteq Samples
         /\ \A s \in Window(n) : s > (n - 1) * L /\ s <= n * L
         /\ (n - 1) * L + 1 \in Window(n) /\ (n - 1) * L + 2 \in Window(n)
         /\ (n - 1) * L \in Nat /\ n * L \in Nat
<1> USE ConstantFacts
<1>1. n \in Nat /\ n - 1 \in Nat /\ n <= Len(Ohm)
  OBVIOUS
<1>2. n * L <= Len(Ohm) * L
  BY <1>1, TimesMonotone
<1>3. (n - 1) * L \in Nat /\ n * L \in Nat /\ Len(Ohm) * L \in Nat
  BY <1>1
<1>4. n * L = (n - 1) * L + L /\ Len(Ohm) * L = L * Len(Ohm)
  BY <1>1
<1> DEFINE x == (n - 1) * L
           y == n * L
           z == Len(Ohm) * L
<1>5. Window(n) = (x + 1)..y
  BY DEF Window
<1>6. x \in Nat /\ y = x + L /\ y <= z /\ z <= MaxSamples /\ y \in Nat /\ z \in Nat
  BY <1>2, <1>3, <1>4
<1> HIDE DEF x, y, z
<1>7. Window(n) \subseteq Samples
  BY <1>5, <1>6 DEF Samples
<1>8. \A s \in Window(n) : s > x /\ s <= y
  BY <1>5, <1>6
<1>9. x + 1 \in Window(n) /\ x + 2 \in Window(n)
  BY <1>5, <1>6
<1> QED
  BY <1>3, <1>7, <1>8, <1>9 DEF x, y

\* A cycle has a closed step row, and the telemetry between the first and the
\* last of them is of this cycle.
LEMMA TelemetryFacts ==
  ASSUME OneGap, NEW n \in Cycles
  PROVE  /\ Labelled(n) # {} /\ Labelled(n) \subseteq Window(n)
         /\ Min(Labelled(n)) \in Window(n) /\ Max(Labelled(n)) \in Window(n)
         /\ CycleTelemetry(n) \subseteq Window(n)
<1> USE ConstantFacts, WindowFacts
<1> DEFINE x == (n - 1) * L
           y == n * L
           T == Labelled(n)
<1>0. x \in Nat /\ y \in Nat /\ Window(n) = (x + 1)..y
  BY DEF Window
<1>1. x + 1 \in Window(n) /\ x + 2 \in Window(n)
  OBVIOUS
<1>2. T = Window(n) \ gaps
  BY DEF Labelled
<1> HIDE DEF x, y, T
<1>3. T # {}
  <2>1. x + 1 # x + 2
    BY <1>0
  <2>2. ~(x + 1 \in gaps /\ x + 2 \in gaps)
    BY <2>1, <1>1 DEF OneGap
  <2> QED
    BY <2>2, <1>1, <1>2
<1>4. T \in SUBSET Nat /\ T \in SUBSET (0..y)
  BY <1>0, <1>2
<1>5. Min(T) \in T /\ Max(T) \in T
  BY <1>0, <1>3, <1>4, MinFacts, MaxFacts
<1>6. Min(T) \in (x + 1)..y /\ Max(T) \in (x + 1)..y
  BY <1>0, <1>2, <1>5
<1>7. Min(T)..Max(T) \subseteq (x + 1)..y
  BY <1>0, <1>6
<1>8. CycleTelemetry(n) \subseteq Min(T)..Max(T)
  BY DEF CycleTelemetry, T
<1> QED
  BY <1>0, <1>2, <1>3, <1>6, <1>7, <1>8 DEF T

\* previous_r0 finds the R0 of the nearest earlier row, or none.
LEMMA PreviousFacts ==
  ASSUME RecordTypes, NEW n \in Cycles
  PROVE  /\ PreviousR0(n) \in 0..Len(Ohm) /\ PreviousR0(n) < n
         /\ PreviousR0(n) > 0 =>
               /\ PreviousR0(n) \in Cycles /\ features[PreviousR0(n)].r0
               /\ \A m \in (PreviousR0(n) + 1)..(n - 1) : features[m] = NoRow
<1> USE ConstantFacts
<1> DEFINE T == EarlierRows(n) \cup {0}
           m == Max(T)
<1>1. n \in Nat /\ n - 1 \in Nat /\ T \in SUBSET (0..(n - 1)) /\ T # {}
  BY DEF EarlierRows
<1>2. m \in T /\ \A y \in T : y <= m
  BY <1>1, MaxFacts
<1>3. PreviousR0(n) = IF m > 0 /\ features[m].r0 THEN m ELSE 0
  BY DEF PreviousR0
<1>4. T = {k \in Cycles : k < n /\ features[k] # NoRow} \cup {0}
  BY DEF EarlierRows
<1> HIDE DEF m, T
<1>5. m \in 0..(n - 1) /\ n \in 1..Len(Ohm)
  BY <1>1, <1>2
<1>6. m > 0 => \A k \in (m + 1)..(n - 1) : features[k] = NoRow
  <2> SUFFICES ASSUME m > 0, NEW k \in (m + 1)..(n - 1) PROVE features[k] = NoRow
    OBVIOUS
  <2>1. k \in Cycles /\ k < n /\ ~(k <= m)
    BY <1>5
  <2> QED
    BY <2>1, <1>2, <1>4
<1> QED
  BY <1>3, <1>5, <1>6

\* previous_r0 only looks at earlier rows.
LEMMA PreviousKept ==
  ASSUME NEW n \in Cycles, \A m \in Cycles : m < n => features'[m] = features[m]
  PROVE  PreviousR0(n)' = PreviousR0(n)
<1> USE ConstantFacts
<1>1. EarlierRows(n)' = EarlierRows(n)
  BY DEF EarlierRows
<1> DEFINE m == Max(EarlierRows(n) \cup {0})
<1>2. PreviousR0(n)' = (IF m > 0 /\ features'[m].r0 THEN m ELSE 0)
      /\ PreviousR0(n) = (IF m > 0 /\ features[m].r0 THEN m ELSE 0)
  BY <1>1 DEF PreviousR0
<1>3. m \in EarlierRows(n) \cup {0}
  <2>1. n \in Nat /\ EarlierRows(n) \cup {0} \in SUBSET (0..n)
    BY DEF EarlierRows
  <2> QED
    BY <2>1, MaxFacts
<1>4. m > 0 => m \in Cycles /\ m < n
  BY <1>3 DEF EarlierRows
<1> QED
  BY <1>2, <1>4

-----------------------------------------------------------------------------
(* What steps keep that leave the job and the features alone.              *)

\* More rows in the table, and no change to the step rows of finished cycles:
\* the telemetry of these cycles only grows, and R0 estimates stay.
LEMMA TelemetryGrows ==
  ASSUME NEW n \in Cycles, stored' \in [Samples -> Nat], stored \in [Samples -> Nat],
         OneGap, Labelled(n)' = Labelled(n),
         \A s \in Samples : stored[s] <= stored'[s]
  PROVE  /\ CycleTelemetry(n) \subseteq CycleTelemetry(n)'
         /\ \A x : EstimatesR0(n, x)' <=> EstimatesR0(n, x)
<1>1. CycleTelemetry(n) \subseteq Samples
  BY TelemetryFacts, WindowFacts
<1>2. CycleTelemetry(n) \subseteq CycleTelemetry(n)'
  <2> SUFFICES ASSUME NEW s \in CycleTelemetry(n) PROVE s \in CycleTelemetry(n)'
    OBVIOUS
  <2>1. s \in Min(Labelled(n))..Max(Labelled(n)) /\ stored[s] > 0 /\ s \in Samples
    BY <1>1 DEF CycleTelemetry
  <2>2. stored'[s] > 0
    BY <2>1
  <2> QED
    BY <2>1, <2>2 DEF CycleTelemetry
<1>3. \A x : EstimatesR0(n, x)' <=> EstimatesR0(n, x)
  BY DEF EstimatesR0
<1> QED
  BY <1>2, <1>3

\* Features stay rows of the table when the table grows.
LEMMA KeepTables ==
  ASSUME AnalyticsIndInv, UNCHANGED <<job, features>>,
         completed' \in Nat, completed <= completed',
         stored' \in [Samples -> Nat], \A s \in Samples : stored[s] <= stored'[s],
         \A n \in Cycles : n <= completed => Labelled(n)' = Labelled(n)
  PROVE  RowsFromTable' /\ AlertDue'
<1>0. /\ completed \in Nat /\ Cycles \subseteq Nat
      /\ stored \in [Samples -> Nat] /\ OneGap /\ RowsFromTable /\ AlertDue
  BY ConstantFacts DEF AnalyticsIndInv, TypeOK, RowTypeOK
<1>1. ASSUME NEW n \in Cycles, n <= completed
      PROVE  /\ CycleTelemetry(n) \subseteq CycleTelemetry(n)'
             /\ \A x : EstimatesR0(n, x)' <=> EstimatesR0(n, x)
  BY <1>0, <1>1, TelemetryGrows
<1>2. AlertDue'
  BY <1>0 DEF AlertDue
<1>3. ASSUME NEW n \in Cycles, features'[n] # NoRow
      PROVE  /\ n <= completed'
             /\ features'[n].rows \subseteq CycleTelemetry(n)'
             /\ features'[n].r0 <=> EstimatesR0(n, features[n].rows)'
  <2>1. /\ n <= completed /\ features[n].rows \subseteq CycleTelemetry(n)
        /\ features[n].r0 <=> EstimatesR0(n, features[n].rows)
    BY <1>0, <1>3 DEF RowsFromTable
  <2>2. /\ CycleTelemetry(n) \subseteq CycleTelemetry(n)'
        /\ EstimatesR0(n, features[n].rows)' <=> EstimatesR0(n, features[n].rows)
    BY <2>1, <1>1
  <2> QED
    BY <2>1, <2>2, <1>0
<1>4. ASSUME Computed'
      PROVE  /\ job'.row.rows \subseteq CycleTelemetry(job.n)'
             /\ features'[job'.n].rows \subseteq job'.row.rows
             /\ job'.row.r0 <=> EstimatesR0(job.n, job.row.rows)'
             /\ job'.row.base < job'.n
  <2>0. Computed /\ job.n \in Cycles /\ job.n <= completed
    BY <1>4, ConstantFacts DEF Computed, AnalyticsIndInv, RecordTypes, TypeOK, EventsOfCycles
  <2>1. /\ job.row.rows \subseteq CycleTelemetry(job.n)
        /\ features[job.n].rows \subseteq job.row.rows
        /\ job.row.r0 <=> EstimatesR0(job.n, job.row.rows)
        /\ job.row.base < job.n
    BY <1>0, <2>0 DEF RowsFromTable
  <2>2. /\ CycleTelemetry(job.n) \subseteq CycleTelemetry(job.n)'
        /\ EstimatesR0(job.n, job.row.rows)' <=> EstimatesR0(job.n, job.row.rows)
    BY <2>0, <1>1
  <2> QED
    BY <2>1, <2>2
<1> QED
  BY <1>2, <1>3, <1>4 DEF RowsFromTable

\* Baselines stay as they are.
LEMMA KeepBases ==
  ASSUME AnalyticsIndInv, UNCHANGED <<job, features>>, pubErrors' = 0 => pubErrors = 0
  PROVE  BasesPrevious'
<1>1. \A n \in Cycles : PreviousR0(n)' = PreviousR0(n)
  BY PreviousKept
<1>2. \A n \in Cycles, r0 \in BOOLEAN : Baseline(n, r0)' = Baseline(n, r0)
  BY <1>1 DEF Baseline
<1>3. Computed => job.n \in Cycles /\ job.row.r0 \in BOOLEAN
  BY ConstantFacts DEF Computed, AnalyticsIndInv, RecordTypes, TypeOK, Rows
<1>4. \A n \in Cycles : features[n].r0 \in BOOLEAN
  BY DEF AnalyticsIndInv, RecordTypes, Rows
<1> QED
  BY <1>2, <1>3, <1>4 DEF AnalyticsIndInv, BasesPrevious, Computed

\* The row path does not touch an unrelated step, and never takes a row away.
LEMMA RowsUntouched ==
  ASSUME RowIndInv, UNCHANGED rowVars PROVE RowIndInv' /\ RowTypeOK'
<1>1. RowIndInv'
  BY RowNextInd
<1> QED
  BY <1>1 DEF RowIndInv

\* COPY only adds rows.
LEMMA StoredGrows ==
  ASSUME RowIndInv, RowNext
  PROVE  /\ stored' \in [Samples -> Nat] /\ \A s \in Samples : stored[s] <= stored'[s]
<1>1. stored \in [Samples -> Nat] /\ stored' \in [Samples -> Nat]
  BY RowNextInd DEF RowIndInv, RowTypeOK
<1>2. \A s \in Samples : stored[s] <= stored[s]
  BY <1>1
<1>3. \A s \in Samples : stored[s] <= Copied[s]
  BY <1>1 DEF Copied
<1>4. stored' \in {stored, Copied}
  BY DEF RowNext, Sample, SampleLost, Subscribe, Receive, FlushDone, FlushFails, Disconnect
<1> QED
  BY <1>1, <1>2, <1>3, <1>4

\* What a step keeps that only moves events.
LEMMA OnlyEvents ==
  ASSUME AnalyticsIndInv, UNCHANGED <<rowVars, gaps, completed, job, features, alerts>>,
         UNCHANGED <<drops, dbErrors>>, pubErrors' = 0 => pubErrors = 0
  PROVE  /\ RowIndInv' /\ RowTypeOK' /\ OneGap' /\ RowsFromTable' /\ AlertDue'
         /\ BasesPrevious' /\ JumpsAlerted'
<1>1. RowIndInv' /\ RowTypeOK'
  BY RowsUntouched DEF AnalyticsIndInv
<1>2. OneGap'
  BY DEF AnalyticsIndInv, OneGap, Window
<1>3. /\ completed' \in Nat /\ completed <= completed' /\ stored' \in [Samples -> Nat]
      /\ \A s \in Samples : stored[s] <= stored'[s]
      /\ \A n \in Cycles : n <= completed => Labelled(n)' = Labelled(n)
  BY <1>1, ConstantFacts DEF AnalyticsIndInv, TypeOK, RowTypeOK, rowVars, Labelled, Window
<1>4. RowsFromTable' /\ AlertDue'
  BY <1>3, KeepTables
<1>5. BasesPrevious'
  BY KeepBases
<1>6. JumpsAlerted'
  BY DEF AnalyticsIndInv, JumpsAlerted, Jumps
<1> QED
  BY <1>1, <1>2, <1>4, <1>5, <1>6

-----------------------------------------------------------------------------
(* One lemma per action.                                                   *)

\* The start.
LEMMA AnalyticsInit == Init => AnalyticsIndInv
<1> SUFFICES ASSUME Init PROVE AnalyticsIndInv
  OBVIOUS
<1> USE ConstantFacts
<1>1. RowIndInv /\ RowTypeOK
  BY RowInitInd DEF Init, RowIndInv
<1>2. NoRow \in Rows
  BY DEF NoRow, Rows
<1>3. \A n \in Cycles : features[n] = NoRow
  BY DEF Init
<1>4. TypeOK
  BY <1>1, <1>3, EmptySeq DEF Init, TypeOK, Waiting, Down, Idle, NoRow
<1>5. RecordTypes
  BY <1>2 DEF Init, RecordTypes, Idle
<1>6. EventsOfCycles /\ OneGap /\ RowsFromTable /\ AlertDue
  BY <1>3, EmptySeq
     DEF Init, EventsOfCycles, OneGap, RowsFromTable, AlertDue, Computed, Idle, Waiting
<1>7. EventOrder
  BY <1>3, EmptySeq DEF Init, EventOrder, Idle, Waiting
<1>8. BasesPrevious /\ JumpsAlerted
  BY <1>3 DEF Init, BasesPrevious, Baseline, Computed, Idle, JumpsAlerted, Jumps, NoRow
<1> QED
  BY <1>1, <1>4, <1>5, <1>6, <1>7, <1>8 DEF AnalyticsIndInv

\* The row path goes on under the analytics service.
LEMMA RowPathInd == ASSUME AnalyticsIndInv, RowPath PROVE AnalyticsIndInv'
<1>0. RowIndInv /\ RowNext /\ UNCHANGED <<eventVars, jobVars>>
  BY DEF AnalyticsIndInv, RowPath
<1>1. RowIndInv' /\ RowTypeOK'
  BY <1>0, RowNextInd DEF RowIndInv
<1>2. /\ stored' \in [Samples -> Nat] /\ \A s \in Samples : stored[s] <= stored'[s]
      /\ UNCHANGED <<job, features, completed, gaps>>
      /\ \A n \in Cycles : n <= completed => Labelled(n)' = Labelled(n)
  BY <1>0, StoredGrows DEF eventVars, jobVars, Labelled, Window
<1>3. completed' \in Nat /\ completed <= completed'
  BY <1>2, ConstantFacts DEF AnalyticsIndInv, TypeOK
<1>4. RowsFromTable' /\ AlertDue'
  BY <1>2, <1>3, KeepTables
<1>5. BasesPrevious'
  BY <1>0, KeepBases DEF eventVars, jobVars
<1>6. TypeOK'
  BY <1>0, <1>1 DEF AnalyticsIndInv, TypeOK, eventVars, jobVars, Window
<1>7. RecordTypes' /\ EventsOfCycles' /\ OneGap'
  BY <1>0 DEF AnalyticsIndInv, RecordTypes, EventsOfCycles, OneGap, eventVars, jobVars, Window
<1>8. EventOrder' /\ JumpsAlerted'
  BY <1>0 DEF AnalyticsIndInv, EventOrder, JumpsAlerted, Jumps, eventVars, jobVars
<1> QED
  BY <1>1, <1>4, <1>5, <1>6, <1>7, <1>8 DEF AnalyticsIndInv

\* The next cycle is complete: its event goes behind all others, and the step
\* row that may be missing is in nobody's window yet.
LEMMA CycleCompleteInd == ASSUME AnalyticsIndInv, CycleComplete PROVE AnalyticsIndInv'
<1> USE ConstantFacts
<1> DEFINE c == completed + 1
<1>0. /\ completed \in Nat /\ c \in Cycles /\ completed' = c /\ completed < c
      /\ events' = Append(events, c) /\ events \in Seq(Cycles)
      /\ UNCHANGED <<rowVars, jobVars, pub, retained, pubErrors>>
  BY DEF AnalyticsIndInv, TypeOK, CycleComplete
<1>a. /\ Window(c) \subseteq Samples /\ \A s \in Window(c) : s > (c - 1) * L /\ s <= c * L
      /\ (c - 1) * L \in Nat /\ c * L \in Nat
  BY <1>0, WindowFacts
<1>b. c - 1 = completed
  BY <1>0
<1>c. gaps' = gaps \/ \E s \in Window(c) : gaps' = gaps \cup {s}
  BY DEF CycleComplete
<1>d. gaps \subseteq Samples /\ \A s \in gaps : s <= completed * L
  BY DEF AnalyticsIndInv, TypeOK, OneGap
<1>e. Samples \subseteq Nat
  BY DEF Samples
<1> HIDE DEF c
<1>1. RowIndInv' /\ RowTypeOK'
  BY <1>0, RowsUntouched DEF AnalyticsIndInv
<1>2. /\ events' \in Seq(Cycles) /\ Len(events') = Len(events) + 1 /\ Len(events) \in Nat
      /\ \A i \in 1..Len(events) : events'[i] = events[i]
      /\ events'[Len(events) + 1] = c
  BY <1>0, AppendProperties, LenProperties
<1>3. \A i \in 1..Len(events') : events'[i] <= c /\ events'[i] \in Nat
      /\ (i = Len(events) + 1 \/ i \in 1..Len(events))
  <2>1. \A i \in 1..Len(events) : events[i] <= completed /\ events[i] \in Nat
    BY <1>0, ElementOfSeq DEF AnalyticsIndInv, EventsOfCycles
  <2> QED
    BY <2>1, <1>0, <1>2
<1>4. gaps' \subseteq Samples /\ \A s \in gaps' : s <= c * L
  <2>1. completed * L <= c * L
    BY <1>0, TimesMonotone
  <2>2. completed * L \in Nat
    BY <1>a, <1>b
  <2>3. \A s \in gaps : s <= c * L
    BY <2>1, <2>2, <1>a, <1>d, <1>e
  <2> QED
    BY <2>3, <1>a, <1>c, <1>d
<1>5. TypeOK'
  <2>1. completed' \in 0..Len(Ohm) /\ retained' \in 0..completed'
    BY <1>0 DEF AnalyticsIndInv, TypeOK
  <2> QED
    BY <2>1, <1>0, <1>1, <1>2, <1>4 DEF AnalyticsIndInv, TypeOK, jobVars, Window
<1>6. RecordTypes'
  BY <1>0 DEF AnalyticsIndInv, RecordTypes, jobVars
<1>7. EventsOfCycles'
  <2>1. job \in [at : {"idle", "fetch", "upsert", "alert"}, n : 0..Len(Ohm), row : Rows]
    BY DEF AnalyticsIndInv, RecordTypes
  <2>2. job.n \in Nat /\ job.n <= completed
    BY <2>1 DEF AnalyticsIndInv, EventsOfCycles
  <2>3. mail \in Seq(Cycles) /\ \A i \in 1..Len(mail) : mail[i] <= completed /\ mail[i] \in Nat
    BY ElementOfSeq DEF AnalyticsIndInv, TypeOK, EventsOfCycles
  <2>4. pub \in Cycles => pub <= completed
    BY DEF AnalyticsIndInv, EventsOfCycles
  <2> QED
    BY <2>2, <2>3, <2>4, <1>0, <1>3 DEF EventsOfCycles, jobVars
<1>f. ASSUME NEW n \in Cycles, n <= completed, NEW s \in gaps', s \in Window(n)
      PROVE  s \in gaps
  <2>1. n * L <= completed * L /\ n * L \in Nat /\ completed * L \in Nat
    BY <1>f, <1>0, <1>a, <1>b, TimesMonotone
  <2>2. s <= n * L /\ s \in Nat
    BY <1>f, <1>e, WindowFacts
  <2>3. s \notin Window(c)
    BY <2>1, <2>2, <1>a, <1>b
  <2> QED
    BY <2>3, <1>c
<1>8. OneGap'
  <2> SUFFICES ASSUME NEW n \in Cycles, NEW s \in gaps' \cap Window(n), NEW t \in gaps' \cap Window(n)
               PROVE  s = t
    BY <1>0, <1>4 DEF OneGap, Window
  <2>1. CASE n <= completed
    BY <2>1, <1>f DEF AnalyticsIndInv, OneGap
  <2>2. CASE n > completed
    <3>1. c <= n
      BY <2>2, <1>0, <1>b
    <3>2. completed * L <= (n - 1) * L /\ completed * L \in Nat /\ (n - 1) * L \in Nat
      BY <3>1, <1>0, <1>a, <1>b, TimesMonotone
    <3>3. s > (n - 1) * L /\ t > (n - 1) * L /\ s \in Nat /\ t \in Nat
      BY WindowFacts, <1>e
    <3>4. s \notin gaps /\ t \notin gaps
      BY <3>2, <3>3, <1>d
    <3> QED
      BY <3>4, <1>c
  <2> QED
    BY <2>1, <2>2, <1>0
<1>9. \A n \in Cycles : n <= completed => Labelled(n)' = Labelled(n)
  BY <1>f, <1>c DEF Labelled, Window
<1>10. RowsFromTable' /\ AlertDue'
  <2>1. /\ stored' = stored /\ UNCHANGED <<job, features>> /\ stored \in [Samples -> Nat]
        /\ completed' \in Nat /\ completed <= completed'
    BY <1>0 DEF rowVars, jobVars, AnalyticsIndInv, TypeOK, RowTypeOK
  <2>2. \A s \in Samples : stored[s] <= stored'[s]
    BY <2>1
  <2> QED
    BY <2>1, <2>2, <1>9, KeepTables
<1>11. BasesPrevious'
  BY <1>0, KeepBases DEF jobVars
<1>12. JumpsAlerted'
  BY <1>0 DEF AnalyticsIndInv, JumpsAlerted, Jumps, jobVars
<1>13. EventOrder'
  <2> SUFFICES ASSUME pubErrors = 0 PROVE EventOrder'
    BY <1>0 DEF EventOrder
  <2>0. EventOrder
    BY DEF AnalyticsIndInv
  <2>1. retained \in 0..completed /\ (pub \in Cycles => pub <= completed)
    BY DEF AnalyticsIndInv, TypeOK, EventsOfCycles
  <2>2. \A i \in 1..Len(events) : events[i] <= completed /\ events[i] \in Nat
    BY <1>0, ElementOfSeq DEF AnalyticsIndInv, EventsOfCycles
  <2>3. \A i \in 1..Len(events') : retained <= events'[i]
    BY <2>0, <2>1, <1>0, <1>2, <1>3 DEF EventOrder
  <2>4. \A i, j \in 1..Len(events') : i < j => events'[i] <= events'[j]
    <3> SUFFICES ASSUME NEW i \in 1..Len(events'), NEW j \in 1..Len(events'), i < j
                 PROVE  events'[i] <= events'[j]
      OBVIOUS
    <3>1. i \in 1..Len(events)
      BY <1>2
    <3>2. CASE j = Len(events) + 1
      BY <3>1, <3>2, <2>2, <1>0, <1>2
    <3>3. CASE j # Len(events) + 1
      <4>0. Len(events') = Len(events) + 1 /\ Len(events) \in Nat
        BY <1>2
      <4>1. j \in 1..Len(events)
        BY <3>3, <4>0
      <4>2. events[i] <= events[j]
        BY <4>1, <3>1, <2>0 DEF EventOrder
      <4> QED
        BY <4>1, <4>2, <3>1, <1>2
    <3> QED
      BY <3>2, <3>3
  <2>5. ASSUME pub \in Cycles PROVE \A i \in 1..Len(events') : pub <= events'[i]
    BY <2>5, <2>0, <2>1, <1>0, <1>2, <1>3 DEF EventOrder
  <2>6. UNCHANGED <<mail, job, features, retained, pub>>
    BY <1>0 DEF jobVars
  <2>7. pub \in Cycles => retained <= pub
    BY <2>0 DEF EventOrder
  <2> QED
    BY <2>0, <2>3, <2>4, <2>5, <2>6, <2>7 DEF EventOrder
<1> QED
  BY <1>1, <1>5, <1>6, <1>7, <1>8, <1>10, <1>11, <1>12, <1>13 DEF AnalyticsIndInv

\* The types of the parts an event can be in.
LEMMA EventTypes ==
  ASSUME AnalyticsIndInv
  PROVE  /\ completed \in Nat /\ retained \in Nat /\ retained <= completed
         /\ completed <= Len(Ohm)
         /\ events \in Seq(Cycles) /\ Len(events) \in Nat
         /\ \A i \in 1..Len(events) : events[i] \in Nat
         /\ mail \in Seq(Cycles) /\ Len(mail) \in Nat
         /\ \A i \in 1..Len(mail) : mail[i] \in Nat
         /\ job.n \in Nat /\ Cycles \subseteq Nat
<1> USE ConstantFacts
<1>1. completed \in 0..Len(Ohm) /\ retained \in 0..completed
      /\ events \in Seq(Cycles) /\ mail \in Seq(Cycles)
  BY DEF AnalyticsIndInv, TypeOK
<1>2. job.n \in Nat
  BY DEF AnalyticsIndInv, RecordTypes
<1>3. Cycles \subseteq Nat
  OBVIOUS
<1>4. Len(events) \in Nat /\ Len(mail) \in Nat
  BY <1>1, LenProperties
<1>5. \A i \in 1..Len(events) : events[i] \in Cycles
  BY <1>1, ElementOfSeq
<1>6. \A i \in 1..Len(mail) : mail[i] \in Cycles
  BY <1>1, ElementOfSeq
<1> QED
  BY <1>1, <1>2, <1>3, <1>4, <1>5, <1>6

\* The types after a step that only moves events.
LEMMA OnlyEventTypes ==
  ASSUME AnalyticsIndInv, RowTypeOK',
         UNCHANGED <<completed, gaps, job, features, alerts, finished, drops, dbErrors>>,
         events' \in Seq(Cycles), mail' \in Seq(Cycles), pub' \in 0..Down,
         retained' \in 0..completed, pubErrors' \in Nat
  PROVE  TypeOK' /\ RecordTypes'
<1>1. TypeOK'
  BY DEF AnalyticsIndInv, TypeOK, Down, Window
<1>2. RecordTypes'
  BY DEF AnalyticsIndInv, RecordTypes
<1> QED
  BY <1>1, <1>2

\* The publisher takes the oldest event.
LEMMA GetEventInd == ASSUME AnalyticsIndInv, GetEvent PROVE AnalyticsIndInv'
<1> USE ConstantFacts, EventTypes
<1>0. /\ pub' = Head(events) /\ events' = Tail(events) /\ events # <<>>
      /\ UNCHANGED <<rowVars, jobVars, completed, gaps, retained, pubErrors>>
  BY DEF GetEvent
<1>1. /\ RowIndInv' /\ RowTypeOK' /\ OneGap' /\ RowsFromTable' /\ AlertDue'
      /\ BasesPrevious' /\ JumpsAlerted'
  BY <1>0, OnlyEvents DEF jobVars
<1>2. /\ events' \in Seq(Cycles) /\ Len(events') = Len(events) - 1 /\ Len(events) > 0
      /\ \A i \in 1..Len(events') : events'[i] = events[i + 1] /\ i + 1 \in 1..Len(events)
      /\ pub' = events[1] /\ pub' \in Cycles /\ 1 \in 1..Len(events)
  <2>1. Head(events) \in Cycles /\ Tail(events) \in Seq(Cycles)
        /\ Len(Tail(events)) = Len(events)-1
        /\ \A i \in 1 .. Len(Tail(events)) : Tail(events)[i] = events[i+1]
    BY <1>0, HeadTailProperties
  <2>2. Len(events) \in Nat \ {0}
    BY <1>0, EmptySeq
  <2>3. Head(events) = events[1]
    BY <1>0
  <2> QED
    BY <2>1, <2>2, <2>3, <1>0
<1>3. TypeOK' /\ RecordTypes'
  <2>1. pub' \in 0..Down /\ mail' \in Seq(Cycles) /\ retained' \in 0..completed
    BY <1>0, <1>2 DEF Down, jobVars
  <2>2. pubErrors' \in Nat
    BY <1>0 DEF AnalyticsIndInv, RecordTypes
  <2> QED
    BY <1>0, <1>1, <1>2, <2>1, <2>2, OnlyEventTypes DEF jobVars
<1>4. EventsOfCycles'
  BY <1>0, <1>2 DEF AnalyticsIndInv, EventsOfCycles, jobVars
<1>5. EventOrder'
  <2> SUFFICES ASSUME pubErrors = 0 PROVE EventOrder'
    BY <1>0 DEF EventOrder
  <2>0. EventOrder
    BY DEF AnalyticsIndInv
  <2>1. \A i \in 1..Len(events') : retained <= events'[i]
    BY <2>0, <1>2 DEF EventOrder
  <2>2. \A i, j \in 1..Len(events') : i < j => events'[i] <= events'[j]
    <3>1. \A i, j \in 1..Len(events) : i < j => events[i] <= events[j]
      BY <2>0 DEF EventOrder
    <3>2. \A i, j \in 1..Len(events') : i < j => i + 1 < j + 1
      BY <1>2
    <3> QED
      BY <3>1, <3>2, <1>2
  <2>3. retained <= pub' /\ \A i \in 1..Len(events') : pub' <= events'[i]
    <3>1. \A i \in 1..Len(events') : 1 < i + 1
      BY <1>2
    <3> QED
      BY <2>0, <3>1, <1>2 DEF EventOrder
  <2> QED
    BY <2>0, <2>1, <2>2, <2>3, <1>0 DEF EventOrder, jobVars
<1> QED
  BY <1>1, <1>3, <1>4, <1>5 DEF AnalyticsIndInv

\* What the broker does with an event of a finished cycle.
LEMMA BrokerFacts ==
  ASSUME AnalyticsIndInv, pub \in Cycles, BrokerTakes(pub)
  PROVE  /\ retained' = pub /\ pub <= completed
         /\ mail' \in Seq(Cycles) /\ Len(mail') \in Nat /\ Len(mail) <= Len(mail')
         /\ \A i \in 1..Len(mail') : \/ i \in 1..Len(mail) /\ mail'[i] = mail[i]
                                     \/ i = Len(mail) + 1 /\ mail'[i] = pub
<1> USE EventTypes
<1>1. retained' = pub /\ pub <= completed
  BY DEF BrokerTakes, AnalyticsIndInv, EventsOfCycles
<1>2. CASE listening
  <2>1. mail' = Append(mail, pub)
    BY <1>2 DEF BrokerTakes
  <2>2. /\ mail' \in Seq(Cycles) /\ Len(mail') = Len(mail) + 1
        /\ \A i \in 1..Len(mail) : mail'[i] = mail[i]
        /\ mail'[Len(mail) + 1] = pub
    BY <2>1, AppendProperties
  <2>3. \A i \in 1..Len(mail') : i \in 1..Len(mail) \/ i = Len(mail) + 1
    BY <2>2
  <2> QED
    BY <2>2, <2>3, <1>1
<1>3. CASE ~listening
  BY <1>1, <1>3 DEF BrokerTakes
<1> QED
  BY <1>2, <1>3

\* An event is published.
LEMMA PublishInd == ASSUME AnalyticsIndInv, Publish PROVE AnalyticsIndInv'
<1> USE ConstantFacts, EventTypes
<1>0. /\ pub \in Cycles /\ pub' = Waiting /\ BrokerTakes(pub)
      /\ UNCHANGED <<rowVars, completed, gaps, events, pubErrors,
                     listening, job, features, alerts, finished, drops, dbErrors>>
  BY DEF Publish
<1>1. /\ RowIndInv' /\ RowTypeOK' /\ OneGap' /\ RowsFromTable' /\ AlertDue'
      /\ BasesPrevious' /\ JumpsAlerted'
  BY <1>0, OnlyEvents
<1>2. /\ retained' = pub /\ pub <= completed /\ pub \in Nat
      /\ mail' \in Seq(Cycles) /\ Len(mail') \in Nat /\ Len(mail) <= Len(mail')
      /\ \A i \in 1..Len(mail') : \/ i \in 1..Len(mail) /\ mail'[i] = mail[i]
                                  \/ i = Len(mail) + 1 /\ mail'[i] = pub
  BY <1>0, BrokerFacts
<1>3. TypeOK' /\ RecordTypes'
  <2>1. pub' \in 0..Down /\ events' \in Seq(Cycles) /\ retained' \in 0..completed
    BY <1>0, <1>2 DEF Down, Waiting
  <2>2. pubErrors' \in Nat
    BY <1>0 DEF AnalyticsIndInv, RecordTypes
  <2> QED
    BY <1>0, <1>1, <1>2, <2>1, <2>2, OnlyEventTypes
<1>4. EventsOfCycles'
  <2>1. \A i \in 1..Len(mail) : mail[i] <= completed
    BY DEF AnalyticsIndInv, EventsOfCycles
  <2>2. ASSUME NEW i \in 1..Len(mail') PROVE mail'[i] <= completed
    BY <2>1, <1>2
  <2>3. pub' \notin Cycles
    BY <1>0 DEF Waiting
  <2> QED
    BY <2>2, <2>3, <1>0 DEF AnalyticsIndInv, EventsOfCycles
<1>5. EventOrder'
  <2> SUFFICES ASSUME pubErrors = 0 PROVE EventOrder'
    BY <1>0 DEF EventOrder
  <2>0. EventOrder
    BY DEF AnalyticsIndInv
  <2>1. retained <= pub /\ \A i \in 1..Len(events) : pub <= events[i]
    BY <2>0, <1>0 DEF EventOrder
  <2>2. \A i \in 1..Len(mail) : mail[i] <= pub
    BY <2>0, <2>1, <1>2 DEF EventOrder
  <2>3. ASSUME NEW i \in 1..Len(mail') PROVE mail'[i] <= pub
    <3>1. pub <= pub
      BY <1>2
    <3>2. \/ i \in 1..Len(mail) /\ mail'[i] = mail[i]
          \/ mail'[i] = pub
      BY <1>2
    <3> QED
      BY <2>2, <3>1, <3>2
  <2>4. \A i, j \in 1..Len(mail') : i < j => mail'[i] <= mail'[j]
    <3> SUFFICES ASSUME NEW i \in 1..Len(mail'), NEW j \in 1..Len(mail'), i < j
                 PROVE  mail'[i] <= mail'[j]
      OBVIOUS
    <3>1. CASE mail'[j] = pub
      BY <3>1, <2>3
    <3>2. CASE mail'[j] # pub
      <4>1. j \in 1..Len(mail) /\ mail'[j] = mail[j]
        BY <3>2, <1>2
      <4>2. i \in 1..Len(mail) /\ mail'[i] = mail[i]
        <5>1. i # Len(mail) + 1
          BY <4>1
        <5> QED
          BY <5>1, <1>2
      <4> QED
        BY <4>1, <4>2, <2>0 DEF EventOrder
    <3> QED
      BY <3>1, <3>2
  <2>5. job.n <= pub /\ \A i \in 1..Len(mail') : job.n <= mail'[i]
    <3>1. job.n <= retained /\ \A i \in 1..Len(mail) : job.n <= mail[i]
      BY <2>0 DEF EventOrder
    <3>2. job.n <= pub
      BY <3>1, <2>1, <1>2
    <3> QED
      BY <3>1, <3>2, <1>2
  <2>6. ASSUME NEW m \in Cycles, features[m] # NoRow
        PROVE  /\ m <= pub /\ \A i \in 1..Len(mail') : m <= mail'[i]
               /\ job.n > 0 => m <= job.n
    <3>1. /\ m <= retained /\ \A i \in 1..Len(mail) : m <= mail[i]
          /\ job.n > 0 => m <= job.n
      BY <2>0, <2>6 DEF EventOrder
    <3>2. m <= pub
      BY <3>1, <2>1, <1>2
    <3> QED
      BY <3>1, <3>2, <1>2
  <2>7. pub' \notin Cycles
    BY <1>0 DEF Waiting
  <2> QED
    BY <2>0, <2>1, <2>3, <2>4, <2>5, <2>6, <2>7, <1>0, <1>2 DEF EventOrder
<1> QED
  BY <1>1, <1>3, <1>4, <1>5 DEF AnalyticsIndInv

\* A publish fails: from now on events are out of order.
LEMMA PublishErrorInd == ASSUME AnalyticsIndInv, PublishError PROVE AnalyticsIndInv'
<1> USE ConstantFacts, EventTypes
<1>0. /\ pub \in Cycles /\ pub' = Down /\ pubErrors' = pubErrors + 1
      /\ events' = Append(events, pub)
      /\ BrokerTakes(pub) \/ UNCHANGED <<retained, mail>>
      /\ UNCHANGED <<rowVars, completed, gaps,
                     listening, job, features, alerts, finished, drops, dbErrors>>
  BY DEF PublishError
<1>a. pubErrors \in Nat /\ pubErrors' \in Nat /\ pubErrors' # 0
  BY <1>0 DEF AnalyticsIndInv, RecordTypes
<1>1. /\ RowIndInv' /\ RowTypeOK' /\ OneGap' /\ RowsFromTable' /\ AlertDue'
      /\ BasesPrevious' /\ JumpsAlerted'
  BY <1>0, <1>a, OnlyEvents
<1>b. pub <= completed /\ pub \in Nat
  BY <1>0 DEF AnalyticsIndInv, EventsOfCycles
<1>2. /\ retained' \in 0..completed /\ mail' \in Seq(Cycles)
      /\ \A i \in 1..Len(mail') : mail'[i] <= completed
  <2>1. CASE BrokerTakes(pub)
    <3>1. /\ retained' = pub /\ mail' \in Seq(Cycles)
          /\ \A i \in 1..Len(mail') : \/ i \in 1..Len(mail) /\ mail'[i] = mail[i]
                                      \/ i = Len(mail) + 1 /\ mail'[i] = pub
      BY <2>1, <1>0, BrokerFacts
    <3>2. \A i \in 1..Len(mail) : mail[i] <= completed
      BY DEF AnalyticsIndInv, EventsOfCycles
    <3>3. ASSUME NEW i \in 1..Len(mail') PROVE mail'[i] <= completed
      BY <3>1, <3>2, <1>b
    <3> QED
      BY <3>1, <3>3, <1>b
  <2>2. CASE UNCHANGED <<retained, mail>>
    BY <2>2 DEF AnalyticsIndInv, TypeOK, EventsOfCycles
  <2> QED
    BY <1>0, <2>1, <2>2
<1>3. /\ events' \in Seq(Cycles) /\ \A i \in 1..Len(events') : events'[i] <= completed
  <2>1. /\ events' \in Seq(Cycles) /\ Len(events') = Len(events) + 1
        /\ \A i \in 1..Len(events) : events'[i] = events[i]
        /\ events'[Len(events) + 1] = pub
    BY <1>0, AppendProperties
  <2>2. \A i \in 1..Len(events') : i \in 1..Len(events) \/ i = Len(events) + 1
    BY <2>1
  <2> QED
    BY <2>1, <2>2, <1>b DEF AnalyticsIndInv, EventsOfCycles
<1>4. TypeOK' /\ RecordTypes'
  <2>1. pub' \in 0..Down
    BY <1>0 DEF Down
  <2> QED
    BY <1>0, <1>a, <1>1, <1>2, <1>3, <2>1, OnlyEventTypes
<1>5. EventsOfCycles' /\ EventOrder'
  BY <1>0, <1>a, <1>2, <1>3 DEF AnalyticsIndInv, EventsOfCycles, EventOrder, Down
<1> QED
  BY <1>1, <1>4, <1>5 DEF AnalyticsIndInv

\* The publisher reconnects.
LEMMA ReconnectInd == ASSUME AnalyticsIndInv, Reconnect PROVE AnalyticsIndInv'
<1> USE ConstantFacts, EventTypes
<1>0. /\ pub' = Waiting
      /\ UNCHANGED <<rowVars, jobVars, completed, gaps, events, retained, pubErrors>>
  BY DEF Reconnect
<1>1. /\ RowIndInv' /\ RowTypeOK' /\ OneGap' /\ RowsFromTable' /\ AlertDue'
      /\ BasesPrevious' /\ JumpsAlerted'
  BY <1>0, OnlyEvents DEF jobVars
<1>2. TypeOK' /\ RecordTypes'
  <2>1. /\ pub' \in 0..Down /\ events' \in Seq(Cycles) /\ mail' \in Seq(Cycles)
        /\ retained' \in 0..completed
    BY <1>0 DEF Down, Waiting, jobVars
  <2>2. pubErrors' \in Nat
    BY <1>0 DEF AnalyticsIndInv, RecordTypes
  <2> QED
    BY <1>0, <1>1, <2>1, <2>2, OnlyEventTypes DEF jobVars
<1>3. EventsOfCycles' /\ EventOrder'
  BY <1>0 DEF AnalyticsIndInv, EventsOfCycles, EventOrder, Waiting, jobVars
<1> QED
  BY <1>1, <1>2, <1>3 DEF AnalyticsIndInv

\* Analytics subscribes again and finds the retained event.
LEMMA ListenInd == ASSUME AnalyticsIndInv, Listen PROVE AnalyticsIndInv'
<1> USE ConstantFacts, EventTypes
<1>0. /\ job = Idle
      /\ UNCHANGED <<rowVars, eventVars, job, features, alerts, finished, drops, dbErrors>>
      /\ mail' = IF retained = 0 THEN <<>> ELSE <<retained>>
  BY DEF Listen
<1>1. /\ RowIndInv' /\ RowTypeOK' /\ OneGap' /\ RowsFromTable' /\ AlertDue'
      /\ BasesPrevious' /\ JumpsAlerted'
  BY <1>0, OnlyEvents DEF eventVars
<1>2. mail' \in Seq(Cycles) /\ Len(mail') \in {0, 1}
      /\ \A i \in 1..Len(mail') : i = 1 /\ mail'[i] = retained
  <2>1. CASE retained = 0
    BY <2>1, <1>0, EmptySeq
  <2>2. CASE retained # 0
    <3>1. retained \in Cycles /\ mail' = <<retained>>
      BY <2>2, <1>0
    <3> QED
      BY <3>1
  <2> QED
    BY <2>1, <2>2
<1>3. TypeOK' /\ RecordTypes'
  BY <1>0, <1>1, <1>2 DEF AnalyticsIndInv, TypeOK, RecordTypes, eventVars, Window, Down
<1>4. EventsOfCycles'
  BY <1>0, <1>2 DEF AnalyticsIndInv, EventsOfCycles, eventVars
<1>5. EventOrder'
  <2>1. job.n = 0
    BY <1>0 DEF Idle
  <2>2. \A i \in 1..Len(mail') : mail'[i] = retained
    BY <1>2
  <2>3. \A i, j \in 1..Len(mail') : ~(i < j)
    BY <1>2
  <2> QED
    BY <2>1, <2>2, <2>3, <1>0 DEF AnalyticsIndInv, EventOrder, eventVars
<1> QED
  BY <1>1, <1>3, <1>4, <1>5 DEF AnalyticsIndInv

\* The service takes the next event in hand.
LEMMA TakeEventInd == ASSUME AnalyticsIndInv, TakeEvent PROVE AnalyticsIndInv'
<1> USE ConstantFacts, EventTypes
<1>0. /\ job = Idle /\ mail # <<>> /\ mail' = Tail(mail)
      /\ job' = [Idle EXCEPT !.at = "fetch", !.n = Head(mail)]
      /\ UNCHANGED <<rowVars, eventVars, listening, features, alerts, finished, drops, dbErrors>>
  BY DEF TakeEvent
<1>a. /\ mail' \in Seq(Cycles) /\ Len(mail') = Len(mail) - 1 /\ Len(mail) > 0
      /\ \A i \in 1..Len(mail') : mail'[i] = mail[i + 1] /\ i + 1 \in 1..Len(mail)
      /\ Head(mail) = mail[1] /\ Head(mail) \in Cycles /\ 1 \in 1..Len(mail)
  <2>1. Head(mail) \in Cycles /\ Tail(mail) \in Seq(Cycles)
        /\ Len(Tail(mail)) = Len(mail)-1
        /\ \A i \in 1 .. Len(Tail(mail)) : Tail(mail)[i] = mail[i+1]
    BY <1>0, HeadTailProperties
  <2>2. Len(mail) \in Nat \ {0}
    BY <1>0, EmptySeq
  <2>3. Head(mail) = mail[1] /\ 1 \in 1..Len(mail)
    BY <2>2
  <2>4. Len(mail') = Len(mail) - 1 /\ \A i \in 1..Len(mail') : mail'[i] = mail[i + 1]
    BY <2>1, <1>0
  <2>5. \A i \in 1..Len(mail') : i + 1 \in 1..Len(mail)
    BY <2>2, <2>4
  <2> QED
    BY <2>1, <2>2, <2>3, <2>4, <2>5, <1>0
<1>b. job'.at = "fetch" /\ job'.n = mail[1] /\ job'.row = NoRow /\ job.at = "idle" /\ job.n = 0
      /\ job' = [at |-> "fetch", n |-> mail[1], row |-> NoRow]
  BY <1>0, <1>a DEF Idle
<1>1. RowIndInv' /\ RowTypeOK'
  BY <1>0, RowsUntouched DEF AnalyticsIndInv
<1>2. TypeOK'
  BY <1>0, <1>a, <1>b, <1>1 DEF AnalyticsIndInv, TypeOK, eventVars, Window
<1>3. RecordTypes'
  <2>1. NoRow \in Rows
    BY DEF NoRow, Rows
  <2> QED
    BY <2>1, <1>0, <1>a, <1>b DEF AnalyticsIndInv, RecordTypes, eventVars
<1>4. EventsOfCycles' /\ OneGap'
  <2>1. OneGap'
    BY <1>0 DEF AnalyticsIndInv, OneGap, eventVars, Window
  <2>2. EventsOfCycles
    BY DEF AnalyticsIndInv
  <2>3. \A i \in 1..Len(mail') : mail'[i] <= completed
    BY <2>2, <1>a DEF EventsOfCycles
  <2>4. job'.n <= completed
    BY <2>2, <1>a, <1>b DEF EventsOfCycles
  <2> QED
    BY <2>1, <2>2, <2>3, <2>4, <1>0 DEF EventsOfCycles, eventVars
<1>c. ~Computed /\ ~Computed'
  BY <1>b DEF Computed
<1>d. UNCHANGED <<stored, gaps, features, completed, alerts, drops, dbErrors, pubErrors>>
  BY <1>0 DEF rowVars, eventVars
<1>5. RowsFromTable' /\ AlertDue'
  <2>1. \A n \in Cycles : CycleTelemetry(n)' = CycleTelemetry(n)
    BY <1>d DEF CycleTelemetry, Labelled, Window
  <2>2. \A n \in Cycles : EstimatesR0(n, features[n].rows)' <=> EstimatesR0(n, features[n].rows)
    BY <1>d DEF EstimatesR0, Labelled, Window, StepOf
  <2>3. RowsFromTable'
    BY <2>1, <2>2, <1>c, <1>d DEF AnalyticsIndInv, RowsFromTable
  <2> QED
    BY <2>3, <1>b DEF AlertDue
<1>6. BasesPrevious'
  <2>1. \A n \in Cycles : PreviousR0(n)' = PreviousR0(n)
    BY <1>d, PreviousKept
  <2> QED
    BY <2>1, <1>c, <1>d DEF AnalyticsIndInv, BasesPrevious, Baseline
<1>7. JumpsAlerted'
  BY <1>b, <1>d DEF AnalyticsIndInv, JumpsAlerted, Jumps
<1>8. EventOrder'
  <2> SUFFICES ASSUME pubErrors = 0 PROVE EventOrder'
    BY <1>d DEF EventOrder
  <2>0. EventOrder
    BY DEF AnalyticsIndInv
  <2>1. \A i \in 1..Len(mail') : mail'[i] <= retained
    BY <2>0, <1>a DEF EventOrder
  <2>2. \A i, j \in 1..Len(mail') : i < j => mail'[i] <= mail'[j]
    <3>1. \A i, j \in 1..Len(mail) : i < j => mail[i] <= mail[j]
      BY <2>0 DEF EventOrder
    <3>2. \A i, j \in 1..Len(mail') : i < j => i + 1 < j + 1
      BY <1>a
    <3> QED
      BY <3>1, <3>2, <1>a
  <2>3. mail[1] <= retained /\ \A i \in 1..Len(mail') : mail[1] <= mail'[i]
    <3>1. \A i \in 1..Len(mail') : 1 < i + 1
      BY <1>a
    <3> QED
      BY <2>0, <3>1, <1>a DEF EventOrder
  <2>4. ASSUME NEW m \in Cycles, features[m] # NoRow
        PROVE  m <= retained /\ m <= mail[1] /\ \A i \in 1..Len(mail') : m <= mail'[i]
    BY <2>0, <2>4, <1>a DEF EventOrder
  <2>5. UNCHANGED <<events, pub, retained>>
    BY <1>0 DEF eventVars
  <2> QED
    BY <2>0, <2>1, <2>2, <2>3, <2>4, <2>5, <1>b, <1>d DEF EventOrder
<1> QED
  BY <1>1, <1>2, <1>3, <1>4, <1>5, <1>6, <1>7, <1>8 DEF AnalyticsIndInv

\* What the invariant says of the features table alone.
FeaturesOK ==
    /\ features \in [Cycles -> Rows]
    /\ \A n \in Cycles : features[n].rows \subseteq Window(n) /\ features[n].base < n
    /\ \A n \in Cycles : features[n] # NoRow =>
           /\ n <= completed
           /\ features[n].rows \subseteq CycleTelemetry(n)
           /\ features[n].r0 <=> EstimatesR0(n, features[n].rows)
    /\ pubErrors = 0 =>
           /\ \A n \in Cycles : features[n].base = Baseline(n, features[n].r0)
           /\ \A m \in Cycles : features[m] # NoRow =>
                  m <= retained /\ \A i \in 1..Len(mail) : m <= mail[i]

\* Mail that is only taken away.
MailShrinks ==
    /\ mail' \in Seq(Cycles) /\ Len(mail') \in Nat
    /\ \A i \in 1..Len(mail') : i \in 1..Len(mail) /\ mail'[i] = mail[i]

\* The table is as it was.
LEMMA KeepFeatures ==
  ASSUME AnalyticsIndInv, UNCHANGED <<rowVars, eventVars, features>>, MailShrinks
  PROVE  FeaturesOK'
<1>d. UNCHANGED <<stored, gaps, features, completed, pubErrors, retained>>
  BY DEF rowVars, eventVars
<1>1. /\ features' \in [Cycles -> Rows]
      /\ \A n \in Cycles : features'[n].rows \subseteq Window(n) /\ features'[n].base < n
  BY DEF AnalyticsIndInv, RecordTypes, TypeOK
<1>2. ASSUME NEW n \in Cycles, features'[n] # NoRow
      PROVE  /\ n <= completed'
             /\ features'[n].rows \subseteq CycleTelemetry(n)'
             /\ features'[n].r0 <=> EstimatesR0(n, features[n].rows)'
  <2>1. CycleTelemetry(n)' = CycleTelemetry(n)
    BY <1>d DEF CycleTelemetry, Labelled, Window
  <2>2. EstimatesR0(n, features[n].rows)' <=> EstimatesR0(n, features[n].rows)
    BY <1>d DEF EstimatesR0, Labelled, Window, StepOf
  <2> QED
    BY <2>1, <2>2, <1>2, <1>d DEF AnalyticsIndInv, RowsFromTable
<1>3. ASSUME pubErrors = 0, NEW n \in Cycles
      PROVE  features'[n].base = Baseline(n, features[n].r0)'
  <2>1. PreviousR0(n)' = PreviousR0(n)
    BY <1>d, PreviousKept
  <2> QED
    BY <2>1, <1>3, <1>d DEF AnalyticsIndInv, BasesPrevious, Baseline
<1>4. ASSUME pubErrors = 0, NEW m \in Cycles, features'[m] # NoRow
      PROVE  m <= retained' /\ \A i \in 1..Len(mail') : m <= mail'[i]
  BY <1>4, <1>d DEF AnalyticsIndInv, EventOrder, MailShrinks
<1> QED
  BY <1>1, <1>2, <1>3, <1>4, <1>d DEF FeaturesOK, Window

\* The event in hand is done with, the table may have changed.
LEMMA JobEnds ==
  ASSUME AnalyticsIndInv, FeaturesOK', job' = Idle, finished' \subseteq Cycles,
         UNCHANGED <<rowVars, eventVars>>, MailShrinks,
         alerts' \subseteq [n : Cycles, base : Cycles],
         drops' \in Nat, dbErrors' \in Nat, JumpsAlerted'
  PROVE  AnalyticsIndInv'
<1> USE ConstantFacts, EventTypes
<1>a. job'.at = "idle" /\ job'.n = 0 /\ job'.row = NoRow
      /\ job' = [at |-> "idle", n |-> 0, row |-> NoRow] /\ ~Computed'
  BY DEF Idle, Computed
<1>d. UNCHANGED <<stored, gaps, completed, pubErrors, retained, events, pub>>
  BY DEF rowVars, eventVars
<1>1. RowIndInv' /\ RowTypeOK'
  BY RowsUntouched DEF AnalyticsIndInv
<1>2. TypeOK'
  BY <1>1, <1>a, <1>d DEF AnalyticsIndInv, TypeOK, FeaturesOK, MailShrinks
<1>3. RecordTypes'
  <2>1. NoRow \in Rows
    BY DEF NoRow, Rows
  <2> QED
    BY <2>1, <1>a, <1>d DEF AnalyticsIndInv, RecordTypes, FeaturesOK
<1>4. EventsOfCycles' /\ OneGap'
  <2>1. OneGap'
    BY <1>d DEF AnalyticsIndInv, OneGap, Window
  <2>2. EventsOfCycles
    BY DEF AnalyticsIndInv
  <2>3. \A i \in 1..Len(mail') : mail'[i] <= completed
    BY <2>2 DEF EventsOfCycles, MailShrinks
  <2> QED
    BY <2>1, <2>2, <2>3, <1>a, <1>d DEF EventsOfCycles
<1>5. RowsFromTable' /\ AlertDue' /\ BasesPrevious'
  BY <1>a DEF FeaturesOK, RowsFromTable, AlertDue, BasesPrevious
<1>7. EventOrder'
  <2> SUFFICES ASSUME pubErrors = 0 PROVE EventOrder'
    BY <1>d DEF EventOrder
  <2>0. EventOrder
    BY DEF AnalyticsIndInv
  <2>1. \A i \in 1..Len(mail') : mail'[i] <= retained
    BY <2>0 DEF EventOrder, MailShrinks
  <2>2. \A i, j \in 1..Len(mail') : i < j => mail'[i] <= mail'[j]
    BY <2>0 DEF EventOrder, MailShrinks
  <2>3. \A m \in Cycles : features'[m] # NoRow =>
            m <= retained /\ \A i \in 1..Len(mail') : m <= mail'[i]
    BY <1>d DEF FeaturesOK
  <2>4. 0 <= retained /\ \A i \in 1..Len(mail') : 0 <= mail'[i]
    <3>1. ASSUME NEW i \in 1..Len(mail') PROVE 0 <= mail'[i]
      <4>1. mail'[i] = mail[i] /\ mail[i] \in Nat
        BY DEF MailShrinks
      <4> QED
        BY <4>1
    <3> QED
      BY <3>1
  <2> QED
    BY <2>0, <2>1, <2>2, <2>3, <2>4, <1>a, <1>d DEF EventOrder
<1> QED
  BY <1>1, <1>2, <1>3, <1>4, <1>5, <1>7 DEF AnalyticsIndInv

\* What is known of the event in hand.
LEMMA JobFacts ==
  ASSUME AnalyticsIndInv, job.at # "idle"
  PROVE  /\ job.n \in Cycles /\ job.n \in Nat /\ job.n > 0 /\ job.n <= completed
         /\ job.row \in Rows /\ finished \cup {job.n} \subseteq Cycles
         /\ job = [at |-> job.at, n |-> job.n, row |-> job.row]
<1> USE ConstantFacts
<1>1. job \in [at : {"idle", "fetch", "upsert", "alert"}, n : 0..Len(Ohm), row : Rows]
  BY DEF AnalyticsIndInv, RecordTypes
<1>2. job.n # 0 /\ finished \subseteq Cycles
  BY DEF AnalyticsIndInv, TypeOK
<1>3. job = [at |-> job.at, n |-> job.n, row |-> job.row] /\ job.row \in Rows
  BY <1>1
<1>4. job.n \in Cycles /\ job.n \in Nat /\ job.n > 0
  BY <1>1, <1>2
<1>5. job.n <= completed
  BY DEF AnalyticsIndInv, EventsOfCycles
<1> QED
  BY <1>2, <1>3, <1>4, <1>5

\* The upsert writes the row of the event in hand.
LEMMA UpsertFeatures ==
  ASSUME AnalyticsIndInv, job.at = "upsert", features' = Upserted,
         UNCHANGED <<rowVars, eventVars, mail>>
  PROVE  /\ FeaturesOK' /\ features'[job.n] = job.row
         /\ \A m \in Cycles : m # job.n => features'[m] = features[m]
         /\ pubErrors = 0 => \A m \in Cycles : features'[m] # NoRow => m <= job.n
<1> USE ConstantFacts, JobFacts
<1>d. UNCHANGED <<stored, gaps, completed, pubErrors, retained>>
  BY DEF rowVars, eventVars
<1>0. /\ features \in [Cycles -> Rows] /\ job.n \in Cycles /\ job.n \in Nat
      /\ job.row \in Rows /\ job.n <= completed
  BY DEF AnalyticsIndInv, RecordTypes
<1>1. /\ features' \in [Cycles -> Rows] /\ features'[job.n] = job.row
      /\ \A m \in Cycles : m # job.n => features'[m] = features[m]
  BY <1>0 DEF Upserted
<1>a. /\ job.row.rows \subseteq CycleTelemetry(job.n)
      /\ job.row.r0 <=> EstimatesR0(job.n, job.row.rows)
      /\ job.row.base < job.n
  BY DEF AnalyticsIndInv, RowsFromTable, Computed
<1>2. \A n \in Cycles : features'[n].rows \subseteq Window(n) /\ features'[n].base < n
  <2>1. job.row.rows \subseteq Window(job.n)
    BY <1>0, <1>a, TelemetryFacts DEF AnalyticsIndInv
  <2>2. \A n \in Cycles : features[n].rows \subseteq Window(n) /\ features[n].base < n
    BY DEF AnalyticsIndInv, TypeOK
  <2> QED
    BY <2>1, <2>2, <1>a, <1>1
<1>3. ASSUME NEW n \in Cycles, features'[n] # NoRow
      PROVE  /\ n <= completed'
             /\ features'[n].rows \subseteq CycleTelemetry(n)'
             /\ features'[n].r0 <=> EstimatesR0(n, features[n].rows)'
  <2>1. CycleTelemetry(n)' = CycleTelemetry(n)
    BY <1>d DEF CycleTelemetry, Labelled, Window
  <2>2. \A x : EstimatesR0(n, x)' <=> EstimatesR0(n, x)
    BY <1>d DEF EstimatesR0, Labelled, Window, StepOf
  <2>3. CASE n = job.n
    BY <2>1, <2>2, <2>3, <1>0, <1>a, <1>1, <1>d
  <2>4. CASE n # job.n
    <3>1. features'[n] = features[n]
      BY <2>4, <1>1
    <3> QED
      BY <3>1, <2>1, <2>2, <1>3, <1>d DEF AnalyticsIndInv, RowsFromTable
  <2> QED
    BY <2>3, <2>4
<1>4. ASSUME pubErrors = 0, NEW m \in Cycles, features'[m] # NoRow
      PROVE  m <= job.n /\ m <= retained /\ \A i \in 1..Len(mail) : m <= mail[i]
  <2>0. EventOrder
    BY DEF AnalyticsIndInv
  <2>1. CASE m = job.n
    BY <2>0, <2>1, <1>0, <1>4 DEF EventOrder
  <2>2. CASE m # job.n
    <3>1. features[m] # NoRow
      BY <2>2, <1>1, <1>4
    <3> QED
      BY <2>0, <3>1, <1>4 DEF EventOrder
  <2> QED
    BY <2>1, <2>2
<1>5. ASSUME pubErrors = 0, NEW n \in Cycles
      PROVE  features'[n].base = Baseline(n, features[n].r0)'
  <2>0. BasesPrevious /\ EventOrder /\ n \in Nat
    BY DEF AnalyticsIndInv
  <2>1. CASE n <= job.n
    <3>1. PreviousR0(n)' = PreviousR0(n)
      <4>1. \A m \in Cycles : m < n => m # job.n
        BY <2>1, <1>0
      <4> QED
        BY <4>1, <1>1, PreviousKept
    <3>2. CASE n = job.n
      BY <3>1, <3>2, <2>0, <1>1, <1>5 DEF BasesPrevious, Baseline, Computed
    <3>3. CASE n # job.n
      <4>1. features'[n] = features[n]
        BY <3>3, <1>1
      <4> QED
        BY <4>1, <3>1, <2>0, <1>5 DEF BasesPrevious, Baseline
    <3> QED
      BY <3>2, <3>3
  <2>2. CASE ~(n <= job.n)
    <3>1. features'[n] = NoRow
      BY <2>2, <1>4, <1>5
    <3> QED
      BY <3>1 DEF Baseline, NoRow
  <2> QED
    BY <2>1, <2>2
<1> QED
  BY <1>1, <1>2, <1>3, <1>4, <1>5, <1>d DEF FeaturesOK, Window

\* The event in hand goes on to the next of its awaits, the table may have
\* changed.
LEMMA JobContinues ==
  ASSUME AnalyticsIndInv, FeaturesOK', job.at # "idle",
         NEW n \in Cycles, NEW row \in Rows, NEW at \in {"upsert", "alert"},
         n = job.n, job' = [at |-> at, n |-> n, row |-> row],
         UNCHANGED <<rowVars, eventVars, mail, alerts, finished, drops, dbErrors>>,
         pubErrors = 0 => \A m \in Cycles : features'[m] # NoRow => m <= n,
         row.rows \subseteq CycleTelemetry(n)',
         features'[n].rows \subseteq row.rows,
         row.r0 <=> EstimatesR0(n, row.rows)',
         row.base < n,
         pubErrors = 0 => row.base = Baseline(n, row.r0)',
         AlertDue', JumpsAlerted'
  PROVE  AnalyticsIndInv'
<1> USE ConstantFacts, EventTypes, JobFacts
<1>d. UNCHANGED <<stored, gaps, completed, pubErrors, retained, events, pub>>
  BY DEF rowVars, eventVars
<1>j. job'.at = at /\ job'.n = n /\ job'.row = row
  OBVIOUS
<1>1. RowIndInv' /\ RowTypeOK'
  BY RowsUntouched DEF AnalyticsIndInv
<1>2. TypeOK'
  BY <1>j, <1>1, <1>d DEF AnalyticsIndInv, TypeOK, FeaturesOK
<1>3. RecordTypes'
  BY <1>d DEF AnalyticsIndInv, RecordTypes, FeaturesOK
<1>4. EventsOfCycles' /\ OneGap'
  BY <1>d, <1>j DEF AnalyticsIndInv, OneGap, Window, EventsOfCycles
<1>5. RowsFromTable'
  BY <1>j DEF FeaturesOK, RowsFromTable
<1>6. BasesPrevious'
  BY <1>d, <1>j DEF FeaturesOK, BasesPrevious
<1>7. EventOrder'
  <2> SUFFICES ASSUME pubErrors = 0 PROVE EventOrder'
    BY <1>d DEF EventOrder
  <2>0. EventOrder
    BY DEF AnalyticsIndInv
  <2>1. \A m \in Cycles : features'[m] # NoRow =>
            m <= retained /\ (\A i \in 1..Len(mail) : m <= mail[i]) /\ m <= n
    BY <1>d DEF FeaturesOK
  <2> QED
    BY <2>0, <2>1, <1>d, <1>j DEF EventOrder
<1> QED
  BY <1>1, <1>2, <1>3, <1>4, <1>5, <1>6, <1>7 DEF AnalyticsIndInv

\* The reads and compute_features.
LEMMA ComputeInd == ASSUME AnalyticsIndInv, Compute PROVE AnalyticsIndInv'
<1> USE ConstantFacts, EventTypes
<1>0. /\ job.at = "fetch"
      /\ UNCHANGED <<rowVars, eventVars, listening, mail, features, alerts, drops, dbErrors>>
  BY DEF Compute
<1>a. PICK n \in Cycles : n = job.n
  BY <1>0, JobFacts
<1>b. /\ n \in Nat /\ n > 0 /\ n <= completed /\ finished \cup {n} \subseteq Cycles
      /\ job = [at |-> "fetch", n |-> n, row |-> job.row]
  BY <1>0, <1>a, JobFacts
<1> DEFINE seen == CycleTelemetry(n)
           r0 == EstimatesR0(n, seen)
           base == IF r0 THEN PreviousR0(n) ELSE 0
<1>c. MailShrinks
  BY <1>0 DEF MailShrinks
<1>d. FeaturesOK'
  BY <1>0, <1>c, KeepFeatures
<1>e. UNCHANGED <<stored, gaps, completed, pubErrors, retained>>
  BY <1>0 DEF rowVars, eventVars
<1>1. CASE Finish
  <2>1. JumpsAlerted'
    BY <1>0, <1>1 DEF AnalyticsIndInv, JumpsAlerted, Jumps
  <2> QED
    BY <1>0, <1>1, <1>a, <1>b, <1>c, <1>d, <2>1, JobEnds DEF Finish, AnalyticsIndInv, RecordTypes
<1>2. CASE /\ job' = [job EXCEPT !.at = "upsert", !.row = [rows |-> seen, r0 |-> r0, base |-> base]]
           /\ UNCHANGED finished
  <2>1. seen \subseteq Samples
    BY TelemetryFacts, WindowFacts DEF AnalyticsIndInv
  <2>2. r0 \in BOOLEAN
    BY DEF EstimatesR0
  <2>3. PreviousR0(n) \in 0..Len(Ohm) /\ PreviousR0(n) < n
    BY PreviousFacts DEF AnalyticsIndInv
  <2>4. PICK x \in SUBSET Samples : x = seen
    BY <2>1
  <2>5. PICK b \in BOOLEAN : b = r0
    BY <2>2
  <2>6. PICK k \in 0..Len(Ohm) : k = base
    BY <2>3
  <2> DEFINE row == [rows |-> x, r0 |-> b, base |-> k]
  <2>7. row \in Rows /\ row.rows = x /\ row.r0 = b /\ row.base = k
    BY DEF Rows
  <2>8. job' = [at |-> "upsert", n |-> n, row |-> row]
    <3> HIDE DEF seen, r0, base
    <3> DEFINE w == [rows |-> seen, r0 |-> r0, base |-> base]
    <3>1. w = row
      BY <2>4, <2>5, <2>6
    <3>2. job' = [job EXCEPT !.at = "upsert", !.row = w]
      BY <1>2
    <3> HIDE DEF w, row
    <3>a. PICK v \in Rows : job = [at |-> "fetch", n |-> n, row |-> v]
      BY <1>0, <1>b, JobFacts
    <3>3. job' = [at |-> "upsert", n |-> n, row |-> w]
      BY <3>2, <3>a
    <3> QED
      BY <3>1, <3>3
  <2>9. CycleTelemetry(n)' = x
    BY <2>4, <1>e DEF CycleTelemetry, Labelled, Window
  <2>10. EstimatesR0(n, x)' <=> b
    <3>1. EstimatesR0(n, x)' <=> EstimatesR0(n, x)
      BY <1>e DEF EstimatesR0, Labelled, Window, StepOf
    <3> QED
      BY <3>1, <2>4, <2>5
  <2>11. k < n /\ k = Baseline(n, b)'
    <3>1. PreviousR0(n)' = PreviousR0(n)
      BY <1>0, PreviousKept
    <3>2. k < n /\ k = IF b THEN PreviousR0(n) ELSE 0
      BY <2>3, <2>5, <2>6, <1>b
    <3> QED
      BY <3>1, <3>2 DEF Baseline
  <2>12. features'[n].rows \subseteq x
    <3>1. CASE features[n] = NoRow
      BY <3>1, <1>0 DEF NoRow
    <3>2. CASE features[n] # NoRow
      BY <3>2, <1>0, <2>4 DEF AnalyticsIndInv, RowsFromTable
    <3> QED
      BY <3>1, <3>2
  <2> HIDE DEF row
  <2>13. AlertDue' /\ JumpsAlerted'
    BY <1>0, <2>8 DEF AlertDue, AnalyticsIndInv, JumpsAlerted, Jumps
  <2>14. pubErrors = 0 => \A m \in Cycles : features'[m] # NoRow => m <= n
    BY <1>0, <1>a, <1>b DEF AnalyticsIndInv, EventOrder
  <2>15. /\ features'[n].rows \subseteq row.rows /\ row.rows \subseteq CycleTelemetry(n)'
         /\ row.base < n /\ row.base = Baseline(n, row.r0)'
    BY <2>7, <2>9, <2>11, <2>12
  <2>16. row.r0 <=> EstimatesR0(n, row.rows)'
    BY <2>7, <2>10
  <2>17. UNCHANGED <<rowVars, eventVars, mail, alerts, finished, drops, dbErrors>>
         /\ job.at # "idle"
    BY <1>0, <1>2
  <2> QED
    BY <1>a, <1>d, <2>7, <2>8, <2>13, <2>14, <2>15, <2>16, <2>17, JobContinues
<1> QED
  BY <1>1, <1>2, <1>a DEF Compute

\* The upsert, on to the alert or done.
LEMMA UpsertInd == ASSUME AnalyticsIndInv, Upsert PROVE AnalyticsIndInv'
<1> USE ConstantFacts, EventTypes
<1>0. /\ job.at = "upsert" /\ features' = Upserted
      /\ UNCHANGED <<rowVars, eventVars, listening, mail, alerts, drops, dbErrors>>
  BY DEF Upsert
<1>a. PICK n \in Cycles : n = job.n
  BY <1>0, JobFacts
<1>b. PICK row \in Rows : row = job.row
  BY <1>0, JobFacts
<1>c. /\ n \in Nat /\ n > 0 /\ n <= completed /\ finished \cup {n} \subseteq Cycles
      /\ job = [at |-> "upsert", n |-> n, row |-> row]
  BY <1>0, <1>a, <1>b, JobFacts
<1>d. /\ FeaturesOK' /\ features'[n] = row
      /\ \A m \in Cycles : m # n => features'[m] = features[m]
      /\ pubErrors = 0 => \A m \in Cycles : features'[m] # NoRow => m <= n
  BY <1>0, <1>a, <1>b, UpsertFeatures
<1>e. UNCHANGED <<stored, gaps, completed, pubErrors, retained>>
  BY <1>0 DEF rowVars, eventVars
<1>f. MailShrinks
  BY <1>0 DEF MailShrinks
<1>g. ASSUME NEW m \in Cycles, m # n, drops + dbErrors = 0, Jumps(m, features'[m])
      PROVE  [n |-> m, base |-> features'[m].base] \in alerts'
  BY <1>0, <1>d, <1>g DEF AnalyticsIndInv, JumpsAlerted
<1>1. CASE ~Jumps(n, row) /\ Finish
  <2>1. JumpsAlerted'
    BY <1>0, <1>1, <1>d, <1>g DEF JumpsAlerted, Jumps
  <2> QED
    BY <1>0, <1>1, <1>a, <1>c, <1>d, <1>f, <2>1, JobEnds DEF Finish, AnalyticsIndInv, RecordTypes
<1>2. CASE Jumps(n, row) /\ job' = [job EXCEPT !.at = "alert"] /\ UNCHANGED finished
  <2>1. job' = [at |-> "alert", n |-> n, row |-> row]
    BY <1>2, <1>c
  <2>2. JumpsAlerted'
    BY <1>0, <2>1, <1>d, <1>g DEF JumpsAlerted, Jumps
  <2>a. job'.at = "alert" /\ job'.n = n /\ job'.row = row /\ row.base > 0
    BY <1>2, <2>1 DEF Jumps
  <2>3. AlertDue'
    BY <2>a, <1>d DEF AlertDue
  <2>4. /\ row.rows \subseteq CycleTelemetry(n) /\ row.base < n
        /\ row.r0 <=> EstimatesR0(n, row.rows)
    BY <1>0, <1>a, <1>b DEF AnalyticsIndInv, RowsFromTable, Computed
  <2>5. CycleTelemetry(n)' = CycleTelemetry(n)
    BY <1>e DEF CycleTelemetry, Labelled, Window
  <2>6. EstimatesR0(n, row.rows)' <=> EstimatesR0(n, row.rows)
    BY <1>e DEF EstimatesR0, Labelled, Window, StepOf
  <2>7. pubErrors = 0 => row.base = Baseline(n, row.r0)'
    <3>1. PreviousR0(n)' = PreviousR0(n)
      <4>1. \A m \in Cycles : m < n => features'[m] = features[m]
        BY <1>c, <1>d
      <4> QED
        BY <4>1, PreviousKept
    <3> QED
      BY <3>1, <1>0, <1>a, <1>b DEF AnalyticsIndInv, BasesPrevious, Baseline, Computed
  <2>8. /\ features'[n].rows \subseteq row.rows /\ row.rows \subseteq CycleTelemetry(n)'
        /\ row.r0 <=> EstimatesR0(n, row.rows)'
    BY <1>d, <2>4, <2>5, <2>6
  <2>9. UNCHANGED <<rowVars, eventVars, mail, alerts, finished, drops, dbErrors>>
        /\ job.at # "idle"
    BY <1>0, <1>2
  <2> QED
    BY <1>a, <1>d, <2>1, <2>2, <2>3, <2>4, <2>7, <2>8, <2>9, JobContinues
<1> QED
  BY <1>1, <1>2, <1>a, <1>b DEF Upsert

\* A new alert is one of the row that was written.
LEMMA NewAlertFacts ==
  ASSUME AnalyticsIndInv, job.at = "alert"
  PROVE  /\ NewAlert \subseteq [n : Cycles, base : Cycles]
         /\ features[job.n] = job.row /\ job.row.base \in Cycles
<1> USE ConstantFacts, JobFacts
<1>1. features[job.n] = job.row /\ job.row.base > 0 /\ job.row \in Rows /\ job.n \in Cycles
  BY DEF AnalyticsIndInv, AlertDue
<1>2. job.row.base \in Cycles
  BY <1>1 DEF Rows
<1>3. alerts \subseteq [n : Cycles, base : Cycles]
  BY DEF AnalyticsIndInv, RecordTypes
<1> QED
  BY <1>1, <1>2, <1>3 DEF NewAlert

\* The alert is written.
LEMMA AlertInd == ASSUME AnalyticsIndInv, Alert PROVE AnalyticsIndInv'
<1>0. /\ job.at = "alert" /\ alerts' = NewAlert /\ Finish
      /\ UNCHANGED <<rowVars, eventVars, listening, mail, features, drops, dbErrors>>
  BY DEF Alert
<1>1. MailShrinks
  BY <1>0, EventTypes DEF MailShrinks
<1>2. FeaturesOK'
  BY <1>0, <1>1, KeepFeatures
<1>3. /\ alerts' \subseteq [n : Cycles, base : Cycles] /\ features[job.n] = job.row
      /\ finished' \subseteq Cycles
  BY <1>0, NewAlertFacts, JobFacts DEF Finish
<1>4. JumpsAlerted'
  <2>1. [n |-> job.n, base |-> job.row.base] \in alerts' /\ alerts \subseteq alerts'
    BY <1>0 DEF NewAlert
  <2> QED
    BY <2>1, <1>0, <1>3 DEF AnalyticsIndInv, JumpsAlerted, Jumps, Finish
<1> QED
  BY <1>0, <1>1, <1>2, <1>3, <1>4, JobEnds DEF Finish, AnalyticsIndInv, RecordTypes

\* A statement fails, with or without effect.
LEMMA DbErrorInd == ASSUME AnalyticsIndInv, DbError PROVE AnalyticsIndInv'
<1>0. /\ job.at # "idle" /\ dbErrors' = dbErrors + 1 /\ Finish
      /\ UNCHANGED <<rowVars, eventVars, listening, mail, drops>>
  BY DEF DbError
<1>1. MailShrinks
  BY <1>0, EventTypes DEF MailShrinks
<1>2. drops' \in Nat /\ dbErrors' \in Nat /\ drops' + dbErrors' # 0
  BY <1>0 DEF AnalyticsIndInv, RecordTypes
<1>3. JumpsAlerted'
  BY <1>2 DEF JumpsAlerted
<1>4. finished' \subseteq Cycles /\ job' = Idle
  BY <1>0, JobFacts DEF Finish
<1>5. FeaturesOK' /\ alerts' \subseteq [n : Cycles, base : Cycles]
  <2>0. alerts \subseteq [n : Cycles, base : Cycles]
    BY DEF AnalyticsIndInv, RecordTypes
  <2>1. CASE UNCHANGED <<features, alerts>>
    BY <2>0, <2>1, <1>0, <1>1, KeepFeatures
  <2>2. CASE job.at = "upsert" /\ features' = Upserted /\ UNCHANGED alerts
    BY <2>0, <2>2, <1>0, UpsertFeatures
  <2>3. CASE job.at = "alert" /\ alerts' = NewAlert /\ UNCHANGED features
    BY <2>3, <1>0, <1>1, KeepFeatures, NewAlertFacts
  <2> QED
    BY <2>1, <2>2, <2>3 DEF DbError
<1> QED
  BY <1>0, <1>1, <1>2, <1>3, <1>4, <1>5, JobEnds

\* The connection breaks; the event in hand goes on or is lost.
LEMMA HangupInd == ASSUME AnalyticsIndInv, Hangup PROVE AnalyticsIndInv'
<1> USE ConstantFacts, EventTypes
<1>0. /\ drops' = drops + 1 /\ mail' = <<>> /\ job' \in {job, Idle}
      /\ UNCHANGED <<rowVars, eventVars, features, alerts, finished, dbErrors>>
  BY DEF Hangup
<1>1. mail' \in Seq(Cycles) /\ Len(mail') = 0 /\ MailShrinks
  BY <1>0, EmptySeq DEF MailShrinks
<1>2. drops' \in Nat /\ dbErrors' \in Nat /\ drops' + dbErrors' # 0
  BY <1>0 DEF AnalyticsIndInv, RecordTypes
<1>3. JumpsAlerted'
  BY <1>2 DEF JumpsAlerted
<1>4. CASE job' = Idle
  <2>1. FeaturesOK'
    BY <1>0, <1>1, KeepFeatures
  <2>2. finished' \subseteq Cycles /\ alerts' \subseteq [n : Cycles, base : Cycles]
    BY <1>0 DEF AnalyticsIndInv, TypeOK, RecordTypes
  <2> QED
    BY <1>0, <1>1, <1>2, <1>3, <1>4, <2>1, <2>2, JobEnds
<1>5. CASE job' = job
  <2>d. UNCHANGED <<stored, gaps, completed, pubErrors, retained, events, pub, features, job>>
    BY <1>0, <1>5 DEF rowVars, eventVars
  <2>1. RowIndInv' /\ RowTypeOK'
    BY <1>0, RowsUntouched DEF AnalyticsIndInv
  <2>2. TypeOK'
    BY <1>0, <1>1, <2>1, <2>d DEF AnalyticsIndInv, TypeOK, Window
  <2>3. RecordTypes'
    BY <1>0, <1>2, <2>d DEF AnalyticsIndInv, RecordTypes
  <2>4. EventsOfCycles' /\ OneGap'
    BY <1>1, <2>d DEF AnalyticsIndInv, EventsOfCycles, OneGap, Window
  <2>5. RowsFromTable' /\ AlertDue'
    <3>1. /\ stored' \in [Samples -> Nat] /\ \A s \in Samples : stored[s] <= stored'[s]
      BY <2>d DEF AnalyticsIndInv, TypeOK, RowTypeOK
    <3>2. \A n \in Cycles : n <= completed => Labelled(n)' = Labelled(n)
      BY <2>d DEF Labelled, Window
    <3>3. completed' \in Nat /\ completed <= completed'
      BY <2>d
    <3> QED
      BY <2>d, <3>1, <3>2, <3>3, KeepTables
  <2>6. BasesPrevious'
    BY <2>d, KeepBases
  <2>7. EventOrder'
    BY <1>1, <2>d DEF AnalyticsIndInv, EventOrder
  <2> QED
    BY <1>3, <2>1, <2>2, <2>3, <2>4, <2>5, <2>6, <2>7 DEF AnalyticsIndInv
<1> QED
  BY <1>0, <1>4, <1>5

\* The inductive step.
LEMMA AnalyticsNext == AnalyticsIndInv /\ [Next]_vars => AnalyticsIndInv'
<1> SUFFICES ASSUME AnalyticsIndInv, [Next]_vars PROVE AnalyticsIndInv'
  OBVIOUS
<1>1. CASE UNCHANGED vars
  <2>1. UNCHANGED <<rowVars, eventVars, jobVars>>
    BY <1>1 DEF vars
  <2>2. /\ RowIndInv' /\ RowTypeOK' /\ OneGap' /\ RowsFromTable' /\ AlertDue'
        /\ BasesPrevious' /\ JumpsAlerted'
    BY <2>1, OnlyEvents DEF eventVars, jobVars
  <2>3. TypeOK'
    BY <2>1, <2>2 DEF AnalyticsIndInv, TypeOK, eventVars, jobVars, Window
  <2>4. RecordTypes' /\ EventsOfCycles' /\ EventOrder'
    BY <2>1 DEF AnalyticsIndInv, RecordTypes, EventsOfCycles, EventOrder, eventVars, jobVars
  <2> QED
    BY <2>2, <2>3, <2>4 DEF AnalyticsIndInv
<1> QED
  BY <1>1, RowPathInd, CycleCompleteInd, GetEventInd, PublishInd, PublishErrorInd,
     ReconnectInd, ListenInd, TakeEventInd, ComputeInd, UpsertInd, AlertInd,
     DbErrorInd, HangupInd DEF Next, Publisher, Service

-----------------------------------------------------------------------------
(* The theorems.                                                           *)

\* The inductive invariant: without a publish error events are handled in the
\* order of their cycles, features are computed from rows of the table, and each
\* baseline is still the nearest earlier R0.
THEOREM AnalyticsInvariance == Spec => []AnalyticsIndInv
  BY AnalyticsInit, AnalyticsNext, PTL DEF Spec

\* Type correctness of the row path, the events and the features.
THEOREM AnalyticsTypes == Spec => []TypeOK
<1>1. AnalyticsIndInv => TypeOK
  BY DEF AnalyticsIndInv
<1> QED
  BY <1>1, AnalyticsInvariance, PTL

\* The ingester's at-most-once delivery, while the analytics service reads.
THEOREM RowsStoredOnceAlways == Spec => []RowsStoredOnce
<1>1. AnalyticsIndInv => RowsStoredOnce
  BY RowFactsSuffice DEF AnalyticsIndInv, RowIndInv
<1> QED
  BY <1>1, AnalyticsInvariance, PTL

\* cycle_features.r0_jump_pct is relative to the nearest earlier cycle that has
\* features (previous_r0), unless a publish error reordered the events.
THEOREM BaselineAlways == Spec => []BaselineIsNearest
<1>1. AnalyticsIndInv => BaselineIsNearest
  <2> SUFFICES ASSUME AnalyticsIndInv, pubErrors = 0, NEW n \in Cycles, features[n].base > 0
               PROVE  /\ features[features[n].base].r0
                      /\ \A m \in (features[n].base + 1)..(n - 1) : features[m] = NoRow
    BY DEF BaselineIsNearest
  <2>1. features[n].base = Baseline(n, features[n].r0)
    BY DEF AnalyticsIndInv, BasesPrevious
  <2>2. features[n].base = PreviousR0(n)
    BY <2>1 DEF Baseline
  <2> QED
    BY <2>2, PreviousFacts DEF AnalyticsIndInv
<1> QED
  BY <1>1, AnalyticsInvariance, PTL

\* Where CC comes before CV, more rows do not take an R0 estimate away.
LEMMA EstimateGrows ==
  ASSUME ChargesOnce, NEW n \in Cycles, NEW x, NEW y, x \subseteq y, EstimatesR0(n, x)
  PROVE  EstimatesR0(n, y)
<1> DEFINE Of(z, step) == {s \in z \cap Labelled(n) : StepOf(s) = step}
<1>0. Labelled(n) \subseteq Window(n)
  BY DEF Labelled
<1>1. Ohm[n] > 0 /\ Of(x, "cc") # {} /\ Of(x, "cv") # {}
  BY DEF EstimatesR0
<1>2. Of(y, "cc") # {} /\ Of(y, "cv") # {}
  <2>1. Of(x, "cc") \subseteq Of(y, "cc") /\ Of(x, "cv") \subseteq Of(y, "cv")
    OBVIOUS
  <2> HIDE DEF Of
  <2> QED
    BY <2>1, <1>1
<1> DEFINE cc == Of(y, "cc")
           cv == Of(y, "cv")
<1>3. \A s \in cc : s \in Window(n) /\ StepOf(s) = "cc"
  BY <1>0
<1>4. \A s \in cv : s \in Window(n) /\ StepOf(s) = "cv"
  BY <1>0
<1>5. Window(n) \subseteq Nat /\ Window(n) \subseteq 0..(n * L) /\ n * L \in Nat
  BY WindowFacts DEF Window, Samples
<1>6. EstimatesR0(n, y) <=> Ohm[n] > 0 /\ cc # {} /\ cv # {} /\ Max(cc) < Min(cv)
  BY DEF EstimatesR0
<1>7. cc # {} /\ cv # {}
  BY <1>2
<1> HIDE DEF cc, cv
<1>8. cc \in SUBSET (0..(n * L)) /\ cv \in SUBSET Nat
  BY <1>3, <1>4, <1>5
<1>9. Max(cc) \in cc /\ Min(cv) \in cv
  BY <1>5, <1>7, <1>8, MaxFacts, MinFacts
<1>10. Max(cc) < Min(cv)
  BY <1>3, <1>4, <1>9 DEF ChargesOnce
<1> QED
  BY <1>1, <1>6, <1>7, <1>10

\* The rewritten row of a cycle that was alerted has the same baseline.
LEMMA UpsertKeepsAlerts ==
  ASSUME ChargesOnce, AnalyticsIndInv, AlertsHeld, pubErrors = 0,
         job.at = "upsert", features' = Upserted, NEW a \in alerts
  PROVE  features'[a.n].r0 /\ features'[a.n].base = a.base
<1> USE ConstantFacts
<1>0. /\ a.n \in Cycles /\ features[a.n].r0 /\ features[a.n].base = a.base
      /\ features \in [Cycles -> Rows] /\ job.n \in Cycles
  BY JobFacts DEF AlertsHeld, AnalyticsIndInv, RecordTypes
<1>1. CASE a.n # job.n
  BY <1>0, <1>1 DEF Upserted
<1>2. CASE a.n = job.n
  <2>1. features'[a.n] = job.row
    BY <1>0, <1>2 DEF Upserted
  <2>2. features[a.n] # NoRow
    BY <1>0 DEF NoRow
  <2>3. EstimatesR0(a.n, features[a.n].rows)
    BY <2>2, <1>0 DEF AnalyticsIndInv, RowsFromTable
  <2>4. /\ features[a.n].rows \subseteq job.row.rows
        /\ job.row.r0 <=> EstimatesR0(a.n, job.row.rows)
    BY <1>2 DEF AnalyticsIndInv, RowsFromTable, Computed
  <2>5. job.row.r0
    BY <2>3, <2>4, <1>0, EstimateGrows
  <2>6. job.row.base = PreviousR0(a.n) /\ features[a.n].base = PreviousR0(a.n)
    BY <2>5, <1>0, <1>2 DEF AnalyticsIndInv, BasesPrevious, Baseline, Computed
  <2> QED
    BY <2>1, <2>5, <2>6, <1>0
<1> QED
  BY <1>1, <1>2

\* Alerts and rows keep agreeing.
LEMMA AlertsNext ==
  ASSUME ChargesOnce
  PROVE  AnalyticsIndInv /\ AlertsHeld /\ [Next]_vars => AlertsHeld'
<1> SUFFICES ASSUME AnalyticsIndInv, AlertsHeld, [Next]_vars, pubErrors' = 0
             PROVE  \A a \in alerts' : features'[a.n].r0 /\ features'[a.n].base = a.base
  BY DEF AlertsHeld
<1>1. pubErrors = 0
  <2>1. pubErrors \in Nat
    BY DEF AnalyticsIndInv, RecordTypes
  <2>2. pubErrors' = pubErrors \/ pubErrors' = pubErrors + 1
    BY DEF Next, RowPath, CycleComplete, Publisher, GetEvent, Publish, Reconnect, PublishError,
           Service, Listen, TakeEvent, Compute, Upsert, Alert, DbError, Hangup, vars, eventVars
  <2> QED
    BY <2>1, <2>2
<1>2. \/ UNCHANGED <<features, alerts>>
      \/ job.at = "upsert" /\ features' = Upserted /\ UNCHANGED alerts
      \/ job.at = "alert" /\ alerts' = NewAlert /\ UNCHANGED features
  BY DEF Next, RowPath, CycleComplete, Publisher, GetEvent, Publish, Reconnect, PublishError,
         Service, Listen, TakeEvent, Compute, Upsert, Alert, DbError, Hangup, vars, jobVars
<1>3. CASE UNCHANGED <<features, alerts>>
  BY <1>1, <1>3 DEF AlertsHeld
<1>4. CASE job.at = "upsert" /\ features' = Upserted /\ UNCHANGED alerts
  BY <1>1, <1>4, UpsertKeepsAlerts
<1>5. CASE job.at = "alert" /\ alerts' = NewAlert /\ UNCHANGED features
  <2>1. features[job.n] = job.row /\ job.row.base > 0
    BY <1>5 DEF AnalyticsIndInv, AlertDue
  <2>2. job.row.r0
    BY <2>1, <1>1, <1>5 DEF AnalyticsIndInv, BasesPrevious, Baseline, Computed
  <2>3. ASSUME NEW a \in alerts' PROVE features[a.n].r0 /\ features[a.n].base = a.base
    <3>1. CASE a \in alerts
      BY <3>1, <1>1 DEF AlertsHeld
    <3>2. CASE a = [n |-> job.n, base |-> job.row.base]
      BY <3>2, <2>1, <2>2
    <3> QED
      BY <3>1, <3>2, <1>5 DEF NewAlert
  <2> QED
    BY <2>3, <1>5
<1> QED
  BY <1>2, <1>3, <1>4, <1>5

\* Alerts quote the baseline of their cycle's row, also after the event was
\* processed again on more rows, and without a drop or a failing statement
\* every jump above the threshold is alerted (process_cycle); for every profile
\* that charges with CC before CV, as the schedules of the repository do.
THEOREM AlertsMatchAlways ==
  ASSUME ChargesOnce PROVE Spec => []AlertsMatchFeatures
<1>1. Init => AlertsHeld
  BY DEF Init, AlertsHeld
<1>2. AnalyticsIndInv /\ AlertsHeld /\ [Next]_vars => AlertsHeld'
  BY AlertsNext
<1>3. AnalyticsIndInv /\ AlertsHeld => AlertsMatchFeatures
  BY DEF AnalyticsIndInv, AlertsHeld, JumpsAlerted, AlertsMatchFeatures
<1> QED
  BY <1>1, <1>2, <1>3, AnalyticsInvariance, PTL DEF Spec
=============================================================================
