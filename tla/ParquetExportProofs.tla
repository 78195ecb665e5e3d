------------------------- MODULE ParquetExportProofs -------------------------
(***************************************************************************)
(* The safety properties of ParquetExport, for every number of hours and   *)
(* batches, every export age, and every number of late batches, errors and *)
(* kills.                                                                  *)
(***************************************************************************)
EXTENDS ParquetExport, WellFoundedInduction, TLAPS

(* Facts about the operators.                                              *)

\* A non-empty set of naturals has a least element, which Min is.
LEMMA LeastHour ==
  ASSUME NEW T \in SUBSET Nat, T # {}
  PROVE  Min(T) \in T
<1>1. IsWellFoundedOn(OpToRel(<, Nat), Nat)
  BY NatLessThanWellFounded
<1>2. PICK x \in T : \A y \in T : ~(<<y, x>> \in OpToRel(<, Nat))
  BY <1>1, WFMin
<1>3. \A y \in T : ~(y < x)
  BY <1>2 DEF OpToRel
<1>4. \A y \in T : x <= y
  BY <1>3
<1> QED
  BY <1>4 DEF Min

\* An hour has batches, and they have numbers.
LEMMA OnTimeFacts == OnTime \subseteq AllBatches /\ OnTime # {}
<1>1. 1 \in OnTime
  BY ExportAssumption DEF OnTime
<1> QED
  BY <1>1, ExportAssumption DEF OnTime, AllBatches

\* The next hour of a pass is one of those left; without one the pass drops.
LEMMA NextHourFacts ==
  ASSUME NEW x \in Exporters, NEW left \in SUBSET Hours, NextHour(x, left), TypeOK
  PROVE  /\ at' \in [Exporters -> Awaits] /\ hour' \in [Exporters -> Hours]
         /\ \A y \in Exporters \ {x} : at'[y] = at[y] /\ hour'[y] = hour[y]
         /\ \/ at'[x] = "drop" /\ left = {}
            \/ at'[x] = "open" /\ hour'[x] \in left
<1>1. CASE left = {}
  BY <1>1 DEF NextHour, Goto, TypeOK, Awaits
<1>2. CASE left # {}
  <2>1. Min(left) \in left
    BY <1>2, LeastHour DEF Hours
  <2> QED
    BY <1>2, <2>1 DEF NextHour, Goto, TypeOK, Awaits
<1> QED
  BY <1>1, <1>2

\* Two exporters that have run are both of them.
LEMMA AloneOrBoth ==
  ASSUME TypeOK, ran # {"periodic", "now"}, NEW x \in ran, NEW y \in ran
  PROVE  x = y
BY ExportAssumption DEF TypeOK

-----------------------------------------------------------------------------
(* Initial states.                                                         *)

\* The system starts with empty tables and idle exporters.
LEMMA ExportInit == Init => ExportIndInv
<1> SUFFICES ASSUME Init PROVE ExportIndInv
  OBVIOUS
<1>1. TypeOK
  BY ExportAssumption DEF Init, TypeOK, Awaits, Hours
<1>2. PassBounds /\ Counted
  BY ExportAssumption DEF Init, PassBounds, Counted, InHour
<1>3. LedgerMatchesArchive /\ HoursComplete /\ ReadsComplete
  BY DEF Init, LedgerMatchesArchive, HoursComplete, ReadsComplete, Hours
<1>4. WholeHours
  BY DEF Init, WholeHours
<1>5. AloneExact
  BY DEF Init, AloneExact, Hours
<1> QED
  BY <1>1, <1>2, <1>3, <1>4, <1>5 DEF ExportIndInv

-----------------------------------------------------------------------------
(* The rest of the system.                                                 *)

\* An hour that goes by is complete in the hypertable.
LEMMA HourPassesStep == ExportIndInv /\ HourPasses => ExportIndInv'
<1> SUFFICES ASSUME ExportIndInv, HourPasses PROVE ExportIndInv'
  OBVIOUS
<1> USE DEF passes, faults
<1>1. TypeOK /\ PassBounds /\ Counted
  BY DEF ExportIndInv
<1>2. clock \in Hours /\ clock' \in 0..MaxHour /\ clock' = clock + 1
  BY <1>1, ExportAssumption DEF HourPasses, TypeOK, Hours
<1>3. TypeOK'
  <2>1. telemetry' \in [Hours -> SUBSET AllBatches]
    BY <1>1, <1>2, OnTimeFacts DEF HourPasses, TypeOK
  <2>2. cutoff' \in [Exporters -> 0..clock']
    BY <1>1, <1>2 DEF HourPasses, TypeOK
  <2> QED
    BY <1>1, <1>2, <2>1, <2>2 DEF HourPasses, TypeOK
<1>4. PassBounds' /\ Counted'
  BY <1>1 DEF HourPasses, PassBounds, Counted, InHour
<1>5. ASSUME ~Interfered'
      PROVE  (LedgerMatchesArchive /\ HoursComplete /\ ReadsComplete /\ WholeHours /\ AloneExact)'
  <2>1. ~Interfered
    BY <1>5 DEF Interfered, HourPasses
  <2>2. LedgerMatchesArchive /\ HoursComplete /\ ReadsComplete /\ WholeHours /\ AloneExact
    BY <2>1 DEF ExportIndInv
  <2>3. /\ OnTime \subseteq telemetry'[clock]
        /\ \A h \in Hours \ {clock} : telemetry'[h] = telemetry[h]
    BY <1>1, <1>2 DEF HourPasses, TypeOK
  <2>4. \A h \in Hours : h < clock' => h < clock \/ h = clock
    BY <1>1, <1>2 DEF TypeOK, Hours
  <2>5. LedgerMatchesArchive'
    BY <2>2, <2>1 DEF LedgerMatchesArchive, HourPasses
  <2>6. HoursComplete'
    BY <1>2, <2>2, <2>3, <2>4 DEF HoursComplete, Archived, HourPasses
  <2>7. ReadsComplete'
    BY <2>2 DEF ReadsComplete, Archived, HourPasses
  <2>8. WholeHours'
    <3>1. telemetry[clock] \in {{}, OnTime} => telemetry'[clock] \in {{}, OnTime}
      BY <1>1, <1>2 DEF HourPasses, TypeOK
    <3> QED
      BY <1>2, <2>2, <2>3, <3>1 DEF WholeHours, HourPasses
  <2>9. AloneExact'
    BY <1>2, <2>2, <2>3, <2>4 DEF AloneExact, HourPasses
  <2> QED
    BY <2>5, <2>6, <2>7, <2>8, <2>9
<1> QED
  BY <1>3, <1>4, <1>5 DEF ExportIndInv

\* A late batch disturbs only an archive that two exporters work on.
LEMMA LateBatchStep ==
  ASSUME ExportIndInv, NEW l \in Hours, LateBatch(l)
  PROVE  ExportIndInv'
<1> USE DEF passes
<1>1. TypeOK /\ PassBounds /\ Counted
  BY DEF ExportIndInv
<1>2. late' \in 1..MaxLate /\ late' = late + 1
  BY <1>1, ExportAssumption DEF LateBatch, Counted
<1>3. /\ telemetry' \in [Hours -> SUBSET AllBatches]
      /\ \A h \in Hours : telemetry[h] \subseteq telemetry'[h]
  <2>1. Batches + late' \in AllBatches
    BY <1>2, ExportAssumption DEF AllBatches
  <2> QED
    BY <1>1, <2>1 DEF LateBatch, TypeOK
<1>4. TypeOK' /\ PassBounds' /\ Counted'
  BY <1>1, <1>2, <1>3 DEF LateBatch, TypeOK, PassBounds, Counted, InHour
<1>5. ASSUME ~Interfered'
      PROVE  (LedgerMatchesArchive /\ HoursComplete /\ ReadsComplete /\ WholeHours /\ AloneExact)'
  <2>1. ~Interfered
    BY <1>1, <1>2, <1>5 DEF Interfered, LateBatch, Counted
  <2>2. LedgerMatchesArchive /\ HoursComplete /\ ReadsComplete /\ AloneExact
    BY <2>1 DEF ExportIndInv
  <2>3. LedgerMatchesArchive' /\ ReadsComplete'
    BY <2>2, <2>1 DEF LedgerMatchesArchive, LateBatch, ReadsComplete, Archived
  <2>4. HoursComplete'
    BY <2>2, <1>3 DEF HoursComplete, Archived, LateBatch
  <2>5. WholeHours'
    BY <1>2 DEF WholeHours
  <2>6. AloneExact'
    BY <2>2, <1>3 DEF AloneExact, LateBatch
  <2> QED
    BY <2>3, <2>4, <2>5, <2>6
<1> QED
  BY <1>4, <1>5 DEF ExportIndInv

-----------------------------------------------------------------------------
(* run_once.                                                               *)

\* A pass starts with the hours before its cutoff that are not archived.
LEMMA StartPassStep ==
  ASSUME ExportIndInv, NEW x \in Exporters, StartPass(x)
  PROVE  ExportIndInv'
<1> USE DEF tables, faults
<1> DEFINE c == Cutoff(x)
           found == {h \in Hours : FindPending(h, c)}
<1>1. TypeOK /\ PassBounds /\ Counted
  BY DEF ExportIndInv
<1>2. c \in 0..clock
  BY <1>1, ExportAssumption DEF Cutoff, Age, TypeOK
<1>3. /\ at[x] = "idle" /\ NextHour(x, found) /\ ran' = ran \cup {x}
      /\ cutoff' = [cutoff EXCEPT ![x] = c] /\ pending' = [pending EXCEPT ![x] = found]
      /\ UNCHANGED <<clock, tables, unread, written, faults>>
  BY DEF StartPass
<1>4. /\ found \in SUBSET Hours
      /\ \A h \in Hours : h \in found <=> telemetry[h] # {} /\ h < c /\ h \notin ledger
  BY DEF FindPending
<1> HIDE DEF c, found
<1>5. /\ at' \in [Exporters -> Awaits] /\ hour' \in [Exporters -> Hours]
      /\ \A y \in Exporters \ {x} : at'[y] = at[y] /\ hour'[y] = hour[y]
      /\ \/ at'[x] = "drop" /\ found = {}
         \/ at'[x] = "open" /\ hour'[x] \in found
  BY <1>1, <1>3, <1>4, NextHourFacts
<1>6. /\ cutoff' \in [Exporters -> 0..clock'] /\ cutoff'[x] = c
      /\ \A y \in Exporters \ {x} : cutoff'[y] = cutoff[y]
  BY <1>1, <1>2, <1>3 DEF TypeOK
<1>7. /\ pending' \in [Exporters -> SUBSET Hours] /\ pending'[x] = found
      /\ \A y \in Exporters \ {x} : pending'[y] = pending[y]
  BY <1>1, <1>3, <1>4 DEF TypeOK
<1>8. TypeOK'
  BY <1>1, <1>3, <1>5, <1>6, <1>7 DEF TypeOK
<1>9. PassBounds'
  <2> SUFFICES ASSUME NEW y \in Exporters
               PROVE  (/\ at[y] # "idle" => y \in ran /\ \A h \in pending[y] : h < cutoff[y]
                       /\ InHour(y) => hour[y] \in pending[y]
                       /\ at[y] = "drop" => pending[y] = {})'
    BY DEF PassBounds
  <2>1. CASE y = x
    BY <2>1, <1>3, <1>4, <1>5, <1>6, <1>7 DEF InHour
  <2>2. CASE y # x
    BY <2>2, <1>1, <1>3, <1>5, <1>6, <1>7 DEF InHour, PassBounds
  <2> QED
    BY <2>1, <2>2
<1>10. Counted'
  BY <1>1, <1>3 DEF Counted
<1>11. ASSUME ~Interfered'
       PROVE  (LedgerMatchesArchive /\ HoursComplete /\ ReadsComplete /\ WholeHours /\ AloneExact)'
  <2>0. ran' \subseteq {"periodic", "now"}
    BY <1>8, ExportAssumption DEF TypeOK
  <2>1. ~Interfered
    BY <1>3, <1>11, <2>0 DEF Interfered
  <2>2. LedgerMatchesArchive /\ HoursComplete /\ ReadsComplete /\ WholeHours /\ AloneExact
    BY <2>1 DEF ExportIndInv
  <2>3. LedgerMatchesArchive' /\ HoursComplete'
    BY <1>3, <2>1, <2>2 DEF LedgerMatchesArchive, HoursComplete, Archived
  <2>4. \A h \in Hours : h < c => h \in found \/ Archived(h)
    <3> SUFFICES ASSUME NEW h \in Hours, h < c, h \notin found PROVE Archived(h)
      OBVIOUS
    <3>1. h < clock
      BY <1>1, <1>2 DEF Hours, TypeOK
    <3>2. CASE h \in ledger
      BY <3>2, <2>1, <2>2 DEF LedgerMatchesArchive, Archived
    <3>3. CASE telemetry[h] = {}
      BY <3>1, <3>3, <2>2, OnTimeFacts DEF HoursComplete
    <3> QED
      BY <1>4, <3>2, <3>3
  <2>5. ReadsComplete'
    <3> SUFFICES ASSUME NEW y \in Exporters
                 PROVE  (/\ at[y] = "fetch" =>
                              \/ OnTime \subseteq unread[y] \cup written[y]
                              \/ unread[y] = {} /\ written[y] = {} /\ Archived(hour[y])
                         /\ at[y] = "close" =>
                              \/ OnTime \subseteq written[y]
                              \/ written[y] = {} /\ Archived(hour[y])
                         /\ at[y] = "record" => Archived(hour[y])
                         /\ at[y] # "idle" =>
                              \A h \in Hours : h < cutoff[y] => h \in pending[y] \/ Archived(h))'
      BY DEF ReadsComplete
    <3>1. CASE y = x
      BY <3>1, <2>4, <1>3, <1>5, <1>6, <1>7 DEF Archived
    <3>2. CASE y # x
      BY <3>2, <2>2, <1>3, <1>5, <1>6, <1>7 DEF Archived, ReadsComplete
    <3> QED
      BY <3>1, <3>2
  <2>6. WholeHours'
    BY <2>2, <1>3, <1>5 DEF WholeHours
  <2>7. AloneExact'
    <3> SUFFICES ASSUME ran' # {"periodic", "now"} PROVE AloneExact'
      BY DEF AloneExact
    <3>1. ran # {"periodic", "now"}
      BY <1>3, <2>0
    <3>2. \A h \in Hours : h < clock => OnTime \subseteq telemetry[h] \/ h \in ledger
      BY <3>1, <2>2 DEF AloneExact
    <3>3. \A y \in Exporters : at'[y] # "idle" => y = x
      <4>1. \A y \in Exporters : at'[y] # "idle" => y \in ran'
        BY <1>9 DEF PassBounds
      <4> QED
        BY <4>1, <2>0, <1>3
    <3>4. found \cap ledger = {}
      BY <1>4
    <3>5. \A h \in Hours : h < c => h \in found \/ h \in ledger
      <4> SUFFICES ASSUME NEW h \in Hours, h < c, h \notin found, h \notin ledger PROVE FALSE
        OBVIOUS
      <4>1. telemetry[h] = {} /\ h < clock
        BY <1>1, <1>2, <1>4 DEF Hours, TypeOK
      <4> QED
        BY <4>1, <3>2, OnTimeFacts
    <3> QED
      BY <1>3, <1>6, <1>7, <3>2, <3>3, <3>4, <3>5 DEF AloneExact
  <2> QED
    BY <2>3, <2>5, <2>6, <2>7
<1> QED
  BY <1>8, <1>9, <1>10, <1>11 DEF ExportIndInv

\* The cursor opens on the whole hour, or on nothing when the hour is archived.
LEMMA OpenStep ==
  ASSUME ExportIndInv, NEW x \in Exporters, Open(x)
  PROVE  ExportIndInv'
<1> USE DEF tables, faults
<1>1. TypeOK /\ PassBounds /\ Counted
  BY DEF ExportIndInv
<1>2. /\ at[x] = "open" /\ hour[x] \in Hours /\ hour[x] < clock
      /\ hour[x] \in pending[x] /\ x \in ran
  BY <1>1 DEF Open, TypeOK, PassBounds, InHour, Hours
<1>3. /\ at' \in [Exporters -> Awaits] /\ at'[x] = "fetch"
      /\ \A y \in Exporters \ {x} : at'[y] = at[y]
  BY <1>1 DEF Open, Goto, TypeOK, Awaits
<1>4. /\ unread' \in [Exporters -> SUBSET AllBatches] /\ unread'[x] = telemetry[hour[x]]
      /\ written' \in [Exporters -> SUBSET AllBatches] /\ written'[x] = {}
      /\ \A y \in Exporters \ {x} : unread'[y] = unread[y] /\ written'[y] = written[y]
  BY <1>1, <1>2 DEF Open, TypeOK
<1>5. UNCHANGED <<clock, tables, hour, cutoff, pending, ran, faults>>
  BY DEF Open
<1>6. TypeOK' /\ Counted'
  BY <1>1, <1>3, <1>4, <1>5 DEF TypeOK, Counted
<1>7. PassBounds'
  BY <1>1, <1>2, <1>3, <1>5 DEF PassBounds, InHour
<1>8. ASSUME ~Interfered'
      PROVE  (LedgerMatchesArchive /\ HoursComplete /\ ReadsComplete /\ WholeHours /\ AloneExact)'
  <2>1. ~Interfered
    BY <1>5, <1>8 DEF Interfered
  <2>2. LedgerMatchesArchive /\ HoursComplete /\ ReadsComplete /\ WholeHours /\ AloneExact
    BY <2>1 DEF ExportIndInv
  <2>3. LedgerMatchesArchive' /\ HoursComplete'
    BY <1>5, <2>1, <2>2 DEF LedgerMatchesArchive, HoursComplete, Archived
  <2>4. \/ OnTime \subseteq telemetry[hour[x]]
        \/ telemetry[hour[x]] = {} /\ Archived(hour[x])
    <3>1. CASE ran # {"periodic", "now"}
      BY <3>1, <1>2, <2>2 DEF AloneExact
    <3>2. CASE errors + late = 0
      <4>1. errors = 0 /\ late = 0
        BY <3>2, <1>1 DEF Counted
      <4> QED
        BY <4>1, <1>2, <2>2 DEF WholeHours, HoursComplete
    <3>3. errors + late = 0 \/ errors + late > 0
      BY <1>1 DEF Counted
    <3> QED
      BY <2>1, <3>1, <3>2, <3>3 DEF Interfered
  <2>5. ReadsComplete'
    BY <1>2, <1>3, <1>4, <1>5, <2>2, <2>4 DEF ReadsComplete, Archived
  <2>6. WholeHours'
    BY <1>2, <1>3, <1>4, <1>5, <2>2 DEF WholeHours
  <2>7. AloneExact'
    BY <1>2, <1>3, <1>5, <2>2 DEF AloneExact
  <2> QED
    BY <2>3, <2>5, <2>6, <2>7
<1> QED
  BY <1>6, <1>7, <1>8 DEF ExportIndInv

\* A fetch moves a batch from the cursor to the file.
LEMMA FetchStep ==
  ASSUME ExportIndInv, NEW x \in Exporters, Fetch(x)
  PROVE  ExportIndInv'
<1> USE DEF tables, faults
<1>1. TypeOK /\ PassBounds /\ Counted
  BY DEF ExportIndInv
<1>2. at[x] = "fetch" /\ UNCHANGED <<clock, tables, hour, cutoff, pending, ran, faults>>
  BY DEF Fetch
<1>3. /\ unread' \in [Exporters -> SUBSET AllBatches]
      /\ written' \in [Exporters -> SUBSET AllBatches]
      /\ at' \in [Exporters -> Awaits]
      /\ unread'[x] \cup written'[x] = unread[x] \cup written[x]
      /\ \/ at'[x] = "fetch" /\ unread[x] # {}
         \/ at'[x] = "close" /\ unread'[x] = {}
      /\ \A y \in Exporters \ {x} : /\ unread'[y] = unread[y] /\ written'[y] = written[y]
                                    /\ at'[y] = at[y]
  <2>1. CASE unread[x] = {}
    BY <2>1, <1>1 DEF Fetch, Goto, TypeOK, Awaits
  <2>2. CASE unread[x] # {}
    <3>1. unread[x] \in SUBSET AllBatches
      BY <1>1 DEF TypeOK
    <3>2. Min(unread[x]) \in unread[x]
      BY <2>2, <3>1, LeastHour DEF AllBatches
    <3> QED
      BY <2>2, <3>1, <3>2, <1>1, <1>2 DEF Fetch, TypeOK
  <2> QED
    BY <2>1, <2>2
<1>4. TypeOK' /\ PassBounds' /\ Counted'
  BY <1>1, <1>2, <1>3 DEF TypeOK, PassBounds, Counted, InHour
<1>5. ASSUME ~Interfered'
      PROVE  (LedgerMatchesArchive /\ HoursComplete /\ ReadsComplete /\ WholeHours /\ AloneExact)'
  <2>1. ~Interfered
    BY <1>2, <1>5 DEF Interfered
  <2>2. LedgerMatchesArchive /\ HoursComplete /\ ReadsComplete /\ WholeHours /\ AloneExact
    BY <2>1 DEF ExportIndInv
  <2>3. LedgerMatchesArchive' /\ HoursComplete'
    BY <1>2, <2>1, <2>2 DEF LedgerMatchesArchive, HoursComplete, Archived
  <2>4. ReadsComplete'
    BY <1>2, <1>3, <2>2 DEF ReadsComplete, Archived
  <2>5. WholeHours'
    BY <1>2, <1>3, <2>2 DEF WholeHours
  <2>6. AloneExact'
    BY <1>2, <1>3, <2>2 DEF AloneExact
  <2> QED
    BY <2>3, <2>4, <2>5, <2>6
<1> QED
  BY <1>4, <1>5 DEF ExportIndInv

\* Closing the sink leaves a complete object.
LEMMA CloseStep ==
  ASSUME ExportIndInv, NEW x \in Exporters, Close(x)
  PROVE  ExportIndInv'
<1> USE DEF faults
<1>1. TypeOK /\ PassBounds /\ Counted
  BY DEF ExportIndInv
<1>2. at[x] = "close" /\ UNCHANGED <<clock, telemetry, ledger, hour, cutoff, pending, unread,
                                     written, ran, faults>>
  BY DEF Close
<1>3. /\ at' \in [Exporters -> Awaits] /\ at'[x] = "record"
      /\ \A y \in Exporters \ {x} : at'[y] = at[y]
  BY <1>1 DEF Close, Goto, TypeOK, Awaits
<1>4. /\ object' \in [Hours -> SUBSET AllBatches] /\ hour[x] \in Hours
      /\ object'[hour[x]] = IF written[x] = {} THEN object[hour[x]] ELSE written[x]
      /\ \A h \in Hours \ {hour[x]} : object'[h] = object[h]
  BY <1>1 DEF Close, CloseSink, TypeOK
<1>5. TypeOK' /\ PassBounds' /\ Counted'
  BY <1>1, <1>2, <1>3, <1>4 DEF TypeOK, PassBounds, Counted, InHour
<1>6. ASSUME ~Interfered'
      PROVE  (LedgerMatchesArchive /\ HoursComplete /\ ReadsComplete /\ WholeHours /\ AloneExact)'
  <2>1. ~Interfered
    BY <1>2, <1>6 DEF Interfered
  <2>2. LedgerMatchesArchive /\ HoursComplete /\ ReadsComplete /\ WholeHours /\ AloneExact
    BY <2>1 DEF ExportIndInv
  <2>3. Archived(hour[x])'
    BY <1>2, <1>4, <2>2, OnTimeFacts DEF ReadsComplete, Archived
  <2>4. \A h \in Hours : Archived(h) => Archived(h)'
    BY <1>2, <1>4, <2>3 DEF Archived
  <2>5. LedgerMatchesArchive'
    BY <1>1, <1>2, <2>1, <2>2, <2>4 DEF LedgerMatchesArchive, Archived, TypeOK
  <2>6. HoursComplete'
    BY <1>2, <2>2, <2>4 DEF HoursComplete
  <2>7. ReadsComplete'
    <3> SUFFICES ASSUME NEW y \in Exporters
                 PROVE  (/\ at[y] = "fetch" =>
                              \/ OnTime \subseteq unread[y] \cup written[y]
                              \/ unread[y] = {} /\ written[y] = {} /\ Archived(hour[y])
                         /\ at[y] = "close" =>
                              \/ OnTime \subseteq written[y]
                              \/ written[y] = {} /\ Archived(hour[y])
                         /\ at[y] = "record" => Archived(hour[y])
                         /\ at[y] # "idle" =>
                              \A h \in Hours : h < cutoff[y] => h \in pending[y] \/ Archived(h))'
      BY DEF ReadsComplete
    <3>1. hour[y] \in Hours
      BY <1>1 DEF TypeOK
    <3>2. Archived(hour[y]) => Archived(hour[y])'
      BY <1>2, <2>4, <3>1 DEF Archived
    <3>3. CASE y = x
      BY <3>3, <1>2, <1>3, <2>2, <2>3, <2>4 DEF ReadsComplete
    <3>4. CASE y # x
      BY <3>4, <1>2, <1>3, <2>2, <2>4, <3>2 DEF ReadsComplete
    <3> QED
      BY <3>3, <3>4
  <2>8. WholeHours'
    BY <1>2, <1>3, <1>4, <2>2 DEF WholeHours
  <2>9. AloneExact'
    BY <1>2, <1>3, <2>2 DEF AloneExact
  <2> QED
    BY <2>5, <2>6, <2>7, <2>8, <2>9
<1> QED
  BY <1>5, <1>6 DEF ExportIndInv

\* Only an archived hour enters the ledger.
LEMMA RecordStep ==
  ASSUME ExportIndInv, NEW x \in Exporters, Record(x)
  PROVE  ExportIndInv'
<1> USE DEF faults
<1> DEFINE left == pending[x] \ {hour[x]}
<1>1. TypeOK /\ PassBounds /\ Counted
  BY DEF ExportIndInv
<1>2. /\ at[x] = "record" /\ hour[x] \in Hours /\ x \in ran
      /\ ledger' = ledger \cup {hour[x]}
      /\ UNCHANGED <<clock, telemetry, object, cutoff, unread, written, ran, faults>>
  BY <1>1 DEF Record, TypeOK, PassBounds
<1>3. /\ pending' \in [Exporters -> SUBSET Hours] /\ pending'[x] = left
      /\ \A y \in Exporters \ {x} : pending'[y] = pending[y]
  BY <1>1 DEF Record, TypeOK
<1>4. left \in SUBSET Hours
  BY <1>1 DEF TypeOK
<1>5. NextHour(x, left)
  BY <1>3 DEF Record
<1>6. \A h \in Hours : h \in left <=> h \in pending[x] /\ h # hour[x]
  OBVIOUS
<1> HIDE DEF left
<1>7. /\ at' \in [Exporters -> Awaits] /\ hour' \in [Exporters -> Hours]
      /\ \A y \in Exporters \ {x} : at'[y] = at[y] /\ hour'[y] = hour[y]
      /\ \/ at'[x] = "drop" /\ left = {}
         \/ at'[x] = "open" /\ hour'[x] \in left
  BY <1>1, <1>4, <1>5, NextHourFacts
<1>8. TypeOK' /\ Counted'
  BY <1>1, <1>2, <1>3, <1>7 DEF TypeOK, Counted
<1>9. PassBounds'
  BY <1>1, <1>2, <1>3, <1>4, <1>6, <1>7 DEF PassBounds, InHour
<1>10. ASSUME ~Interfered'
       PROVE  (LedgerMatchesArchive /\ HoursComplete /\ ReadsComplete /\ WholeHours /\ AloneExact)'
  <2>1. ~Interfered
    BY <1>2, <1>10 DEF Interfered
  <2>2. LedgerMatchesArchive /\ HoursComplete /\ ReadsComplete /\ WholeHours /\ AloneExact
    BY <2>1 DEF ExportIndInv
  <2>3. Archived(hour[x])
    BY <1>2, <2>2 DEF ReadsComplete
  <2>4. LedgerMatchesArchive' /\ HoursComplete'
    BY <1>2, <2>1, <2>2, <2>3 DEF LedgerMatchesArchive, HoursComplete, Archived
  <2>5. ReadsComplete'
    <3> SUFFICES ASSUME NEW y \in Exporters
                 PROVE  (/\ at[y] = "fetch" =>
                              \/ OnTime \subseteq unread[y] \cup written[y]
                              \/ unread[y] = {} /\ written[y] = {} /\ Archived(hour[y])
                         /\ at[y] = "close" =>
                              \/ OnTime \subseteq written[y]
                              \/ written[y] = {} /\ Archived(hour[y])
                         /\ at[y] = "record" => Archived(hour[y])
                         /\ at[y] # "idle" =>
                              \A h \in Hours : h < cutoff[y] => h \in pending[y] \/ Archived(h))'
      BY DEF ReadsComplete
    <3>1. CASE y = x
      BY <3>1, <1>2, <1>3, <1>6, <1>7, <2>2, <2>3 DEF ReadsComplete, Archived
    <3>2. CASE y # x
      BY <3>2, <1>2, <1>3, <1>7, <2>2 DEF ReadsComplete, Archived
    <3> QED
      BY <3>1, <3>2
  <2>6. WholeHours'
    BY <1>2, <1>7, <2>2 DEF WholeHours
  <2>7. AloneExact'
    <3> SUFFICES ASSUME ran # {"periodic", "now"} PROVE AloneExact'
      BY <1>2 DEF AloneExact
    <3>1. \A y \in Exporters : at'[y] # "idle" => y = x
      BY <1>1, <1>2, <1>9, AloneOrBoth DEF PassBounds
    <3>2. \A h \in Hours : h < clock' => OnTime \subseteq telemetry'[h] \/ h \in ledger'
      BY <1>2, <2>2 DEF AloneExact
    <3>3. /\ pending[x] \cap ledger = {}
          /\ \A h \in Hours : h < cutoff[x] => h \in pending[x] \/ h \in ledger
      BY <1>2, <2>2 DEF AloneExact
    <3>4. pending'[x] \cap ledger' = {}
      BY <1>2, <1>3, <1>4, <1>6, <3>3
    <3>5. \A h \in Hours : h < cutoff'[x] => h \in pending'[x] \/ h \in ledger'
      BY <1>2, <1>3, <1>6, <3>3
    <3> QED
      BY <3>1, <3>2, <3>4, <3>5 DEF AloneExact
  <2> QED
    BY <2>4, <2>5, <2>6, <2>7
<1> QED
  BY <1>8, <1>9, <1>10 DEF ExportIndInv

\* Every hour a pass drops is archived, and no cursor is open on it.
LEMMA DropStep ==
  ASSUME ExportIndInv, NEW x \in Exporters, Drop(x)
  PROVE  ExportIndInv'
<1> USE DEF faults
<1>1. TypeOK /\ PassBounds /\ Counted
  BY DEF ExportIndInv
<1>2. /\ at[x] = "drop" /\ pending[x] = {}
      /\ UNCHANGED <<clock, object, ledger, hour, cutoff, pending, unread, written, ran, faults>>
  BY <1>1 DEF Drop, PassBounds
<1>3. /\ at' \in [Exporters -> Awaits] /\ at'[x] = "idle"
      /\ \A y \in Exporters \ {x} : at'[y] = at[y]
  BY <1>1 DEF Drop, Goto, TypeOK, Awaits
<1>4. /\ telemetry' \in [Hours -> SUBSET AllBatches]
      /\ \A h \in Hours : telemetry'[h] = IF h < cutoff[x] THEN {} ELSE telemetry[h]
  BY <1>1 DEF Drop, Dropped, TypeOK
<1>5. TypeOK' /\ PassBounds' /\ Counted'
  BY <1>1, <1>2, <1>3, <1>4 DEF TypeOK, PassBounds, Counted, InHour
<1>6. ASSUME ~Interfered'
      PROVE  (LedgerMatchesArchive /\ HoursComplete /\ ReadsComplete /\ WholeHours /\ AloneExact)'
  <2>1. ~Interfered
    BY <1>2, <1>6 DEF Interfered
  <2>2. LedgerMatchesArchive /\ HoursComplete /\ ReadsComplete /\ WholeHours /\ AloneExact
    BY <2>1 DEF ExportIndInv
  <2>3. \A h \in Hours : h < cutoff[x] => Archived(h)
    BY <1>2, <2>2 DEF ReadsComplete
  <2>4. LedgerMatchesArchive'
    BY <1>2, <2>1, <2>2 DEF LedgerMatchesArchive
  <2>5. HoursComplete'
    BY <1>2, <1>4, <2>2, <2>3 DEF HoursComplete, Archived
  <2>6. ReadsComplete'
    BY <1>2, <1>3, <2>2 DEF ReadsComplete, Archived
  <2>7. WholeHours'
    BY <1>2, <1>3, <1>4, <2>2 DEF WholeHours
  <2>8. AloneExact'
    <3> SUFFICES ASSUME ran # {"periodic", "now"} PROVE AloneExact'
      BY <1>2 DEF AloneExact
    <3>1. \A h \in Hours : h < cutoff[x] => h \in ledger
      BY <1>2, <2>2 DEF AloneExact
    <3> QED
      BY <1>2, <1>3, <1>4, <2>2, <3>1 DEF AloneExact
  <2> QED
    BY <2>4, <2>5, <2>6, <2>7, <2>8
<1> QED
  BY <1>5, <1>6 DEF ExportIndInv

-----------------------------------------------------------------------------
(* Failures.                                                               *)

\* An error of the exporter that runs alone leaves its hour out of the ledger
\* and in the hypertable, or finds it archived.
LEMMA ErrorStep ==
  ASSUME ExportIndInv, NEW x \in Exporters, Error(x)
  PROVE  ExportIndInv'
<1>1. TypeOK /\ PassBounds /\ Counted
  BY DEF ExportIndInv
<1>2. /\ at[x] # "idle" /\ hour[x] \in Hours /\ x \in ran
      /\ UNCHANGED <<clock, telemetry, hour, cutoff, pending, unread, written, ran, late, kills>>
  BY <1>1 DEF Error, GiveUp, TypeOK, PassBounds
<1>3. /\ at' \in [Exporters -> Awaits] /\ at'[x] = "idle"
      /\ \A y \in Exporters \ {x} : at'[y] = at[y]
  BY <1>1 DEF Error, GiveUp, Goto, TypeOK, Awaits
<1>4. errors' = errors + 1 /\ errors' \in Nat /\ errors' > 0
  BY <1>1 DEF Error, Counted
<1>5. /\ object' \in [Hours -> SUBSET AllBatches]
      /\ \A h \in Hours \ {hour[x]} : object'[h] = object[h]
      /\ at[x] # "fetch" => object' = object
  BY <1>1, <1>2 DEF Error, CloseSink, TypeOK
<1>6. /\ ledger' \subseteq Hours
      /\ ledger' = ledger \/ (at[x] = "record" /\ ledger' = ledger \cup {hour[x]})
  BY <1>1, <1>2 DEF Error, TypeOK
<1>7. TypeOK' /\ PassBounds' /\ Counted'
  BY <1>1, <1>2, <1>3, <1>4, <1>5, <1>6 DEF TypeOK, PassBounds, Counted, InHour
<1>8. ASSUME ~Interfered'
      PROVE  (LedgerMatchesArchive /\ HoursComplete /\ ReadsComplete /\ WholeHours /\ AloneExact)'
  <2>1. ran # {"periodic", "now"}
    BY <1>1, <1>2, <1>4, <1>8 DEF Interfered, Counted
  <2>2. LedgerMatchesArchive /\ HoursComplete /\ ReadsComplete /\ AloneExact /\ ~Interfered
    BY <2>1 DEF ExportIndInv, Interfered
  <2>3. \A y \in Exporters : at'[y] = "idle"
    BY <1>1, <1>2, <1>3, <2>1, AloneOrBoth DEF PassBounds
  <2>4. at[x] = "fetch" => hour[x] \notin ledger
    BY <1>1, <1>2, <2>1, <2>2 DEF AloneExact, PassBounds, InHour
  <2>5. at[x] = "record" => Archived(hour[x])
    BY <2>2 DEF ReadsComplete
  <2>6. \A h \in ledger' : Archived(h)'
    <3> SUFFICES ASSUME NEW h \in ledger' PROVE Archived(h)'
      OBVIOUS
    <3>1. Archived(h) /\ h \in Hours
      BY <1>2, <1>1, <1>6, <2>2, <2>5 DEF LedgerMatchesArchive, Archived, TypeOK
    <3>2. object'[h] = object[h]
      BY <1>5, <1>6, <2>4, <3>1
    <3> QED
      BY <3>1, <3>2 DEF Archived
  <2>7. \A h \in Hours : h < clock' => OnTime \subseteq telemetry'[h] \/ h \in ledger'
    BY <1>2, <1>6, <2>1, <2>2 DEF AloneExact
  <2>8. LedgerMatchesArchive'
    BY <2>6 DEF LedgerMatchesArchive, Archived
  <2>9. HoursComplete'
    BY <2>6, <2>7 DEF HoursComplete
  <2>10. ReadsComplete'
    BY <2>3 DEF ReadsComplete
  <2>11. WholeHours'
    BY <1>4 DEF WholeHours
  <2>12. AloneExact'
    BY <2>3, <2>7 DEF AloneExact
  <2> QED
    BY <2>8, <2>9, <2>10, <2>11, <2>12
<1> QED
  BY <1>7, <1>8 DEF ExportIndInv

\* A killed exporter leaves tables and objects as they are.
LEMMA KillStep ==
  ASSUME ExportIndInv, NEW x \in Exporters, Kill(x)
  PROVE  ExportIndInv'
<1> USE DEF tables
<1>1. TypeOK /\ PassBounds /\ Counted
  BY DEF ExportIndInv
<1>2. UNCHANGED <<clock, tables, hour, cutoff, pending, unread, written, ran, late, errors>>
  BY DEF Kill
<1>3. /\ at' \in [Exporters -> Awaits] /\ at'[x] = "idle"
      /\ \A y \in Exporters \ {x} : at'[y] = at[y]
  BY <1>1 DEF Kill, Goto, TypeOK, Awaits
<1>4. kills' \in Nat
  BY <1>1 DEF Kill, Counted
<1>5. TypeOK' /\ PassBounds' /\ Counted'
  BY <1>1, <1>2, <1>3, <1>4 DEF TypeOK, PassBounds, Counted, InHour
<1>6. ASSUME ~Interfered'
      PROVE  (LedgerMatchesArchive /\ HoursComplete /\ ReadsComplete /\ WholeHours /\ AloneExact)'
  <2>1. ~Interfered
    BY <1>2, <1>6 DEF Interfered
  <2>2. LedgerMatchesArchive /\ HoursComplete /\ ReadsComplete /\ WholeHours /\ AloneExact
    BY <2>1 DEF ExportIndInv
  <2>3. LedgerMatchesArchive' /\ HoursComplete'
    BY <1>2, <2>1, <2>2 DEF LedgerMatchesArchive, HoursComplete, Archived
  <2>4. ReadsComplete'
    BY <1>2, <1>3, <2>2 DEF ReadsComplete, Archived
  <2>5. WholeHours'
    BY <1>2, <1>3, <2>2 DEF WholeHours
  <2>6. AloneExact'
    BY <1>2, <1>3, <2>2 DEF AloneExact
  <2> QED
    BY <2>3, <2>4, <2>5, <2>6
<1> QED
  BY <1>5, <1>6 DEF ExportIndInv

-----------------------------------------------------------------------------
(* The theorems.                                                           *)

\* Every step of the exporters, the ingester and the clock keeps the inductive
\* invariant (run_once, export_hour, drop_exported_chunks and their failures).
THEOREM ExportInvariance == Spec => []ExportIndInv
<1>1. ASSUME ExportIndInv, [Next]_vars PROVE ExportIndInv'
  <2>1. CASE HourPasses
    BY <2>1, <1>1, HourPassesStep
  <2>2. CASE \E h \in Hours : LateBatch(h)
    BY <2>2, <1>1, LateBatchStep
  <2>3. CASE \E x \in Exporters : StartPass(x)
    BY <2>3, <1>1, StartPassStep
  <2>4. ASSUME NEW x \in Exporters, Continue(x) PROVE ExportIndInv'
    BY <2>4, <1>1, OpenStep, FetchStep, CloseStep, RecordStep, DropStep DEF Continue
  <2>5. CASE \E x \in Exporters : Error(x)
    BY <2>5, <1>1, ErrorStep
  <2>6. CASE \E x \in Exporters : Kill(x)
    BY <2>6, <1>1, KillStep
  <2>7. CASE UNCHANGED vars
    BY <2>7, <1>1 DEF vars, tables, passes, faults, ExportIndInv, TypeOK, PassBounds, InHour,
       Counted, Interfered, LedgerMatchesArchive, HoursComplete, ReadsComplete, Archived,
       WholeHours, AloneExact
  <2> QED
    BY <1>1, <2>1, <2>2, <2>3, <2>4, <2>5, <2>6, <2>7 DEF Next
<1> QED
  BY <1>1, ExportInit, PTL DEF Spec

\* The exporters' state keeps its types and no cutoff lies in the future
\* (hour_floor).
THEOREM ExportTypes == Spec => []TypeOK
<1>1. ExportIndInv => TypeOK
  BY DEF ExportIndInv
<1> QED
  BY <1>1, ExportInvariance, PTL

\* An hour in parquet_exports is complete in its object, whatever the exporters
\* were killed at and however their passes overlap, unless both have run and
\* something failed or came late (run_once).
THEOREM LedgerMatchesAlways == Spec => []LedgerMatchesArchive
<1>1. ExportIndInv => LedgerMatchesArchive
  BY DEF ExportIndInv, LedgerMatchesArchive
<1> QED
  BY <1>1, ExportInvariance, PTL

\* Under the same condition drop_exported_chunks never removes a row that is
\* not in the archive.
THEOREM RowsKeptAlways == Spec => []RowsKept
<1>1. ExportIndInv => RowsKept
  BY DEF ExportIndInv, RowsKept, HoursComplete, Archived
<1> QED
  BY <1>1, ExportInvariance, PTL
=============================================================================
