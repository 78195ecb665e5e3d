------------------------- MODULE OrchestratorProofs -------------------------
(***************************************************************************)
(* The safety properties of Orchestrator, for every finite set of          *)
(* experiments, every schedule, and any number of crashes, failed Modbus   *)
(* requests, failed statements, stops, overwritten schedules and restarts  *)
(* of the cycler.                                                          *)
(***************************************************************************)
EXTENDS Orchestrator, FiniteSetTheorems, WellFoundedInduction, TLAPS

(* Arithmetic of positions.                                                *)

\* A product of two numbers that are not zero is not zero.
LEMMA TotalFacts == Total \in Nat /\ Total > 0 /\ 0 \in Positions
<1>1. \A a, b \in Nat \ {0} : a * b \in Nat /\ a * b > 0
  OBVIOUS
<1>2. Total \in Nat /\ Total > 0
  BY <1>1, ScheduleAssumption DEF Total
<1> QED
  BY <1>2 DEF Positions

\* Quotient and remainder.
LEMMA DivMod ==
  ASSUME NEW p \in Nat, NEW n \in Nat \ {0}
  PROVE  /\ p \div n \in Nat /\ p % n \in 0..(n - 1)
         /\ p = n * (p \div n) + (p % n)
OBVIOUS

\* Where a position is in its schedule.
LEMMA StepFacts ==
  ASSUME NEW p \in Nat
  PROVE  /\ StepOf(p) \in 0..(NSteps - 1) /\ CycleOf(p) \in Nat
         /\ p = NSteps * CycleOf(p) + StepOf(p)
BY DivMod, ScheduleAssumption DEF StepOf, CycleOf

\* A product grows with its factor.
LEMMA TimesMonotone ==
  ASSUME NEW a \in Nat, NEW b \in Nat, NEW n \in Nat, a <= b
  PROVE  n * a <= n * b
OBVIOUS

\* A position of the schedule is in one of its cycles.
LEMMA CycleInSchedule ==
  ASSUME NEW p \in Positions
  PROVE  p \in Nat /\ CycleOf(p) \in 0..(Repeat - 1)
<1>1. p \in Nat /\ p < NSteps * Repeat
  BY TotalFacts DEF Positions, Total
<1>2. CycleOf(p) \in Nat /\ StepOf(p) \in Nat /\ p = NSteps * CycleOf(p) + StepOf(p)
  BY <1>1, StepFacts, ScheduleAssumption
<1>3. NSteps * CycleOf(p) \in Nat /\ NSteps * CycleOf(p) <= p
  BY <1>2, ScheduleAssumption
<1>4. CASE CycleOf(p) >= Repeat
  <2>1. NSteps * Repeat <= NSteps * CycleOf(p)
    BY <1>2, <1>4, TimesMonotone, ScheduleAssumption
  <2>2. NSteps * Repeat \in Nat
    BY ScheduleAssumption
  <2> QED
    BY <1>1, <1>3, <2>1, <2>2
<1> QED
  BY <1>1, <1>2, <1>4, ScheduleAssumption

\* Quotient and remainder are determined by the product they leave.
LEMMA DivUnique ==
  ASSUME NEW n \in Nat \ {0}, NEW q \in Nat, NEW r \in 0..(n - 1), NEW p \in Nat, p = n * q + r
  PROVE  p \div n = q /\ p % n = r
<1>1. PICK d \in Nat : d = p \div n
  BY DivMod
<1>2. PICK m \in 0..(n - 1) : m = p % n
  BY DivMod
<1>3. p = n * d + m
  BY <1>1, <1>2, DivMod
<1>4. n * q \in Nat /\ n * d \in Nat /\ n * (q + 1) = n * q + n /\ n * (d + 1) = n * d + n
  OBVIOUS
<1>5. CASE d < q
  <2>1. n * (d + 1) <= n * q
    BY <1>5, TimesMonotone
  <2> QED
    BY <1>3, <1>4, <2>1
<1>6. CASE q < d
  <2>1. n * (q + 1) <= n * d
    BY <1>6, TimesMonotone
  <2> QED
    BY <1>3, <1>4, <2>1
<1>7. CASE q = d
  BY <1>1, <1>2, <1>3, <1>4, <1>7
<1> QED
  BY <1>5, <1>6, <1>7

\* Within a cycle the remainder counts up.
LEMMA ModNext ==
  ASSUME NEW n \in Nat \ {0}, NEW q \in Nat, NEW r \in 0..(n - 1), NEW p \in Nat,
         p = n * q + r, r < n - 1
  PROVE  (p + 1) % n = r + 1
<1>1. n * q \in Nat
  OBVIOUS
<1>2. r + 1 \in 0..(n - 1) /\ p + 1 = n * q + (r + 1) /\ p + 1 \in Nat
  BY <1>1
<1> QED
  BY <1>2, DivUnique

\* The last step of a cycle: in the schedule, after every other step of the
\* cycle, and the one after which _advance wraps.
LEMMA LastFacts ==
  ASSUME NEW k \in 0..(Repeat - 1)
  PROVE  /\ LastOfCycle(k) \in Positions
         /\ CycleOf(LastOfCycle(k)) = k
         /\ \A p \in Positions : CycleOf(p) = k => p <= LastOfCycle(k)
         /\ \A p \in Positions : CycleOf(p) = k /\ StepOf(p + 1) = 0 => p = LastOfCycle(k)
<1>1. NSteps \in Nat \ {0} /\ k \in Nat /\ Repeat \in Nat /\ k + 1 <= Repeat
  BY ScheduleAssumption
<1>2. /\ NSteps * k \in Nat /\ NSteps * (k + 1) = NSteps * k + NSteps
      /\ NSteps * (k + 1) = (k + 1) * NSteps
  BY <1>1
<1>3. LastOfCycle(k) = NSteps * k + (NSteps - 1)
  BY <1>1, <1>2 DEF LastOfCycle
<1>4. LastOfCycle(k) \in Nat /\ NSteps - 1 \in 0..(NSteps - 1)
  BY <1>1, <1>2, <1>3
<1>5. CycleOf(LastOfCycle(k)) = k
  BY <1>1, <1>3, <1>4, DivUnique DEF CycleOf
<1>6. NSteps * (k + 1) <= NSteps * Repeat
  BY <1>1, TimesMonotone
<1>7. LastOfCycle(k) \in Positions
  BY <1>1, <1>2, <1>3, <1>4, <1>6, TotalFacts DEF Positions, Total
<1>8. ASSUME NEW p \in Positions, CycleOf(p) = k
      PROVE  p <= LastOfCycle(k) /\ (StepOf(p + 1) = 0 => p = LastOfCycle(k))
  <2>1. p \in Nat
    BY CycleInSchedule
  <2>2. PICK s \in 0..(NSteps - 1) : s = StepOf(p) /\ p = NSteps * k + s
    BY <1>8, <2>1, StepFacts
  <2>3. p <= LastOfCycle(k)
    BY <1>1, <1>2, <1>3, <2>2
  <2>4. CASE s < NSteps - 1
    <3>1. (p + 1) % NSteps = s + 1
      BY <1>1, <2>1, <2>2, <2>4, ModNext
    <3>2. StepOf(p + 1) # 0
      BY <2>2, <3>1 DEF StepOf
    <3> QED
      BY <2>3, <3>2
  <2>5. CASE s = NSteps - 1
    BY <1>3, <2>2, <2>3, <2>5
  <2> QED
    BY <1>1, <2>2, <2>4, <2>5
<1> QED
  BY <1>5, <1>7, <1>8

-----------------------------------------------------------------------------
(* What an await changes.                                                  *)

\* The labels of the awaits, sweep by sweep.
LEMMA AwaitSets ==
  /\ ResumeAwaits \cup KickoffAwaits \cup TickAwaits = DbAwaits \cup IoAwaits
  /\ ResumeAwaits \cap KickoffAwaits = {} /\ KickoffAwaits \cap TickAwaits = {}
  /\ ResumeAwaits \cap TickAwaits = {}
  /\ DbAwaits \cap IoAwaits = {}
BY DEF ResumeAwaits, KickoffAwaits, TickAwaits, DbAwaits, IoAwaits

\* insert_step_row and mark_step_completed touch the row at hand only.
LEMMA RowsAfterFacts ==
  ASSUME TypeOK
  PROVE  /\ RowsAfter \in [Exps -> [Positions -> RowStates]]
         /\ \A e \in Exps \ {cur} : RowsAfter[e] = rows[e]
         /\ \A p \in Positions : p # pos[cur] => RowsAfter[cur][p] = rows[cur][p]
         /\ pos[cur] \in Positions =>
              RowsAfter[cur][pos[cur]] =
                IF pc \in {"rRow", "kRow", "tRow"} /\ rows[cur][pos[cur]] = "none"
                THEN "running"
                ELSE IF pc \in {"tClose", "tEnd"} /\ rows[cur][pos[cur]] # "none"
                THEN "completed" ELSE rows[cur][pos[cur]]
<1>1. rows \in [Exps -> [Positions -> RowStates]] /\ cur \in Exps
  BY DEF TypeOK
<1>2. CASE pc \in {"rRow", "kRow", "tRow"}
  <2>1. RowsAfter = InsertRow(cur)
    BY <1>2 DEF RowsAfter
  <2> QED
    BY <1>1, <1>2, <2>1 DEF InsertRow, RowStates
<1>3. CASE pc \in {"tClose", "tEnd"}
  <2>1. RowsAfter = CloseRow(cur)
    BY <1>3 DEF RowsAfter
  <2> QED
    BY <1>1, <1>3, <2>1 DEF CloseRow, RowStates
<1>4. CASE pc \notin {"rRow", "kRow", "tRow", "tClose", "tEnd"}
  <2>1. RowsAfter = rows
    BY <1>4 DEF RowsAfter
  <2> QED
    BY <1>1, <1>4, <2>1
<1> QED
  BY <1>2, <1>3, <1>4

\* mark_experiment_status touches the experiment at hand only.
LEMMA StatusAfterFacts ==
  ASSUME TypeOK
  PROVE  /\ StatusAfter \in [Exps -> Statuses]
         /\ \A e \in Exps \ {cur} : StatusAfter[e] = status[e]
         /\ StatusAfter[cur] =
              IF pc \in {"rFail", "kBad", "kFail", "tFail"} THEN "failed"
              ELSE IF pc \in {"rDone", "tDone"} THEN "completed"
              ELSE IF pc = "kMark" THEN "running" ELSE status[cur]
<1>1. status \in [Exps -> Statuses] /\ cur \in Exps
  BY DEF TypeOK
<1>2. CASE pc \in {"rFail", "kBad", "kFail", "tFail"}
  <2>1. StatusAfter = [status EXCEPT ![cur] = "failed"]
    BY <1>2 DEF StatusAfter
  <2> QED
    BY <1>1, <1>2, <2>1 DEF Statuses
<1>3. CASE pc \in {"rDone", "tDone"}
  <2>1. StatusAfter = [status EXCEPT ![cur] = "completed"]
    BY <1>3 DEF StatusAfter
  <2> QED
    BY <1>1, <1>3, <2>1 DEF Statuses
<1>4. CASE pc = "kMark"
  <2>1. StatusAfter = [status EXCEPT ![cur] = "running"]
    BY <1>4 DEF StatusAfter
  <2> QED
    BY <1>1, <1>4, <2>1 DEF Statuses
<1>5. CASE pc \notin {"rFail", "kBad", "kFail", "tFail", "rDone", "tDone", "kMark"}
  <2>1. StatusAfter = status
    BY <1>5 DEF StatusAfter
  <2> QED
    BY <1>1, <1>5, <2>1
<1> QED
  BY <1>2, <1>3, <1>4, <1>5

\* The types of the channels' variables, by themselves.
ChannelTypes ==
    /\ drive \in [Exps -> 0..NSteps]
    /\ latched \in [Exps -> BOOLEAN]
    /\ modeReg \in [Exps -> Modes]
    /\ shown \in [Exps -> BOOLEAN]
    /\ tag \in [Exps -> 0..MaxTag]
    /\ chem \in Chemistries

\* A cycle is clamped to the register.
LEMMA ClampedType == ASSUME NEW k \in Nat PROVE Clamped(k) \in 0..MaxTag
BY ScheduleAssumption DEF Clamped

\* A Modbus request keeps the channels' types.
LEMMA IoWriteTypes ==
  ASSUME TypeOK, Placed, Control, IoWrite
  PROVE  ChannelTypes'
<1>1. /\ drive \in [Exps -> 0..NSteps] /\ latched \in [Exps -> BOOLEAN]
      /\ modeReg \in [Exps -> Modes]
      /\ shown \in [Exps -> BOOLEAN] /\ tag \in [Exps -> 0..MaxTag]
      /\ chem \in Chemistries /\ cur \in Exps /\ pos[cur] \in Nat
      /\ NSteps \in Nat /\ 0 \in 0..MaxTag
  BY TotalFacts, ScheduleAssumption DEF TypeOK
<1>2. StepOf(pos[cur]) \in 0..NSteps
  <2>1. StepOf(pos[cur]) \in 0..(NSteps - 1)
    BY <1>1, StepFacts
  <2> QED
    BY <1>1, <2>1
<1>3. drive' \in [Exps -> 0..NSteps]
  <2>1. drive' = DriveAfter
    BY DEF IoWrite
  <2>2. CASE pc \in {"rDrift", "kSend", "tSend"}
    <3>1. DriveAfter = IF latched[cur] THEN drive ELSE [drive EXCEPT ![cur] = StepOf(pos[cur])]
      BY <2>2 DEF DriveAfter, Swaps
    <3> QED
      BY <1>1, <1>2, <2>1, <3>1
  <2>3. CASE pc = "tPark"
    <3>1. DriveAfter = [drive EXCEPT ![cur] = NoStep]
      BY <2>3 DEF DriveAfter, Swaps
    <3> QED
      BY <1>1, <2>1, <3>1 DEF NoStep
  <2>4. CASE Swaps
    <3>1. DriveAfter = [e \in Exps |-> NoStep]
      BY <2>4 DEF DriveAfter, Swaps
    <3> QED
      BY <1>1, <2>1, <3>1 DEF NoStep
  <2>5. CASE pc \notin {"rDrift", "kSend", "tSend", "tPark"} /\ ~Swaps
    <3>1. DriveAfter = drive
      BY <2>5 DEF DriveAfter
    <3> QED
      BY <1>1, <2>1, <3>1
  <2> QED
    BY <2>2, <2>3, <2>4, <2>5
<1>4. tag' \in [Exps -> 0..MaxTag]
  <2>1. tag' = TagAfter
    BY DEF IoWrite
  <2>2. CASE pc \in {"kTag", "tTag"}
    <3>2. Clamped(CycleOf(pos[cur])) \in 0..MaxTag
      BY <1>1, StepFacts, ClampedType
    <3>3. TagAfter = [tag EXCEPT ![cur] = Clamped(CycleOf(pos[cur]))]
      BY <2>2 DEF TagAfter, Swaps
    <3> QED
      BY <1>1, <2>1, <3>2, <3>3
  <2>3. CASE Swaps
    <3>1. TagAfter = [e \in Exps |-> 0]
      BY <2>3 DEF TagAfter, Swaps
    <3> QED
      BY <1>1, <2>1, <3>1
  <2>4. CASE pc \notin {"kTag", "tTag"} /\ ~Swaps
    <3>1. TagAfter = tag
      BY <2>4 DEF TagAfter
    <3> QED
      BY <1>1, <2>1, <3>1
  <2> QED
    BY <2>2, <2>3, <2>4
<1>5. latched' \in [Exps -> BOOLEAN] /\ shown' \in [Exps -> BOOLEAN]
  BY <1>1 DEF IoWrite
<1>6. chem' \in Chemistries
  BY <1>1 DEF IoWrite, Chemistries
<1>7. modeReg' \in [Exps -> Modes]
  <2>1. modeReg' = ModeAfter
    BY DEF IoWrite
  <2>2. ModeOf[StepOf(pos[cur])] \in Modes /\ "idle" \in Modes
    BY <1>1, StepFacts DEF Modes
  <2> QED
    BY <1>1, <2>1, <2>2 DEF ModeAfter
<1> QED
  BY <1>3, <1>4, <1>5, <1>6, <1>7 DEF ChannelTypes

-----------------------------------------------------------------------------
(* Control, positions and status.                                          *)

\* Nobody has been claimed at the start.
LEMMA ControlInit == Init => OrchControl
<1> SUFFICES ASSUME Init PROVE OrchControl
  OBVIOUS
<1> USE TotalFacts
<1>1. TypeOK
  <2>1. rows \in [Exps -> [Positions -> RowStates]] /\ status \in [Exps -> Statuses]
    BY DEF Init, RowStates, Statuses
  <2>2. /\ pos \in [Exps -> 0..Total] /\ drive \in [Exps -> 0..NSteps]
        /\ tag \in [Exps -> 0..MaxTag] /\ ctx \in [Exps -> 0..Total]
        /\ modeReg \in [Exps -> Modes]
    BY ScheduleAssumption DEF Init, NoStep, NoContext, Modes
  <2>3. events \in [Exps -> [0..(Repeat - 1) -> 0..EventCap]]
    BY BoundsAssumption DEF Init, EventCap
  <2>4. latched \in [Exps -> BOOLEAN] /\ shown \in [Exps -> BOOLEAN]
    BY DEF Init
  <2>5. crashes \in 0..MaxCrashes /\ ioErrors \in 0..MaxIoErrors /\ dbErrors \in 0..MaxDbErrors
        /\ stops \in 0..MaxStops /\ restarts \in 0..MaxRestarts /\ rewrites \in 0..MaxRewrites
    BY BoundsAssumption DEF Init
  <2> QED
    BY <2>1, <2>2, <2>3, <2>4, <2>5 DEF Init, TypeOK, Terminal, Chemistries
<1>2. Control
  BY DEF Init, Control, ResumeAwaits, KickoffAwaits, TickAwaits, DbAwaits, IoAwaits
<1>3. Placed
  BY DEF Init, Placed, KickoffAwaits
<1>4. StatusKnown
  BY DEF Init, StatusKnown, DbAwaits, IoAwaits
<1> QED
  BY <1>1, <1>2, <1>3, <1>4 DEF OrchControl

\* A step of the executor at the experiment at hand: what it does to the others
\* is nothing, and where it goes is an await of the same sweep or the next pick.
LEMMA AtHandStep ==
  ASSUME OrchControl, pc \in DbAwaits \cup IoAwaits,
         UNCHANGED <<cur, todo, sweep>>,
         \A e \in Exps \ {cur} : st'[e] = st[e] /\ pos'[e] = pos[e] /\ status'[e] = status[e],
         pc' \in DbAwaits \cup IoAwaits \cup {"pick"},
         stops' = 0 => stops = 0,
         \/ pc \in ResumeAwaits /\ pc' \in ResumeAwaits \cup {"pick"}
         \/ pc \in KickoffAwaits /\ pc' \in KickoffAwaits \cup {"pick"}
         \/ pc \in TickAwaits /\ pc' \in TickAwaits \cup {"pick"},
         pc' \in ResumeAwaits \cup KickoffAwaits => st'[cur] = "absent",
         pc' \in {"tRead", "tEnd", "tRow", "tTag", "tSend"} => st'[cur] = "running",
         pc' \in {"tClose", "tFail"} => st'[cur] = "failed",
         pc' \in {"tDone", "tPark"} => st'[cur] = "completed",
         (st'[cur] \in {"local", "running"}
            \/ pc' \in {"rRead", "rDrift", "rRow", "tClose", "tFail"})
             => pos'[cur] \in Positions,
         pc' \in KickoffAwaits => pos'[cur] = 0,
         stops = 0 => /\ st'[cur] \in {"local", "running"} => status'[cur] = "running"
                      /\ pc' \in {"kBad", "kMark"} => status'[cur] = "pending"
                      /\ pc' \in (DbAwaits \cup IoAwaits) \ {"kBad", "kMark", "tPark"} =>
                            status'[cur] = "running"
  PROVE  Control' /\ Placed' /\ StatusKnown'
<1>1. TypeOK /\ Control /\ Placed /\ StatusKnown
  BY DEF OrchControl
<1>2. cur \notin todo /\ todo \subseteq Exps /\ cur \in Exps
  BY <1>1 DEF Control, TypeOK
<1>3. Control'
  BY <1>1, <1>2 DEF Control, ResumeAwaits, KickoffAwaits, TickAwaits, DbAwaits, IoAwaits
<1>4. Placed'
  BY <1>1, <1>2 DEF Placed
<1>5. StatusKnown'
  BY <1>1, <1>2 DEF StatusKnown
<1> QED
  BY <1>3, <1>4, <1>5

\* The types of what a step of the executor changes besides its tables.
ObjectTypes ==
    /\ st \in [Exps -> {"absent", "local", "running"} \cup Terminal]
    /\ pos \in [Exps -> 0..Total]
    /\ ctx \in [Exps -> 0..Total]
    /\ events \in [Exps -> [0..(Repeat - 1) -> 0..EventCap]]

\* Where an await may lead: to another await or to the next pick.
Labels == DbAwaits \cup IoAwaits \cup {"pick"}

\* A statement that succeeds, in flat form.
LEMMA DbStepFacts ==
  ASSUME OrchControl, NEW at \in DbAwaits, NEW label \in Labels, DbStep(at, label)
  PROVE  /\ pc = at /\ pc' = label /\ UNCHANGED <<cur, todo, sweep>>
         /\ UNCHANGED <<drive, latched, modeReg, shown, tag, chem>>
         /\ UNCHANGED <<crashes, ioErrors, dbErrors, stops, restarts, rewrites, invalid, cut, stranded>>
         /\ rows' = RowsAfter /\ status' = StatusAfter
         /\ ObjectTypes' => TypeOK'
<1>1. TypeOK
  BY DEF OrchControl
<1>2. /\ pc = at /\ pc' = label /\ UNCHANGED <<cur, todo, sweep>>
      /\ UNCHANGED <<drive, latched, modeReg, shown, tag, chem>>
      /\ UNCHANGED <<crashes, ioErrors, dbErrors, stops, restarts, rewrites, invalid, cut, stranded>>
      /\ rows' = RowsAfter /\ status' = StatusAfter
  BY DEF DbStep, DbWrite, Goto, channels, faults, ghosts
<1>3. rows' \in [Exps -> [Positions -> RowStates]] /\ status' \in [Exps -> Statuses]
  BY <1>1, <1>2, RowsAfterFacts, StatusAfterFacts
<1>4. pc' \in DbAwaits \cup IoAwaits \cup {"down", "pick", "poll"}
  BY <1>2 DEF Labels
<1>5. ASSUME ObjectTypes' PROVE TypeOK'
  BY <1>1, <1>2, <1>3, <1>4, <1>5 DEF ObjectTypes, TypeOK
<1> QED
  BY <1>2, <1>5

\* A Modbus request that succeeds, in flat form.
LEMMA IoStepFacts ==
  ASSUME OrchControl, NEW at \in IoAwaits, NEW label \in Labels, IoStep(at, label)
  PROVE  /\ pc = at /\ pc' = label /\ UNCHANGED <<cur, todo, sweep>>
         /\ UNCHANGED <<status, rows>>
         /\ UNCHANGED <<crashes, ioErrors, dbErrors, stops, restarts, rewrites, invalid, stranded>>
         /\ IoWrite /\ cut' = cut \cup Exchanged
         /\ ObjectTypes' => TypeOK'
<1>1. TypeOK /\ Control /\ Placed
  BY DEF OrchControl
<1>2. /\ pc = at /\ pc' = label /\ UNCHANGED <<cur, todo, sweep>>
      /\ UNCHANGED <<status, rows>>
      /\ UNCHANGED <<crashes, ioErrors, dbErrors, stops, restarts, rewrites, invalid, stranded>>
      /\ IoWrite /\ cut' = cut \cup Exchanged
  BY DEF IoStep, Goto, db, faults
<1>3. ChannelTypes'
  BY <1>1, <1>2, IoWriteTypes
<1>4. pc' \in DbAwaits \cup IoAwaits \cup {"down", "pick", "poll"}
  BY <1>2 DEF Labels
<1>6. cut' \subseteq Exps
  BY <1>1, <1>2 DEF Exchanged, TypeOK
<1>5. ASSUME ObjectTypes' PROVE TypeOK'
  BY <1>1, <1>2, <1>3, <1>4, <1>5, <1>6 DEF ObjectTypes, ChannelTypes, TypeOK
<1> QED
  BY <1>2, <1>5

\* Publishing and clearing a context keeps the contexts' type.
LEMMA ContextTypes ==
  ASSUME TypeOK, PublishContext \/ ClearContext \/ UNCHANGED ctx
  PROVE  ctx' \in [Exps -> 0..Total]
<1>1. ctx \in [Exps -> 0..Total] /\ pos[cur] \in 0..Total /\ NoContext \in 0..Total
  BY TotalFacts DEF TypeOK, NoContext
<1> QED
  BY <1>1 DEF PublishContext, ClearContext

\* The awaits of a resume keep control.
LEMMA ResumeControl == OrchControl /\ Resume => OrchControl'
<1> SUFFICES ASSUME OrchControl, Resume PROVE OrchControl'
  OBVIOUS
<1>1. TypeOK /\ Control /\ Placed /\ StatusKnown
  BY DEF OrchControl
<1> USE DEF ResumeAwaits, KickoffAwaits, TickAwaits, DbAwaits, IoAwaits, Labels
<1>2. CASE ResumeRead
  <2>1. PICK label \in {"rFail", "rDrift", "rRow"} : IoStep("rRead", label) /\ UNCHANGED <<objects, outbox>>
    BY <1>2 DEF ResumeRead
  <2>2. /\ pc = "rRead" /\ pc' = label /\ UNCHANGED <<cur, todo, sweep, status, rows, stops>>
        /\ UNCHANGED <<st, pos, ctx, events>>
        /\ ObjectTypes' => TypeOK'
    BY <2>1, IoStepFacts DEF objects, outbox
  <2>3. TypeOK'
    BY <1>1, <2>2 DEF TypeOK, ObjectTypes
  <2>4. Control' /\ Placed' /\ StatusKnown'
    BY <1>1, <2>2, AtHandStep DEF Control, Placed, StatusKnown
  <2> QED
    BY <2>3, <2>4 DEF OrchControl
<1>3. CASE ResumeDrift
  <2>1. /\ pc = "rDrift" /\ pc' = "rRow" /\ UNCHANGED <<cur, todo, sweep, status, rows, stops>>
        /\ UNCHANGED <<st, pos, ctx, events>>
        /\ ObjectTypes' => TypeOK'
    BY <1>3, IoStepFacts DEF objects, outbox, ResumeDrift
  <2>2. TypeOK'
    BY <1>1, <2>1 DEF TypeOK, ObjectTypes
  <2>3. Control' /\ Placed' /\ StatusKnown'
    BY <1>1, <2>1, AtHandStep DEF Control, Placed, StatusKnown
  <2> QED
    BY <2>2, <2>3 DEF OrchControl
<1>4. CASE ResumeRow
  <2>1. /\ pc = "rRow" /\ pc' = "pick" /\ UNCHANGED <<cur, todo, sweep, stops>>
        /\ status' = StatusAfter /\ UNCHANGED <<pos, events>>
        /\ st' = [st EXCEPT ![cur] = "local"] /\ PublishContext
        /\ ObjectTypes' => TypeOK'
    BY <1>4, DbStepFacts DEF ResumeRow
  <2>2. status'[cur] = status[cur] /\ \A e \in Exps \ {cur} : status'[e] = status[e]
    BY <1>1, <2>1, StatusAfterFacts
  <2>3. st'[cur] = "local" /\ \A e \in Exps \ {cur} : st'[e] = st[e]
    BY <1>1, <2>1 DEF TypeOK
  <2>4. TypeOK'
    <3>1. ctx' \in [Exps -> 0..Total]
      BY <1>1, <2>1, ContextTypes
    <3> QED
      BY <1>1, <2>1, <3>1 DEF TypeOK, ObjectTypes
  <2>5. Control' /\ Placed' /\ StatusKnown'
    BY <1>1, <2>1, <2>2, <2>3, AtHandStep DEF Placed, StatusKnown
  <2> QED
    BY <2>4, <2>5 DEF OrchControl
<1>5. ASSUME NEW at \in {"rFail", "rDone"}, DbStep(at, "pick"), UNCHANGED <<objects, outbox>>
      PROVE  OrchControl'
  <2>1. /\ pc = at /\ pc' = "pick" /\ UNCHANGED <<cur, todo, sweep, stops>>
        /\ status' = StatusAfter /\ UNCHANGED <<st, pos, ctx, events>>
        /\ ObjectTypes' => TypeOK'
    BY <1>5, DbStepFacts DEF objects, outbox
  <2>2. \A e \in Exps \ {cur} : status'[e] = status[e]
    BY <1>1, <2>1, StatusAfterFacts
  <2>3. TypeOK'
    BY <1>1, <2>1 DEF TypeOK, ObjectTypes
  <2>4. st[cur] = "absent"
    BY <1>1, <2>1 DEF Control
  <2>5. Control' /\ Placed' /\ StatusKnown'
    BY <1>1, <2>1, <2>2, <2>4, AtHandStep
  <2> QED
    BY <2>3, <2>5 DEF OrchControl
<1> QED
  BY <1>2, <1>3, <1>4, <1>5 DEF Resume, ResumeFail, ResumeDone

\* A statement of the executor that leaves its objects alone.
LEMMA QuietDb ==
  ASSUME OrchControl, NEW at \in DbAwaits, NEW label \in Labels, DbStep(at, label),
         UNCHANGED <<st, pos, events>>, PublishContext \/ ClearContext \/ UNCHANGED ctx
  PROVE  /\ pc = at /\ pc' = label /\ UNCHANGED <<cur, todo, sweep, stops>>
         /\ \A e \in Exps \ {cur} : status'[e] = status[e]
         /\ status'[cur] =
              IF pc \in {"rFail", "kBad", "kFail", "tFail"} THEN "failed"
              ELSE IF pc \in {"rDone", "tDone"} THEN "completed"
              ELSE IF pc = "kMark" THEN "running" ELSE status[cur]
         /\ TypeOK'
<1>1. TypeOK
  BY DEF OrchControl
<1>2. /\ pc = at /\ pc' = label /\ UNCHANGED <<cur, todo, sweep, stops>>
      /\ status' = StatusAfter /\ (ObjectTypes' => TypeOK')
  BY DbStepFacts
<1>3. ctx' \in [Exps -> 0..Total]
  BY <1>1, ContextTypes
<1>4. TypeOK'
  BY <1>1, <1>2, <1>3 DEF TypeOK, ObjectTypes
<1> QED
  BY <1>1, <1>2, <1>4, StatusAfterFacts

\* A Modbus request of the executor that leaves its objects alone.
LEMMA QuietIo ==
  ASSUME OrchControl, NEW at \in IoAwaits, NEW label \in Labels, IoStep(at, label),
         UNCHANGED <<st, pos, events>>, PublishContext \/ ClearContext \/ UNCHANGED ctx
  PROVE  /\ pc = at /\ pc' = label /\ UNCHANGED <<cur, todo, sweep, stops, status>>
         /\ TypeOK'
<1>1. TypeOK
  BY DEF OrchControl
<1>2. /\ pc = at /\ pc' = label /\ UNCHANGED <<cur, todo, sweep, stops, status>>
      /\ (ObjectTypes' => TypeOK')
  BY IoStepFacts
<1>3. ctx' \in [Exps -> 0..Total]
  BY <1>1, ContextTypes
<1> QED
  BY <1>1, <1>2, <1>3 DEF TypeOK, ObjectTypes

\* The awaits of a kickoff keep control.
LEMMA KickoffControl == OrchControl /\ Kickoff => OrchControl'
<1> SUFFICES ASSUME OrchControl, Kickoff PROVE OrchControl'
  OBVIOUS
<1>1. TypeOK /\ Control /\ Placed /\ StatusKnown
  BY DEF OrchControl
<1> USE DEF ResumeAwaits, KickoffAwaits, TickAwaits, DbAwaits, IoAwaits, Labels
<1>2. ASSUME NEW at \in {"kBad", "kMark", "kRow"}, NEW label \in {"pick", "kRow", "kChem"},
             DbStep(at, label), UNCHANGED <<objects, outbox>>,
             \/ at = "kBad" /\ label = "pick"
             \/ at = "kMark" /\ label = "kRow"
             \/ at = "kRow" /\ label = "kChem"
      PROVE  OrchControl'
  <2>1. /\ pc = at /\ pc' = label /\ UNCHANGED <<cur, todo, sweep, stops, st, pos>>
        /\ \A e \in Exps \ {cur} : status'[e] = status[e]
        /\ at = "kMark" => status'[cur] = "running"
        /\ at = "kRow" => status'[cur] = status[cur]
        /\ TypeOK'
    BY <1>2, QuietDb DEF objects, outbox
  <2>2. st[cur] = "absent" /\ pos[cur] = 0
    BY <1>1, <2>1 DEF Control, Placed
  <2>3. Control' /\ Placed' /\ StatusKnown'
    BY <1>1, <1>2, <2>1, <2>2, AtHandStep DEF StatusKnown
  <2> QED
    BY <2>1, <2>3 DEF OrchControl
<1>3. ASSUME NEW at \in {"kChem", "kTag"}, NEW label \in {"kTag", "kFail", "kSend"},
             IoStep(at, label), UNCHANGED <<objects, events>>, PublishContext \/ UNCHANGED ctx,
             at = "kTag" => label = "kSend"
      PROVE  OrchControl'
  <2>1. /\ pc = at /\ pc' = label /\ UNCHANGED <<cur, todo, sweep, stops, status, st, pos>>
        /\ TypeOK'
    BY <1>3, QuietIo DEF objects
  <2>2. st[cur] = "absent" /\ pos[cur] = 0
    BY <1>1, <2>1 DEF Control, Placed
  <2>3. Control' /\ Placed' /\ StatusKnown'
    BY <1>1, <1>3, <2>1, <2>2, AtHandStep DEF StatusKnown
  <2> QED
    BY <2>1, <2>3 DEF OrchControl
<1>4. CASE KickoffSend
  <2>1. /\ pc = "kSend" /\ pc' = "pick" /\ UNCHANGED <<cur, todo, sweep, stops, status>>
        /\ st' = [st EXCEPT ![cur] = "running"] /\ UNCHANGED <<pos, ctx, events>>
        /\ ObjectTypes' => TypeOK'
    BY <1>4, IoStepFacts DEF KickoffSend, outbox
  <2>2. st'[cur] = "running" /\ \A e \in Exps \ {cur} : st'[e] = st[e]
    BY <1>1, <2>1 DEF TypeOK
  <2>3. pos[cur] \in Positions
    BY <1>1, <2>1, TotalFacts DEF Placed
  <2>4. TypeOK'
    BY <1>1, <2>1 DEF TypeOK, ObjectTypes
  <2>5. Control' /\ Placed' /\ StatusKnown'
    BY <1>1, <2>1, <2>2, <2>3, AtHandStep DEF StatusKnown
  <2> QED
    BY <2>4, <2>5 DEF OrchControl
<1>5. CASE KickoffFail
  <2>1. /\ pc = "kFail" /\ pc' = "pick" /\ UNCHANGED <<cur, todo, sweep, stops>>
        /\ st' = [st EXCEPT ![cur] = "failed"] /\ UNCHANGED <<pos, ctx, events>>
        /\ status' = StatusAfter
        /\ ObjectTypes' => TypeOK'
    BY <1>5, DbStepFacts DEF KickoffFail, outbox
  <2>2. st'[cur] = "failed" /\ \A e \in Exps \ {cur} : st'[e] = st[e] /\ status'[e] = status[e]
    BY <1>1, <2>1, StatusAfterFacts DEF TypeOK
  <2>3. TypeOK'
    BY <1>1, <2>1 DEF TypeOK, ObjectTypes, Terminal
  <2>4. Control' /\ Placed' /\ StatusKnown'
    BY <1>1, <2>1, <2>2, AtHandStep
  <2> QED
    BY <2>3, <2>4 DEF OrchControl
<1>6. CASE KickoffBad \/ KickoffMark \/ KickoffRow
  BY <1>2, <1>6 DEF KickoffBad, KickoffMark, KickoffRow
<1>7. CASE KickoffChem
  <2>1. PICK match \in BOOLEAN : IoStep("kChem", IF match THEN "kTag" ELSE "kFail")
    BY <1>7 DEF KickoffChem
  <2>2. PICK label \in {"kTag", "kFail"} : IoStep("kChem", label)
    BY <2>1
  <2> QED
    BY <1>3, <1>7, <2>2 DEF KickoffChem, outbox
<1>8. CASE KickoffTag
  BY <1>3, <1>8 DEF KickoffTag, objects
<1> QED
  BY <1>4, <1>5, <1>6, <1>7, <1>8 DEF Kickoff

\* A cycle_complete event keeps the type of the counters.
LEMMA EventTypes ==
  ASSUME TypeOK, NEW k, EnqueueCycleComplete(cur, k) \/ UNCHANGED events
  PROVE  events' \in [Exps -> [0..(Repeat - 1) -> 0..EventCap]]
<1>1. /\ events \in [Exps -> [0..(Repeat - 1) -> 0..EventCap]] /\ cur \in Exps
      /\ EventCap \in Nat
  BY BoundsAssumption DEF TypeOK, EventCap
<1>2. CASE EnqueueCycleComplete(cur, k)
  <2> DEFINE f == [events[cur] EXCEPT ![k] = IF @ < EventCap THEN @ + 1 ELSE @]
  <2>1. events' = [events EXCEPT ![cur] = f]
    BY <1>2 DEF EnqueueCycleComplete
  <2>2. events[cur] \in [0..(Repeat - 1) -> 0..EventCap]
    BY <1>1
  <2>3. \A j \in 0..(Repeat - 1) : f[j] \in 0..EventCap
    <3>1. ASSUME NEW j \in 0..(Repeat - 1) PROVE f[j] \in 0..EventCap
      <4>1. events[cur][j] \in 0..EventCap
        BY <2>2
      <4>2. f[j] = IF j = k /\ events[cur][j] < EventCap THEN events[cur][j] + 1 ELSE events[cur][j]
        BY <2>2
      <4> QED
        BY <1>1, <4>1, <4>2
    <3> QED
      BY <3>1
  <2>4. f = [j \in 0..(Repeat - 1) |-> f[j]]
    BY <2>2
  <2> HIDE DEF f
  <2>5. f \in [0..(Repeat - 1) -> 0..EventCap]
    BY <2>3, <2>4
  <2> QED
    BY <1>1, <2>1, <2>5
<1> QED
  BY <1>1, <1>2

\* The awaits of a tick keep control.
LEMMA TickControl == OrchControl /\ TickStep => OrchControl'
<1> SUFFICES ASSUME OrchControl, TickStep PROVE OrchControl'
  OBVIOUS
<1>1. TypeOK /\ Control /\ Placed /\ StatusKnown
  BY DEF OrchControl
<1> USE DEF ResumeAwaits, KickoffAwaits, TickAwaits, DbAwaits, IoAwaits, Labels
<1>2. CASE TickRead
  <2>1. PICK ended \in EndConditionMet :
            IoStep("tRead", IF LastError(cur) THEN "tClose" ELSE IF ended THEN "tEnd" ELSE "tSend")
    BY <1>2 DEF TickRead
  <2>2. PICK label \in {"tClose", "tEnd", "tSend"} :
            IoStep("tRead", label) /\ (label = "tClose" <=> LastError(cur))
    BY <2>1
  <2>3. /\ pc = "tRead" /\ pc' = label /\ UNCHANGED <<cur, todo, sweep, stops, status>>
        /\ st' = (IF LastError(cur) THEN [st EXCEPT ![cur] = "failed"] ELSE st)
        /\ UNCHANGED <<pos, ctx, events>>
        /\ ObjectTypes' => TypeOK'
    BY <1>2, <2>2, IoStepFacts DEF TickRead, outbox
  <2>4. /\ st'[cur] = IF label = "tClose" THEN "failed" ELSE st[cur]
        /\ \A e \in Exps \ {cur} : st'[e] = st[e]
        /\ st' \in [Exps -> {"absent", "local", "running"} \cup Terminal]
    BY <1>1, <2>2, <2>3 DEF TypeOK, Terminal
  <2>5. TypeOK'
    BY <1>1, <2>3, <2>4 DEF TypeOK, ObjectTypes
  <2>6. st[cur] = "running" /\ pos[cur] \in Positions
    BY <1>1, <2>3 DEF Control, Placed, TypeOK
  <2>7. Control' /\ Placed' /\ StatusKnown'
    BY <1>1, <2>3, <2>4, <2>6, AtHandStep DEF StatusKnown
  <2> QED
    BY <2>5, <2>7 DEF OrchControl
<1>3. ASSUME NEW at \in {"tClose", "tFail", "tDone", "tRow"},
             NEW label \in {"tFail", "pick", "tPark", "tTag", "tSend"},
             DbStep(at, label), UNCHANGED <<objects, events>>,
             PublishContext \/ ClearContext \/ UNCHANGED ctx,
             \/ at = "tClose" /\ label = "tFail"
             \/ at = "tFail" /\ label = "pick"
             \/ at = "tDone" /\ label = "tPark"
             \/ at = "tRow" /\ label \in {"tTag", "tSend"}
      PROVE  OrchControl'
  <2>1. /\ pc = at /\ pc' = label /\ UNCHANGED <<cur, todo, sweep, stops, st, pos>>
        /\ \A e \in Exps \ {cur} : status'[e] = status[e]
        /\ at \in {"tClose", "tRow"} => status'[cur] = status[cur]
        /\ TypeOK'
    BY <1>3, QuietDb DEF objects
  <2>2. Control' /\ Placed' /\ StatusKnown'
    <3>1. CASE at \in {"tFail", "tDone"}
      <4>1. st[cur] \in {"failed", "completed"}
            /\ (at = "tDone" => st[cur] = "completed")
        BY <1>1, <2>1, <3>1 DEF Control
      <4> QED
        BY <1>1, <1>3, <2>1, <3>1, <4>1, AtHandStep
    <3>2. CASE at = "tClose"
      <4>1. st[cur] = "failed" /\ pos[cur] \in Positions /\ (stops = 0 => status[cur] = "running")
        BY <1>1, <2>1, <3>2 DEF Control, Placed, StatusKnown
      <4> QED
        BY <1>1, <1>3, <2>1, <3>2, <4>1, AtHandStep
    <3>3. CASE at = "tRow"
      <4>1. st[cur] = "running" /\ pos[cur] \in Positions /\ (stops = 0 => status[cur] = "running")
        BY <1>1, <2>1, <3>3 DEF Control, Placed, StatusKnown, TypeOK
      <4> QED
        BY <1>1, <1>3, <2>1, <3>3, <4>1, AtHandStep
    <3> QED
      BY <3>1, <3>2, <3>3
  <2> QED
    BY <2>1, <2>2 DEF OrchControl
<1>4. ASSUME NEW at \in {"tPark", "tTag", "tSend"}, NEW label \in {"pick", "tSend"},
             IoStep(at, label), UNCHANGED <<objects, events>>,
             PublishContext \/ ClearContext \/ UNCHANGED ctx,
             at \in {"tPark", "tSend"} => label = "pick"
      PROVE  OrchControl'
  <2>1. /\ pc = at /\ pc' = label /\ UNCHANGED <<cur, todo, sweep, stops, status, st, pos>>
        /\ TypeOK'
    BY <1>4, QuietIo DEF objects
  <2>2. Control' /\ Placed' /\ StatusKnown'
    <3>1. CASE at = "tPark"
      <4>1. st[cur] = "completed"
        BY <1>1, <2>1, <3>1 DEF Control
      <4> QED
        BY <1>1, <1>4, <2>1, <3>1, <4>1, AtHandStep
    <3>2. CASE at \in {"tTag", "tSend"}
      <4>1. st[cur] = "running" /\ pos[cur] \in Positions /\ (stops = 0 => status[cur] = "running")
        BY <1>1, <2>1, <3>2 DEF Control, Placed, StatusKnown, TypeOK
      <4> QED
        BY <1>1, <1>4, <2>1, <3>2, <4>1, AtHandStep
    <3> QED
      BY <3>1, <3>2
  <2> QED
    BY <2>1, <2>2 DEF OrchControl
<1>5. CASE TickEnd
  <2> DEFINE p == pos[cur] + 1
  <2>1. AdvanceTo(p, StepOf(p) = 0, p = Total)
    BY <1>5 DEF TickEnd
  <2>2. PICK label \in {"tDone", "tRow"} : DbStep("tEnd", label) /\ (label = "tDone" <=> p = Total)
    BY <2>1 DEF AdvanceTo
  <2>3. /\ pos' = [pos EXCEPT ![cur] = p] /\ UNCHANGED ctx
        /\ st' = (IF p = Total THEN [st EXCEPT ![cur] = "completed"] ELSE st)
        /\ EnqueueCycleComplete(cur, CycleOf(pos[cur])) \/ UNCHANGED events
    BY <2>1 DEF AdvanceTo
  <2>4. /\ pc = "tEnd" /\ pc' = label /\ UNCHANGED <<cur, todo, sweep, stops>>
        /\ status' = StatusAfter
        /\ ObjectTypes' => TypeOK'
    BY <2>2, DbStepFacts
  <2>5. st[cur] = "running" /\ pos[cur] \in Positions /\ (stops = 0 => status[cur] = "running")
    BY <1>1, <2>4 DEF Control, Placed, StatusKnown, TypeOK
  <2>6. p \in 0..Total /\ (label = "tRow" => p \in Positions)
    BY <2>2, <2>5, TotalFacts DEF Positions
  <2>7. /\ pos' \in [Exps -> 0..Total] /\ pos'[cur] = p
        /\ \A e \in Exps \ {cur} : pos'[e] = pos[e]
    BY <1>1, <2>3, <2>6 DEF TypeOK
  <2>8. /\ st' \in [Exps -> {"absent", "local", "running"} \cup Terminal]
        /\ st'[cur] = IF label = "tDone" THEN "completed" ELSE "running"
        /\ \A e \in Exps \ {cur} : st'[e] = st[e]
    BY <1>1, <2>2, <2>3, <2>5 DEF TypeOK, Terminal
  <2>9. status'[cur] = status[cur] /\ \A e \in Exps \ {cur} : status'[e] = status[e]
    BY <1>1, <2>4, StatusAfterFacts
  <2>10. TypeOK'
    <3>1. events' \in [Exps -> [0..(Repeat - 1) -> 0..EventCap]]
      BY <1>1, <2>3, EventTypes
    <3> QED
      BY <1>1, <2>3, <2>4, <2>7, <2>8, <3>1 DEF TypeOK, ObjectTypes
  <2> HIDE DEF p
  <2>11. Control' /\ Placed' /\ StatusKnown'
    BY <2>4, <2>5, <2>6, <2>7, <2>8, <2>9, AtHandStep
  <2> QED
    BY <2>10, <2>11 DEF OrchControl
<1>6. CASE TickClose \/ TickDone
  BY <1>3, <1>6 DEF TickClose, TickDone, outbox
<1>7. CASE TickFail
  BY <1>3, <1>7 DEF TickFail
<1>8. CASE TickRow
  <2>1. PICK label \in {"tTag", "tSend"} : DbStep("tRow", label)
    BY <1>8 DEF TickRow
  <2>2. PublishContext \/ UNCHANGED ctx
    BY <1>8 DEF TickRow
  <2> QED
    BY <1>3, <1>8, <2>1, <2>2 DEF TickRow
<1>9. CASE TickPark \/ TickTag \/ TickSend
  BY <1>4, <1>9 DEF TickPark, TickTag, TickSend, outbox
<1> QED
  BY <1>2, <1>5, <1>6, <1>7, <1>8, <1>9 DEF TickStep

-----------------------------------------------------------------------------
(* Sweeps.                                                                 *)

\* A non-empty set of positions has a last one, which Max is.
LEMMA LastPosition ==
  ASSUME NEW T \in SUBSET Positions, T # {}
  PROVE  Max(T) \in T /\ \A q \in T : q <= Max(T)
<1> DEFINE D == {d \in 0..Total : Total - d \in T}
<1>1. \A q \in T : q \in Nat /\ q <= Total /\ Total - q \in D
  BY TotalFacts DEF Positions
<1>2. D \in SUBSET Nat /\ D # {}
  BY <1>1
<1>3. PICK x \in D : \A y \in D : ~(<<y, x>> \in OpToRel(<, Nat))
  BY <1>2, NatLessThanWellFounded, WFMin
<1>4. \A y \in D : ~(y < x)
  BY <1>2, <1>3 DEF OpToRel
<1>5. Total - x \in T /\ x \in Nat
  <2>1. x \in D
    BY <1>3
  <2> QED
    BY <2>1, TotalFacts
<1>6. ASSUME NEW q \in T PROVE q <= Total - x
  <2>1. q \in Nat /\ Total - q \in D
    BY <1>1
  <2>2. ~(Total - q < x)
    BY <1>4, <2>1
  <2> HIDE DEF D
  <2> QED
    BY <2>1, <2>2, <1>5, TotalFacts
<1> HIDE DEF D
<1>7. \A q \in T : Total - x >= q
  BY <1>1, <1>5, <1>6, TotalFacts
<1>8. Max(T) \in T /\ \A q \in T : Max(T) >= q
  BY <1>5, <1>7 DEF Max
<1>9. \A q \in T : q \in Nat
  BY <1>1
<1> QED
  BY <1>8, <1>9

\* _load_resume_state: no row is after the position, its own is not closed, and
\* a row before it that is not closed is before another row.
LEMMA ResumeFacts ==
  ASSUME TypeOK, NEW e \in Exps
  PROVE  /\ ResumePosition(e) \in 0..Total
         /\ \A p \in Positions : p > ResumePosition(e) => rows[e][p] = "none"
         /\ ResumePosition(e) \in Positions => rows[e][ResumePosition(e)] # "completed"
         /\ \A p \in Positions : p < ResumePosition(e) /\ rows[e][p] # "completed" =>
               \E q \in Positions : rows[e][q] # "none" /\ p < q
<1> DEFINE used == {p \in Positions : rows[e][p] # "none"}
<1>1. \A p \in Positions : p \in Nat /\ p < Total /\ rows[e][p] \in RowStates
  BY TotalFacts DEF TypeOK, Positions
<1>2. CASE used = {}
  <2>1. ResumePosition(e) = 0
    BY <1>2 DEF ResumePosition
  <2> QED
    BY <1>1, <1>2, <2>1, TotalFacts
<1>3. CASE used # {}
  <2>1. PICK m : m = Max(used)
    OBVIOUS
  <2>2. m \in used /\ \A q \in used : q <= m
    BY <1>3, <2>1, LastPosition
  <2>3. m \in Positions /\ m \in Nat /\ m < Total /\ rows[e][m] \in {"running", "completed"}
    BY <1>1, <2>2 DEF RowStates
  <2>4. \A p \in Positions : p > m => rows[e][p] = "none"
    BY <1>1, <2>2, <2>3
  <2>5. ResumePosition(e) = IF rows[e][m] = "running" THEN m ELSE m + 1
    BY <1>3, <2>1 DEF ResumePosition
  <2>6. CASE rows[e][m] = "running"
    BY <1>1, <2>2, <2>3, <2>4, <2>5, <2>6, TotalFacts
  <2>7. CASE rows[e][m] = "completed"
    <3>1. ResumePosition(e) = m + 1
      BY <2>5, <2>7
    <3>2. \A p \in Positions : p >= m + 1 => rows[e][p] = "none"
      BY <1>1, <2>3, <2>4
    <3>3. \A p \in Positions : p < m + 1 /\ rows[e][p] # "completed" => p < m
      BY <1>1, <2>3, <2>7
    <3> QED
      BY <1>1, <2>3, <2>7, <3>1, <3>2, <3>3, TotalFacts
  <2> QED
    BY <2>3, <2>6, <2>7
<1> QED
  BY <1>2, <1>3

\* Giving up a sweep keeps control, whatever was written before.
LEMMA AbandonControl ==
  ASSUME OrchControl, AbandonSweep, TypeOK', stops' = stops,
         \A e \in Exps \ {cur} : status'[e] = status[e],
         stops = 0 /\ st[cur] = "running" => status'[cur] = "running"
  PROVE  OrchControl'
<1>1. TypeOK /\ Control /\ Placed /\ StatusKnown
  BY DEF OrchControl
<1>2. /\ pc' = "pick" /\ todo' = {} /\ UNCHANGED <<cur, sweep, pos>>
      /\ \A e \in Exps : st'[e] = IF st[e] = "local" THEN "absent" ELSE st[e]
  BY DEF AbandonSweep
<1> USE DEF ResumeAwaits, KickoffAwaits, TickAwaits, DbAwaits, IoAwaits
<1>3. Control'
  BY <1>1, <1>2 DEF Control
<1>4. Placed'
  BY <1>1, <1>2 DEF Placed
<1>5. StatusKnown'
  BY <1>1, <1>2 DEF StatusKnown
<1> QED
  BY <1>3, <1>4, <1>5 DEF OrchControl

\* What giving up a sweep makes of the objects is of their type.
LEMMA AbandonTypes ==
  ASSUME TypeOK, AbandonSweep
  PROVE  /\ st' \in [Exps -> {"absent", "local", "running"} \cup Terminal]
         /\ pc' \in DbAwaits \cup IoAwaits \cup {"down", "pick", "poll"}
         /\ todo' \subseteq Exps /\ UNCHANGED <<cur, sweep, pos>>
BY DEF AbandonSweep, TypeOK, Terminal

\* What an error strands are experiments.
LEMMA StrandTypes ==
  ASSUME TypeOK, Strand
  PROVE  stranded' \subseteq Exps
BY DEF Strand, Gathered, TypeOK

\* A boot, a poll, a pick and the end of a sweep keep control.
LEMMA SweepControl ==
  OrchControl /\ (Boot \/ Poll \/ EndSweep \/ \E e \in Exps : Pick(e) \/ Refuse(e)) => OrchControl'
<1> SUFFICES ASSUME OrchControl, Boot \/ Poll \/ EndSweep \/ \E e \in Exps : Pick(e) \/ Refuse(e)
             PROVE  OrchControl'
  OBVIOUS
<1>1. TypeOK /\ Control /\ Placed /\ StatusKnown
  BY DEF OrchControl
<1> USE DEF ResumeAwaits, KickoffAwaits, TickAwaits, DbAwaits, IoAwaits
<1>2. CASE Boot
  <2>1. /\ pc = "down" /\ pc' = "pick" /\ sweep' = "resume" /\ UNCHANGED <<cur, st, pos, status, rows>>
        /\ UNCHANGED <<drive, latched, modeReg, shown, tag, chem, ctx, events>>
        /\ UNCHANGED <<crashes, ioErrors, dbErrors, stops, restarts, rewrites, invalid, cut>> /\ stranded' = {}
        /\ todo' = {e \in Exps : status[e] = "running"}
    BY <1>2 DEF Boot, Inflight, db, objects, channels, outbox, faults
  <2>2. TypeOK'
    BY <1>1, <2>1 DEF TypeOK
  <2>3. Control'
    BY <1>1, <2>1 DEF Control
  <2>4. Placed'
    BY <1>1, <2>1 DEF Placed
  <2>5. StatusKnown'
    BY <1>1, <2>1 DEF StatusKnown
  <2> QED
    BY <2>2, <2>3, <2>4, <2>5 DEF OrchControl
<1>3. CASE Poll
  <2>1. /\ pc = "poll" /\ pc' = "pick" /\ sweep' = "kickoff" /\ UNCHANGED <<cur, pos, status, rows>>
        /\ UNCHANGED <<drive, latched, modeReg, shown, tag, chem, ctx, events>>
        /\ UNCHANGED <<crashes, ioErrors, dbErrors, stops, restarts, rewrites, invalid, cut, stranded>>
        /\ st' = [e \in Exps |-> IF st[e] \in Terminal THEN "absent" ELSE st[e]]
        /\ todo' = {e \in Exps : status[e] = "pending" /\ st'[e] = "absent"}
    BY <1>3 DEF Poll, PendingRows, db, channels, outbox, faults, ghosts
  <2>2. \A e \in Exps : st'[e] = IF st[e] \in Terminal THEN "absent" ELSE st[e]
    BY <2>1
  <2>3. TypeOK'
    <3>1. st' \in [Exps -> {"absent", "local", "running"} \cup Terminal]
      BY <1>1, <2>1 DEF TypeOK, Terminal
    <3> QED
      BY <1>1, <2>1, <3>1 DEF TypeOK
  <2>4. Control'
    BY <1>1, <2>1 DEF Control
  <2>5. Placed'
    BY <1>1, <2>1, <2>2 DEF Placed
  <2>6. StatusKnown'
    BY <1>1, <2>1, <2>2 DEF StatusKnown
  <2> QED
    BY <2>3, <2>4, <2>5, <2>6 DEF OrchControl
<1>4. CASE EndSweep
  <2>1. /\ pc = "pick" /\ todo = {} /\ UNCHANGED <<cur, pos, status, rows>>
        /\ UNCHANGED <<drive, latched, modeReg, shown, tag, chem, ctx, events>>
        /\ UNCHANGED <<crashes, ioErrors, dbErrors, stops, restarts, rewrites, invalid, cut, stranded>>
        /\ st' = [e \in Exps |-> IF st[e] = "local" THEN "running" ELSE st[e]]
        /\ \/ /\ sweep' = "tick" /\ pc' = "pick" /\ todo' = {e \in Exps : st[e] = "running"}
           \/ sweep' = sweep /\ pc' = "poll" /\ todo' = {}
    BY <1>4 DEF EndSweep, db, channels, outbox, faults, ghosts
  <2>2. \A e \in Exps : st'[e] = IF st[e] = "local" THEN "running" ELSE st[e]
    BY <2>1
  <2>3. TypeOK'
    <3>1. st' \in [Exps -> {"absent", "local", "running"} \cup Terminal]
      BY <1>1, <2>1 DEF TypeOK, Terminal
    <3> QED
      BY <1>1, <2>1, <3>1 DEF TypeOK
  <2>4. Control'
    BY <1>1, <2>1, <2>2 DEF Control
  <2>5. Placed'
    BY <1>1, <2>1, <2>2 DEF Placed
  <2>6. StatusKnown'
    BY <1>1, <2>1, <2>2 DEF StatusKnown
  <2> QED
    BY <2>3, <2>4, <2>5, <2>6 DEF OrchControl
<1>5. CASE \E e \in Exps : Pick(e)
  <2>1. PICK e \in Exps : Pick(e)
    BY <1>5
  <2>2. /\ pc = "pick" /\ e \in todo /\ cur' = e /\ todo' = todo \ {e}
        /\ UNCHANGED <<sweep, st, status, rows>>
        /\ UNCHANGED <<drive, latched, modeReg, shown, tag, chem, ctx, events>>
        /\ UNCHANGED <<crashes, ioErrors, dbErrors, stops, restarts, rewrites, invalid, cut, stranded>>
    BY <2>1 DEF Pick, db, channels, outbox, faults, ghosts
  <2>3. PICK r \in 0..Total : r = ResumePosition(e)
    BY <1>1, ResumeFacts
  <2>4. /\ sweep \in {"resume", "kickoff", "tick"} /\ pos \in [Exps -> 0..Total]
        /\ todo \subseteq Exps /\ 0 \in 0..Total
        /\ r < Total => r \in Positions
    <3>1. r < Total => r \in 0..(Total - 1)
      BY <2>3, TotalFacts
    <3>2. 0 \in 0..Total
      BY TotalFacts
    <3> QED
      BY <1>1, <3>1, <3>2 DEF TypeOK, Positions
  <2>5. PICK p \in 0..Total : /\ sweep = "tick" => p = pos[e]
                              /\ sweep = "kickoff" => p = 0
                              /\ sweep = "resume" => p = r
                              /\ pos' = [pos EXCEPT ![e] = p]
    BY <2>1, <2>3, <2>4 DEF Pick
  <2>6. /\ sweep = "tick" => pc' = "tRead"
        /\ sweep = "kickoff" => pc' \in {"kMark", "kBad"}
        /\ sweep = "resume" => pc' \in {"rFail", "rDone", "rRead"}
        /\ pc' = "rRead" => r < Total
    BY <2>1, <2>3, <2>4, TotalFacts DEF Pick
  <2>7. /\ pos' \in [Exps -> 0..Total] /\ pos'[e] = p
        /\ \A x \in Exps \ {e} : pos'[x] = pos[x]
    BY <2>4, <2>5
  <2>8. TypeOK'
    BY <1>1, <2>2, <2>4, <2>6, <2>7 DEF TypeOK
  <2>9. st[e] = IF sweep = "tick" THEN "running" ELSE "absent"
    BY <1>1, <2>2 DEF Control
  <2>10. Control'
    BY <1>1, <2>2, <2>4, <2>6, <2>9 DEF Control
  <2>11. Placed'
    <3>1. ASSUME NEW x \in Exps, st[x] \in {"local", "running"} PROVE pos'[x] \in Positions
      BY <1>1, <2>4, <2>5, <2>7, <2>9, <3>1 DEF Placed
    <3> QED
      BY <2>2, <2>4, <2>5, <2>6, <2>7, <3>1 DEF Placed
  <2>12. StatusKnown'
    BY <1>1, <2>2, <2>4, <2>6 DEF StatusKnown
  <2> QED
    BY <2>8, <2>10, <2>11, <2>12 DEF OrchControl
<1>6. CASE \E e \in Exps : Refuse(e)
  <2>1. /\ AbandonSweep /\ UNCHANGED <<status, rows, drive, latched, modeReg, shown, tag, chem>>
        /\ UNCHANGED <<ctx, events, crashes, ioErrors, dbErrors, stops, restarts, rewrites>>
        /\ UNCHANGED <<invalid, cut>> /\ Strand
    BY <1>6 DEF Refuse, db, channels, outbox, faults
  <2>2. stranded' \subseteq Exps
    BY <1>1, <2>1, StrandTypes
  <2>3. TypeOK'
    BY <1>1, <2>1, <2>2, AbandonTypes DEF TypeOK
  <2>4. stops = 0 /\ st[cur] = "running" => status'[cur] = "running"
    BY <1>1, <2>1 DEF StatusKnown, TypeOK
  <2> QED
    BY <2>1, <2>3, <2>4, AbandonControl
<1> QED
  BY <1>2, <1>3, <1>4, <1>5, <1>6

-----------------------------------------------------------------------------
(* Faults and the environment.                                             *)

\* The experiments a fault struck are experiments.
LEMMA CutTypes ==
  ASSUME TypeOK
  PROVE  cut \cup Cut \subseteq Exps /\ cut \cup Exchanged \cup Cut \subseteq Exps
BY DEF Cut, Exchanged, TypeOK

\* A failed Modbus request keeps control.
LEMMA IoErrorControl == OrchControl /\ IoError => OrchControl'
<1> SUFFICES ASSUME OrchControl, IoError PROVE OrchControl'
  OBVIOUS
<1>1. TypeOK /\ Control /\ Placed /\ StatusKnown
  BY DEF OrchControl
<1>2. /\ pc \in IoAwaits /\ ioErrors < MaxIoErrors /\ ioErrors' = ioErrors + 1 /\ Strand
      /\ cut' \in {cut \cup Exchanged \cup Cut, cut \cup Cut}
      /\ UNCHANGED <<status, rows, ctx, events, crashes, dbErrors, stops, restarts, rewrites, invalid>>
  BY DEF IoError, db, outbox
<1>3. ChannelTypes'
  <2>1. CASE IoWrite
    BY <1>1, <2>1, IoWriteTypes
  <2>2. CASE UNCHANGED channels
    BY <1>1, <2>2 DEF TypeOK, ChannelTypes, channels
  <2> QED
    BY <2>1, <2>2 DEF IoError
<1>4. ioErrors' \in 0..MaxIoErrors
  BY <1>1, <1>2, BoundsAssumption DEF TypeOK
<1>5. cut' \subseteq Exps /\ stranded' \subseteq Exps
  BY <1>1, <1>2, CutTypes, StrandTypes
<1>6. CASE AbandonSweep
  <2>1. TypeOK'
    BY <1>1, <1>2, <1>3, <1>4, <1>5, <1>6, AbandonTypes DEF TypeOK, ChannelTypes
  <2>2. stops = 0 /\ st[cur] = "running" => status'[cur] = "running"
    BY <1>1, <1>2 DEF StatusKnown, TypeOK
  <2> QED
    BY <1>2, <1>6, <2>1, <2>2, AbandonControl
<1>7. CASE Goto(IF pc = "rDrift" THEN "rFail" ELSE "pick") /\ UNCHANGED objects
  <2>1. /\ pc' = IF pc = "rDrift" THEN "rFail" ELSE "pick"
        /\ UNCHANGED <<cur, todo, sweep, st, pos>>
    BY <1>7 DEF Goto, objects
  <2>2. TypeOK'
    BY <1>1, <1>2, <1>3, <1>4, <1>5, <2>1 DEF TypeOK, ChannelTypes, DbAwaits
  <2> USE DEF ResumeAwaits, KickoffAwaits, TickAwaits, DbAwaits, IoAwaits
  <2>3. CASE pc = "rDrift"
    <3>1. st[cur] = "absent" /\ (stops = 0 => status[cur] = "running") /\ pc' = "rFail"
      BY <1>1, <2>1, <2>3 DEF Control, StatusKnown
    <3> QED
      BY <1>2, <2>1, <2>2, <2>3, <3>1, AtHandStep DEF OrchControl
  <2>4. CASE pc # "rDrift"
    <3>1. st[cur] \in {"local", "running"} => pos[cur] \in Positions
      BY <1>1 DEF Placed, TypeOK
    <3>2. stops = 0 /\ st[cur] \in {"local", "running"} => status[cur] = "running"
      BY <1>1 DEF StatusKnown, TypeOK
    <3> QED
      BY <1>2, <2>1, <2>2, <2>4, <3>1, <3>2, AtHandStep DEF OrchControl
  <2> QED
    BY <2>3, <2>4
<1> QED
  BY <1>6, <1>7 DEF IoError

\* A statement, written or not: what it does to status.
LEMMA MaybeWritten ==
  ASSUME OrchControl, pc \in DbAwaits, DbWrite \/ UNCHANGED db
  PROVE  /\ rows' \in [Exps -> [Positions -> RowStates]] /\ status' \in [Exps -> Statuses]
         /\ \A e \in Exps \ {cur} : status'[e] = status[e]
         /\ st[cur] = "running" => status'[cur] = status[cur]
<1>1. TypeOK /\ Control
  BY DEF OrchControl
<1>2. CASE DbWrite
  <2>1. rows' = RowsAfter /\ status' = StatusAfter
    BY <1>2 DEF DbWrite
  <2>2. st[cur] = "running" => pc \notin {"rFail", "kBad", "kFail", "tFail", "rDone", "tDone", "kMark"}
    BY <1>1 DEF Control, ResumeAwaits, KickoffAwaits
  <2> QED
    BY <1>1, <2>1, <2>2, RowsAfterFacts, StatusAfterFacts
<1>3. CASE UNCHANGED db
  BY <1>1, <1>3 DEF db, TypeOK
<1> QED
  BY <1>2, <1>3

\* A failed statement keeps control.
LEMMA DbErrorControl == OrchControl /\ DbError => OrchControl'
<1> SUFFICES ASSUME OrchControl, DbError PROVE OrchControl'
  OBVIOUS
<1>1. TypeOK /\ Control /\ Placed /\ StatusKnown
  BY DEF OrchControl
<1>2. /\ pc \in DbAwaits /\ dbErrors < MaxDbErrors /\ dbErrors' = dbErrors + 1
      /\ cut' = cut \cup Cut /\ Strand
      /\ UNCHANGED <<drive, latched, modeReg, shown, tag, chem>>
      /\ UNCHANGED <<ctx, events, crashes, ioErrors, stops, restarts, rewrites, invalid>>
      /\ DbWrite \/ UNCHANGED db
  BY DEF DbError, channels, outbox
<1>3. /\ rows' \in [Exps -> [Positions -> RowStates]] /\ status' \in [Exps -> Statuses]
      /\ \A e \in Exps \ {cur} : status'[e] = status[e]
      /\ st[cur] = "running" => status'[cur] = status[cur]
  BY <1>2, MaybeWritten
<1>4. dbErrors' \in 0..MaxDbErrors
  BY <1>1, <1>2, BoundsAssumption DEF TypeOK
<1>5. cut' \subseteq Exps /\ stranded' \subseteq Exps
  BY <1>1, <1>2, CutTypes, StrandTypes
<1>6. CASE AbandonSweep
  <2>1. TypeOK'
    BY <1>1, <1>2, <1>3, <1>4, <1>5, <1>6, AbandonTypes DEF TypeOK
  <2>2. stops = 0 /\ st[cur] = "running" => status'[cur] = "running"
    BY <1>1, <1>3 DEF StatusKnown, TypeOK
  <2> QED
    BY <1>2, <1>3, <1>6, <2>1, <2>2, AbandonControl
<1>7. CASE sweep # "resume" /\ pc # "kBad" /\ Goto("pick") /\ UNCHANGED objects
  <2>1. pc' = "pick" /\ UNCHANGED <<cur, todo, sweep, st, pos>> /\ sweep # "resume"
    BY <1>7 DEF Goto, objects
  <2>2. TypeOK'
    BY <1>1, <1>2, <1>3, <1>4, <1>5, <2>1 DEF TypeOK
  <2>3. st[cur] \in {"local", "running"} =>
            pos[cur] \in Positions /\ st[cur] = "running" /\ (stops = 0 => status'[cur] = "running")
    <3>1. st[cur] # "local"
      BY <1>1, <1>2, <2>1 DEF Control, ResumeAwaits, KickoffAwaits, DbAwaits
    <3> QED
      BY <1>1, <1>3, <3>1 DEF Placed, StatusKnown, TypeOK
  <2> USE DEF ResumeAwaits, KickoffAwaits, TickAwaits, DbAwaits, IoAwaits
  <2> QED
    BY <1>2, <1>3, <2>1, <2>2, <2>3, AtHandStep DEF OrchControl
<1> QED
  BY <1>6, <1>7 DEF DbError

\* A crash, and what happens without the executor, keeps control.
LEMMA EnvironmentControl ==
  OrchControl /\ (\/ Crash \/ Environment \/ SoakStop \/ CyclerRestart
                  \/ (\E e \in Exps : Rewrite(e)) \/ UNCHANGED vars)
      => OrchControl'
<1> SUFFICES ASSUME OrchControl,
                    \/ Crash \/ Environment \/ SoakStop \/ CyclerRestart
                    \/ (\E e \in Exps : Rewrite(e)) \/ UNCHANGED vars
             PROVE  OrchControl'
  OBVIOUS
<1>1. TypeOK /\ Control /\ Placed /\ StatusKnown
  BY DEF OrchControl
<1>2. CASE Crash
  <2>1. /\ crashes < MaxCrashes /\ crashes' = crashes + 1 /\ pc' = "down" /\ todo' = {}
        /\ cut' = cut \cup Cut /\ UNCHANGED <<rewrites, invalid, stranded>>
        /\ UNCHANGED <<cur, sweep, status, rows, pos, ctx, events, ioErrors, dbErrors, stops, restarts>>
        /\ UNCHANGED <<drive, latched, modeReg, shown, tag, chem>>
        /\ st' = [e \in Exps |-> "absent"]
    BY <1>2 DEF Crash, db, channels, outbox
  <2>2. crashes' \in 0..MaxCrashes /\ cut' \subseteq Exps
    BY <1>1, <2>1, BoundsAssumption, CutTypes DEF TypeOK
  <2>3. TypeOK'
    BY <1>1, <2>1, <2>2 DEF TypeOK
  <2>4. Control' /\ Placed' /\ StatusKnown'
    BY <2>1 DEF Control, Placed, StatusKnown, ResumeAwaits, KickoffAwaits, TickAwaits, DbAwaits, IoAwaits
  <2> QED
    BY <2>3, <2>4 DEF OrchControl
<1>3. ASSUME UNCHANGED <<status, rows, pc, cur, todo, sweep, st, pos, ctx, events>>,
             UNCHANGED <<crashes, ioErrors, dbErrors, stops, stranded>>,
             restarts' \in 0..MaxRestarts, rewrites' \in 0..MaxRewrites,
             invalid' \subseteq Exps, cut' \subseteq Exps, ChannelTypes'
      PROVE  OrchControl'
  <2>1. TypeOK'
    BY <1>1, <1>3 DEF TypeOK, ChannelTypes
  <2>2. Control' /\ Placed' /\ StatusKnown'
    BY <1>1, <1>3 DEF Control, Placed, StatusKnown
  <2> QED
    BY <2>1, <2>2 DEF OrchControl
<1>4. CASE Environment
  <2>1. UNCHANGED <<status, rows, pc, cur, todo, sweep, st, pos, ctx, events>>
        /\ UNCHANGED <<crashes, ioErrors, dbErrors, stops, restarts, rewrites, invalid, cut, stranded>>
    BY <1>4 DEF Environment, Latch, Mirror, db, task, objects, outbox, faults, ghosts
  <2>2. ChannelTypes'
    <3>1. ASSUME NEW e \in Exps, Latch(e) PROVE ChannelTypes'
      <4>1. drive' \in [Exps -> 0..NSteps]
        BY <1>1, <3>1, ScheduleAssumption DEF Latch, TypeOK, NoStep
      <4>2. latched' \in [Exps -> BOOLEAN]
        BY <1>1, <3>1 DEF Latch, TypeOK
      <4> QED
        BY <1>1, <3>1, <4>1, <4>2 DEF Latch, TypeOK, ChannelTypes
    <3>2. CASE Mirror
      <4>1. ASSUME NEW e \in Exps PROVE ModeDriven(drive[e]) \in Modes
        <5>1. PICK d \in 0..NSteps : d = drive[e]
          BY <1>1 DEF TypeOK
        <5>2. d # NSteps => d \in 0..(NSteps - 1)
          BY ScheduleAssumption
        <5> QED
          BY <5>1, <5>2 DEF ModeDriven, Modes, NoStep
      <4> QED
        BY <1>1, <3>2, <4>1 DEF Mirror, TypeOK, ChannelTypes
    <3> QED
      BY <1>4, <3>1, <3>2 DEF Environment
  <2> QED
    BY <1>1, <1>3, <2>1, <2>2 DEF TypeOK
<1>5. CASE CyclerRestart
  <2>1. UNCHANGED <<status, rows, pc, cur, todo, sweep, st, pos, ctx, events>>
        /\ UNCHANGED <<crashes, ioErrors, dbErrors, stops, rewrites, invalid, stranded>>
        /\ restarts < MaxRestarts /\ restarts' = restarts + 1
        /\ cut' = cut \cup {e \in Exps : ~Fresh(e)}
    BY <1>5 DEF CyclerRestart, db, task, objects, outbox
  <2>2. restarts' \in 0..MaxRestarts /\ rewrites \in 0..MaxRewrites /\ invalid \subseteq Exps
        /\ cut' \subseteq Exps
    BY <1>1, <2>1, BoundsAssumption DEF TypeOK
  <2>3. ChannelTypes'
    <3>1. NoStep \in 0..NSteps /\ 0 \in 0..MaxTag /\ BootChem \in Chemistries
          /\ "idle" \in Modes
      BY ScheduleAssumption DEF NoStep, Chemistries, Modes
    <3> QED
      BY <1>5, <3>1 DEF CyclerRestart, ChannelTypes
  <2> QED
    BY <1>3, <2>1, <2>2, <2>3
<1>6. CASE SoakStop
  <2>1. /\ stops < MaxStops /\ stops' = stops + 1
        /\ UNCHANGED <<rows, pc, cur, todo, sweep, st, pos, ctx, events>>
        /\ UNCHANGED <<drive, latched, modeReg, shown, tag, chem, crashes, ioErrors, dbErrors, restarts>>
        /\ UNCHANGED <<rewrites, invalid, cut, stranded>>
        /\ status' = [e \in Exps |-> IF status[e] \in {"pending", "running"}
                                     THEN "completed" ELSE status[e]]
    BY <1>6 DEF SoakStop, task, objects, channels, outbox, ghosts
  <2>2. stops' \in 0..MaxStops /\ stops' # 0
    BY <1>1, <2>1, BoundsAssumption DEF TypeOK
  <2>3. status' \in [Exps -> Statuses]
    BY <1>1, <2>1 DEF TypeOK, Statuses
  <2>4. TypeOK'
    BY <1>1, <2>1, <2>2, <2>3 DEF TypeOK
  <2>5. Control' /\ Placed' /\ StatusKnown'
    BY <1>1, <2>1, <2>2 DEF Control, Placed, StatusKnown
  <2> QED
    BY <2>4, <2>5 DEF OrchControl
<1>7. CASE UNCHANGED vars
  <2>1. UNCHANGED <<status, rows, pc, cur, todo, sweep, st, pos, ctx, events>>
        /\ UNCHANGED <<drive, latched, modeReg, shown, tag, chem>>
        /\ UNCHANGED <<crashes, ioErrors, dbErrors, stops, restarts, rewrites, invalid, cut, stranded>>
    BY <1>7 DEF vars, db, task, objects, channels, outbox, faults, ghosts
  <2> QED
    BY <1>1, <1>3, <2>1 DEF TypeOK, ChannelTypes
<1>8. CASE \E e \in Exps : Rewrite(e)
  <2>1. UNCHANGED <<status, rows, pc, cur, todo, sweep, st, pos, ctx, events>>
        /\ UNCHANGED <<drive, latched, modeReg, shown, tag, chem>>
        /\ UNCHANGED <<crashes, ioErrors, dbErrors, stops, restarts, cut, stranded>>
        /\ rewrites < MaxRewrites /\ rewrites' = rewrites + 1
        /\ \E e \in Exps : invalid' = invalid \cup {e}
    BY <1>8 DEF Rewrite, db, task, objects, channels, outbox, ghosts
  <2>2. rewrites' \in 0..MaxRewrites /\ invalid' \subseteq Exps
    BY <1>1, <2>1, BoundsAssumption DEF TypeOK
  <2> QED
    BY <1>1, <1>3, <2>1, <2>2 DEF TypeOK, ChannelTypes
<1> QED
  BY <1>2, <1>4, <1>5, <1>6, <1>7, <1>8

\* Every step keeps control.
LEMMA ControlNext == OrchControl /\ [Next]_vars => OrchControl'
BY ResumeControl, KickoffControl, TickControl, SweepControl, IoErrorControl, DbErrorControl,
   EnvironmentControl DEF Next, Executor

\* The executor is at one await of one sweep, its objects stand on steps of
\* their schedules, and unless the operator stopped experiments behind its back
\* it knows their status: for any number of crashes and failed requests.
THEOREM ControlInvariance == Spec => []OrchControl
BY ControlInit, ControlNext, PTL DEF Spec

\* Type correctness: _advance and _load_resume_state never leave the schedule,
\* and a cycle tag always fits its register.
THEOREM OrchTypes == Spec => []TypeOK
<1>1. OrchControl => TypeOK
  BY DEF OrchControl
<1> QED
  BY <1>1, ControlInvariance, PTL

\* Postgres changes by the statement of the await at hand, or by a stop.
LEMMA DbChanges ==
  ASSUME Next
  PROVE  UNCHANGED db \/ (pc \in DbAwaits /\ DbWrite) \/ SoakStop
<1>1. CASE Boot \/ Poll \/ EndSweep \/ \E e \in Exps : Pick(e) \/ Refuse(e)
  BY <1>1 DEF Boot, Poll, EndSweep, Pick, Refuse
<1>2. \A at, label : at \in DbAwaits /\ DbStep(at, label) => pc \in DbAwaits /\ DbWrite
  BY DEF DbStep
<1>3. \A at, label : IoStep(at, label) => UNCHANGED db
  BY DEF IoStep, db
<1>4. CASE Resume
  BY <1>2, <1>3, <1>4 DEF Resume, ResumeRead, ResumeDrift, ResumeRow, ResumeFail, ResumeDone, DbAwaits
<1>5. CASE Kickoff
  BY <1>2, <1>3, <1>5 DEF Kickoff, KickoffBad, KickoffMark, KickoffRow, KickoffChem, KickoffTag,
                          KickoffSend, KickoffFail, DbAwaits
<1>6. CASE TickStep
  BY <1>2, <1>3, <1>6 DEF TickStep, TickRead, TickClose, TickFail, TickEnd, AdvanceTo, TickDone,
                          TickPark, TickRow, TickTag, TickSend, DbAwaits
<1>7. CASE IoError \/ DbError \/ Crash \/ CyclerRestart \/ Environment \/ \E e \in Exps : Rewrite(e)
  BY <1>7 DEF IoError, DbError, Crash, CyclerRestart, Environment, Latch, Mirror, Rewrite
<1> QED
  BY <1>1, <1>4, <1>5, <1>6, <1>7 DEF Next, Executor

\* What the executor writes over a final status, it writes over a stop.
LEMMA FinalStatusStep ==
  ASSUME OrchControl, [Next]_vars, NEW e \in Exps, status[e] \in Terminal, status'[e] # status[e]
  PROVE  stops > 0 /\ cur = e /\ pc \in DbAwaits
<1>1. TypeOK /\ StatusKnown
  BY DEF OrchControl
<1>2. ~ UNCHANGED db
  BY DEF db
<1>3. Next
  BY <1>2 DEF vars
<1>4. ~ SoakStop
  BY <1>1 DEF SoakStop, Terminal, TypeOK
<1>5. pc \in DbAwaits /\ status' = StatusAfter
  BY <1>2, <1>3, <1>4, DbChanges DEF DbWrite
<1>6. cur = e
  BY <1>1, <1>5, StatusAfterFacts
<1>7. stops # 0
  BY <1>1, <1>5, <1>6 DEF StatusKnown, Terminal, DbAwaits
<1> QED
  BY <1>1, <1>5, <1>6, <1>7, BoundsAssumption DEF TypeOK

\* A final status stays, but for the unconditional UPDATE of an experiment that
\* the executor holds when the operator stops it.
THEOREM FinalStatusStaysAlways == Spec => FinalStatusStays
<1>1. OrchControl /\ [Next]_vars =>
        [\A e \in Exps : status[e] \in Terminal /\ status'[e] # status[e]
              => stops > 0 /\ cur = e /\ pc \in DbAwaits]_vars
  BY FinalStatusStep
<1> QED
  BY <1>1, ControlInvariance, PTL DEF Spec, FinalStatusStays

-----------------------------------------------------------------------------
(* The ledger of step rows, one experiment at a time.                      *)

\* A subset has no more elements.
LEMMA CountWithin ==
  ASSUME NEW T, IsFiniteSet(T), NEW S \in SUBSET T, NEW d \in Nat, Cardinality(T) <= d
  PROVE  Cardinality(S) <= d /\ IsFiniteSet(S)
<1>1. IsFiniteSet(S) /\ Cardinality(S) <= Cardinality(T)
  BY FS_Subset
<1>2. Cardinality(S) \in Nat /\ Cardinality(T) \in Nat
  BY <1>1, FS_CardinalityType
<1> QED
  BY <1>1, <1>2

\* A set with at most one more element.
LEMMA CountOneMore ==
  ASSUME NEW T, IsFiniteSet(T), NEW x, NEW S \in SUBSET (T \cup {x}), NEW d \in Nat,
         Cardinality(T) <= d
  PROVE  Cardinality(S) <= d + 1
<1>1. IsFiniteSet(T \cup {x}) /\ Cardinality(T \cup {x}) \in {Cardinality(T), Cardinality(T) + 1}
  BY FS_AddElement
<1>2. Cardinality(T) \in Nat
  BY FS_CardinalityType
<1>3. Cardinality(T \cup {x}) <= d + 1
  BY <1>1, <1>2
<1> QED
  BY <1>1, <1>3, CountWithin

\* There are finitely many positions.
LEMMA PositionsFinite == IsFiniteSet(Positions) /\ \A p \in Positions : p \in Nat
BY FS_Interval, TotalFacts DEF Positions

\* The ledger's invariant at experiment e.
LedgerAt(e) ==
    /\ Live(e) => \A p \in Positions : p > pos[e] => rows[e][p] = "none"
    /\ Live(e) => Cardinality(Gaps(e)) <= dbErrors
    /\ Cardinality(Holes(e)) <= dbErrors
    /\ \A k \in 0..(Repeat - 1) :
         LET l == LastOfCycle(k)
             here == st[e] = "running" /\ pos[e] = l
         IN  /\ events[e][k] <= 1 + dbErrors
             /\ rows[e][l] # "completed" \/ here => events[e][k] <= dbErrors
             /\ here /\ Unrecorded(e) => events[e][k] < dbErrors
             /\ events[e][k] > 0 => Cardinality(Undone(e, k)) <= dbErrors

\* What most steps do to an experiment: it stays at its position, at most the
\* row there is inserted or closed, it does not come to life, and if it is
\* between two steps now, it was with the same rows, or its row is open, or a
\* statement of its own has failed.
Kept(e) ==
    /\ pos'[e] = pos[e] /\ events'[e] = events[e]
    /\ \A p \in Positions :
         \/ rows'[e][p] = rows[e][p]
         \/ p = pos[e] /\ rows[e][p] = "none" /\ rows'[e][p] = "running" /\ Live(e)
         \/ p = pos[e] /\ rows[e][p] # "none" /\ rows'[e][p] = "completed"
    /\ Live(e)' => Live(e)
    /\ st'[e] = "running" => st[e] = "running" \/ rows'[e][pos[e]] = "running"
    /\ st'[e] = "running" /\ Inserted(e)' =>
         \/ st[e] = "running" /\ Inserted(e) /\ rows'[e] = rows[e]
         \/ rows'[e][pos[e]] = "running"
         \/ dbErrors' = dbErrors + 1 /\ e = cur /\ st[e] = "running"

\* Rows that are not closed were not, and a hole is an old one or a gap.
LEMMA KeptRows ==
  ASSUME TypeOK, NEW e \in Exps, LedgerAt(e), Kept(e)
  PROVE  /\ \A p \in Positions : rows'[e][p] # "completed" => rows[e][p] # "completed"
         /\ \A p \in Positions : p # pos[e] => rows'[e][p] = rows[e][p]
         /\ Holes(e)' \subseteq Holes(e) \/ (Live(e) /\ Holes(e)' \subseteq Gaps(e))
<1>1. \A p \in Positions : p \in Nat
  BY PositionsFinite
<1>2. pos[e] \in Nat /\ rows[e] \in [Positions -> RowStates]
  BY TotalFacts DEF TypeOK
<1>3. \A p \in Positions : rows'[e][p] # "completed" => rows[e][p] # "completed"
  BY DEF Kept
<1>4. \A p \in Positions : p # pos[e] => rows'[e][p] = rows[e][p]
  BY DEF Kept
<1>5. CASE pos[e] \in Positions /\ rows[e][pos[e]] = "none" /\ rows'[e][pos[e]] # "none"
  <2>1. Live(e)
    BY <1>5 DEF Kept
  <2>2. \A p \in Positions : p > pos[e] => rows'[e][p] = "none"
    BY <1>1, <1>2, <1>4, <2>1 DEF LedgerAt
  <2>3. ASSUME NEW p \in Holes(e)' PROVE p \in Gaps(e)
    <3>1. PICK q \in Positions : p \in Positions /\ rows'[e][q] # "none" /\ p < q /\ rows'[e][p] # "completed"
      BY <2>3 DEF Holes
    <3>2. q <= pos[e]
      BY <1>1, <1>2, <2>2, <3>1
    <3>3. p < pos[e]
      BY <1>1, <1>2, <3>1, <3>2
    <3> QED
      BY <1>3, <3>1, <3>3 DEF Gaps
  <2> QED
    BY <1>3, <1>4, <2>1, <2>3
<1>6. CASE ~(pos[e] \in Positions /\ rows[e][pos[e]] = "none" /\ rows'[e][pos[e]] # "none")
  <2>1. \A q \in Positions : rows'[e][q] # "none" => rows[e][q] # "none"
    BY <1>4, <1>6
  <2>2. Holes(e)' \subseteq Holes(e)
    BY <1>3, <2>1 DEF Holes
  <2> QED
    BY <1>3, <1>4, <2>2
<1> QED
  BY <1>5, <1>6

\* Such a step keeps the ledger of the experiment, and does not lead it astray
\* without a failed statement.
LEMMA KeptLedger ==
  ASSUME TypeOK, NEW e \in Exps, LedgerAt(e), Kept(e), dbErrors' \in {dbErrors, dbErrors + 1}
  PROVE  /\ LedgerAt(e)'
         /\ Astray(e)' => Astray(e) \/ (dbErrors' = dbErrors + 1 /\ e = cur)
<1>1. /\ pos[e] \in Nat /\ dbErrors \in Nat /\ dbErrors' \in Nat /\ dbErrors <= dbErrors'
      /\ events[e] \in [0..(Repeat - 1) -> 0..EventCap]
      /\ pos'[e] = pos[e] /\ events'[e] = events[e]
  BY TotalFacts, BoundsAssumption DEF TypeOK, Kept
<1>2. /\ \A p \in Positions : rows'[e][p] # "completed" => rows[e][p] # "completed"
      /\ \A p \in Positions : p # pos[e] => rows'[e][p] = rows[e][p]
      /\ Holes(e)' \subseteq Holes(e) \/ (Live(e) /\ Holes(e)' \subseteq Gaps(e))
  BY KeptRows
<1>3. IsFiniteSet(Holes(e)) /\ IsFiniteSet(Gaps(e)) /\ \A k : IsFiniteSet(Undone(e, k))
  <2>1. Holes(e) \subseteq Positions /\ Gaps(e) \subseteq Positions /\ \A k : Undone(e, k) \subseteq Positions
    BY DEF Holes, Gaps, Undone
  <2> QED
    BY <2>1, PositionsFinite, FS_Subset
<1>4. Unrecorded(e)' => Unrecorded(e) \/ (dbErrors' = dbErrors + 1 /\ st[e] = "running")
  BY <1>1 DEF Unrecorded, Kept
<1>5. Cardinality(Holes(e))' <= dbErrors'
  <2>1. Cardinality(Holes(e)') <= dbErrors
    <3>1. CASE Holes(e)' \subseteq Holes(e)
      BY <1>1, <1>3, <3>1, CountWithin DEF LedgerAt
    <3>2. CASE Live(e) /\ Holes(e)' \subseteq Gaps(e)
      BY <1>1, <1>3, <3>2, CountWithin DEF LedgerAt
    <3> QED
      BY <1>2, <3>1, <3>2
  <2>2. Cardinality(Holes(e)') \in Nat
    <3>1. Holes(e)' \subseteq Positions
      BY DEF Holes
    <3> QED
      BY <3>1, PositionsFinite, FS_Subset, FS_CardinalityType
  <2> QED
    BY <1>1, <2>1, <2>2
<1>6. ASSUME Live(e)' PROVE \A p \in Positions : p > pos'[e] => rows'[e][p] = "none"
  <2>1. Live(e)
    BY <1>6 DEF Kept
  <2> QED
    BY <1>1, <1>2, <2>1, PositionsFinite DEF LedgerAt
<1>7. ASSUME Live(e)' PROVE Cardinality(Gaps(e)') <= dbErrors'
  <2>1. Live(e) /\ Cardinality(Gaps(e)) <= dbErrors
    BY <1>7 DEF Kept, LedgerAt
  <2>2. CASE Unrecorded(e)' => Unrecorded(e)
    <3>1. Gaps(e)' \subseteq Gaps(e)
      BY <1>1, <1>2, <2>2 DEF Gaps
    <3>2. Cardinality(Gaps(e)') <= dbErrors /\ IsFiniteSet(Gaps(e)')
      BY <1>1, <1>3, <2>1, <3>1, CountWithin
    <3> QED
      BY <1>1, <3>2, FS_CardinalityType
  <2>3. CASE dbErrors' = dbErrors + 1
    <3>1. Gaps(e)' \subseteq Gaps(e) \cup {pos[e]}
      BY <1>1, <1>2 DEF Gaps
    <3> QED
      BY <1>1, <1>3, <2>1, <2>3, <3>1, CountOneMore
  <2> QED
    BY <1>4, <2>2, <2>3
<1>8. ASSUME NEW k \in 0..(Repeat - 1)
      PROVE  LET l == LastOfCycle(k)
                 here == st'[e] = "running" /\ pos'[e] = l
             IN  /\ events'[e][k] <= 1 + dbErrors'
                 /\ rows'[e][l] # "completed" \/ here => events'[e][k] <= dbErrors'
                 /\ here /\ Unrecorded(e)' => events'[e][k] < dbErrors'
                 /\ events'[e][k] > 0 => Cardinality(Undone(e, k)') <= dbErrors'
  <2>1. PICK l \in Positions : l = LastOfCycle(k)
    BY LastFacts
  <2>2. events[e][k] \in Nat /\ events'[e][k] = events[e][k]
    <3>1. events[e][k] \in 0..EventCap
      BY <1>1
    <3>2. EventCap \in Nat
      BY BoundsAssumption DEF EventCap
    <3> QED
      BY <1>1, <3>1, <3>2
  <2>3. /\ events[e][k] <= 1 + dbErrors
        /\ rows[e][l] # "completed" \/ (st[e] = "running" /\ pos[e] = l) => events[e][k] <= dbErrors
        /\ st[e] = "running" /\ pos[e] = l /\ Unrecorded(e) => events[e][k] < dbErrors
        /\ events[e][k] > 0 => Cardinality(Undone(e, k)) <= dbErrors
    BY <2>1 DEF LedgerAt
  <2>4. events'[e][k] <= 1 + dbErrors'
    BY <1>1, <2>2, <2>3
  <2>5. ASSUME rows'[e][l] # "completed" \/ (st'[e] = "running" /\ pos'[e] = l)
        PROVE  events'[e][k] <= dbErrors'
    <3>1. rows[e][l] # "completed" \/ (st[e] = "running" /\ pos[e] = l)
      BY <1>1, <1>2, <2>5 DEF Kept
    <3> QED
      BY <1>1, <2>2, <2>3, <3>1
  <2>6. ASSUME st'[e] = "running", pos'[e] = l, Unrecorded(e)'
        PROVE  events'[e][k] < dbErrors'
    <3>1. CASE Unrecorded(e)
      <4>1. st[e] = "running"
        BY <3>1 DEF Unrecorded
      <4> QED
        BY <1>1, <2>2, <2>3, <2>6, <3>1, <4>1
    <3>2. CASE dbErrors' = dbErrors + 1 /\ st[e] = "running"
      BY <1>1, <2>2, <2>3, <2>6, <3>2
    <3> QED
      BY <1>4, <2>6, <3>1, <3>2
  <2>7. ASSUME events'[e][k] > 0 PROVE Cardinality(Undone(e, k)') <= dbErrors'
    <3>1. Undone(e, k)' \subseteq Undone(e, k)
      BY <1>2 DEF Undone
    <3>2. Cardinality(Undone(e, k)') <= dbErrors /\ IsFiniteSet(Undone(e, k)')
      BY <1>1, <1>3, <2>2, <2>3, <2>7, <3>1, CountWithin
    <3> QED
      BY <1>1, <3>2, FS_CardinalityType
  <2> QED
    BY <2>1, <2>4, <2>5, <2>6, <2>7
<1>9. Astray(e)' => Astray(e) \/ (dbErrors' = dbErrors + 1 /\ e = cur)
  BY <1>1 DEF Astray, Kept
<1>10. LedgerAt(e)'
  BY <1>5, <1>6, <1>7, <1>8 DEF LedgerAt
<1> QED
  BY <1>9, <1>10

\* The end of a step: the row is closed, the position moves on, and the first
\* position of a cycle enqueues the event of the one before.
Advances(e) ==
    /\ st[e] = "running" /\ pos[e] \in Positions /\ Inserted(e)
    /\ pos'[e] = pos[e] + 1 /\ dbErrors' = dbErrors
    /\ \A p \in Positions : p # pos[e] => rows'[e][p] = rows[e][p]
    /\ rows'[e][pos[e]] = IF rows[e][pos[e]] = "none" THEN "none" ELSE "completed"
    /\ st'[e] \in {"running", "completed"}
    /\ st'[e] = "running" => cur' = e /\ pc' = "tRow"
    /\ pc' \in {"tRow", "tDone"}
    /\ \A k \in 0..(Repeat - 1) :
         \/ events'[e][k] = events[e][k]
         \/ /\ k = CycleOf(pos[e]) /\ StepOf(pos[e] + 1) = 0
            /\ events'[e][k] = events[e][k] + 1

\* step_one_tick and _advance keep the ledger: what is behind the new position
\* and not closed was a gap already, and an event is repeated only where the
\* row of the cycle's last step was not closed.
LEMMA AdvanceLedger ==
  ASSUME TypeOK, NEW e \in Exps, LedgerAt(e), Advances(e)
  PROVE  LedgerAt(e)' /\ ~Astray(e)'
<1>1. /\ pos[e] \in Nat /\ dbErrors \in Nat /\ dbErrors' = dbErrors
      /\ events[e] \in [0..(Repeat - 1) -> 0..EventCap] /\ EventCap \in Nat
      /\ st[e] = "running" /\ Live(e)
  BY PositionsFinite, BoundsAssumption DEF TypeOK, Advances, EventCap, Live
<1>2. /\ \A p \in Positions : rows'[e][p] # "completed" => rows[e][p] # "completed"
      /\ \A p \in Positions : rows'[e][p] # "none" => rows[e][p] # "none"
      /\ \A p \in Positions : p > pos[e] => rows'[e][p] = "none" /\ rows[e][p] = "none"
      /\ \A p \in Positions : p <= pos[e] /\ rows'[e][p] # "completed" => p \in Gaps(e)
  <2>1. \A p \in Positions : p > pos[e] => rows'[e][p] = "none" /\ rows[e][p] = "none"
    BY <1>1, PositionsFinite DEF Advances, LedgerAt
  <2>2. \A p \in Positions : rows'[e][p] # "completed" => rows[e][p] # "completed"
    BY DEF Advances
  <2>3. \A p \in Positions : rows'[e][p] # "none" => rows[e][p] # "none"
    BY DEF Advances
  <2>4. ASSUME NEW p \in Positions, p <= pos[e], rows'[e][p] # "completed" PROVE p \in Gaps(e)
    <3>1. CASE p < pos[e]
      BY <2>2, <2>4, <3>1 DEF Gaps
    <3>2. CASE p = pos[e]
      <4>1. rows[e][pos[e]] = "none"
        BY <2>4, <3>2 DEF Advances
      <4> QED
        BY <3>2, <4>1 DEF Gaps, Unrecorded, Advances
    <3> QED
      BY <1>1, <2>4, <3>1, <3>2, PositionsFinite
  <2> QED
    BY <2>1, <2>2, <2>3, <2>4
<1>3. IsFiniteSet(Holes(e)) /\ IsFiniteSet(Gaps(e)) /\ \A k : IsFiniteSet(Undone(e, k))
  <2>1. Holes(e) \subseteq Positions /\ Gaps(e) \subseteq Positions /\ \A k : Undone(e, k) \subseteq Positions
    BY DEF Holes, Gaps, Undone
  <2> QED
    BY <2>1, PositionsFinite, FS_Subset
<1>4. ~Unrecorded(e)' /\ ~Astray(e)'
  BY DEF Unrecorded, Astray, Inserted, Advances
<1>5. Cardinality(Holes(e)') <= dbErrors'
  <2>1. Holes(e)' \subseteq Holes(e)
    BY <1>2 DEF Holes
  <2> QED
    BY <1>1, <1>3, <2>1, CountWithin DEF LedgerAt
<1>6. \A p \in Positions : p > pos'[e] => rows'[e][p] = "none"
  <2>1. pos'[e] = pos[e] + 1
    BY DEF Advances
  <2>2. \A p \in Positions : p > pos'[e] => p > pos[e]
    BY <1>1, <2>1, PositionsFinite
  <2> QED
    BY <1>2, <2>2
<1>7. Cardinality(Gaps(e)') <= dbErrors'
  <2>1. pos'[e] = pos[e] + 1
    BY DEF Advances
  <2>2. \A p \in Positions : p < pos'[e] => p <= pos[e]
    BY <1>1, <2>1, PositionsFinite
  <2>3. Gaps(e)' \subseteq Gaps(e)
    BY <1>2, <1>4, <2>2 DEF Gaps
  <2> QED
    BY <1>1, <1>3, <2>3, CountWithin DEF LedgerAt
<1>8. ASSUME NEW k \in 0..(Repeat - 1)
      PROVE  LET l == LastOfCycle(k)
                 here == st'[e] = "running" /\ pos'[e] = l
             IN  /\ events'[e][k] <= 1 + dbErrors'
                 /\ rows'[e][l] # "completed" \/ here => events'[e][k] <= dbErrors'
                 /\ here /\ Unrecorded(e)' => events'[e][k] < dbErrors'
                 /\ events'[e][k] > 0 => Cardinality(Undone(e, k)') <= dbErrors'
  <2>1. PICK l \in Positions : l = LastOfCycle(k)
    BY LastFacts
  <2>2. events[e][k] \in Nat
    <3>1. events[e][k] \in 0..EventCap
      BY <1>1
    <3> QED
      BY <1>1, <3>1
  <2>3. /\ events[e][k] <= 1 + dbErrors
        /\ rows[e][l] # "completed" \/ (st[e] = "running" /\ pos[e] = l) => events[e][k] <= dbErrors
        /\ st[e] = "running" /\ pos[e] = l /\ Unrecorded(e) => events[e][k] < dbErrors
        /\ events[e][k] > 0 => Cardinality(Undone(e, k)) <= dbErrors
    BY <2>1 DEF LedgerAt
  <2>4. Undone(e, k)' \subseteq Undone(e, k)
    BY <1>2 DEF Undone
  <2>5. CASE events'[e][k] = events[e][k]
    <3>1. ASSUME pos'[e] = l PROVE rows[e][l] # "completed"
      <4>1. l > pos[e]
        BY <1>1, <3>1 DEF Advances
      <4> QED
        BY <1>2, <4>1
    <3>2. rows'[e][l] # "completed" \/ (st'[e] = "running" /\ pos'[e] = l) => events'[e][k] <= dbErrors'
      BY <1>1, <1>2, <2>3, <2>5, <3>1
    <3>3. events'[e][k] > 0 => Cardinality(Undone(e, k)') <= dbErrors'
      BY <1>1, <1>3, <2>3, <2>4, <2>5, CountWithin
    <3> QED
      BY <1>1, <1>4, <2>1, <2>3, <2>5, <3>2, <3>3
  <2>6. CASE k = CycleOf(pos[e]) /\ StepOf(pos[e] + 1) = 0 /\ events'[e][k] = events[e][k] + 1
    <3>1. pos[e] = l
      BY <2>1, <2>6, LastFacts DEF Advances
    <3>2. events[e][k] <= dbErrors
      BY <1>1, <2>3, <3>1
    <3>3. ASSUME rows'[e][l] # "completed" PROVE events[e][k] < dbErrors
      <4>1. Unrecorded(e)
        BY <3>1, <3>3 DEF Advances, Unrecorded
      <4> QED
        BY <1>1, <2>3, <3>1, <4>1
    <3>4. pos'[e] # l
      BY <1>1, <3>1 DEF Advances
    <3>5. Undone(e, k)' \subseteq Gaps(e)
      <4>1. \A p \in Positions : CycleOf(p) = k => p <= l
        BY <2>1, LastFacts
      <4> QED
        BY <1>2, <3>1, <4>1 DEF Undone
    <3>6. Cardinality(Undone(e, k)') <= dbErrors
      BY <1>1, <1>3, <3>5, CountWithin DEF LedgerAt
    <3> QED
      BY <1>1, <2>1, <2>2, <2>6, <3>2, <3>3, <3>4, <3>6
  <2> QED
    BY <2>5, <2>6 DEF Advances
<1>9. LedgerAt(e)'
  BY <1>5, <1>6, <1>7, <1>8 DEF LedgerAt
<1> QED
  BY <1>4, <1>9

\* A new object: at resume it is built at the position _load_resume_state finds,
\* at kickoff at the first one of an experiment without rows.
Builds(e) ==
    /\ st[e] = "absent" /\ st'[e] = "absent"
    /\ rows'[e] = rows[e] /\ events'[e] = events[e] /\ dbErrors' = dbErrors
    /\ \/ pos'[e] = ResumePosition(e)
       \/ pos'[e] = 0 /\ \A p \in Positions : rows[e][p] = "none"

\* What is behind a new object and not closed is a hole in the ledger.
LEMMA BuildLedger ==
  ASSUME TypeOK, NEW e \in Exps, LedgerAt(e), Builds(e)
  PROVE  LedgerAt(e)' /\ ~Astray(e)'
<1>1. /\ dbErrors \in Nat /\ dbErrors' = dbErrors /\ rows'[e] = rows[e] /\ events'[e] = events[e]
      /\ st'[e] = "absent"
  BY BoundsAssumption DEF TypeOK, Builds
<1>2. /\ \A p \in Positions : p > pos'[e] => rows[e][p] = "none"
      /\ \A p \in Positions : p < pos'[e] /\ rows[e][p] # "completed" => p \in Holes(e)
  <2>1. CASE pos'[e] = ResumePosition(e)
    BY <2>1, ResumeFacts DEF Holes
  <2>2. CASE pos'[e] = 0 /\ \A p \in Positions : rows[e][p] = "none"
    BY <2>2, PositionsFinite
  <2> QED
    BY <2>1, <2>2 DEF Builds
<1>3. ~Unrecorded(e)' /\ ~Astray(e)'
  BY <1>1 DEF Unrecorded, Astray
<1>4. Holes(e)' = Holes(e) /\ \A k : Undone(e, k)' = Undone(e, k)
  BY <1>1 DEF Holes, Undone
<1>5. Gaps(e)' \subseteq Holes(e)
  BY <1>1, <1>2, <1>3 DEF Gaps
<1>6. IsFiniteSet(Holes(e))
  <2>1. Holes(e) \subseteq Positions
    BY DEF Holes
  <2> QED
    BY <2>1, PositionsFinite, FS_Subset
<1>7. Cardinality(Gaps(e)') <= dbErrors'
  BY <1>1, <1>5, <1>6, CountWithin DEF LedgerAt
<1>8. LedgerAt(e)'
  BY <1>1, <1>2, <1>3, <1>4, <1>7 DEF LedgerAt
<1> QED
  BY <1>3, <1>8

\* The ledger of all experiments from the ledger of each.
LEMMA LedgerAssembly ==
  ASSUME TypeOK, OrchLedger, Claimed', RowsAtHand', dbErrors' \in {dbErrors, dbErrors + 1},
         \A e \in Exps : Kept(e) \/ Advances(e) \/ Builds(e)
  PROVE  OrchLedger'
<1>1. \A e \in Exps : LedgerAt(e)
  BY DEF OrchLedger, LedgerAt, NoRowsAhead, GapsCounted, LedgerContiguous, EventsCounted, EventOncePerCycle
<1>2. \A e \in Exps : LedgerAt(e)' /\ (Astray(e)' => Astray(e) \/ (dbErrors' = dbErrors + 1 /\ e = cur))
  BY <1>1, KeptLedger, AdvanceLedger, BuildLedger
<1>3. AstrayCounted'
  <2> DEFINE S == {e \in Exps : Astray(e)}
  <2>1. IsFiniteSet(S) /\ Cardinality(S) <= dbErrors /\ dbErrors \in Nat
    <3>1. S \subseteq Exps
      OBVIOUS
    <3> QED
      BY <3>1, ExpsAssumption, FS_Subset, BoundsAssumption DEF OrchLedger, AstrayCounted, TypeOK
  <2>2. CASE dbErrors' = dbErrors + 1
    <3>1. {e \in Exps : Astray(e)'} \subseteq S \cup {cur}
      BY <1>2
    <3>2. Cardinality({e \in Exps : Astray(e)'}) <= dbErrors + 1
      BY <2>1, <3>1, CountOneMore
    <3> QED
      BY <2>2, <3>2 DEF AstrayCounted
  <2>3. CASE dbErrors' = dbErrors
    <3>1. {e \in Exps : Astray(e)'} \subseteq S
      BY <1>2, <2>1, <2>3
    <3>2. Cardinality({e \in Exps : Astray(e)'}) <= dbErrors
      BY <2>1, <3>1, CountWithin
    <3> QED
      BY <2>3, <3>2 DEF AstrayCounted
  <2> QED
    BY <2>2, <2>3
<1>4. NoRowsAhead' /\ GapsCounted' /\ LedgerContiguous' /\ EventsCounted' /\ EventOncePerCycle'
  BY <1>2 DEF LedgerAt, NoRowsAhead, GapsCounted, LedgerContiguous, EventsCounted, EventOncePerCycle
<1> QED
  BY <1>3, <1>4 DEF OrchLedger

\* A step of the executor at the experiment at hand keeps the ledger.
LEMMA AtHandLedger ==
  ASSUME OrchControl, OrchLedger, pc \in DbAwaits \cup IoAwaits,
         UNCHANGED <<cur, sweep>>, todo' \subseteq todo,
         pc' \in (DbAwaits \cup IoAwaits \cup {"pick"}) \ {"kBad", "kMark"},
         dbErrors' \in {dbErrors, dbErrors + 1},
         \A e \in Exps \ {cur} :
            /\ rows'[e] = rows[e] /\ pos'[e] = pos[e] /\ events'[e] = events[e]
            /\ status'[e] = status[e]
            /\ st'[e] = st[e] \/ (st[e] = "local" /\ st'[e] = "absent"),
         \A e \in Exps : e = cur => Kept(e) \/ Advances(e),
         status'[cur] = "pending" => /\ status[cur] = "pending" /\ pc' = "pick"
                                     /\ st'[cur] = "absent" /\ rows'[cur] = rows[cur],
         pc' = "kRow" => pc = "kMark" /\ rows'[cur] = rows[cur],
         st'[cur] = "local" \/ pc' \in {"kChem", "kTag", "kSend"} =>
            rows'[cur][pos'[cur]] = "running" /\ (pc' \in {"kChem", "kTag", "kSend"} => pos'[cur] = 0),
         pc' \in {"rRead", "rDrift", "rRow"} => rows'[cur][pos'[cur]] # "completed",
         pc' = "tRow" => rows'[cur][pos'[cur]] = "none"
  PROVE  OrchLedger'
<1>1. TypeOK /\ Control /\ Claimed /\ RowsAtHand
  BY DEF OrchControl, OrchLedger
<1>2. cur \notin todo /\ todo \subseteq Exps /\ cur \in Exps
  BY <1>1 DEF Control, TypeOK
<1>3. Claimed'
  <2>1. ASSUME NEW e \in Exps, Unclaimed(e)' PROVE \A p \in Positions : rows'[e][p] = "none"
    <3>1. CASE e # cur
      <4>1. Unclaimed(e) /\ rows'[e] = rows[e]
        BY <2>1, <3>1 DEF Unclaimed
      <4> QED
        BY <1>1, <4>1 DEF Claimed
    <3>2. CASE e = cur
      <4>1. Unclaimed(e) /\ rows'[e] = rows[e]
        BY <1>2, <2>1, <3>2 DEF Unclaimed
      <4> QED
        BY <1>1, <4>1 DEF Claimed
    <3> QED
      BY <3>1, <3>2
  <2>2. \A e \in Exps : st'[e] # "absent" => status'[e] # "pending"
    BY <1>1 DEF Claimed
  <2>3. sweep' # "kickoff" => \A e \in todo' : status'[e] # "pending"
    BY <1>1, <1>2 DEF Claimed
  <2>4. pc' \in (DbAwaits \cup IoAwaits) \ {"kBad", "kMark"} => status'[cur'] # "pending"
    BY DEF DbAwaits, IoAwaits
  <2> QED
    BY <2>1, <2>2, <2>3, <2>4 DEF Claimed
<1>4. RowsAtHand'
  <2>1. \A e \in Exps : st'[e] = "local" => rows'[e][pos'[e]] = "running"
    BY <1>1 DEF RowsAtHand
  <2> QED
    BY <2>1 DEF RowsAtHand
<1>5. \A e \in Exps : Kept(e) \/ Advances(e)
  <2>1. ASSUME NEW e \in Exps, e # cur PROVE Kept(e)
    BY <2>1 DEF Kept, Live, Inserted
  <2> QED
    BY <2>1
<1> QED
  BY <1>1, <1>3, <1>4, <1>5, LedgerAssembly

\* A Modbus request, failed or not, keeps the ledger.
LEMMA IoLedger ==
  ASSUME OrchControl, OrchLedger, pc \in IoAwaits, UNCHANGED <<cur, sweep>>, todo' \subseteq todo,
         UNCHANGED <<status, rows, pos, events, dbErrors>>,
         \A e \in Exps \ {cur} : st'[e] = st[e] \/ (st[e] = "local" /\ st'[e] = "absent"),
         \/ st'[cur] = st[cur]
         \/ st'[cur] \in {"failed", "absent"} /\ pc \notin {"kChem", "kTag"}
         \/ st'[cur] = "running" /\ pc = "kSend",
         pc' \in {"pick", "rFail", "rDrift", "rRow", "kTag", "kFail", "kSend", "tClose", "tEnd", "tSend"},
         pc' \in {"rDrift", "rRow"} => pc \in {"rRead", "rDrift"},
         pc' \in {"kTag", "kSend", "kFail"} => pc \in {"kChem", "kTag"}
  PROVE  OrchLedger'
<1>1. TypeOK /\ Control /\ Placed /\ Claimed /\ RowsAtHand
  BY DEF OrchControl, OrchLedger
<1>2. status[cur] # "pending"
  BY <1>1 DEF Claimed, IoAwaits
<1>3. pc \in {"kChem", "kTag", "kSend"} => rows[cur][pos[cur]] = "running" /\ pos[cur] = 0
  BY <1>1 DEF Placed, RowsAtHand, KickoffAwaits
<1>4. st[cur] # "local"
  BY <1>1 DEF Control, ResumeAwaits, KickoffAwaits, IoAwaits
<1>5. \A e \in Exps : e = cur => Kept(e)
  <2>1. \A e \in Exps : e = cur => (Live(e)' => Live(e))
    BY <1>4 DEF Live, KickoffAwaits
  <2>2. Inserted(cur)
    BY DEF Inserted, IoAwaits
  <2> QED
    BY <1>3, <2>1, <2>2 DEF Kept
<1>6. st'[cur] # "local"
  BY <1>4
<1>7. pc \in {"rRead", "rDrift"} => rows[cur][pos[cur]] # "completed"
  BY <1>1 DEF RowsAtHand
<1> USE DEF DbAwaits, IoAwaits
<1>8. dbErrors' \in {dbErrors, dbErrors + 1} /\ pc \in DbAwaits \cup IoAwaits
      /\ pc' \in (DbAwaits \cup IoAwaits \cup {"pick"}) \ {"kBad", "kMark"}
  OBVIOUS
<1> QED
  BY <1>2, <1>3, <1>5, <1>6, <1>7, <1>8, AtHandLedger

\* The awaits of a resume keep the ledger.
LEMMA ResumeLedger ==
  ASSUME OrchControl, OrchLedger, Resume
  PROVE  OrchLedger'
<1>1. TypeOK /\ Control /\ Placed /\ Claimed /\ RowsAtHand
  BY DEF OrchControl, OrchLedger
<1> USE DEF ResumeAwaits, KickoffAwaits, TickAwaits, DbAwaits, IoAwaits, Labels
<1>2. ASSUME NEW at \in {"rRead", "rDrift"}, NEW label \in {"rFail", "rDrift", "rRow"},
             IoStep(at, label), UNCHANGED <<objects, outbox>>
      PROVE  OrchLedger'
  <2>1. /\ pc = at /\ pc' = label /\ UNCHANGED <<cur, todo, sweep, status, rows, dbErrors>>
        /\ UNCHANGED <<st, pos, events>>
    BY <1>2, IoStepFacts DEF objects, outbox
  <2> QED
    BY <1>2, <2>1, IoLedger
<1>3. CASE ResumeRow
  <2>1. /\ pc = "rRow" /\ pc' = "pick" /\ UNCHANGED <<cur, todo, sweep, dbErrors>>
        /\ rows' = RowsAfter /\ status' = StatusAfter /\ UNCHANGED <<pos, events>>
        /\ st' = [st EXCEPT ![cur] = "local"]
    BY <1>3, DbStepFacts DEF ResumeRow
  <2>2. pos[cur] \in Positions /\ rows[cur][pos[cur]] \in {"none", "running"} /\ cur \in Exps
    BY <1>1, <2>1 DEF Placed, RowsAtHand, TypeOK, RowStates
  <2>3. /\ \A e \in Exps \ {cur} : rows'[e] = rows[e] /\ status'[e] = status[e] /\ st'[e] = st[e]
        /\ status'[cur] = status[cur] /\ st'[cur] = "local"
        /\ \A p \in Positions : p # pos[cur] => rows'[cur][p] = rows[cur][p]
        /\ rows'[cur][pos[cur]] = "running"
    BY <1>1, <2>1, <2>2, RowsAfterFacts, StatusAfterFacts DEF TypeOK
  <2>4. Live(cur)
    BY <2>1 DEF Live
  <2>5. \A e \in Exps : e = cur => Kept(e)
    BY <2>1, <2>2, <2>3, <2>4 DEF Kept
  <2>6. status[cur] # "pending"
    BY <1>1, <2>1 DEF Claimed
  <2> QED
    BY <2>1, <2>3, <2>5, <2>6, AtHandLedger
<1>4. ASSUME NEW at \in {"rFail", "rDone"}, DbStep(at, "pick"), UNCHANGED <<objects, outbox>>
      PROVE  OrchLedger'
  <2>1. /\ pc = at /\ pc' = "pick" /\ UNCHANGED <<cur, todo, sweep, dbErrors>>
        /\ rows' = RowsAfter /\ status' = StatusAfter /\ UNCHANGED <<st, pos, events>>
    BY <1>4, DbStepFacts DEF objects, outbox
  <2>2. rows' = rows
    BY <2>1 DEF RowsAfter
  <2>3. status'[cur] # "pending" /\ \A e \in Exps \ {cur} : status'[e] = status[e]
    BY <1>1, <2>1, StatusAfterFacts
  <2>4. st[cur] = "absent"
    BY <1>1, <2>1 DEF Control
  <2>5. \A e \in Exps : e = cur => Kept(e)
    BY <2>1, <2>2, <2>4 DEF Kept, Live
  <2> QED
    BY <2>1, <2>2, <2>3, <2>4, <2>5, AtHandLedger
<1>5. CASE ResumeRead
  <2>1. PICK label \in {"rFail", "rDrift", "rRow"} : IoStep("rRead", label) /\ UNCHANGED <<objects, outbox>>
    BY <1>5 DEF ResumeRead
  <2> QED
    BY <1>2, <2>1
<1>6. CASE ResumeDrift
  BY <1>2, <1>6 DEF ResumeDrift
<1>7. CASE ResumeFail \/ ResumeDone
  BY <1>4, <1>7 DEF ResumeFail, ResumeDone
<1> QED
  BY <1>3, <1>5, <1>6, <1>7 DEF Resume

\* The awaits of a kickoff keep the ledger.
LEMMA KickoffLedger ==
  ASSUME OrchControl, OrchLedger, Kickoff
  PROVE  OrchLedger'
<1>1. TypeOK /\ Control /\ Placed /\ Claimed /\ RowsAtHand
  BY DEF OrchControl, OrchLedger
<1> USE DEF ResumeAwaits, KickoffAwaits, TickAwaits, DbAwaits, IoAwaits, Labels
<1>2. ASSUME NEW at \in {"kBad", "kMark", "kFail"}, NEW label \in {"pick", "kRow"},
             DbStep(at, label), UNCHANGED <<pos, outbox>>,
             UNCHANGED st \/ (at = "kFail" /\ st' = [st EXCEPT ![cur] = "failed"]),
             label = "kRow" => at = "kMark"
      PROVE  OrchLedger'
  <2>1. /\ pc = at /\ pc' = label /\ UNCHANGED <<cur, todo, sweep, dbErrors>>
        /\ rows' = RowsAfter /\ status' = StatusAfter /\ UNCHANGED <<pos, events>>
    BY <1>2, DbStepFacts DEF outbox
  <2>2. rows' = rows
    BY <2>1 DEF RowsAfter
  <2>3. status'[cur] # "pending" /\ \A e \in Exps \ {cur} : status'[e] = status[e]
    BY <1>1, <2>1, StatusAfterFacts
  <2>4. /\ st[cur] = "absent" /\ st'[cur] \in {"absent", "failed"}
        /\ \A e \in Exps \ {cur} : st'[e] = st[e]
    BY <1>1, <1>2, <2>1 DEF Control, TypeOK
  <2>5. \A e \in Exps : e = cur => Kept(e)
    BY <2>1, <2>2, <2>4 DEF Kept, Live
  <2> QED
    BY <1>2, <2>1, <2>2, <2>3, <2>4, <2>5, AtHandLedger
<1>3. CASE KickoffRow
  <2>1. /\ pc = "kRow" /\ pc' = "kChem" /\ UNCHANGED <<cur, todo, sweep, dbErrors>>
        /\ rows' = RowsAfter /\ status' = StatusAfter /\ UNCHANGED <<st, pos, events>>
    BY <1>3, DbStepFacts DEF KickoffRow, objects, outbox
  <2>2. pos[cur] = 0 /\ 0 \in Positions /\ cur \in Exps /\ rows[cur][pos[cur]] = "none"
    BY <1>1, <2>1, TotalFacts DEF Placed, Claimed, Unclaimed, TypeOK
  <2>3. /\ \A e \in Exps \ {cur} : rows'[e] = rows[e] /\ status'[e] = status[e]
        /\ status'[cur] = status[cur] /\ st[cur] = "absent"
        /\ \A p \in Positions : p # pos[cur] => rows'[cur][p] = rows[cur][p]
        /\ rows'[cur][pos[cur]] = "running"
    BY <1>1, <2>1, <2>2, RowsAfterFacts, StatusAfterFacts DEF Control
  <2>4. Live(cur)
    BY <2>1 DEF Live
  <2>5. \A e \in Exps : e = cur => Kept(e)
    BY <2>1, <2>2, <2>3, <2>4 DEF Kept
  <2>6. status[cur] # "pending"
    BY <1>1, <2>1 DEF Claimed
  <2> QED
    BY <2>1, <2>2, <2>3, <2>5, <2>6, AtHandLedger
<1>4. ASSUME NEW at \in {"kChem", "kTag"}, NEW label \in {"kTag", "kFail", "kSend"},
             IoStep(at, label), UNCHANGED <<objects, events>>
      PROVE  OrchLedger'
  <2>1. /\ pc = at /\ pc' = label /\ UNCHANGED <<cur, todo, sweep, status, rows, dbErrors>>
        /\ UNCHANGED <<st, pos, events>>
    BY <1>4, IoStepFacts DEF objects
  <2> QED
    BY <1>4, <2>1, IoLedger
<1>5. CASE KickoffSend
  <2>1. /\ pc = "kSend" /\ pc' = "pick" /\ UNCHANGED <<cur, todo, sweep, status, rows, dbErrors>>
        /\ UNCHANGED <<pos, events>> /\ st' = [st EXCEPT ![cur] = "running"]
    BY <1>5, IoStepFacts DEF KickoffSend, outbox
  <2>2. st'[cur] = "running" /\ \A e \in Exps \ {cur} : st'[e] = st[e]
    BY <1>1, <2>1 DEF TypeOK
  <2> QED
    BY <2>1, <2>2, IoLedger
<1>6. CASE KickoffBad \/ KickoffMark \/ KickoffFail
  BY <1>2, <1>6 DEF KickoffBad, KickoffMark, KickoffFail, objects
<1>7. CASE KickoffChem
  <2>1. PICK label \in {"kTag", "kFail"} : IoStep("kChem", label) /\ UNCHANGED <<objects, outbox>>
    BY <1>7 DEF KickoffChem
  <2> QED
    BY <1>4, <2>1 DEF outbox
<1>8. CASE KickoffTag
  BY <1>4, <1>8 DEF KickoffTag
<1> QED
  BY <1>3, <1>5, <1>6, <1>7, <1>8 DEF Kickoff

\* The awaits of a tick keep the ledger.
LEMMA TickLedger ==
  ASSUME OrchControl, OrchLedger, TickStep
  PROVE  OrchLedger'
<1>1. TypeOK /\ Control /\ Placed /\ Claimed /\ RowsAtHand /\ cur \in Exps
  BY DEF OrchControl, OrchLedger, TypeOK
<1> USE DEF ResumeAwaits, KickoffAwaits, TickAwaits, DbAwaits, IoAwaits, Labels
<1>2. CASE TickRead
  <2>1. PICK label \in {"tClose", "tEnd", "tSend"} : IoStep("tRead", label)
    BY <1>2 DEF TickRead, EndConditionMet
  <2>2. /\ pc = "tRead" /\ pc' = label /\ UNCHANGED <<cur, todo, sweep, status, rows, dbErrors>>
        /\ UNCHANGED <<pos, events>>
        /\ st' = (IF LastError(cur) THEN [st EXCEPT ![cur] = "failed"] ELSE st)
    BY <1>2, <2>1, IoStepFacts DEF TickRead, outbox
  <2>3. st'[cur] \in {st[cur], "failed"} /\ \A e \in Exps \ {cur} : st'[e] = st[e]
    BY <1>1, <2>2 DEF TypeOK
  <2> QED
    BY <2>2, <2>3, IoLedger
<1>3. ASSUME NEW at \in {"tPark", "tTag", "tSend"}, NEW label \in {"pick", "tSend"},
             IoStep(at, label), UNCHANGED <<objects, events>>
      PROVE  OrchLedger'
  <2>1. /\ pc = at /\ pc' = label /\ UNCHANGED <<cur, todo, sweep, status, rows, dbErrors>>
        /\ UNCHANGED <<st, pos, events>>
    BY <1>3, IoStepFacts DEF objects
  <2> QED
    BY <2>1, IoLedger
<1>4. ASSUME NEW at \in {"tFail", "tDone"}, NEW label \in {"pick", "tPark"},
             DbStep(at, label), UNCHANGED <<objects, events>>
      PROVE  OrchLedger'
  <2>1. /\ pc = at /\ pc' = label /\ UNCHANGED <<cur, todo, sweep, dbErrors>>
        /\ rows' = RowsAfter /\ status' = StatusAfter /\ UNCHANGED <<st, pos, events>>
    BY <1>4, DbStepFacts DEF objects
  <2>2. rows' = rows
    BY <2>1 DEF RowsAfter
  <2>3. status'[cur] # "pending" /\ \A e \in Exps \ {cur} : status'[e] = status[e]
    BY <1>1, <2>1, StatusAfterFacts
  <2>4. st[cur] \in {"failed", "completed"}
    BY <1>1, <2>1 DEF Control
  <2>5. \A e \in Exps : e = cur => Kept(e)
    BY <2>1, <2>2, <2>4 DEF Kept, Live
  <2> QED
    BY <2>1, <2>2, <2>3, <2>4, <2>5, AtHandLedger
<1>5. CASE TickClose
  <2>1. /\ pc = "tClose" /\ pc' = "tFail" /\ UNCHANGED <<cur, todo, sweep, dbErrors>>
        /\ rows' = RowsAfter /\ status' = StatusAfter /\ UNCHANGED <<st, pos, events>>
    BY <1>5, DbStepFacts DEF TickClose, objects, outbox
  <2>2. pos[cur] \in Positions /\ st[cur] = "failed" /\ status[cur] # "pending"
    BY <1>1, <2>1 DEF Placed, Control, Claimed
  <2>3. /\ \A e \in Exps \ {cur} : rows'[e] = rows[e] /\ status'[e] = status[e]
        /\ status'[cur] = status[cur]
        /\ \A p \in Positions : p # pos[cur] => rows'[cur][p] = rows[cur][p]
        /\ rows'[cur][pos[cur]] = IF rows[cur][pos[cur]] # "none" THEN "completed" ELSE rows[cur][pos[cur]]
    BY <1>1, <2>1, <2>2, RowsAfterFacts, StatusAfterFacts
  <2>4. \A e \in Exps : e = cur => Kept(e)
    BY <2>1, <2>2, <2>3 DEF Kept, Live
  <2> QED
    BY <2>1, <2>2, <2>3, <2>4, AtHandLedger
<1>6. CASE TickRow
  <2>1. PICK label \in {"tTag", "tSend"} : DbStep("tRow", label) /\ UNCHANGED <<objects, events>>
    BY <1>6 DEF TickRow
  <2>2. /\ pc = "tRow" /\ pc' = label /\ UNCHANGED <<cur, todo, sweep, dbErrors>>
        /\ rows' = RowsAfter /\ status' = StatusAfter /\ UNCHANGED <<st, pos, events>>
    BY <2>1, DbStepFacts DEF objects
  <2>3. /\ pos[cur] \in Positions /\ st[cur] = "running" /\ status[cur] # "pending"
        /\ rows[cur][pos[cur]] = "none"
    BY <1>1, <2>2 DEF Placed, Control, Claimed, RowsAtHand
  <2>4. /\ \A e \in Exps \ {cur} : rows'[e] = rows[e] /\ status'[e] = status[e]
        /\ status'[cur] = status[cur]
        /\ \A p \in Positions : p # pos[cur] => rows'[cur][p] = rows[cur][p]
        /\ rows'[cur][pos[cur]] = "running"
    BY <1>1, <2>2, <2>3, RowsAfterFacts, StatusAfterFacts
  <2>5. \A e \in Exps : e = cur => Kept(e)
    BY <2>2, <2>3, <2>4 DEF Kept, Live
  <2> QED
    BY <2>2, <2>3, <2>4, <2>5, AtHandLedger
<1>7. CASE TickEnd
  <2> DEFINE n == pos[cur] + 1
  <2>1. AdvanceTo(n, StepOf(n) = 0, n = Total)
    BY <1>7 DEF TickEnd
  <2>2. PICK label \in {"tDone", "tRow"} : DbStep("tEnd", label) /\ (label = "tDone" <=> n = Total)
    BY <2>1 DEF AdvanceTo
  <2>3. /\ pc = "tEnd" /\ pc' = label /\ UNCHANGED <<cur, todo, sweep, dbErrors>>
        /\ rows' = RowsAfter /\ status' = StatusAfter
    BY <2>2, DbStepFacts
  <2>4. /\ pos[cur] \in Positions /\ st[cur] = "running" /\ status[cur] # "pending"
    BY <1>1, <2>3 DEF Placed, Control, Claimed
  <2>5. /\ \A e \in Exps \ {cur} : rows'[e] = rows[e] /\ status'[e] = status[e]
        /\ status'[cur] = status[cur]
        /\ \A p \in Positions : p # pos[cur] => rows'[cur][p] = rows[cur][p]
        /\ rows'[cur][pos[cur]] = IF rows[cur][pos[cur]] # "none" THEN "completed" ELSE rows[cur][pos[cur]]
    BY <1>1, <2>3, <2>4, RowsAfterFacts, StatusAfterFacts
  <2>6. /\ pos'[cur] = n /\ st'[cur] = IF label = "tDone" THEN "completed" ELSE "running"
        /\ \A e \in Exps \ {cur} : pos'[e] = pos[e] /\ st'[e] = st[e]
    BY <1>1, <2>1, <2>2, <2>4 DEF AdvanceTo, TypeOK
  <2>7. /\ \A e \in Exps \ {cur} : events'[e] = events[e]
        /\ \A k \in 0..(Repeat - 1) :
              \/ events'[cur][k] = events[cur][k]
              \/ k = CycleOf(pos[cur]) /\ StepOf(n) = 0 /\ events'[cur][k] = events[cur][k] + 1
    <3>1. CASE StepOf(n) # 0
      BY <2>1, <3>1 DEF AdvanceTo
    <3>2. CASE StepOf(n) = 0
      <4>1. EnqueueCycleComplete(cur, CycleOf(pos[cur]))
        BY <2>1, <3>2 DEF AdvanceTo
      <4>2. events \in [Exps -> [0..(Repeat - 1) -> 0..EventCap]]
        BY <1>1 DEF TypeOK
      <4> QED
        BY <1>1, <3>2, <4>1, <4>2 DEF EnqueueCycleComplete
    <3> QED
      BY <3>1, <3>2
  <2>8. \A e \in Exps : e = cur => Advances(e)
    BY <2>3, <2>4, <2>5, <2>6, <2>7 DEF Advances, Inserted
  <2>9. pc' = "tRow" => rows'[cur][pos'[cur]] = "none"
    <3>1. \A p \in Positions : p > pos[cur] => rows[cur][p] = "none"
      BY <1>1, <2>4 DEF OrchLedger, NoRowsAhead, Live
    <3>2. n > pos[cur] /\ n # pos[cur] /\ (n # Total => n \in Positions)
      BY <2>4, TotalFacts DEF Positions
    <3> QED
      BY <2>2, <2>3, <2>5, <2>6, <3>1, <3>2
  <2> HIDE DEF n
  <2> QED
    BY <2>3, <2>4, <2>5, <2>6, <2>7, <2>8, <2>9, AtHandLedger
<1>8. CASE TickFail \/ TickDone
  BY <1>4, <1>8 DEF TickFail, TickDone, outbox
<1>9. CASE TickPark \/ TickTag \/ TickSend
  BY <1>3, <1>9 DEF TickPark, TickTag, TickSend, outbox
<1> QED
  BY <1>2, <1>5, <1>6, <1>7, <1>8, <1>9 DEF TickStep

\* A failed Modbus request keeps the ledger.
LEMMA IoErrorLedger ==
  ASSUME OrchControl, OrchLedger, IoError
  PROVE  OrchLedger'
<1>1. TypeOK /\ Control
  BY DEF OrchControl
<1>2. /\ pc \in IoAwaits /\ UNCHANGED <<status, rows, events, dbErrors>>
      /\ \/ Goto(IF pc = "rDrift" THEN "rFail" ELSE "pick") /\ UNCHANGED objects
         \/ AbandonSweep
  BY DEF IoError, db, outbox
<1>3. CASE AbandonSweep
  <2>1. /\ pc' = "pick" /\ todo' = {} /\ UNCHANGED <<cur, sweep, pos>>
        /\ \A e \in Exps : st'[e] = IF st[e] = "local" THEN "absent" ELSE st[e]
    BY <1>3 DEF AbandonSweep
  <2>2. st[cur] # "local" /\ cur \in Exps
    BY <1>1, <1>2 DEF Control, TypeOK, ResumeAwaits, KickoffAwaits, IoAwaits
  <2> QED
    BY <1>2, <2>1, <2>2, IoLedger
<1>4. CASE Goto(IF pc = "rDrift" THEN "rFail" ELSE "pick") /\ UNCHANGED objects
  <2>1. pc' \in {"rFail", "pick"} /\ UNCHANGED <<cur, todo, sweep, st, pos>>
    BY <1>4 DEF Goto, objects
  <2> QED
    BY <1>2, <2>1, IoLedger
<1> QED
  BY <1>2, <1>3, <1>4

\* A failed statement, written or not, costs at most what it is counted for.
LEMMA DbErrorLedger ==
  ASSUME OrchControl, OrchLedger, DbError
  PROVE  OrchLedger'
<1>1. TypeOK /\ Control /\ Placed /\ Claimed /\ RowsAtHand /\ cur \in Exps
  BY DEF OrchControl, OrchLedger, TypeOK
<1>2. /\ pc \in DbAwaits /\ dbErrors' = dbErrors + 1 /\ UNCHANGED events
      /\ (DbWrite \/ UNCHANGED db)
      /\ \/ Goto("pick") /\ UNCHANGED objects
         \/ AbandonSweep
  BY DEF DbError, outbox
<1>3. st[cur] # "local"
  BY <1>1, <1>2 DEF Control, ResumeAwaits, KickoffAwaits, DbAwaits
<1>4. /\ pc' = "pick" /\ todo' \subseteq todo /\ UNCHANGED <<cur, sweep, pos>>
      /\ st'[cur] = st[cur]
      /\ \A e \in Exps \ {cur} : st'[e] = st[e] \/ (st[e] = "local" /\ st'[e] = "absent")
  BY <1>1, <1>2, <1>3 DEF Goto, AbandonSweep, objects
<1>5. /\ \A e \in Exps \ {cur} : status'[e] = status[e] /\ rows'[e] = rows[e]
      /\ status'[cur] = "pending" => status[cur] = "pending"
  <2>1. CASE DbWrite
    <3>1. rows' = RowsAfter /\ status' = StatusAfter
      BY <2>1 DEF DbWrite
    <3> QED
      BY <1>1, <3>1, RowsAfterFacts, StatusAfterFacts
  <2>2. CASE UNCHANGED db
    BY <2>2 DEF db
  <2> QED
    BY <1>2, <2>1, <2>2
<1>6. \A p \in Positions :
         \/ rows'[cur][p] = rows[cur][p]
         \/ p = pos[cur] /\ rows[cur][p] = "none" /\ rows'[cur][p] = "running" /\ Live(cur)
         \/ p = pos[cur] /\ rows[cur][p] # "none" /\ rows'[cur][p] = "completed"
  <2>1. CASE DbWrite
    <3>1. rows' = RowsAfter
      BY <2>1 DEF DbWrite
    <3>2. pc \in {"rRow", "kRow", "tRow"} => Live(cur)
      BY <1>1 DEF Live, Control, KickoffAwaits
    <3> QED
      BY <1>1, <3>1, <3>2, RowsAfterFacts
  <2>2. CASE UNCHANGED db
    BY <2>2 DEF db
  <2> QED
    BY <1>2, <2>1, <2>2
<1>7. \A e \in Exps : e = cur => Kept(e)
  <2>1. \A e \in Exps : e = cur => (Live(e)' => Live(e))
    BY <1>3, <1>4 DEF Live, KickoffAwaits
  <2> QED
    BY <1>2, <1>4, <1>6, <2>1 DEF Kept
<1>8. status'[cur] = "pending" => st'[cur] = "absent" /\ rows'[cur] = rows[cur]
  <2>1. ASSUME status'[cur] = "pending" PROVE st'[cur] = "absent" /\ rows'[cur] = rows[cur]
    <3>1. st[cur] = "absent" /\ pc \in {"kBad", "kMark"}
      BY <1>1, <1>2, <1>5, <2>1 DEF Claimed
    <3>2. rows' = rows
      BY <1>2, <3>1 DEF DbWrite, RowsAfter, db
    <3> QED
      BY <1>4, <3>1, <3>2
  <2> QED
    BY <2>1
<1>9. pc \in DbAwaits \cup IoAwaits /\ pc' \in (DbAwaits \cup IoAwaits \cup {"pick"}) \ {"kBad", "kMark"}
      /\ dbErrors' \in {dbErrors, dbErrors + 1}
  BY <1>2, <1>4
<1> QED
  BY <1>2, <1>3, <1>4, <1>5, <1>7, <1>8, <1>9, AtHandLedger

\* No rows, no events.
LEMMA LedgerInit == Init => OrchLedger
<1> SUFFICES ASSUME Init PROVE OrchLedger
  OBVIOUS
<1>1. Claimed /\ RowsAtHand
  BY TotalFacts DEF Init, Claimed, RowsAtHand, DbAwaits, IoAwaits
<1>2. \A e \in Exps : ~Live(e) /\ ~Astray(e) /\ Holes(e) = {}
  BY DEF Init, Live, Astray, Holes, KickoffAwaits
<1>3. NoRowsAhead /\ GapsCounted
  BY <1>2 DEF NoRowsAhead, GapsCounted
<1>4. dbErrors = 0 /\ Cardinality({}) = 0
  BY FS_EmptySet DEF Init
<1>5. LedgerContiguous
  BY <1>2, <1>4 DEF LedgerContiguous
<1>6. AstrayCounted
  <2>1. {e \in Exps : Astray(e)} = {}
    BY <1>2
  <2> QED
    BY <1>4, <2>1 DEF AstrayCounted
<1>7. EventsCounted /\ EventOncePerCycle
  <2>1. \A e \in Exps, k \in 0..(Repeat - 1) : events[e][k] = 0 /\ st[e] = "absent"
    BY DEF Init
  <2> QED
    BY <1>4, <2>1 DEF EventsCounted, EventOncePerCycle, Unrecorded
<1> QED
  BY <1>1, <1>3, <1>5, <1>6, <1>7 DEF OrchLedger

\* A step that writes nothing: objects may be dropped, or adopted with their
\* open row, and Postgres may turn 'pending' into something else.
LEMMA QuietLedger ==
  ASSUME OrchControl, OrchLedger, Claimed', UNCHANGED <<rows, pos, events, dbErrors>>,
         \A e \in Exps : st'[e] \in {st[e], "absent"} \/ (st[e] = "local" /\ st'[e] = "running"),
         UNCHANGED <<pc, cur, st>> \/ (pc # "tRow" /\ pc' \in {"pick", "poll", "down"})
            \/ (pc' = "down" /\ \A e \in Exps : st'[e] = "absent")
  PROVE  OrchLedger'
<1>1. TypeOK /\ Control /\ RowsAtHand
  BY DEF OrchControl, OrchLedger
<1>2. RowsAtHand'
  BY <1>1 DEF RowsAtHand
<1>3. ASSUME NEW e \in Exps PROVE Kept(e)
  <2>1. Live(e)' => Live(e)
    BY DEF Live, KickoffAwaits
  <2>2. st'[e] = "running" => st[e] = "running" \/ rows[e][pos[e]] = "running"
    BY <1>1 DEF RowsAtHand
  <2>3. st'[e] = "running" /\ Inserted(e)' => Inserted(e)
    BY DEF Inserted
  <2> QED
    BY <2>1, <2>2, <2>3 DEF Kept
<1> QED
  BY <1>1, <1>2, <1>3, LedgerAssembly

\* A boot, a poll, a pick and the end of a sweep keep the ledger.
LEMMA SweepLedger ==
  ASSUME OrchControl, OrchLedger,
         Boot \/ Poll \/ EndSweep \/ \E e \in Exps : Pick(e) \/ Refuse(e)
  PROVE  OrchLedger'
<1>1. TypeOK /\ Control /\ Claimed /\ RowsAtHand
  BY DEF OrchControl, OrchLedger
<1> USE DEF DbAwaits, IoAwaits
<1>2. CASE Boot
  <2>1. /\ pc = "down" /\ pc' = "pick" /\ sweep' = "resume" /\ todo' = Inflight
        /\ UNCHANGED <<cur, st, pos, status, rows, events, dbErrors>>
    BY <1>2 DEF Boot, db, objects, outbox, faults, ghosts
  <2>2. Claimed'
    BY <1>1, <2>1 DEF Claimed, Unclaimed, Inflight
  <2> QED
    BY <2>1, <2>2, QuietLedger
<1>3. CASE Poll
  <2>1. /\ pc = "poll" /\ pc' = "pick" /\ sweep' = "kickoff" /\ UNCHANGED <<cur, pos, status, rows, events, dbErrors>>
        /\ \A e \in Exps : st'[e] = IF st[e] \in Terminal THEN "absent" ELSE st[e]
        /\ todo' = {e \in Exps : status[e] = "pending" /\ st'[e] = "absent"}
    BY <1>3 DEF Poll, PendingRows, db, outbox, faults, ghosts
  <2>2. Claimed'
    BY <1>1, <2>1 DEF Claimed, Unclaimed
  <2> QED
    BY <2>1, <2>2, QuietLedger
<1>4. CASE EndSweep
  <2>1. /\ pc = "pick" /\ todo = {} /\ UNCHANGED <<cur, pos, status, rows, events, dbErrors>>
        /\ \A e \in Exps : st'[e] = IF st[e] = "local" THEN "running" ELSE st[e]
        /\ \/ /\ sweep' = "tick" /\ pc' = "pick" /\ todo' = {e \in Exps : st[e] = "running"}
           \/ sweep' = sweep /\ pc' = "poll" /\ todo' = {}
    BY <1>4 DEF EndSweep, db, outbox, faults, ghosts
  <2>2. Claimed'
    BY <1>1, <2>1 DEF Claimed, Unclaimed
  <2> QED
    BY <2>1, <2>2, QuietLedger
<1>5. ASSUME NEW e \in Exps, Pick(e) PROVE OrchLedger'
  <2>1. /\ pc = "pick" /\ e \in todo /\ cur' = e /\ todo' = todo \ {e}
        /\ UNCHANGED <<sweep, st, status, rows, events, dbErrors>>
    BY <1>5 DEF Pick, db, outbox, faults, ghosts
  <2>2. /\ sweep \in {"resume", "kickoff", "tick"} /\ pos \in [Exps -> 0..Total]
        /\ todo \subseteq Exps
    BY <1>1 DEF TypeOK
  <2>3. PICK r \in 0..Total : r = ResumePosition(e)
    BY <1>1, ResumeFacts
  <2>4. /\ sweep = "tick" => pos'[e] = pos[e] /\ pc' = "tRead"
        /\ sweep = "kickoff" => pos'[e] = 0 /\ pc' \in {"kMark", "kBad"}
        /\ sweep = "resume" => pos'[e] = r /\ pc' \in {"rFail", "rDone", "rRead"}
        /\ pc' = "rRead" => r < Total
        /\ \A x \in Exps \ {e} : pos'[x] = pos[x]
    BY <1>5, <2>2, <2>3, TotalFacts DEF Pick
  <2>5. st[e] = IF sweep = "tick" THEN "running" ELSE "absent"
    BY <1>1, <2>1 DEF Control
  <2>6. sweep = "kickoff" => \A p \in Positions : rows[e][p] = "none"
    BY <1>1, <2>1 DEF Claimed, Unclaimed
  <2>7. Claimed'
    <3>1. \A x \in Exps : Unclaimed(x)' => Unclaimed(x)
      BY <2>1, <2>2, <2>4 DEF Unclaimed
    <3>2. pc' \in (DbAwaits \cup IoAwaits) \ {"kBad", "kMark"} => status[e] # "pending"
      BY <1>1, <2>1, <2>2, <2>4 DEF Claimed
    <3> QED
      BY <1>1, <2>1, <3>1, <3>2 DEF Claimed
  <2>8. RowsAtHand'
    <3>1. ASSUME NEW x \in Exps, st[x] = "local" PROVE rows[x][pos'[x]] = "running"
      BY <1>1, <2>4, <2>5, <3>1 DEF RowsAtHand
    <3>2. ASSUME pc' = "rRead" PROVE rows[e][pos'[e]] # "completed"
      <4>1. pos'[e] = ResumePosition(e) /\ r \in Positions
        BY <2>2, <2>3, <2>4, <3>2, TotalFacts DEF Positions
      <4> QED
        BY <1>1, <2>3, <4>1, ResumeFacts
    <3> QED
      BY <2>1, <2>2, <2>4, <3>1, <3>2 DEF RowsAtHand
  <2>9. ASSUME NEW x \in Exps, x # e PROVE Kept(x)
    <3>1. (Live(x)' => Live(x)) /\ Inserted(x)
      BY <2>1, <2>9 DEF Live, Inserted
    <3> QED
      BY <2>1, <2>4, <2>9, <3>1 DEF Kept
  <2>10. Kept(e) \/ Builds(e)
    <3>1. CASE sweep = "tick"
      <4>1. Live(e) /\ Inserted(e)
        BY <2>1, <2>5, <3>1 DEF Live, Inserted
      <4> QED
        BY <2>1, <2>4, <2>5, <3>1, <4>1 DEF Kept
    <3>2. CASE sweep \in {"resume", "kickoff"}
      BY <2>1, <2>3, <2>4, <2>5, <2>6, <3>2 DEF Builds
    <3> QED
      BY <2>2, <3>1, <3>2
  <2> QED
    BY <1>1, <2>1, <2>7, <2>8, <2>9, <2>10, LedgerAssembly
<1>6. ASSUME NEW e \in Exps, Refuse(e) PROVE OrchLedger'
  <2>1. /\ pc = "pick" /\ pc' = "pick" /\ todo' = {}
        /\ UNCHANGED <<cur, sweep, pos, status, rows, events, dbErrors>>
        /\ \A x \in Exps : st'[x] = IF st[x] = "local" THEN "absent" ELSE st[x]
    BY <1>6 DEF Refuse, AbandonSweep, db, outbox, faults
  <2>2. Claimed'
    BY <1>1, <2>1 DEF Claimed, Unclaimed
  <2> QED
    BY <2>1, <2>2, QuietLedger
<1> QED
  BY <1>2, <1>3, <1>4, <1>5, <1>6

\* A crash, and what happens without the executor, keeps the ledger.
LEMMA EnvironmentLedger ==
  ASSUME OrchControl, OrchLedger,
         \/ Crash \/ Environment \/ SoakStop \/ CyclerRestart
         \/ (\E e \in Exps : Rewrite(e)) \/ UNCHANGED vars
  PROVE  OrchLedger'
<1>1. TypeOK /\ Control /\ Claimed /\ RowsAtHand
  BY DEF OrchControl, OrchLedger
<1>2. CASE Crash
  <2>1. /\ pc' = "down" /\ todo' = {} /\ UNCHANGED <<cur, sweep, status, rows, pos, events, dbErrors>>
        /\ \A e \in Exps : st'[e] = "absent"
    BY <1>2 DEF Crash, db, outbox
  <2>2. Claimed'
    BY <1>1, <2>1 DEF Claimed, Unclaimed, DbAwaits, IoAwaits
  <2> QED
    BY <2>1, <2>2, QuietLedger
<1>3. CASE Environment \/ CyclerRestart \/ (\E e \in Exps : Rewrite(e)) \/ UNCHANGED vars
  <2>1. UNCHANGED <<status, rows, pc, cur, todo, sweep, st, pos, events, dbErrors>>
    BY <1>3 DEF Environment, Latch, Mirror, CyclerRestart, Rewrite, vars, db, task, objects, outbox, faults, ghosts
  <2>2. Claimed'
    BY <1>1, <2>1 DEF Claimed, Unclaimed
  <2> QED
    BY <2>1, <2>2, QuietLedger
<1>4. CASE SoakStop
  <2>1. /\ UNCHANGED <<rows, pc, cur, todo, sweep, st, pos, events, dbErrors>>
        /\ \A e \in Exps : status'[e] # "pending"
    BY <1>4 DEF SoakStop, task, objects, outbox
  <2>2. Claimed'
    BY <1>1, <2>1 DEF Claimed, Unclaimed, TypeOK
  <2> QED
    BY <2>1, <2>2, QuietLedger
<1> QED
  BY <1>2, <1>3, <1>4

\* Only _load_resume_state and _advance find the end of a schedule.
LEMMA AtEndNext ==
  ASSUME OrchControl, AtEnd, [Next]_vars
  PROVE  AtEnd'
<1>1. TypeOK /\ Control
  BY DEF OrchControl
<1>2. \A at, label : DbStep(at, label) \/ IoStep(at, label) => pc' = label
  BY DEF DbStep, IoStep, Goto
<1>3. CASE Boot \/ Poll \/ EndSweep
  BY <1>3 DEF Boot, Poll, EndSweep, AtEnd
<1>4. ASSUME NEW e \in Exps, Pick(e) PROVE AtEnd'
  <2>1. PICK r \in 0..Total : r = ResumePosition(e)
    BY <1>1, ResumeFacts
  <2>2. sweep \in {"resume", "kickoff", "tick"} /\ cur' = e /\ pos \in [Exps -> 0..Total]
    BY <1>1, <1>4 DEF TypeOK, Pick
  <2>3. pc' \in {"rDone", "tDone"} => pos'[e] = r /\ r >= Total
    BY <1>4, <2>1, <2>2 DEF Pick
  <2> QED
    BY <2>1, <2>2, <2>3, TotalFacts DEF AtEnd
<1>5. CASE Resume
  BY <1>2, <1>5 DEF Resume, ResumeRead, ResumeDrift, ResumeRow, ResumeFail, ResumeDone, AtEnd
<1>6. CASE Kickoff
  BY <1>2, <1>6 DEF Kickoff, KickoffBad, KickoffMark, KickoffRow, KickoffChem, KickoffTag,
                    KickoffSend, KickoffFail, AtEnd
<1>7. CASE TickEnd
  <2>1. AdvanceTo(pos[cur] + 1, StepOf(pos[cur] + 1) = 0, pos[cur] + 1 = Total)
    BY <1>7 DEF TickEnd
  <2>2. pos' = [pos EXCEPT ![cur] = pos[cur] + 1] /\ cur' = cur
        /\ pc' = IF pos[cur] + 1 = Total THEN "tDone" ELSE "tRow"
    BY <2>1 DEF AdvanceTo, DbStep, Goto
  <2> QED
    BY <1>1, <2>2 DEF AtEnd, TypeOK
<1>8. CASE TickStep /\ ~TickEnd
  BY <1>2, <1>8 DEF TickStep, TickRead, TickClose, TickFail, TickDone, TickPark, TickRow, TickTag,
                    TickSend, AtEnd
<1>9. CASE IoError \/ DbError \/ Crash
  BY <1>9 DEF IoError, DbError, Crash, Goto, AbandonSweep, AtEnd
<1>10. CASE Environment \/ SoakStop \/ CyclerRestart \/ (\E e \in Exps : Rewrite(e))
             \/ UNCHANGED vars
  BY <1>10 DEF Environment, Latch, Mirror, SoakStop, CyclerRestart, Rewrite, vars, task, objects,
               AtEnd
<1>11. CASE \E e \in Exps : Refuse(e)
  BY <1>11 DEF Refuse, AbandonSweep, AtEnd
<1> QED
  BY <1>3, <1>4, <1>5, <1>6, <1>7, <1>8, <1>9, <1>10, <1>11 DEF Next, Executor

\* Every step keeps the ledger.
LEMMA OrchNext == OrchIndInv /\ [Next]_vars => OrchIndInv'
<1>1. OrchControl /\ OrchLedger /\ [Next]_vars => OrchLedger'
  BY ResumeLedger, KickoffLedger, TickLedger, SweepLedger, IoErrorLedger, DbErrorLedger,
     EnvironmentLedger DEF Next, Executor
<1> QED
  BY <1>1, ControlNext, AtEndNext DEF OrchIndInv

\* The inductive invariant of the executor and its tables.
THEOREM OrchInvariance == Spec => []OrchIndInv
<1>1. Init => AtEnd
  BY DEF Init, AtEnd
<1>2. Init => OrchIndInv
  BY <1>1, ControlInit, LedgerInit DEF OrchIndInv
<1> QED
  BY <1>2, OrchNext, PTL DEF Spec

\* Step rows and objects agree after crashes at every await, resumes and errors:
\* no step is skipped and none is run again once closed, but for one hole or
\* one misplaced object per failed statement.
THEOREM LedgerSoundAlways == Spec => []LedgerSound
<1>1. OrchIndInv => LedgerSound
  <2> SUFFICES ASSUME OrchIndInv PROVE LedgerSound
    OBVIOUS
  <2> DEFINE S == {e \in Exps : Astray(e)}
  <2>1. IsFiniteSet(S) /\ Cardinality(S) <= dbErrors /\ dbErrors \in Nat
    <3>1. S \subseteq Exps
      OBVIOUS
    <3> QED
      BY <3>1, ExpsAssumption, FS_Subset, BoundsAssumption
         DEF OrchIndInv, OrchControl, OrchLedger, AstrayCounted, TypeOK
  <2>2. {e \in Exps : /\ st[e] = "running" /\ (cur # e \/ pc \in {"poll", "pick"})
                      /\ ~ (pos[e] \in Positions /\ rows[e][pos[e]] = "running")} \subseteq S
    BY DEF OrchIndInv, OrchControl, Placed, Astray, Inserted
  <2>3. ObjectAtOpenRow
    BY <2>1, <2>2, CountWithin DEF ObjectAtOpenRow
  <2> QED
    BY <2>3 DEF LedgerSound, OrchIndInv, OrchLedger
<1> QED
  BY <1>1, OrchInvariance, PTL

\* A cycle_complete event is enqueued at most once per cycle and only when all
\* step rows of the cycle are closed, but for one per failed statement.
THEOREM EventOncePerCycleAlways == Spec => []EventOncePerCycle
<1>1. OrchIndInv => EventOncePerCycle
  BY DEF OrchIndInv, OrchLedger
<1> QED
  BY <1>1, OrchInvariance, PTL

-----------------------------------------------------------------------------
(* The executor implements ExperimentLifecycle.                            *)

\* The closed rows of an experiment.
Closed(e) == {p \in Positions : rows[e][p] = "completed"}

\* Without failed statements and stops the executor sees every status and there
\* are no gaps: what it marks completed has all its rows closed.
LEMMA WithoutErrors ==
  ASSUME MaxDbErrors = 0, MaxStops = 0, OrchIndInv
  PROVE  /\ dbErrors = 0 /\ stops = 0
         /\ \A e \in Exps : Live(e) => Gaps(e) = {}
         /\ pc \in {"rDone", "tDone"} => Closed(cur) = Positions
<1>1. TypeOK /\ AtEnd /\ GapsCounted
  BY DEF OrchIndInv, OrchControl, OrchLedger
<1>2. dbErrors = 0 /\ stops = 0 /\ cur \in Exps
  BY <1>1 DEF TypeOK
<1>3. ASSUME NEW e \in Exps, Live(e) PROVE Gaps(e) = {}
  <2>1. Gaps(e) \subseteq Positions /\ IsFiniteSet(Gaps(e))
    <3>1. Gaps(e) \subseteq Positions
      BY DEF Gaps
    <3> QED
      BY <3>1, PositionsFinite, FS_Subset
  <2>2. Cardinality(Gaps(e)) <= 0 /\ Cardinality(Gaps(e)) \in Nat
    BY <1>1, <1>2, <1>3, <2>1, FS_CardinalityType DEF GapsCounted
  <2>3. Cardinality(Gaps(e)) = 0
    BY <2>2
  <2> QED
    BY <2>1, <2>3, FS_EmptySet
<1>4. ASSUME pc \in {"rDone", "tDone"} PROVE Closed(cur) = Positions
  <2>1. pos[cur] = Total /\ Live(cur)
    BY <1>1, <1>4 DEF AtEnd, Live
  <2>2. \A p \in Positions : p < pos[cur]
    BY <2>1, TotalFacts DEF Positions
  <2> QED
    BY <1>2, <1>3, <2>1, <2>2 DEF Gaps, Closed
<1> QED
  BY <1>2, <1>3, <1>4

\* Every step of the executor and its environment is a step of the lifecycle of
\* one experiment, or none.
LEMMA LifecycleStep ==
  ASSUME MaxDbErrors = 0, MaxStops = 0, OrchIndInv, [Next]_vars
  PROVE  [Lifecycle!Next]_Lifecycle!vars
<1> DEFINE done == [e \in Exps |-> Cardinality({p \in Positions : rows[e][p] = "completed"})]
<1>1. TypeOK /\ StatusKnown /\ Placed /\ Control /\ dbErrors = 0 /\ stops = 0 /\ cur \in Exps
  BY WithoutErrors DEF OrchIndInv, OrchControl, TypeOK
<1>2. CASE UNCHANGED <<status, rows>>
  BY <1>2 DEF Lifecycle!vars
<1>3. CASE pc \in DbAwaits /\ DbWrite
  <2>1. rows' = RowsAfter /\ status' = StatusAfter /\ status \in [Exps -> Statuses]
    BY <1>1, <1>3 DEF DbWrite, TypeOK
  <2>2. CASE pc = "kMark"
    <3>1. rows' = rows /\ status[cur] = "pending" /\ status' = [status EXCEPT ![cur] = "running"]
      BY <1>1, <2>1, <2>2 DEF RowsAfter, StatusAfter, StatusKnown
    <3>2. Lifecycle!Start(cur)
      BY <1>1, <3>1 DEF Lifecycle!Start
    <3> QED
      BY <1>1, <3>2 DEF Lifecycle!Next
  <2>3. CASE pc \in {"rFail", "kBad", "kFail", "tFail"}
    <3>1. rows' = rows /\ status[cur] \in {"pending", "running"} /\ status' = [status EXCEPT ![cur] = "failed"]
      BY <1>1, <2>1, <2>3 DEF RowsAfter, StatusAfter, StatusKnown, DbAwaits
    <3>2. Lifecycle!Fail(cur)
      BY <1>1, <3>1 DEF Lifecycle!Fail
    <3> QED
      BY <1>1, <3>2 DEF Lifecycle!Next
  <2>4. CASE pc \in {"rDone", "tDone"}
    <3>1. rows' = rows /\ status[cur] = "running" /\ status' = [status EXCEPT ![cur] = "completed"]
      BY <1>1, <2>1, <2>4 DEF RowsAfter, StatusAfter, StatusKnown, DbAwaits
    <3>2. Cardinality(Positions) = Total
      BY FS_Interval, TotalFacts DEF Positions
    <3>3. done[cur] = Total
      BY <1>1, <2>4, <3>2, WithoutErrors DEF Closed
    <3>4. Lifecycle!Complete(cur)
      BY <1>1, <3>1, <3>3 DEF Lifecycle!Complete
    <3> QED
      BY <1>1, <3>4 DEF Lifecycle!Next
  <2>5. CASE pc \in {"rRow", "kRow", "tRow", "tClose", "tEnd"}
    <3>1. status' = status /\ status[cur] = "running"
      BY <1>1, <2>1, <2>5 DEF StatusAfter, StatusKnown, DbAwaits
    <3>2. pos[cur] \in Positions
      BY <1>1, <2>5, TotalFacts DEF Placed, Control, KickoffAwaits
    <3>0. PICK x \in Exps : x = cur
      BY <1>1
    <3>3. \A e \in Exps \ {x} : Closed(e)' = Closed(e)
      BY <1>1, <2>1, <3>0, RowsAfterFacts DEF Closed
    <3>4. \/ Closed(x)' = Closed(x)
          \/ Closed(x)' = Closed(x) \cup {pos[x]} /\ pos[x] \notin Closed(x)
      <4>1. /\ \A p \in Positions : p # pos[x] => rows'[x][p] = rows[x][p]
            /\ rows'[x][pos[x]] # "completed" => rows[x][pos[x]] # "completed"
        BY <1>1, <2>1, <3>0, <3>2, RowsAfterFacts
      <4> QED
        BY <3>0, <3>2, <4>1 DEF Closed
    <3>5. CASE Closed(x)' = Closed(x)
      <4>1. \A e \in Exps : Closed(e)' = Closed(e)
        BY <3>3, <3>5
      <4>2. done' = done
        BY <4>1 DEF Closed
      <4> QED
        BY <3>1, <4>2 DEF Lifecycle!vars
    <3>6. CASE Closed(x)' = Closed(x) \cup {pos[x]} /\ pos[x] \notin Closed(x)
      <4>1. Closed(x) \subseteq Positions /\ IsFiniteSet(Closed(x)) /\ Cardinality(Closed(x)) \in Nat
        <5>1. Closed(x) \subseteq Positions
          BY DEF Closed
        <5> QED
          BY <5>1, PositionsFinite, FS_Subset, FS_CardinalityType
      <4>2. Cardinality(Closed(x)') = Cardinality(Closed(x)) + 1
        BY <3>6, <4>1, FS_AddElement
      <4>3. Cardinality(Closed(x)) + 1 <= Total
        <5>1. Closed(x)' \subseteq Positions /\ Cardinality(Positions) = Total
          BY FS_Interval, TotalFacts DEF Positions, Closed
        <5> QED
          BY <4>2, <5>1, PositionsFinite, FS_Subset
      <4>4. /\ done[x] < Total
            /\ done' = [done EXCEPT ![x] = done[x] + 1]
        <5>1. done[x] = Cardinality(Closed(x))
          BY <1>1 DEF Closed
        <5>2. done' = [e \in Exps |-> Cardinality(Closed(e)')]
          BY DEF Closed
        <5>3. done = [e \in Exps |-> Cardinality(Closed(e))]
          BY DEF Closed
        <5> HIDE DEF done
        <5> QED
          BY <1>1, <3>3, <4>1, <4>2, <4>3, <5>1, <5>2, <5>3, TotalFacts
      <4>5. Lifecycle!CloseStep(x)
        BY <3>0, <3>1, <4>4 DEF Lifecycle!CloseStep
      <4> QED
        BY <1>1, <4>5 DEF Lifecycle!Next
    <3> QED
      BY <3>4, <3>5, <3>6
  <2> QED
    BY <1>3, <2>2, <2>3, <2>4, <2>5 DEF DbAwaits
<1>4. ~SoakStop
  BY <1>1 DEF SoakStop
<1>5. UNCHANGED <<status, rows>> \/ (pc \in DbAwaits /\ DbWrite)
  BY <1>4, DbChanges DEF vars, db
<1> QED
  BY <1>2, <1>3, <1>5

\* Without failed statements and stops, and whatever crashes and Modbus errors
\* happen, the executor implements the lifecycle: an experiment leaves 'pending'
\* once, its steps are closed one at a time and none twice, it is 'completed'
\* only after the last of them, and a final status stays.
THEOREM LifecycleImplemented ==
  ASSUME MaxDbErrors = 0, MaxStops = 0
  PROVE  Spec => ImplementsLifecycle
<1>1. Init => Lifecycle!Init
  <2>1. ASSUME Init, NEW e \in Exps PROVE {p \in Positions : rows[e][p] = "completed"} = {}
    BY <2>1 DEF Init
  <2> QED
    BY <2>1, FS_EmptySet DEF Init, Lifecycle!Init
<1>2. OrchIndInv /\ [Next]_vars => [Lifecycle!Next]_Lifecycle!vars
  BY LifecycleStep
<1> QED
  BY <1>1, <1>2, OrchInvariance, PTL DEF Spec, ImplementsLifecycle, Lifecycle!Spec

-----------------------------------------------------------------------------
(* The cells and the cycle tag of a channel.                               *)

\* There is one latest row if there is any, and a resume starts there.
LEMMA LatestFacts ==
  ASSUME TypeOK, NEW e \in Exps
  PROVE  /\ Started(e) => \E p \in Positions : Latest(e, p)
         /\ \A p, q \in Positions : Latest(e, p) /\ Latest(e, q) => p = q
         /\ \A p \in Positions : Latest(e, p) =>
               ResumePosition(e) = IF rows[e][p] = "running" THEN p ELSE p + 1
<1> DEFINE used == {p \in Positions : rows[e][p] # "none"}
<1>1. \A p \in Positions : p \in Nat
  BY PositionsFinite
<1>2. \A p, q \in Positions : Latest(e, p) /\ Latest(e, q) => p = q
  BY <1>1 DEF Latest
<1>3. ASSUME used # {} PROVE Max(used) \in Positions /\ Latest(e, Max(used))
  <2>1. Max(used) \in used /\ \A q \in used : q <= Max(used)
    BY <1>3, LastPosition
  <2>2. PICK m : m = Max(used)
    OBVIOUS
  <2>3. m \in Positions /\ rows[e][m] # "none" /\ \A q \in Positions : rows[e][q] # "none" => q <= m
    BY <2>1, <2>2
  <2>4. Latest(e, m)
    BY <1>1, <2>3 DEF Latest
  <2> QED
    BY <2>2, <2>3, <2>4
<1>4. Started(e) => \E p \in Positions : Latest(e, p)
  BY <1>3 DEF Started
<1>5. ASSUME NEW p \in Positions, Latest(e, p)
      PROVE  ResumePosition(e) = IF rows[e][p] = "running" THEN p ELSE p + 1
  <2>1. used # {}
    BY <1>5 DEF Latest
  <2>2. p = Max(used)
    BY <1>2, <1>3, <1>5, <2>1
  <2> QED
    BY <2>1, <2>2 DEF ResumePosition
<1> QED
  BY <1>2, <1>4, <1>5

\* What a step may do to the channel of an experiment.
ChannelKept(e) ==
    /\ Fresh(e) => drive'[e] = NoStep
    /\ ~Fresh(e) => chem' = ChemOf[e]
    /\ ~Fresh(e) /\ latched[e] => latched'[e]
    /\ latched'[e] => drive'[e] = NoStep

\* The latest row of a failed experiment is closed until nothing takes it up.
Ended(e) == Settled(e) \/ (cur = e /\ pc = "tFail")

\* The row at hand is the latest, and open.
OpenAt(e) == pos[e] \in Positions /\ Latest(e, pos[e]) /\ rows[e][pos[e]] = "running"

\* A step that leaves the rows of an experiment alone.
LEMMA StampQuiet ==
  ASSUME NEW e \in Exps, StampedAt(e), ChannelKept(e),
         \A p \in Positions : p \in Nat /\ rows'[e][p] = rows[e][p],
         \A p, q \in Positions : Latest(e, p) /\ Latest(e, q) => p = q,
         Fresh(e) => \A p \in Positions :
             Latest(e, p) => rows[e][p] = "running" /\ Clamped(CycleOf(p)) = 0,
         \/ tag'[e] = tag[e]
         \/ tag'[e] = Clamped(CycleOf(pos[e])) /\ OpenAt(e) /\ pc' \notin {"kChem", "tRow"},
         cur' = e /\ pc' = "kChem" => Fresh(e),
         cur = e /\ pc = "kChem" => chem' = ChemOf[e] \/ (cur' = e /\ pc' = "kChem"),
         status'[e] = "running" => \/ status[e] = "running" /\ ~(cur = e /\ pc = "kRow")
                                   \/ cur' = e /\ pc' = "kRow",
         sweep' = "resume" /\ e \in todo' => Started(e),
         cur' = e /\ pc' \in ResumeAwaits \cup {"tRow"} => Started(e),
         cur' = e /\ pc' = "rRead" => \A p \in Positions :
             Latest(e, p) => pos'[e] = IF rows[e][p] = "running" THEN p ELSE p + 1,
         cur' = e /\ pc' \in {"rDrift", "rRow"} =>
             (pos'[e] \in Positions /\ rows[e][pos'[e]] = "running") \/ latched'[e],
         st'[e] = "running" /\ Inserted(e)' => pos'[e] \in Positions /\ rows[e][pos'[e]] = "running",
         cur' = e /\ pc' = "tRow" => cur = e /\ pc = "tRow" /\ pos'[e] = pos[e] /\ tag'[e] = tag[e],
         cur = e /\ pc \in {"tRow", "tTag"} =>
             (cur' = e /\ pc' = pc) \/ (tag'[e] = Clamped(CycleOf(pos[e])) /\ OpenAt(e)),
         Ended(e) => \/ Ended(e)' \/ latched'[e]
                     \/ \A p \in Positions : Latest(e, p) => rows[e][p] = "running"
  PROVE  StampedAt(e)'
<1>1. Started(e)' <=> Started(e)
  BY DEF Started
<1>2. \A p \in Positions : Latest(e, p)' <=> Latest(e, p)
  BY DEF Latest
<1>3. Fresh(e)' => Fresh(e)
  BY <1>1 DEF Fresh
<1>4. Fresh(e)' => tag'[e] = 0
  <2>1. Latest(e, pos[e]) /\ pos[e] \in Positions => Started(e)
    BY DEF Latest, Started
  <2> QED
    BY <1>1, <1>3, <2>1 DEF Fresh, StampedAt, OpenAt
<1>5. ~Fresh(e)' => chem' = ChemOf[e]
  BY <1>1 DEF Fresh, ChannelKept
<1>6. status'[e] = "running" => Started(e)' \/ (cur' = e /\ pc' = "kRow")
  BY <1>1 DEF StampedAt
<1>7. cur' = e /\ pc' = "tRow" /\ StepOf(pos'[e]) # 0 => tag'[e] = Clamped(CycleOf(pos'[e])) \/ latched'[e]
  BY DEF StampedAt, ChannelKept, Fresh
<1>8. ASSUME NEW p \in Positions, Latest(e, p)
      PROVE  \/ latched'[e]
             \/ cur' = e /\ pc' \in {"tRow", "tTag"}
             \/ rows[e][p] = "running" /\ tag'[e] = Clamped(CycleOf(p))
             \/ rows[e][p] = "completed" /\ (p = Total - 1 \/ Ended(e)')
  <2>1. CASE tag'[e] = Clamped(CycleOf(pos[e])) /\ OpenAt(e)
    BY <1>8, <2>1 DEF OpenAt
  <2>2. CASE tag'[e] = tag[e] /\ ~(cur = e /\ pc \in {"tRow", "tTag"}) /\ ~Fresh(e)
    <3>1. \/ latched[e]
          \/ rows[e][p] = "running" /\ tag[e] = Clamped(CycleOf(p))
          \/ rows[e][p] = "completed" /\ (p = Total - 1 \/ Ended(e))
      BY <1>8, <2>2 DEF StampedAt, Ended
    <3> QED
      BY <1>8, <2>2, <3>1 DEF ChannelKept
  <2>3. CASE tag'[e] = tag[e] /\ Fresh(e)
    BY <1>8, <2>3 DEF StampedAt
  <2>4. CASE cur = e /\ pc \in {"tRow", "tTag"} /\ cur' = e /\ pc' = pc
    BY <2>4
  <2> QED
    BY <2>1, <2>2, <2>3, <2>4
<1>9. /\ latched'[e] => drive'[e] = NoStep
      /\ Fresh(e)' => drive'[e] = NoStep
  BY <1>3 DEF ChannelKept
<1>10. /\ cur' = e /\ pc' = "rRead" => \A p \in Positions :
              Latest(e, p)' => pos'[e] = IF rows'[e][p] = "running" THEN p ELSE p + 1
       /\ cur' = e /\ pc' \in {"rDrift", "rRow"} => rows'[e][pos'[e]] = "running" \/ latched'[e]
       /\ st'[e] = "running" /\ Inserted(e)' => rows'[e][pos'[e]] = "running"
  BY <1>2
<1>11. \A p \in Positions : Latest(e, p)' =>
             \/ latched'[e]
             \/ cur' = e /\ pc' \in {"tRow", "tTag"}
             \/ rows'[e][p] = "running" /\ tag'[e] = Clamped(CycleOf(p))
             \/ /\ rows'[e][p] = "completed"
                /\ p = Total - 1 \/ (cur' = e /\ pc' = "tFail") \/ Settled(e)'
  BY <1>2, <1>8 DEF Ended
<1> QED
  BY <1>1, <1>4, <1>5, <1>6, <1>7, <1>9, <1>10, <1>11 DEF StampedAt

\* A step that does not touch the channel.
LEMMA StillChannel ==
  ASSUME NEW e \in Exps, StampedAt(e), drive'[e] = drive[e], latched'[e] = latched[e], chem' = chem
  PROVE  ChannelKept(e)
BY DEF StampedAt, ChannelKept

\* The cycle of a position: zero at the start, the same until the steps wrap.
LEMMA CycleNext ==
  /\ CycleOf(0) = 0
  /\ \A p \in Nat : StepOf(p + 1) # 0 => CycleOf(p + 1) = CycleOf(p)
<1>1. NSteps \in Nat \ {0}
  BY ScheduleAssumption
<1>2. CycleOf(0) = 0
  <2>1. 0 \in 0..(NSteps - 1) /\ 0 = NSteps * 0 + 0
    BY <1>1
  <2> QED
    BY <1>1, <2>1, DivUnique DEF CycleOf
<1>3. ASSUME NEW p \in Nat, StepOf(p + 1) # 0 PROVE CycleOf(p + 1) = CycleOf(p)
  <2>1. PICK q \in Nat : q = CycleOf(p)
    BY StepFacts
  <2>2. PICK r \in 0..(NSteps - 1) : r = StepOf(p)
    BY StepFacts
  <2>3. p = NSteps * q + r
    BY <2>1, <2>2, StepFacts
  <2>4. NSteps * q \in Nat /\ NSteps * (q + 1) = NSteps * q + NSteps
    BY <1>1
  <2>5. CASE r < NSteps - 1
    <3>1. r + 1 \in 0..(NSteps - 1) /\ p + 1 = NSteps * q + (r + 1) /\ p + 1 \in Nat
      BY <1>1, <2>3, <2>4, <2>5
    <3>2. (p + 1) \div NSteps = q
      BY <1>1, <3>1, DivUnique
    <3> QED
      BY <2>1, <3>2 DEF CycleOf
  <2>6. CASE r = NSteps - 1
    <3>1. PICK n \in Nat, d \in Nat, z \in 0..(NSteps - 1) : n = p + 1 /\ d = q + 1 /\ z = 0
      BY <1>1
    <3>2. n = NSteps * d + z
      BY <1>1, <2>3, <2>4, <2>6, <3>1
    <3>3. n % NSteps = z
      BY <1>1, <3>2, DivUnique
    <3> QED
      BY <1>3, <3>1, <3>3 DEF StepOf
  <2> QED
    BY <1>1, <2>5, <2>6
<1> QED
  BY <1>2, <1>3

\* The only row of a fresh experiment is its first, of cycle 0, and open.
LEMMA FreshRows ==
  ASSUME OrchIndInv, NEW e \in Exps, Fresh(e), NEW p \in Positions, Latest(e, p)
  PROVE  p = 0 /\ rows[e][p] = "running" /\ Clamped(CycleOf(p)) = 0
<1>1. cur = e /\ pc = "kChem"
  BY DEF Fresh, Started, Latest
<1>2. Live(e) /\ pos[e] = 0 /\ rows[e][0] = "running"
  BY <1>1 DEF Live, KickoffAwaits, OrchIndInv, OrchControl, OrchLedger, Placed, RowsAtHand
<1>3. p \in Nat /\ (p > 0 => rows[e][p] = "none")
  BY <1>2, PositionsFinite DEF OrchIndInv, OrchLedger, NoRowsAhead
<1>4. p = 0
  BY <1>3 DEF Latest
<1> QED
  BY <1>2, <1>4, CycleNext, ScheduleAssumption DEF Clamped

\* A Modbus request drives and tags the channel at hand only; a swap of the
\* cells costs everything else that has been started its stamp.
LEMMA IoChannels ==
  ASSUME OrchIndInv, NEW e \in Exps, StampedAt(e), pc \in IoAwaits,
         (IoWrite /\ e \notin Exchanged) \/ UNCHANGED channels
  PROVE  /\ ChannelKept(e)
         /\ \/ tag'[e] = tag[e]
            \/ e = cur /\ pc \in {"kTag", "tTag"} /\ tag'[e] = Clamped(CycleOf(pos[e]))
         /\ IoWrite /\ e = cur /\ pc = "kChem" => chem' = ChemOf[e]
         /\ IoWrite /\ e = cur /\ pc \in {"kTag", "tTag"} => tag'[e] = Clamped(CycleOf(pos[e]))
<1>1. /\ TypeOK /\ Placed /\ Control /\ RowsAtHand /\ cur \in Exps
      /\ drive \in [Exps -> 0..NSteps] /\ tag \in [Exps -> 0..MaxTag]
  BY DEF OrchIndInv, OrchControl, OrchLedger, TypeOK
<1>2. CASE UNCHANGED channels
  <2>1. UNCHANGED <<drive, latched, modeReg, shown, tag, chem>>
    BY <1>2 DEF channels
  <2>2. ChannelKept(e)
    BY <1>1, <2>1, StillChannel
  <2>3. IoWrite => /\ (e = cur /\ pc = "kChem" => chem' = ChemOf[e])
                   /\ (e = cur /\ pc \in {"kTag", "tTag"} => tag'[e] = Clamped(CycleOf(pos[e])))
    BY <1>1 DEF IoWrite, Swaps, TagAfter
  <2> QED
    BY <2>1, <2>2, <2>3
<1>3. CASE IoWrite /\ Swaps /\ e \notin Exchanged
  <2>1. pc = "kChem" /\ (e = cur \/ Fresh(e))
    BY <1>3 DEF Swaps, Exchanged
  <2>2. Fresh(e) /\ tag[e] = 0
    BY <2>1 DEF StampedAt, Fresh
  <2>3. /\ drive' = [x \in Exps |-> NoStep] /\ tag' = [x \in Exps |-> 0]
        /\ latched' = [x \in Exps |-> FALSE] /\ chem' = ChemOf[cur]
    BY <1>3, <2>1 DEF IoWrite, DriveAfter, TagAfter
  <2> QED
    BY <2>1, <2>2, <2>3 DEF ChannelKept
<1>4. CASE IoWrite /\ ~Swaps
  <2>1. UNCHANGED <<latched, chem>> /\ drive' = DriveAfter /\ tag' = TagAfter
    BY <1>4 DEF IoWrite
  <2>2. IF pc \in {"kTag", "tTag"} THEN tag' = [tag EXCEPT ![cur] = Clamped(CycleOf(pos[cur]))]
        ELSE tag' = tag
    BY <1>4, <2>1 DEF TagAfter
  <2>3. tag'[e] = IF e = cur /\ pc \in {"kTag", "tTag"} THEN Clamped(CycleOf(pos[e])) ELSE tag[e]
    BY <1>1, <2>2
  <2>4. \/ drive' = drive
        \/ pc = "tPark" /\ drive' = [drive EXCEPT ![cur] = NoStep]
        \/ /\ pc \in {"rDrift", "kSend", "tSend"} /\ ~latched[cur]
           /\ drive' = [drive EXCEPT ![cur] = StepOf(pos[cur])]
    <3>1. CASE pc \in {"rDrift", "kSend", "tSend"}
      BY <1>4, <2>1, <3>1 DEF DriveAfter
    <3>2. CASE pc = "tPark"
      BY <1>4, <2>1, <3>2 DEF DriveAfter
    <3>3. CASE pc \notin {"rDrift", "kSend", "tSend", "tPark"}
      BY <1>4, <2>1, <3>3 DEF DriveAfter
    <3> QED
      BY <3>1, <3>2, <3>3
  <2>5. e = cur /\ pc \in {"rDrift", "kSend", "tSend"} => ~Fresh(e)
    <3>1. ASSUME e = cur, pc \in {"rDrift", "kSend", "tSend"} PROVE Started(e)
      <4>1. CASE pc = "rDrift"
        BY <3>1, <4>1 DEF StampedAt, ResumeAwaits
      <4>2. CASE pc = "kSend"
        BY <1>1, <3>1, <4>2, TotalFacts DEF RowsAtHand, Started
      <4>3. CASE pc = "tSend"
        BY <1>1, <3>1, <4>3 DEF StampedAt, Placed, Control, Inserted, Started
      <4> QED
        BY <3>1, <4>1, <4>2, <4>3
    <3> QED
      BY <3>1 DEF Fresh
  <2>6. Fresh(e) \/ latched[e] => drive'[e] = NoStep
    BY <1>1, <2>4, <2>5 DEF StampedAt
  <2>7. ChannelKept(e)
    BY <1>1, <2>1, <2>6 DEF StampedAt, ChannelKept
  <2>8. e = cur /\ pc = "kChem" => chem' = ChemOf[e]
    BY <1>4, <2>1 DEF Swaps
  <2> QED
    BY <2>3, <2>7, <2>8
<1> QED
  BY <1>2, <1>3, <1>4

\* A step at the experiment at hand leaves the others as they are.
LEMMA OthersStamped ==
  ASSUME OrchIndInv, NEW e \in Exps, e # cur, StampedAt(e), ChannelKept(e), tag'[e] = tag[e],
         UNCHANGED <<cur, sweep>>, todo' \subseteq todo, rows'[e] = rows[e], pos'[e] = pos[e],
         status'[e] = status[e], st'[e] = st[e] \/ st'[e] = "absent"
  PROVE  StampedAt(e)'
<1>1. TypeOK /\ Placed
  BY DEF OrchIndInv, OrchControl
<1>2. st[e] = "running" /\ Inserted(e) => rows[e][pos[e]] = "running" /\ pos[e] \in Positions
  BY <1>1 DEF StampedAt, Placed
<1>3. Inserted(e)
  BY DEF Inserted
<1>4. \A p, q \in Positions : Latest(e, p) /\ Latest(e, q) => p = q
  BY <1>1, LatestFacts
<1>5. sweep' = "resume" /\ e \in todo' => Started(e)
  BY DEF StampedAt
<1>6. Fresh(e) => \A p \in Positions : Latest(e, p) => rows[e][p] = "running" /\ Clamped(CycleOf(p)) = 0
  BY FreshRows
<1>7. Ended(e) => Ended(e)'
  BY DEF Ended, Settled
<1> QED
  BY <1>2, <1>3, <1>4, <1>5, <1>6, <1>7, StampQuiet, PositionsFinite

\* What has ended stays so at its own awaits, unless its row is open.
LEMMA AtHandEnded ==
  ASSUME OrchIndInv, NEW e \in Exps, e = cur, Ended(e),
         pc \in (DbAwaits \cup IoAwaits) \ {"kRow", "tRow", "tEnd"},
         UNCHANGED <<cur, sweep>>, todo' \subseteq todo, ChannelKept(e),
         st'[e] \in {"local", "running"} => st[e] = st'[e] \/ pc \in {"kSend", "rRow"},
         status[e] \in Terminal => status'[e] \in Terminal \/ pc = "kMark",
         pc = "tFail" => status'[e] \in Terminal \/ latched[e],
         pc' \in ResumeAwaits => pc \in ResumeAwaits
  PROVE  \/ Ended(e)' \/ latched'[e]
         \/ \A p \in Positions : Latest(e, p) => rows[e][p] = "running"
<1>1. Control /\ Placed /\ RowsAtHand /\ NoRowsAhead /\ Claimed /\ cur \notin todo
  BY DEF OrchIndInv, OrchControl, OrchLedger, Control
<1>2. CASE pc = "tFail"
  <2>1. st[e] = "failed" /\ sweep = "tick"
    BY <1>1, <1>2 DEF Control, TickAwaits
  <2>2. pc' \notin ResumeAwaits /\ st'[e] \notin {"local", "running"}
    BY <1>2, <2>1 DEF ResumeAwaits
  <2>3. latched[e] => latched'[e] \/ \A p \in Positions : ~Latest(e, p)
    BY <1>2 DEF ChannelKept, Fresh, Started, Latest
  <2> QED
    BY <1>1, <1>2, <2>1, <2>2, <2>3 DEF Ended, Settled
<1>3. CASE Settled(e) /\ pc \in {"kMark", "kSend"}
  <2>1. CASE pc = "kMark"
    BY <1>1, <2>1 DEF Claimed, Unclaimed, Latest
  <2>2. CASE pc = "kSend"
    <3>1. Live(e) /\ pos[e] = 0 /\ rows[e][0] = "running" /\ \A p \in Positions : p \in Nat
      BY <1>1, <2>2, PositionsFinite DEF Live, KickoffAwaits, Placed, RowsAtHand
    <3>2. \A p \in Positions : p > 0 => rows[e][p] = "none"
      BY <1>1, <3>1 DEF NoRowsAhead
    <3>3. \A p \in Positions : Latest(e, p) => p = 0
      BY <3>1, <3>2 DEF Latest
    <3> QED
      BY <3>1, <3>3
  <2> QED
    BY <1>3, <2>1, <2>2
<1>4. CASE Settled(e) /\ pc \notin {"kMark", "kSend"}
  BY <1>1, <1>4 DEF Settled, Ended, ResumeAwaits
<1> QED
  BY <1>2, <1>3, <1>4 DEF Ended

\* A step at the experiment at hand that leaves its rows alone.
LEMMA AtHandStamped ==
  ASSUME OrchIndInv, NEW e \in Exps, e = cur, StampedAt(e), ChannelKept(e),
         pc \in (DbAwaits \cup IoAwaits) \ {"kRow", "tRow", "tEnd"},
         UNCHANGED <<cur, sweep>>, todo' \subseteq todo, pos'[e] = pos[e],
         \A p \in Positions : rows'[e][p] = rows[e][p],
         st'[e] = "running" => st[e] = "running" \/ pc = "kSend",
         st'[e] = "local" => st[e] = "local" \/ pc = "rRow",
         \/ tag'[e] = tag[e]
         \/ pc \in {"kTag", "tTag"} /\ tag'[e] = Clamped(CycleOf(pos[e])),
         pc = "tTag" => tag'[e] = Clamped(CycleOf(pos[e])),
         pc = "kChem" => chem' = ChemOf[e],
         status'[e] = "running" => status[e] = "running" \/ pc' = "kRow",
         status[e] \in Terminal => status'[e] \in Terminal \/ pc = "kMark",
         pc = "tFail" => status'[e] \in Terminal \/ latched[e],
         pc' \in Labels \ {"kChem", "tRow", "tTag", "rRead"},
         pc' \in {"rDrift", "rRow"} => pc \in {"rDrift", "rRead"},
         pc' \in {"rFail", "rDone"} => pc \in ResumeAwaits
  PROVE  StampedAt(e)'
<1>1. TypeOK /\ Placed /\ Control /\ RowsAtHand /\ NoRowsAhead
  BY DEF OrchIndInv, OrchControl, OrchLedger
<1>2. pos[e] \in 0..Total /\ \A p \in Positions : p \in Nat
  BY <1>1, PositionsFinite DEF TypeOK
<1>3. \A p, q \in Positions : Latest(e, p) /\ Latest(e, q) => p = q
  BY <1>1, LatestFacts
<1>4. st[e] = "running" \/ pc \in {"kTag", "kSend"} => pos[e] \in Positions /\ rows[e][pos[e]] = "running"
  <2>1. CASE st[e] = "running"
    BY <1>1, <2>1 DEF StampedAt, Placed, Inserted
  <2>2. CASE pc \in {"kTag", "kSend"}
    BY <1>1, <2>2, TotalFacts DEF RowsAtHand, Placed, KickoffAwaits
  <2> QED
    BY <2>1, <2>2
<1>5. pc = "tTag" => st[e] = "running"
  BY <1>1 DEF Control
<1>6. pc \in {"kTag", "tTag"} => OpenAt(e)
  <2>1. ASSUME pc \in {"kTag", "tTag"} PROVE Latest(e, pos[e])
    <3>1. Live(e)
      BY <1>5, <2>1 DEF Live, KickoffAwaits
    <3> QED
      BY <1>1, <1>4, <1>5, <2>1, <3>1 DEF NoRowsAhead, Latest
  <2> QED
    BY <1>4, <1>5, <2>1 DEF OpenAt
<1>7. ASSUME pc' \in {"rDrift", "rRow"}
      PROVE  (pos[e] \in Positions /\ rows[e][pos[e]] = "running") \/ latched'[e]
  <2>1. pos[e] \in Positions /\ Started(e) /\ ~Fresh(e)
    BY <1>1, <1>7 DEF Placed, StampedAt, ResumeAwaits, Fresh
  <2>2. CASE latched[e]
    BY <2>1, <2>2 DEF ChannelKept
  <2>3. CASE pc = "rDrift" /\ ~latched[e]
    BY <2>1, <2>3 DEF StampedAt
  <2>4. CASE pc = "rRead" /\ ~latched[e]
    <3>1. PICK p \in Positions : Latest(e, p)
      BY <1>1, <2>1, LatestFacts
    <3>2. rows[e][p] = "running" \/ (rows[e][p] = "completed" /\ p = Total - 1)
      BY <2>4, <3>1 DEF StampedAt, Settled, ResumeAwaits
    <3>3. pos[e] = IF rows[e][p] = "running" THEN p ELSE p + 1
      BY <2>4, <3>1 DEF StampedAt
    <3>4. pos[e] # Total
      BY <2>1, TotalFacts DEF Positions
    <3>5. rows[e][p] = "running"
      BY <3>2, <3>3, <3>4, TotalFacts
    <3> QED
      BY <2>1, <3>3, <3>5
  <2> QED
    BY <1>7, <2>2, <2>3, <2>4
<1>8. cur \notin todo
  BY <1>1 DEF Control
<1>9. pc' \in ResumeAwaits \cup {"tRow"} => pc \in ResumeAwaits
  BY DEF ResumeAwaits
<1>10. pc' \in ResumeAwaits \cup {"tRow"} => Started(e)
  BY <1>9 DEF StampedAt
<1>11. Fresh(e) => \A p \in Positions : Latest(e, p) => rows[e][p] = "running" /\ Clamped(CycleOf(p)) = 0
  BY FreshRows
<1>12. Ended(e) => \/ Ended(e)' \/ latched'[e]
                   \/ \A p \in Positions : Latest(e, p) => rows[e][p] = "running"
  BY <1>9, AtHandEnded
<1> QED
  BY <1>2, <1>3, <1>4, <1>6, <1>7, <1>8, <1>10, <1>11, <1>12, StampQuiet

\* The INSERT of a kickoff opens the first row; the channel is untagged.
LEMMA KickoffRowStamped ==
  ASSUME OrchIndInv, NEW e \in Exps, e = cur, StampedAt(e), pc = "kRow", pc' = "kChem",
         UNCHANGED <<cur, todo, drive, latched, tag, chem>>, st'[e] = st[e],
         rows'[e][0] = "running", \A p \in Positions : p # 0 => rows'[e][p] = rows[e][p]
  PROVE  StampedAt(e)'
<1>1. /\ Control /\ 0 \in Positions
      /\ \A p \in Positions : p \in Nat /\ rows[e][p] = "none"
  BY PositionsFinite, TotalFacts DEF OrchIndInv, OrchControl, OrchLedger, Claimed, Unclaimed
<1>2. Started(e)' /\ Fresh(e)'
  BY <1>1 DEF Started, Fresh
<1>3. Fresh(e)
  BY <1>1 DEF Fresh, Started
<1>4. st[e] # "running"
  BY <1>1 DEF Control, KickoffAwaits
<1>5. \A p \in Positions : Latest(e, p)' => p = 0
  BY <1>1 DEF Latest
<1>6. rows'[e][0] = "running" /\ tag'[e] = Clamped(CycleOf(0))
  BY <1>3, CycleNext, ScheduleAssumption DEF StampedAt, Clamped
<1> QED
  BY <1>2, <1>3, <1>4, <1>5, <1>6 DEF StampedAt, ResumeAwaits

\* The INSERT of a tick opens the row of the step the object has moved to.
LEMMA TickRowStamped ==
  ASSUME OrchIndInv, NEW e \in Exps, e = cur, StampedAt(e), pc = "tRow",
         pc' = IF StepOf(pos[e]) = 0 THEN "tTag" ELSE "tSend",
         UNCHANGED <<cur, todo, drive, latched, tag, chem>>, pos'[e] = pos[e],
         rows'[e][pos[e]] = "running", \A p \in Positions : p # pos[e] => rows'[e][p] = rows[e][p]
  PROVE  StampedAt(e)'
<1>1. /\ Control /\ Placed /\ NoRowsAhead /\ st[e] = "running" /\ pos[e] \in Positions
      /\ \A p \in Positions : p \in Nat
  BY PositionsFinite DEF OrchIndInv, OrchControl, OrchLedger, Control, Placed
<1>2. Started(e) /\ Started(e)' /\ ~Fresh(e) /\ ~Fresh(e)'
  BY <1>1 DEF Started, Fresh, StampedAt
<1>3. Live(e) /\ \A p \in Positions : p > pos[e] => rows[e][p] = "none"
  BY <1>1 DEF Live, NoRowsAhead
<1>4. \A p \in Positions : Latest(e, p)' => p = pos[e]
  BY <1>1, <1>3 DEF Latest
<1>5. StepOf(pos[e]) # 0 => tag'[e] = Clamped(CycleOf(pos[e])) \/ latched'[e]
  BY DEF StampedAt
<1>6. cur \notin todo
  BY <1>1 DEF Control, DbAwaits
<1>7. pc' \in {"tTag", "tSend"}
  OBVIOUS
<1>8. pc' = "tTag" \/ tag'[e] = Clamped(CycleOf(pos[e])) \/ latched'[e]
  BY <1>5
<1> QED
  BY <1>2, <1>4, <1>6, <1>7, <1>8 DEF StampedAt, ResumeAwaits, Inserted

\* A resume opens a new row only for a channel that has latched.
LEMMA ResumeRowStamped ==
  ASSUME OrchIndInv, NEW e \in Exps, e = cur, StampedAt(e), latched[e], pc = "rRow", pc' = "pick",
         UNCHANGED <<cur, drive, latched, tag, chem>>, todo' \subseteq todo,
         status'[e] = status[e], st'[e] # "running", pos[e] \in Positions,
         rows'[e][pos[e]] = "running", \A p \in Positions : p # pos[e] => rows'[e][p] = rows[e][p]
  PROVE  StampedAt(e)'
<1>1. cur \notin todo
  BY DEF OrchIndInv, OrchControl, Control, DbAwaits
<1>2. Started(e) /\ Started(e)' /\ ~Fresh(e) /\ ~Fresh(e)'
  BY DEF StampedAt, ResumeAwaits, Started, Fresh
<1> QED
  BY <1>1, <1>2 DEF StampedAt, ResumeAwaits

\* A failing tick closes its row; what fails next, or the latch, keeps the
\* channel from being driven in the cycle after it.
LEMMA CloseStamped ==
  ASSUME OrchIndInv, NEW e \in Exps, e = cur, StampedAt(e), pc = "tClose",
         pc' = "tFail" \/ (pc' = "pick" /\ latched[e]),
         UNCHANGED <<cur, sweep, drive, latched, tag, chem>>, todo' \subseteq todo,
         st'[e] \notin {"local", "running"}, pos'[e] = pos[e], status'[e] = status[e],
         \A p \in Positions : p # pos[e] => rows'[e][p] = rows[e][p],
         rows'[e][pos[e]] = IF rows[e][pos[e]] # "none" THEN "completed" ELSE rows[e][pos[e]]
  PROVE  StampedAt(e)'
<1>1. Control /\ Placed /\ pos[e] \in Positions /\ cur \notin todo
  BY DEF OrchIndInv, OrchControl, Control, Placed, DbAwaits
<1>2. \A p \in Positions : rows'[e][p] # "none" <=> rows[e][p] # "none"
  BY <1>1
<1>3. (Started(e)' <=> Started(e)) /\ \A p \in Positions : Latest(e, p)' <=> Latest(e, p)
  BY <1>2 DEF Started, Latest
<1>4. Fresh(e)' <=> Fresh(e)
  BY <1>3 DEF Fresh
<1>5. \A p \in Positions : Latest(e, p) =>
          \/ latched'[e]
          \/ rows'[e][p] = "running" /\ tag'[e] = Clamped(CycleOf(p))
          \/ rows'[e][p] = "completed" /\ cur' = e /\ pc' = "tFail"
  BY <1>1 DEF StampedAt, Latest
<1> QED
  BY <1>1, <1>3, <1>4, <1>5 DEF StampedAt, ResumeAwaits

\* _advance closes the row and keeps the cycle unless the steps wrap.
LEMMA EndStamped ==
  ASSUME OrchIndInv, NEW e \in Exps, e = cur, StampedAt(e), pc = "tEnd",
         pc' = IF pos[e] + 1 = Total THEN "tDone" ELSE "tRow",
         UNCHANGED <<cur, todo, drive, latched, tag, chem>>,
         pos'[e] = pos[e] + 1, st'[e] = "running" => pc' = "tRow",
         \A p \in Positions : p # pos[e] => rows'[e][p] = rows[e][p],
         rows'[e][pos[e]] = IF rows[e][pos[e]] # "none" THEN "completed" ELSE rows[e][pos[e]]
  PROVE  StampedAt(e)'
<1>1. /\ Control /\ NoRowsAhead /\ st[e] = "running" /\ pos[e] \in Positions /\ cur \notin todo
      /\ \A p \in Positions : p \in Nat
  BY PositionsFinite DEF OrchIndInv, OrchControl, OrchLedger, Control, Placed, DbAwaits
<1>2. rows[e][pos[e]] = "running" /\ rows'[e][pos[e]] = "completed"
  BY <1>1 DEF StampedAt, Inserted
<1>3. Live(e) /\ \A p \in Positions : p > pos[e] => rows[e][p] = "none"
  BY <1>1 DEF Live, NoRowsAhead
<1>4. Latest(e, pos[e]) /\ \A p \in Positions : Latest(e, p)' => p = pos[e]
  BY <1>1, <1>2, <1>3 DEF Latest
<1>5. tag[e] = Clamped(CycleOf(pos[e])) \/ latched[e]
  BY <1>1, <1>2, <1>4 DEF StampedAt
<1>6. StepOf(pos'[e]) # 0 => tag'[e] = Clamped(CycleOf(pos'[e])) \/ latched'[e]
  BY <1>1, <1>5, CycleNext
<1>7. Started(e)' /\ Started(e) /\ ~Fresh(e) /\ ~Fresh(e)'
  BY <1>1, <1>2 DEF Started, Fresh
<1>8. pc' = "tRow" \/ (pc' = "tDone" /\ pos[e] = Total - 1)
  BY <1>1, TotalFacts
<1> QED
  BY <1>1, <1>2, <1>4, <1>6, <1>7, <1>8 DEF StampedAt, ResumeAwaits, Inserted

\* A Modbus request, answered or failed.
LEMMA IoStamped ==
  ASSUME OrchIndInv, pc \in IoAwaits,
         UNCHANGED <<cur, sweep, status, rows, pos>>, todo' \subseteq todo,
         \A x \in Exps \ {cur} : st'[x] = st[x] \/ st'[x] = "absent",
         st'[cur] = "running" => st[cur] = "running" \/ pc = "kSend",
         st'[cur] = "local" => st[cur] = "local",
         pc' \in Labels \ {"kChem", "tRow", "tTag", "rRead"},
         pc' \in {"rDrift", "rRow"} => pc \in {"rDrift", "rRead"},
         pc' \in {"rFail", "rDone"} => pc \in ResumeAwaits,
         NEW e \in Exps, StampedAt(e), (IoWrite /\ e \notin Exchanged) \/ UNCHANGED channels,
         e = cur /\ pc \in {"kChem", "tTag"} => IoWrite
  PROVE  StampedAt(e)'
<1>1. /\ ChannelKept(e)
      /\ \/ tag'[e] = tag[e]
         \/ e = cur /\ pc \in {"kTag", "tTag"} /\ tag'[e] = Clamped(CycleOf(pos[e]))
      /\ e = cur /\ pc = "kChem" => chem' = ChemOf[e]
      /\ e = cur /\ pc = "tTag" => tag'[e] = Clamped(CycleOf(pos[e]))
  BY IoChannels
<1>2. CASE e # cur
  BY <1>1, <1>2, OthersStamped
<1>3. CASE e = cur
  <2>1. pc \in (DbAwaits \cup IoAwaits) \ {"kRow", "tRow", "tEnd", "tFail"}
    BY DEF IoAwaits
  <2> QED
    BY <1>1, <1>3, <2>1, AtHandStamped
<1> QED
  BY <1>2, <1>3

\* A statement, executed or failed, unless it claims the next row.
LEMMA DbStamped ==
  ASSUME OrchIndInv, pc \in DbAwaits, UNCHANGED <<drive, latched, tag, chem>>,
         UNCHANGED <<cur, sweep>>, todo' \subseteq todo, rows' \in {rows, RowsAfter},
         \A x \in Exps \ {cur} : /\ st'[x] = st[x] \/ st'[x] = "absent"
                                 /\ status'[x] = status[x] /\ pos'[x] = pos[x],
         NEW e \in Exps, StampedAt(e),
         e = cur =>
             /\ pc \notin {"kRow", "tRow", "tEnd"} /\ pos'[e] = pos[e]
             /\ st'[e] = "running" => st[e] = "running"
             /\ st'[e] = "local" => st[e] = "local" \/ pc = "rRow"
             /\ status'[e] = "running" => status[e] = "running" \/ pc' = "kRow"
             /\ status[e] \in Terminal => status'[e] \in Terminal \/ pc = "kMark"
             /\ pc = "tFail" => status'[e] \in Terminal \/ latched[e]
             /\ pc = "tClose" => status'[e] = status[e] /\ (pc' = "tFail" \/ (pc' = "pick" /\ latched[e]))
             /\ pc = "rRow" => status'[e] = status[e] /\ pc' = "pick"
             /\ pc' \in {"pick", "kRow", "tFail", "tPark"}
  PROVE  StampedAt(e)'
<1>1. TypeOK /\ Placed /\ Control /\ RowsAtHand /\ cur \in Exps
  BY DEF OrchIndInv, OrchControl, OrchLedger, TypeOK
<1>2. ChannelKept(e)
  BY StillChannel
<1>3. CASE e # cur
  <2>1. rows'[e] = rows[e]
    BY <1>1, <1>3, RowsAfterFacts
  <2> QED
    BY <1>1, <1>2, <1>3, <2>1, OthersStamped
<1>4. ASSUME e = cur, \A p \in Positions : rows'[e][p] = rows[e][p] PROVE StampedAt(e)'
  <2>1. /\ pc \in (DbAwaits \cup IoAwaits) \ {"kRow", "tRow", "tEnd"} /\ pc \notin {"tTag", "kChem"}
        /\ pc' \in Labels \ {"kChem", "tRow", "tTag", "rRead"}
        /\ pc' \notin {"rDrift", "rRow", "rFail", "rDone", "tClose"}
    BY <1>4 DEF DbAwaits, IoAwaits, Labels
  <2> QED
    BY <1>1, <1>2, <1>4, <2>1, AtHandStamped
<1>5. CASE e = cur /\ rows' = rows
  BY <1>4, <1>5
<1>6. CASE e = cur /\ rows' = RowsAfter /\ pc = "tClose"
  <2>1. pos[e] \in Positions /\ st[e] = "failed"
    BY <1>1, <1>6 DEF Placed, Control
  <2>2. /\ \A p \in Positions : p # pos[e] => rows'[e][p] = rows[e][p]
        /\ rows'[e][pos[e]] = IF rows[e][pos[e]] # "none" THEN "completed" ELSE rows[e][pos[e]]
    BY <1>1, <1>6, <2>1, RowsAfterFacts
  <2> QED
    BY <1>1, <1>6, <2>1, <2>2, CloseStamped
<1>7. CASE e = cur /\ rows' = RowsAfter /\ pc = "rRow"
  <2>1. pos[e] \in Positions /\ rows[e][pos[e]] # "completed" /\ st[e] = "absent"
    BY <1>1, <1>7 DEF Placed, RowsAtHand, Control, ResumeAwaits
  <2>2. \A p \in Positions : p # pos[e] => rows'[e][p] = rows[e][p]
    BY <1>1, <1>7, <2>1, RowsAfterFacts
  <2>3. CASE rows[e][pos[e]] = "running"
    <3>1. \A p \in Positions : rows'[e][p] = rows[e][p]
      BY <1>1, <1>7, <2>1, <2>3, RowsAfterFacts
    <3> QED
      BY <1>4, <1>7, <3>1
  <2>4. CASE rows[e][pos[e]] # "running"
    <3>1. latched[e]
      BY <1>7, <2>4 DEF StampedAt
    <3>2. rows[e][pos[e]] = "none"
      BY <1>1, <2>1, <2>4 DEF TypeOK, RowStates
    <3>3. rows'[e][pos[e]] = "running"
      BY <1>1, <1>7, <2>1, <3>2, RowsAfterFacts
    <3> QED
      BY <1>7, <2>1, <2>2, <3>1, <3>3, ResumeRowStamped
  <2> QED
    BY <2>3, <2>4
<1>8. CASE e = cur /\ rows' = RowsAfter /\ pc \notin {"rRow", "tClose"}
  <2>1. rows' = rows
    BY <1>8 DEF RowsAfter
  <2> QED
    BY <1>5, <1>8, <2>1
<1> QED
  BY <1>3, <1>5, <1>6, <1>7, <1>8

\* The awaits of a resume.
LEMMA ResumeStamped ==
  ASSUME OrchIndInv, Stamped, Resume
  PROVE  Stamped'
<1>1. OrchControl /\ TypeOK /\ Control /\ cur \in Exps
  BY DEF OrchIndInv, OrchControl, TypeOK
<1> USE DEF ResumeAwaits, DbAwaits, IoAwaits, Labels
<1>2. CASE ResumeRead
  <2>1. PICK label \in {"rFail", "rDrift", "rRow"} :
            IoStep("rRead", label)
    BY <1>2 DEF ResumeRead
  <2>2. /\ pc = "rRead" /\ pc' = label /\ IoWrite
        /\ UNCHANGED <<cur, todo, sweep, status, rows, st, pos>> /\ cut' = cut \cup Exchanged
    BY <1>1, <1>2, <2>1, IoStepFacts DEF ResumeRead, objects
  <2> QED
    BY <2>1, <2>2, IoStamped DEF Stamped
<1>3. CASE ResumeDrift
  <2>1. /\ pc = "rDrift" /\ pc' = "rRow" /\ IoWrite
        /\ UNCHANGED <<cur, todo, sweep, status, rows, st, pos>> /\ cut' = cut \cup Exchanged
    BY <1>1, <1>3, IoStepFacts DEF ResumeDrift, objects
  <2> QED
    BY <2>1, IoStamped DEF Stamped
<1>4. CASE ResumeRow
  <2>1. /\ pc = "rRow" /\ pc' = "pick" /\ UNCHANGED <<cur, todo, sweep, cut, pos>>
        /\ UNCHANGED <<drive, latched, modeReg, shown, tag, chem>>
        /\ rows' = RowsAfter /\ status' = StatusAfter /\ st' = [st EXCEPT ![cur] = "local"]
    BY <1>1, <1>4, DbStepFacts DEF ResumeRow
  <2>2. status' = status
    BY <2>1 DEF StatusAfter
  <2>3. st'[cur] = "local" /\ \A x \in Exps \ {cur} : st'[x] = st[x]
    BY <1>1, <2>1 DEF TypeOK
  <2> QED
    BY <2>1, <2>2, <2>3, DbStamped DEF Stamped
<1>5. CASE ResumeFail \/ ResumeDone
  <2>1. PICK at \in {"rFail", "rDone"} : DbStep(at, "pick") /\ UNCHANGED objects
    BY <1>5 DEF ResumeFail, ResumeDone
  <2>2. /\ pc = at /\ pc' = "pick" /\ UNCHANGED <<cur, todo, sweep, cut, st, pos>>
        /\ UNCHANGED <<drive, latched, modeReg, shown, tag, chem>>
        /\ rows' = RowsAfter /\ status' = StatusAfter
    BY <1>1, <2>1, DbStepFacts DEF objects
  <2>3. status'[cur] \in Terminal /\ \A x \in Exps \ {cur} : status'[x] = status[x]
    BY <1>1, <2>2, StatusAfterFacts DEF Terminal
  <2> QED
    BY <2>2, <2>3, DbStamped DEF Stamped, Terminal
<1> QED
  BY <1>2, <1>3, <1>4, <1>5 DEF Resume

\* The awaits of a kickoff.
LEMMA KickoffStamped ==
  ASSUME OrchIndInv, Stamped, Kickoff
  PROVE  Stamped'
<1>1. OrchControl /\ TypeOK /\ Control /\ Placed /\ cur \in Exps
  BY DEF OrchIndInv, OrchControl, TypeOK
<1> USE DEF ResumeAwaits, KickoffAwaits, DbAwaits, IoAwaits, Labels
<1>2. CASE KickoffChem \/ KickoffTag \/ KickoffSend
  <2>1. PICK at \in {"kChem", "kTag", "kSend"}, label \in {"kTag", "kFail", "kSend", "pick"} :
            IoStep(at, label)
    BY <1>2 DEF KickoffChem, KickoffTag, KickoffSend
  <2>2. /\ pc = at /\ pc' = label /\ IoWrite
        /\ UNCHANGED <<cur, todo, sweep, status, rows, pos>> /\ cut' = cut \cup Exchanged
    BY <1>1, <1>2, <2>1, IoStepFacts DEF KickoffChem, KickoffTag, KickoffSend, objects
  <2>3. /\ st'[cur] = "running" => st[cur] = "running" \/ pc = "kSend"
        /\ st'[cur] \in {st[cur], "running"}
        /\ \A x \in Exps \ {cur} : st'[x] = st[x]
    BY <1>1, <1>2, <2>2 DEF KickoffChem, KickoffTag, KickoffSend, objects, TypeOK, IoStep
  <2> QED
    BY <2>2, <2>3, IoStamped DEF Stamped
<1>3. CASE KickoffRow
  <2>1. /\ pc = "kRow" /\ pc' = "kChem" /\ UNCHANGED <<cur, todo, sweep, cut, st, pos>>
        /\ UNCHANGED <<drive, latched, modeReg, shown, tag, chem>>
        /\ rows' = RowsAfter /\ status' = StatusAfter
    BY <1>1, <1>3, DbStepFacts DEF KickoffRow, objects
  <2>2. status' = status
    BY <2>1 DEF StatusAfter
  <2>3. ASSUME NEW e \in Exps \ cut, e = cur PROVE StampedAt(e)'
    <3>1. pos[e] = 0 /\ 0 \in Positions /\ rows[e][0] = "none"
      BY <1>1, <2>1, <2>3, TotalFacts DEF Placed, OrchIndInv, OrchLedger, Claimed, Unclaimed
    <3>2. rows'[e][0] = "running" /\ \A p \in Positions : p # 0 => rows'[e][p] = rows[e][p]
      BY <1>1, <2>1, <2>3, <3>1, RowsAfterFacts
    <3> QED
      BY <2>1, <2>3, <3>2, KickoffRowStamped DEF Stamped
  <2> QED
    BY <2>1, <2>2, <2>3, DbStamped DEF Stamped
<1>4. CASE KickoffBad \/ KickoffMark \/ KickoffFail
  <2>1. PICK at \in {"kBad", "kMark", "kFail"}, label \in {"pick", "kRow"} :
            /\ DbStep(at, label) /\ pos' = pos
            /\ at = "kMark" <=> label = "kRow"
            /\ st' = st \/ st' = [st EXCEPT ![cur] = "failed"]
    BY <1>4 DEF KickoffBad, KickoffMark, KickoffFail, objects
  <2>2. /\ pc = at /\ pc' = label /\ UNCHANGED <<cur, todo, sweep, cut, pos>>
        /\ UNCHANGED <<drive, latched, modeReg, shown, tag, chem>>
        /\ rows' = RowsAfter /\ status' = StatusAfter
    BY <1>1, <2>1, DbStepFacts
  <2>4. st'[cur] \in {st[cur], "failed"} /\ \A x \in Exps \ {cur} : st'[x] = st[x]
    BY <1>1, <2>1 DEF TypeOK
  <2>3. /\ status'[cur] = "running" => pc' = "kRow"
        /\ status'[cur] \in Terminal \/ pc = "kMark"
        /\ \A x \in Exps \ {cur} : status'[x] = status[x]
    BY <1>1, <2>1, <2>2, StatusAfterFacts DEF Terminal
  <2> QED
    BY <2>2, <2>3, <2>4, DbStamped DEF Stamped, Terminal
<1> QED
  BY <1>2, <1>3, <1>4 DEF Kickoff

\* The awaits of a tick.
LEMMA TickStamped ==
  ASSUME OrchIndInv, Stamped, TickStep
  PROVE  Stamped'
<1>1. OrchControl /\ TypeOK /\ Control /\ Placed /\ cur \in Exps
  BY DEF OrchIndInv, OrchControl, TypeOK
<1> USE DEF ResumeAwaits, TickAwaits, DbAwaits, IoAwaits, Labels
<1>2. CASE TickRead
  <2>1. PICK label \in {"tClose", "tEnd", "tSend"} :
            IoStep("tRead", label)
    BY <1>2 DEF TickRead, EndConditionMet
  <2>2. /\ pc = "tRead" /\ pc' = label /\ IoWrite
        /\ UNCHANGED <<cur, todo, sweep, status, rows, pos>> /\ cut' = cut \cup Exchanged
        /\ st' = (IF LastError(cur) THEN [st EXCEPT ![cur] = "failed"] ELSE st)
    BY <1>1, <1>2, <2>1, IoStepFacts DEF TickRead
  <2>3. st'[cur] \in {st[cur], "failed"} /\ \A x \in Exps \ {cur} : st'[x] = st[x]
    BY <1>1, <2>2 DEF TypeOK
  <2> QED
    BY <2>1, <2>2, <2>3, IoStamped DEF Stamped
<1>3. CASE TickPark \/ TickTag \/ TickSend
  <2>1. PICK at \in {"tPark", "tTag", "tSend"}, label \in {"tSend", "pick"} :
            IoStep(at, label) /\ UNCHANGED objects
    BY <1>3 DEF TickPark, TickTag, TickSend
  <2>2. /\ pc = at /\ pc' = label /\ IoWrite
        /\ UNCHANGED <<cur, todo, sweep, status, rows, st, pos>> /\ cut' = cut \cup Exchanged
    BY <1>1, <2>1, IoStepFacts DEF objects
  <2> QED
    BY <2>2, IoStamped DEF Stamped
<1>4. CASE TickClose \/ TickFail \/ TickDone
  <2>1. PICK at \in {"tClose", "tFail", "tDone"}, label \in {"tFail", "pick", "tPark"} :
            DbStep(at, label) /\ UNCHANGED objects /\ (at = "tClose" => label = "tFail")
    BY <1>4 DEF TickClose, TickFail, TickDone
  <2>2. /\ pc = at /\ pc' = label /\ UNCHANGED <<cur, todo, sweep, cut, st, pos>>
        /\ UNCHANGED <<drive, latched, modeReg, shown, tag, chem>>
        /\ rows' = RowsAfter /\ status' = StatusAfter
    BY <1>1, <2>1, DbStepFacts DEF objects
  <2>3. /\ IF pc = "tClose" THEN status'[cur] = status[cur] ELSE status'[cur] \in Terminal
        /\ \A x \in Exps \ {cur} : status'[x] = status[x]
    BY <1>1, <2>2, StatusAfterFacts DEF Terminal
  <2> QED
    BY <2>1, <2>2, <2>3, DbStamped DEF Stamped, Terminal
<1>5. CASE TickRow
  <2>1. /\ pc = "tRow" /\ UNCHANGED <<cur, todo, sweep, cut, st, pos>>
        /\ pc' = (IF StepOf(pos[cur]) = 0 THEN "tTag" ELSE "tSend")
        /\ UNCHANGED <<drive, latched, modeReg, shown, tag, chem>>
        /\ rows' = RowsAfter /\ status' = StatusAfter
    BY <1>1, <1>5, DbStepFacts DEF TickRow, objects
  <2>2. status' = status
    BY <2>1 DEF StatusAfter
  <2>3. ASSUME NEW e \in Exps \ cut, e = cur PROVE StampedAt(e)'
    <3>1. pos[e] \in Positions /\ rows[e][pos[e]] = "none"
      BY <1>1, <2>1, <2>3 DEF Placed, Control, OrchIndInv, OrchLedger, RowsAtHand
    <3>2. rows'[e][pos[e]] = "running" /\ \A p \in Positions : p # pos[e] => rows'[e][p] = rows[e][p]
      BY <1>1, <2>1, <2>3, <3>1, RowsAfterFacts
    <3> QED
      BY <2>1, <2>3, <3>2, TickRowStamped DEF Stamped
  <2> QED
    BY <2>1, <2>2, <2>3, DbStamped DEF Stamped
<1>6. CASE TickEnd
  <2>1. PICK n : n = pos[cur] + 1
    OBVIOUS
  <2>2. AdvanceTo(n, StepOf(n) = 0, n = Total)
    BY <1>6, <2>1 DEF TickEnd
  <2>3. DbStep("tEnd", IF n = Total THEN "tDone" ELSE "tRow")
    BY <2>2 DEF AdvanceTo
  <2>4. /\ pc = "tEnd" /\ UNCHANGED <<cur, todo, sweep, cut>>
        /\ pc' = (IF n = Total THEN "tDone" ELSE "tRow")
        /\ UNCHANGED <<drive, latched, modeReg, shown, tag, chem>>
        /\ rows' = RowsAfter /\ status' = StatusAfter
    BY <1>1, <2>3, DbStepFacts
  <2>5. status' = status
    BY <2>4 DEF StatusAfter
  <2>6. /\ pos'[cur] = n /\ st'[cur] = (IF n = Total THEN "completed" ELSE st[cur])
        /\ \A x \in Exps \ {cur} : pos'[x] = pos[x] /\ st'[x] = st[x]
    BY <1>1, <2>2 DEF AdvanceTo, TypeOK
  <2>7. ASSUME NEW e \in Exps \ cut, e = cur PROVE StampedAt(e)'
    <3>1. pos[e] \in Positions
      BY <1>1, <2>4, <2>7 DEF Placed, Control
    <3>2. /\ \A p \in Positions : p # pos[e] => rows'[e][p] = rows[e][p]
          /\ rows'[e][pos[e]] = IF rows[e][pos[e]] # "none" THEN "completed" ELSE rows[e][pos[e]]
      BY <1>1, <2>4, <2>7, <3>1, RowsAfterFacts
    <3> QED
      BY <2>1, <2>4, <2>6, <2>7, <3>2, EndStamped DEF Stamped
  <2> QED
    BY <2>4, <2>5, <2>6, <2>7, DbStamped DEF Stamped
<1> QED
  BY <1>2, <1>3, <1>4, <1>5, <1>6 DEF TickStep

\* A failed request or statement: whoever was at hand before the stamp is cut.
LEMMA FaultStamped ==
  ASSUME OrchIndInv, Stamped, IoError \/ DbError
  PROVE  Stamped'
<1>1. OrchControl /\ TypeOK /\ Control /\ cur \in Exps
  BY DEF OrchIndInv, OrchControl, TypeOK
<1>2. /\ pc' \in {"pick", "rFail"} /\ UNCHANGED <<cur, sweep, pos>> /\ todo' \subseteq todo
      /\ pc' = "rFail" => pc = "rDrift"
      /\ \A x \in Exps : st'[x] = st[x] \/ st'[x] = "absent"
  BY <1>1 DEF IoError, DbError, Goto, AbandonSweep, objects, TypeOK
<1>3. Exps \ cut' \subseteq Exps \ cut /\ (Unstamped => cur \in cut')
  BY DEF IoError, DbError, Cut
<1> USE DEF ResumeAwaits, DbAwaits, IoAwaits, Labels
<1>4. CASE IoError
  <2>1. pc \in IoAwaits /\ UNCHANGED <<status, rows>>
    BY <1>4 DEF IoError, db
  <2>2. ASSUME NEW e \in Exps \ cut' PROVE StampedAt(e)'
    <3>1. StampedAt(e) /\ ~(e = cur /\ pc \in {"kChem", "tTag"})
      BY <1>3, <2>2 DEF Unstamped, Stamped
    <3>2. (IoWrite /\ e \notin Exchanged) \/ UNCHANGED channels
      BY <1>4, <2>2 DEF IoError
    <3>3. /\ st'[cur] = "running" => st[cur] = "running"
          /\ st'[cur] = "local" => st[cur] = "local"
      BY <1>1, <1>2
    <3> QED
      BY <1>2, <2>1, <3>1, <3>2, <3>3, IoStamped
  <2> QED
    BY <2>2 DEF Stamped
<1>5. CASE DbError
  <2>1. /\ pc \in DbAwaits /\ UNCHANGED <<drive, latched, tag, chem>>
        /\ rows' \in {rows, RowsAfter} /\ status' \in {status, StatusAfter} /\ pc' = "pick"
    BY <1>5, <1>2 DEF DbError, DbWrite, db, channels
  <2>2. \A x \in Exps \ {cur} : status'[x] = status[x]
    BY <1>1, <2>1, StatusAfterFacts
  <2>3. ASSUME NEW e \in Exps \ cut' PROVE StampedAt(e)'
    <3>1. StampedAt(e) /\ ~(e = cur /\ Unstamped)
      BY <1>3, <2>3 DEF Stamped
    <3>2. e = cur => /\ status'[e] = "running" => status[e] = "running"
                     /\ status[e] \in Terminal => status'[e] \in Terminal
                     /\ pc \in {"tClose", "rRow"} => status'[e] = status[e]
      BY <1>1, <2>1, <3>1, StatusAfterFacts DEF Unstamped, Terminal
    <3>3. e = cur => pc \notin {"kRow", "tRow", "tEnd"} /\ (pc \in {"tClose", "tFail"} => latched[e])
      BY <3>1 DEF Unstamped
    <3>4. e = cur => /\ st'[e] = "running" => st[e] = "running"
                     /\ st'[e] = "local" => st[e] = "local"
      BY <1>2
    <3> QED
      BY <1>2, <2>1, <2>2, <3>1, <3>2, <3>3, <3>4, DbStamped
  <2> QED
    BY <2>3 DEF Stamped
<1> QED
  BY <1>4, <1>5

\* A step that leaves the tables alone, at no await: the position of an object
\* that stays does not change, and a resume takes up what has rows.
LEMMA SweepStamped ==
  ASSUME OrchIndInv, Stamped,
         Boot \/ Poll \/ EndSweep \/ (\E e \in Exps : Pick(e) \/ Refuse(e)) \/ Crash
  PROVE  Stamped'
<1>1. TypeOK /\ Control /\ Placed /\ Claimed
  BY DEF OrchIndInv, OrchControl, OrchLedger
<1>2. /\ UNCHANGED <<drive, latched, tag, chem, rows, status>>
      /\ Exps \ cut' \subseteq Exps \ cut
      /\ Unstamped => cur \in cut'
  <2>1. ~Crash => pc \in {"down", "poll", "pick"}
    BY DEF Boot, Poll, EndSweep, Pick, Refuse
  <2> QED
    BY <2>1 DEF Boot, Poll, EndSweep, Pick, Refuse, Crash, Cut, db, channels, ghosts, Unstamped
<1> SUFFICES ASSUME NEW e \in Exps \ cut' PROVE StampedAt(e)'
  BY DEF Stamped
<1>3. /\ StampedAt(e) /\ ~(cur = e /\ pc \in {"kRow", "kChem", "tRow", "tTag"})
      /\ cur = e /\ pc = "tFail" => latched[e]
  BY <1>2 DEF Stamped, Unstamped
<1>4. ChannelKept(e) /\ \A p, q \in Positions : Latest(e, p) /\ Latest(e, q) => p = q
  BY <1>1, <1>2, <1>3, StillChannel, LatestFacts
<1>5. st[e] = "running" => pos[e] \in Positions /\ rows[e][pos[e]] = "running"
  BY <1>1, <1>3 DEF StampedAt, Placed, Inserted
<1>6. status[e] = "running" => Started(e)
  BY <1>3 DEF StampedAt
<1>7. /\ pc' \notin {"kRow", "kChem", "tRow", "tTag", "rDrift", "rRow"}
      /\ sweep' = "resume" /\ e \in todo' => Started(e)
      /\ cur' = e /\ pc' \in ResumeAwaits => Started(e)
      /\ cur' = e /\ pc' = "rRead" => pos'[e] = ResumePosition(e)
      /\ st'[e] = "running" => pos'[e] \in Positions /\ rows[e][pos'[e]] = "running"
      /\ Settled(e) => Settled(e)'
  <2>1. CASE Boot
    <3>1. st[e] = "absent"
      BY <1>1, <2>1 DEF Boot, Control
    <3>2. Settled(e) => Settled(e)'
      BY <1>2, <2>1, <3>1 DEF Boot, Inflight, objects, ResumeAwaits, Settled, Terminal
    <3> QED
      BY <1>6, <2>1, <3>1, <3>2 DEF Boot, Inflight, objects, ResumeAwaits
  <2>2. CASE Poll
    <3>1. pc' = "pick" /\ sweep' = "kickoff" /\ pos' = pos /\ st'[e] \in {st[e], "absent"}
      BY <2>2 DEF Poll
    <3>2. Settled(e) => Settled(e)'
      BY <1>2, <3>1 DEF ResumeAwaits, Settled
    <3> QED
      BY <1>5, <3>1, <3>2 DEF ResumeAwaits
  <2>3. CASE EndSweep
    <3>1. /\ pc' \in {"pick", "poll"} /\ pos' = pos /\ (sweep' = "tick" \/ todo' = {})
          /\ st'[e] = IF st[e] = "local" THEN "running" ELSE st[e]
      BY <2>3 DEF EndSweep
    <3>2. st[e] = "local" => pos[e] \in Positions /\ rows[e][pos[e]] = "running"
      BY <1>1 DEF Placed, OrchIndInv, OrchLedger, RowsAtHand
    <3>3. Settled(e) => Settled(e)'
      BY <1>2, <3>1 DEF ResumeAwaits, Settled
    <3> QED
      BY <1>5, <3>1, <3>2, <3>3 DEF ResumeAwaits
  <2>4. CASE \E x \in Exps : Pick(x)
    <3>1. PICK x \in Exps : Pick(x)
      BY <2>4
    <3>2. x \in todo /\ cur' = x /\ todo' = todo \ {x} /\ UNCHANGED <<sweep, st>>
      BY <3>1 DEF Pick
    <3>3. CASE sweep = "tick"
      <4>1. pc' = "tRead" /\ pos'[e] = pos[e]
        BY <1>1, <3>1, <3>3 DEF Pick, TypeOK
      <4>2. Settled(e) => Settled(e)'
        BY <1>2, <3>2, <3>3, <4>1 DEF Settled, ResumeAwaits
      <4> QED
        BY <1>5, <3>2, <3>3, <4>1, <4>2 DEF ResumeAwaits
    <3>4. CASE sweep = "kickoff"
      <4>1. pc' \in {"kMark", "kBad"} /\ (x # e => pos'[e] = pos[e])
        BY <1>1, <3>1, <3>4 DEF Pick, TypeOK
      <4>2. st[x] = "absent"
        BY <1>1, <3>2, <3>4 DEF Control
      <4>3. Settled(e) => Settled(e)'
        BY <1>2, <3>2, <3>4, <4>1 DEF Settled, ResumeAwaits
      <4> QED
        BY <1>5, <3>2, <3>4, <4>1, <4>2, <4>3 DEF ResumeAwaits
    <3>5. CASE sweep = "resume"
      <4>1. /\ pc' \in {"rFail", "rDone", "rRead"}
            /\ pos'[e] = IF x = e THEN ResumePosition(e) ELSE pos[e]
        BY <1>1, <3>1, <3>5 DEF Pick, TypeOK
      <4>2. st[x] = "absent"
        BY <1>1, <3>2, <3>5 DEF Control
      <4>3. e \in todo => Started(e)
        BY <1>3, <3>5 DEF StampedAt
      <4>4. Settled(e) => Settled(e)'
        BY <1>2, <3>2, <3>5 DEF Settled
      <4> QED
        BY <1>5, <3>2, <3>5, <4>1, <4>2, <4>3, <4>4 DEF ResumeAwaits
    <3> QED
      BY <1>1, <3>3, <3>4, <3>5 DEF TypeOK
  <2>5. CASE \E x \in Exps : Refuse(x)
    <3>1. /\ pc = "pick" /\ pc' = "pick" /\ todo' = {} /\ pos' = pos
          /\ st'[e] = IF st[e] = "local" THEN "absent" ELSE st[e]
      BY <2>5 DEF Refuse, AbandonSweep
    <3>2. Settled(e) => Settled(e)'
      BY <1>2, <3>1 DEF ResumeAwaits, Settled
    <3> QED
      BY <1>5, <3>1, <3>2 DEF ResumeAwaits
  <2>6. CASE Crash
    <3>1. pc' = "down" /\ todo' = {} /\ st'[e] = "absent"
      BY <2>6 DEF Crash
    <3>2. Settled(e) => Settled(e)'
      BY <1>2, <3>1 DEF ResumeAwaits, Settled
    <3> QED
      BY <3>1, <3>2 DEF ResumeAwaits
  <2> QED
    BY <2>1, <2>2, <2>3, <2>4, <2>5, <2>6
<1>8. cur' = e /\ pc' = "rRead" => \A p \in Positions :
          Latest(e, p) => pos'[e] = IF rows[e][p] = "running" THEN p ELSE p + 1
  BY <1>1, <1>7, LatestFacts
<1>9. \A p \in Positions : p \in Nat /\ rows'[e][p] = rows[e][p]
  BY <1>2, PositionsFinite
<1>10. Fresh(e) => \A p \in Positions : Latest(e, p) => rows[e][p] = "running" /\ Clamped(CycleOf(p)) = 0
  BY FreshRows
<1>11. Ended(e) => Ended(e)' \/ latched'[e]
  BY <1>2, <1>3, <1>7 DEF Ended
<1> QED
  BY <1>2, <1>3, <1>4, <1>6, <1>7, <1>8, <1>9, <1>10, <1>11, StampQuiet

\* What happens without the executor: a latch, the mirror, a stop, a schedule
\* overwritten, a restart of the cycler, which only the fresh outlive.
LEMMA EnvironmentStamped ==
  ASSUME OrchIndInv, Stamped,
         Environment \/ SoakStop \/ CyclerRestart \/ (\E x \in Exps : Rewrite(x)) \/ UNCHANGED vars
  PROVE  Stamped'
<1>1. TypeOK /\ Placed
  BY DEF OrchIndInv, OrchControl
<1>2. UNCHANGED <<pc, cur, todo, sweep, st, pos, rows>> /\ Exps \ cut' \subseteq Exps \ cut
  BY DEF Environment, Latch, Mirror, SoakStop, CyclerRestart, Rewrite, vars, db, task, objects,
         channels, faults, ghosts
<1> SUFFICES ASSUME NEW e \in Exps \ cut' PROVE StampedAt(e)'
  BY DEF Stamped
<1>3. StampedAt(e)
  BY <1>2 DEF Stamped
<1>4. /\ ChannelKept(e) /\ tag'[e] = tag[e]
      /\ status'[e] = status[e] \/ status'[e] = "completed"
  <2>1. CASE \E x \in Exps : Latch(x)
    <3>1. PICK x \in Exps : Latch(x)
      BY <2>1
    <3>2. /\ UNCHANGED <<status, tag, chem>>
          /\ latched' = [latched EXCEPT ![x] = TRUE] /\ drive' = [drive EXCEPT ![x] = NoStep]
      BY <3>1 DEF Latch, db
    <3>3. /\ latched'[e] = (IF e = x THEN TRUE ELSE latched[e])
          /\ drive'[e] = IF e = x THEN NoStep ELSE drive[e]
      BY <1>1, <3>2 DEF TypeOK
    <3> QED
      BY <1>3, <3>2, <3>3 DEF StampedAt, ChannelKept
  <2>2. CASE Mirror
    <3>1. UNCHANGED <<drive, latched, tag, chem, status>>
      BY <2>2 DEF Mirror, db
    <3> QED
      BY <1>3, <3>1, StillChannel
  <2>3. CASE SoakStop
    <3>1. UNCHANGED <<drive, latched, tag, chem>>
      BY <2>3 DEF SoakStop, channels
    <3>2. status'[e] = status[e] \/ status'[e] = "completed"
      BY <2>3 DEF SoakStop
    <3> QED
      BY <1>3, <3>1, <3>2, StillChannel
  <2>4. CASE CyclerRestart
    <3>1. /\ UNCHANGED status /\ Fresh(e)
          /\ drive'[e] = NoStep /\ ~latched'[e] /\ tag'[e] = 0
      BY <2>4 DEF CyclerRestart, db
    <3> QED
      BY <1>3, <3>1 DEF StampedAt, ChannelKept
  <2>5. CASE (\E x \in Exps : Rewrite(x)) \/ UNCHANGED vars
    <3>1. UNCHANGED <<drive, latched, tag, chem, status>>
      BY <2>5 DEF Rewrite, vars, channels, db
    <3> QED
      BY <1>3, <3>1, StillChannel
  <2> QED
    BY <2>1, <2>2, <2>3, <2>4, <2>5 DEF Environment
<1>5. /\ \A p, q \in Positions : Latest(e, p) /\ Latest(e, q) => p = q
      /\ \A p \in Positions : p \in Nat /\ rows'[e][p] = rows[e][p]
  BY <1>1, <1>2, LatestFacts, PositionsFinite
<1>6. Inserted(e)' <=> Inserted(e)
  BY <1>2 DEF Inserted
<1>7. /\ st'[e] = "running" /\ Inserted(e)' => pos'[e] \in Positions /\ rows[e][pos'[e]] = "running"
      /\ cur' = e /\ pc' \in {"rDrift", "rRow"} =>
            (pos'[e] \in Positions /\ rows[e][pos'[e]] = "running") \/ latched'[e]
  <2>1. cur = e /\ pc \in {"rDrift", "rRow"} => pos[e] \in Positions /\ ~Fresh(e)
    BY <1>1, <1>3 DEF Placed, StampedAt, ResumeAwaits, Fresh
  <2> QED
    BY <1>1, <1>2, <1>3, <1>4, <1>6, <2>1 DEF StampedAt, Placed, ChannelKept
<1>8. /\ sweep' = "resume" /\ e \in todo' => Started(e)
      /\ cur' = e /\ pc' \in ResumeAwaits \cup {"tRow"} => Started(e)
      /\ cur' = e /\ pc' = "rRead" => \A p \in Positions :
             Latest(e, p) => pos'[e] = IF rows[e][p] = "running" THEN p ELSE p + 1
      /\ cur' = e /\ pc' = "kChem" => Fresh(e)
  BY <1>2, <1>3 DEF StampedAt, Fresh
<1>9. Fresh(e) => \A p \in Positions : Latest(e, p) => rows[e][p] = "running" /\ Clamped(CycleOf(p)) = 0
  BY FreshRows
<1>10. Ended(e) => Ended(e)'
  BY <1>2, <1>4 DEF Ended, Settled, Terminal
<1>11. status'[e] = "running" => \/ status[e] = "running" /\ ~(cur = e /\ pc = "kRow")
                                 \/ cur' = e /\ pc' = "kRow"
  BY <1>2, <1>4
<1> QED
  BY <1>2, <1>3, <1>4, <1>5, <1>7, <1>8, <1>9, <1>10, <1>11, StampQuiet

\* Nothing is stamped at the start.
LEMMA StampedInit == Init => Stamped
<1> SUFFICES ASSUME Init, NEW e \in Exps PROVE StampedAt(e)
  BY DEF Stamped
<1>1. /\ \A p \in Positions : rows[e][p] = "none"
      /\ drive[e] = NoStep /\ ~latched[e] /\ tag[e] = 0 /\ status[e] = "pending"
      /\ pc = "down" /\ todo = {} /\ st[e] = "absent"
  BY DEF Init
<1>2. ~Started(e) /\ Fresh(e) /\ \A p \in Positions : ~Latest(e, p)
  BY <1>1 DEF Started, Fresh, Latest
<1> QED
  BY <1>1, <1>2 DEF StampedAt, ResumeAwaits

\* Every step keeps Stamped.
LEMMA StampedNext ==
  ASSUME OrchIndInv, Stamped, [Next]_vars
  PROVE  Stamped'
BY SweepStamped, ResumeStamped, KickoffStamped, TickStamped, FaultStamped, EnvironmentStamped
   DEF Next, Executor

\* Whatever latches, crashes, errors, restarts and swaps of the cells happen, a
\* channel that has not lost its stamp to one of them has the cells of its
\* experiment and the tag of its latest row, or has latched and drives nothing
\* (kickoff, _advance, _resume_inflight).
THEOREM StampedInvariance == Spec => [](OrchIndInv /\ Stamped)
<1>1. Init => OrchIndInv /\ Stamped
  BY ControlInit, LedgerInit, StampedInit DEF OrchIndInv, AtEnd, Init
<1>2. OrchIndInv /\ Stamped /\ [Next]_vars => (OrchIndInv /\ Stamped)'
  BY OrchNext, StampedNext
<1> QED
  BY <1>1, <1>2, PTL DEF Spec

\* Between sweeps a channel that drives the step of its object carries the cycle
\* of that step, clamped to the register, and has cells of its chemistry
\* (kickoff, _advance, _resume_inflight): it has not latched, and the object
\* stands at the latest row, which is open.
THEOREM RunsAsScheduledAlways == Spec => []RunsAsScheduled
<1>1. ASSUME OrchIndInv, Stamped PROVE RunsAsScheduled
  <2> SUFFICES ASSUME NEW e \in Exps \ cut, st[e] = "running", pc = "poll",
                      drive[e] = StepOf(pos[e])
               PROVE  tag[e] = Clamped(CycleOf(pos[e])) /\ chem = ChemOf[e]
    BY DEF RunsAsScheduled
  <2>1. StampedAt(e) /\ Placed /\ NoRowsAhead
    BY <1>1 DEF Stamped, OrchIndInv, OrchControl, OrchLedger
  <2>2. pos[e] \in Positions /\ rows[e][pos[e]] = "running"
    BY <2>1 DEF Placed, StampedAt, Inserted
  <2>3. Latest(e, pos[e])
    BY <2>1, <2>2 DEF NoRowsAhead, Live, Latest
  <2>4. ~Fresh(e)
    BY <2>2 DEF Fresh, Started
  <2>5. ~latched[e]
    <3>1. StepOf(pos[e]) \in 0..(NSteps - 1)
      BY <2>2, PositionsFinite, StepFacts
    <3>2. StepOf(pos[e]) # NoStep
      BY <3>1, ScheduleAssumption DEF NoStep
    <3> QED
      BY <2>1, <3>2 DEF StampedAt
  <2> QED
    BY <2>1, <2>2, <2>3, <2>4, <2>5 DEF StampedAt
<1> QED
  BY <1>1, StampedInvariance, PTL
=============================================================================
