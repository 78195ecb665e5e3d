---------------------------- MODULE ChassisProofs ----------------------------
(***************************************************************************)
(* The safety properties of Chassis, for every number of channels, every   *)
(* threshold, period and lag, and every client.                            *)
(***************************************************************************)
EXTENDS Chassis, TLAPS

\* The booting chassis satisfies the inductive invariant.
LEMMA InitInd == Init => IndInv
<1> SUFFICES ASSUME Init PROVE IndInv
  OBVIOUS
<1> USE DEF Init
<1>1. ChannelTypes
  <2>1. mode \in [Channels -> Modes] /\ latched \in [Channels -> Errors]
    BY DEF InitChannels, Modes, Errors, LimitErrors
  <2>2. /\ setpoint \in [Channels -> Setpoints]
        /\ tmax \in [Channels -> TLevels]
        /\ cycleIndex \in [Channels -> CycleTags]
    BY SetpointAssumption, LevelsAssumption, CycleAssumption DEF InitChannels
  <2>3. /\ vmax \in [Channels -> VLevels]
        /\ volt \in [Channels -> VLevels]
        /\ temp \in [Channels -> TLevels]
    BY ChemAssumption DEF InitChannels
  <2> QED
    BY <2>1, <2>2, <2>3 DEF ChannelTypes, InitChannels
<1>2. RegisterTypes
  <2>1. /\ regMode \in [Channels -> RegModes]
        /\ regError \in [Channels -> Errors]
    BY DEF InitRegisters, RegModes, Modes, Errors, LimitErrors
  <2>2. /\ regSetpoint \in [Channels -> Setpoints]
        /\ regVMax \in [Channels -> VLevels]
        /\ regTMax \in [Channels -> TLevels]
        /\ regCycle \in [Channels -> CycleTags]
    BY SetpointAssumption, LevelsAssumption, CycleAssumption, ChemAssumption
       DEF InitRegisters
  <2> QED
    BY <2>1, <2>2 DEF RegisterTypes, InitRegisters
<1>3. TimeTypes
  BY TimeAssumption DEF InitChannels, TimeTypes
<1>4. LatchedIsIdle /\ RunawayLatched
  BY DEF InitChannels, LatchedIsIdle, RunawayLatched
<1>5. KickSlack /\ OrphanSlack /\ BreachSlack
  BY TimeAssumption DEF InitChannels, KickSlack, OrphanSlack, BreachSlack
<1> QED
  BY <1>1, <1>2, <1>3, <1>4, <1>5 DEF IndInv, TypeOK

-----------------------------------------------------------------------------
(* Facts shared by the actions.                                            *)

\* The observers only restart or stay: no step but Tick makes them grow.
LEMMA ObserveBounds ==
  ASSUME TimeTypes, Observe
  PROVE  /\ breachFor' \in [Channels -> 0..AgeCap]
         /\ orphanFor' \in [Channels -> 0..AgeCap]
         /\ \A c \in Channels : breachFor'[c] <= breachFor[c]
         /\ \A c \in Channels : orphanFor'[c] <= orphanFor[c]
  BY TimeAssumption DEF TimeTypes, Observe

\* A step that moves no loop keeps both observer bounds.
LEMMA WaitsKept ==
  ASSUME TimeTypes, OrphanSlack, BreachSlack, Observe, UNCHANGED waits
  PROVE  OrphanSlack' /\ BreachSlack'
<1>1. /\ breachFor' \in [Channels -> 0..AgeCap]
      /\ orphanFor' \in [Channels -> 0..AgeCap]
      /\ \A c \in Channels : breachFor'[c] <= breachFor[c]
      /\ \A c \in Channels : orphanFor'[c] <= orphanFor[c]
  BY ObserveBounds
<1> QED
  BY <1>1, TimeAssumption DEF TimeTypes, OrphanSlack, BreachSlack, waits

\* Modes a register can hold decode to modes a channel can be in.
LEMMA DecodeType == ASSUME NEW m \in RegModes PROVE DecodeMode(m) \in Modes
  BY DEF DecodeMode, RegModes, Modes

-----------------------------------------------------------------------------
(* One lemma per action.                                                   *)

\* A write to a command register, whatever it holds, keeps the invariant:
\* apply_command activates only unlatched channels and kicks when it does.
LEMMA DispatchInd ==
  ASSUME IndInv, NEW c \in Channels, NEW m \in RegModes, NEW s \in Setpoints,
         NEW v \in VLevels, NEW t \in TLevels, Dispatch(c, m, s, v, t)
  PROVE  IndInv'
<1> DEFINE d == DecodeMode(m)
<1>0. d \in Modes
  BY DecodeType
<1> HIDE DEF d
<1>a. /\ ApplyCommand(c, d, s, v, t)
      /\ Observe
      /\ UNCHANGED <<latched, cycleIndex, cellVars, chassisVars, statusRegs,
                     regCycle, regChem, waits>>
  BY DEF Dispatch, d
<1>b. /\ regMode' = [regMode EXCEPT ![c] = m]
      /\ regSetpoint' = [regSetpoint EXCEPT ![c] = s]
      /\ regVMax' = [regVMax EXCEPT ![c] = v]
      /\ regTMax' = [regTMax EXCEPT ![c] = t]
  BY DEF Dispatch
<1>1. ChannelTypes'
  BY <1>0, <1>a DEF IndInv, TypeOK, ChannelTypes, ApplyCommand, cellVars,
                    chassisVars
<1>2. RegisterTypes'
  BY <1>a, <1>b DEF IndInv, TypeOK, RegisterTypes, statusRegs
<1>3. TimeTypes'
  <2>1. sinceKick' \in [Channels -> 0..AgeCap]
    BY <1>a, TimeAssumption DEF IndInv, TypeOK, TimeTypes, ApplyCommand
  <2>2. /\ sinceChassisKick' = sinceChassisKick
        /\ safetyWait' = safetyWait
        /\ watchdogWait' = watchdogWait
    BY <1>a DEF waits, chassisVars
  <2> QED
    BY <2>1, <2>2, <1>a, ObserveBounds DEF IndInv, TypeOK, TimeTypes
<1>4. LatchedIsIdle'
  BY <1>0, <1>a DEF IndInv, TypeOK, ChannelTypes, LatchedIsIdle, ApplyCommand
<1>5. RunawayLatched'
  BY <1>a DEF IndInv, RunawayLatched, cellVars
<1>6. KickSlack'
  <2>1. safetyWait' = safetyWait
    BY <1>a DEF waits
  <2>2. \A x \in Channels : safetyWait[x] <= SafetyPeriod
    BY TimeAssumption DEF IndInv, TypeOK, TimeTypes
  <2> QED
    BY <2>1, <2>2, <1>0, <1>a, TimeAssumption
       DEF IndInv, TypeOK, ChannelTypes, TimeTypes, KickSlack, ApplyCommand
<1>7. OrphanSlack' /\ BreachSlack'
  BY <1>a, WaitsKept DEF IndInv, TypeOK
<1> QED
  BY <1>1, <1>2, <1>3, <1>4, <1>5, <1>6, <1>7 DEF IndInv, TypeOK

\* The kicks and the cycle tag touch neither mode nor latch.
LEMMA KickInd ==
  ASSUME IndInv,
         \/ \E c \in Channels : KickChannel(c)
         \/ \E c \in Channels, n \in CycleTags : WriteCycle(c, n)
         \/ KickChassis
  PROVE  IndInv'
<1>a. /\ UNCHANGED <<mode, setpoint, vmax, tmax, latched, cellVars, tripped,
                     chem, commandRegs, statusRegs, regChem, waits>>
      /\ Observe
  BY DEF KickChannel, WriteCycle, KickChassis, channelVars, chassisVars,
         registers, commandRegs, statusRegs
<1>b. /\ cycleIndex' \in [Channels -> CycleTags]
      /\ regCycle' \in [Channels -> CycleTags]
  BY DEF IndInv, TypeOK, ChannelTypes, RegisterTypes, KickChannel, WriteCycle,
         KickChassis, registers
<1>c. /\ sinceKick' \in [Channels -> 0..AgeCap]
      /\ sinceChassisKick' \in 0..AgeCap
      /\ \A c \in Channels : sinceKick'[c] <= sinceKick[c]
  BY TimeAssumption DEF IndInv, TypeOK, TimeTypes, KickChannel, WriteCycle,
         KickChassis, channelVars, chassisVars
<1>1. ChannelTypes'
  BY <1>a, <1>b DEF IndInv, TypeOK, ChannelTypes, cellVars
<1>2. RegisterTypes'
  BY <1>a, <1>b DEF IndInv, TypeOK, RegisterTypes, commandRegs, statusRegs
<1>3. TimeTypes'
  BY <1>a, <1>c, ObserveBounds DEF IndInv, TypeOK, TimeTypes, waits
<1>4. LatchedIsIdle' /\ RunawayLatched'
  BY <1>a DEF IndInv, LatchedIsIdle, RunawayLatched, cellVars
<1>5. KickSlack'
  BY <1>a, <1>c, TimeAssumption DEF IndInv, TypeOK, TimeTypes, KickSlack, waits
<1>6. OrphanSlack' /\ BreachSlack'
  BY <1>a, WaitsKept DEF IndInv, TypeOK
<1> QED
  BY <1>1, <1>2, <1>3, <1>4, <1>5, <1>6 DEF IndInv, TypeOK

\* A change of chemistry clears latch, mode and cell together.
LEMMA ChemistryInd ==
  ASSUME IndInv, NEW k \in Chemistries \cup {UnknownChem}, WriteChemistry(k)
  PROVE  IndInv'
<1>a. /\ regChem' = k
      /\ UNCHANGED <<tmax, sinceKick, sinceChassisKick, tripped, commandRegs,
                     statusRegs, regCycle, waits>>
      /\ Observe
  BY DEF WriteChemistry
<1>b. \/ UNCHANGED <<mode, setpoint, latched, vmax, cycleIndex, chem, cellVars>>
      \/ /\ k \in Chemistries
         /\ chem' = k
         /\ mode' = [c \in Channels |-> "idle"]
         /\ setpoint' = [c \in Channels |-> ZeroSetpoint]
         /\ latched' = [c \in Channels |-> "NONE"]
         /\ vmax' = [c \in Channels |-> ChemVMax[k]]
         /\ cycleIndex' = [c \in Channels |-> 0]
         /\ cellError' = [c \in Channels |-> "NONE"]
         /\ volt' \in [Channels -> VLevels]
         /\ temp' \in [Channels -> TLevels]
  BY DEF WriteChemistry
<1>1. ChannelTypes'
  BY <1>a, <1>b, SetpointAssumption, ChemAssumption, CycleAssumption
     DEF IndInv, TypeOK, ChannelTypes, cellVars, Modes, Errors, LimitErrors
<1>2. RegisterTypes'
  BY <1>a DEF IndInv, TypeOK, RegisterTypes, commandRegs, statusRegs
<1>3. TimeTypes'
  BY <1>a, ObserveBounds DEF IndInv, TypeOK, TimeTypes, waits
<1>4. LatchedIsIdle' /\ RunawayLatched'
  BY <1>b DEF IndInv, LatchedIsIdle, RunawayLatched, cellVars
<1>5. KickSlack'
  BY <1>a, <1>b DEF IndInv, KickSlack, waits
<1>6. OrphanSlack' /\ BreachSlack'
  BY <1>a, WaitsKept DEF IndInv, TypeOK
<1> QED
  BY <1>1, <1>2, <1>3, <1>4, <1>5, <1>6 DEF IndInv, TypeOK

\* A pass of safety_loop leaves nothing to halt for: its own wait starts
\* again only when the dead-man and the limits are clear or the channel is
\* latched.
LEMMA SafetyLoopInd ==
  ASSUME IndInv, NEW c \in Channels, SafetyLoop(c)
  PROVE  IndInv'
<1> DEFINE e == SafetyVerdict(c)
<1>a. /\ safetyWait' = [safetyWait EXCEPT ![c] = SafetyPeriod]
      /\ UNCHANGED <<vmax, tmax, sinceKick, cycleIndex, cellVars, chassisVars,
                     registers, watchdogWait>>
      /\ Observe
  BY DEF SafetyLoop
<1>b. \/ e # "NONE" /\ Halt(c, e)
      \/ e = "NONE" /\ UNCHANGED <<latched, mode, setpoint>>
  BY DEF SafetyLoop
<1>c. e \in Errors
  BY DEF SafetyVerdict, IndInv, TypeOK, ChannelTypes, Errors, LimitErrors
<1>d. e = "NONE" => /\ ~ Breached(c)
                    /\ mode[c] # "idle" => sinceKick[c] <= Threshold
  BY TimeAssumption DEF SafetyVerdict, IndInv, TypeOK, ChannelTypes, TimeTypes,
     LatchedIsIdle, WatchdogExpired, Breached
<1> HIDE DEF e
<1>1. ChannelTypes'
  BY <1>a, <1>b, <1>c, SetpointAssumption
     DEF IndInv, TypeOK, ChannelTypes, Halt, cellVars, chassisVars, Modes
<1>2. RegisterTypes'
  BY <1>a DEF IndInv, TypeOK, RegisterTypes, registers
<1>3. TimeTypes'
  <2>1. safetyWait' \in [Channels -> -Lag..SafetyPeriod]
    BY <1>a, TimeAssumption DEF IndInv, TypeOK, TimeTypes
  <2> QED
    BY <1>a, <2>1, ObserveBounds DEF IndInv, TypeOK, TimeTypes, chassisVars
<1>4. LatchedIsIdle'
  BY <1>b DEF IndInv, TypeOK, ChannelTypes, LatchedIsIdle, Halt
<1>5. RunawayLatched'
  BY <1>a, <1>b DEF IndInv, TypeOK, ChannelTypes, RunawayLatched, Halt, cellVars
<1>6. KickSlack'
  BY <1>a, <1>b, <1>d, TimeAssumption
     DEF IndInv, TypeOK, ChannelTypes, TimeTypes, KickSlack, Halt
<1>7. OrphanSlack'
  BY <1>a, ObserveBounds, TimeAssumption DEF IndInv, TypeOK, TimeTypes,
     OrphanSlack
<1>8. ~ Breached(c)'
  BY <1>a, <1>b, <1>d DEF IndInv, TypeOK, ChannelTypes, Breached, Halt, cellVars
<1>9. BreachSlack'
  <2>1. breachFor'[c] = 0
    BY <1>8, <1>a DEF Observe
  <2> QED
    BY <2>1, <1>a, ObserveBounds, TimeAssumption
       DEF IndInv, TypeOK, TimeTypes, BreachSlack
<1> QED
  BY <1>1, <1>2, <1>3, <1>4, <1>5, <1>6, <1>7, <1>9 DEF IndInv, TypeOK

\* A pass of chassis_watchdog leaves no active channel behind a stale kick.
LEMMA ChassisWatchdogInd ==
  ASSUME IndInv, ChassisWatchdog
  PROVE  IndInv'
<1> DEFINE hit == {c \in Channels : ChassisExpired /\ mode[c] # "idle"
                                                   /\ latched[c] = "NONE"}
<1>a. /\ tripped' = ChassisExpired
      /\ watchdogWait' = WatchdogPeriod
      /\ UNCHANGED <<vmax, tmax, sinceKick, cycleIndex, cellVars,
                     sinceChassisKick, chem, registers, safetyWait>>
      /\ Observe
  BY DEF ChassisWatchdog, WatchdogPass
<1>b. /\ latched' = [c \in Channels |->
                        IF c \in hit THEN "WATCHDOG_TIMEOUT" ELSE latched[c]]
      /\ mode' = [c \in Channels |-> IF c \in hit THEN "idle" ELSE mode[c]]
      /\ setpoint' = [c \in Channels |->
                        IF c \in hit THEN ZeroSetpoint ELSE setpoint[c]]
  BY DEF ChassisWatchdog, WatchdogPass
<1>c. \A c \in Channels : c \notin hit /\ ChassisExpired => mode[c] = "idle"
  BY DEF IndInv, LatchedIsIdle
<1> HIDE DEF hit
<1>1. ChannelTypes'
  <2>1. tripped' \in BOOLEAN
    BY <1>a DEF ChassisExpired
  <2> QED
    BY <1>a, <1>b, <2>1, SetpointAssumption
       DEF IndInv, TypeOK, ChannelTypes, cellVars, Modes, Errors, LimitErrors
<1>2. RegisterTypes'
  BY <1>a DEF IndInv, TypeOK, RegisterTypes, registers
<1>3. TimeTypes'
  <2>1. watchdogWait' \in -Lag..WatchdogPeriod
    BY <1>a, TimeAssumption
  <2> QED
    BY <1>a, <2>1, ObserveBounds DEF IndInv, TypeOK, TimeTypes
<1>4. LatchedIsIdle' /\ RunawayLatched'
  BY <1>a, <1>b DEF IndInv, LatchedIsIdle, RunawayLatched, cellVars
<1>5. KickSlack'
  BY <1>a, <1>b DEF IndInv, KickSlack
<1>6. \A c \in Channels : orphanFor'[c] = 0
  BY <1>a, <1>b, <1>c DEF Observe, Orphan, ChassisExpired
<1>7. OrphanSlack'
  BY <1>a, <1>6, TimeAssumption DEF OrphanSlack
<1>8. BreachSlack'
  BY <1>a, ObserveBounds, TimeAssumption DEF IndInv, TypeOK, TimeTypes,
     BreachSlack
<1> QED
  BY <1>1, <1>2, <1>3, <1>4, <1>5, <1>7, <1>8 DEF IndInv, TypeOK

\* cell_loop latches the channel in the step that latches the cell.
LEMMA CellLoopInd ==
  ASSUME IndInv, NEW c \in Channels, CellLoop(c)
  PROVE  IndInv'
<1>a. /\ UNCHANGED <<vmax, tmax, sinceKick, cycleIndex, chassisVars, registers,
                     waits>>
      /\ Observe
  BY DEF CellLoop, CellStep
<1>b. PICK v \in VLevels, t \in TLevels, e \in {"NONE", "THERMAL_RUNAWAY"} :
        /\ cellError[c] # "NONE" => <<v, t, e>> = <<volt[c], temp[c], cellError[c]>>
        /\ volt' = [volt EXCEPT ![c] = v]
        /\ temp' = [temp EXCEPT ![c] = t]
        /\ cellError' = [cellError EXCEPT ![c] = e]
        /\ IF latched[c] = "NONE" /\ e # "NONE"
           THEN Halt(c, e)
           ELSE UNCHANGED <<latched, mode, setpoint>>
  BY DEF CellLoop, CellStep
<1>1. ChannelTypes'
  BY <1>a, <1>b, SetpointAssumption DEF IndInv, TypeOK, ChannelTypes, Halt,
     chassisVars, Modes, Errors, LimitErrors
<1>2. RegisterTypes'
  BY <1>a DEF IndInv, TypeOK, RegisterTypes, registers
<1>3. TimeTypes'
  BY <1>a, ObserveBounds DEF IndInv, TypeOK, TimeTypes, waits, chassisVars
<1>4. LatchedIsIdle' /\ RunawayLatched'
  BY <1>b DEF IndInv, TypeOK, ChannelTypes, LatchedIsIdle, RunawayLatched, Halt
<1>5. KickSlack'
  BY <1>a, <1>b DEF IndInv, TypeOK, ChannelTypes, KickSlack, Halt, waits
<1>6. OrphanSlack' /\ BreachSlack'
  BY <1>a, WaitsKept DEF IndInv, TypeOK
<1> QED
  BY <1>1, <1>2, <1>3, <1>4, <1>5, <1>6 DEF IndInv, TypeOK

\* mirror_loop only copies live state into registers.
LEMMA MirrorLoopInd ==
  ASSUME IndInv, MirrorLoop
  PROVE  IndInv'
<1>a. /\ UNCHANGED <<channelVars, cycleIndex, cellVars, chassisVars, waits>>
      /\ Observe
  BY DEF MirrorLoop
<1>1. ChannelTypes'
  BY <1>a DEF IndInv, TypeOK, ChannelTypes, channelVars, cellVars, chassisVars
<1>2. RegisterTypes'
  BY DEF IndInv, TypeOK, ChannelTypes, RegisterTypes, RegModes, MirrorLoop
<1>3. TimeTypes'
  BY <1>a, ObserveBounds DEF IndInv, TypeOK, TimeTypes, waits, channelVars,
     chassisVars
<1>4. LatchedIsIdle' /\ RunawayLatched' /\ KickSlack'
  BY <1>a DEF IndInv, LatchedIsIdle, RunawayLatched, KickSlack, channelVars,
     cellVars, waits
<1>5. OrphanSlack' /\ BreachSlack'
  BY <1>a, WaitsKept DEF IndInv, TypeOK
<1> QED
  BY <1>1, <1>2, <1>3, <1>4, <1>5 DEF IndInv, TypeOK

\* Time moves one unit from a loop's wait to the ages it guards.
LEMMA TickInd ==
  ASSUME IndInv, Tick
  PROVE  IndInv'
<1>1. ChannelTypes' /\ RegisterTypes' /\ LatchedIsIdle' /\ RunawayLatched'
  BY DEF IndInv, TypeOK, ChannelTypes, RegisterTypes, LatchedIsIdle,
     RunawayLatched, Tick, cellVars, registers
<1>2. TimeTypes'
  BY TimeAssumption DEF IndInv, TypeOK, TimeTypes, Tick, Older
<1>3. KickSlack'
  BY TimeAssumption DEF IndInv, TypeOK, TimeTypes, KickSlack, Tick, Older
<1>4. OrphanSlack' /\ BreachSlack'
  BY TimeAssumption DEF IndInv, TypeOK, TimeTypes, OrphanSlack, BreachSlack,
     Tick, Older
<1> QED
  BY <1>1, <1>2, <1>3, <1>4 DEF IndInv, TypeOK

-----------------------------------------------------------------------------
(* The invariant, and what follows from it.                                *)

\* Every step of the chassis, or of its client, keeps the invariant.
LEMMA NextInd == IndInv /\ [Next]_vars => IndInv'
<1> SUFFICES ASSUME IndInv, [Next]_vars PROVE IndInv'
  OBVIOUS
<1> USE DEF IndInv, TypeOK, ChannelTypes, RegisterTypes
<1>1. ASSUME NEW c \in Channels, Write(c) PROVE IndInv'
  <2> /\ regMode[c] \in RegModes /\ regSetpoint[c] \in Setpoints
      /\ regVMax[c] \in VLevels /\ regTMax[c] \in TLevels
    OBVIOUS
  <2>1. CASE \E m \in RegModes : WriteMode(c, m)
    BY <2>1, DispatchInd DEF WriteMode
  <2>2. CASE \E s \in Setpoints : WriteSetpoint(c, s)
    BY <2>2, DispatchInd DEF WriteSetpoint
  <2>3. CASE \E v \in VLevels : WriteVMax(c, v)
    BY <2>3, DispatchInd DEF WriteVMax
  <2>4. CASE \E t \in TLevels : WriteTMax(c, t)
    BY <2>4, DispatchInd DEF WriteTMax
  <2>5. CASE KickChannel(c) \/ \E n \in CycleTags : WriteCycle(c, n)
    BY <2>5, KickInd
  <2> QED
    BY <1>1, <2>1, <2>2, <2>3, <2>4, <2>5 DEF Write
<1>2. CASE WriteChassis
  BY <1>2, KickInd, ChemistryInd DEF WriteChassis
<1>3. CASE Loops
  BY <1>3, SafetyLoopInd, CellLoopInd, ChassisWatchdogInd, MirrorLoopInd
     DEF Loops
<1>4. CASE Tick
  BY <1>4, TickInd
<1>5. CASE UNCHANGED vars
  BY <1>5 DEF vars, channelVars, cellVars, chassisVars, registers, waits,
     observers, TimeTypes, LatchedIsIdle, RunawayLatched, KickSlack,
     OrphanSlack, BreachSlack
<1> QED
  BY <1>1, <1>2, <1>3, <1>4, <1>5 DEF Next

\* The inductive invariant holds in every reachable state.
THEOREM Invariance == Spec => []IndInv
  BY InitInd, NextInd, PTL DEF Spec

\* Every reachable state is well typed (every register and every age of the
\* chassis stays in its range).
THEOREM TypeCorrect == Spec => []TypeOK
<1>1. IndInv => TypeOK
  BY DEF IndInv
<1> QED
  BY <1>1, Invariance, PTL

\* A latched channel is idle, for any client (apply_command, halt).
THEOREM LatchSafe == Spec => []LatchedIsIdle
<1>1. IndInv => LatchedIsIdle
  BY DEF IndInv
<1> QED
  BY <1>1, Invariance, PTL

\* No cell in thermal runaway sits behind an unlatched channel (cell_loop).
THEOREM RunawaySafe == Spec => []RunawayLatched
<1>1. IndInv => RunawayLatched
  BY DEF IndInv
<1> QED
  BY <1>1, Invariance, PTL

\* An active channel was kicked at most Threshold + SafetyPeriod + Lag ago
\* (safety_loop, watchdog_expired).
THEOREM DeadMan == Spec => []DeadManBound
<1>1. IndInv => DeadManBound
  <2> SUFFICES ASSUME IndInv, NEW c \in Channels, mode[c] # "idle"
               PROVE  sinceKick[c] <= Threshold + SafetyPeriod + Lag
    BY DEF DeadManBound
  <2>1. /\ sinceKick[c] + safetyWait[c] <= Threshold + SafetyPeriod
        /\ sinceKick[c] \in Int /\ safetyWait[c] \in Int
        /\ safetyWait[c] >= -Lag
    BY TimeAssumption DEF IndInv, TypeOK, TimeTypes, KickSlack
  <2> QED
    BY <2>1, TimeAssumption
<1> QED
  BY <1>1, Invariance, PTL

\* No channel runs longer than WatchdogPeriod + Lag on a stale chassis kick
\* (chassis_watchdog).
THEOREM ChassisDeadMan == Spec => []OrphanBound
<1>1. IndInv => OrphanBound
  <2> SUFFICES ASSUME IndInv, NEW c \in Channels
               PROVE  orphanFor[c] <= WatchdogPeriod + Lag
    BY DEF OrphanBound
  <2>1. /\ orphanFor[c] + watchdogWait <= WatchdogPeriod
        /\ orphanFor[c] \in Int /\ watchdogWait \in Int
        /\ watchdogWait >= -Lag
    BY TimeAssumption DEF IndInv, TypeOK, TimeTypes, OrphanSlack
  <2> QED
    BY <2>1, TimeAssumption
<1> QED
  BY <1>1, Invariance, PTL

\* No unlatched channel is outside its voltage or temperature limit for
\* longer than SafetyPeriod + Lag (safety_loop).
THEOREM Envelope == Spec => []BreachBound
<1>1. IndInv => BreachBound
  <2> SUFFICES ASSUME IndInv, NEW c \in Channels
               PROVE  breachFor[c] <= SafetyPeriod + Lag
    BY DEF BreachBound
  <2>1. /\ breachFor[c] + safetyWait[c] <= SafetyPeriod
        /\ breachFor[c] \in Int /\ safetyWait[c] \in Int
        /\ safetyWait[c] >= -Lag
    BY TimeAssumption DEF IndInv, TypeOK, TimeTypes, BreachSlack
  <2> QED
    BY <2>1, TimeAssumption
<1> QED
  BY <1>1, Invariance, PTL

\* The first error of a channel stays latched until a change of chemistry
\* replaces its cell (halt, _set_chemistry).
THEOREM LatchDiscipline == Spec => LatchKept
<1> DEFINE A == \A c \in Channels :
                  latched[c] # "NONE" /\ latched'[c] # latched[c]
                      => latched'[c] = "NONE" /\ chem' # chem
<1>1. IndInv /\ [Next]_vars => [A]_vars
  <2> SUFFICES ASSUME IndInv, Next PROVE A
    OBVIOUS
  <2>t. latched \in [Channels -> Errors]
    BY DEF IndInv, TypeOK, ChannelTypes
  <2>1. ASSUME NEW c \in Channels, Write(c) PROVE latched' = latched
    BY <2>1 DEF Write, WriteMode, WriteSetpoint, WriteVMax, WriteTMax, Dispatch,
       KickChannel, WriteCycle, channelVars
  <2>2. CASE KickChassis \/ Tick \/ MirrorLoop
    BY <2>2 DEF KickChassis, Tick, MirrorLoop, channelVars
  <2>3. ASSUME NEW k \in Chemistries \cup {UnknownChem}, WriteChemistry(k)
        PROVE  A
    BY <2>3 DEF WriteChemistry
  <2>4. ASSUME NEW c \in Channels, SafetyLoop(c) \/ CellLoop(c)
        PROVE  A
    BY <2>4, <2>t DEF SafetyLoop, CellLoop, CellStep, Halt
  <2>5. CASE ChassisWatchdog
    BY <2>5, <2>t DEF ChassisWatchdog, WatchdogPass
  <2> QED
    BY <2>1, <2>2, <2>3, <2>4, <2>5 DEF Next, WriteChassis, Loops
<1> QED
  BY <1>1, Invariance, PTL DEF Spec, LatchKept
=============================================================================
