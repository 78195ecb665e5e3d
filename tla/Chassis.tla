------------------------------- MODULE Chassis -------------------------------
(***************************************************************************)
(* One battery cycler (service "cycler"): its channels with their safety   *)
(* latch, the holding registers a Modbus client reads and writes, and the  *)
(* asyncio loops that share them: one safety_loop and one cell_loop per    *)
(* channel, one chassis_watchdog and one mirror_loop per chassis.          *)
(*                                                                         *)
(* Each loop body and each register write runs without an await, so it is  *)
(* one atomic action.  The client here is ANY client: it writes any        *)
(* register at any moment.  CyclerLink narrows it to the orchestrator's    *)
(* call sequences.                                                         *)
(*                                                                         *)
(* Time.  Both dead-mans compare wall-clock ages, so the model keeps ages  *)
(* (sinceKick, sinceChassisKick) and, per loop, the time until its         *)
(* asyncio.sleep is over.  A negative wait is a loop that is overdue; the  *)
(* event loop is assumed to run it at most Lag ticks late.  Ages stop      *)
(* counting at AgeCap, past every value a guard or a property compares.    *)
(***************************************************************************)
EXTENDS Integers

CONSTANTS
    Channels,        \* the chassis's channels
    ActiveModes,     \* channel modes other than "idle": rest, cc, cv, cp
    Setpoints,       \* setpoint values (amperes, volts or watts)
    ZeroSetpoint,    \* the setpoint 0.0
    VLevels,         \* cell voltages and voltage limits, as integers
    TLevels,         \* cell temperatures and temperature limits
    BootTMax,        \* safety_t_max_dc of a new Channel (600)
    Chemistries,     \* known chemistry ids
    UnknownChem,     \* an id that is not in modbus_maps.ChemistryId
    ChemVMax,        \* v_max_mv of each chemistry
    CycleTags,       \* values of the CYCLE_COUNT register
    Threshold,       \* dead-man threshold, in ticks
    SafetyPeriod,    \* period of safety_loop
    WatchdogPeriod,  \* period of chassis_watchdog
    Lag,             \* how late the event loop may run a loop
    AgeCap           \* ages stop counting here

ASSUME ChannelsAssumption == Channels # {}
ASSUME ModesAssumption == /\ "idle" \notin ActiveModes
                          /\ "invalid" \notin ActiveModes
ASSUME SetpointAssumption == ZeroSetpoint \in Setpoints
ASSUME LevelsAssumption == /\ VLevels \subseteq Int
                           /\ TLevels \subseteq Int
                           /\ BootTMax \in TLevels
ASSUME ChemAssumption == /\ ChemVMax \in [Chemistries -> VLevels]
                         /\ UnknownChem \notin Chemistries
ASSUME CycleAssumption == 0 \in CycleTags
ASSUME TimeAssumption ==
    /\ Threshold \in Nat /\ Lag \in Nat /\ AgeCap \in Nat
    /\ SafetyPeriod \in Nat \ {0} /\ WatchdogPeriod \in Nat \ {0}
    /\ AgeCap > Threshold + SafetyPeriod + Lag
    /\ AgeCap > WatchdogPeriod + Lag

Modes == ActiveModes \cup {"idle"}
RegModes == Modes \cup {"invalid"}
LimitErrors == {"OVERVOLTAGE", "OVERTEMP", "WATCHDOG_TIMEOUT"}
Errors == LimitErrors \cup {"NONE", "THERMAL_RUNAWAY"}

VARIABLES
    \* Channel (channel.py) and its ECMCell
    mode, setpoint, vmax, tmax, latched, cycleIndex, sinceKick,
    volt, temp, cellError,
    \* ChassisKickState (safety.py) and the chassis chemistry
    sinceChassisKick, tripped, chem,
    \* holding registers (modbus_server.py)
    regMode, regSetpoint, regVMax, regTMax, regError, regCycle, regTripped,
    regChem,
    \* time until the sleep of each loop is over
    safetyWait, watchdogWait,
    \* observers: how long a limit has been breached on an unlatched channel,
    \* and how long a channel has been active without a live chassis kick
    breachFor, orphanFor

channelVars == <<mode, setpoint, vmax, tmax, latched, sinceKick>>
cellVars == <<volt, temp, cellError>>
chassisVars == <<sinceChassisKick, tripped, chem>>
commandRegs == <<regMode, regSetpoint, regVMax, regTMax>>
statusRegs == <<regError, regTripped>>
registers == <<regMode, regSetpoint, regVMax, regTMax, regError, regCycle,
               regTripped, regChem>>
waits == <<safetyWait, watchdogWait>>
observers == <<breachFor, orphanFor>>
vars == <<channelVars, cycleIndex, cellVars, chassisVars, registers, waits,
          observers>>

ChannelTypes ==
    /\ mode \in [Channels -> Modes]
    /\ setpoint \in [Channels -> Setpoints]
    /\ vmax \in [Channels -> VLevels]
    /\ tmax \in [Channels -> TLevels]
    /\ latched \in [Channels -> Errors]
    /\ cycleIndex \in [Channels -> CycleTags]
    /\ volt \in [Channels -> VLevels]
    /\ temp \in [Channels -> TLevels]
    /\ cellError \in [Channels -> {"NONE", "THERMAL_RUNAWAY"}]
    /\ tripped \in BOOLEAN
    /\ chem \in Chemistries

RegisterTypes ==
    /\ regMode \in [Channels -> RegModes]
    /\ regSetpoint \in [Channels -> Setpoints]
    /\ regVMax \in [Channels -> VLevels]
    /\ regTMax \in [Channels -> TLevels]
    /\ regError \in [Channels -> Errors]
    /\ regCycle \in [Channels -> CycleTags]
    /\ regTripped \in BOOLEAN
    /\ regChem \in Chemistries \cup {UnknownChem}

TimeTypes ==
    /\ sinceKick \in [Channels -> 0..AgeCap]
    /\ sinceChassisKick \in 0..AgeCap
    /\ safetyWait \in [Channels -> -Lag..SafetyPeriod]
    /\ watchdogWait \in -Lag..WatchdogPeriod
    /\ breachFor \in [Channels -> 0..AgeCap]
    /\ orphanFor \in [Channels -> 0..AgeCap]

\* Types: modes, latches, registers, ages and waits stay in their ranges.
TypeOK == ChannelTypes /\ RegisterTypes /\ TimeTypes

Older(age) == IF age < AgeCap THEN age + 1 ELSE AgeCap

-----------------------------------------------------------------------------
(* What the safety tasks look at.                                          *)

\* Mutant: a live chassis kick hides the silence of one channel.
WatchdogExpiredMasked(c) ==
    mode[c] # "idle" /\ sinceKick[c] > Threshold /\ sinceChassisKick > Threshold

\* Channel.watchdog_expired
WatchdogExpired(c) == mode[c] # "idle" /\ sinceKick[c] > Threshold

\* ChassisKickState.expired
ChassisExpired == sinceChassisKick > Threshold

\* Channel.desired_current_a is nonzero: the channel pushes current
Drives(c) == latched[c] = "NONE" /\ mode[c] \notin {"idle", "rest"}

\* The limits safety_loop compares, while the channel is not latched.
Breached(c) == /\ latched[c] = "NONE"
               /\ volt[c] > vmax[c] \/ temp[c] > tmax[c]

\* A channel that runs although the chassis kick has gone stale.
Orphan(c) == ChassisExpired /\ mode[c] # "idle"

\* The observers restart whenever their condition is interrupted.
Observe ==
    /\ breachFor' = [c \in Channels |-> IF Breached(c)' THEN breachFor[c] ELSE 0]
    /\ orphanFor' = [c \in Channels |-> IF Orphan(c)' THEN orphanFor[c] ELSE 0]

-----------------------------------------------------------------------------
(* _make_channels, ChassisKickState.__init__, ChassisDataBlock.__init__    *)

InitChannels(k) ==
    /\ mode = [c \in Channels |-> "idle"]
    /\ setpoint = [c \in Channels |-> ZeroSetpoint]
    /\ vmax = [c \in Channels |-> ChemVMax[k]]
    /\ tmax = [c \in Channels |-> BootTMax]
    /\ latched = [c \in Channels |-> "NONE"]
    /\ cycleIndex = [c \in Channels |-> 0]
    /\ sinceKick = [c \in Channels |-> 0]
    /\ volt \in [Channels -> {v \in VLevels : v <= ChemVMax[k]}]
    /\ temp \in [Channels -> {t \in TLevels : t <= BootTMax}]
    /\ cellError = [c \in Channels |-> "NONE"]

InitRegisters(k) ==
    /\ regMode = [c \in Channels |-> "idle"]
    /\ regSetpoint = [c \in Channels |-> ZeroSetpoint]
    /\ regVMax = [c \in Channels |-> ChemVMax[k]]
    /\ regTMax = [c \in Channels |-> BootTMax]
    /\ regError = [c \in Channels |-> "NONE"]
    /\ regCycle = [c \in Channels |-> 0]
    /\ regTripped = FALSE
    /\ regChem = k

Init ==
    /\ chem \in Chemistries
    /\ InitChannels(chem)
    /\ InitRegisters(chem)
    /\ sinceChassisKick = 0
    /\ tripped = FALSE
    /\ safetyWait = [c \in Channels |-> 0]
    /\ watchdogWait = 0
    /\ breachFor = [c \in Channels |-> 0]
    /\ orphanFor = [c \in Channels |-> 0]

-----------------------------------------------------------------------------
(* Register writes.  setValues stores the value and then dispatches it.    *)

\* Mutant: the latch does not refuse an active mode.
ApplyCommandUnlatched(c, m, s, v, t) ==
    /\ mode' = [mode EXCEPT ![c] = m]
    /\ setpoint' = [setpoint EXCEPT ![c] = s]
    /\ vmax' = [vmax EXCEPT ![c] = v]
    /\ tmax' = [tmax EXCEPT ![c] = t]
    /\ sinceKick' = [sinceKick EXCEPT ![c] = 0]

\* Mutant: a write to an idle channel is only stored in the register.
ApplyCommandWhenActive(c, m, s, v, t) ==
    IF (m = "idle" /\ mode[c] = "idle") \/ latched[c] # "NONE"
    THEN UNCHANGED <<mode, setpoint, vmax, tmax, sinceKick>>
    ELSE ApplyCommandUnlatched(c, m, s, v, t)

\* Channel.apply_command: refused while latched, a no-op when nothing
\* changes, otherwise the command takes effect and kicks the dead-man.
ApplyCommand(c, m, s, v, t) ==
    IF \/ latched[c] # "NONE" /\ m # "idle"
       \/ <<m, s, v, t>> = <<mode[c], setpoint[c], vmax[c], tmax[c]>>
    THEN UNCHANGED <<mode, setpoint, vmax, tmax, sinceKick>>
    ELSE /\ mode' = [mode EXCEPT ![c] = m]
         /\ setpoint' = [setpoint EXCEPT ![c] = s]
         /\ vmax' = [vmax EXCEPT ![c] = v]
         /\ tmax' = [tmax EXCEPT ![c] = t]
         /\ sinceKick' = [sinceKick EXCEPT ![c] = 0]

\* Mutant: the register's value is taken as it is.
DecodeModeRaw(m) == m

\* An undecodable mode register is read as "idle".
DecodeMode(m) == IF m \in Modes THEN m ELSE "idle"

\* A write to any command register re-applies the whole register block.
Dispatch(c, m, s, v, t) ==
    /\ regMode' = [regMode EXCEPT ![c] = m]
    /\ regSetpoint' = [regSetpoint EXCEPT ![c] = s]
    /\ regVMax' = [regVMax EXCEPT ![c] = v]
    /\ regTMax' = [regTMax EXCEPT ![c] = t]
    /\ ApplyCommand(c, DecodeMode(m), s, v, t)
    /\ UNCHANGED <<latched, cycleIndex, cellVars, chassisVars, statusRegs,
                   regCycle, regChem, waits>>
    /\ Observe

WriteMode(c, m) == Dispatch(c, m, regSetpoint[c], regVMax[c], regTMax[c])
WriteSetpoint(c, s) == Dispatch(c, regMode[c], s, regVMax[c], regTMax[c])
WriteVMax(c, v) == Dispatch(c, regMode[c], regSetpoint[c], v, regTMax[c])
WriteTMax(c, t) == Dispatch(c, regMode[c], regSetpoint[c], regVMax[c], t)

\* WATCHDOG_KICK -> Channel.kick_watchdog
KickChannel(c) ==
    /\ sinceKick' = [sinceKick EXCEPT ![c] = 0]
    /\ UNCHANGED <<mode, setpoint, vmax, tmax, latched, cycleIndex, cellVars,
                   chassisVars, registers, waits>>
    /\ Observe

\* CYCLE_COUNT -> Channel.set_cycle_index
WriteCycle(c, n) ==
    /\ regCycle' = [regCycle EXCEPT ![c] = n]
    /\ cycleIndex' = [cycleIndex EXCEPT ![c] = n]
    /\ UNCHANGED <<channelVars, cellVars, chassisVars, commandRegs, statusRegs,
                   regChem, waits>>
    /\ Observe

\* CHASSIS_WATCHDOG_KICK -> ChassisKickState.kick
KickChassis ==
    /\ sinceChassisKick' = 0
    /\ UNCHANGED <<channelVars, cycleIndex, cellVars, tripped, chem, registers,
                   waits>>
    /\ Observe

\* Mutant: a write clears every latch, and changes nothing else.
WriteChemistryClearing(k) ==
    /\ regChem' = k
    /\ latched' = [c \in Channels |-> "NONE"]
    /\ UNCHANGED <<mode, setpoint, vmax, tmax, sinceKick, cycleIndex, cellVars,
                   chassisVars, commandRegs, statusRegs, regCycle, waits>>
    /\ Observe

\* CHEMISTRY -> _set_chemistry: an unknown id or the current chemistry
\* changes only the register; otherwise every channel gets a new cell and
\* falls back to idle with its latch cleared.  Command registers keep their
\* values until the next mirror pass.
WriteChemistry(k) ==
    /\ regChem' = k
    /\ IF k \notin Chemistries \/ k = chem
       THEN UNCHANGED <<mode, setpoint, latched, vmax, cycleIndex, chem,
                        cellVars>>
       ELSE /\ chem' = k
            /\ mode' = [c \in Channels |-> "idle"]
            /\ setpoint' = [c \in Channels |-> ZeroSetpoint]
            /\ latched' = [c \in Channels |-> "NONE"]
            /\ vmax' = [c \in Channels |-> ChemVMax[k]]
            /\ cycleIndex' = [c \in Channels |-> 0]
            /\ cellError' = [c \in Channels |-> "NONE"]
            /\ volt' \in [Channels -> {v \in VLevels : v <= ChemVMax[k]}]
            /\ temp' \in [Channels -> {t \in TLevels : t <= BootTMax}]
    /\ UNCHANGED <<tmax, sinceKick, sinceChassisKick, tripped, commandRegs,
                   statusRegs, regCycle, waits>>
    /\ Observe

-----------------------------------------------------------------------------
(* The loops.                                                              *)

\* Channel.halt: the first error is kept, the channel goes idle.
Halt(c, e) ==
    /\ latched' = [latched EXCEPT ![c] = IF @ = "NONE" THEN e ELSE @]
    /\ mode' = [mode EXCEPT ![c] = "idle"]
    /\ setpoint' = [setpoint EXCEPT ![c] = ZeroSetpoint]

\* Mutant: an idle channel is not looked at.
SafetyVerdictWhenActive(c) ==
    IF latched[c] # "NONE" \/ mode[c] = "idle" THEN "NONE"
    ELSE IF volt[c] > vmax[c] THEN "OVERVOLTAGE"
    ELSE IF temp[c] > tmax[c] THEN "OVERTEMP"
    ELSE IF WatchdogExpired(c) THEN "WATCHDOG_TIMEOUT"
    ELSE cellError[c]

\* What one pass of safety_loop finds on an unlatched channel, in the order
\* it looks; "NONE" when there is nothing to halt for.
SafetyVerdict(c) ==
    IF latched[c] # "NONE" THEN "NONE"
    ELSE IF volt[c] > vmax[c] THEN "OVERVOLTAGE"
    ELSE IF temp[c] > tmax[c] THEN "OVERTEMP"
    ELSE IF WatchdogExpired(c) THEN "WATCHDOG_TIMEOUT"
    ELSE cellError[c]

SafetyLoop(c) ==
    /\ safetyWait[c] <= 0
    /\ IF SafetyVerdict(c) # "NONE"
       THEN Halt(c, SafetyVerdict(c))
       ELSE UNCHANGED <<latched, mode, setpoint>>
    /\ safetyWait' = [safetyWait EXCEPT ![c] = SafetyPeriod]
    /\ UNCHANGED <<vmax, tmax, sinceKick, cycleIndex, cellVars, chassisVars,
                   registers, watchdogWait>>
    /\ Observe

\* One pass of chassis_watchdog that halts the channels in hit.
WatchdogPass(hit) ==
    /\ watchdogWait <= 0
    /\ tripped' = ChassisExpired
    /\ latched' = [c \in Channels |->
                      IF c \in hit THEN "WATCHDOG_TIMEOUT" ELSE latched[c]]
    /\ mode' = [c \in Channels |-> IF c \in hit THEN "idle" ELSE mode[c]]
    /\ setpoint' = [c \in Channels |->
                      IF c \in hit THEN ZeroSetpoint ELSE setpoint[c]]
    /\ watchdogWait' = WatchdogPeriod
    /\ UNCHANGED <<vmax, tmax, sinceKick, cycleIndex, cellVars,
                   sinceChassisKick, chem, registers, safetyWait>>
    /\ Observe

\* Mutant: only the pass that notices the stale kick halts.
ChassisWatchdogOnce ==
    WatchdogPass({c \in Channels : /\ ChassisExpired /\ ~tripped
                                   /\ mode[c] # "idle" /\ latched[c] = "NONE"})

\* Mutant: halts without looking at the channels.
ChassisWatchdogAll == WatchdogPass({c \in Channels : ChassisExpired})

\* chassis_watchdog: halts every active channel that is not yet latched.
ChassisWatchdog ==
    WatchdogPass({c \in Channels : /\ ChassisExpired
                                   /\ mode[c] # "idle" /\ latched[c] = "NONE"})

\* ECMCell.step: any voltage and temperature, perhaps a thermal runaway; a cell
\* in runaway no longer changes.
CellStep(c, v, t, e) ==
    /\ cellError[c] # "NONE" => <<v, t, e>> = <<volt[c], temp[c], cellError[c]>>
    /\ volt' = [volt EXCEPT ![c] = v]
    /\ temp' = [temp EXCEPT ![c] = t]
    /\ cellError' = [cellError EXCEPT ![c] = e]

\* cell_loop: the cell is stepped with the channel's current; a runaway is
\* mirrored at once onto a channel that is not latched.
CellLoop(c) ==
    /\ \E v \in VLevels, t \in TLevels, e \in {"NONE", "THERMAL_RUNAWAY"} :
         /\ CellStep(c, v, t, e)
         /\ IF latched[c] = "NONE" /\ e # "NONE"
            THEN Halt(c, e)
            ELSE UNCHANGED <<latched, mode, setpoint>>
    /\ UNCHANGED <<vmax, tmax, sinceKick, cycleIndex, chassisVars, registers,
                   waits>>
    /\ Observe

\* mirror_loop: one pass copies the live state of every channel and of the
\* chassis into the registers; the two safety limits are not mirrored.
MirrorLoop ==
    /\ regMode' = mode
    /\ regSetpoint' = setpoint
    /\ regError' = latched
    /\ regCycle' = cycleIndex
    /\ regTripped' = tripped
    /\ regChem' = chem
    /\ UNCHANGED <<channelVars, cycleIndex, cellVars, chassisVars, regVMax,
                   regTMax, waits>>
    /\ Observe

\* Wall time passes, unless some loop would then be more than Lag late.
Tick ==
    /\ watchdogWait > -Lag
    /\ \A c \in Channels : safetyWait[c] > -Lag
    /\ watchdogWait' = watchdogWait - 1
    /\ safetyWait' = [c \in Channels |-> safetyWait[c] - 1]
    /\ sinceKick' = [c \in Channels |-> Older(sinceKick[c])]
    /\ sinceChassisKick' = Older(sinceChassisKick)
    /\ breachFor' = [c \in Channels |->
                       IF Breached(c) THEN Older(breachFor[c]) ELSE 0]
    /\ orphanFor' = [c \in Channels |->
                       IF Orphan(c) THEN Older(orphanFor[c]) ELSE 0]
    /\ UNCHANGED <<mode, setpoint, vmax, tmax, latched, cycleIndex, cellVars,
                   tripped, chem, registers>>

Write(c) ==
    \/ \E m \in RegModes : WriteMode(c, m)
    \/ \E s \in Setpoints : WriteSetpoint(c, s)
    \/ \E v \in VLevels : WriteVMax(c, v)
    \/ \E t \in TLevels : WriteTMax(c, t)
    \/ KickChannel(c)
    \/ \E n \in CycleTags : WriteCycle(c, n)

WriteChassis ==
    \/ KickChassis
    \/ \E k \in Chemistries \cup {UnknownChem} : WriteChemistry(k)

Loops ==
    \/ \E c \in Channels : SafetyLoop(c) \/ CellLoop(c)
    \/ ChassisWatchdog
    \/ MirrorLoop

Next == (\E c \in Channels : Write(c)) \/ WriteChassis \/ Loops \/ Tick

Spec == Init /\ [][Next]_vars

-----------------------------------------------------------------------------
(* Properties.                                                             *)

\* A latched channel is parked: whatever a client writes, in whatever order
\* it interleaves with the loops and with stale registers, a channel whose
\* error is latched stays in mode idle (apply_command, halt).
LatchedIsIdle == \A c \in Channels : latched[c] # "NONE" => mode[c] = "idle"

\* Per-channel dead-man: no channel is in an active mode more than
\* Threshold + SafetyPeriod + Lag after its last kick (safety_loop,
\* watchdog_expired; the acceptance "trip within 5.5 s at the default 5.0 s").
DeadManBound ==
    \A c \in Channels :
        mode[c] # "idle" => sinceKick[c] <= Threshold + SafetyPeriod + Lag

\* Chassis dead-man: no channel is active for more than WatchdogPeriod + Lag
\* while the chassis kick is stale, also when it was activated after the kick
\* went stale (chassis_watchdog).
OrphanBound ==
    \A c \in Channels : orphanFor[c] <= WatchdogPeriod + Lag

\* Safety envelope: a voltage or temperature above the limit in force lasts at
\* most SafetyPeriod + Lag on a channel that is not latched (safety_loop).
BreachBound ==
    \A c \in Channels : breachFor[c] <= SafetyPeriod + Lag

\* A cell in thermal runaway is never behind an unlatched channel: cell_loop
\* mirrors it in the step that latches the cell, and nothing clears the
\* channel's latch without replacing the cell.
RunawayLatched ==
    \A c \in Channels : cellError[c] # "NONE" => latched[c] # "NONE"

\* What a latch may do: the first error stays until the cells are replaced by
\* a change of chemistry (halt, _set_chemistry).
LatchKept ==
    [][\A c \in Channels :
          latched[c] # "NONE" /\ latched'[c] # latched[c]
              => latched'[c] = "NONE" /\ chem' # chem]_vars

-----------------------------------------------------------------------------
(* The inductive invariant behind the three time bounds.  Each bound alone *)
(* is not inductive: it says nothing of how soon the loop that enforces it *)
(* runs again.  The age plus the time to the next pass is what never       *)
(* grows: a Tick moves one unit from the one to the other.                 *)

KickSlack ==
    \A c \in Channels :
        mode[c] # "idle" =>
            sinceKick[c] + safetyWait[c] <= Threshold + SafetyPeriod

OrphanSlack ==
    \A c \in Channels : orphanFor[c] + watchdogWait <= WatchdogPeriod

BreachSlack ==
    \A c \in Channels : breachFor[c] + safetyWait[c] <= SafetyPeriod

IndInv ==
    /\ TypeOK
    /\ LatchedIsIdle
    /\ RunawayLatched
    /\ KickSlack
    /\ OrphanSlack
    /\ BreachSlack
=============================================================================
