---------------------------- MODULE Orchestrator ----------------------------
(***************************************************************************)
(* The orchestrator's executor for one chassis: resume at boot, kickoff of *)
(* pending experiments, one tick per running experiment, completion and    *)
(* failure, over the Postgres tables experiments and experiment_steps.     *)
(*                                                                         *)
(* The executor is one asyncio task that works through an experiment at a  *)
(* time.  Every await on Postgres or on Modbus is one action, together     *)
(* with the code that runs after it up to the next await; the program      *)
(* counter pc names the await that is next.  At every await the process    *)
(* may die, a Modbus request may fail (OSError) and a statement may fail   *)
(* (asyncpg error), each with or without having taken effect.              *)
(*                                                                         *)
(* A position p counts steps over all cycles: cycle_index is p \div NSteps *)
(* and step_index is p % NSteps.                                           *)
(***************************************************************************)
EXTENDS Naturals, FiniteSets, FiniteSetsExt

CONSTANTS
    Exps,          \* rows of table experiments, one channel each
    BadExps,       \* those whose chassis or schedule row is not there
    NSteps,        \* len(schedule.steps)
    Repeat,        \* schedule.cycle.repeat
    ModeOf,        \* channel mode of each step (step_to_command)
    ChemOf,        \* schedule.chemistry of each experiment, one of the ids that
                   \* the cycler's build knows (CyclerLink has one it does not)
    MaxTag,        \* largest CYCLE_COUNT, a uint16 register (0xFFFF)
    MaxCrashes,    \* bound: deaths of the orchestrator
    MaxIoErrors,   \* bound: failed Modbus requests
    MaxDbErrors,   \* bound: failed SQL statements
    MaxStops,      \* bound: operator runs of "make soak.stop"
    BootChem,      \* CHEMISTRY in the cycler's environment
    MaxRestarts,   \* bound: restarts of the cycler
    MaxRewrites    \* bound: schedules overwritten with an invalid body

ASSUME ExpsAssumption == IsFiniteSet(Exps) /\ BadExps \subseteq Exps
ASSUME ScheduleAssumption ==
    /\ NSteps \in Nat \ {0} /\ Repeat \in Nat \ {0}
    /\ DOMAIN ModeOf = 0..(NSteps - 1)
    /\ \A s \in DOMAIN ModeOf : ModeOf[s] # "idle"
    /\ DOMAIN ChemOf = Exps
    /\ MaxTag \in Nat
ASSUME BoundsAssumption ==
    MaxCrashes \in Nat /\ MaxIoErrors \in Nat /\ MaxDbErrors \in Nat
        /\ MaxStops \in Nat /\ MaxRestarts \in Nat /\ MaxRewrites \in Nat

Total == NSteps * Repeat
Positions == 0..(Total - 1)
StepOf(p) == p % NSteps
CycleOf(p) == p \div NSteps

VARIABLES
    status, rows,            \* Postgres: experiments, experiment_steps
    invalid,                 \* Postgres: experiments whose schedule's body fails to parse
    pc, cur, todo, sweep,    \* executor task: next await, experiment, sweep
    st, pos,                 \* the Experiment objects: status, position
    drive, latched,          \* channels: step driven, latch
    modeReg, shown,          \* channels: registers MODE and LAST_ERROR
    tag, chem,               \* channels: CYCLE_COUNT; chemistry of the cells
    ctx,                     \* context last published for the channel
    events,                  \* cycle_complete events enqueued, per cycle
    crashes, ioErrors, dbErrors, stops, restarts, rewrites,  \* faults so far
    cut,                     \* ghost: experiments that lost their stamp
    stranded                 \* ghost: experiments an error left without an object

db == <<status, rows>>
task == <<pc, cur, todo, sweep>>
objects == <<st, pos>>
channels == <<drive, latched, modeReg, shown, tag, chem>>
outbox == <<ctx, events>>
faults == <<crashes, ioErrors, dbErrors, stops, restarts, rewrites, invalid>>
ghosts == <<cut, stranded>>
vars == <<db, task, objects, channels, outbox, faults, ghosts>>

Statuses == {"pending", "running", "completed", "failed"}
Terminal == {"completed", "failed"}
RowStates == {"none", "running", "completed"}
DbAwaits == {"rRow", "rFail", "rDone", "kBad", "kMark", "kRow", "kFail",
             "tClose", "tFail", "tEnd", "tDone", "tRow"}
IoAwaits == {"rRead", "rDrift", "kChem", "kTag", "kSend", "tRead", "tPark",
             "tTag", "tSend"}
NoStep == NSteps      \* a channel in mode idle
NoContext == Total    \* an empty retained payload
EventCap == MaxDbErrors + 2   \* events stop counting here
Chemistries == {ChemOf[e] : e \in Exps} \cup {BootChem}
Modes == {ModeOf[s] : s \in 0..(NSteps - 1)} \cup {"idle"}

\* Types; an object is never past the end of its schedule (_advance).
TypeOK ==
    /\ status \in [Exps -> Statuses]
    /\ rows \in [Exps -> [Positions -> RowStates]]
    /\ pc \in DbAwaits \cup IoAwaits \cup {"down", "pick", "poll"}
    /\ cur \in Exps
    /\ todo \subseteq Exps
    /\ sweep \in {"resume", "kickoff", "tick"}
    /\ st \in [Exps -> {"absent", "local", "running"} \cup Terminal]
    /\ pos \in [Exps -> 0..Total]
    /\ drive \in [Exps -> 0..NSteps]
    /\ latched \in [Exps -> BOOLEAN]
    /\ shown \in [Exps -> BOOLEAN]
    /\ modeReg \in [Exps -> Modes]
    /\ tag \in [Exps -> 0..MaxTag]
    /\ chem \in Chemistries
    /\ ctx \in [Exps -> 0..Total]
    /\ events \in [Exps -> [0..(Repeat - 1) -> 0..EventCap]]
    /\ crashes \in 0..MaxCrashes
    /\ ioErrors \in 0..MaxIoErrors
    /\ dbErrors \in 0..MaxDbErrors
    /\ stops \in 0..MaxStops
    /\ restarts \in 0..MaxRestarts
    /\ rewrites \in 0..MaxRewrites
    /\ invalid \subseteq Exps /\ cut \subseteq Exps /\ stranded \subseteq Exps

Init ==
    /\ status = [e \in Exps |-> "pending"]
    /\ rows = [e \in Exps |-> [p \in Positions |-> "none"]]
    /\ pc = "down" /\ cur \in Exps /\ todo = {} /\ sweep = "resume"
    /\ st = [e \in Exps |-> "absent"]
    /\ pos = [e \in Exps |-> 0]
    /\ drive = [e \in Exps |-> NoStep]
    /\ latched = [e \in Exps |-> FALSE]
    /\ modeReg = [e \in Exps |-> "idle"]
    /\ shown = [e \in Exps |-> FALSE]
    /\ tag = [e \in Exps |-> 0]
    /\ chem = BootChem
    /\ ctx = [e \in Exps |-> NoContext]
    /\ events = [e \in Exps |-> [k \in 0..(Repeat - 1) |-> 0]]
    /\ crashes = 0 /\ ioErrors = 0 /\ dbErrors = 0 /\ stops = 0
    /\ restarts = 0 /\ rewrites = 0 /\ invalid = {}
    /\ cut = {} /\ stranded = {}

-----------------------------------------------------------------------------
(* What an await does to Postgres and to the channel.                      *)

\* insert_step_row: ON CONFLICT DO NOTHING
InsertRow(e) == [rows EXCEPT ![e][pos[e]] = IF @ = "none" THEN "running" ELSE @]

\* mark_step_completed: an UPDATE, which touches nothing if there is no row
CloseRow(e) == [rows EXCEPT ![e][pos[e]] = IF @ = "none" THEN @ ELSE "completed"]

RowsAfter ==
    CASE pc \in {"rRow", "kRow", "tRow"} -> InsertRow(cur)
      [] pc \in {"tClose", "tEnd"}       -> CloseRow(cur)
      [] OTHER                           -> rows

\* mark_experiment_status: an UPDATE without a condition on the old status
StatusAfter ==
    CASE pc \in {"rFail", "kBad", "kFail", "tFail"} -> [status EXCEPT ![cur] = "failed"]
      [] pc \in {"rDone", "tDone"} -> [status EXCEPT ![cur] = "completed"]
      [] pc = "kMark"              -> [status EXCEPT ![cur] = "running"]
      [] OTHER                     -> status

DbWrite == rows' = RowsAfter /\ status' = StatusAfter

\* write_chassis_chemistry with another chemistry: every channel of the chassis
\* gets new cells, goes idle and loses its latch and its cycle tag
Swaps == pc = "kChem" /\ chem # ChemOf[cur]

\* send_command and kick_channel; the cycler refuses while latched
DriveAfter ==
    CASE pc \in {"rDrift", "kSend", "tSend"} ->
            IF latched[cur] THEN drive
            ELSE [drive EXCEPT ![cur] = StepOf(pos[cur])]
      [] pc = "tPark" -> [drive EXCEPT ![cur] = NoStep]
      [] Swaps        -> [e \in Exps |-> NoStep]
      [] OTHER        -> drive

\* The writes of send_command stay in MODE, refused or not, until the next
\* mirror pass; a chemistry swap does not touch the register.
ModeAfter ==
    CASE pc \in {"rDrift", "kSend", "tSend"} ->
            [modeReg EXCEPT ![cur] = ModeOf[StepOf(pos[cur])]]
      [] pc = "tPark" -> [modeReg EXCEPT ![cur] = "idle"]
      [] OTHER        -> modeReg

\* set_cycle_index: a cycle that does not fit the register is clamped.
Clamped(k) == IF k > MaxTag THEN MaxTag ELSE k

\* Mutant: it wraps around.
TagAfterWrapping ==
    CASE pc \in {"kTag", "tTag"} -> [tag EXCEPT ![cur] = CycleOf(pos[cur]) % (MaxTag + 1)]
      [] Swaps                   -> [e \in Exps |-> 0]
      [] OTHER                   -> tag

TagAfter ==
    CASE pc \in {"kTag", "tTag"} -> [tag EXCEPT ![cur] = Clamped(CycleOf(pos[cur]))]
      [] Swaps                   -> [e \in Exps |-> 0]
      [] OTHER                   -> tag

IoWrite ==
    /\ drive' = DriveAfter /\ modeReg' = ModeAfter /\ tag' = TagAfter
    /\ UNCHANGED shown
    /\ latched' = IF Swaps THEN [e \in Exps |-> FALSE] ELSE latched
    /\ chem' = IF Swaps THEN ChemOf[cur] ELSE chem

\* Nothing has been written for a fresh experiment, or only its first row, just
\* before write_chassis_chemistry.
Started(e) == \E p \in Positions : rows[e][p] # "none"
Fresh(e) == ~Started(e) \/ (cur = e /\ pc = "kChem")

\* The experiments that lose their cells and their tag when a swap takes effect.
Exchanged == IF Swaps THEN {e \in Exps \ {cur} : ~Fresh(e)} ELSE {}

PublishContext == ctx' = [ctx EXCEPT ![cur] = pos[cur]]
ClearContext == ctx' = [ctx EXCEPT ![cur] = NoContext]

Goto(label) == pc' = label /\ UNCHANGED <<cur, todo, sweep>>

\* An await on Postgres (on Modbus) that succeeds and continues at label.
DbStep(at, label) ==
    /\ pc = at /\ DbWrite /\ Goto(label) /\ UNCHANGED <<channels, faults, ghosts>>
IoStep(at, label) ==
    /\ pc = at /\ IoWrite /\ Goto(label) /\ UNCHANGED <<db, faults>>
    /\ cut' = cut \cup Exchanged /\ UNCHANGED stranded

-----------------------------------------------------------------------------
(* Sweeps.                                                                 *)

\* Mutant: nothing is resumed.
BootEmpty ==
    /\ pc = "down"
    /\ pc' = "poll" /\ sweep' = "resume" /\ todo' = {} /\ UNCHANGED cur
    /\ stranded' = {}
    /\ UNCHANGED <<db, objects, channels, outbox, faults, cut>>

\* _load_running_or_pending, and the filter of _resume_inflight
Inflight == {e \in Exps : status[e] = "running"}

\* Boot: _run calls _resume_inflight on the rows that are 'running'.
Boot ==
    /\ pc = "down"
    /\ pc' = "pick" /\ sweep' = "resume" /\ UNCHANGED cur
    /\ todo' = Inflight /\ stranded' = {}
    /\ UNCHANGED <<db, objects, channels, outbox, faults, cut>>

\* Mutant: polls every experiment it does not hold.
PollAll ==
    /\ pc = "poll"
    /\ st' = [e \in Exps |-> IF st[e] \in Terminal THEN "absent" ELSE st[e]]
    /\ todo' = {e \in Exps : st'[e] = "absent"}
    /\ pc' = "pick" /\ sweep' = "kickoff" /\ UNCHANGED cur
    /\ UNCHANGED <<db, pos, channels, outbox, faults, ghosts>>

\* _poll_pending, known being the experiments that have an object
PendingRows(known) == {e \in Exps : status[e] = "pending" /\ known[e] = "absent"}

\* _executor_loop reaps finished experiments, sleeps, and polls 'pending'.
Poll ==
    /\ pc = "poll"
    /\ st' = [e \in Exps |-> IF st[e] \in Terminal THEN "absent" ELSE st[e]]
    /\ todo' = PendingRows(st')
    /\ pc' = "pick" /\ sweep' = "kickoff" /\ UNCHANGED cur
    /\ UNCHANGED <<db, pos, channels, outbox, faults, ghosts>>

\* Mutant: always the last row.
ResumePositionLast(e) ==
    LET used == {p \in Positions : rows[e][p] # "none"}
    IN  IF used = {} THEN 0 ELSE Max(used)

\* _load_resume_state: the last row if it is 'running', else the one after.
ResumePosition(e) ==
    LET used == {p \in Positions : rows[e][p] # "none"}
    IN  IF used = {} THEN 0
        ELSE IF rows[e][Max(used)] = "running" THEN Max(used)
        ELSE Max(used) + 1

\* _check_chassis_reachable knows the chassis, and the schedule is in the table.
Buildable(e) == e \notin BadExps

\* Schedule.model_validate accepts the body; a tick does not load it again.
Loads(e) == sweep = "tick" \/ e \notin invalid

\* The next experiment of the sweep; _build_experiment for a new object.
Pick(e) ==
    /\ pc = "pick" /\ e \in todo /\ Loads(e)
    /\ cur' = e /\ todo' = todo \ {e} /\ UNCHANGED sweep
    /\ pos' = [pos EXCEPT ![e] = CASE sweep = "resume"  -> ResumePosition(e)
                                   [] sweep = "kickoff" -> 0
                                   [] sweep = "tick"    -> @]
    /\ pc' = CASE sweep = "tick" -> "tRead"
               [] sweep = "kickoff" -> IF Buildable(e) THEN "kMark" ELSE "kBad"
               [] sweep = "resume"  -> IF ~Buildable(e) THEN "rFail"
                                       ELSE IF ResumePosition(e) >= Total THEN "rDone"
                                       ELSE "rRead"
    /\ UNCHANGED <<db, st, channels, outbox, faults, ghosts>>

\* An exception that reaches the gather: the rest of the chassis's sweep is
\* given up, and at resume the experiments already resumed with it.
AbandonSweep ==
    /\ st' = [e \in Exps |-> IF st[e] = "local" THEN "absent" ELSE st[e]]
    /\ pc' = "pick" /\ todo' = {} /\ UNCHANGED <<cur, sweep, pos>>

\* What an error leaves 'running' in Postgres without an object that is ticked:
\* the experiment at hand, and at resume all that the chassis has gathered.
Gathered == IF sweep = "resume" THEN todo \cup {e \in Exps : st[e] = "local"} ELSE {}
Strand ==
    stranded' = IF pc' # "pick" THEN stranded
                ELSE stranded \cup {e \in {cur} \cup Gathered :
                       /\ status'[e] = "running" /\ st'[e] \notin {"local", "running"}
                       /\ e \notin todo'}

\* _build_experiment catches ScheduleError only: the error of a body that does
\* not validate goes up to the gather.  No status is written.
Refuse(e) ==
    /\ pc = "pick" /\ e \in todo /\ ~Loads(e)
    /\ AbandonSweep
    /\ UNCHANGED <<db, channels, outbox, faults, cut>>
    /\ Strand

\* The end of a sweep: what resume gathered becomes the experiments dict,
\* kickoff is followed by the ticks of what is running.
EndSweep ==
    /\ pc = "pick" /\ todo = {} /\ UNCHANGED cur
    /\ st' = [e \in Exps |-> IF st[e] = "local" THEN "running" ELSE st[e]]
    /\ CASE sweep = "kickoff" -> /\ sweep' = "tick" /\ pc' = "pick"
                                 /\ todo' = {e \in Exps : st[e] = "running"}
         [] OTHER             -> /\ sweep' = sweep /\ pc' = "poll"
                                 /\ todo' = {}
    /\ UNCHANGED <<db, pos, channels, outbox, faults, ghosts>>

-----------------------------------------------------------------------------
(* _resume_inflight, one experiment.                                       *)

\* read_channel: last_error as of the last mirror pass
LastError(e) == shown[e]

\* The drift check compares the MODE register, not the setpoint.
Drifted(e) == modeReg[e] # ModeOf[StepOf(pos[e])]

ResumeRead ==
    /\ IoStep("rRead", IF LastError(cur) THEN "rFail"
                       ELSE IF Drifted(cur) THEN "rDrift" ELSE "rRow")
    /\ UNCHANGED <<objects, outbox>>

\* _handle_resume_drift: first drift of this process, re-issue the command.
ResumeDrift == IoStep("rDrift", "rRow") /\ UNCHANGED <<objects, outbox>>

ResumeRow ==
    /\ DbStep("rRow", "pick")
    /\ st' = [st EXCEPT ![cur] = "local"] /\ UNCHANGED pos
    /\ PublishContext /\ UNCHANGED events

ResumeFail == DbStep("rFail", "pick") /\ UNCHANGED <<objects, outbox>>
ResumeDone == DbStep("rDone", "pick") /\ UNCHANGED <<objects, outbox>>

Resume == ResumeRead \/ ResumeDrift \/ ResumeRow \/ ResumeFail \/ ResumeDone

-----------------------------------------------------------------------------
(* kickoff.                                                                *)

KickoffBad == DbStep("kBad", "pick") /\ UNCHANGED <<objects, outbox>>
KickoffMark == DbStep("kMark", "kRow") /\ UNCHANGED <<objects, outbox>>
KickoffRow == DbStep("kRow", "kChem") /\ UNCHANGED <<objects, outbox>>

\* write_chassis_chemistry and its read-back; a mismatch fails the experiment
KickoffChem ==
    /\ \E match \in BOOLEAN : IoStep("kChem", IF match THEN "kTag" ELSE "kFail")
    /\ UNCHANGED <<objects, outbox>>

KickoffTag ==
    /\ IoStep("kTag", "kSend")
    /\ PublishContext /\ UNCHANGED <<objects, events>>

KickoffSend ==
    /\ IoStep("kSend", "pick")
    /\ st' = [st EXCEPT ![cur] = "running"] /\ UNCHANGED <<pos, outbox>>

KickoffFail ==
    /\ DbStep("kFail", "pick")
    /\ st' = [st EXCEPT ![cur] = "failed"] /\ UNCHANGED <<pos, outbox>>

Kickoff == \/ KickoffBad \/ KickoffMark \/ KickoffRow \/ KickoffChem
           \/ KickoffTag \/ KickoffSend \/ KickoffFail

-----------------------------------------------------------------------------
(* step_one_tick and _advance.                                             *)

\* end_condition_met: a step may end at any tick.
EndConditionMet == BOOLEAN

\* The mirrored error decides, then the end condition of the step.
TickRead ==
    /\ \E ended \in EndConditionMet :
         IoStep("tRead", IF LastError(cur) THEN "tClose"
                         ELSE IF ended THEN "tEnd" ELSE "tSend")
    /\ st' = IF LastError(cur) THEN [st EXCEPT ![cur] = "failed"] ELSE st
    /\ UNCHANGED <<pos, outbox>>

TickClose == DbStep("tClose", "tFail") /\ UNCHANGED <<objects, outbox>>

TickFail ==
    /\ DbStep("tFail", "pick")
    /\ ClearContext /\ UNCHANGED <<objects, events>>

EnqueueCycleComplete(e, k) ==
    events' = [events EXCEPT ![e][k] = IF @ < EventCap THEN @ + 1 ELSE @]

\* mark_step_completed, then _advance up to its first await: the next
\* position, a cycle_complete event if it is the first of a cycle (or wraps),
\* and completed at the end of the schedule.
AdvanceTo(p, wraps, over) ==
    /\ DbStep("tEnd", IF over THEN "tDone" ELSE "tRow")
    /\ pos' = [pos EXCEPT ![cur] = p]
    /\ st' = IF over THEN [st EXCEPT ![cur] = "completed"] ELSE st
    /\ IF wraps THEN EnqueueCycleComplete(cur, CycleOf(pos[cur])) ELSE UNCHANGED events
    /\ UNCHANGED ctx

\* Mutants: one cycle too many; one step too few; the event one step early.
TickEndLate == LET p == pos[cur] + 1 IN AdvanceTo(p, StepOf(p) = 0, p > Total)
TickEndShort == LET p == pos[cur] + 1 IN AdvanceTo(p, StepOf(p) = 0, p = Total - 1)
TickEndEarly ==
    LET p == pos[cur] + 1 IN AdvanceTo(p, StepOf(p) = NSteps - 1, p = Total)

TickEnd == LET p == pos[cur] + 1 IN AdvanceTo(p, StepOf(p) = 0, p = Total)

TickDone == DbStep("tDone", "tPark") /\ UNCHANGED <<objects, outbox>>

TickPark ==
    /\ IoStep("tPark", "pick")
    /\ ClearContext /\ UNCHANGED <<objects, events>>

\* Mutant: the cycle tag is never stamped on the way.
TickRowUntagged ==
    /\ DbStep("tRow", "tSend")
    /\ PublishContext /\ UNCHANGED <<objects, events>>

TickRow ==
    /\ DbStep("tRow", IF StepOf(pos[cur]) = 0 THEN "tTag" ELSE "tSend")
    /\ IF StepOf(pos[cur]) = 0 THEN UNCHANGED ctx ELSE PublishContext
    /\ UNCHANGED <<objects, events>>

TickTag ==
    /\ IoStep("tTag", "tSend")
    /\ PublishContext /\ UNCHANGED <<objects, events>>

TickSend == IoStep("tSend", "pick") /\ UNCHANGED <<objects, outbox>>

TickStep == \/ TickRead \/ TickClose \/ TickFail \/ TickEnd \/ TickDone
            \/ TickPark \/ TickRow \/ TickTag \/ TickSend

-----------------------------------------------------------------------------
(* Faults and the environment.                                             *)

\* A fault between claiming a position in Postgres and stamping the channel
\* leaves cur with a row and without its cycle tag or its chemistry.  So does
\* one between closing the row and marking the experiment failed, when the
\* error it failed for is not latched: LAST_ERROR is of the cells before a swap.
Unstamped == \/ pc \in {"kMark", "kRow", "kChem", "kTag", "tEnd", "tRow", "tTag"}
             \/ pc \in {"tClose", "tFail"} /\ ~latched[cur]
Cut == IF Unstamped THEN {cur} ELSE {}

\* A failed Modbus request.  An OSError skips this experiment, or fails it
\* when it is the re-issue at resume; another exception abandons the sweep.
IoError ==
    /\ pc \in IoAwaits /\ ioErrors < MaxIoErrors
    /\ ioErrors' = ioErrors + 1
    /\ \/ IoWrite /\ cut' = cut \cup Exchanged \cup Cut
       \/ UNCHANGED channels /\ cut' = cut \cup Cut
    /\ \/ Goto(IF pc = "rDrift" THEN "rFail" ELSE "pick") /\ UNCHANGED objects
       \/ AbandonSweep
    /\ UNCHANGED <<db, outbox, crashes, dbErrors, stops, restarts, rewrites, invalid>>
    /\ Strand

\* A failed statement.  An OSError inside kickoff or a tick skips this
\* experiment, every other error abandons the sweep.
DbError ==
    /\ pc \in DbAwaits /\ dbErrors < MaxDbErrors
    /\ dbErrors' = dbErrors + 1
    /\ DbWrite \/ UNCHANGED db
    /\ \/ sweep # "resume" /\ pc # "kBad" /\ Goto("pick") /\ UNCHANGED objects
       \/ AbandonSweep
    /\ cut' = cut \cup Cut
    /\ UNCHANGED <<channels, outbox, crashes, ioErrors, stops, restarts, rewrites, invalid>>
    /\ Strand

\* The process dies; its objects and the sweep are gone.
Crash ==
    /\ pc # "down" /\ crashes < MaxCrashes
    /\ crashes' = crashes + 1
    /\ pc' = "down" /\ todo' = {} /\ UNCHANGED <<cur, sweep>>
    /\ st' = [e \in Exps |-> "absent"]
    /\ cut' = cut \cup Cut
    /\ UNCHANGED <<db, pos, channels, outbox, ioErrors, dbErrors, stops, restarts,
                   rewrites, invalid, stranded>>

\* Any channel may latch: safety_loop compares the limits of idle channels too.
Latch(e) ==
    /\ ~latched[e]
    /\ latched' = [latched EXCEPT ![e] = TRUE]
    /\ drive' = [drive EXCEPT ![e] = NoStep]
    /\ UNCHANGED <<db, task, objects, modeReg, shown, tag, chem, outbox, faults, ghosts>>

\* A mirror pass: the registers show the channels.
ModeDriven(s) == IF s = NoStep THEN "idle" ELSE ModeOf[s]
Mirror ==
    /\ shown' = latched
    /\ modeReg' = [e \in Exps |-> ModeDriven(drive[e])]
    /\ UNCHANGED <<db, task, objects, drive, latched, tag, chem, outbox, faults, ghosts>>

\* make soak.stop: an UPDATE behind the orchestrator's back
SoakStop ==
    /\ stops < MaxStops
    /\ stops' = stops + 1
    /\ status' = [e \in Exps |-> IF status[e] \in {"pending", "running"}
                                 THEN "completed" ELSE status[e]]
    /\ UNCHANGED <<rows, task, objects, channels, outbox, crashes, ioErrors, dbErrors,
                   restarts, rewrites, invalid, ghosts>>

\* The scripts overwrite schedules (ON CONFLICT DO UPDATE SET body_yaml), or a
\* new build reads an old one: the body is no longer one the build validates.
Rewrite(e) ==
    /\ rewrites < MaxRewrites /\ e \notin BadExps \cup invalid
    /\ rewrites' = rewrites + 1
    /\ invalid' = invalid \cup {e}
    /\ UNCHANGED <<db, task, objects, channels, outbox, crashes, ioErrors, dbErrors,
                   stops, restarts, ghosts>>

\* The cycler's process restarts: _make_channels gives every channel new cells
\* of the chemistry in its environment, idle and untagged, without a latch.
\* Whatever was under way there has lost its stamp.
CyclerRestart ==
    /\ restarts < MaxRestarts
    /\ restarts' = restarts + 1
    /\ chem' = BootChem
    /\ drive' = [e \in Exps |-> NoStep]
    /\ latched' = [e \in Exps |-> FALSE]
    /\ modeReg' = [e \in Exps |-> "idle"]
    /\ shown' = [e \in Exps |-> FALSE]
    /\ tag' = [e \in Exps |-> 0]
    /\ cut' = cut \cup {e \in Exps : ~Fresh(e)}
    /\ UNCHANGED <<db, task, objects, outbox, crashes, ioErrors, dbErrors, stops,
                   rewrites, invalid, stranded>>

Executor == \/ Boot \/ Poll \/ EndSweep \/ (\E e \in Exps : Pick(e) \/ Refuse(e))
            \/ Resume \/ Kickoff \/ TickStep

\* Nothing drives or reads the channel of an experiment that is never built.
Environment == (\E e \in Exps \ BadExps : Latch(e)) \/ Mirror

Next == Executor \/ Environment \/ IoError \/ DbError \/ Crash \/ SoakStop
        \/ CyclerRestart \/ (\E e \in Exps : Rewrite(e))

Spec == Init /\ [][Next]_vars

\* Fairness: the event loop keeps running the executor, and a step that is
\* ticked again and again ends (end_when is reached or times out).
TickEnded(e) == cur = e /\ TickRead /\ pc' = "tEnd"
FairSpec == /\ Spec
            /\ WF_vars(Executor)
            /\ \A e \in Exps : SF_vars(TickEnded(e))

-----------------------------------------------------------------------------
(* Properties.                                                             *)

\* Rows that are not closed, or missing, although a later step has a row.
Holes(e) ==
    LET used == {p \in Positions : rows[e][p] # "none"}
    IN  {p \in Positions : (\E q \in used : p < q) /\ rows[e][p] # "completed"}

\* The step rows of an experiment have no gap and only the last can be open.
\* Only a failed INSERT leaves a hole, one each: _advance has moved on before
\* its insert_step_row.
LedgerContiguous == \A e \in Exps : Cardinality(Holes(e)) <= dbErrors

\* Between its ticks a running experiment object stands at an open row, except
\* for one per failed statement.
ObjectAtOpenRow ==
    Cardinality({e \in Exps :
        /\ st[e] = "running" /\ (cur # e \/ pc \in {"poll", "pick"})
        /\ ~ (pos[e] \in Positions /\ rows[e][pos[e]] = "running")}) <= dbErrors

\* The ledger of step rows and the executor's objects agree across crashes at
\* every await, resumes and errors: no step is skipped, none is run again once
\* it is closed (insert_step_row, mark_step_completed, _load_resume_state,
\* step_one_tick, _advance, _resume_inflight).
LedgerSound == LedgerContiguous /\ ObjectAtOpenRow

\* The steps of a cycle that have no closed row.
Undone(e, k) == {p \in Positions : CycleOf(p) = k /\ rows[e][p] # "completed"}

\* Analytics keys its row on (experiment, cycle): a cycle_complete event is
\* enqueued at most once, whatever is resumed and retried, and only when every
\* step row of the cycle is closed; a failed statement costs at most one
\* repetition or one row (enqueue_cycle_complete in _advance).
EventOncePerCycle ==
    \A e \in Exps, k \in 0..(Repeat - 1) :
        /\ events[e][k] <= 1 + dbErrors
        /\ events[e][k] > 0 => Cardinality(Undone(e, k)) <= dbErrors

\* The executor's statements and objects refine the lifecycle of an experiment.
Lifecycle == INSTANCE ExperimentLifecycle WITH
    done <- [e \in Exps |-> Cardinality({p \in Positions : rows[e][p] = "completed"})]

\* The orchestrator implements ExperimentLifecycle with the rows it closed as
\* the abstract progress.
ImplementsLifecycle == Lifecycle!Spec

\* A kickoff sweep stops at the first schedule that does not validate.
HeldUp(e) == status[e] = "pending" /\ \E i \in invalid : status[i] = "pending"

\* Every experiment ends, the ones whose chassis or schedule is missing included:
\* after any crash the executor finds each row that is not final and drives it
\* to 'completed' or 'failed'.  The exceptions are the experiments that an error
\* itself left 'running' without an object, until the next boot, and those still
\* pending beside a pending one whose schedule does not validate:
\* _build_experiment "Returns None if the experiment can't be started (bad
\* schedule, terminal state) so the caller can skip it", but the validation
\* error is raised instead and ends the whole chassis's sweep, every time.
EveryExperimentEnds ==
    \A e \in Exps : <>[](status[e] \in Terminal \/ e \in stranded \/ HeldUp(e))

\* A final status stays.  The only way to lose it is a stop by the operator
\* that the executor does not see: mark_experiment_status is an UPDATE without
\* a condition, so the experiment the executor already holds, or has in its
\* sweep, overwrites it with the status of its own next step.
FinalStatusStays ==
    [][\A e \in Exps :
          status[e] \in Terminal /\ status'[e] # status[e]
              => stops > 0 /\ cur = e /\ pc \in DbAwaits]_vars

\* Telemetry is tagged by the channel's CYCLE_COUNT, and the features assume the
\* cells of the schedule: between sweeps a channel that drives the step of its
\* object carries the cycle of that step, as far as the register goes, and has
\* cells of its chemistry, whatever latches, crashes, errors and kickoffs of
\* other chemistries came before.  kickoff writes both and _advance the cycle,
\* but _resume_inflight neither and nothing repeats them, so the exceptions are
\* what lost its stamp: by a fault between its claim in Postgres and the stamp,
\* a restart of the cycler, or another experiment's swap of all the cells.
RunsAsScheduled ==
    \A e \in Exps \ cut :
        st[e] = "running" /\ pc = "poll" /\ drive[e] = StepOf(pos[e])
            => tag[e] = Clamped(CycleOf(pos[e])) /\ chem = ChemOf[e]

\* chaos/powerfail.sh: the resume path must mark experiments failed "rather
\* than leave them stuck in 'running' with no actual cycler activity": an
\* experiment that is 'running' when the orchestrator is down is either taken
\* up again or gets a final status.
NotStuckRunning ==
    \A e \in Exps :
        pc = "down" /\ status[e] = "running" ~>
            status[e] # "running" \/ st[e] = "running"
-----------------------------------------------------------------------------
(* What the properties rest on (OrchestratorProofs).                       *)

ResumeAwaits == {"rRead", "rDrift", "rRow", "rFail", "rDone"}
KickoffAwaits == {"kBad", "kMark", "kRow", "kChem", "kTag", "kSend", "kFail"}
TickAwaits == {"tRead", "tClose", "tFail", "tEnd", "tDone", "tPark", "tRow",
               "tTag", "tSend"}

\* The executor is at one experiment of one sweep, and which objects there are
\* follows from where it is.
Control ==
    /\ pc \in ResumeAwaits => sweep = "resume"
    /\ pc \in KickoffAwaits => sweep = "kickoff"
    /\ pc \in TickAwaits => sweep = "tick"
    /\ pc \in DbAwaits \cup IoAwaits => cur \notin todo
    /\ pc \in {"down", "poll"} => todo = {}
    /\ pc = "down" => \A e \in Exps : st[e] = "absent"
    /\ \A e \in todo : st[e] = IF sweep = "tick" THEN "running" ELSE "absent"
    /\ pc \in ResumeAwaits \cup KickoffAwaits => st[cur] = "absent"
    /\ pc \in {"tRead", "tEnd", "tRow", "tTag", "tSend"} => st[cur] = "running"
    /\ pc \in {"tClose", "tFail"} => st[cur] = "failed"
    /\ pc \in {"tDone", "tPark"} => st[cur] = "completed"

\* An object stands at a step of its schedule, a new one at the first.
Placed ==
    /\ \A e \in Exps : st[e] \in {"local", "running"} => pos[e] \in Positions
    /\ pc \in {"rRead", "rDrift", "rRow", "tClose", "tFail"} => pos[cur] \in Positions
    /\ pc \in KickoffAwaits => pos[cur] = 0

\* Without a stop behind its back the executor knows the status in Postgres.
StatusKnown ==
    stops = 0 =>
        /\ \A e \in Exps : st[e] \in {"local", "running"} => status[e] = "running"
        /\ \A e \in todo : status[e] = IF sweep = "kickoff" THEN "pending" ELSE "running"
        /\ pc \in {"kBad", "kMark"} => status[cur] = "pending"
        /\ pc \in (DbAwaits \cup IoAwaits) \ {"kBad", "kMark", "tPark"} =>
              status[cur] = "running"

\* What is about to be marked completed is at the end of its schedule.
AtEnd == pc \in {"rDone", "tDone"} => pos[cur] = Total

\* What has not been claimed has no rows, also if it was stopped meanwhile.
Unclaimed(e) == \/ status[e] = "pending"
                \/ sweep = "kickoff" /\ e \in todo
                \/ cur = e /\ pc \in {"kBad", "kMark", "kRow"}
Claimed ==
    /\ \A e \in Exps : Unclaimed(e) => \A p \in Positions : rows[e][p] = "none"
    /\ \A e \in Exps : st[e] # "absent" => status[e] # "pending"
    /\ sweep # "kickoff" => \A e \in todo : status[e] # "pending"
    /\ pc \in (DbAwaits \cup IoAwaits) \ {"kBad", "kMark"} => status[cur] # "pending"

\* An object that still moves or has just arrived, and the steps it has left
\* open: those behind it, and its own when the INSERT of its row has failed.
Live(e) == \/ st[e] \in {"local", "running"}
           \/ cur = e /\ pc \in {"rRead", "rDrift", "rRow", "rDone", "tDone"} \cup KickoffAwaits
Inserted(e) == ~(cur = e /\ pc = "tRow")
Unrecorded(e) == st[e] = "running" /\ Inserted(e) /\ rows[e][pos[e]] = "none"
Gaps(e) == {p \in Positions : \/ p < pos[e] /\ rows[e][p] # "completed"
                              \/ p = pos[e] /\ Unrecorded(e)}

\* No row is ahead of an object, and the row at hand is the one it means.
NoRowsAhead ==
    \A e \in Exps : Live(e) => \A p \in Positions : p > pos[e] => rows[e][p] = "none"
RowsAtHand ==
    /\ \A e \in Exps : st[e] = "local" => rows[e][pos[e]] = "running"
    /\ pc \in {"rRead", "rDrift", "rRow"} => rows[cur][pos[cur]] # "completed"
    /\ pc \in {"kChem", "kTag", "kSend"} => rows[cur][0] = "running"
    /\ pc = "tRow" => rows[cur][pos[cur]] = "none"

\* Every gap has cost a failed statement; so has every object between two steps
\* whose row is not open.
GapsCounted == \A e \in Exps : Live(e) => Cardinality(Gaps(e)) <= dbErrors
Astray(e) == st[e] = "running" /\ Inserted(e) /\ rows[e][pos[e]] # "running"
AstrayCounted == Cardinality({e \in Exps : Astray(e)}) <= dbErrors

\* A repetition of an event needs a failed statement at the cycle's last step.
LastOfCycle(k) == (k + 1) * NSteps - 1
EventsCounted ==
    \A e \in Exps, k \in 0..(Repeat - 1) :
        LET l == LastOfCycle(k)
            here == st[e] = "running" /\ pos[e] = l
        IN  /\ events[e][k] <= 1 + dbErrors
            /\ rows[e][l] # "completed" \/ here => events[e][k] <= dbErrors
            /\ here /\ Unrecorded(e) => events[e][k] < dbErrors

\* The cells and the tag of a channel whose stamp nothing has cost it.  Nothing
\* drives the channel of a fresh experiment; from write_chassis_chemistry on the
\* chassis has its cells; a latch stays, and refuses every step.  Otherwise the
\* latest row is an open one of the tagged cycle, or closed at the end of the
\* schedule, or by a failure that has ended the experiment.
Settled(e) == /\ status[e] \in Terminal /\ st[e] \notin {"local", "running"}
              /\ ~(sweep = "resume" /\ e \in todo)
              /\ ~(cur = e /\ pc \in ResumeAwaits)
Latest(e, p) == rows[e][p] # "none" /\ \A q \in Positions : q > p => rows[e][q] = "none"
StampedAt(e) ==
    /\ Fresh(e) => drive[e] = NoStep /\ tag[e] = 0
    /\ ~Fresh(e) => chem = ChemOf[e]
    /\ latched[e] => drive[e] = NoStep
    /\ status[e] = "running" => Started(e) \/ (cur = e /\ pc = "kRow")
    /\ sweep = "resume" /\ e \in todo => Started(e)
    /\ cur = e /\ pc \in ResumeAwaits \cup {"tRow"} => Started(e)
    /\ cur = e /\ pc = "rRead" => \A p \in Positions :
          Latest(e, p) => pos[e] = IF rows[e][p] = "running" THEN p ELSE p + 1
    /\ cur = e /\ pc \in {"rDrift", "rRow"} => rows[e][pos[e]] = "running" \/ latched[e]
    /\ st[e] = "running" /\ Inserted(e) => rows[e][pos[e]] = "running"
    /\ cur = e /\ pc = "tRow" /\ StepOf(pos[e]) # 0 =>
          tag[e] = Clamped(CycleOf(pos[e])) \/ latched[e]
    /\ \A p \in Positions : Latest(e, p) =>
          \/ latched[e]
          \/ cur = e /\ pc \in {"tRow", "tTag"}
          \/ rows[e][p] = "running" /\ tag[e] = Clamped(CycleOf(p))
          \/ /\ rows[e][p] = "completed"
             /\ p = Total - 1 \/ (cur = e /\ pc = "tFail") \/ Settled(e)
Stamped == \A e \in Exps \ cut : StampedAt(e)

OrchControl == TypeOK /\ Control /\ Placed /\ StatusKnown
OrchLedger == /\ Claimed /\ RowsAtHand /\ NoRowsAhead /\ GapsCounted /\ AstrayCounted
              /\ LedgerContiguous /\ EventsCounted /\ EventOncePerCycle
OrchIndInv == OrchControl /\ AtEnd /\ OrchLedger
=============================================================================
