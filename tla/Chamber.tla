------------------------------ MODULE Chamber ------------------------------
(***************************************************************************)
(* Thermal chambers and the watchdog's chamber monitor.  A chamber drifts  *)
(* towards its setpoint and publishes both; the dispatcher of the watchdog *)
(* folds each message into a dict of chambers, and a periodic sweep of     *)
(* that dict reports a chamber that was out of its band for longer than    *)
(* Duration.  Every MQTT session has a new dict and a new startup grace,   *)
(* the EdgeTrigger outlives the session.                                   *)
(*                                                                         *)
(* The sweep awaits the AlertSink inside its iteration of the dict, and    *)
(* the dispatcher runs meanwhile: a chamber it adds makes the iteration    *)
(* raise RuntimeError, which ends the service.  emit itself is Watchdog's  *)
(* subject.  A chamber is its deviation from the setpoint.                 *)
(***************************************************************************)
EXTENDS Integers, Sequences, SequencesExt

CONSTANTS
    Chambers,
    MaxGap,          \* bound: deviation from the setpoint
    Band,            \* breach_band_c
    Duration,        \* breach_duration_s, in ticks
    Grace,           \* startup_grace_s
    CheckPeriod,     \* check_period_s
    Lag,             \* ticks the sweep may be late or wait in emit
    MaxSetpoints,    \* bound: setpoint writes
    MaxSessions      \* bound: lost sessions and restarts of the service

\* A sweep after the grace sees a breach of the new session before it counts as
\* sustained.  The defaults are 300, 60 and 5 s.
ASSUME ChamberAssumption ==
    /\ MaxGap \in Nat /\ Band \in Nat /\ Grace \in Nat /\ Lag \in Nat
    /\ CheckPeriod \in Nat \ {0} /\ MaxSetpoints \in Nat /\ MaxSessions \in Nat
    /\ Duration \in Nat /\ Duration >= Grace + CheckPeriod + Lag

VARIABLES
    gap,        \* per chamber, |measured_c - setpoint_c|
    heard,      \* the keys of ChamberStates._by_id, in order of insertion
    breach,     \* per chamber, the age of its breach timer, None without one
    edge,       \* EdgeTrigger: chambers whose condition was true at the last update
    grace,      \* time left of the startup grace
    wait,       \* time until the sweep's sleep ends
    sweep,      \* the sweep: the position it awaits emit at (0: asleep), the
                \* size of the dict when it began
    reported,   \* chambers whose alert was begun in this session and since their
                \* last in-band message
    late,       \* a chamber was heard for the first time after the grace
    live, died, \* the session is up; the service has exited
    sessions, setpoints

monitor == <<heard, breach, edge, grace, wait, sweep>>
run == <<live, died, sessions>>
vars == <<gap, monitor, reported, late, run, setpoints>>

None == -1
NoBreach == [c \in Chambers |-> None]
Asleep == [at |-> 0, size |-> 0]

\* A new ChamberStates and new tasks (_run_session).
NewSession ==
    /\ heard' = <<>> /\ breach' = NoBreach
    /\ grace' = Grace /\ wait' = CheckPeriod /\ sweep' = Asleep
    /\ reported' = {} /\ late' = FALSE

Init ==
    /\ gap \in [Chambers -> 0..MaxGap]
    /\ heard = <<>> /\ breach = NoBreach /\ edge = {}
    /\ grace = Grace /\ wait = CheckPeriod /\ sweep = Asleep
    /\ reported = {} /\ late = FALSE
    /\ live = TRUE /\ died = FALSE /\ sessions = 0 /\ setpoints = 0

-----------------------------------------------------------------------------
(* The chamber service.                                                    *)

\* A write of SETPOINT_DC.
WriteSetpoint(c) ==
    /\ setpoints < MaxSetpoints /\ setpoints' = setpoints + 1
    /\ \E g \in 0..MaxGap : gap' = [gap EXCEPT ![c] = g]
    /\ UNCHANGED <<monitor, reported, late, run>>

\* thermal_loop: a first-order lag comes closer and never overshoots.
ThermalStep(c) ==
    /\ gap[c] > 0 /\ gap' = [gap EXCEPT ![c] = @ - 1]
    /\ UNCHANGED <<monitor, reported, late, run, setpoints>>

InBreach(c) == gap[c] > Band

-----------------------------------------------------------------------------
(* The dispatcher.                                                         *)

\* The first out-of-band message starts the timer, an in-band one clears it.
BreachAfter(c) ==
    IF ~InBreach(c) THEN None
    ELSE IF breach[c] = None THEN 0 ELSE breach[c]

\* Mutant: an in-band chamber is removed from the dict.
HeardAfterForgetting(c) ==
    IF ~InBreach(c) THEN SelectSeq(heard, LAMBDA d : d # c)
    ELSE IF Contains(heard, c) THEN heard ELSE Append(heard, c)

\* _by_id.setdefault
HeardAfter(c) == IF Contains(heard, c) THEN heard ELSE Append(heard, c)

\* ambient_publisher publishes with QoS 0; _dispatch_messages hands the message
\* to update_from_msg.
Message(c) ==
    /\ live
    /\ heard' = HeardAfter(c)
    /\ breach' = [breach EXCEPT ![c] = BreachAfter(c)]
    /\ reported' = IF InBreach(c) THEN reported ELSE reported \ {c}
    /\ late' = (late \/ (grace = 0 /\ ~Contains(heard, c)))
    /\ UNCHANGED <<gap, edge, grace, wait, sweep, run, setpoints>>

-----------------------------------------------------------------------------
(* chamber_check_loop.                                                     *)

Sustained(c) == breach[c] > Duration

\* Mutant: the edge is not stored when it rises.
EdgeAfterForgetting(upto) == edge \ ToSet(upto)

\* EdgeTrigger.update for each of the chambers looked at
EdgeAfter(upto) == (edge \ ToSet(upto)) \cup {c \in ToSet(upto) : Sustained(c)}

\* The iteration goes on at position i of the dict until a rising edge is to be
\* emitted or the dict is exhausted.
SweepFrom(i, size) ==
    LET rising == {j \in i..Len(heard) : Sustained(heard[j]) /\ heard[j] \notin edge}
        first  == CHOOSE j \in rising : \A k \in rising : j <= k
    IN  IF rising = {}
        THEN /\ edge' = EdgeAfter(SubSeq(heard, i, Len(heard)))
             /\ sweep' = Asleep /\ wait' = CheckPeriod
             /\ UNCHANGED reported
        ELSE /\ edge' = EdgeAfter(SubSeq(heard, i, first))
             /\ sweep' = [at |-> first, size |-> size]
             /\ reported' = reported \cup {heard[first]}
             /\ UNCHANGED wait

\* The sleep is over; during the grace the loop just sleeps again.
Sweep ==
    /\ live /\ sweep = Asleep /\ wait <= 0
    /\ IF grace > 0 THEN wait' = CheckPeriod /\ UNCHANGED <<edge, sweep, reported>>
       ELSE SweepFrom(1, Len(heard))
    /\ UNCHANGED <<gap, heard, breach, grace, late, run, setpoints>>

\* emit returns and the iteration continues, unless the dict has grown.
EmitDone ==
    /\ live /\ sweep.at > 0
    /\ IF Len(heard) # sweep.size
       THEN died' = TRUE /\ live' = FALSE /\ UNCHANGED <<edge, sweep, wait, reported>>
       ELSE SweepFrom(sweep.at + 1, sweep.size) /\ UNCHANGED <<died, live>>
    /\ UNCHANGED <<gap, heard, breach, grace, late, sessions, setpoints>>

\* One tick of the wall clock.  Ages beyond Duration are alike.
Tick ==
    /\ live /\ wait > -Lag
    /\ breach' = [c \in Chambers |->
                     IF breach[c] \in {None, Duration + 1} THEN breach[c] ELSE breach[c] + 1]
    /\ grace' = IF grace = 0 THEN 0 ELSE grace - 1
    /\ wait' = wait - 1
    /\ UNCHANGED <<gap, heard, edge, sweep, reported, late, run, setpoints>>

-----------------------------------------------------------------------------
(* Sessions.                                                               *)

\* MqttError cancels the tasks, also inside emit.
SessionLost ==
    /\ live /\ live' = FALSE
    /\ sessions < MaxSessions /\ sessions' = sessions + 1
    /\ UNCHANGED <<gap, monitor, reported, late, died, setpoints>>

\* Mutant: the next session goes on with the old ChamberStates.
SessionStartsOld ==
    /\ ~live /\ ~died /\ live' = TRUE
    /\ grace' = Grace /\ wait' = CheckPeriod /\ sweep' = Asleep
    /\ reported' = {} /\ late' = FALSE
    /\ UNCHANGED <<gap, heard, breach, edge, died, sessions, setpoints>>

SessionStarts ==
    /\ ~live /\ ~died /\ live' = TRUE
    /\ NewSession
    /\ UNCHANGED <<gap, edge, died, sessions, setpoints>>

\* The container is started again: a new process has a new EdgeTrigger.
Restart ==
    /\ died /\ died' = FALSE /\ live' = TRUE
    /\ sessions < MaxSessions /\ sessions' = sessions + 1
    /\ NewSession /\ edge' = {}
    /\ UNCHANGED <<gap, setpoints>>

Next == \/ \E c \in Chambers : WriteSetpoint(c) \/ ThermalStep(c) \/ Message(c)
        \/ Sweep \/ EmitDone \/ Tick
        \/ SessionLost \/ SessionStarts \/ Restart

Spec == Init /\ [][Next]_vars

\* Chambers keep publishing, time passes, the event loop runs the sweep, and
\* the broker comes back.  No chamber has to reach its setpoint.
FairSpec ==
    /\ Spec
    /\ \A c \in Chambers : WF_vars(Message(c))
    /\ WF_vars(Tick) /\ WF_vars(Sweep) /\ WF_vars(EmitDone) /\ WF_vars(SessionStarts)

-----------------------------------------------------------------------------
(* Properties.                                                             *)

\* Types; the timer of a chamber that was not heard does not run.
TypeOK ==
    /\ gap \in [Chambers -> 0..MaxGap]
    /\ IsInjective(heard) /\ ToSet(heard) \subseteq Chambers
    /\ breach \in [Chambers -> None..(Duration + 1)]
    /\ \A c \in Chambers : breach[c] # None => Contains(heard, c)
    /\ edge \subseteq Chambers /\ reported \subseteq Chambers
    /\ grace \in 0..Grace /\ wait \in -Lag..CheckPeriod
    /\ sweep.at \in 0..Len(heard) /\ sweep.size \in 0..Len(heard)
    /\ sessions \in 0..MaxSessions /\ setpoints \in 0..MaxSetpoints

\* The iteration over the live dict (chamber_check_loop) fails only when a
\* chamber reports for the first time after the startup grace: chambers that
\* come, go and change their state during an emit do not disturb it.
SweepSurvives == died => late

\* "A sustained breach yields exactly one alert per rising edge"
\* (chamber_check_loop): within a session no second alert starts for a chamber
\* before an in-band message of it.
OneAlertPerBreach ==
    [][\A c \in Chambers :
          (sweep'.at > 0 /\ sweep'.at # sweep.at /\ heard[sweep'.at] = c) => c \notin reported]_vars

\* A chamber that stays out of its band is reported and stays so, although
\* sessions are lost in the middle of emit, the edge outlives them and the
\* grace suppresses sweeps, unless the service has exited for good.
BreachReported ==
    \A c \in Chambers : <>[]InBreach(c) => <>[](c \in reported \/ died)

-----------------------------------------------------------------------------
(* What the properties rest on (ChamberProofs).                            *)

\* A reported chamber is out of its band for too long, and the EdgeTrigger
\* holds it: only an in-band message takes either away.
ReportedHeld == \A c \in reported : Sustained(c) /\ c \in edge

\* The sweep that awaits emit began after the grace, and the dict it iterates
\* has the size it began with unless a chamber was late.
SweepSize == sweep.at > 0 => grace = 0 /\ (Len(heard) = sweep.size \/ late)

ChamberIndInv ==
    /\ TypeOK /\ heard \in Seq(Chambers)
    /\ ReportedHeld /\ SweepSize /\ SweepSurvives
=============================================================================
