----------------------------- MODULE CyclerLink -----------------------------
(***************************************************************************)
(* The orchestrator's side of one chassis: CyclerClient, used by the       *)
(* executor (kickoff, step_one_tick, _advance), by channel_keepalive and   *)
(* by heartbeat.  The executor works through a chassis serially, so there  *)
(* is at most one executor call in flight; each call is a sequence of      *)
(* separate Modbus writes with an await between them, interleaved with the *)
(* loops of the chassis, with the keepalive and with the heartbeat.  A     *)
(* call ends early when a write fails or the orchestrator dies.            *)
(***************************************************************************)
EXTENDS Chassis, Sequences

CONSTANTS
    Commands,       \* (mode, setpoint) pairs step_to_command produces
    CommandVMax,    \* v_max_mv send_command always writes (4500)
    CommandTMax,    \* t_max_dc send_command always writes (600)
    OrchChems       \* chemistry ids the orchestrator's build may write: its
                    \* table can hold one that the cycler's build has not got

ASSUME CommandAssumption ==
    /\ Commands \subseteq ActiveModes \X Setpoints
    /\ CommandVMax \in VLevels
    /\ CommandTMax \in TLevels
    /\ OrchChems \subseteq Chemistries \cup {UnknownChem}

VARIABLE
    call            \* the executor's call in flight; its field mirrored is a
                    \* ghost: a mirror pass came before the read-back

linkVars == <<vars, call>>

IdleCommand == <<"idle", ZeroSetpoint>>

\* Mutant: the mode is written before what it runs with.
SendCommandModeFirst == <<"mode", "setpoint", "vmax", "tmax">>

\* The writes of a call, in order.  kickoff and a cycle wrap stamp the cycle
\* before the command; parking a channel has no kick.
SendCommand == <<"setpoint", "vmax", "tmax", "mode">>
KickoffSeq == <<"chemistry", "readback", "cycle">> \o SendCommand \o <<"kick">>
AdvanceSeq(wrap) == (IF wrap THEN <<"cycle">> ELSE <<>>) \o SendCommand \o <<"kick">>

NoCall == [seq |-> <<>>, ch |-> CHOOSE c \in Channels : TRUE,
           cmd |-> IdleCommand, tag |-> 0, kickoff |-> FALSE,
           chem |-> UnknownChem, mirrored |-> FALSE]

\* Types; the executor has at most one call to the chassis in flight.
LinkTypeOK ==
    /\ TypeOK
    /\ call.seq = <<>> <=> call = NoCall
    /\ call.ch \in Channels
    /\ call.cmd \in Commands \cup {IdleCommand}
    /\ call.tag \in CycleTags
    /\ call.chem \in Chemistries \cup {UnknownChem}
    /\ call.mirrored \in BOOLEAN

LinkInit == Init /\ call = NoCall

-----------------------------------------------------------------------------
(* Calls the executor starts.                                              *)

StartKickoff(c, cmd, k) ==
    /\ call = NoCall
    /\ call' = [seq |-> KickoffSeq, ch |-> c, cmd |-> cmd, tag |-> 0,
                kickoff |-> TRUE, chem |-> k, mirrored |-> FALSE]
    /\ UNCHANGED vars

\* step_one_tick reads the mirrored registers; only a channel that reports
\* no error gets its command again, or the command of the next step.
StartTick(c, cmd, wrap, n) ==
    /\ call = NoCall
    /\ regError[c] = "NONE"
    /\ call' = [seq |-> AdvanceSeq(wrap), ch |-> c, cmd |-> cmd, tag |-> n,
                kickoff |-> FALSE, chem |-> UnknownChem, mirrored |-> FALSE]
    /\ UNCHANGED vars

\* _advance past the last cycle parks the channel.
StartPark(c) ==
    /\ call = NoCall
    /\ regError[c] = "NONE"
    /\ call' = [NoCall EXCEPT !.seq = SendCommand, !.ch = c, !.cmd = IdleCommand]
    /\ UNCHANGED vars

-----------------------------------------------------------------------------
(* One write of the call in flight.                                        *)

\* Mutant: a finished call is never released.
FinishKeeps == [call EXCEPT !.seq = Tail(@)]

Finish == IF Len(call.seq) = 1 THEN NoCall ELSE [call EXCEPT !.seq = Tail(@)]

At(w) == call # NoCall /\ Head(call.seq) = w /\ call' = Finish

CallSetpoint == At("setpoint") /\ WriteSetpoint(call.ch, call.cmd[2])
CallVMax == At("vmax") /\ WriteVMax(call.ch, CommandVMax)
CallTMax == At("tmax") /\ WriteTMax(call.ch, CommandTMax)
CallMode == At("mode") /\ WriteMode(call.ch, call.cmd[1])
CallKick == At("kick") /\ KickChannel(call.ch)
CallCycle == At("cycle") /\ WriteCycle(call.ch, call.tag)
CallChemistry == At("chemistry") /\ WriteChemistry(call.chem)

\* Mutant: the value read back is not compared.
CallReadbackBlind ==
    /\ call # NoCall /\ Head(call.seq) = "readback"
    /\ call' = Finish
    /\ UNCHANGED vars

\* kickoff reads CHEMISTRY back and gives up when it differs.
CallReadback ==
    /\ call # NoCall /\ Head(call.seq) = "readback"
    /\ call' = IF regChem = call.chem THEN Finish ELSE NoCall
    /\ UNCHANGED vars

\* A Modbus error or the death of the orchestrator ends the call.
Abort ==
    /\ call # NoCall
    /\ call' = NoCall
    /\ UNCHANGED vars

Executor ==
    \/ \E c \in Channels, cmd \in Commands :
          \/ \E k \in OrchChems : StartKickoff(c, cmd, k)
          \/ StartTick(c, cmd, FALSE, 0)
          \/ \E n \in CycleTags : StartTick(c, cmd, TRUE, n)
    \/ \E c \in Channels : StartPark(c)
    \/ CallSetpoint \/ CallVMax \/ CallTMax \/ CallMode \/ CallKick
    \/ CallCycle \/ CallChemistry \/ CallReadback
    \/ Abort

\* channel_keepalive_loop and heartbeat_loop share the connection.
Keepalive == (\E c \in Channels : KickChannel(c)) /\ UNCHANGED call
Heartbeat == KickChassis /\ UNCHANGED call

\* A mirror pass between the write of CHEMISTRY and its read-back puts the
\* id of the cells in the place of the one that was written.
Mirror ==
    /\ MirrorLoop
    /\ call' = IF call # NoCall /\ Head(call.seq) = "readback"
               THEN [call EXCEPT !.mirrored = TRUE] ELSE call

ChassisStep ==
    \/ /\ \/ \E c \in Channels : SafetyLoop(c) \/ CellLoop(c)
          \/ ChassisWatchdog \/ Tick
       /\ UNCHANGED call
    \/ Mirror

LinkNext == Executor \/ Keepalive \/ Heartbeat \/ ChassisStep

LinkSpec == LinkInit /\ [][LinkNext]_linkVars

-----------------------------------------------------------------------------
(* Properties.                                                             *)

\* Once the mode has been written, a channel that is not latched runs exactly
\* the command: no mirror pass, kick or safety pass between the four writes
\* of send_command loses one of them.
CommandLands ==
    call # NoCall /\ call.seq = <<"kick">> /\ latched[call.ch] = "NONE" =>
        /\ mode[call.ch] = call.cmd[1]
        /\ setpoint[call.ch] = call.cmd[2]
        /\ vmax[call.ch] = CommandVMax
        /\ tmax[call.ch] = CommandTMax

\* What kickoff's read-back ("a read-back verifies the write took effect",
\* executor.py) is worth.  Past it the cells are of the schedule's chemistry,
\* whatever loops and kicks ran since the write, with one exception: setValues
\* stores the id before _set_chemistry rejects one it has no parameters for, so
\* a rejected id is read back as it was written unless a mirror pass ran in
\* between, and the kickoff goes on with the wrong cells.
ReadbackVerifies ==
    call.kickoff /\ Head(call.seq) \notin {"chemistry", "readback"} =>
        chem = call.chem \/ (call.chem \notin Chemistries /\ ~call.mirrored)

\* cycler_client.send_command: safety and setpoint are written before the mode
\* "so the cycler doesn't briefly run with stale safety/setpoint when
\* transitioning into an active mode": a channel comes out of idle with the
\* command in flight and its limits, whatever loop or kick runs between the
\* writes.  The exception is a MODE register that still holds an active mode:
\* after a chemistry swap, until the next mirror pass, _dispatch takes the mode
\* of the program that was swapped out from it at the first write of any kind.
ActivatesWithCommand ==
    [][\A c \in Channels :
          mode[c] = "idle" /\ regMode[c] = "idle" /\ mode'[c] # "idle" =>
              /\ call # NoCall /\ call.ch = c
              /\ <<mode'[c], setpoint'[c]>> = call.cmd
              /\ vmax'[c] = CommandVMax /\ tmax'[c] = CommandTMax]_linkVars

-----------------------------------------------------------------------------
(* The inductive invariant behind these properties: what is left of a call *)
(* is an end of kickoff's or of park's writes, and what the call has       *)
(* already written is still there on a channel that is not latched.  The   *)
(* registers are part of it, because the next write re-applies them all.   *)

CallEnds ==
    {KickoffSeq,
     <<"readback", "cycle", "setpoint", "vmax", "tmax", "mode", "kick">>,
     <<"cycle", "setpoint", "vmax", "tmax", "mode", "kick">>,
     <<"setpoint", "vmax", "tmax", "mode", "kick">>,
     <<"vmax", "tmax", "mode", "kick">>,
     <<"tmax", "mode", "kick">>,
     <<"mode", "kick">>,
     <<"kick">>,
     SendCommand,
     <<"vmax", "tmax", "mode">>,
     <<"tmax", "mode">>,
     <<"mode">>}

Calls == [seq : CallEnds, ch : Channels, cmd : Commands \cup {IdleCommand},
          tag : CycleTags, kickoff : BOOLEAN, chem : Chemistries \cup {UnknownChem},
          mirrored : BOOLEAN]

CallTypes == call = NoCall \/ call \in Calls

\* What the writes that are done have left, while the channel is unlatched.
SetpointHeld ==
    setpoint[call.ch] = call.cmd[2] /\ regSetpoint[call.ch] = call.cmd[2]
VMaxHeld == vmax[call.ch] = CommandVMax /\ regVMax[call.ch] = CommandVMax
TMaxHeld == tmax[call.ch] = CommandTMax /\ regTMax[call.ch] = CommandTMax

WritesHeld ==
    call # NoCall /\ latched[call.ch] = "NONE" =>
        /\ Head(call.seq) \in {"vmax", "tmax", "mode", "kick"} => SetpointHeld
        /\ Head(call.seq) \in {"tmax", "mode", "kick"} => VMaxHeld
        /\ Head(call.seq) \in {"mode", "kick"} => TMaxHeld
        /\ Head(call.seq) = "kick" => mode[call.ch] = call.cmd[1]

\* From the write of CHEMISTRY on the cells are the call's, if the cycler knows
\* their chemistry: only the call in flight writes it.  The register shows the
\* cells once a mirror pass has run; past the read-back, so does the call.
ChemistryHeld ==
    /\ call # NoCall /\ Head(call.seq) = "chemistry" => ~call.mirrored
    /\ call # NoCall /\ call.kickoff /\ Head(call.seq) # "chemistry" =>
          /\ call.chem \in Chemistries => chem = call.chem
          /\ call.mirrored =>
                IF Head(call.seq) = "readback" THEN regChem = chem ELSE chem = call.chem

LinkIndInv == IndInv /\ CallTypes /\ WritesHeld /\ ChemistryHeld
=============================================================================
