--------------------------- MODULE CyclerLinkProofs ---------------------------
(***************************************************************************)
(* CyclerLink is a Chassis with a particular client, and the guarantees of *)
(* its calls, for every number of channels, every command and every        *)
(* timing.                                                                 *)
(***************************************************************************)
EXTENDS CyclerLink, ChassisProofs, SequenceTheorems

-----------------------------------------------------------------------------
(* The writes of a call.                                                   *)

\* The writes and reads that CyclerClient's calls are made of.
Writes == {"chemistry", "readback", "cycle", "setpoint", "vmax", "tmax", "mode", "kick"}

\* Two sequences side by side, element by element.
LEMMA ConcatIs ==
  ASSUME NEW S, NEW s \in Seq(S), NEW t \in Seq(S), NEW u \in Seq(S),
         Len(u) = Len(s) + Len(t),
         \A i \in 1..Len(s) : u[i] = s[i],
         \A i \in 1..Len(t) : u[Len(s) + i] = t[i]
  PROVE  s \o t = u
<1>1. /\ s \o t \in Seq(S)
      /\ Len(s \o t) = Len(s) + Len(t)
      /\ \A i \in 1..(Len(s) + Len(t)) :
            (s \o t)[i] = IF i <= Len(s) THEN s[i] ELSE t[i - Len(s)]
  BY ConcatProperties
<1>2. \A i \in 1..Len(u) : u[i] = (s \o t)[i]
  <2> SUFFICES ASSUME NEW i \in 1..Len(u) PROVE u[i] = (s \o t)[i]
    OBVIOUS
  <2>1. CASE i <= Len(s)
    BY <1>1, <2>1
  <2>2. CASE i > Len(s)
    <3>1. i - Len(s) \in 1..Len(t) /\ Len(s) + (i - Len(s)) = i
      BY <2>2
    <3> QED
      BY <1>1, <2>2, <3>1
  <2> QED
    BY <2>1, <2>2
<1> QED
  BY <1>1, <1>2, SeqEqual

\* What the calls write, spelled out.
LEMMA CallSequences ==
  /\ KickoffSeq = <<"chemistry", "readback", "cycle", "setpoint", "vmax", "tmax",
                    "mode", "kick">>
  /\ AdvanceSeq(TRUE) = <<"cycle", "setpoint", "vmax", "tmax", "mode", "kick">>
  /\ AdvanceSeq(FALSE) = <<"setpoint", "vmax", "tmax", "mode", "kick">>
<1> DEFINE k == <<"kick">>
           start == <<"chemistry", "readback", "cycle">>
           most == <<"chemistry", "readback", "cycle", "setpoint", "vmax", "tmax", "mode">>
           wrap == <<"cycle", "setpoint", "vmax", "tmax", "mode">>
<1>1. start \o SendCommand = most
  <2> DEFINE s == SendCommand
  <2>1. start \in Seq(Writes) /\ s \in Seq(Writes) /\ most \in Seq(Writes)
    BY DEF Writes, SendCommand
  <2>2. Len(most) = Len(start) + Len(s)
    BY DEF SendCommand
  <2>3. Len(start) = 3 /\ \A i \in 1..3 : most[i] = start[i]
    OBVIOUS
  <2>4. Len(s) = 4 /\ \A i \in 1..4 : most[3 + i] = s[i]
    BY DEF SendCommand
  <2> QED
    BY <2>1, <2>2, <2>3, <2>4, ConcatIs
<1>2. <<"cycle">> \o SendCommand = wrap
  <2> DEFINE c == <<"cycle">>  s == SendCommand
  <2>1. c \in Seq(Writes) /\ s \in Seq(Writes) /\ wrap \in Seq(Writes)
    BY DEF Writes, SendCommand
  <2>2. Len(wrap) = Len(c) + Len(s)
    BY DEF SendCommand
  <2>3. Len(c) = 1 /\ \A i \in 1..1 : wrap[i] = c[i]
    OBVIOUS
  <2>4. Len(s) = 4 /\ \A i \in 1..4 : wrap[1 + i] = s[i]
    BY DEF SendCommand
  <2> QED
    BY <2>1, <2>2, <2>3, <2>4, ConcatIs
<1>3. <<>> \o SendCommand = SendCommand
  BY ConcatEmptySeq DEF SendCommand, Writes
<1>4. ASSUME NEW s \in Seq(Writes), NEW u \in Seq(Writes), Len(u) = Len(s) + 1,
             \A i \in 1..Len(s) : u[i] = s[i], u[Len(s) + 1] = "kick"
      PROVE  s \o k = u
  <2>1. k \in Seq(Writes) /\ Len(k) = 1 /\ k[1] = "kick"
    BY DEF Writes
  <2> HIDE DEF k
  <2>2. /\ Len(u) = Len(s) + Len(k)
        /\ \A i \in 1..Len(k) : u[Len(s) + i] = k[i]
    BY <1>4, <2>1
  <2> QED
    BY <1>4, <2>1, <2>2, ConcatIs
<1>5. most \o k = <<"chemistry", "readback", "cycle", "setpoint", "vmax", "tmax",
                    "mode", "kick">>
  <2> DEFINE u == <<"chemistry", "readback", "cycle", "setpoint", "vmax", "tmax",
                    "mode", "kick">>
  <2>1. most \in Seq(Writes) /\ u \in Seq(Writes)
    BY DEF Writes
  <2>2. Len(most) = 7 /\ Len(u) = 8 /\ u[8] = "kick" /\ \A i \in 1..7 : u[i] = most[i]
    OBVIOUS
  <2> HIDE DEF u, most, k
  <2>3. Len(u) = Len(most) + 1 /\ u[Len(most) + 1] = "kick"
        /\ \A i \in 1..Len(most) : u[i] = most[i]
    BY <2>2
  <2>4. most \o k = u
    BY <2>1, <2>3, <1>4
  <2> QED
    BY <2>4 DEF u
<1>6. wrap \o k = <<"cycle", "setpoint", "vmax", "tmax", "mode", "kick">>
  <2> DEFINE u == <<"cycle", "setpoint", "vmax", "tmax", "mode", "kick">>
  <2>1. wrap \in Seq(Writes) /\ u \in Seq(Writes)
    BY DEF Writes
  <2>2. Len(wrap) = 5 /\ Len(u) = 6 /\ u[6] = "kick" /\ \A i \in 1..5 : u[i] = wrap[i]
    OBVIOUS
  <2> HIDE DEF u, wrap, k
  <2>3. Len(u) = Len(wrap) + 1 /\ u[Len(wrap) + 1] = "kick"
        /\ \A i \in 1..Len(wrap) : u[i] = wrap[i]
    BY <2>2
  <2>4. wrap \o k = u
    BY <2>1, <2>3, <1>4
  <2> QED
    BY <2>4 DEF u
<1>7. SendCommand \o k = <<"setpoint", "vmax", "tmax", "mode", "kick">>
  <2> DEFINE u == <<"setpoint", "vmax", "tmax", "mode", "kick">>
  <2>1. SendCommand \in Seq(Writes) /\ u \in Seq(Writes)
    BY DEF Writes, SendCommand
  <2>2. Len(SendCommand) = 4 /\ Len(u) = 5 /\ u[5] = "kick"
        /\ \A i \in 1..4 : u[i] = SendCommand[i]
    BY DEF SendCommand
  <2> HIDE DEF u, k
  <2>3. Len(u) = Len(SendCommand) + 1 /\ u[Len(SendCommand) + 1] = "kick"
        /\ \A i \in 1..Len(SendCommand) : u[i] = SendCommand[i]
    BY <2>2
  <2>4. SendCommand \o k = u
    BY <2>1, <2>3, <1>4
  <2> QED
    BY <2>4 DEF u
<1> QED
  BY <1>1, <1>2, <1>3, <1>5, <1>6, <1>7 DEF KickoffSeq, AdvanceSeq

\* Which write follows which.
Follows == {<<"chemistry", "readback">>, <<"readback", "cycle">>, <<"cycle", "setpoint">>,
            <<"setpoint", "vmax">>, <<"vmax", "tmax">>, <<"tmax", "mode">>,
            <<"mode", "kick">>}

\* The ends of calls are not empty, and without their first write they are
\* ends of calls again.
LEMMA EndsOfCalls ==
  ASSUME NEW s \in CallEnds
  PROVE  /\ s # <<>> /\ Head(s) \in Writes
         /\ Len(s) # 1 => Tail(s) \in CallEnds /\ <<Head(s), Head(Tail(s))>> \in Follows
         /\ s = <<"kick">> => Head(s) = "kick"
<1> USE DEF CallEnds, Writes, Follows
<1>1. CASE s = KickoffSeq
  BY <1>1, CallSequences
<1>2. CASE s = <<"readback", "cycle", "setpoint", "vmax", "tmax", "mode", "kick">>
  BY <1>2
<1>3. CASE s = <<"cycle", "setpoint", "vmax", "tmax", "mode", "kick">>
  BY <1>3
<1>4. CASE s = <<"setpoint", "vmax", "tmax", "mode", "kick">>
  BY <1>4
<1>5. CASE s = <<"vmax", "tmax", "mode", "kick">>
  BY <1>5
<1>6. CASE s = <<"tmax", "mode", "kick">>
  BY <1>6
<1>7. CASE s = <<"mode", "kick">>
  BY <1>7
<1>11. CASE s = <<"kick">>
  BY <1>11
<1>8. CASE s = SendCommand
  BY <1>8 DEF SendCommand
<1>9. CASE s = <<"vmax", "tmax", "mode">>
  BY <1>9
<1>10. CASE s = <<"tmax", "mode">>
  BY <1>10
<1>12. CASE s = <<"mode">>
  BY <1>12
<1> QED
  BY <1>1, <1>2, <1>3, <1>4, <1>5, <1>6, <1>7, <1>8, <1>9, <1>10,
     <1>11, <1>12

\* The calls begin with their first write.
LEMMA CallsBegin ==
  /\ KickoffSeq \in CallEnds /\ Head(KickoffSeq) = "chemistry"
  /\ SendCommand \in CallEnds /\ Head(SendCommand) = "setpoint"
  /\ AdvanceSeq(TRUE) \in CallEnds /\ Head(AdvanceSeq(TRUE)) = "cycle"
  /\ AdvanceSeq(FALSE) \in CallEnds /\ Head(AdvanceSeq(FALSE)) = "setpoint"
<1>1. KickoffSeq \in CallEnds /\ SendCommand \in CallEnds
  BY DEF CallEnds
<1>2. AdvanceSeq(TRUE) \in CallEnds /\ AdvanceSeq(FALSE) \in CallEnds
  BY CallSequences DEF CallEnds
<1>3. Head(KickoffSeq) = "chemistry" /\ Head(SendCommand) = "setpoint"
  BY CallSequences DEF SendCommand
<1>4. Head(AdvanceSeq(TRUE)) = "cycle"
  <2> DEFINE t == AdvanceSeq(TRUE)
  <2>1. t = <<"cycle", "setpoint", "vmax", "tmax", "mode", "kick">>
    BY CallSequences
  <2> HIDE DEF t
  <2>2. Head(t) = "cycle"
    BY <2>1
  <2> QED
    BY <2>2 DEF t
<1>5. Head(AdvanceSeq(FALSE)) = "setpoint"
  <2> DEFINE t == AdvanceSeq(FALSE)
  <2>1. t = <<"setpoint", "vmax", "tmax", "mode", "kick">>
    BY CallSequences
  <2> HIDE DEF t
  <2>2. Head(t) = "setpoint"
    BY <2>1
  <2> QED
    BY <2>2 DEF t
<1> QED
  BY <1>1, <1>2, <1>3, <1>4, <1>5

-----------------------------------------------------------------------------
(* Facts shared by the steps of a call.                                    *)

\* A command is a mode a register can hold and a setpoint.
LEMMA CommandTypes ==
  ASSUME NEW cmd \in Commands \cup {IdleCommand}
  PROVE  cmd[1] \in Modes /\ cmd[1] \in RegModes /\ cmd[2] \in Setpoints
  BY CommandAssumption, SetpointAssumption DEF IdleCommand, Modes, RegModes

\* The absence of a call is not a call.
LEMMA NoCallFacts ==
  /\ NoCall.seq = <<>> /\ NoCall.ch \in Channels /\ NoCall.kickoff = FALSE
  /\ NoCall.cmd = IdleCommand /\ NoCall.tag \in CycleTags
  /\ NoCall.chem = UnknownChem /\ NoCall.mirrored = FALSE /\ NoCall \notin Calls
<1>1. (CHOOSE c \in Channels : TRUE) \in Channels
  BY ChannelsAssumption
<1>2. <<>> \notin CallEnds
  BY EndsOfCalls
<1> QED
  BY <1>1, <1>2, CycleAssumption DEF NoCall, Calls

\* A finished write leaves the call with its next write, or no call.
LEMMA FinishStep ==
  ASSUME CallTypes, call # NoCall, call' = Finish
  PROVE  /\ CallTypes'
         /\ \/ call' = NoCall
            \/ /\ call' # NoCall
               /\ call'.ch = call.ch /\ call'.cmd = call.cmd /\ call'.chem = call.chem
               /\ call'.kickoff = call.kickoff /\ call'.mirrored = call.mirrored
               /\ <<Head(call.seq), Head(call'.seq)>> \in Follows
<1>1. call \in Calls
  BY DEF CallTypes
<1>2. CASE Len(call.seq) = 1
  BY <1>2, NoCallFacts DEF Finish, CallTypes
<1>3. CASE Len(call.seq) # 1
  <2>1. call.seq \in CallEnds
    BY <1>1 DEF Calls
  <2>2. Tail(call.seq) \in CallEnds /\ <<Head(call.seq), Head(Tail(call.seq))>> \in Follows
    BY <1>3, <2>1, EndsOfCalls
  <2>3. call' = [call EXCEPT !.seq = Tail(call.seq)]
    BY <1>3 DEF Finish
  <2>4. call' \in Calls /\ call'.seq = Tail(call.seq) /\ call'.ch = call.ch
        /\ call'.cmd = call.cmd /\ call'.chem = call.chem /\ call'.kickoff = call.kickoff
        /\ call'.mirrored = call.mirrored
    BY <1>1, <2>2, <2>3 DEF Calls
  <2> QED
    BY <2>2, <2>4, NoCallFacts DEF CallTypes
<1> QED
  BY <1>2, <1>3

\* An applied command is what an unlatched channel and its registers hold.
LEMMA DispatchLands ==
  ASSUME IndInv, NEW c \in Channels, NEW m \in RegModes, NEW s \in Setpoints,
         NEW v \in VLevels, NEW t \in TLevels, Dispatch(c, m, s, v, t)
  PROVE  /\ latched' = latched /\ chem' = chem
         /\ regSetpoint'[c] = s /\ regVMax'[c] = v /\ regTMax'[c] = t
         /\ latched[c] = "NONE" => /\ mode'[c] = DecodeMode(m) /\ setpoint'[c] = s
                                   /\ vmax'[c] = v /\ tmax'[c] = t
         /\ mode'[c] # mode[c] => mode'[c] = DecodeMode(m)
         /\ latched[c] # "NONE" => mode'[c] = "idle"
         /\ \A d \in Channels \ {c} : mode'[d] = mode[d]
<1> DEFINE d == DecodeMode(m)
<1>1. ApplyCommand(c, d, s, v, t)
  BY DEF Dispatch
<1>2. d \in Modes
  BY DecodeType
<1> HIDE DEF d
<1>3. /\ latched' = latched /\ chem' = chem
      /\ regSetpoint'[c] = s /\ regVMax'[c] = v /\ regTMax'[c] = t
  BY DEF Dispatch, chassisVars, IndInv, TypeOK, RegisterTypes
<1>4. /\ latched[c] = "NONE" => /\ mode'[c] = d /\ setpoint'[c] = s
                                /\ vmax'[c] = v /\ tmax'[c] = t
      /\ mode'[c] # mode[c] => mode'[c] = d
      /\ latched[c] # "NONE" => mode'[c] = "idle"
      /\ \A x \in Channels \ {c} : mode'[x] = mode[x]
  BY <1>1, <1>2 DEF ApplyCommand, IndInv, TypeOK, ChannelTypes, LatchedIsIdle
<1> QED
  BY <1>3, <1>4 DEF d

\* The four registers of a channel hold values of their types.
LEMMA RegistersTyped ==
  ASSUME IndInv, NEW c \in Channels
  PROVE  /\ regMode[c] \in RegModes /\ regSetpoint[c] \in Setpoints
         /\ regVMax[c] \in VLevels /\ regTMax[c] \in TLevels
  BY DEF IndInv, TypeOK, RegisterTypes

\* The parts of a call in flight.
LEMMA CallTyped ==
  ASSUME CallTypes, call # NoCall
  PROVE  /\ call.ch \in Channels /\ call.cmd \in Commands \cup {IdleCommand}
         /\ call.tag \in CycleTags /\ call.kickoff \in BOOLEAN
         /\ call.chem \in Chemistries \cup {UnknownChem}
         /\ call.mirrored \in BOOLEAN
         /\ call.seq \in CallEnds /\ Head(call.seq) \in Writes
  BY EndsOfCalls DEF CallTypes, Calls

-----------------------------------------------------------------------------
(* The link is a chassis with one particular client.                       *)

\* Every step of the link is a step of the chassis, or leaves it alone.
LEMMA LinkStep == LinkIndInv /\ [LinkNext]_linkVars => [Next]_vars
<1> SUFFICES ASSUME LinkIndInv, LinkNext PROVE Next \/ UNCHANGED vars
  BY DEF linkVars
<1>1. CASE Executor
  <2>1. CASE \/ \E c \in Channels, cmd \in Commands :
                 \/ \E k \in OrchChems : StartKickoff(c, cmd, k)
                 \/ StartTick(c, cmd, FALSE, 0)
                 \/ \E n \in CycleTags : StartTick(c, cmd, TRUE, n)
             \/ \E c \in Channels : StartPark(c)
             \/ CallReadback \/ Abort
    BY <2>1 DEF StartKickoff, StartTick, StartPark, CallReadback, Abort
  <2>2. CASE call # NoCall /\ (CallSetpoint \/ CallVMax \/ CallTMax \/ CallMode)
    <3>1. call.ch \in Channels /\ call.cmd[1] \in RegModes /\ call.cmd[2] \in Setpoints
      BY <2>2, CallTyped, CommandTypes DEF LinkIndInv
    <3>2. Write(call.ch)
      BY <2>2, <3>1, CommandAssumption
         DEF CallSetpoint, CallVMax, CallTMax, CallMode, Write
    <3> QED
      BY <3>1, <3>2 DEF Next
  <2>3. CASE call # NoCall /\ (CallKick \/ CallCycle \/ CallChemistry)
    <3>1. call.ch \in Channels /\ call.tag \in CycleTags
          /\ call.chem \in Chemistries \cup {UnknownChem}
      BY <2>3, CallTyped DEF LinkIndInv
    <3>2. Write(call.ch) \/ WriteChassis
      BY <2>3, <3>1 DEF CallKick, CallCycle, CallChemistry, Write, WriteChassis
    <3> QED
      BY <3>1, <3>2 DEF Next
  <2>4. CallSetpoint \/ CallVMax \/ CallTMax \/ CallMode \/ CallKick \/ CallCycle
          \/ CallChemistry => call # NoCall
    BY DEF CallSetpoint, CallVMax, CallTMax, CallMode, CallKick, CallCycle,
           CallChemistry, At
  <2> QED
    BY <1>1, <2>1, <2>2, <2>3, <2>4 DEF Executor
<1>2. CASE Keepalive \/ Heartbeat \/ ChassisStep
  BY <1>2 DEF Keepalive, Heartbeat, ChassisStep, Mirror, Loops, Next, Write, WriteChassis
<1> QED
  BY <1>1, <1>2 DEF LinkNext

-----------------------------------------------------------------------------
(* What a call has written is still there.                                 *)

\* A step that leaves the call alone and the unlatched channel it is about
\* as it is; a mirror pass copies the channel's setpoint and the cells' id.
LEMMA CallKept ==
  ASSUME CallTypes, WritesHeld, ChemistryHeld, call' = call, chem' = chem,
         regChem' = regChem \/ regChem' = chem,
         latched'[call.ch] = "NONE" =>
             /\ latched[call.ch] = "NONE"
             /\ mode'[call.ch] = mode[call.ch] /\ setpoint'[call.ch] = setpoint[call.ch]
             /\ vmax'[call.ch] = vmax[call.ch] /\ tmax'[call.ch] = tmax[call.ch]
             /\ regVMax'[call.ch] = regVMax[call.ch]
             /\ regTMax'[call.ch] = regTMax[call.ch]
             /\ regSetpoint'[call.ch] \in {regSetpoint[call.ch], setpoint[call.ch]}
  PROVE  CallTypes' /\ WritesHeld' /\ ChemistryHeld'
<1>1. CallTypes' /\ ChemistryHeld'
  BY DEF CallTypes, ChemistryHeld
<1>2. WritesHeld'
  BY DEF WritesHeld, SetpointHeld, VMaxHeld, TMaxHeld
<1> QED
  BY <1>1, <1>2

\* The loops of the chassis, its clock and the kicks.
LEMMA LoopsKeepCall ==
  ASSUME LinkIndInv, Keepalive \/ Heartbeat \/ ChassisStep
  PROVE  CallTypes' /\ WritesHeld' /\ ChemistryHeld'
<1> DEFINE x == call.ch
<1>0. x \in Channels
  BY CallTyped, NoCallFacts DEF LinkIndInv
<1> USE DEF LinkIndInv, IndInv, TypeOK, ChannelTypes
<1> HIDE DEF x
<1> DEFINE Kept ==
       latched'[x] = "NONE" =>
             /\ latched[x] = "NONE"
             /\ mode'[x] = mode[x] /\ setpoint'[x] = setpoint[x]
             /\ vmax'[x] = vmax[x] /\ tmax'[x] = tmax[x]
             /\ regVMax'[x] = regVMax[x] /\ regTMax'[x] = regTMax[x]
             /\ regSetpoint'[x] \in {regSetpoint[x], setpoint[x]}
<1>1. CASE Keepalive \/ Heartbeat
  <2>1. UNCHANGED <<call, chem, latched, mode, setpoint, vmax, tmax, regVMax, regTMax,
                    regSetpoint, regChem>>
    BY <1>1 DEF Keepalive, Heartbeat, KickChannel, KickChassis, channelVars,
                chassisVars, registers
  <2> QED
    BY <2>1, CallKept
<1>2. ASSUME NEW c \in Channels, SafetyLoop(c) \/ CellLoop(c)
      PROVE  chem' = chem /\ regChem' = regChem /\ Kept
  <2>1. UNCHANGED <<chem, vmax, tmax, regVMax, regTMax, regSetpoint, regChem>>
    BY <1>2 DEF SafetyLoop, CellLoop, chassisVars, registers
  <2>2. (\E e \in Errors \ {"NONE"} : Halt(c, e)) \/ UNCHANGED <<latched, mode, setpoint>>
    BY <1>2 DEF SafetyLoop, CellLoop, SafetyVerdict, Errors, LimitErrors
  <2> QED
    BY <1>0, <2>1, <2>2 DEF Halt
<1>3. ASSUME ChassisWatchdog PROVE chem' = chem /\ regChem' = regChem /\ Kept
  BY <1>0, <1>3 DEF ChassisWatchdog, WatchdogPass, registers
<1>4. ASSUME Tick PROVE chem' = chem /\ regChem' = regChem /\ Kept
  BY <1>4 DEF Tick, registers
<1>5. CASE ChassisStep /\ call' = call /\ ~MirrorLoop
  <2>1. chem' = chem /\ regChem' = regChem /\ Kept
    BY <1>2, <1>3, <1>4, <1>5 DEF ChassisStep, Mirror
  <2> QED
    BY <1>5, <2>1, CallKept DEF x
<1>6. CASE Mirror
  <2>1. chem' = chem /\ regChem' = chem /\ Kept
    BY <1>0, <1>6 DEF Mirror, MirrorLoop, channelVars, chassisVars
  <2>2. CASE call' = call
    BY <2>1, <2>2, CallKept DEF x
  <2>3. CASE call' # call
    <3>1. /\ call # NoCall /\ call \in Calls /\ Head(call.seq) = "readback"
          /\ call' = [call EXCEPT !.mirrored = TRUE]
      BY <1>6, <2>3 DEF Mirror, CallTypes
    <3>2. call' \in Calls /\ call'.seq = call.seq /\ call'.chem = call.chem
      BY <3>1 DEF Calls
    <3>3. WritesHeld'
      BY <3>1, <3>2 DEF WritesHeld
    <3>4. ChemistryHeld'
      BY <2>1, <3>1, <3>2 DEF ChemistryHeld, Calls
    <3> QED
      BY <3>2, <3>3, <3>4 DEF CallTypes
  <2> QED
    BY <2>2, <2>3
<1>7. ChassisStep => Mirror \/ (call' = call /\ ~MirrorLoop) \/ (call' = call /\ MirrorLoop)
  BY DEF ChassisStep
<1>8. CASE ChassisStep /\ call' = call /\ MirrorLoop
  <2>1. chem' = chem /\ regChem' = chem /\ Kept
    BY <1>0, <1>8 DEF MirrorLoop, channelVars, chassisVars
  <2> QED
    BY <1>8, <2>1, CallKept DEF x
<1> QED
  BY <1>1, <1>5, <1>6, <1>7, <1>8

\* The writes of a call: each finds the earlier ones in place and adds its own.
LEMMA WriteKeepsCall ==
  ASSUME LinkIndInv, CallSetpoint \/ CallVMax \/ CallTMax \/ CallMode
  PROVE  CallTypes' /\ WritesHeld' /\ ChemistryHeld'
<1> DEFINE x == call.ch
<1>0. /\ call # NoCall /\ call' = Finish /\ CallTypes /\ WritesHeld /\ ChemistryHeld /\ IndInv
  BY DEF LinkIndInv, CallSetpoint, CallVMax, CallTMax, CallMode, At
<1>1. /\ x \in Channels /\ call.cmd[1] \in Modes /\ call.cmd[1] \in RegModes
      /\ call.cmd[2] \in Setpoints /\ CommandVMax \in VLevels /\ CommandTMax \in TLevels
  BY <1>0, CallTyped, CommandTypes, CommandAssumption
<1>2. /\ regMode[x] \in RegModes /\ regSetpoint[x] \in Setpoints
      /\ regVMax[x] \in VLevels /\ regTMax[x] \in TLevels
  BY <1>0, <1>1, RegistersTyped
<1>3. CallTypes'
  BY <1>0, FinishStep
<1>4. latched' = latched /\ chem' = chem
  BY <1>1, <1>2, <1>0, DispatchLands DEF CallSetpoint, CallVMax, CallTMax, CallMode,
     WriteSetpoint, WriteVMax, WriteTMax, WriteMode
<1>5. Head(call.seq) \in {"setpoint", "vmax", "tmax", "mode"}
  BY DEF CallSetpoint, CallVMax, CallTMax, CallMode, At
<1>6. \/ call' = NoCall
      \/ /\ call'.ch = call.ch /\ call'.cmd = call.cmd /\ call'.chem = call.chem
         /\ call'.kickoff = call.kickoff /\ call'.mirrored = call.mirrored
         /\ <<Head(call.seq), Head(call'.seq)>> \in Follows
  BY <1>0, FinishStep
<1>7. ChemistryHeld'
  BY <1>0, <1>4, <1>5, <1>6 DEF ChemistryHeld, Follows
<1> DEFINE h == Head(call.seq)
           g == Head(call'.seq)
<1>8. SUFFICES ASSUME call' # NoCall, latched[x] = "NONE", call'.ch = x,
                      call'.cmd = call.cmd, <<h, g>> \in Follows
               PROVE  /\ g \in {"vmax", "tmax", "mode", "kick"} =>
                            /\ setpoint'[x] = call.cmd[2] /\ regSetpoint'[x] = call.cmd[2]
                      /\ g \in {"tmax", "mode", "kick"} =>
                            /\ vmax'[x] = CommandVMax /\ regVMax'[x] = CommandVMax
                      /\ g \in {"mode", "kick"} =>
                            /\ tmax'[x] = CommandTMax /\ regTMax'[x] = CommandTMax
                      /\ g = "kick" => mode'[x] = call.cmd[1]
  BY <1>3, <1>4, <1>6, <1>7 DEF WritesHeld, SetpointHeld, VMaxHeld, TMaxHeld
<1>9. /\ h \in {"vmax", "tmax", "mode"} => regSetpoint[x] = call.cmd[2]
      /\ h \in {"tmax", "mode"} => regVMax[x] = CommandVMax
      /\ h = "mode" => regTMax[x] = CommandTMax
  BY <1>0, <1>8 DEF WritesHeld, SetpointHeld, VMaxHeld, TMaxHeld
<1> HIDE DEF x, h, g
<1>10. CASE CallSetpoint
  <2>1. h = "setpoint" /\ g = "vmax" /\ WriteSetpoint(x, call.cmd[2])
    BY <1>10, <1>8 DEF CallSetpoint, At, Follows, h, x
  <2> QED
    BY <2>1, <1>0, <1>1, <1>2, <1>8, DispatchLands DEF WriteSetpoint
<1>11. CASE CallVMax
  <2>1. h = "vmax" /\ g = "tmax" /\ WriteVMax(x, CommandVMax)
    BY <1>11, <1>8 DEF CallVMax, At, Follows, h, x
  <2> QED
    BY <2>1, <1>0, <1>1, <1>2, <1>8, <1>9, DispatchLands DEF WriteVMax
<1>12. CASE CallTMax
  <2>1. h = "tmax" /\ g = "mode" /\ WriteTMax(x, CommandTMax)
    BY <1>12, <1>8 DEF CallTMax, At, Follows, h, x
  <2> QED
    BY <2>1, <1>0, <1>1, <1>2, <1>8, <1>9, DispatchLands DEF WriteTMax
<1>13. CASE CallMode
  <2>1. h = "mode" /\ g = "kick" /\ WriteMode(x, call.cmd[1])
    BY <1>13, <1>8 DEF CallMode, At, Follows, h, x
  <2>2. DecodeMode(call.cmd[1]) = call.cmd[1]
    BY <1>1 DEF DecodeMode
  <2> QED
    BY <2>1, <2>2, <1>0, <1>1, <1>2, <1>8, <1>9, DispatchLands DEF WriteMode
<1> QED
  BY <1>10, <1>11, <1>12, <1>13

\* The other steps of a call.  None of them is between the writes whose effect
\* must last, except the kick, which ends the call.
LEMMA OtherCallSteps ==
  ASSUME LinkIndInv, CallKick \/ CallCycle \/ CallChemistry \/ CallReadback \/ Abort
  PROVE  CallTypes' /\ WritesHeld' /\ ChemistryHeld'
<1>0. call # NoCall /\ CallTypes /\ WritesHeld /\ ChemistryHeld
  BY DEF LinkIndInv, CallKick, CallCycle, CallChemistry, CallReadback, Abort, At
<1>1. ASSUME call' = NoCall PROVE CallTypes' /\ WritesHeld' /\ ChemistryHeld'
  BY <1>1, NoCallFacts DEF CallTypes, WritesHeld, ChemistryHeld
<1>2. ASSUME call' = Finish, Head(call.seq) \in {"chemistry", "readback", "cycle", "kick"},
             Head(call.seq) = "chemistry" => ~call.mirrored,
             Head(call.seq) = "chemistry" /\ call.chem \in Chemistries => chem' = call.chem,
             Head(call.seq) # "chemistry" => chem' = chem,
             Head(call.seq) = "readback" => regChem = call.chem
      PROVE  CallTypes' /\ WritesHeld' /\ ChemistryHeld'
  <2>1. CallTypes'
    BY <1>0, <1>2, FinishStep
  <2>2. \/ call' = NoCall
        \/ /\ call'.chem = call.chem /\ call'.kickoff = call.kickoff
           /\ call'.mirrored = call.mirrored
           /\ <<Head(call.seq), Head(call'.seq)>> \in Follows
    BY <1>0, <1>2, FinishStep
  <2>3. call' = NoCall \/ Head(call'.seq) \in {"readback", "cycle", "setpoint"}
    BY <1>2, <2>2 DEF Follows
  <2>4. WritesHeld'
    BY <2>3 DEF WritesHeld
  <2>5. ChemistryHeld'
    BY <1>0, <1>2, <2>2 DEF ChemistryHeld, Follows
  <2> QED
    BY <2>1, <2>4, <2>5
<1>3. CASE CallKick \/ CallCycle
  <2>1. /\ call' = Finish /\ chem' = chem /\ Head(call.seq) \in {"cycle", "kick"}
    BY <1>3 DEF CallKick, CallCycle, At, KickChannel, WriteCycle, chassisVars
  <2> QED
    BY <2>1, <1>2
<1>4. CASE CallChemistry
  <2>1. call' = Finish /\ Head(call.seq) = "chemistry" /\ WriteChemistry(call.chem)
    BY <1>4 DEF CallChemistry, At
  <2>2. call.chem \in Chemistries => chem' = call.chem
    BY <2>1 DEF WriteChemistry
  <2>3. ~call.mirrored
    BY <1>0, <2>1 DEF ChemistryHeld
  <2> QED
    BY <2>1, <2>2, <2>3, <1>2
<1>5. CASE CallReadback
  <2>1. /\ call' = NoCall \/ (call' = Finish /\ regChem = call.chem)
        /\ chem' = chem /\ Head(call.seq) = "readback"
    BY <1>5 DEF CallReadback, vars, chassisVars
  <2> QED
    BY <2>1, <1>1, <1>2
<1>6. CASE Abort
  BY <1>6, <1>1 DEF Abort
<1> QED
  BY <1>3, <1>4, <1>5, <1>6

\* A new call has written nothing yet.
LEMMA StartsKeepCall ==
  ASSUME LinkIndInv, NEW c \in Channels,
         \/ \E cmd \in Commands :
              \/ \E k \in OrchChems : StartKickoff(c, cmd, k)
              \/ StartTick(c, cmd, FALSE, 0)
              \/ \E n \in CycleTags : StartTick(c, cmd, TRUE, n)
         \/ StartPark(c)
  PROVE  CallTypes' /\ WritesHeld' /\ ChemistryHeld'
<1>1. ASSUME call' \in Calls, ~call'.mirrored,
             Head(call'.seq) \in {"chemistry", "cycle", "setpoint"},
             call'.kickoff => Head(call'.seq) = "chemistry"
      PROVE  CallTypes' /\ WritesHeld' /\ ChemistryHeld'
  BY <1>1 DEF CallTypes, WritesHeld, ChemistryHeld
<1>2. ASSUME NEW cmd \in Commands, NEW k \in OrchChems, StartKickoff(c, cmd, k)
      PROVE  CallTypes' /\ WritesHeld' /\ ChemistryHeld'
  <2>1. call' = [seq |-> KickoffSeq, ch |-> c, cmd |-> cmd, tag |-> 0, kickoff |-> TRUE,
                 chem |-> k, mirrored |-> FALSE]
    BY <1>2 DEF StartKickoff
  <2>2. call' \in Calls /\ ~call'.mirrored /\ Head(call'.seq) = "chemistry"
    BY <2>1, CallsBegin, CommandAssumption, CycleAssumption DEF Calls
  <2> QED
    BY <2>2, <1>1
<1>3. ASSUME NEW cmd \in Commands, NEW n \in CycleTags, NEW q \in CallEnds,
             Head(q) \in {"cycle", "setpoint"},
             call' = [seq |-> q, ch |-> c, cmd |-> cmd, tag |-> n, kickoff |-> FALSE,
                      chem |-> UnknownChem, mirrored |-> FALSE]
      PROVE  CallTypes' /\ WritesHeld' /\ ChemistryHeld'
  <2>1. call' \in Calls /\ call'.kickoff = FALSE /\ ~call'.mirrored /\ call'.seq = q
    BY <1>3 DEF Calls
  <2> QED
    BY <2>1, <1>1, <1>3
<1>4. ASSUME NEW cmd \in Commands, StartTick(c, cmd, FALSE, 0)
      PROVE  CallTypes' /\ WritesHeld' /\ ChemistryHeld'
  BY <1>3, <1>4, CallsBegin, CycleAssumption DEF StartTick
<1>5. ASSUME NEW cmd \in Commands, NEW n \in CycleTags, StartTick(c, cmd, TRUE, n)
      PROVE  CallTypes' /\ WritesHeld' /\ ChemistryHeld'
  BY <1>3, <1>5, CallsBegin DEF StartTick
<1>6. ASSUME StartPark(c)
      PROVE  CallTypes' /\ WritesHeld' /\ ChemistryHeld'
  <2>1. call' = [seq |-> SendCommand, ch |-> c, cmd |-> IdleCommand, tag |-> 0,
                 kickoff |-> FALSE, chem |-> UnknownChem, mirrored |-> FALSE]
    BY <1>6 DEF StartPark, NoCall
  <2>2. /\ call' \in Calls /\ call'.kickoff = FALSE /\ ~call'.mirrored
        /\ Head(call'.seq) = "setpoint"
    BY <2>1, CallsBegin, CycleAssumption DEF Calls
  <2> QED
    BY <2>2, <1>1
<1> QED
  BY <1>2, <1>4, <1>5, <1>6

-----------------------------------------------------------------------------
(* The invariant, and what follows from it.                                *)

\* The booting chassis without a call satisfies the invariant.
LEMMA LinkInitInd == LinkInit => LinkIndInv
  BY InitInd, NoCallFacts DEF LinkInit, LinkIndInv, CallTypes, WritesHeld, ChemistryHeld

\* Every step of the executor, the keepalive, the heartbeat and the chassis
\* keeps it.
LEMMA LinkNextInd == LinkIndInv /\ [LinkNext]_linkVars => LinkIndInv'
<1> SUFFICES ASSUME LinkIndInv, [LinkNext]_linkVars PROVE LinkIndInv'
  OBVIOUS
<1>1. IndInv'
  BY LinkStep, NextInd DEF LinkIndInv
<1>2. CASE Executor
  BY <1>1, <1>2, StartsKeepCall, WriteKeepsCall, OtherCallSteps DEF Executor, LinkIndInv
<1>3. CASE Keepalive \/ Heartbeat \/ ChassisStep
  BY <1>1, <1>3, LoopsKeepCall DEF LinkIndInv
<1>4. CASE UNCHANGED linkVars
  <2>1. UNCHANGED <<call, chem, latched, mode, setpoint, vmax, tmax, regVMax, regTMax,
                    regSetpoint, regChem>>
    BY <1>4 DEF linkVars, vars, channelVars, chassisVars, registers
  <2>2. CallTypes' /\ WritesHeld' /\ ChemistryHeld'
    BY <2>1, CallKept DEF LinkIndInv
  <2> QED
    BY <1>1, <2>2 DEF LinkIndInv
<1> QED
  BY <1>2, <1>3, <1>4 DEF LinkNext

\* The inductive invariant of the link holds in every reachable state.
THEOREM LinkInvariance == LinkSpec => []LinkIndInv
  BY LinkInitInd, LinkNextInd, PTL DEF LinkSpec

\* The executor, the keepalive and the heartbeat are a client of the chassis:
\* every behaviour of the link is one of Chassis, so that every property of
\* ChassisProofs holds of it, whatever writes interleave.
THEOREM LinkImplementsChassis == LinkSpec => Spec
<1>1. LinkInit => Init
  BY DEF LinkInit
<1> QED
  BY <1>1, LinkStep, LinkInvariance, PTL DEF LinkSpec, Spec

\* Registers, channels and the call in flight stay in their types, and there
\* is no call exactly when there is nothing left to write (send_command).
THEOREM LinkTypeCorrect == LinkSpec => []LinkTypeOK
<1>1. LinkIndInv => LinkTypeOK
  <2> SUFFICES ASSUME LinkIndInv PROVE LinkTypeOK
    OBVIOUS
  <2>1. TypeOK /\ CallTypes
    BY DEF LinkIndInv, IndInv
  <2>2. CASE call = NoCall
    BY <2>1, <2>2, NoCallFacts DEF LinkTypeOK
  <2>3. CASE call # NoCall
    <3>1. call.seq # <<>>
      BY <2>1, <2>3, CallTyped, EndsOfCalls
    <3> QED
      BY <2>1, <2>3, <3>1, CallTyped DEF LinkTypeOK
  <2> QED
    BY <2>2, <2>3
<1> QED
  BY <1>1, LinkInvariance, PTL

\* A channel that is not latched runs exactly the command whose mode was
\* written, whatever runs between the four writes of send_command.
THEOREM CommandLandsAlways == LinkSpec => []CommandLands
<1>1. LinkIndInv => CommandLands
  <2> SUFFICES ASSUME LinkIndInv, call # NoCall, call.seq = <<"kick">>,
                      latched[call.ch] = "NONE"
               PROVE  SetpointHeld /\ VMaxHeld /\ TMaxHeld /\ mode[call.ch] = call.cmd[1]
    BY DEF CommandLands, SetpointHeld, VMaxHeld, TMaxHeld
  <2>1. Head(call.seq) = "kick"
    BY CallTyped, EndsOfCalls DEF LinkIndInv
  <2> QED
    BY <2>1 DEF LinkIndInv, WritesHeld
<1> QED
  BY <1>1, LinkInvariance, PTL

\* After kickoff's read-back the cells are of the schedule's chemistry, unless
\* the cycler rejected the id and no mirror pass came before the read-back: the
\* mirror pass is what catches a rejected id (modbus_server.py setValues).
THEOREM ReadbackVerified == LinkSpec => []ReadbackVerifies
<1>1. LinkIndInv => ReadbackVerifies
  BY NoCallFacts, CallTyped DEF LinkIndInv, ChemistryHeld, ReadbackVerifies
<1> QED
  BY <1>1, LinkInvariance, PTL

\* A channel whose MODE register shows idle comes out of idle only by the mode
\* of the command in flight, with its setpoint and limits (send_command writes
\* the mode last).
THEOREM ActivatesAsCommanded == LinkSpec => ActivatesWithCommand
<1> DEFINE Out(c) == mode[c] = "idle" /\ regMode[c] = "idle" /\ mode'[c] # "idle"
           Done(c) == /\ call # NoCall /\ call.ch = c
                      /\ <<mode'[c], setpoint'[c]>> = call.cmd
                      /\ vmax'[c] = CommandVMax /\ tmax'[c] = CommandTMax
           A == \A c \in Channels : Out(c) => Done(c)
<1>1. LinkIndInv /\ [LinkNext]_linkVars => [A]_linkVars
  <2> SUFFICES ASSUME LinkIndInv, LinkNext, NEW c \in Channels, Out(c)
               PROVE  Done(c)
    OBVIOUS
  <2>t. mode \in [Channels -> Modes] /\ IndInv /\ CallTypes /\ WritesHeld
    BY DEF LinkIndInv, IndInv, TypeOK, ChannelTypes
  <2>1. ASSUME ChassisStep \/ Keepalive \/ Heartbeat PROVE FALSE
    <3>1. ASSUME NEW d \in Channels, SafetyLoop(d) \/ CellLoop(d) PROVE FALSE
      BY <3>1, <2>t DEF SafetyLoop, CellLoop, Halt
    <3>2. ASSUME ChassisWatchdog PROVE FALSE
      BY <3>2 DEF ChassisWatchdog, WatchdogPass
    <3>3. ASSUME MirrorLoop \/ Tick \/ Keepalive \/ Heartbeat PROVE FALSE
      BY <3>3 DEF MirrorLoop, Tick, Keepalive, Heartbeat, KickChannel, KickChassis,
         channelVars
    <3> QED
      BY <2>1, <3>1, <3>2, <3>3 DEF ChassisStep, Mirror
  <2>2. ASSUME mode' = mode PROVE FALSE
    BY <2>2
  <2>3. ASSUME CallKick \/ CallCycle \/ CallChemistry PROVE FALSE
    BY <2>3 DEF CallKick, CallCycle, CallChemistry, KickChannel, WriteCycle,
       WriteChemistry, channelVars
  <2>4. ASSUME call # NoCall, NEW m \in RegModes, NEW s \in Setpoints, NEW v \in VLevels,
               NEW t \in TLevels, Dispatch(call.ch, m, s, v, t)
        PROVE  /\ call.ch = c /\ m # "idle" /\ latched[c] = "NONE"
               /\ mode'[c] = DecodeMode(m) /\ setpoint'[c] = s
               /\ vmax'[c] = v /\ tmax'[c] = t
    <3>1. call.ch \in Channels
      BY <2>4, <2>t, CallTyped
    <3>2. DecodeMode("idle") = "idle"
      BY DEF DecodeMode
    <3> QED
      BY <2>4, <2>t, <3>1, <3>2, DispatchLands
  <2>5. ASSUME CallSetpoint \/ CallVMax \/ CallTMax PROVE FALSE
    <3>1. call # NoCall
      BY <2>5 DEF CallSetpoint, CallVMax, CallTMax, At
    <3>2. /\ call.ch \in Channels /\ call.cmd[2] \in Setpoints
          /\ CommandVMax \in VLevels /\ CommandTMax \in TLevels
      BY <3>1, <2>t, CallTyped, CommandTypes, CommandAssumption
    <3>3. /\ regMode[call.ch] \in RegModes /\ regSetpoint[call.ch] \in Setpoints
          /\ regVMax[call.ch] \in VLevels /\ regTMax[call.ch] \in TLevels
      BY <3>2, <2>t, RegistersTyped
    <3> QED
      BY <2>5, <3>1, <3>2, <3>3, <2>4 DEF CallSetpoint, CallVMax, CallTMax,
         WriteSetpoint, WriteVMax, WriteTMax
  <2>6. CASE CallMode
    <3>1. call # NoCall /\ Head(call.seq) = "mode"
      BY <2>6 DEF CallMode, At
    <3>2. /\ call.ch \in Channels /\ call.cmd[1] \in RegModes /\ call.cmd[1] \in Modes
          /\ call.cmd \in Commands \cup {IdleCommand}
      BY <3>1, <2>t, CallTyped, CommandTypes
    <3>3. /\ regSetpoint[call.ch] \in Setpoints
          /\ regVMax[call.ch] \in VLevels /\ regTMax[call.ch] \in TLevels
      BY <3>2, <2>t, RegistersTyped
    <3>4. /\ call.ch = c /\ latched[c] = "NONE"
          /\ mode'[c] = DecodeMode(call.cmd[1]) /\ setpoint'[c] = regSetpoint[c]
          /\ vmax'[c] = regVMax[c] /\ tmax'[c] = regTMax[c]
      BY <2>6, <3>1, <3>2, <3>3, <2>4 DEF CallMode, WriteMode
    <3>5. /\ regSetpoint[c] = call.cmd[2] /\ regVMax[c] = CommandVMax
          /\ regTMax[c] = CommandTMax
      BY <3>1, <3>4, <2>t DEF WritesHeld, SetpointHeld, VMaxHeld, TMaxHeld
    <3>6. DecodeMode(call.cmd[1]) = call.cmd[1]
      BY <3>2 DEF DecodeMode
    <3>7. call.cmd = <<call.cmd[1], call.cmd[2]>>
      BY <3>2, CommandAssumption DEF IdleCommand
    <3> QED
      BY <3>1, <3>4, <3>5, <3>6, <3>7
  <2>7. CASE Executor
    BY <2>7, <2>2, <2>3, <2>5, <2>6 DEF Executor, StartKickoff, StartTick, StartPark,
       CallReadback, Abort, vars, channelVars
  <2> QED
    BY <2>1, <2>7 DEF LinkNext
<1> QED
  BY <1>1, LinkInvariance, PTL DEF LinkSpec, ActivatesWithCommand
=============================================================================
