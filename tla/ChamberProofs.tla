---------------------------- MODULE ChamberProofs ----------------------------
(***************************************************************************)
(* The safety properties of Chamber, for every set of chambers, every      *)
(* band, duration, grace and check period, and every number of sessions.   *)
(***************************************************************************)
EXTENDS Chamber, SequenceTheorems, WellFoundedInduction, TLAPS

(* Facts about the operators.                                              *)

\* A non-empty set of positions has a first one.
LEMMA FirstExists ==
  ASSUME NEW T \in SUBSET Nat, T # {}
  PROVE  \E j \in T : \A k \in T : j <= k
<1>1. IsWellFoundedOn(OpToRel(<, Nat), Nat)
  BY NatLessThanWellFounded
<1>2. PICK x \in T : \A y \in T : ~(<<y, x>> \in OpToRel(<, Nat))
  BY <1>1, WFMin
<1>3. \A y \in T : ~(y < x)
  BY <1>2 DEF OpToRel
<1> QED
  BY <1>3

\* Where a chamber is in the dict, and that it has one key.
LEMMA HeardFacts ==
  ASSUME ChamberIndInv
  PROVE  /\ Len(heard) \in Nat /\ DOMAIN heard = 1..Len(heard)
         /\ \A i \in 1..Len(heard) : heard[i] \in Chambers
         /\ \A i, j \in 1..Len(heard) : heard[i] = heard[j] => i = j
<1>1. Len(heard) \in Nat /\ DOMAIN heard = 1..Len(heard)
  BY LenProperties DEF ChamberIndInv
<1>2. \A i \in 1..Len(heard) : heard[i] \in Chambers
  BY ElementOfSeq DEF ChamberIndInv
<1> QED
  BY <1>1, <1>2 DEF ChamberIndInv, TypeOK, IsInjective

\* setdefault keeps the keys, in their order, and adds at most the new one.
LEMMA HeardAfterFacts ==
  ASSUME ChamberIndInv, NEW c \in Chambers
  PROVE  /\ HeardAfter(c) \in Seq(Chambers)
         /\ IsInjective(HeardAfter(c)) /\ ToSet(HeardAfter(c)) \subseteq Chambers
         /\ Len(HeardAfter(c)) \in Nat /\ Len(HeardAfter(c)) >= Len(heard)
         /\ Contains(HeardAfter(c), c)
         /\ \A d \in Chambers : Contains(heard, d) => Contains(HeardAfter(c), d)
<1> USE HeardFacts
<1>1. CASE Contains(heard, c)
  BY <1>1 DEF HeardAfter, ChamberIndInv, TypeOK
<1>2. CASE ~Contains(heard, c)
  <2> DEFINE h == Append(heard, c)
  <2>1. h = HeardAfter(c)
    BY <1>2 DEF HeardAfter
  <2>2. /\ h \in Seq(Chambers) /\ Len(h) = Len(heard) + 1
        /\ \A i \in 1..Len(heard) : h[i] = heard[i]
        /\ h[Len(heard) + 1] = c
    BY AppendProperties DEF ChamberIndInv
  <2> HIDE DEF h
  <2>3. DOMAIN h = 1..(Len(heard) + 1)
    BY <2>2, LenProperties
  <2>4. \A i \in 1..Len(heard) : heard[i] # c
    BY <1>2 DEF Contains
  <2>5. IsInjective(h)
    BY <2>2, <2>3, <2>4 DEF IsInjective
  <2>6. ToSet(h) \subseteq Chambers
    BY <2>2, <2>3 DEF ToSet
  <2>7. Contains(h, c) /\ \A d \in Chambers : Contains(heard, d) => Contains(h, d)
    BY <2>2 DEF Contains
  <2> QED
    BY <2>1, <2>2, <2>5, <2>6, <2>7
<1> QED
  BY <1>1, <1>2

\* update for some of the chambers keeps the edge of those still out of band,
\* and stores the edge of each of them it looked at.
LEMMA EdgeFacts ==
  ASSUME ChamberIndInv, NEW i \in Nat \ {0}, NEW j \in 0..Len(heard)
  PROVE  LET e == EdgeAfter(SubSeq(heard, i, j)) IN
         /\ e \subseteq Chambers
         /\ \A c \in edge : Sustained(c) => c \in e
         /\ \A k \in i..j : Sustained(heard[k]) => heard[k] \in e
<1> USE HeardFacts
<1> DEFINE u == SubSeq(heard, i, j)
<1>1. /\ u \in Seq(Chambers)
      /\ Len(u) = IF i <= j THEN j - i + 1 ELSE 0
      /\ \A k \in 1..(j - i + 1) : u[k] = heard[i + k - 1]
  BY SubSeqProperties
<1> HIDE DEF u
<1>2. DOMAIN u = 1..Len(u) /\ \A k \in 1..Len(u) : u[k] \in Chambers
  BY <1>1, LenProperties, ElementOfSeq
<1>3. ToSet(u) \subseteq Chambers
  BY <1>2 DEF ToSet
<1>4. ASSUME NEW k \in i..j PROVE heard[k] \in ToSet(u)
  <2>1. k - i + 1 \in 1..(j - i + 1) /\ k - i + 1 \in DOMAIN u
    BY <1>1, <1>2
  <2>2. u[k - i + 1] = heard[k]
    BY <2>1, <1>1
  <2> QED
    BY <2>1, <2>2 DEF ToSet
<1>5. edge \subseteq Chambers
  BY DEF ChamberIndInv, TypeOK
<1> QED
  BY <1>3, <1>4, <1>5 DEF EdgeAfter, u

\* Where the iteration stops: at the first rising edge from position i on, or
\* behind the last chamber.
LEMMA SweepFromFacts ==
  ASSUME ChamberIndInv, NEW i \in Nat \ {0}, NEW size, SweepFrom(i, size)
  PROVE  /\ edge' \subseteq Chambers
         /\ \A c \in edge : Sustained(c) => c \in edge'
         /\ \/ sweep' = Asleep /\ wait' = CheckPeriod /\ reported' = reported
            \/ \E f \in i..Len(heard) :
                  /\ Sustained(heard[f]) /\ heard[f] \notin edge
                  /\ heard[f] \in edge' /\ wait' = wait
                  /\ sweep' = [at |-> f, size |-> size]
                  /\ reported' = reported \cup {heard[f]}
<1> USE HeardFacts
<1> DEFINE rising == {j \in i..Len(heard) : Sustained(heard[j]) /\ heard[j] \notin edge}
           first  == CHOOSE j \in rising : \A k \in rising : j <= k
<1>1. CASE rising = {}
  <2>1. /\ edge' = EdgeAfter(SubSeq(heard, i, Len(heard)))
        /\ sweep' = Asleep /\ wait' = CheckPeriod /\ reported' = reported
    BY <1>1 DEF SweepFrom
  <2> QED
    BY <2>1, EdgeFacts
<1>2. CASE rising # {}
  <2>1. first \in rising
    <3>1. rising \in SUBSET Nat
      OBVIOUS
    <3>2. \E j \in rising : \A k \in rising : j <= k
      BY <3>1, <1>2, FirstExists
    <3> HIDE DEF rising
    <3> QED
      BY <3>2
  <2>2. /\ edge' = EdgeAfter(SubSeq(heard, i, first))
        /\ sweep' = [at |-> first, size |-> size]
        /\ reported' = reported \cup {heard[first]} /\ wait' = wait
    BY <1>2 DEF SweepFrom
  <2> HIDE DEF first
  <2>3. first \in i..Len(heard) /\ Sustained(heard[first]) /\ heard[first] \notin edge
    BY <2>1
  <2>4. first \in 0..Len(heard)
    BY <2>3
  <2> QED
    BY <2>2, <2>3, <2>4, EdgeFacts
<1> QED
  BY <1>1, <1>2

-----------------------------------------------------------------------------
(* The inductive invariant.                                                *)

\* A fresh session, with whatever edge the service has, satisfies it.
LEMMA FreshSession ==
  ASSUME heard' = <<>>, breach' = NoBreach, grace' = Grace, wait' = CheckPeriod,
         sweep' = Asleep, reported' = {}, edge' \subseteq Chambers, died' = FALSE,
         gap' \in [Chambers -> 0..MaxGap], sessions' \in 0..MaxSessions,
         setpoints' \in 0..MaxSetpoints
  PROVE  ChamberIndInv'
<1>1. heard' \in Seq(Chambers) /\ Len(heard') = 0
  BY EmptySeq
<1>2. DOMAIN heard' = {}
  BY <1>1, LenProperties
<1>3. IsInjective(heard') /\ ToSet(heard') \subseteq Chambers
  BY <1>2 DEF IsInjective, ToSet
<1>4. TypeOK'
  BY <1>1, <1>3, ChamberAssumption DEF TypeOK, NoBreach, None, Asleep
<1> QED
  BY <1>1, <1>4 DEF ChamberIndInv, ReportedHeld, SweepSize, SweepSurvives, Asleep

\* Initially nothing is heard and nothing reported.
LEMMA ChamberInit == Init => ChamberIndInv
<1> SUFFICES ASSUME Init PROVE ChamberIndInv
  OBVIOUS
<1> USE DEF Init
<1>1. heard \in Seq(Chambers) /\ Len(heard) = 0
  BY EmptySeq
<1>2. DOMAIN heard = {}
  BY <1>1, LenProperties
<1>3. IsInjective(heard) /\ ToSet(heard) \subseteq Chambers
  BY <1>2 DEF IsInjective, ToSet
<1>4. TypeOK
  BY <1>1, <1>3, ChamberAssumption DEF TypeOK, NoBreach, None, Asleep
<1> QED
  BY <1>1, <1>4 DEF ChamberIndInv, ReportedHeld, SweepSize, SweepSurvives, Asleep

\* A message: the dict may grow under a waiting sweep, but after the grace only
\* by a late chamber; an in-band message ends the chamber's report.
LEMMA MessageInd ==
  ASSUME ChamberIndInv, NEW c \in Chambers, Message(c)
  PROVE  ChamberIndInv'
<1> USE HeardFacts
<1>a. /\ heard' = HeardAfter(c)
      /\ breach' = [breach EXCEPT ![c] = BreachAfter(c)]
      /\ reported' = IF InBreach(c) THEN reported ELSE reported \ {c}
      /\ gap' = gap /\ edge' = edge /\ grace' = grace /\ wait' = wait
      /\ sweep' = sweep /\ died' = died /\ sessions' = sessions
      /\ setpoints' = setpoints
  BY DEF Message, run
<1>b. late' = (late \/ (grace = 0 /\ ~Contains(heard, c)))
  BY DEF Message
<1>c. /\ heard' \in Seq(Chambers)
      /\ IsInjective(heard') /\ ToSet(heard') \subseteq Chambers
      /\ Len(heard') \in Nat /\ Len(heard') >= Len(heard)
      /\ Contains(heard', c)
      /\ \A d \in Chambers : Contains(heard, d) => Contains(heard', d)
  BY <1>a, HeardAfterFacts
<1>d. /\ breach \in [Chambers -> None..(Duration + 1)]
      /\ BreachAfter(c) \in None..(Duration + 1)
  BY ChamberAssumption DEF ChamberIndInv, TypeOK, BreachAfter, None
<1>1. TypeOK'
  <2>1. breach' \in [Chambers -> None..(Duration + 1)]
    BY <1>a, <1>d
  <2>2. \A d \in Chambers : breach'[d] # None => Contains(heard', d)
    BY <1>a, <1>c, <1>d DEF ChamberIndInv, TypeOK
  <2>3. sweep'.at \in 0..Len(heard') /\ sweep'.size \in 0..Len(heard')
    <3>1. sweep.at \in 0..Len(heard) /\ sweep.size \in 0..Len(heard)
      BY DEF ChamberIndInv, TypeOK
    <3> QED
      BY <3>1, <1>a, <1>c
  <2> QED
    BY <1>a, <1>c, <2>1, <2>2, <2>3 DEF ChamberIndInv, TypeOK
<1>2. ReportedHeld'
  <2> SUFFICES ASSUME NEW d \in reported' PROVE breach'[d] > Duration /\ d \in edge'
    BY DEF ReportedHeld, Sustained
  <2>1. d \in reported /\ d \in Chambers /\ breach[d] > Duration /\ d \in edge
    BY <1>a DEF ChamberIndInv, TypeOK, ReportedHeld, Sustained
  <2>2. CASE d = c
    <3>1. InBreach(c)
      BY <1>a, <2>2
    <3>2. BreachAfter(c) = breach[c]
      BY <3>1, <2>1, <2>2, ChamberAssumption DEF BreachAfter, None
    <3> QED
      BY <3>2, <2>1, <2>2, <1>a, <1>d
  <2>3. CASE d # c
    BY <2>1, <2>3, <1>a, <1>d
  <2> QED
    BY <2>2, <2>3
<1>3. SweepSize'
  <2>1. Contains(heard, c) => heard' = heard
    BY <1>a DEF HeardAfter
  <2> QED
    BY <2>1, <1>a, <1>b DEF ChamberIndInv, SweepSize
<1>4. SweepSurvives'
  BY <1>a, <1>b DEF ChamberIndInv, SweepSurvives
<1> QED
  BY <1>1, <1>2, <1>3, <1>4, <1>c DEF ChamberIndInv

\* What any continuation of the iteration, from a dict of the size the sweep
\* began with, keeps.
LEMMA SweepFromInd ==
  ASSUME ChamberIndInv, NEW i \in Nat \ {0}, SweepFrom(i, Len(heard)), grace = 0,
         UNCHANGED <<gap, heard, breach, grace, late, died, sessions, setpoints>>
  PROVE  ChamberIndInv'
<1> USE HeardFacts
<1>1. TypeOK'
  <2>0. reported \subseteq Chambers /\ wait \in -Lag..CheckPeriod
    BY DEF ChamberIndInv, TypeOK
  <2>1. /\ edge' \subseteq Chambers /\ reported' \subseteq Chambers
        /\ wait' \in -Lag..CheckPeriod
        /\ sweep'.at \in 0..Len(heard) /\ sweep'.size \in 0..Len(heard)
    BY <2>0, SweepFromFacts, ChamberAssumption DEF Asleep
  <2> QED
    BY <2>1 DEF ChamberIndInv, TypeOK
<1>2. ReportedHeld'
  BY SweepFromFacts DEF ChamberIndInv, ReportedHeld, Sustained
<1>3. SweepSize' /\ SweepSurvives' /\ heard' \in Seq(Chambers)
  BY SweepFromFacts DEF ChamberIndInv, SweepSize, SweepSurvives, Asleep
<1> QED
  BY <1>1, <1>2, <1>3 DEF ChamberIndInv

\* The sweep sleeps through the grace, or begins.
LEMMA SweepInd == ASSUME ChamberIndInv, Sweep PROVE ChamberIndInv'
<1>1. CASE grace > 0
  BY <1>1, ChamberAssumption
     DEF Sweep, ChamberIndInv, TypeOK, ReportedHeld, SweepSize, SweepSurvives,
         Sustained, run
<1>2. CASE ~(grace > 0)
  <2>1. grace = 0
    BY <1>2, ChamberAssumption DEF ChamberIndInv, TypeOK
  <2> QED
    BY <1>2, <2>1, SweepFromInd DEF Sweep, run
<1> QED
  BY <1>1, <1>2

\* emit returns: a dict that has grown means a late chamber, otherwise the
\* iteration goes on.
LEMMA EmitDoneInd == ASSUME ChamberIndInv, EmitDone PROVE ChamberIndInv'
<1>1. CASE Len(heard) # sweep.size
  <2>1. late
    BY <1>1 DEF EmitDone, ChamberIndInv, SweepSize
  <2> QED
    BY <1>1, <2>1 DEF EmitDone, ChamberIndInv, TypeOK, ReportedHeld, SweepSize,
                      SweepSurvives, Sustained
<1>2. CASE Len(heard) = sweep.size
  <2>1. /\ grace = 0 /\ sweep.at + 1 \in Nat \ {0}
    BY HeardFacts DEF EmitDone, ChamberIndInv, TypeOK, SweepSize
  <2> QED
    BY <1>2, <2>1, SweepFromInd DEF EmitDone
<1> QED
  BY <1>1, <1>2

\* Time passes: breaches only get older.
LEMMA TickInd == ASSUME ChamberIndInv, Tick PROVE ChamberIndInv'
<1> USE HeardFacts, ChamberAssumption
<1>a. /\ breach' = [c \in Chambers |->
                      IF breach[c] \in {None, Duration + 1} THEN breach[c] ELSE breach[c] + 1]
      /\ UNCHANGED <<gap, heard, edge, sweep, reported, late, died, sessions, setpoints>>
      /\ grace' = (IF grace = 0 THEN 0 ELSE grace - 1) /\ wait' = wait - 1 /\ wait > -Lag
  BY DEF Tick, run
<1>1. TypeOK'
  <2>1. breach' \in [Chambers -> None..(Duration + 1)]
    <3>1. \A c \in Chambers : breach[c] \in -1..(Duration + 1)
      BY DEF ChamberIndInv, TypeOK, None
    <3>2. \A c \in Chambers : breach'[c] \in -1..(Duration + 1)
      BY <1>a, <3>1 DEF None
    <3> QED
      BY <1>a, <3>2 DEF None
  <2>2. \A c \in Chambers : breach'[c] # None => breach[c] # None
    BY <1>a DEF ChamberIndInv, TypeOK, None
  <2>3. grace' \in 0..Grace /\ wait' \in -Lag..CheckPeriod
    BY <1>a DEF ChamberIndInv, TypeOK
  <2> QED
    BY <1>a, <2>1, <2>2, <2>3 DEF ChamberIndInv, TypeOK
<1>2. ReportedHeld'
  <2>1. \A c \in Chambers : breach[c] > Duration => breach'[c] > Duration
    BY <1>a DEF ChamberIndInv, TypeOK, None
  <2> QED
    BY <1>a, <2>1 DEF ChamberIndInv, TypeOK, ReportedHeld, Sustained
<1>3. SweepSize' /\ SweepSurvives' /\ heard' \in Seq(Chambers)
  BY <1>a DEF ChamberIndInv, SweepSize, SweepSurvives
<1> QED
  BY <1>1, <1>2, <1>3 DEF ChamberIndInv

\* The inductive step.
LEMMA ChamberNext == ChamberIndInv /\ [Next]_vars => ChamberIndInv'
<1> SUFFICES ASSUME ChamberIndInv, [Next]_vars PROVE ChamberIndInv'
  OBVIOUS
<1>a. gap \in [Chambers -> 0..MaxGap] /\ edge \subseteq Chambers
      /\ sessions \in 0..MaxSessions /\ setpoints \in 0..MaxSetpoints
  BY DEF ChamberIndInv, TypeOK
<1>1. ASSUME NEW c \in Chambers, WriteSetpoint(c) PROVE ChamberIndInv'
  <2>1. gap' \in [Chambers -> 0..MaxGap] /\ setpoints' \in 0..MaxSetpoints
    BY <1>1, <1>a, ChamberAssumption DEF WriteSetpoint
  <2> QED
    BY <1>1, <2>1 DEF WriteSetpoint, ChamberIndInv, TypeOK, ReportedHeld, SweepSize,
                      SweepSurvives, Sustained, monitor, run
<1>2. ASSUME NEW c \in Chambers, ThermalStep(c) PROVE ChamberIndInv'
  <2>1. gap' \in [Chambers -> 0..MaxGap]
    BY <1>2, <1>a, ChamberAssumption DEF ThermalStep
  <2> QED
    BY <1>2, <2>1 DEF ThermalStep, ChamberIndInv, TypeOK, ReportedHeld, SweepSize,
                      SweepSurvives, Sustained, monitor, run
<1>3. ASSUME NEW c \in Chambers, Message(c) PROVE ChamberIndInv'
  BY <1>3, MessageInd
<1>4. CASE SessionLost
  <2>1. sessions' \in 0..MaxSessions
    BY <1>4, <1>a, ChamberAssumption DEF SessionLost
  <2> QED
    BY <1>4, <2>1 DEF SessionLost, ChamberIndInv, TypeOK, ReportedHeld, SweepSize,
                      SweepSurvives, Sustained, monitor
<1>5. CASE SessionStarts
  <2>1. died' = FALSE
    BY <1>5 DEF SessionStarts
  <2> QED
    BY <1>5, <1>a, <2>1, FreshSession DEF SessionStarts, NewSession
<1>6. CASE Restart
  <2>1. sessions' \in 0..MaxSessions
    BY <1>6, <1>a, ChamberAssumption DEF Restart
  <2> QED
    BY <1>6, <1>a, <2>1, FreshSession DEF Restart, NewSession
<1>7. CASE UNCHANGED vars
  BY <1>7 DEF vars, ChamberIndInv, TypeOK, ReportedHeld, SweepSize, SweepSurvives,
              Sustained, monitor, run
<1> QED
  BY <1>1, <1>2, <1>3, <1>4, <1>5, <1>6, <1>7, SweepInd, EmitDoneInd, TickInd DEF Next

-----------------------------------------------------------------------------
(* The theorems.                                                           *)

\* The inductive invariant of the chamber monitor holds in every reachable
\* state: reported chambers are sustained breaches whose edge is stored, and the
\* dict keeps its size under a waiting sweep unless a chamber is late.
THEOREM ChamberInvariance == Spec => []ChamberIndInv
  BY ChamberInit, ChamberNext, PTL DEF Spec

\* Type correctness; the breach timer of a chamber that was not heard does not
\* run (ChamberStates), in every session.
THEOREM ChamberTypes == Spec => []TypeOK
<1>1. ChamberIndInv => TypeOK
  BY DEF ChamberIndInv
<1> QED
  BY <1>1, ChamberInvariance, PTL

\* chamber_check_loop's iteration over the live dict raises only after a chamber
\* reported for the first time when the startup grace was over.
THEOREM SweepSurvivesAlways == Spec => []SweepSurvives
<1>1. ChamberIndInv => SweepSurvives
  BY DEF ChamberIndInv
<1> QED
  BY <1>1, ChamberInvariance, PTL

\* "A sustained breach yields exactly one alert per rising edge"
\* (chamber_check_loop): no second alert of a session before an in-band message.
THEOREM OneAlertAlways == Spec => OneAlertPerBreach
<1> DEFINE Fresh ==
      \A c \in Chambers :
          (sweep'.at > 0 /\ sweep'.at # sweep.at /\ heard[sweep'.at] = c) => c \notin reported
<1>1. ChamberIndInv /\ [Next]_vars => [Fresh]_vars
  <2> SUFFICES ASSUME ChamberIndInv, Next, NEW c \in Chambers,
                      sweep'.at > 0, sweep'.at # sweep.at, heard[sweep'.at] = c
               PROVE  c \notin reported
    BY DEF Fresh
  <2>1. ASSUME NEW i \in Nat \ {0}, NEW size, SweepFrom(i, size) PROVE c \notin reported
    <3>1. heard[sweep'.at] \notin edge
      BY <2>1, SweepFromFacts DEF Asleep
    <3> QED
      BY <3>1 DEF ChamberIndInv, ReportedHeld
  <2>2. CASE Sweep
    BY <2>1, <2>2, HeardFacts DEF Sweep
  <2>3. CASE EmitDone
    <3>1. Len(heard) \in Nat
      BY HeardFacts
    <3>2. sweep.at + 1 \in Nat \ {0}
      BY <3>1 DEF ChamberIndInv, TypeOK
    <3> QED
      BY <2>1, <2>3, <3>2 DEF EmitDone
  <2>4. CASE SessionStarts \/ Restart
    BY <2>4 DEF SessionStarts, Restart, NewSession, Asleep
  <2> QED
    BY <2>2, <2>3, <2>4 DEF Next, WriteSetpoint, ThermalStep, Message, Tick, SessionLost, monitor
<1> QED
  BY <1>1, ChamberInvariance, PTL DEF Spec, OneAlertPerBreach
=============================================================================
