-------------------------- MODULE LifecycleProofs --------------------------
(***************************************************************************)
(* The page and its process manager, driven by a user who lets a service   *)
(* settle before starting it, implement the safety part of                 *)
(* ServiceLifecycle, for every set of services and processes.  Phase(s) is *)
(* a function of the variables of s alone, and OneAtATime(s) says enough   *)
(* of them to see that no step of s skips a phase.                         *)
(***************************************************************************)
EXTENDS DashboardProofs

\* What a step may do to one service.
PhaseStep(s) ==
    \/ Phase(s)' = Phase(s)
    \/ Phase(s) = "off" /\ Phase(s)' = "starting"
    \/ Phase(s) = "starting"
    \/ Phase(s) = "on" /\ Phase(s)' = "stopping"
    \/ Phase(s) = "stopping" /\ Phase(s)' = "off"

\* A step that leaves every other service alone is a step of the life cycle.
LEMMA OneService ==
    ASSUME NEW s \in Service, PhaseStep(s),
           \A r \in Service \ {s} : Phase(r)' = Phase(r)
    PROVE  [Lifecycle!Next]_([r \in Service |-> Phase(r)])
<1> DEFINE phase == [r \in Service |-> Phase(r)]
<1>1. phase' = [phase EXCEPT ![s] = Phase(s)']
  OBVIOUS
<1>2. CASE Phase(s)' = Phase(s)
  BY <1>1, <1>2
<1>3. CASE Phase(s) = "starting" /\ Phase(s)' # Phase(s)
  <2>1. Phase(s)' \in {"on", "off", "stopping"}
    BY <1>3 DEF Phase
  <2>2. Lifecycle!StartEnds(s)
    BY <1>1, <1>3, <2>1 DEF Lifecycle!StartEnds, Lifecycle!Move
  <2> QED
    BY <2>2 DEF Lifecycle!Next
<1>4. CASE Phase(s) = "off" /\ Phase(s)' = "starting"
  BY <1>1, <1>4 DEF Lifecycle!Next, Lifecycle!Begin, Lifecycle!Move
<1>5. CASE Phase(s) = "on" /\ Phase(s)' = "stopping"
  BY <1>1, <1>5 DEF Lifecycle!Next, Lifecycle!GoDown, Lifecycle!Move
<1>6. CASE Phase(s) = "stopping" /\ Phase(s)' = "off"
  BY <1>1, <1>6 DEF Lifecycle!Next, Lifecycle!StopEnds, Lifecycle!Move
<1> QED
  BY <1>2, <1>3, <1>4, <1>5, <1>6 DEF PhaseStep

\* The variables a phase is made of.
Same(r) ==
    /\ starting'[r] = starting[r] /\ resume'[r] = resume[r] /\ armed'[r] = armed[r]
    /\ killing'[r] = killing[r] /\ killed'[r] = killed[r] /\ alive'[r] = alive[r]

LEMMA SamePhase == ASSUME NEW r, Same(r) PROVE Phase(r)' = Phase(r)
  BY DEF Same, Phase, StartInFlight, Settled

\* A step on one service leaves the others the phase they are in.
LEMMA OthersKept ==
    ASSUME TypeOK, NEW s \in Service, NEW r \in Service \ {s},
           Toggle(s) \/ CallReturns(s) \/ StopEscapes(s) \/ Unseen(s)
    PROVE  Phase(r)' = Phase(r)
<1> SUFFICES Same(r)
  BY SamePhase
<1> USE DEF TypeOK, PMTypeOK, osVars, managerVars, Same
<1>1. CASE Toggle(s)
  BY <1>1 DEF Toggle, ClickStart, ClickStop, Start, Stop, StopServices
<1>2. CASE CallReturns(s)
  BY <1>2 DEF CallReturns, StartFails, StopResume, Started
<1>3. CASE StopEscapes(s)
  BY <1>3 DEF StopEscapes, StopThrows
<1>4. CASE Unseen(s)
  BY <1>4 DEF Unseen, OperatingSystem, Spawn, TaskKill, ProcessExits, WorkerStarts,
              WorkerExits, ExitCallback
<1> QED
  BY <1>1, <1>2, <1>3, <1>4

\* A click of the patient user begins a transition from rest, or is one more
\* Stop of a service that is going down already.
LEMMA ClickPhase ==
    ASSUME TypeOK, NEW s \in Service, OneAtATime(s), PatientClick(s)
    PROVE  PhaseStep(s)
<1> USE ProcAssumption
    DEF TypeOK, PMTypeOK, OneAtATime, Settled, StartInFlight, IsRunning, osVars
<1>1. CASE Settled(s) /\ ClickStart(s)
  <2>1. armed[s] \cap alive[s] = {}
    BY <1>1 DEF ClickStart, Start
  <2>2. starting'[s] > 0
    BY <1>1 DEF ClickStart, Start
  <2> QED
    BY <1>1, <2>1, <2>2 DEF PhaseStep, Phase
<1>2. CASE ClickStop(s)
  <2>1. handle[s] \in armed[s] /\ ~StartInFlight(s)
    BY <1>2 DEF ClickStop, Stop
  <2>2. /\ alive'[s] = alive[s] \ {handle[s]}
        /\ UNCHANGED <<armed, starting, resume>>
    BY <1>2 DEF ClickStop, Stop, StopServices
  <2>3. armed'[s] \cap alive'[s] = {} /\ ~(armed'[s] \subseteq alive'[s])
    BY <2>1, <2>2
  <2>4. Phase(s)' = "stopping"
    BY <2>1, <2>2, <2>3 DEF Phase
  <2>5. CASE handle[s] \in alive[s]
    BY <2>1, <2>4, <2>5 DEF PhaseStep, Phase
  <2>6. CASE handle[s] \notin alive[s]
    <3>1. armed[s] \cap alive[s] = {} /\ ~(armed[s] \subseteq alive[s])
      BY <2>1, <2>6
    <3> QED
      BY <2>1, <2>4, <3>1 DEF PhaseStep, Phase
  <2> QED
    BY <2>5, <2>6
<1> QED
  BY <1>1, <1>2 DEF PatientClick

\* Every other step of a service ends a transition, or the process dies.
LEMMA SystemPhase ==
    ASSUME TypeOK, NEW s \in Service, OneAtATime(s),
           CallReturns(s) \/ StopEscapes(s) \/ Unseen(s)
    PROVE  PhaseStep(s)
<1> USE ProcAssumption
    DEF TypeOK, PMTypeOK, OneAtATime, StartInFlight, osVars, managerVars
<1>0. SUFFICES ASSUME ~StartInFlight(s) PROVE PhaseStep(s)
  BY DEF PhaseStep, Phase
<1>1. CASE CallReturns(s)
  <2>1. StopResume(s)
    BY <1>0, <1>1 DEF CallReturns, StartFails, Started
  <2>2. armed[s] \cap alive[s] = {} /\ killed[s] > 0
    BY <2>1 DEF StopResume
  <2>3. UNCHANGED <<armed, alive, starting, resume>>
    BY <2>1 DEF StopResume
  <2> QED
    BY <1>0, <2>2, <2>3 DEF PhaseStep, Phase, Settled
<1>2. CASE StopEscapes(s)
  <2>1. armed[s] \cap alive[s] = {} /\ killing[s] > 0
    BY <1>2 DEF StopEscapes, StopThrows
  <2>2. UNCHANGED <<armed, alive, starting, resume>>
    BY <1>2 DEF StopEscapes, StopThrows
  <2> QED
    BY <1>0, <2>1, <2>2 DEF PhaseStep, Phase, Settled
<1>3. CASE Spawn(s)
  BY <1>0, <1>3 DEF Spawn
<1>4. CASE TaskKill(s)
  <2>1. armed[s] \cap alive[s] = {} /\ killing[s] > 0
    BY <1>4 DEF TaskKill
  <2>2. alive'[s] = {} /\ killed'[s] > 0 /\ UNCHANGED <<armed, starting, resume>>
    BY <1>4 DEF TaskKill
  <2> QED
    BY <1>0, <2>1, <2>2 DEF PhaseStep, Phase, Settled
<1>5. ASSUME NEW p \in Proc, ProcessExits(s, p) PROVE PhaseStep(s)
  <2>1. /\ p \in alive[s] /\ alive'[s] = alive[s] \ {p}
        /\ UNCHANGED <<armed, starting, resume, killing, killed>>
    BY <1>5 DEF ProcessExits
  <2>2. CASE p \in armed[s]
    <3>1. armed'[s] \cap alive'[s] = {} /\ ~(armed'[s] \subseteq alive'[s])
      BY <2>1, <2>2
    <3> QED
      BY <1>0, <2>1, <2>2, <3>1 DEF PhaseStep, Phase, Settled
  <2>3. CASE p \notin armed[s]
    <3>1. /\ armed'[s] \cap alive'[s] = armed[s] \cap alive[s]
          /\ armed'[s] \subseteq alive'[s] <=> armed[s] \subseteq alive[s]
      BY <2>1, <2>3
    <3> QED
      BY <2>1, <3>1 DEF PhaseStep, Phase, Settled
  <2> QED
    BY <2>2, <2>3
<1>6. ASSUME NEW p \in Proc, WorkerStarts(s, p) \/ WorkerExits(s, p) PROVE PhaseStep(s)
  <2>1. Same(s)
    BY <1>6 DEF WorkerStarts, WorkerExits, Same
  <2> QED
    BY <2>1, SamePhase DEF PhaseStep
<1>7. ASSUME NEW p \in Proc, ExitCallback(s, p) PROVE PhaseStep(s)
  <2>1. /\ p \in armed[s] \ alive[s] /\ armed'[s] = armed[s] \ {p}
        /\ UNCHANGED <<alive, starting, resume, killing, killed>>
    BY <1>7 DEF ExitCallback
  <2>2. armed'[s] \cap alive'[s] = armed[s] \cap alive[s] /\ ~(armed[s] \subseteq alive[s])
    BY <2>1
  <2> QED
    BY <1>0, <2>1, <2>2 DEF PhaseStep, Phase, Settled
<1> QED
  BY <1>1, <1>2, <1>3, <1>4, <1>5, <1>6, <1>7 DEF Unseen, OperatingSystem

LEMMA LifecycleInit == Init => Lifecycle!Init
<1> SUFFICES ASSUME Init, NEW s \in Service PROVE Phase(s) = "off"
  BY DEF Lifecycle!Init
<1> QED
  BY DEF Init, PMInit, Phase, StartInFlight, Settled

LEMMA LifecycleStep ==
    TypeOK /\ PatientInv /\ [PatientNext]_vars
        => [Lifecycle!Next]_([s \in Service |-> Phase(s)])
<1> SUFFICES ASSUME TypeOK, PatientInv, [PatientNext]_vars
             PROVE  [Lifecycle!Next]_([s \in Service |-> Phase(s)])
  OBVIOUS
<1>1. ASSUME NEW s \in Service, PatientClick(s)
      PROVE  [Lifecycle!Next]_([r \in Service |-> Phase(r)])
  <2>1. Toggle(s)
    BY <1>1 DEF PatientClick, Toggle
  <2> QED
    BY <1>1, <2>1, ClickPhase, OthersKept, OneService DEF PatientInv
<1>2. ASSUME NEW s \in Service, CallReturns(s) \/ StopEscapes(s) \/ Unseen(s)
      PROVE  [Lifecycle!Next]_([r \in Service |-> Phase(r)])
  BY <1>2, SystemPhase, OthersKept, OneService DEF PatientInv
<1>3. CASE Tick \/ Frame \/ UNCHANGED vars
  <2>1. \A s : Same(s)
    BY <1>3 DEF Tick, Frame, vars, pmVars, Same
  <2>2. \A s : Phase(s)' = Phase(s)
    BY <2>1, SamePhase
  <2> QED
    BY <2>2
<1>4. CASE Relaunch
  <2>1. \A s \in Service : Phase(s)' = "off"
    BY <1>4 DEF Relaunch, Relaunched, Phase, StartInFlight, Settled
  <2> QED
    BY <2>1 DEF Lifecycle!Next, Lifecycle!Forget
<1> QED
  BY <1>1, <1>2, <1>3, <1>4 DEF PatientNext, System

\* No start of a service that is not off, no second process, no way from stopping
\* back to on, whatever fails, exits by itself or is left over from earlier
\* sessions.
THEOREM PageFollowsLifecycle == PatientSpec => FollowsLifecycle
<1>1. Init => TypeOK /\ PatientInv /\ Lifecycle!Init
  BY TypeInit, PatientInit, LifecycleInit
<1>2. TypeOK /\ PatientInv /\ [PatientNext]_vars => TypeOK' /\ PatientInv'
  BY PatientIsNext, TypeStep, PatientStep
<1> QED
  BY <1>1, <1>2, LifecycleStep, PTL DEF PatientSpec, FollowsLifecycle, Lifecycle!Safety
=============================================================================
