------------------------ MODULE ProcessManagerProofs ------------------------
(***************************************************************************)
(* What holds of ProcessManager for every set of services and processes    *)
(* and every bound on the calls in flight.                                 *)
(***************************************************************************)
EXTENDS ProcessManager, TLAPS

\* No step of the service object or of the operating system leaves the types:
\* in particular no continuation counts a call twice.
LEMMA PMTypeStep == PMTypeOK /\ [PMNext]_pmVars => PMTypeOK'
<1> SUFFICES ASSUME PMTypeOK, [PMNext]_pmVars PROVE PMTypeOK'
  OBVIOUS
<1> USE ServiceAssumption DEF PMTypeOK, osVars, managerVars
<1>1. ASSUME NEW s \in Service, Start(s) PROVE PMTypeOK'
  BY <1>1 DEF Start
<1>2. ASSUME NEW S \in SUBSET Service, StopServices(S) PROVE PMTypeOK'
  BY <1>2 DEF StopServices
<1>3. ASSUME NEW s \in Service, Stop(s) PROVE PMTypeOK'
  BY <1>3, <1>2 DEF Stop
<1>4. CASE StopAll
  BY <1>4, <1>2 DEF StopAll
<1>5. ASSUME NEW s \in Service, EventLoop(s) PROVE PMTypeOK'
  <2>1. CASE StartFails(s)
    BY <2>1 DEF StartFails
  <2>2. ASSUME NEW p \in Proc, Started(s, p) PROVE PMTypeOK'
    BY <2>2 DEF Started
  <2>3. ASSUME NEW p \in Proc, ExitCallback(s, p) PROVE PMTypeOK'
    BY <2>3 DEF ExitCallback
  <2>4. CASE StopThrows(s)
    BY <2>4 DEF StopThrows
  <2>5. CASE StopResume(s)
    BY <2>5 DEF StopResume
  <2> QED
    BY <1>5, <2>1, <2>2, <2>3, <2>4, <2>5 DEF EventLoop
<1>6. ASSUME NEW s \in Service, OperatingSystem(s) PROVE PMTypeOK'
  <2>1. CASE Spawn(s)
    BY <2>1 DEF Spawn, Free
  <2>2. CASE TaskKill(s)
    BY <2>2 DEF TaskKill
  <2>3. ASSUME NEW p \in Proc, ProcessExits(s, p) PROVE PMTypeOK'
    BY <2>3 DEF ProcessExits
  <2>4. ASSUME NEW p \in Proc, WorkerStarts(s, p) PROVE PMTypeOK'
    BY <2>4 DEF WorkerStarts
  <2>5. ASSUME NEW p \in Proc, WorkerExits(s, p) PROVE PMTypeOK'
    BY <2>5 DEF WorkerExits
  <2> QED
    BY <1>6, <2>1, <2>2, <2>3, <2>4, <2>5 DEF OperatingSystem
<1>7. CASE Relaunched
  BY <1>7 DEF Relaunched
<1>8. CASE UNCHANGED pmVars
  BY <1>8 DEF pmVars
<1> QED
  BY <1>1, <1>3, <1>4, <1>5, <1>6, <1>7, <1>8 DEF PMNext, Calls

\* The variables of the service object keep their types, whoever calls it.
THEOREM PMTypeCorrect == PMSpec => []PMTypeOK
<1>1. PMInit => PMTypeOK
  BY DEF PMInit, PMTypeOK
<1> QED
  BY <1>1, PMTypeStep, PTL DEF PMSpec

\* HandleWatched is inductive relative to the types: only Started sets a handle,
\* and it arms the closure; only ExitCallback disarms one, and it clears the
\* handle, whichever process that names.
LEMMA HandleWatchedStep ==
    PMTypeOK /\ HandleWatched /\ [PMNext]_pmVars => HandleWatched'
<1> SUFFICES ASSUME PMTypeOK, HandleWatched, [PMNext]_pmVars PROVE HandleWatched'
  OBVIOUS
<1> USE ProcAssumption DEF PMTypeOK, HandleWatched, IsRunning, osVars, managerVars
<1>1. ASSUME NEW s \in Service, Start(s) PROVE HandleWatched'
  BY <1>1 DEF Start
<1>2. ASSUME NEW S \in SUBSET Service, StopServices(S) PROVE HandleWatched'
  BY <1>2 DEF StopServices
<1>3. ASSUME NEW s \in Service, Stop(s) PROVE HandleWatched'
  BY <1>3, <1>2 DEF Stop
<1>4. CASE StopAll
  BY <1>4, <1>2 DEF StopAll
<1>5. ASSUME NEW s \in Service, EventLoop(s) PROVE HandleWatched'
  <2>1. CASE StartFails(s)
    BY <2>1 DEF StartFails
  <2>2. ASSUME NEW p \in Proc, Started(s, p) PROVE HandleWatched'
    BY <2>2 DEF Started
  <2>3. ASSUME NEW p \in Proc, ExitCallback(s, p) PROVE HandleWatched'
    BY <2>3 DEF ExitCallback
  <2>4. CASE StopThrows(s)
    BY <2>4 DEF StopThrows
  <2>5. CASE StopResume(s)
    BY <2>5 DEF StopResume
  <2> QED
    BY <1>5, <2>1, <2>2, <2>3, <2>4, <2>5 DEF EventLoop
<1>6. ASSUME NEW s \in Service, OperatingSystem(s) PROVE HandleWatched'
  BY <1>6 DEF OperatingSystem, Spawn, TaskKill, ProcessExits, WorkerStarts, WorkerExits
<1>7. CASE Relaunched
  BY <1>7 DEF Relaunched
<1>8. CASE UNCHANGED pmVars
  BY <1>8 DEF pmVars
<1> QED
  BY <1>1, <1>3, <1>4, <1>5, <1>6, <1>7, <1>8 DEF PMNext, Calls

\* Under any caller, a service is reported as running only while the closure
\* that will clear its handle is still registered.
THEOREM HandleAlwaysWatched == PMSpec => []HandleWatched
<1>1. PMInit => HandleWatched
  BY DEF PMInit, HandleWatched, IsRunning
<1> QED
  BY <1>1, PMTypeCorrect, HandleWatchedStep, PTL DEF PMSpec
=============================================================================
