-------------------------- MODULE DashboardProofs --------------------------
(***************************************************************************)
(* What holds of Dashboard for every set of services and processes and     *)
(* every bound on the calls in flight.                                     *)
(***************************************************************************)
EXTENDS Dashboard, ProcessManagerProofs

(***************************************************************************)
(* The page drives the service object only through its operations          *)
(***************************************************************************)

\* A patient click is a click.
LEMMA PatientIsNext == [PatientNext]_vars => [Next]_vars
  BY DEF PatientNext, PatientClick, Next, Toggle

\* Every step of the page is a step of the service object, of the operating
\* system, or leaves both alone: what ProcessManager guarantees under any
\* caller holds of the application.
LEMMA DashboardStep == [Next]_vars => [PMNext]_pmVars
<1> SUFFICES ASSUME [Next]_vars PROVE [PMNext]_pmVars
  OBVIOUS
<1>1. ASSUME NEW s \in Service, Toggle(s) PROVE PMNext
  BY <1>1 DEF Toggle, ClickStart, ClickStop, PMNext, Calls
<1>2. ASSUME NEW s \in Service, CallReturns(s) PROVE PMNext
  BY <1>2 DEF CallReturns, PMNext, EventLoop
<1>3. ASSUME NEW s \in Service, StopEscapes(s) PROVE PMNext
  BY <1>3 DEF StopEscapes, PMNext, EventLoop
<1>4. ASSUME NEW s \in Service, Unseen(s) PROVE PMNext
  BY <1>4 DEF Unseen, PMNext, EventLoop
<1>5. CASE Tick \/ Frame
  BY <1>5 DEF Tick, Frame
<1>6. CASE Relaunch
  BY <1>6 DEF Relaunch, PMNext
<1>7. CASE UNCHANGED vars
  BY <1>7 DEF vars, pmVars
<1> QED
  BY <1>1, <1>2, <1>3, <1>4, <1>5, <1>6, <1>7 DEF Next, System

(***************************************************************************)
(* Types                                                                   *)
(***************************************************************************)

\* No click, callback, tick or frame leaves the types.
LEMMA TypeStep == TypeOK /\ [Next]_vars => TypeOK'
<1> SUFFICES ASSUME TypeOK, [Next]_vars PROVE TypeOK'
  OBVIOUS
<1>1. PMTypeOK'
  BY DashboardStep, PMTypeStep DEF TypeOK
<1> DEFINE PageOK == /\ shown \in [Service -> BOOLEAN]
                     /\ dirty \in BOOLEAN
                     /\ stopped \in [Service -> {"no", "racing", "clean"}]
<1>2. PageOK
  BY DEF TypeOK
<1>3. PageOK'
  <2>1. ASSUME NEW s \in Service, ClickStart(s) PROVE PageOK'
    BY <1>2, <2>1 DEF ClickStart
  <2>2. ASSUME NEW s \in Service, ClickStop(s) PROVE PageOK'
    BY <1>2, <2>2, Zenon DEF ClickStop
  <2>3. ASSUME NEW s \in Service, CallReturns(s) PROVE PageOK'
    BY <1>2, <2>3 DEF CallReturns
  <2>4. ASSUME NEW s \in Service, StopEscapes(s) PROVE PageOK'
    BY <1>2, <2>4 DEF StopEscapes
  <2>5. ASSUME NEW s \in Service, Unseen(s) PROVE PageOK'
    BY <1>2, <2>5 DEF Unseen, dashVars
  <2>6. CASE Tick
    BY <1>2, <2>6 DEF Tick
  <2>7. CASE Frame
    BY <1>2, <2>7 DEF Frame, IsRunning
  <2>8. CASE Relaunch
    BY <1>2, <2>8 DEF Relaunch
  <2>9. CASE UNCHANGED vars
    BY <1>2, <2>9 DEF vars
  <2> QED
    BY <2>1, <2>2, <2>3, <2>4, <2>5, <2>6, <2>7, <2>8, <2>9 DEF Next, System, Toggle
<1> QED
  BY <1>1, <1>3 DEF TypeOK

\* A launch starts within the types.
LEMMA TypeInit == Init => TypeOK
<1>1. Init => PMTypeOK
  BY DEF Init, PMInit, PMTypeOK
<1> QED
  BY <1>1, Zenon DEF Init, TypeOK

\* The variables of the page and of the service object keep their types.
THEOREM TypeCorrect == Spec => []TypeOK
  BY TypeInit, TypeStep, PTL DEF Spec

\* In the application, "running" never outlasts the closure that clears it.
THEOREM ApplicationHandleWatched == Spec => []HandleWatched
<1>1. Init => HandleWatched
  BY DEF Init, PMInit, HandleWatched, IsRunning
<1>2. TypeOK /\ HandleWatched /\ [Next]_vars => HandleWatched'
  BY DashboardStep, HandleWatchedStep DEF TypeOK
<1> QED
  BY <1>1, <1>2, TypeCorrect, PTL DEF Spec

(***************************************************************************)
(* A clean Stop sweeps the image                                           *)
(***************************************************************************)

\* CleanStopSweeps is not inductive: a call still in Process.start could bring
\* the image back.  After a Stop that met no start in flight there is none.
SweepInv ==
    \A s \in Service :
        stopped[s] = "clean" =>
            /\ starting[s] = 0
            /\ resume[s] = {}
            /\ s \in TaskKilled /\ killing[s] = 0 => alive[s] = {} /\ worker[s] = {}

\* Only a clean Stop makes stopped[s] "clean", and it finds no start in flight;
\* TaskKill empties the image, and nothing but Spawn could refill it.
LEMMA SweepStep == TypeOK /\ SweepInv /\ [Next]_vars => SweepInv'
<1> SUFFICES ASSUME TypeOK, SweepInv, [Next]_vars PROVE SweepInv'
  OBVIOUS
<1> USE ServiceAssumption DEF TypeOK, PMTypeOK, SweepInv, osVars, managerVars, dashVars
<1>1. ASSUME NEW s \in Service, ClickStart(s) PROVE SweepInv'
  BY <1>1 DEF ClickStart, Start
<1>2. ASSUME NEW s \in Service, ClickStop(s) PROVE SweepInv'
  BY <1>2 DEF ClickStop, Stop, StopServices, StartInFlight
<1>3. ASSUME NEW s \in Service, CallReturns(s) PROVE SweepInv'
  <2>1. CASE StartFails(s)
    BY <1>3, <2>1 DEF CallReturns, StartFails
  <2>2. CASE StopResume(s)
    BY <1>3, <2>2 DEF CallReturns, StopResume
  <2>3. ASSUME NEW p \in Proc, Started(s, p) PROVE SweepInv'
    BY <1>3, <2>3 DEF CallReturns, Started
  <2> QED
    BY <1>3, <2>1, <2>2, <2>3 DEF CallReturns
<1>4. ASSUME NEW s \in Service, StopEscapes(s) PROVE SweepInv'
  BY <1>4 DEF StopEscapes, StopThrows
<1>5. ASSUME NEW s \in Service, Unseen(s) PROVE SweepInv'
  <2>1. CASE Spawn(s)
    BY <1>5, <2>1 DEF Unseen, Spawn
  <2>2. CASE TaskKill(s)
    BY <1>5, <2>2 DEF Unseen, TaskKill
  <2>3. ASSUME NEW p \in Proc, ProcessExits(s, p) PROVE SweepInv'
    BY <1>5, <2>3 DEF Unseen, ProcessExits
  <2>4. ASSUME NEW p \in Proc, WorkerStarts(s, p) PROVE SweepInv'
    BY <1>5, <2>4 DEF Unseen, WorkerStarts
  <2>5. ASSUME NEW p \in Proc, WorkerExits(s, p) PROVE SweepInv'
    BY <1>5, <2>5 DEF Unseen, WorkerExits
  <2>6. ASSUME NEW p \in Proc, ExitCallback(s, p) PROVE SweepInv'
    BY <1>5, <2>6 DEF Unseen, ExitCallback
  <2> QED
    BY <1>5, <2>1, <2>2, <2>3, <2>4, <2>5, <2>6 DEF Unseen, OperatingSystem
<1>6. CASE Tick \/ Frame
  BY <1>6 DEF Tick, Frame, pmVars
<1>7. CASE Relaunch
  BY <1>7 DEF Relaunch, Relaunched
<1>8. CASE UNCHANGED vars
  BY <1>8 DEF vars
<1> QED
  BY <1>1, <1>2, <1>3, <1>4, <1>5, <1>6, <1>7, <1>8 DEF Next, System, Toggle

\* Under any clicking: once the taskkill of a Stop that raced no start has run,
\* no process of the image is left, not even one this session forgot.
THEOREM CleanStopAlwaysSweeps == Spec => []CleanStopSweeps
<1>1. Init => SweepInv
  BY DEF Init, SweepInv
<1>2. SweepInv => CleanStopSweeps
  BY ServiceAssumption DEF SweepInv, CleanStopSweeps
<1> QED
  BY <1>1, <1>2, TypeCorrect, SweepStep, PTL DEF Spec

(***************************************************************************)
(* Patient clicks lose no process                                          *)
(***************************************************************************)

\* At most one call or process of this session exists per service, passed on
\* from the start call to the closure; a stop call in flight means that the
\* process is already dead, so what it clears is never a living process.
OneAtATime(s) ==
    /\ starting[s] \in {0, 1}
    /\ starting[s] = 1 => resume[s] = {}
    /\ StartInFlight(s) => armed[s] = {} /\ killing[s] = 0 /\ killed[s] = 0
    /\ \A p, q \in resume[s] : p = q
    /\ \A p, q \in armed[s] : p = q
    /\ \A p \in armed[s] \cap alive[s] : handle[s] = p
    /\ IsRunning(s) => handle[s] \in armed[s]
    /\ killing[s] + killed[s] > 0 => armed[s] \cap alive[s] = {}

PatientInv == \A s \in Service : OneAtATime(s)

\* A Start that waits for Settled(s) finds nothing of an earlier call left, and a
\* Stop ends the one process there is: every step keeps the one call or process
\* the service has.
LEMMA PatientStep == TypeOK /\ PatientInv /\ [PatientNext]_vars => PatientInv'
<1> SUFFICES ASSUME TypeOK, PatientInv, [PatientNext]_vars,
                    NEW r \in Service
             PROVE  OneAtATime(r)'
  BY DEF PatientInv
<1>r. OneAtATime(r)
  BY DEF PatientInv
<1> USE <1>r, ProcAssumption
    DEF TypeOK, PMTypeOK, OneAtATime, StartInFlight, IsRunning, osVars, managerVars
<1>1. ASSUME NEW s \in Service, Settled(s), ClickStart(s) PROVE OneAtATime(r)'
  BY <1>1 DEF ClickStart, Start, Settled
<1>2. ASSUME NEW s \in Service, ClickStop(s) PROVE OneAtATime(r)'
  BY <1>2 DEF ClickStop, Stop, StopServices
<1>3. ASSUME NEW s \in Service, CallReturns(s) PROVE OneAtATime(r)'
  <2>1. CASE StartFails(s)
    BY <2>1 DEF StartFails
  <2>2. CASE StopResume(s)
    BY <2>2 DEF StopResume
  <2>3. ASSUME NEW p \in Proc, Started(s, p) PROVE OneAtATime(r)'
    BY <2>3 DEF Started
  <2> QED
    BY <1>3, <2>1, <2>2, <2>3 DEF CallReturns
<1>4. ASSUME NEW s \in Service, StopEscapes(s) PROVE OneAtATime(r)'
  BY <1>4 DEF StopEscapes, StopThrows
<1>5. ASSUME NEW s \in Service, Unseen(s) PROVE OneAtATime(r)'
  <2>1. CASE Spawn(s)
    BY <2>1 DEF Spawn, Free
  <2>2. CASE TaskKill(s)
    BY <2>2 DEF TaskKill
  <2>3. ASSUME NEW p \in Proc, ProcessExits(s, p) PROVE OneAtATime(r)'
    BY <2>3 DEF ProcessExits
  <2>4. ASSUME NEW p \in Proc, WorkerStarts(s, p) PROVE OneAtATime(r)'
    BY <2>4 DEF WorkerStarts
  <2>5. ASSUME NEW p \in Proc, WorkerExits(s, p) PROVE OneAtATime(r)'
    BY <2>5 DEF WorkerExits
  <2>6. ASSUME NEW p \in Proc, ExitCallback(s, p) PROVE OneAtATime(r)'
    BY <2>6 DEF ExitCallback
  <2> QED
    BY <1>5, <2>1, <2>2, <2>3, <2>4, <2>5, <2>6 DEF Unseen, OperatingSystem
<1>6. CASE Tick \/ Frame
  BY <1>6 DEF Tick, Frame, pmVars
<1>7. CASE Relaunch
  BY <1>7 DEF Relaunch, Relaunched
<1>8. CASE UNCHANGED vars
  BY <1>8 DEF vars
<1> QED
  BY <1>1, <1>2, <1>3, <1>4, <1>5, <1>6, <1>7, <1>8 DEF PatientNext, PatientClick, System

\* At launch no service has a call or a process of the session.
LEMMA PatientInit == Init => PatientInv
  BY DEF Init, PMInit, PatientInv, OneAtATime, StartInFlight, IsRunning

\* A user who lets a service settle before starting it again, and who stops it
\* whenever he likes, never makes the application forget a process it started.
THEOREM PatientNeverForgets == PatientSpec => []NoneForgotten
<1>1. Init => TypeOK /\ PatientInv
  BY TypeInit, PatientInit
<1>2. TypeOK /\ PatientInv /\ [PatientNext]_vars => TypeOK' /\ PatientInv'
  BY PatientIsNext, TypeStep, PatientStep
<1>3. PatientInv => NoneForgotten
  BY DEF PatientInv, OneAtATime, NoneForgotten
<1> QED
  BY <1>1, <1>2, <1>3, PTL DEF PatientSpec

(***************************************************************************)
(* "Stopped" is wrong after a relaunch only                                *)
(***************************************************************************)

\* Every living process belongs to a start call or to an exit closure of this
\* session.
OwnProcesses == \A s \in Service : alive[s] \subseteq resume[s] \cup armed[s]

\* Processes are made for a start call, the call hands its process to a closure,
\* and the closure runs after the process has died: only a relaunch parts a
\* living process from both, whatever is clicked.
LEMMA OwnStep == TypeOK /\ OwnProcesses /\ [Next /\ ~Relaunch]_vars => OwnProcesses'
<1> SUFFICES ASSUME TypeOK, OwnProcesses, [Next /\ ~Relaunch]_vars,
                    NEW r \in Service
             PROVE  (alive[r] \subseteq resume[r] \cup armed[r])'
  BY DEF OwnProcesses
<1>r. alive[r] \subseteq resume[r] \cup armed[r]
  BY DEF OwnProcesses
<1> DEFINE Goal == alive'[r] \subseteq resume'[r] \cup armed'[r]
<1> USE <1>r DEF TypeOK, PMTypeOK, osVars, managerVars
<1>1. ASSUME NEW s \in Service, Toggle(s) PROVE Goal
  BY <1>1 DEF Toggle, ClickStart, ClickStop, Start, Stop, StopServices
<1>2. ASSUME NEW s \in Service, CallReturns(s) PROVE Goal
  BY <1>2 DEF CallReturns, StartFails, StopResume, Started
<1>3. ASSUME NEW s \in Service, StopEscapes(s) PROVE Goal
  BY <1>3 DEF StopEscapes, StopThrows
<1>4. ASSUME NEW s \in Service, Unseen(s) PROVE Goal
  BY <1>4 DEF Unseen, OperatingSystem, Spawn, TaskKill, ProcessExits, WorkerStarts,
              WorkerExits, ExitCallback
<1>5. CASE Tick \/ Frame
  BY <1>5 DEF Tick, Frame, pmVars
<1>6. CASE UNCHANGED vars
  BY <1>6 DEF vars
<1> QED
  BY <1>1, <1>2, <1>3, <1>4, <1>5, <1>6 DEF Next, System

\* As long as the application is not closed and launched again, a card of the
\* patient user that says "Stopped" is right: the relaunch, which forgets the
\* processes it leaves alive, is the only way to a wrong one.
THEOREM StoppedMeansDownInOneSession ==
    Init /\ [][PatientNext /\ ~Relaunch]_vars => []StoppedMeansDown
<1>1. Init => TypeOK /\ PatientInv /\ OwnProcesses
  BY TypeInit, PatientInit DEF Init, PMInit, OwnProcesses
<1>2. [PatientNext /\ ~Relaunch]_vars => [PatientNext]_vars /\ [Next /\ ~Relaunch]_vars
  BY PatientIsNext
<1>3. TypeOK /\ PatientInv /\ OwnProcesses /\ [PatientNext /\ ~Relaunch]_vars
        => TypeOK' /\ PatientInv' /\ OwnProcesses'
  BY <1>2, PatientIsNext, TypeStep, PatientStep, OwnStep
<1>4. TypeOK /\ PatientInv /\ OwnProcesses => StoppedMeansDown
  <2> SUFFICES ASSUME TypeOK, PatientInv, OwnProcesses, NEW s \in Service,
                      Settled(s), ~IsRunning(s), NEW p \in alive[s]
               PROVE  FALSE
    BY DEF StoppedMeansDown
  <2>1. p \in armed[s] /\ p \in Proc
    BY DEF TypeOK, PMTypeOK, OwnProcesses, Settled, StartInFlight
  <2>2. handle[s] = p
    BY <2>1 DEF PatientInv, OneAtATime
  <2> QED
    BY <2>1, <2>2, ProcAssumption DEF IsRunning
<1> QED
  BY <1>1, <1>3, <1>4, PTL
=============================================================================
