--------------------------- MODULE ProcessManager ---------------------------
(***************************************************************************)
(* ProcessManagerService (lib/core/process_manager.dart): the object that  *)
(* starts and stops nginx, php-cgi and mysqld and remembers one Process    *)
(* handle per service.                                                     *)
(*                                                                         *)
(* Dart runs one event at a time, so the code between two awaits is one    *)
(* action; at every await other events may run, and the operating system   *)
(* runs all the time.  A start call is suspended on Process.start, a stop  *)
(* call of nginx or mysqld on Process.run('taskkill'), and the closure     *)
(* given to exitCode.then runs some time after its process has died.       *)
(*                                                                         *)
(* The three services run different images, so processes are modelled per  *)
(* service: Proc is a set of process identities, reused once the process,  *)
(* its worker and its callbacks are gone.                                  *)
(***************************************************************************)
EXTENDS Naturals, FiniteSets

CONSTANTS
    Service,     \* the managed services: nginx, php, mysql
    TaskKilled,  \* those whose stop method also runs taskkill /IM: nginx, mysql
    Forking,     \* those whose master process spawns workers: nginx
    Proc,        \* process identities (bounds the processes alive at once)
    NoProc,      \* the null handle
    MaxCalls     \* bound: start calls, and stop calls, in flight per service

ASSUME ServiceAssumption == TaskKilled \subseteq Service /\ Forking \subseteq Service
ASSUME ProcAssumption == NoProc \notin Proc
ASSUME MaxCallsAssumption == MaxCalls \in Nat \ {0}

VARIABLES
    handle,    \* _nginxProcess, _phpProcess, _mysqlProcess
    starting,  \* start calls suspended on Process.start, no process made yet
    resume,    \* processes made, their start call not yet resumed
    armed,     \* processes whose exitCode.then closure has still to run
    killing,   \* stop calls suspended on a running taskkill
    killed,    \* stop calls whose taskkill has ended, not yet resumed
    alive,     \* OS: living service processes (for nginx: the masters)
    worker     \* OS: masters, dead or alive, whose worker process lives

managerVars == <<handle, starting, resume, armed, killing, killed>>
osVars == <<alive, worker>>
pmVars == <<handle, starting, resume, armed, killing, killed, alive, worker>>

PMTypeOK ==
    /\ handle \in [Service -> Proc \cup {NoProc}]
    /\ starting \in [Service -> Nat]
    /\ resume \in [Service -> SUBSET Proc]
    /\ armed \in [Service -> SUBSET Proc]
    /\ killing \in [Service -> Nat]
    /\ killed \in [Service -> Nat]
    /\ alive \in [Service -> SUBSET Proc]
    /\ worker \in [Service -> SUBSET Proc]

PMInit ==
    /\ handle = [s \in Service |-> NoProc]
    /\ starting = [s \in Service |-> 0]
    /\ resume = [s \in Service |-> {}]
    /\ armed = [s \in Service |-> {}]
    /\ killing = [s \in Service |-> 0]
    /\ killed = [s \in Service |-> 0]
    /\ alive = [s \in Service |-> {}]
    /\ worker = [s \in Service |-> {}]

\* isNginxRunning, isPhpRunning, isMysqlRunning.
IsRunning(s) == handle[s] # NoProc

\* Identities the operating system may give to a new process of s.
Free(s) == Proc \ (alive[s] \cup worker[s] \cup resume[s] \cup armed[s])

(***************************************************************************)
(* Starting a service                                                      *)
(***************************************************************************)

\* Mutant: the start methods do not look at the handle.
StartAgain(s) ==
    /\ starting[s] + Cardinality(resume[s]) < MaxCalls
    /\ starting' = [starting EXCEPT ![s] = @ + 1]
    /\ UNCHANGED <<handle, resume, armed, killing, killed, osVars>>

\* startNginx / startPHP / startMySQL up to the await.  A call made while
\* IsRunning(s) returns at once and changes nothing.
Start(s) ==
    /\ ~IsRunning(s)
    /\ starting[s] + Cardinality(resume[s]) < MaxCalls
    /\ starting' = [starting EXCEPT ![s] = @ + 1]
    /\ UNCHANGED <<handle, resume, armed, killing, killed, osVars>>

\* Process.start makes the process; the suspended call becomes ready.
Spawn(s) ==
    /\ starting[s] > 0
    /\ \E p \in Free(s) :
        /\ alive' = [alive EXCEPT ![s] = @ \cup {p}]
        /\ resume' = [resume EXCEPT ![s] = @ \cup {p}]
    /\ starting' = [starting EXCEPT ![s] = @ - 1]
    /\ UNCHANGED <<handle, armed, killing, killed, worker>>

\* Mutant: the catch block tries again.
StartRetries(s) ==
    /\ starting[s] > 0
    /\ UNCHANGED pmVars

\* Process.start throws, the catch block logs, and the call ends.
StartFails(s) ==
    /\ starting[s] > 0
    /\ starting' = [starting EXCEPT ![s] = @ - 1]
    /\ UNCHANGED <<handle, resume, armed, killing, killed, osVars>>

\* The call resumes: the handle is assigned, whatever it held by now, and the
\* exit closure is registered.  The process may already be dead.
Started(s, p) ==
    /\ p \in resume[s]
    /\ handle' = [handle EXCEPT ![s] = p]
    /\ resume' = [resume EXCEPT ![s] = @ \ {p}]
    /\ armed' = [armed EXCEPT ![s] = @ \cup {p}]
    /\ UNCHANGED <<starting, killing, killed, osVars>>

\* Mutant: the closure logs the exit and keeps the handle.
ExitCallbackLogs(s, p) ==
    /\ p \in armed[s] \ alive[s]
    /\ armed' = [armed EXCEPT ![s] = @ \ {p}]
    /\ UNCHANGED <<handle, starting, resume, killing, killed, osVars>>

\* The closure of exitCode.then for p.  It clears the handle without looking
\* whether the handle is still p.
ExitCallback(s, p) ==
    /\ p \in armed[s] \ alive[s]
    /\ armed' = [armed EXCEPT ![s] = @ \ {p}]
    /\ handle' = [handle EXCEPT ![s] = NoProc]
    /\ UNCHANGED <<starting, resume, killing, killed, osVars>>

(***************************************************************************)
(* Stopping a service                                                      *)
(***************************************************************************)

\* Mutant: stopPHP forgets the handle without killing the process.
StopServicesNoKill(S) ==
    LET stopped == {s \in S : IsRunning(s)} IN
    /\ killing' = [s \in Service |->
                    IF s \in stopped \cap TaskKilled THEN killing[s] + 1 ELSE killing[s]]
    /\ handle' = [s \in Service |->
                    IF s \in stopped \ TaskKilled THEN NoProc ELSE handle[s]]
    /\ UNCHANGED <<starting, resume, armed, killed, osVars>>

\* stopNginx / stopPHP / stopMySQL up to the await, for each service of S whose
\* handle is set: the process is killed; PHP's handle is cleared at once, the
\* others wait for taskkill.
StopServices(S) ==
    LET stopped == {s \in S : IsRunning(s)} IN
    /\ alive' = [s \in Service |->
                    IF s \in stopped THEN alive[s] \ {handle[s]} ELSE alive[s]]
    /\ killing' = [s \in Service |->
                    IF s \in stopped \cap TaskKilled THEN killing[s] + 1 ELSE killing[s]]
    /\ handle' = [s \in Service |->
                    IF s \in stopped \ TaskKilled THEN NoProc ELSE handle[s]]
    /\ UNCHANGED <<starting, resume, armed, killed, worker>>

Stop(s) ==
    /\ IsRunning(s)
    /\ killing[s] + killed[s] < MaxCalls
    /\ StopServices({s})

\* stopAll calls the three stop methods without awaiting them: their first
\* segments run in one event.  Nothing in the application calls it.
StopAll ==
    /\ \A s \in Service : killing[s] + killed[s] < MaxCalls
    /\ StopServices(Service)

\* Mutant: taskkill /PID ends the master and leaves its worker.
TaskKillMaster(s) ==
    /\ killing[s] > 0
    /\ alive' = [alive EXCEPT ![s] = {}]
    /\ killing' = [killing EXCEPT ![s] = @ - 1]
    /\ killed' = [killed EXCEPT ![s] = @ + 1]
    /\ UNCHANGED <<handle, starting, resume, armed, worker>>

\* taskkill /IM <image> /F ends every process of the image, workers and
\* processes of earlier sessions included.
TaskKill(s) ==
    /\ killing[s] > 0
    /\ alive' = [alive EXCEPT ![s] = {}]
    /\ worker' = [worker EXCEPT ![s] = {}]
    /\ killing' = [killing EXCEPT ![s] = @ - 1]
    /\ killed' = [killed EXCEPT ![s] = @ + 1]
    /\ UNCHANGED <<handle, starting, resume, armed>>

\* Process.run throws because taskkill cannot be launched: the stop call ends
\* there, its last assignment skipped.
StopThrows(s) ==
    /\ killing[s] > 0
    /\ killing' = [killing EXCEPT ![s] = @ - 1]
    /\ UNCHANGED <<handle, starting, resume, armed, killed, osVars>>

\* Mutant: the stop methods do not await taskkill.
StopResumeEarly(s) ==
    /\ killing[s] + killed[s] > 0
    /\ killed' = [killed EXCEPT ![s] = @ - 1]
    /\ handle' = [handle EXCEPT ![s] = NoProc]
    /\ UNCHANGED <<starting, resume, armed, killing, osVars>>

\* The stop call resumes after taskkill and clears the handle.
StopResume(s) ==
    /\ killed[s] > 0
    /\ killed' = [killed EXCEPT ![s] = @ - 1]
    /\ handle' = [handle EXCEPT ![s] = NoProc]
    /\ UNCHANGED <<starting, resume, armed, killing, osVars>>

(***************************************************************************)
(* The operating system and the end of the application                     *)
(***************************************************************************)

\* A service process ends by itself (crash, port taken, request limit).
ProcessExits(s, p) ==
    /\ p \in alive[s]
    /\ alive' = [alive EXCEPT ![s] = @ \ {p}]
    /\ UNCHANGED <<managerVars, worker>>

\* A living master makes its worker; a worker survives its master and ends on
\* its own or by taskkill.
WorkerStarts(s, p) ==
    /\ s \in Forking
    /\ p \in alive[s] \ worker[s]
    /\ worker' = [worker EXCEPT ![s] = @ \cup {p}]
    /\ UNCHANGED <<managerVars, alive>>

WorkerExits(s, p) ==
    /\ p \in worker[s]
    /\ worker' = [worker EXCEPT ![s] = @ \ {p}]
    /\ UNCHANGED <<managerVars, alive>>

\* The application process ends and is launched again: the service object is
\* new, and every suspended call and closure of the old one is gone.  The child
\* processes live on.
Relaunched ==
    /\ handle' = [s \in Service |-> NoProc]
    /\ starting' = [s \in Service |-> 0]
    /\ resume' = [s \in Service |-> {}]
    /\ armed' = [s \in Service |-> {}]
    /\ killing' = [s \in Service |-> 0]
    /\ killed' = [s \in Service |-> 0]
    /\ UNCHANGED osVars

(***************************************************************************)
(* The service object under any caller                                     *)
(***************************************************************************)

Calls == (\E s \in Service : Start(s) \/ Stop(s)) \/ StopAll

\* Steps of the event loop that finish what a call began.
EventLoop(s) ==
    \/ StartFails(s)
    \/ \E p \in Proc : Started(s, p) \/ ExitCallback(s, p)
    \/ StopThrows(s)
    \/ StopResume(s)

OperatingSystem(s) ==
    \/ Spawn(s)
    \/ TaskKill(s)
    \/ \E p \in Proc : ProcessExits(s, p) \/ WorkerStarts(s, p) \/ WorkerExits(s, p)

PMNext ==
    \/ Calls
    \/ \E s \in Service : EventLoop(s) \/ OperatingSystem(s)
    \/ Relaunched

\* Futures complete and the event queue is served in order: a launched
\* Process.start or taskkill ends, a ready continuation and a due exit closure
\* run.  Callers, crashes and relaunches are free to happen or not.
PMFairness ==
    \A s \in Service :
        /\ WF_pmVars(Spawn(s) \/ StartFails(s))
        /\ WF_pmVars(TaskKill(s) \/ StopThrows(s))
        /\ WF_pmVars(StopResume(s))
        /\ \A p \in Proc : WF_pmVars(Started(s, p)) /\ WF_pmVars(ExitCallback(s, p))

PMSpec == PMInit /\ [][PMNext]_pmVars /\ PMFairness

(***************************************************************************)
(* Properties                                                              *)
(***************************************************************************)

\* A handle always belongs to a process whose exit closure has still to run,
\* so "running" can never outlast the closure that clears it: no interleaving
\* of start, stop, taskkill and exits leaves a service stuck on "running".
HandleWatched == \A s \in Service : IsRunning(s) => handle[s] \in armed[s]

\* When the process in the handle has died, the handle stops naming it:
\* exitCode.then notices every exit, also one that races a stop call.
ExitObserved ==
    \A s \in Service, p \in Proc :
        (handle[s] = p /\ p \notin alive[s]) ~> (handle[s] # p)
=============================================================================
