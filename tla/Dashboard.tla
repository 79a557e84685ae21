----------------------------- MODULE Dashboard -----------------------------
(***************************************************************************)
(* The dashboard page (lib/ui/dashboard.dart) driving ProcessManager, and  *)
(* the end of the application (_closeApp in lib/main.dart).                *)
(*                                                                         *)
(* Each service card has one button.  Its label is what IsRunning was when *)
(* the page was last built; what a click does is decided by IsRunning at   *)
(* the moment of the click.  The page is rebuilt in the frame after a      *)
(* setState: when a click's call has returned, and at every timer tick.    *)
(* Exit closures do not call setState.                                     *)
(***************************************************************************)
EXTENDS ProcessManager

VARIABLES
    shown,    \* the built page says "Running" for the service
    dirty,    \* a setState has asked for a frame
    stopped   \* history: the last click on the service was a Stop ("clean" when
              \* no start was in flight, "racing" when one was), or not ("no")

dashVars == <<shown, dirty, stopped>>
vars == <<handle, starting, resume, armed, killing, killed, alive, worker,
          shown, dirty, stopped>>

TypeOK ==
    /\ PMTypeOK
    /\ shown \in [Service -> BOOLEAN]
    /\ dirty \in BOOLEAN
    /\ stopped \in [Service -> {"no", "racing", "clean"}]

Init ==
    /\ PMInit
    /\ shown = [s \in Service |-> FALSE]
    /\ dirty = FALSE
    /\ stopped = [s \in Service |-> "no"]

StartInFlight(s) == starting[s] > 0 \/ resume[s] # {}

\* The onToggle closure of a card, up to its await.
ClickStart(s) ==
    /\ Start(s)
    /\ stopped' = [stopped EXCEPT ![s] = "no"]
    /\ UNCHANGED <<shown, dirty>>

\* stopPHP has no await of its own: the closure goes on to setState at once.
ClickStop(s) ==
    /\ Stop(s)
    /\ stopped' = [stopped EXCEPT ![s] = IF StartInFlight(s) THEN "racing" ELSE "clean"]
    /\ dirty' = (dirty \/ s \notin TaskKilled)
    /\ UNCHANGED shown

Toggle(s) == ClickStart(s) \/ ClickStop(s)

\* The awaited call returns and the closure calls setState.
CallReturns(s) ==
    /\ StartFails(s) \/ StopResume(s) \/ \E p \in Proc : Started(s, p)
    /\ dirty' = TRUE
    /\ UNCHANGED <<shown, stopped>>

\* The stop call throws out of the closure: no setState.
StopEscapes(s) ==
    /\ StopThrows(s)
    /\ stopped' = [stopped EXCEPT ![s] = "no"]
    /\ UNCHANGED <<shown, dirty>>

\* Steps the page does not take part in.
Unseen(s) ==
    /\ OperatingSystem(s) \/ \E p \in Proc : ExitCallback(s, p)
    /\ UNCHANGED dashVars

\* Mutant: the timer runs without setState.
TickIdle == UNCHANGED vars

\* _refreshTimer, every two seconds.
Tick ==
    /\ dirty' = TRUE
    /\ UNCHANGED <<pmVars, shown, stopped>>

\* Mutant: a card never goes from stopped to running.
FrameDown ==
    /\ dirty
    /\ shown' = [s \in Service |-> shown[s] /\ IsRunning(s)]
    /\ dirty' = FALSE
    /\ UNCHANGED <<pmVars, stopped>>

\* build: every card is drawn from the service object as it is now.
Frame ==
    /\ dirty
    /\ shown' = [s \in Service |-> IsRunning(s)]
    /\ dirty' = FALSE
    /\ UNCHANGED <<pmVars, stopped>>

\* Exit from the tray (_closeApp calls destroy and nothing else), or a crash,
\* and the next launch with its first build.
Relaunch ==
    /\ Relaunched
    /\ shown' = [s \in Service |-> FALSE]
    /\ dirty' = FALSE
    /\ stopped' = [s \in Service |-> "no"]

System ==
    \/ \E s \in Service : CallReturns(s) \/ StopEscapes(s) \/ Unseen(s)
    \/ Tick
    \/ Frame
    \/ Relaunch

Next == (\E s \in Service : Toggle(s)) \/ System

\* Futures complete, the event queue is served in order, the timer keeps
\* ticking and requested frames are built.
Fairness ==
    /\ \A s \in Service :
        /\ WF_vars((Spawn(s) /\ Unseen(s)) \/ (StartFails(s) /\ CallReturns(s)))
        /\ WF_vars((TaskKill(s) /\ Unseen(s)) \/ StopEscapes(s))
        /\ WF_vars(StopResume(s) /\ CallReturns(s))
        /\ \A p \in Proc : /\ WF_vars(Started(s, p) /\ CallReturns(s))
                           /\ WF_vars(ExitCallback(s, p) /\ Unseen(s))
    /\ WF_vars(Tick)
    /\ WF_vars(Frame)

Spec == Init /\ [][Next]_vars /\ Fairness

(***************************************************************************)
(* A user who waits: no Start of a service while one of its calls is in    *)
(* flight or one of its exit closures is due.  Stop is clicked at any      *)
(* time, and again while a stop is running.                                *)
(***************************************************************************)

Settled(s) ==
    /\ ~StartInFlight(s)
    /\ killing[s] = 0 /\ killed[s] = 0
    /\ armed[s] \subseteq alive[s]

PatientClick(s) == (Settled(s) /\ ClickStart(s)) \/ ClickStop(s)

PatientNext == (\E s \in Service : PatientClick(s)) \/ System

PatientSpec == Init /\ [][PatientNext]_vars /\ Fairness

(***************************************************************************)
(* Properties                                                              *)
(***************************************************************************)

\* stopNginx and stopMySQL run taskkill "to be sure": once a Stop clicked while
\* no start was in flight has had its taskkill, no process of the image is
\* left: no worker, nothing an earlier click or an earlier session forgot.
CleanStopSweeps ==
    \A s \in TaskKilled :
        stopped[s] = "clean" /\ killing[s] = 0 => alive[s] = {} /\ worker[s] = {}

\* Every living process this session started is the one in the handle: start,
\* stop and the exit closures never lose a running service.
NoneForgotten ==
    \A s \in Service : \A p \in alive[s] \cap armed[s] : handle[s] = p

\* A card says "Stopped" only when the service is down (read when the service
\* has settled and the page is up to date).
StoppedMeansDown ==
    \A s \in Service :
        Settled(s) /\ ~dirty /\ ~IsRunning(s) /\ ~shown[s] => alive[s] = {}

\* A service that is down for good is eventually shown as stopped for good,
\* although nothing tells the page that a process has ended.
DownIsShown ==
    \A s \in Service :
        <>[](alive[s] = {} /\ starting[s] = 0) => <>[]~shown[s]

\* A process this session started that runs for good is eventually shown as
\* running for good.
UpIsShown ==
    \A s \in Service :
        (\E p \in Proc : <>[](p \in alive[s] \cap armed[s])) => <>[]shown[s]

\* The phase of a service, read off the page and its process manager.
Phase(s) ==
    IF StartInFlight(s) THEN "starting"
    ELSE IF armed[s] \cap alive[s] # {} THEN "on"
    ELSE IF Settled(s) THEN "off"
    ELSE "stopping"

Lifecycle == INSTANCE ServiceLifecycle WITH phase <- [s \in Service |-> Phase(s)]

\* The page and its process manager run each service through the life cycle of
\* ServiceLifecycle: no start of a service that is not off, one process of this
\* session at a time, and no way back from stopping to on.
FollowsLifecycle == Lifecycle!Safety

\* Whatever a click began comes to rest: a start ends with the service on or
\* off, a stop ends with the service off.
TransitionsEnd == Lifecycle!Ending
=============================================================================
