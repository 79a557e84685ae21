-------------------------- MODULE ServiceLifecycle --------------------------
(***************************************************************************)
(* What a user expects of one service card, with none of the machinery: a  *)
(* service is off, starting, on or stopping.  It starts only when it is    *)
(* off, it is on through one process only, and every transition ends.      *)
(* Dashboard shows that the page and its process manager implement this    *)
(* when a Start is clicked on a settled service only.                      *)
(***************************************************************************)
CONSTANT Service

VARIABLE phase

Phases == {"off", "starting", "on", "stopping"}

Init == phase = [s \in Service |-> "off"]

Move(s, from, to) ==
    /\ phase[s] = from
    /\ phase' = [phase EXCEPT ![s] = to]

Begin(s) == Move(s, "off", "starting")

\* A start ends with the service on, or off because nothing could be started,
\* or with a process that died before anybody could see it.
StartEnds(s) == \E to \in {"on", "off", "stopping"} : Move(s, "starting", to)

\* A stop, or the process ends by itself.
GoDown(s) == Move(s, "on", "stopping")

StopEnds(s) == Move(s, "stopping", "off")

\* The application is closed and launched again.
Forget == phase' = [s \in Service |-> "off"]

Next ==
    \/ \E s \in Service : Begin(s) \/ StartEnds(s) \/ GoDown(s) \/ StopEnds(s)
    \/ Forget

\* What may happen, and what must: a start and a stop end.
Safety == Init /\ [][Next]_phase

Ending == \A s \in Service : WF_phase(StartEnds(s)) /\ WF_phase(StopEnds(s))

Spec == Safety /\ Ending
=============================================================================
