---------------------------- MODULE Registration ----------------------------
(***************************************************************************)
(* What "Fix All" promises, with no lookup, script or shell: the user asks *)
(* to register sites, and either exactly these are registered, all at once,*)
(* or none.  Nothing else registers a site, and no registration is lost.   *)
(* Nobody has to answer.  HostsManager shows that the sites card and the   *)
(* hosts manager implement this for a user who waits for the outcome of one*)
(* fix before the next.  A request may name sites that are registered: the *)
(* list of the card may come from a lookup that could not read them.       *)
(***************************************************************************)
CONSTANT Site

VARIABLES
    registered,  \* the sites with an entry in the hosts file
    asked        \* the sites of the request in progress

vars == <<registered, asked>>

Init ==
    /\ registered \in SUBSET Site
    /\ asked = {}

Ask(request) ==
    /\ asked = {}
    /\ request # {}
    /\ asked' = request
    /\ UNCHANGED registered

Grant ==
    /\ asked # {}
    /\ registered' = registered \cup asked
    /\ asked' = {}

\* The user refuses, or the fix fails on the way.
Refuse ==
    /\ asked # {}
    /\ asked' = {}
    /\ UNCHANGED registered

Next ==
    \/ \E request \in SUBSET Site : Ask(request)
    \/ Grant \/ Refuse

Spec == Init /\ [][Next]_vars
=============================================================================
