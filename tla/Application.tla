---------------------------- MODULE Application ----------------------------
(***************************************************************************)
(* Settings, services and the installer together: where one component      *)
(* relies on what another has written.                                     *)
(*                                                                         *)
(* The settings are those of ConfigManager under a user who waits; nginx   *)
(* and PHP follow ServiceLifecycle, which Dashboard implements.  They meet *)
(* in nginx.conf: a save rewrites its ports, and nginx reads it when it    *)
(* starts and never again.  The dashboard hands PHP its port as a literal. *)
(* An upgrade of the installation (setup.iss) replaces the files and       *)
(* launches the new application.                                           *)
(***************************************************************************)
EXTENDS ConfigManager

VARIABLES
    phase,  \* of the two services, as in ServiceLifecycle
    served  \* nginx.conf as nginx read it, None before the first start

appVars == <<phase, served>>
allVars == <<mem, json, conf, login, form, pc, arg, buf, acked, harm, phase, served>>

Services == INSTANCE ServiceLifecycle WITH Service <- {"nginx", "php"}

AppTypeOK ==
    /\ TypeOK
    /\ phase \in [{"nginx", "php"} -> Services!Phases]
    /\ served \in NginxConf \cup {None}

AppInit ==
    /\ Init
    /\ Services!Init
    /\ served = None

\* dashboard.dart starts PHP with startPHP('8.4', 9000), whatever is set.
PhpPort == DefaultPort

\* nginx comes on with the configuration it finds, and only with a whole one.
NginxOn ==
    /\ conf \in NginxConf
    /\ Services!Move("nginx", "starting", "on")
    /\ served' = conf
    /\ UNCHANGED vars

\* Any other step of a service.
ServiceStep ==
    /\ \/ \E s \in {"nginx", "php"} :
              Services!Begin(s) \/ Services!GoDown(s) \/ Services!StopEnds(s)
       \/ Services!StartEnds("php")
       \/ \E to \in {"off", "stopping"} : Services!Move("nginx", "starting", to)
    /\ UNCHANGED <<vars, served>>

SettingsStep ==
    /\ \/ Edit
       \/ \E c \in Call : Quiet /\ ClickSave(c)
       \/ \E t \in Task : Work(t)
    /\ UNCHANGED appVars

AppRelaunch ==
    /\ Relaunch
    /\ Services!Forget
    /\ UNCHANGED served

\* setup.iss over an installation: `bin\*` with ignoreversion replaces config.json
\* and nginx.conf; the entry for config.json that asks whether it exists comes
\* later and finds it.  The last page launches the application.  The login entry
\* is not the installer's.
Upgrade ==
    /\ Quiet
    /\ \A s \in {"nginx", "php"} : phase[s] = "off"
    /\ json' = Default
    /\ conf' = Shipped
    /\ mem' = Default
    /\ form' = FreshForm
    /\ pc' = Launched
    /\ arg' = NoArg
    /\ buf' = NoBuf
    /\ UNCHANGED <<login, acked, harm, phase, served>>

AppNext == SettingsStep \/ NginxOn \/ ServiceStep \/ AppRelaunch \/ Upgrade

AppSpec == AppInit /\ [][AppNext]_allVars

(***************************************************************************)
(* Properties                                                              *)
(***************************************************************************)

\* nginx passes PHP scripts to the port php-cgi listens on: whenever both run and
\* no save is in flight.
PhpReached ==
    Quiet /\ phase["nginx"] = "on" /\ phase["php"] = "on" =>
        served.fastcgiPass = PhpPort

\* Durable, of ConfigManager, is asked of this specification too: a reported save
\* is still there when the application has been launched again, upgraded or not.
=============================================================================
