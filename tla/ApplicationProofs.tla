------------------------- MODULE ApplicationProofs -------------------------
(***************************************************************************)
(* What holds where the components meet, for every set of ports and calls: *)
(* which step loses settings, and which setting loses PHP.                 *)
(***************************************************************************)
EXTENDS Application, SettingsStoreProofs

(***************************************************************************)
(* Types                                                                   *)
(***************************************************************************)

\* Of the settings an application that is not upgraded does what a page with a
\* patient user does.
LEMMA SettingsOnly == [AppNext /\ ~Upgrade]_allVars => [PatientNext]_vars
<1> SUFFICES ASSUME (AppNext /\ ~Upgrade) \/ UNCHANGED allVars PROVE [PatientNext]_vars
  OBVIOUS
<1>1. CASE SettingsStep
  BY <1>1 DEF SettingsStep, PatientNext
<1>2. CASE NginxOn \/ ServiceStep \/ UNCHANGED allVars
  BY <1>2 DEF NginxOn, ServiceStep, allVars, vars
<1>3. CASE AppRelaunch
  BY <1>3 DEF AppRelaunch, PatientNext
<1> QED
  BY <1>1, <1>2, <1>3 DEF AppNext

\* The services only ever move from one phase to another.
LEMMA PhaseStep ==
    ASSUME phase \in [{"nginx", "php"} -> Services!Phases], [AppNext]_allVars
    PROVE  phase' \in [{"nginx", "php"} -> Services!Phases]
<1> USE DEF Services!Phases
<1>1. ASSUME NEW s \in {"nginx", "php"}, NEW from,
             NEW to \in Services!Phases, Services!Move(s, from, to)
      PROVE  phase' \in [{"nginx", "php"} -> Services!Phases]
  BY <1>1 DEF Services!Move
<1>2. CASE NginxOn
  BY <1>1, <1>2 DEF NginxOn
<1>3. CASE ServiceStep
  BY <1>1, <1>3 DEF ServiceStep, Services!Begin, Services!GoDown, Services!StopEnds,
                    Services!StartEnds
<1>4. CASE AppRelaunch
  BY <1>4 DEF AppRelaunch, Services!Forget
<1>5. CASE SettingsStep \/ Upgrade \/ UNCHANGED allVars
  BY <1>5 DEF SettingsStep, Upgrade, appVars, allVars
<1> QED
  BY <1>2, <1>3, <1>4, <1>5 DEF AppNext

AppTypeInv == TypeInv /\ AppTypeOK

LEMMA AppTypeInit == AppInit => AppTypeInv
<1> SUFFICES ASSUME AppInit PROVE AppTypeInv
  OBVIOUS
<1>1. TypeInv
  BY TypeInit DEF AppInit
<1>2. phase \in [{"nginx", "php"} -> Services!Phases]
  BY DEF AppInit, Services!Init, Services!Phases
<1> QED
  BY <1>1, <1>2 DEF AppInit, AppTypeInv, AppTypeOK, TypeInv

LEMMA AppTypeStep == AppTypeInv /\ [AppNext]_allVars => AppTypeInv'
<1> SUFFICES ASSUME AppTypeInv, [AppNext]_allVars PROVE AppTypeInv'
  OBVIOUS
<1>1. TypeInv'
  <2>1. CASE Upgrade
    BY <2>1, DefaultIsConfig, PortAssumption
    DEF Upgrade, AppTypeInv, TypeInv, Holds, TypeOK, FreshForm, Launched, NoArg, NoBuf,
        Shipped, NginxConf, TaskStep, SaveStep
  <2>2. CASE ~Upgrade
    <3>1. [Next]_vars
      BY <2>2, SettingsOnly DEF PatientNext, Next
    <3> QED
      BY <3>1, TypeStep DEF AppTypeInv
  <2> QED
    BY <2>1, <2>2
<1>2. phase' \in [{"nginx", "php"} -> Services!Phases]
  BY PhaseStep DEF AppTypeInv, AppTypeOK
<1>3. served' \in NginxConf \cup {None}
  BY DEF AppTypeInv, AppTypeOK, AppNext, SettingsStep, NginxOn, ServiceStep, AppRelaunch,
         Upgrade, appVars, allVars
<1> QED
  BY <1>1, <1>2, <1>3 DEF AppTypeInv, AppTypeOK, TypeInv

\* Settings, services and installer together keep their types.
THEOREM AppTypeCorrect == AppSpec => []AppTypeOK
<1>1. AppTypeInv => AppTypeOK
  BY DEF AppTypeInv
<1> QED
  BY <1>1, AppTypeInit, AppTypeStep, PTL DEF AppSpec

(***************************************************************************)
(* Only an upgrade loses settings                                          *)
(***************************************************************************)

\* A reported save that met no error is lost by an upgrade or not at all: no
\* start or stop of a service and no relaunch with services running touches it.
THEOREM OnlyUpgradesLose == AppInit /\ [][AppNext /\ ~Upgrade]_allVars => []Durable
<1> DEFINE Kept == AppNext /\ ~Upgrade
<1>1. AppInit => TypeInv /\ DurableInv
  BY TypeInit, DurableInit DEF AppInit
<1>2. TypeInv /\ DurableInv /\ [Kept]_allVars => TypeInv' /\ DurableInv'
  <2>1. [PatientNext]_vars => [Next]_vars
    BY DEF PatientNext, Next
  <2> QED
    BY <2>1, SettingsOnly, TypeStep, DurableStep
<1>3. DurableInv => Durable
  BY DEF DurableInv, Durable, Quiet, Task
<1> QED
  <2> HIDE DEF Kept
  <2>1. AppInit /\ [][Kept]_allVars => []Durable
    BY <1>1, <1>2, <1>3, PTL
  <2> QED
    BY <2>1 DEF Kept

(***************************************************************************)
(* An upgrade takes no file apart from the others                          *)
(***************************************************************************)

\* An upgrade finds nothing in flight and leaves nothing but the load in flight.
LEMMA OneCallStep == TypeInv /\ OneCall /\ [AppNext]_allVars => OneCall'
<1> SUFFICES ASSUME TypeInv, OneCall, [AppNext]_allVars PROVE OneCall'
  OBVIOUS
<1> USE CallAssumption DEF OneCall, TypeInv, TypeOK, Task
<1>1. CASE Upgrade
  BY <1>1 DEF Upgrade, Launched
<1>2. CASE ~Upgrade
  <2>1. [PatientNext]_vars
    BY <1>2, SettingsOnly
  <2>2. ASSUME NEW c \in Call, Quiet, ClickSave(c) PROVE OneCall'
    BY <2>2 DEF ClickSave, Quiet, Goto
  <2>3. ASSUME NEW t \in Task, Work(t) PROVE OneCall'
    <3>1. pc[t] # "idle" /\ \A s \in Task \ {t} : pc'[s] = pc[s]
      BY <2>3 DEF Work, Save, Load, AutoStart, AutoStartThrows, Create, JsonOpen, JsonWrite,
          ConfExists, ConfRead, ConfOpen, ConfWrite, SaveFails, Answer, LoadExists, LoadRead,
          LoadFails, LoadSaved, Goto, End, SaveStep
    <3> QED
      BY <3>1
  <2>4. CASE Edit \/ Relaunch \/ UNCHANGED vars
    BY <2>4 DEF Edit, Relaunch, Launched, vars
  <2> QED
    BY <2>1, <2>2, <2>3, <2>4 DEF PatientNext
<1> QED
  BY <1>1, <1>2

LEMMA UpgradeFiles ==
    ASSUME TypeInv, OneCall, FilesInv, [AppNext]_allVars
    PROVE  FilesInv'
<1>1. CASE Upgrade
  <2>1. ConfFollows(Default)' /\ ~Quiet'
    BY <1>1, PortAssumption
    DEF Upgrade, ConfFollows, Follows, Default, Shipped, NginxConf, Quiet, Launched, Task
  <2>2. \A t \in Task : pc'[t] \in {"exists", "idle"}
    BY <1>1 DEF Upgrade, Launched
  <2>3. json' = Default /\ mem' = Default /\ Default \in AppConfig /\ Default # Absent
    BY <1>1, DefaultIsConfig, FileAssumption DEF Upgrade
  <2>4. \A t \in Task : FileProgress(t)'
    BY <2>1, <2>2, <2>3 DEF FileProgress, ConfFollows, Follows
  <2> QED
    BY <2>1, <2>4 DEF FilesInv
<1>2. CASE ~Upgrade
  BY <1>2, SettingsOnly, FilesStep
<1> QED
  BY <1>1, <1>2

\* Memory, config.json and the ports of nginx.conf that are not negative are the
\* same settings whenever nothing is in flight, upgrades included, until a call is
\* cut off or fails.
THEOREM FilesAgreeThroughUpgrades ==
    AppSpec => [](Quiet /\ harm = "none" => json = mem /\ ConfFollows(mem))
<1>1. AppInit => AppTypeInv /\ OneCall /\ FilesInv
  BY AppTypeInit, DurableInit, AgreeInit DEF AppInit, DurableInv, OneCall, AgreeInv
<1>2. AppTypeInv /\ OneCall /\ FilesInv /\ [AppNext]_allVars
          => (AppTypeInv /\ OneCall /\ FilesInv)'
  <2>1. AppTypeInv => TypeInv
    BY DEF AppTypeInv
  <2> QED
    BY <2>1, AppTypeStep, OneCallStep, UpgradeFiles
<1>3. FilesInv => (Quiet /\ harm = "none" => json = mem /\ ConfFollows(mem))
  BY DEF FilesInv, Files
<1> QED
  BY <1>1, <1>2, <1>3, PTL DEF AppSpec

\* The login entry is what an upgrade leaves behind: without one, it agrees with
\* them too, whatever nginx and PHP do.
THEOREM OnlyUpgradesPartLogin ==
    AppInit /\ [][AppNext /\ ~Upgrade]_allVars => []StoresAgree
<1> DEFINE Kept == AppNext /\ ~Upgrade
<1>1. AppInit => TypeInv /\ DurableInv /\ AgreeInv
  BY TypeInit, DurableInit, AgreeInit DEF AppInit
<1>2. TypeInv /\ DurableInv /\ AgreeInv /\ [Kept]_allVars
          => (TypeInv /\ DurableInv /\ AgreeInv)'
  <2>1. [PatientNext]_vars => [Next]_vars
    BY DEF PatientNext, Next
  <2> QED
    BY <2>1, SettingsOnly, TypeStep, DurableStep, AgreeStep
<1>3. AgreeInv => StoresAgree
  BY DEF AgreeInv, FilesInv, LoginInv, StoresAgree, Files
<1> QED
  <2> HIDE DEF Kept
  <2>1. AppInit /\ [][Kept]_allVars => []StoresAgree
    BY <1>1, <1>2, <1>3, PTL
  <2> QED
    BY <2>1 DEF Kept

(***************************************************************************)
(* Only the PHP port setting loses PHP                                     *)
(***************************************************************************)

\* No copy of the PHP port, in memory, in a call, in a file or in a running
\* nginx, is anything but the default.
PortUnset ==
    /\ form["phpPort"] = Untouched
    /\ mem.phpPort = DefaultPort
    /\ json \in AppConfig => json.phpPort = DefaultPort
    /\ conf \in NginxConf => conf.fastcgiPass = DefaultPort
    /\ served \in NginxConf => served.fastcgiPass = DefaultPort
    /\ phase["nginx"] = "on" => served \in NginxConf
    /\ \A t \in Task :
        /\ arg[t].phpPort = DefaultPort
        /\ pc[t] \in {"jsonOpen", "jsonWrite"} => buf[t].phpPort = DefaultPort
        /\ pc[t] \in {"confOpen", "confWrite"} /\ buf[t] \in NginxConf =>
               buf[t].fastcgiPass = DefaultPort

LEMMA UnsetInit == AppInit => PortUnset
<1> SUFFICES ASSUME AppInit PROVE PortUnset
  OBVIOUS
<1>1. Default.phpPort = DefaultPort /\ Shipped.fastcgiPass = DefaultPort
  BY DEF Default, Shipped
<1>2. phase["nginx"] = "off"
  BY DEF AppInit, Services!Init
<1> QED
  BY <1>1, <1>2, FileAssumption
  DEF AppInit, Init, PortUnset, FreshForm, ConfigField, Launched, NoArg

\* The steps of the settings, with the PHP field left alone.
LEMMA UnsetSettings ==
    ASSUME "phpPort" \notin Editable, AppTypeInv, PortUnset, [PatientNext]_vars,
           UNCHANGED served, phase'["nginx"] = "on" => phase["nginx"] = "on"
    PROVE  PortUnset'
<1> USE FileAssumption
    DEF PortUnset, AppTypeInv, TypeInv, Holds, TypeOK, Goto, End, Drop, TaskStep, SaveStep
<1>d. Default.phpPort = DefaultPort
  BY DEF Default
<1>1. CASE Edit
  BY <1>1, EditableAssumption DEF Edit, ConfigField
<1>2. ASSUME NEW c \in Call, ClickSave(c) PROVE PortUnset'
  <2>1. FormConfig.phpPort = DefaultPort
    BY PortAssumption DEF FormConfig
  <2> QED
    BY <1>2, <2>1 DEF ClickSave, Task
<1>3. ASSUME NEW t \in Task, Work(t) PROVE PortUnset'
  <2>1. CASE AutoStart(t) \/ AutoStartThrows(t) \/ Create(t) \/ JsonOpen(t)
    BY <1>d, <2>1 DEF AutoStart, AutoStartThrows, Create, JsonOpen
  <2>2. CASE JsonWrite(t)
    <3>1. buf[t].phpPort = DefaultPort
      BY <2>2 DEF JsonWrite
    <3>2. json' \in AppConfig => json'.phpPort = DefaultPort
      BY <2>2, <3>1, OverlayType DEF JsonWrite
    <3> QED
      BY <2>2, <3>2 DEF JsonWrite
  <2>3. CASE ConfExists(t) \/ ConfOpen(t) \/ SaveFails(t)
    BY <2>3 DEF ConfExists, ConfOpen, SaveFails
  <2>4. CASE ConfRead(t)
    <3>1. Rewritten(conf) \in NginxConf => Rewritten(conf).fastcgiPass = DefaultPort
      BY <2>4 DEF ConfRead, Rewritten
    <3> QED
      BY <2>4, <3>1 DEF ConfRead
  <2>5. CASE ConfWrite(t)
    <3>1. conf' \in NginxConf => conf'.fastcgiPass = DefaultPort
      BY <2>5, OverlayType DEF ConfWrite
    <3> QED
      BY <2>5, <3>1 DEF ConfWrite
  <2>6. CASE Answer(t)
    BY <1>d, <2>6 DEF Answer
  <2>7. CASE LoadExists
    BY <2>7 DEF LoadExists
  <2>8. CASE LoadRead \/ LoadFails \/ LoadSaved
    BY <1>d, <2>8 DEF LoadRead, LoadFails, LoadSaved
  <2> QED
    BY <1>3, <2>1, <2>2, <2>3, <2>4, <2>5, <2>6, <2>7, <2>8 DEF Work, Save, Load
<1>4. CASE Relaunch
  BY <1>d, <1>4 DEF Relaunch, FreshForm, ConfigField, Launched, NoArg
<1>5. CASE UNCHANGED vars
  BY <1>5 DEF vars
<1> QED
  BY <1>1, <1>2, <1>3, <1>4, <1>5 DEF PatientNext

LEMMA UnsetStep ==
    ASSUME "phpPort" \notin Editable, AppTypeInv, PortUnset, [AppNext]_allVars
    PROVE  PortUnset'
<1>t. phase \in [{"nginx", "php"} -> Services!Phases]
  BY DEF AppTypeInv, AppTypeOK
<1>1. CASE NginxOn
  BY <1>1 DEF NginxOn, PortUnset, vars
<1>2. CASE Upgrade
  BY <1>2, FileAssumption
  DEF Upgrade, PortUnset, Default, Shipped, FreshForm, ConfigField, Launched, NoArg
<1>3. CASE SettingsStep \/ UNCHANGED allVars
  <2>1. UNCHANGED appVars
    BY <1>3 DEF SettingsStep, appVars, allVars
  <2>2. [PatientNext]_vars
    BY <1>3 DEF SettingsStep, PatientNext, allVars, vars
  <2> QED
    BY <2>1, <2>2, UnsetSettings DEF appVars
<1>4. CASE ServiceStep
  <2>1. UNCHANGED <<vars, served>>
    BY <1>4 DEF ServiceStep
  <2>2. phase'["nginx"] = "on" => phase["nginx"] = "on"
    BY <1>4, <1>t DEF ServiceStep, Services!Begin, Services!GoDown, Services!StopEnds,
                     Services!StartEnds, Services!Move, Services!Phases
  <2> QED
    BY <2>1, <2>2, UnsetSettings
<1>5. CASE AppRelaunch
  <2>1. UNCHANGED served /\ phase'["nginx"] = "off" /\ PatientNext
    BY <1>5 DEF AppRelaunch, Services!Forget, PatientNext
  <2> QED
    BY <2>1, UnsetSettings
<1> QED
  BY <1>1, <1>2, <1>3, <1>4, <1>5 DEF AppNext

\* As long as nobody edits the PHP port, nginx passes scripts to where php-cgi
\* listens: through saves of other fields, failures, crashes, upgrades and starts
\* in any order.
THEOREM DefaultPortReached ==
    ASSUME "phpPort" \notin Editable
    PROVE  AppSpec => []PhpReached
<1>1. AppInit => AppTypeInv /\ PortUnset
  BY AppTypeInit, UnsetInit
<1>2. AppTypeInv /\ PortUnset /\ [AppNext]_allVars => AppTypeInv' /\ PortUnset'
  BY AppTypeStep, UnsetStep
<1>3. PortUnset => PhpReached
  BY DEF PortUnset, PhpReached, PhpPort
<1> QED
  BY <1>1, <1>2, <1>3, PTL DEF AppSpec
=============================================================================
