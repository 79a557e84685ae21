--------------------------- MODULE ConfigManager ---------------------------
(***************************************************************************)
(* ConfigManager (lib/core/config_manager.dart) and the settings page that *)
(* calls it (lib/ui/settings.dart).                                        *)
(*                                                                         *)
(* One AppConfig lives in four places: the object in memory, config.json,  *)
(* the two ports copied into nginx.conf, and the login entry of Windows.   *)
(* A save visits them one await at a time, and so does the load that the   *)
(* constructor starts; nothing serialises them.  A file operation takes    *)
(* effect when its future completes, and its caller resumes in that step.  *)
(* Writing is two operations: opening truncates the file, then the content *)
(* goes to the start of it.                                                *)
(*                                                                         *)
(* mysqlPort and enablePrettyUrls are left out: they travel in config.json *)
(* as phpPort does and nothing else reads them.                            *)
(***************************************************************************)
EXTENDS Naturals

CONSTANTS
    Call,         \* save calls of the page that may be in flight together
    Boot,         \* the _loadConfig call of the constructor
    Port,         \* the numbers a port field may hold
    Negative,     \* those int.tryParse accepts and \d+ does not match
    DefaultPort,  \* the default of either port field
    NotNumber,    \* a text int.tryParse rejects
    Untouched,    \* a field the user has not edited since the page was made
    Editable,     \* bound: the fields the user edits
    Absent,       \* a file that does not exist
    Empty,        \* a file of length zero
    Garbled,      \* a file with the tail of another write behind its content
    None,         \* no save to remember
    CanFail,      \* file and registry operations may fail
    CanCrash      \* the application may end while a call is in flight

ConfigField == {"nginxPort", "phpPort", "autoStart"}

ASSUME CallAssumption == Boot \notin Call
ASSUME PortAssumption ==
    /\ Negative \subseteq Port
    /\ DefaultPort \in Port \ Negative
    /\ NotNumber \notin Port
    /\ Untouched \notin Port \cup {NotNumber, TRUE, FALSE}
ASSUME EditableAssumption == Editable \subseteq ConfigField
ASSUME SwitchAssumption == CanFail \in BOOLEAN /\ CanCrash \in BOOLEAN

\* AppConfig, and what its constructor gives.
AppConfig == [nginxPort : Port, phpPort : Port, autoStart : BOOLEAN]
Default == [nginxPort |-> DefaultPort, phpPort |-> DefaultPort, autoStart |-> FALSE]

\* The parts of nginx.conf the application rewrites.
NginxConf == [listen : Port, fastcgiPass : Port]
Shipped == [listen |-> DefaultPort, fastcgiPass |-> DefaultPort]

ASSUME FileAssumption ==
    /\ Absent # Empty /\ Absent # Garbled /\ Empty # Garbled
    /\ {Absent, Empty, Garbled, None} \cap (AppConfig \cup NginxConf) = {}

Task == Call \cup {Boot}
Text == Port \cup {NotNumber}

SaveStep == {"auto", "create", "jsonOpen", "jsonWrite",
             "confExists", "confRead", "confOpen", "confWrite"}
TaskStep == SaveStep \cup {"exists", "read", "done", "failed", "idle"}

VARIABLES
    mem,    \* _config
    json,   \* bin/system/config.json
    conf,   \* bin/nginx/conf/nginx.conf
    login,  \* the login entry kept by launch_at_startup
    form,   \* the fields of the settings page
    pc,     \* the await a call is suspended on
    arg,    \* the newConfig of a save call
    buf,    \* the content a call is about to write
    acked,  \* history: what the last save reported as saved that met no error,
            \* None from the next click on
    harm    \* history: the worst that has happened to a call: "none", "cut" by
            \* the end of the application, "failed"
vars == <<mem, json, conf, login, form, pc, arg, buf, acked, harm>>

TypeOK ==
    /\ mem \in AppConfig
    /\ json \in AppConfig \cup {Absent, Empty, Garbled}
    /\ conf \in NginxConf \cup {Absent, Empty, Garbled}
    /\ login \in BOOLEAN
    /\ form \in [ConfigField -> Text \cup BOOLEAN \cup {Untouched}]
    /\ pc \in [Task -> TaskStep]
    /\ arg \in [Task -> AppConfig]
    /\ buf \in [Task -> AppConfig \cup NginxConf \cup {Empty, Garbled}]
    /\ acked \in AppConfig \cup {None}
    /\ harm \in {"none", "cut", "failed"}

FreshForm == [f \in ConfigField |-> Untouched]
Launched == [t \in Task |-> IF t = Boot THEN "exists" ELSE "idle"]
NoArg == [t \in Task |-> Default]
NoBuf == [t \in Task |-> Empty]

\* A fresh installation, with or without the two files in place.
Init ==
    /\ mem = Default
    /\ json \in {Absent, Default}
    /\ conf \in {Absent, Shipped}
    /\ login = FALSE
    /\ form = FreshForm
    /\ pc = Launched
    /\ arg = NoArg
    /\ buf = NoBuf
    /\ acked = None
    /\ harm = "none"

Goto(t, step) == pc' = [pc EXCEPT ![t] = step]

\* A call that ends takes its newConfig with it, a write its content.
End(t) == Goto(t, "idle") /\ arg' = [arg EXCEPT ![t] = Default]
Drop(t) == buf' = [buf EXCEPT ![t] = Empty]

\* Content written at the start of a file another call may have written to since
\* this one truncated it: a longer old content leaves its tail.
Overlay(old, new) ==
    IF new = Empty THEN {old}
    ELSE IF old \in {Empty, new} THEN {new}
    ELSE {new, Garbled}

(***************************************************************************)
(* The settings page                                                       *)
(***************************************************************************)

\* Mutant: the text of a port field is not parsed.
FormConfigRaw ==
    LET port(f) == IF form[f] # Untouched THEN form[f] ELSE DefaultPort
    IN  [nginxPort |-> port("nginxPort"), phpPort |-> port("phpPort"),
         autoStart |-> form["autoStart"] = TRUE]

\* initState reads the config while the constructor's load is still waiting for
\* its first file operation, so an untouched field holds the default.
FormConfig ==
    LET port(f) == IF form[f] \in Port THEN form[f] ELSE DefaultPort
    IN  [nginxPort |-> port("nginxPort"), phpPort |-> port("phpPort"),
         autoStart |-> form["autoStart"] = TRUE]

Edit ==
    /\ \E f \in Editable :
        \E v \in IF f = "autoStart" THEN BOOLEAN ELSE Text :
            form' = [form EXCEPT ![f] = v]
    /\ UNCHANGED <<mem, json, conf, login, pc, arg, buf, acked, harm>>

\* "Save Changes": saveConfig(FormConfig) up to its first await.
ClickSave(c) ==
    /\ pc[c] = "idle"
    /\ arg' = [arg EXCEPT ![c] = FormConfig]
    /\ IF mem.autoStart # FormConfig.autoStart
       THEN Goto(c, "auto") /\ UNCHANGED mem
       ELSE Goto(c, "create") /\ mem' = FormConfig
    /\ acked' = None
    /\ UNCHANGED <<json, conf, login, form, buf, harm>>

\* saveConfig has returned, and nothing tells the page how: it always shows
\* "Settings Saved & Config Updated".
Answer(c) ==
    /\ c \in Call
    /\ pc[c] \in {"done", "failed"}
    /\ End(c)
    /\ acked' = IF pc[c] = "done" THEN arg[c] ELSE acked
    /\ UNCHANGED <<mem, json, conf, login, form, buf, harm>>

(***************************************************************************)
(* saveConfig, await by await                                              *)
(***************************************************************************)

\* Mutant: the login entry is enabled and never disabled.
AutoStartEnables(t) ==
    /\ pc[t] = "auto"
    /\ login' = (login \/ arg[t].autoStart)
    /\ mem' = arg[t]
    /\ Goto(t, "create")
    /\ UNCHANGED <<json, conf, form, arg, buf, acked, harm>>

\* launchAtStartup.enable() or disable(), then the assignment of _config.
AutoStart(t) ==
    /\ pc[t] = "auto"
    /\ login' = arg[t].autoStart
    /\ mem' = arg[t]
    /\ Goto(t, "create")
    /\ UNCHANGED <<json, conf, form, arg, buf, acked, harm>>

\* It throws: outside the try block, so the call ends without an answer.
AutoStartThrows(t) ==
    /\ CanFail
    /\ pc[t] = "auto"
    /\ End(t)
    /\ harm' = "failed"
    /\ UNCHANGED <<mem, json, conf, login, form, buf, acked>>

\* file.create, then jsonEncode of _config as it is by now.
Create(t) ==
    /\ pc[t] = "create"
    /\ json' = IF json = Absent THEN Empty ELSE json
    /\ buf' = [buf EXCEPT ![t] = mem]
    /\ Goto(t, "jsonOpen")
    /\ UNCHANGED <<mem, conf, login, form, arg, acked, harm>>

JsonOpen(t) ==
    /\ pc[t] = "jsonOpen"
    /\ json' = Empty
    /\ Goto(t, "jsonWrite")
    /\ UNCHANGED <<mem, conf, login, form, arg, buf, acked, harm>>

JsonWrite(t) ==
    /\ pc[t] = "jsonWrite"
    /\ json' \in Overlay(json, buf[t])
    /\ Drop(t)
    /\ Goto(t, "confExists")
    /\ UNCHANGED <<mem, conf, login, form, arg, acked, harm>>

ConfExists(t) ==
    /\ pc[t] = "confExists"
    /\ Goto(t, IF conf = Absent THEN "done" ELSE "confRead")
    /\ UNCHANGED <<mem, json, conf, login, form, arg, buf, acked, harm>>

\* Mutant: only the listen directives are rewritten.
RewrittenListen(old) ==
    IF old \in {Empty, Garbled} THEN old
    ELSE [old EXCEPT !.listen = IF @ \in Negative THEN @ ELSE mem.nginxPort]

\* The two replaceAllMapped calls: a directive whose number \d+ does not match is
\* left as it is, and an empty file has no directive.
Rewritten(old) ==
    LET port(was, is) == IF was \in Negative THEN was ELSE is
    IN  IF old \in {Empty, Garbled} THEN old
        ELSE [listen |-> port(old.listen, mem.nginxPort),
              fastcgiPass |-> port(old.fastcgiPass, mem.phpPort)]

ConfRead(t) ==
    /\ pc[t] = "confRead"
    /\ buf' = [buf EXCEPT ![t] = Rewritten(conf)]
    /\ Goto(t, "confOpen")
    /\ UNCHANGED <<mem, json, conf, login, form, arg, acked, harm>>

ConfOpen(t) ==
    /\ pc[t] = "confOpen"
    /\ conf' = Empty
    /\ Goto(t, "confWrite")
    /\ UNCHANGED <<mem, json, login, form, arg, buf, acked, harm>>

ConfWrite(t) ==
    /\ pc[t] = "confWrite"
    /\ conf' \in Overlay(conf, buf[t])
    /\ Drop(t)
    /\ Goto(t, "done")
    /\ UNCHANGED <<mem, json, login, form, arg, acked, harm>>

\* Mutant: a file operation that throws is tried again, from the first one.
SaveRetries(t) ==
    /\ CanFail
    /\ pc[t] \in SaveStep \ {"auto"}
    /\ Drop(t)
    /\ Goto(t, "create")
    /\ harm' = "failed"
    /\ UNCHANGED <<mem, json, conf, login, form, arg, acked>>

\* A file operation throws: the catch block logs and saveConfig returns.
SaveFails(t) ==
    /\ CanFail
    /\ pc[t] \in SaveStep \ {"auto"}
    /\ Drop(t)
    /\ Goto(t, "failed")
    /\ harm' = "failed"
    /\ UNCHANGED <<mem, json, conf, login, form, arg, acked>>

Save(t) ==
    \/ AutoStart(t) \/ AutoStartThrows(t)
    \/ Create(t) \/ JsonOpen(t) \/ JsonWrite(t)
    \/ ConfExists(t) \/ ConfRead(t) \/ ConfOpen(t) \/ ConfWrite(t)
    \/ SaveFails(t)

(***************************************************************************)
(* _loadConfig                                                             *)
(***************************************************************************)

\* Mutant: the load saves the defaults over a file that exists.
LoadExistsSaves ==
    /\ pc[Boot] = "exists"
    /\ Goto(Boot, "create")
    /\ arg' = [arg EXCEPT ![Boot] = mem]
    /\ UNCHANGED <<mem, json, conf, login, form, buf, acked, harm>>

\* No file: the config in memory is saved; its autoStart cannot differ.
LoadExists ==
    /\ pc[Boot] = "exists"
    /\ IF json = Absent
       THEN Goto(Boot, "create") /\ arg' = [arg EXCEPT ![Boot] = mem]
       ELSE Goto(Boot, "read") /\ UNCHANGED arg
    /\ UNCHANGED <<mem, json, conf, login, form, buf, acked, harm>>

\* jsonDecode throws on anything but a whole config, and the catch block leaves
\* _config alone.
LoadRead ==
    /\ pc[Boot] = "read"
    /\ mem' = IF json \in AppConfig THEN json ELSE mem
    /\ End(Boot)
    /\ UNCHANGED <<json, conf, login, form, buf, acked, harm>>

LoadFails ==
    /\ CanFail
    /\ pc[Boot] \in {"exists", "read"}
    /\ End(Boot)
    /\ harm' = "failed"
    /\ UNCHANGED <<mem, json, conf, login, form, buf, acked>>

LoadSaved ==
    /\ pc[Boot] \in {"done", "failed"}
    /\ End(Boot)
    /\ UNCHANGED <<mem, json, conf, login, form, buf, acked, harm>>

Load == LoadExists \/ LoadRead \/ LoadFails \/ LoadSaved

(***************************************************************************)
(* Sessions                                                                *)
(***************************************************************************)

Quiet == \A t \in Task : pc[t] = "idle"

\* The application ends and is launched again: memory, page and calls are new.
Relaunch ==
    /\ CanCrash \/ Quiet
    /\ mem' = Default
    /\ form' = FreshForm
    /\ pc' = Launched
    /\ arg' = NoArg
    /\ buf' = NoBuf
    /\ harm' = IF Quiet \/ harm = "failed" THEN harm ELSE "cut"
    /\ UNCHANGED <<json, conf, login, acked>>

Work(t) == Save(t) \/ Answer(t) \/ (t = Boot /\ Load)

Next ==
    \/ Edit
    \/ \E c \in Call : ClickSave(c)
    \/ \E t \in Task : Work(t)
    \/ Relaunch

\* A user who waits for the load of the launch and for nothing else.
LoadedNext ==
    \/ Edit
    \/ \E c \in Call : pc[Boot] = "idle" /\ ClickSave(c)
    \/ \E t \in Task : Work(t)
    \/ Relaunch

\* A user who waits: no click on Save while the load or a save is in flight.
PatientNext ==
    \/ Edit
    \/ \E c \in Call : Quiet /\ ClickSave(c)
    \/ \E t \in Task : Work(t)
    \/ Relaunch

\* Every awaited operation ends: it succeeds or it throws.
Fairness == \A t \in Task : WF_vars(Work(t))

Spec == Init /\ [][Next]_vars /\ Fairness
LoadedSpec == Init /\ [][LoadedNext]_vars /\ Fairness
PatientSpec == Init /\ [][PatientNext]_vars /\ Fairness

(***************************************************************************)
(* Properties                                                              *)
(***************************************************************************)

\* A nginx.conf with the ports of a config, but for the negative ones a save has
\* once written: the patterns of _updateNginxConfig never match those again.
Follows(text, c) ==
    /\ text \in NginxConf
    /\ text.listen \in {c.nginxPort} \cup Negative
    /\ text.fastcgiPass \in {c.phpPort} \cup Negative

ConfFollows(c) == conf = Absent \/ Follows(conf, c)

\* With nothing in flight, the object in memory, config.json, the login entry and
\* the ports of nginx.conf that are not negative are the same settings, over any
\* number of saves and sessions, until a call is cut off or fails.
StoresAgree ==
    Quiet /\ harm = "none" =>
        json = mem /\ ConfFollows(mem) /\ login = mem.autoStart

\* Saving never costs nginx.conf: with nothing in flight it is a whole file.
ConfKept == Quiet => conf \notin {Empty, Garbled}

\* When the page says "Settings Saved & Config Updated" of a save that met no
\* error, config.json holds it, whatever earlier calls that were cut off or failed
\* have left behind; and where there were none of those, nginx.conf has its ports,
\* except where an earlier save left a negative one, which stays for good.  (Of a
\* save that failed the page says the same, and nothing is promised.)
SavedReaches ==
    [][\A c \in Call : Answer(c) /\ pc[c] = "done" =>
          json = arg[c] /\ (harm = "none" => ConfFollows(arg[c]))]_vars

\* A save that met no error and was reported outlives the session: until the
\* next click on Save config.json holds it, whatever ends the application and
\* whenever, and every later session loads it (unless a load fails).
Durable ==
    acked # None =>
        /\ json = acked
        /\ Quiet /\ harm # "failed" => mem = acked

\* Whatever fails, the load of every launch and every save come to an end, unless
\* the application is cut off again and again: no error path leaves a call
\* suspended or goes round in a circle.
CallsEnd ==
    <>[][Quiet \/ ~Relaunch]_vars =>
        \A t \in Task : pc[t] # "idle" ~> pc[t] = "idle"

\* The store the page and its files make up: what the next session would load, and
\* the save in flight.
InFlight == {c \in Call : pc[c] # "idle"}

Store ==
    INSTANCE SettingsStore WITH
        Settings <- AppConfig, Factory <- Default, Nothing <- None,
        stored <- IF json \in AppConfig THEN json ELSE Default,
        saving <- IF InFlight = {} THEN None ELSE arg[CHOOSE c \in InFlight : TRUE],
        promised <- acked

\* The files are one store of settings: each save replaces the stored settings by
\* its own or, if it is cut off or fails, may leave the default; nothing else ever
\* changes them, and what was reported is what is stored.
ImplementsStore == Store!Safety

\* Every save of the store ends, also when the application is cut off for ever.
SavesEnd == Store!Ends

\* A click on Save changes no setting the user has not edited on the page.
UntouchedKept ==
    [][\A c \in Call, f \in ConfigField :
          ClickSave(c) /\ form[f] = Untouched => arg'[c][f] = mem[f]]_vars
=============================================================================
