------------------------ MODULE SettingsStoreProofs ------------------------
(***************************************************************************)
(* What a user who waits can rely on, for every set of ports and calls:    *)
(* the copies of the settings agree, the snackbar is true, and the page    *)
(* with its files is a SettingsStore.                                      *)
(***************************************************************************)
EXTENDS ConfigManagerProofs

(***************************************************************************)
(* The copies agree                                                        *)
(***************************************************************************)

Files(c) == json = c /\ ConfFollows(c)

\* How far each file is, at each await of a save and of a load.
FileProgress(t) ==
    /\ pc[t] # "failed"
    /\ pc[t] = "exists" => mem = Default /\ (json = Absent \/ json \in AppConfig)
    /\ pc[t] = "exists" /\ json = Absent => ConfFollows(Default)
    /\ pc[t] = "exists" /\ json # Absent => ConfFollows(json)
    /\ pc[t] = "read" => json \in AppConfig /\ ConfFollows(json)
    /\ pc[t] = "auto" => Files(mem)
    /\ pc[t] \in {"create", "jsonOpen", "jsonWrite", "confExists", "confRead", "confOpen"} =>
           conf \in NginxConf \cup {Absent}
    /\ pc[t] \in {"jsonOpen", "jsonWrite"} => buf[t] = mem
    /\ pc[t] = "jsonWrite" => json = Empty
    /\ pc[t] \in {"confExists", "confRead", "confOpen", "confWrite", "done"} => json = mem
    /\ pc[t] \in {"confOpen", "confWrite"} => Follows(buf[t], mem)
    /\ pc[t] = "confWrite" => conf = Empty
    /\ pc[t] = "done" => ConfFollows(mem)

FilesInv ==
    harm = "none" => (Quiet => Files(mem)) /\ \A t \in Task : FileProgress(t)

\* The login entry is that of memory, or of the file a load is about to read.
LoginProgress(t) ==
    /\ pc[t] = "exists" /\ json = Absent => login = FALSE
    /\ pc[t] \in {"exists", "read"} /\ json # Absent => login = json.autoStart
    /\ pc[t] \in SaveStep \cup {"done"} => login = mem.autoStart

LoginInv ==
    harm = "none" => (Quiet => login = mem.autoStart) /\ \A t \in Task : LoginProgress(t)

AgreeInv == FilesInv /\ LoginInv

\* Rewriting a whole nginx.conf gives it the ports in memory, where it can.
LEMMA RewrittenFollows ==
    ASSUME NEW old \in NginxConf, mem \in AppConfig
    PROVE  Follows(Rewritten(old), mem)
<1>1. old \notin {Empty, Garbled}
  BY FileAssumption
<1> DEFINE port(was, is) == IF was \in Negative THEN was ELSE is
           new == [listen |-> port(old.listen, mem.nginxPort),
                   fastcgiPass |-> port(old.fastcgiPass, mem.phpPort)]
<1>2. Rewritten(old) = new
  BY <1>1 DEF Rewritten
<1>3. new \in NginxConf
  BY DEF NginxConf, AppConfig
<1> QED
  BY <1>2, <1>3 DEF Follows

\* A nginx.conf that follows a config is a whole one.
LEMMA FollowsWhole ==
    ASSUME NEW c \in AppConfig, ConfFollows(c)
    PROVE  conf \in NginxConf \cup {Absent}
  BY DEF ConfFollows, Follows

\* Clicks that wait keep calls from overlapping.
OneCall == \A s, t \in Task : pc[s] # "idle" /\ pc[t] # "idle" => s = t

\* No step of a patient user, of the files or of a relaunch takes the files apart.
LEMMA FilesStep ==
    ASSUME TypeInv, OneCall, FilesInv, [PatientNext]_vars
    PROVE  FilesInv'
<1> SUFFICES ASSUME harm' = "none"
             PROVE  (Quiet => Files(mem))' /\ \A t \in Task : FileProgress(t)'
  BY DEF FilesInv
<1> USE FileAssumption, CallAssumption, DefaultIsConfig
    DEF FileProgress, TypeInv, TypeOK, Holds, Goto, End, Drop, TaskStep, SaveStep
<1>1. CASE Edit
  BY <1>1 DEF Edit, FilesInv, Quiet, Files, ConfFollows
<1>2. ASSUME NEW c \in Call, Quiet, ClickSave(c)
      PROVE  (Quiet => Files(mem))' /\ \A t \in Task : FileProgress(t)'
  <2>1. harm = "none" /\ Files(mem) /\ mem \in AppConfig
    BY <1>2 DEF ClickSave, FilesInv
  <2>2. conf \in NginxConf \cup {Absent}
    BY <2>1, FollowsWhole DEF Files
  <2> QED
    BY <1>2, <2>1, <2>2, FormIsConfig DEF ClickSave, Quiet, Files, ConfFollows, Task
<1>3. ASSUME NEW t \in Task, Work(t)
      PROVE  (Quiet => Files(mem))' /\ \A s \in Task : FileProgress(s)'
  <2> USE DEF Quiet, FilesInv
  <2>a. \A s \in Task \ {t} : pc[t] # "idle" => pc[s] = "idle"
    BY DEF OneCall
  <2>b. \A c \in Call : pc[Boot] # "idle" => pc[c] = "idle"
    BY DEF OneCall, Task
  <2>1. CASE AutoStart(t)
    <3>1. FileProgress(t) /\ Files(mem) /\ mem \in AppConfig
      BY <2>1 DEF AutoStart
    <3>2. conf \in NginxConf \cup {Absent}
      BY <3>1, FollowsWhole DEF Files
    <3> QED
      BY <2>a, <2>1, <3>2 DEF AutoStart
  <2>2. CASE AutoStartThrows(t) \/ SaveFails(t) \/ LoadFails
    BY <2>2 DEF AutoStartThrows, SaveFails, LoadFails
  <2>3. CASE Create(t)
    BY <2>a, <2>3 DEF Create
  <2>4. CASE JsonOpen(t)
    BY <2>a, <2>4 DEF JsonOpen
  <2>5. CASE JsonWrite(t)
    <3>1. json = Empty /\ buf[t] = mem /\ mem \in AppConfig
      BY <2>5 DEF JsonWrite
    <3>2. json' = mem
      BY <2>5, <3>1 DEF JsonWrite, Overlay
    <3> QED
      BY <2>a, <2>5, <3>2 DEF JsonWrite
  <2>6. CASE ConfExists(t)
    BY <2>a, <2>6 DEF ConfExists, ConfFollows
  <2>7. CASE ConfRead(t)
    <3>1. conf \in NginxConf
      BY <2>7 DEF ConfRead
    <3>2. Follows(Rewritten(conf), mem)
      BY <3>1, RewrittenFollows
    <3>3. Follows(buf[t], mem)'
      BY <2>7, <3>2 DEF ConfRead, Follows
    <3> QED
      BY <2>a, <2>7, <3>3 DEF ConfRead
  <2>8. CASE ConfOpen(t)
    BY <2>a, <2>8 DEF ConfOpen, Follows
  <2>9. CASE ConfWrite(t)
    <3>1. conf = Empty /\ Follows(buf[t], mem) /\ buf[t] # Empty
      BY <2>9 DEF ConfWrite, Follows
    <3>2. conf' = buf[t]
      BY <2>9, <3>1 DEF ConfWrite, Overlay
    <3>3. ConfFollows(mem)'
      BY <2>9, <3>1, <3>2 DEF ConfWrite, ConfFollows, Follows
    <3> QED
      BY <2>a, <2>9, <3>3 DEF ConfWrite
  <2>10. CASE Answer(t)
    BY <2>a, <2>10 DEF Answer, Files, ConfFollows
  <2>11. CASE LoadExists
    <3>1. FileProgress(Boot) /\ pc[Boot] = "exists" /\ harm = "none"
      BY <2>11 DEF LoadExists, Task
    <3>2. CASE json = Absent
      <4>1. mem = Default /\ ConfFollows(Default)
        BY <3>1, <3>2
      <4>2. conf \in NginxConf \cup {Absent}
        BY <4>1, FollowsWhole
      <4>3. /\ pc' = [pc EXCEPT ![Boot] = "create"]
            /\ UNCHANGED <<mem, json, conf, buf>>
        BY <2>11, <3>2 DEF LoadExists
      <4>4. FileProgress(Boot)' /\ ~Quiet'
        BY <4>2, <4>3 DEF Task
      <4>5. ASSUME NEW s \in Task PROVE FileProgress(s)'
        <5>1. CASE s = Boot
          BY <4>4, <5>1
        <5>2. CASE s \in Call
          <6>1. pc'[s] = "idle"
            BY <2>b, <3>1, <4>3, <5>2 DEF Task
          <6> QED
            BY <6>1
        <5> QED
          BY <5>1, <5>2 DEF Task
      <4> QED
        BY <4>4, <4>5
    <3>3. CASE json # Absent
      BY <2>b, <2>11, <3>1, <3>3 DEF LoadExists, ConfFollows, Task
    <3> QED
      BY <3>2, <3>3
  <2>12. CASE LoadRead
    <3>1. json \in AppConfig /\ ConfFollows(json)
      BY <2>12 DEF LoadRead, Task
    <3> QED
      BY <2>b, <2>12, <3>1 DEF LoadRead, Files, ConfFollows, Task
  <2>13. CASE LoadSaved
    BY <2>b, <2>13 DEF LoadSaved, Files, ConfFollows, Task
  <2> QED
    BY <1>3, <2>1, <2>2, <2>3, <2>4, <2>5, <2>6, <2>7, <2>8, <2>9, <2>10, <2>11, <2>12, <2>13
    DEF Work, Save, Load
<1>4. CASE Relaunch
  BY <1>4 DEF Relaunch, Launched, FilesInv, Quiet, Files, ConfFollows, Task
<1>5. CASE UNCHANGED vars
  BY <1>5 DEF vars, FilesInv, Quiet, Files, ConfFollows
<1> QED
  BY <1>1, <1>2, <1>3, <1>4, <1>5 DEF PatientNext

\* The login entry follows memory, and memory the file that is loaded.
LEMMA LoginStep ==
    ASSUME TypeInv, OneCall, FilesInv, LoginInv, [PatientNext]_vars
    PROVE  LoginInv'
<1> SUFFICES ASSUME harm' = "none"
             PROVE  (Quiet => login = mem.autoStart)' /\ \A t \in Task : LoginProgress(t)'
  BY DEF LoginInv
<1> USE FileAssumption, CallAssumption
    DEF LoginProgress, TypeInv, TypeOK, Goto, End, Drop, TaskStep, SaveStep
<1>1. CASE Edit
  BY <1>1 DEF Edit, LoginInv, Quiet
<1>2. ASSUME NEW c \in Call, Quiet, ClickSave(c)
      PROVE  (Quiet => login = mem.autoStart)' /\ \A t \in Task : LoginProgress(t)'
  BY <1>2 DEF ClickSave, LoginInv, Quiet, Task
<1>3. ASSUME NEW t \in Task, Work(t)
      PROVE  (Quiet => login = mem.autoStart)' /\ \A s \in Task : LoginProgress(s)'
  <2> USE DEF Quiet, LoginInv
  <2>a. \A s \in Task \ {t} : pc[t] # "idle" => pc[s] = "idle"
    BY DEF OneCall
  <2>b. \A c \in Call : pc[Boot] # "idle" => pc[c] = "idle"
    BY DEF OneCall, Task
  <2>1. CASE AutoStart(t) \/ Create(t) \/ JsonOpen(t) \/ JsonWrite(t)
    BY <2>a, <2>1 DEF AutoStart, Create, JsonOpen, JsonWrite
  <2>2. CASE AutoStartThrows(t) \/ SaveFails(t) \/ LoadFails
    BY <2>2 DEF AutoStartThrows, SaveFails, LoadFails
  <2>3. CASE ConfExists(t) \/ ConfRead(t) \/ ConfOpen(t) \/ ConfWrite(t)
    BY <2>a, <2>3 DEF ConfExists, ConfRead, ConfOpen, ConfWrite
  <2>4. CASE Answer(t)
    <3>1. pc[t] = "done"
      BY <2>4 DEF Answer, FilesInv, FileProgress
    <3> QED
      BY <2>a, <2>4, <3>1 DEF Answer
  <2>5. CASE LoadExists
    <3>1. LoginProgress(Boot) /\ pc[Boot] = "exists" /\ harm = "none" /\ mem = Default
      BY <2>5 DEF LoadExists, FilesInv, FileProgress, Task
    <3>2. Default.autoStart = FALSE
      BY DEF Default
    <3> QED
      BY <2>b, <2>5, <3>1, <3>2 DEF LoadExists, Task
  <2>6. CASE LoadRead
    <3>1. json \in AppConfig /\ login = json.autoStart
      BY <2>6 DEF LoadRead, FilesInv, FileProgress, Task
    <3> QED
      BY <2>b, <2>6, <3>1 DEF LoadRead, Task
  <2>7. CASE LoadSaved
    <3>1. pc[Boot] = "done"
      BY <2>7 DEF LoadSaved, FilesInv, FileProgress, Task
    <3> QED
      BY <2>b, <2>7, <3>1 DEF LoadSaved, Task
  <2> QED
    BY <1>3, <2>1, <2>2, <2>3, <2>4, <2>5, <2>6, <2>7 DEF Work, Save, Load
<1>4. CASE Relaunch
  <2>1. Quiet /\ harm = "none" /\ json = mem /\ login = mem.autoStart
    BY <1>4 DEF Relaunch, FilesInv, LoginInv, Files
  <2> QED
    BY <1>4, <2>1 DEF Relaunch, Launched, Quiet, Task
<1>5. CASE UNCHANGED vars
  BY <1>5 DEF vars, LoginInv, Quiet
<1> QED
  BY <1>1, <1>2, <1>3, <1>4, <1>5 DEF PatientNext

\* A first launch starts in agreement.
LEMMA AgreeInit == Init => AgreeInv
<1> SUFFICES ASSUME Init PROVE AgreeInv
  OBVIOUS
<1>1. ~Quiet
  BY DEF Init, Launched, Quiet, Task
<1>2. ASSUME NEW t \in Task PROVE FileProgress(t) /\ LoginProgress(t)
  <2>1. pc[t] \in {"exists", "idle"}
    BY DEF Init, Launched
  <2>2. Default \in AppConfig /\ Default.autoStart = FALSE
    BY DefaultIsConfig DEF Default
  <2>3. ConfFollows(Default)
    BY PortAssumption DEF Init, ConfFollows, Follows, Default, Shipped, NginxConf
  <2>4. mem = Default /\ login = FALSE /\ json \in {Absent, Default}
    BY DEF Init
  <2> QED
    BY <2>1, <2>2, <2>3, <2>4 DEF FileProgress, LoginProgress, SaveStep
<1> QED
  BY <1>1, <1>2 DEF AgreeInv, FilesInv, LoginInv

\* Together.
LEMMA AgreeStep ==
    ASSUME TypeInv, DurableInv, AgreeInv, [PatientNext]_vars
    PROVE  AgreeInv'
<1>1. OneCall
  BY DEF DurableInv, OneCall
<1> QED
  BY <1>1, FilesStep, LoginStep DEF AgreeInv

\* The three invariants together, and every step under them.
LEMMA PatientInv == PatientSpec => [](TypeInv /\ DurableInv /\ AgreeInv)
<1>1. Init => TypeInv /\ DurableInv /\ AgreeInv
  BY TypeInit, DurableInit, AgreeInit
<1>2. [PatientNext]_vars => [Next]_vars
  BY DEF PatientNext, Next
<1>3. TypeInv /\ DurableInv /\ AgreeInv /\ [PatientNext]_vars
          => (TypeInv /\ DurableInv /\ AgreeInv)'
  BY <1>2, TypeStep, DurableStep, AgreeStep
<1> QED
  BY <1>1, <1>3, PTL DEF PatientSpec

\* With one click on Save at a time, memory, config.json, the login entry and the
\* ports of nginx.conf that are not negative are the same settings whenever nothing
\* is in flight, over any number of sessions, until a call is cut off or fails.
THEOREM StoresAlwaysAgree == PatientSpec => []StoresAgree
<1>1. AgreeInv => StoresAgree
  BY DEF AgreeInv, FilesInv, LoginInv, StoresAgree, Files
<1> QED
  BY <1>1, PatientInv, PTL

\* A save that met no error is in config.json when the page reports it, and, if
\* nothing was ever damaged, in every port of nginx.conf that is not negative.
THEOREM SavedAlwaysReaches == PatientSpec => SavedReaches
<1>1. ASSUME TypeInv, DurableInv, AgreeInv, NEW c \in Call, Answer(c), pc[c] = "done"
      PROVE  json = arg[c] /\ (harm = "none" => ConfFollows(arg[c]))
  <2>1. mem = arg[c] /\ json = arg[c]
    BY <1>1 DEF DurableInv, TaskStep, SaveStep
  <2>2. harm = "none" => ConfFollows(mem)
    BY <1>1 DEF AgreeInv, FilesInv, FileProgress, Task
  <2> QED
    BY <2>1, <2>2
<1>2. TypeInv /\ DurableInv /\ AgreeInv /\ [PatientNext]_vars =>
          [\A c \in Call : Answer(c) /\ pc[c] = "done" =>
              json = arg[c] /\ (harm = "none" => ConfFollows(arg[c]))]_vars
  BY <1>1
<1> QED
  BY <1>2, PatientInv, PTL DEF PatientSpec, SavedReaches

(***************************************************************************)
(* The page is a SettingsStore                                             *)
(***************************************************************************)

\* A load that saves does so over no settings at all, and saves the default.
BootInv ==
    /\ pc[Boot] # "auto"
    /\ pc[Boot] \in {"exists", "create", "jsonOpen", "jsonWrite"} => mem = Default
    /\ pc[Boot] \in {"create", "jsonOpen", "jsonWrite"} => json \notin AppConfig \ {Default}
    /\ pc[Boot] \in {"jsonOpen", "jsonWrite"} => buf[Boot] = Default

\* No step makes the load of a launch save anything but the default.
LEMMA BootStep ==
    ASSUME TypeInv, DurableInv, BootInv, [PatientNext]_vars
    PROVE  BootInv'
<1> USE FileAssumption, CallAssumption, DefaultIsConfig
    DEF BootInv, TypeInv, TypeOK, Goto, End, Drop, TaskStep, SaveStep, Task
<1>1. CASE Edit
  BY <1>1 DEF Edit
<1>2. ASSUME NEW c \in Call, Quiet, ClickSave(c) PROVE BootInv'
  BY <1>2 DEF ClickSave, Quiet
<1>3. ASSUME NEW c \in Call, Work(c) PROVE BootInv'
  <2>1. pc[Boot] = "idle" \/ pc[c] = "idle"
    BY DEF DurableInv
  <2>2. pc[c] # "idle" /\ pc'[Boot] = pc[Boot]
    BY <1>3 DEF Work, Save, Load, AutoStart, AutoStartThrows, Create, JsonOpen, JsonWrite,
        ConfExists, ConfRead, ConfOpen, ConfWrite, SaveFails, Answer
  <2> QED
    BY <2>1, <2>2
<1>4. CASE Work(Boot)
  <2>1. CASE Create(Boot) \/ JsonOpen(Boot)
    BY <2>1 DEF Create, JsonOpen
  <2>2. CASE AutoStart(Boot) \/ AutoStartThrows(Boot) \/ JsonWrite(Boot) \/ ConfExists(Boot)
             \/ ConfRead(Boot) \/ ConfOpen(Boot) \/ ConfWrite(Boot) \/ SaveFails(Boot)
    BY <2>2 DEF AutoStart, AutoStartThrows, JsonWrite, ConfExists, ConfRead, ConfOpen,
        ConfWrite, SaveFails
  <2>3. CASE Answer(Boot)
    BY <2>3 DEF Answer
  <2>4. CASE Load
    BY <2>4 DEF Load, LoadExists, LoadRead, LoadFails, LoadSaved
  <2> QED
    BY <1>4, <2>1, <2>2, <2>3, <2>4 DEF Work, Save
<1>5. CASE Relaunch
  BY <1>5 DEF Relaunch, Launched
<1>6. CASE UNCHANGED vars
  BY <1>6 DEF vars
<1> QED
  BY <1>1, <1>2, <1>3, <1>4, <1>5, <1>6 DEF PatientNext

Stored == IF json \in AppConfig THEN json ELSE Default
Saving == IF InFlight = {} THEN None ELSE arg[CHOOSE c \in InFlight : TRUE]

LEMMA ChooseOnly == ASSUME NEW c PROVE (CHOOSE d \in {c} : TRUE) = c
  OBVIOUS

\* With one call at a time, the settings being saved are those of any call in
\* flight.
LEMMA SavingIs ==
    ASSUME DurableInv, NEW c \in Call, pc[c] # "idle"
    PROVE  Saving = arg[c]
<1>1. InFlight = {c}
  BY DEF InFlight, DurableInv, Task
<1> QED
  BY <1>1, ChooseOnly DEF Saving

LEMMA SavingIsAfter ==
    ASSUME DurableInv', NEW c \in Call, pc'[c] # "idle"
    PROVE  Saving' = arg'[c]
<1>1. InFlight' = {c}
  BY DEF InFlight, DurableInv, Task
<1>2. (CHOOSE d \in InFlight' : TRUE) = c
  BY <1>1, ChooseOnly
<1> QED
  BY <1>1, <1>2 DEF Saving

\* The steps of the abstract store, of the stored and the saved settings.
Stutter == UNCHANGED <<Stored, Saving, acked>>
Replace(settings) == Saving # None /\ Stored' = settings /\ UNCHANGED <<Saving, acked>>
Finish == Saving # None /\ Saving' = None /\ Stored' = Stored
Abstract ==
    \/ Stutter
    \/ Saving = None /\ Saving' \in AppConfig /\ acked' = None /\ Stored' = Stored
    \/ Replace(Default) \/ Replace(Saving)
    \/ Finish /\ (acked' = acked \/ (Stored = Saving /\ acked' = Saving))

LEMMA AbstractIsStore == Abstract => [Store!Next]_(Store!vars)
  BY DEF Abstract, Stutter, Replace, Finish, Stored, Saving, Store!Next, Store!vars,
      Store!Begin, Store!Discard, Store!Store, Store!Report, Store!Abandon

\* A step of a save is a step of the store: a stutter, or the loss or the arrival
\* of its settings.
LEMMA SaveIsAbstract ==
    ASSUME TypeInv, DurableInv, BootInv, TypeInv', DurableInv',
           NEW t \in Task, pc[t] # "idle", pc'[t] # "idle",
           \A s \in Task \ {t} : pc'[s] = pc[s],
           arg' = arg, acked' = acked,
           json' = json \/ (json' \notin AppConfig /\ json \notin AppConfig)
               \/ (pc[t] = "jsonOpen" /\ json' = Empty)
               \/ (pc[t] = "jsonWrite" /\ json' = buf[t])
    PROVE  Abstract
<1> USE FileAssumption, CallAssumption
<1>1. CASE t = Boot
  <2>1. InFlight = {} /\ InFlight' = {}
    BY <1>1 DEF InFlight, DurableInv, Task
  <2>2. Stored' = Stored
    BY <1>1 DEF Stored, BootInv, TypeInv, TypeOK
  <2> QED
    BY <2>1, <2>2 DEF Abstract, Stutter, Saving
<1>2. CASE t \in Call
  <2>1. Saving = arg[t] /\ Saving' = arg[t]
    BY <1>2, SavingIs, SavingIsAfter
  <2>2. arg[t] \in AppConfig /\ arg[t] # None
    BY DEF TypeInv, TypeOK
  <2>3. CASE json' = json \/ (json' \notin AppConfig /\ json \notin AppConfig)
    BY <2>1, <2>3 DEF Abstract, Stutter, Stored
  <2>4. CASE pc[t] = "jsonOpen" /\ json' = Empty
    <3>1. Stored' = Default
      BY <2>4 DEF Stored
    <3> QED
      BY <2>1, <2>2, <3>1 DEF Abstract, Replace
  <2>5. CASE pc[t] = "jsonWrite" /\ json' = buf[t]
    <3>1. buf[t] = arg[t]
      BY <1>2, <2>5 DEF DurableInv
    <3>2. Stored' = Saving
      BY <2>1, <2>2, <2>5, <3>1 DEF Stored
    <3> QED
      BY <2>1, <2>2, <3>2 DEF Abstract, Replace
  <2> QED
    BY <2>3, <2>4, <2>5
<1> QED
  BY <1>1, <1>2 DEF Task

\* A call that ends, or is cut off, abandons its save; a load had none.
LEMMA EndIsAbstract ==
    ASSUME TypeInv, DurableInv, InFlight' = {}, json' = json, acked' = acked
    PROVE  Abstract
<1>1. Saving' = None /\ Stored' = Stored
  BY DEF Saving, Stored
<1> QED
  BY <1>1 DEF Abstract, Stutter, Finish

\* Every step of a patient user, of the files and of a relaunch is a step of the
\* store.
LEMMA StoreStep ==
    ASSUME TypeInv, DurableInv, BootInv, TypeInv', DurableInv', [PatientNext]_vars
    PROVE  Abstract
<1> USE FileAssumption, CallAssumption
<1>1. CASE Edit \/ UNCHANGED vars
  <2>1. UNCHANGED <<json, pc, arg, acked>>
    BY <1>1 DEF Edit, vars
  <2>2. InFlight' = InFlight
    BY <2>1 DEF InFlight
  <2>3. UNCHANGED <<Stored, Saving>>
    BY <2>1, <2>2 DEF Stored, Saving
  <2> QED
    BY <2>1, <2>3 DEF Abstract, Stutter
<1>2. ASSUME NEW c \in Call, Quiet, ClickSave(c) PROVE Abstract
  <2>1. InFlight = {} /\ pc'[c] # "idle" /\ arg'[c] = FormConfig
    BY <1>2 DEF ClickSave, Quiet, InFlight, Task, Goto, TypeInv, TypeOK
  <2>2. Saving = None /\ Saving' \in AppConfig
    BY <2>1, SavingIsAfter, FormIsConfig DEF Saving
  <2> QED
    BY <1>2, <2>2 DEF ClickSave, Abstract, Stored
<1>3. ASSUME NEW t \in Task, Work(t) PROVE Abstract
  <2> USE DEF TypeInv, TypeOK, Goto, Drop, TaskStep, SaveStep
  <2>1. CASE AutoStart(t)
    BY <2>1, SaveIsAbstract DEF AutoStart
  <2>2. CASE Create(t)
    BY <2>2, SaveIsAbstract DEF Create
  <2>3. CASE JsonOpen(t)
    BY <2>3, SaveIsAbstract DEF JsonOpen
  <2>4. CASE JsonWrite(t)
    <3>1. buf[t] \in AppConfig /\ json = Empty
      BY <2>4 DEF JsonWrite, DurableInv, Holds
    <3>2. json' = buf[t]
      BY <2>4, <3>1 DEF JsonWrite, Overlay
    <3> QED
      BY <2>4, <3>2, SaveIsAbstract DEF JsonWrite
  <2>5. CASE ConfExists(t) \/ ConfRead(t) \/ ConfOpen(t) \/ ConfWrite(t) \/ SaveFails(t)
    BY <2>5, SaveIsAbstract DEF ConfExists, ConfRead, ConfOpen, ConfWrite, SaveFails
  <2>6. CASE AutoStartThrows(t)
    <3>1. InFlight' = {} /\ json' = json /\ acked' = acked
      BY <2>6 DEF AutoStartThrows, End, InFlight, DurableInv, Task
    <3> QED
      BY <3>1, EndIsAbstract
  <2>7. CASE Answer(t)
    <3>1. t \in Call /\ pc[t] \in {"done", "failed"} /\ InFlight' = {} /\ json' = json
      BY <2>7 DEF Answer, End, InFlight, DurableInv, Task
    <3>2. Saving = arg[t] /\ arg[t] \in AppConfig /\ Saving' = None /\ Stored' = Stored
      BY <3>1, SavingIs DEF Saving, Stored
    <3>3. CASE pc[t] = "done"
      <4>1. json = arg[t] /\ acked' = arg[t]
        BY <2>7, <3>1, <3>3 DEF Answer, DurableInv
      <4> QED
        BY <3>2, <4>1 DEF Abstract, Finish, Stored
    <3>4. CASE pc[t] = "failed"
      BY <2>7, <3>1, <3>4, EndIsAbstract DEF Answer
    <3> QED
      BY <3>1, <3>3, <3>4
  <2>8. CASE Load
    <3>1. pc[Boot] # "idle" /\ json' = json /\ acked' = acked
      BY <2>8 DEF Load, LoadExists, LoadRead, LoadFails, LoadSaved
    <3>2. \A c \in Call : pc'[c] = pc[c]
      BY <2>8 DEF Load, LoadExists, LoadRead, LoadFails, LoadSaved, End, Task
    <3>3. InFlight' = {}
      BY <3>1, <3>2 DEF InFlight, DurableInv, Task
    <3> QED
      BY <3>1, <3>3, EndIsAbstract
  <2> QED
    BY <1>3, <2>1, <2>2, <2>3, <2>4, <2>5, <2>6, <2>7, <2>8 DEF Work, Save
<1>4. CASE Relaunch
  <2>1. InFlight' = {} /\ json' = json /\ acked' = acked
    BY <1>4 DEF Relaunch, InFlight, Launched, Task
  <2> QED
    BY <2>1, EndIsAbstract
<1> QED
  BY <1>1, <1>2, <1>3, <1>4 DEF PatientNext

\* A first launch maps to an initial store.
LEMMA StoreInit == Init => Store!Init /\ BootInv
<1> SUFFICES ASSUME Init PROVE Store!Init /\ BootInv
  OBVIOUS
<1>1. InFlight = {}
  BY CallAssumption DEF Init, Launched, InFlight, Task
<1>2. pc[Boot] = "exists" /\ mem = Default /\ json \in {Absent, Default} /\ acked = None
  BY DEF Init, Launched, Task
<1> QED
  BY <1>1, <1>2, FileAssumption DEF Store!Init, BootInv

\* For one click on Save at a time the page,
\* the object in memory and config.json are a SettingsStore, through failures,
\* crashes and relaunches at any moment.
THEOREM PageIsStore == PatientSpec => ImplementsStore
<1> DEFINE Inv == TypeInv /\ DurableInv /\ BootInv
<1>1. Init => Inv /\ Store!Init
  BY TypeInit, DurableInit, StoreInit
<1>2. [PatientNext]_vars => [Next]_vars
  BY DEF PatientNext, Next
<1>3. Inv /\ [PatientNext]_vars => Inv'
  BY <1>2, TypeStep, DurableStep, BootStep
<1>4. Inv /\ Inv' /\ [PatientNext]_vars => [Store!Next]_(Store!vars)
  BY StoreStep, AbstractIsStore
<1> QED
  <2> HIDE DEF Inv
  <2> QED
    BY <1>1, <1>3, <1>4, PTL DEF PatientSpec, ImplementsStore, Store!Safety
=============================================================================
