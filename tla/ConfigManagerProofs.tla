------------------------ MODULE ConfigManagerProofs ------------------------
(***************************************************************************)
(* What holds of ConfigManager for every set of ports and calls, whichever *)
(* fields the user edits.                                                  *)
(***************************************************************************)
EXTENDS ConfigManager, TLAPS

(***************************************************************************)
(* Types                                                                   *)
(***************************************************************************)

\* Whatever is typed into the port fields, the page hands saveConfig ports.
LEMMA FormIsConfig == FormConfig \in AppConfig
  BY PortAssumption DEF FormConfig, AppConfig

\* The default settings are settings.
LEMMA DefaultIsConfig == Default \in AppConfig
  BY PortAssumption DEF Default, AppConfig

\* Rewriting the ports of nginx.conf gives a nginx.conf again, or leaves a
\* damaged one as damaged as it was.
LEMMA RewrittenType ==
    ASSUME NEW old \in NginxConf \cup {Empty, Garbled}, mem \in AppConfig
    PROVE  Rewritten(old) \in NginxConf \cup {Empty, Garbled}
  BY DEF Rewritten, NginxConf, AppConfig

\* What a write leaves is the new content, the old one, or the two mixed.
LEMMA OverlayType ==
    ASSUME NEW old, NEW new, NEW result \in Overlay(old, new)
    PROVE  result \in {old, new, Garbled}
  BY DEF Overlay

\* TypeOK is not inductive: a call writes what it holds, so the files keep their
\* types only because a call holds a config when it is about to write
\* config.json, and a nginx.conf when it is about to write that.
Holds(t) ==
    /\ pc[t] \in {"jsonOpen", "jsonWrite"} => buf[t] \in AppConfig
    /\ pc[t] \in {"confRead", "confOpen", "confWrite"} => conf # Absent
    /\ pc[t] \in {"confOpen", "confWrite"} => buf[t] \in NginxConf \cup {Empty, Garbled}

TypeInv == TypeOK /\ \A t \in Task : Holds(t)

\* No await of a save or a load, no failure and no relaunch leaves the types.
LEMMA TypeStep == TypeInv /\ [Next]_vars => TypeInv'
<1> SUFFICES ASSUME TypeInv, [Next]_vars PROVE TypeInv'
  OBVIOUS
<1> USE FileAssumption DEF TypeInv, Holds, TypeOK, Goto, End, Drop, TaskStep, SaveStep
<1>1. CASE Edit
  BY <1>1, EditableAssumption DEF Edit
<1>2. ASSUME NEW c \in Call, ClickSave(c) PROVE TypeInv'
  BY <1>2, FormIsConfig DEF ClickSave, Task
<1>3. ASSUME NEW t \in Task, Work(t) PROVE TypeInv'
  <2> USE DefaultIsConfig
  <2>1. CASE AutoStart(t)
    <3>1. arg[t] \in AppConfig
      OBVIOUS
    <3>2. arg[t].autoStart \in BOOLEAN
      BY <3>1 DEF AppConfig
    <3> QED
      BY <2>1, <3>1, <3>2 DEF AutoStart
  <2>2. CASE AutoStartThrows(t)
    BY <2>2 DEF AutoStartThrows
  <2>3. CASE Create(t)
    BY <2>3 DEF Create
  <2>4. CASE JsonOpen(t)
    BY <2>4 DEF JsonOpen
  <2>5. CASE JsonWrite(t)
    BY <2>5, OverlayType DEF JsonWrite
  <2>6. CASE ConfExists(t)
    BY <2>6 DEF ConfExists
  <2>7. CASE ConfRead(t)
    BY <2>7, RewrittenType DEF ConfRead
  <2>8. CASE ConfOpen(t)
    BY <2>8 DEF ConfOpen
  <2>9. CASE ConfWrite(t)
    BY <2>9, OverlayType DEF ConfWrite
  <2>10. CASE SaveFails(t)
    BY <2>10 DEF SaveFails
  <2>11. CASE Answer(t)
    BY <2>11 DEF Answer
  <2>12. CASE LoadExists
    BY <2>12 DEF LoadExists, Task
  <2>13. CASE LoadRead \/ LoadFails \/ LoadSaved
    BY <2>13 DEF LoadRead, LoadFails, LoadSaved, Task
  <2> QED
    BY <1>3, <2>1, <2>2, <2>3, <2>4, <2>5, <2>6, <2>7, <2>8, <2>9, <2>10, <2>11, <2>12, <2>13
    DEF Work, Save, Load
<1>4. CASE Relaunch
  BY <1>4, DefaultIsConfig DEF Relaunch, FreshForm, Launched, NoArg, NoBuf
<1>5. CASE UNCHANGED vars
  BY <1>5 DEF vars
<1> QED
  BY <1>1, <1>2, <1>3, <1>4, <1>5 DEF Next

\* A first launch starts within the types.
LEMMA TypeInit == Init => TypeInv
<1> SUFFICES ASSUME Init PROVE TypeInv
  OBVIOUS
<1> USE DEF Init
<1>1. Default \in AppConfig /\ Shipped \in NginxConf
  BY DefaultIsConfig, PortAssumption DEF Shipped, NginxConf
<1>2. form \in [ConfigField -> Text \cup BOOLEAN \cup {Untouched}]
  BY DEF FreshForm
<1>3. pc \in [Task -> {"exists", "idle"}]
  BY DEF Launched
<1>4. /\ arg \in [Task -> AppConfig]
      /\ buf \in [Task -> AppConfig \cup NginxConf \cup {Empty, Garbled}]
  BY <1>1 DEF NoArg, NoBuf
<1>5. TypeOK
  BY <1>1, <1>2, <1>3, <1>4 DEF TypeOK, TaskStep, SaveStep
<1> QED
  BY <1>3, <1>5 DEF TypeInv, Holds

\* The settings and their copies keep their types, however calls overlap.
THEOREM ConfigTypeCorrect == Spec => []TypeOK
<1>1. TypeInv => TypeOK
  BY DEF TypeInv
<1> QED
  BY <1>1, TypeInit, TypeStep, PTL DEF Spec

(***************************************************************************)
(* A reported save is durable                                              *)
(***************************************************************************)

\* One call at a time; a save of the page that meets no error carries its config
\* from memory to config.json, and while a report stands no save runs and a load
\* only reads.
DurableInv ==
    /\ \A s, t \in Task : pc[s] # "idle" /\ pc[t] # "idle" => s = t
    /\ \A c \in Call :
        /\ pc[c] \in TaskStep \ {"idle", "auto"} => mem = arg[c]
        /\ pc[c] \in {"jsonOpen", "jsonWrite"} => buf[c] = arg[c]
        /\ pc[c] \in {"confExists", "confRead", "confOpen", "confWrite", "done"} =>
               json = arg[c]
        /\ pc[c] \notin {"exists", "read"}
    /\ \A t \in Task : pc[t] = "jsonWrite" => json = Empty
    /\ acked # None =>
        /\ json = acked
        /\ \A c \in Call : pc[c] = "idle"
        /\ pc[Boot] \in {"exists", "read", "idle"}
        /\ pc[Boot] = "idle" /\ harm # "failed" => mem = acked

LEMMA DurableStep ==
    ASSUME TypeInv, DurableInv, [PatientNext]_vars
    PROVE  DurableInv'
<1> USE FileAssumption, CallAssumption
    DEF DurableInv, TypeInv, TypeOK, Holds, Goto, End, Drop, TaskStep, SaveStep, Task
<1>1. CASE Edit
  BY <1>1 DEF Edit
<1>2. ASSUME NEW c \in Call, Quiet, ClickSave(c) PROVE DurableInv'
  BY <1>2 DEF ClickSave, Quiet
<1>3. ASSUME NEW t \in Task, Work(t) PROVE DurableInv'
  <2>1. CASE AutoStart(t)
    BY <2>1 DEF AutoStart
  <2>2. CASE AutoStartThrows(t) \/ SaveFails(t) \/ LoadFails
    BY <2>2 DEF AutoStartThrows, SaveFails, LoadFails
  <2>3. CASE Create(t)
    BY <2>3 DEF Create
  <2>4. CASE JsonOpen(t)
    BY <2>4 DEF JsonOpen
  <2>5. CASE JsonWrite(t)
    <3>1. buf[t] \in AppConfig /\ json = Empty
      BY <2>5 DEF JsonWrite
    <3>2. json' = buf[t]
      BY <2>5, <3>1 DEF JsonWrite, Overlay
    <3> QED
      BY <2>5, <3>2 DEF JsonWrite
  <2>6. CASE ConfExists(t)
    BY <2>6 DEF ConfExists
  <2>7. CASE ConfRead(t)
    BY <2>7 DEF ConfRead
  <2>8. CASE ConfOpen(t)
    BY <2>8 DEF ConfOpen
  <2>9. CASE ConfWrite(t)
    BY <2>9 DEF ConfWrite
  <2>10. CASE Answer(t)
    BY <2>10 DEF Answer
  <2>11. CASE LoadExists
    BY <2>11 DEF LoadExists
  <2>12. CASE LoadRead
    BY <2>12 DEF LoadRead
  <2>13. CASE LoadSaved
    BY <2>13 DEF LoadSaved
  <2> QED
    BY <1>3, <2>1, <2>2, <2>3, <2>4, <2>5, <2>6, <2>7, <2>8, <2>9, <2>10, <2>11, <2>12, <2>13
    DEF Work, Save, Load
<1>4. CASE Relaunch
  BY <1>4 DEF Relaunch, Launched
<1>5. CASE UNCHANGED vars
  BY <1>5 DEF vars
<1> QED
  BY <1>1, <1>2, <1>3, <1>4, <1>5 DEF PatientNext

LEMMA DurableInit == Init => DurableInv
  BY CallAssumption DEF Init, DurableInv, Launched, Task

\* If the user clicks Save once at a time, a save that met no error and was
\* reported is in config.json until the next click, through failures, crashes and
\* relaunches at any moment, and every later session loads it.
THEOREM SavesAreDurable == PatientSpec => []Durable
<1>1. Init => TypeInv /\ DurableInv
  BY DurableInit, TypeInit
<1>2. [PatientNext]_vars => [Next]_vars
  BY DEF PatientNext, Next
<1>3. TypeInv /\ DurableInv /\ [PatientNext]_vars => TypeInv' /\ DurableInv'
  BY <1>2, TypeStep, DurableStep
<1>4. DurableInv => Durable
  BY DEF DurableInv, Durable, Quiet, Task
<1> QED
  BY <1>1, <1>3, <1>4, PTL DEF PatientSpec

(***************************************************************************)
(* What becomes of nginx.conf                                              *)
(***************************************************************************)

\* Until a call is cut off or fails, nginx.conf is whole except between the two
\* operations of the one write in flight, which holds a whole file.
WholeInv ==
    harm = "none" =>
        /\ conf \in NginxConf \cup {Absent} \/ \E t \in Task : pc[t] = "confWrite"
        /\ \A t \in Task :
            /\ pc[t] \in {"confOpen", "confWrite"} => buf[t] \in NginxConf
            /\ pc[t] = "confWrite" => conf = Empty

\* With one call at a time nobody reads the file between truncation and write.
LEMMA WholeStep ==
    ASSUME TypeInv, DurableInv, WholeInv, [PatientNext]_vars
    PROVE  WholeInv'
<1> SUFFICES ASSUME harm' = "none" PROVE WholeInv'
  BY DEF WholeInv
<1>0. harm = "none"
  BY DEF PatientNext, Edit, ClickSave, Work, Save, Load, AutoStart, AutoStartThrows, Create,
      JsonOpen, JsonWrite, ConfExists, ConfRead, ConfOpen, ConfWrite, SaveFails, Answer,
      LoadExists, LoadRead, LoadFails, LoadSaved, Relaunch, vars
<1> USE <1>0, FileAssumption, CallAssumption
    DEF WholeInv, TypeInv, TypeOK, Holds, Goto, End, Drop, TaskStep, SaveStep
<1>1. CASE Edit
  BY <1>1 DEF Edit
<1>2. ASSUME NEW c \in Call, Quiet, ClickSave(c) PROVE WholeInv'
  BY <1>2 DEF ClickSave, Quiet, Task
<1>3. ASSUME NEW t \in Task, Work(t) PROVE WholeInv'
  <2>a. pc[t] # "idle" => \A s \in Task \ {t} : pc[s] = "idle"
    BY DEF DurableInv
  <2>b. pc[Boot] # "idle" => \A s \in Task \ {Boot} : pc[s] = "idle"
    BY DEF DurableInv, Task
  <2>1. CASE AutoStart(t) \/ Create(t) \/ JsonOpen(t) \/ JsonWrite(t) \/ ConfExists(t)
    BY <2>a, <2>1 DEF AutoStart, Create, JsonOpen, JsonWrite, ConfExists
  <2>2. CASE AutoStartThrows(t) \/ SaveFails(t) \/ LoadFails
    BY <2>2 DEF AutoStartThrows, SaveFails, LoadFails
  <2>3. CASE ConfRead(t)
    <3>1. conf \in NginxConf
      BY <2>a, <2>3 DEF ConfRead
    <3>2. mem \in AppConfig /\ conf \notin {Empty, Garbled}
      BY <3>1
    <3>3. Rewritten(conf) \in NginxConf
      BY <3>1, <3>2 DEF Rewritten, NginxConf, AppConfig
    <3> QED
      BY <2>a, <2>3, <3>1, <3>3 DEF ConfRead
  <2>4. CASE ConfOpen(t)
    BY <2>a, <2>4 DEF ConfOpen
  <2>5. CASE ConfWrite(t)
    <3>1. conf = Empty /\ buf[t] \in NginxConf /\ buf[t] # Empty
      BY <2>5 DEF ConfWrite
    <3>2. conf' = buf[t]
      BY <2>5, <3>1 DEF ConfWrite, Overlay
    <3> QED
      BY <2>a, <2>5, <3>1, <3>2 DEF ConfWrite
  <2>6. CASE Answer(t)
    BY <2>a, <2>6 DEF Answer
  <2>7. CASE LoadExists \/ LoadRead \/ LoadSaved
    BY <2>b, <2>7 DEF LoadExists, LoadRead, LoadSaved, Task
  <2> QED
    BY <1>3, <2>1, <2>2, <2>3, <2>4, <2>5, <2>6, <2>7 DEF Work, Save, Load
<1>4. CASE Relaunch
  BY <1>4 DEF Relaunch, Launched, Quiet, Task
<1>5. CASE UNCHANGED vars
  BY <1>5 DEF vars
<1> QED
  BY <1>1, <1>2, <1>3, <1>4, <1>5 DEF PatientNext

\* With one click on Save at a time nginx.conf stays whole, whatever ports are
\* saved, until a call is cut off or fails: only calls that overlap can cost the
\* file without an error.
THEOREM ConfKeptByPatience == PatientSpec => [](harm = "none" => ConfKept)
<1>1. Init => TypeInv /\ DurableInv /\ WholeInv
  <2>1. Init => WholeInv
    BY PortAssumption DEF Init, WholeInv, Shipped, NginxConf, Launched
  <2> QED
    BY <2>1, DurableInit, TypeInit
<1>2. [PatientNext]_vars => [Next]_vars
  BY DEF PatientNext, Next
<1>3. TypeInv /\ DurableInv /\ WholeInv /\ [PatientNext]_vars
          => TypeInv' /\ DurableInv' /\ WholeInv'
  BY <1>2, TypeStep, DurableStep, WholeStep
<1>4. WholeInv => (harm = "none" => ConfKept)
  BY FileAssumption DEF WholeInv, ConfKept, Quiet
<1> QED
  BY <1>1, <1>3, <1>4, PTL DEF PatientSpec

\* nginx.conf is empty, and no call in flight still holds anything else for it.
Wiped ==
    /\ conf = Empty
    /\ \A t \in Task : pc[t] \in {"confOpen", "confWrite"} => buf[t] = Empty

\* A save reads an empty file, finds no directive in it and writes it back.
LEMMA WipedStep == TypeInv /\ Wiped /\ [Next]_vars => Wiped'
<1> SUFFICES ASSUME TypeInv, Wiped, [Next]_vars PROVE Wiped'
  OBVIOUS
<1> USE FileAssumption DEF Wiped, TypeInv, TypeOK, Goto, End, Drop, TaskStep, SaveStep
<1>1. CASE Edit
  BY <1>1 DEF Edit
<1>2. ASSUME NEW c \in Call, ClickSave(c) PROVE Wiped'
  BY <1>2 DEF ClickSave, Task
<1>3. ASSUME NEW t \in Task, Work(t) PROVE Wiped'
  <2>1. CASE AutoStart(t) \/ Create(t) \/ JsonOpen(t) \/ JsonWrite(t) \/ ConfExists(t)
    BY <2>1 DEF AutoStart, Create, JsonOpen, JsonWrite, ConfExists
  <2>2. CASE AutoStartThrows(t) \/ SaveFails(t) \/ Answer(t)
    BY <2>2 DEF AutoStartThrows, SaveFails, Answer
  <2>3. CASE ConfRead(t)
    BY <2>3 DEF ConfRead, Rewritten
  <2>4. CASE ConfOpen(t)
    BY <2>4 DEF ConfOpen
  <2>5. CASE ConfWrite(t)
    BY <2>5 DEF ConfWrite, Overlay
  <2>6. CASE Load
    BY <2>6 DEF Load, LoadExists, LoadRead, LoadFails, LoadSaved, Task
  <2> QED
    BY <1>3, <2>1, <2>2, <2>3, <2>4, <2>5, <2>6 DEF Work, Save
<1>4. CASE Relaunch
  BY <1>4 DEF Relaunch, Launched
<1>5. CASE UNCHANGED vars
  BY <1>5 DEF vars
<1> QED
  BY <1>1, <1>2, <1>3, <1>4, <1>5 DEF Next

\* A nginx.conf that is empty with nothing in flight stays empty for ever: no save,
\* no load and no relaunch of the application brings a directive back, under any
\* clicking.
THEOREM EmptyConfStaysEmpty == Spec => [](Quiet /\ conf = Empty => [](conf = Empty))
<1>1. Quiet /\ conf = Empty => Wiped
  BY DEF Quiet, Wiped
<1>2. Wiped => conf = Empty
  BY DEF Wiped
<1>3. Init => TypeInv
  BY TypeInit
<1> QED
  BY <1>1, <1>2, <1>3, TypeStep, WipedStep, PTL DEF Spec

(***************************************************************************)
(* Settings nobody saved                                                   *)
(***************************************************************************)

\* No copy of the settings, in memory, on disk or on its way there, is in S.
Without(S) ==
    /\ mem \notin S /\ json \notin S
    /\ \A t \in Task : arg[t] \notin S
    /\ \A t \in Task : pc[t] \in {"jsonOpen", "jsonWrite"} => buf[t] \notin S

\* Settings enter by a click; calls only pass them on.
LEMMA WithoutStep ==
    ASSUME NEW S \in SUBSET (AppConfig \ {Default}), TypeInv, Without(S), [Next]_vars,
           \A c \in Call : ClickSave(c) => FormConfig \notin S
    PROVE  Without(S)'
<1> USE FileAssumption DEF Without, TypeInv, TypeOK, Holds, Goto, End, Drop, TaskStep, SaveStep
<1>1. CASE Edit
  BY <1>1 DEF Edit
<1>2. ASSUME NEW c \in Call, ClickSave(c) PROVE Without(S)'
  <2>1. FormConfig \notin S
    BY <1>2
  <2> QED
    BY <1>2, <2>1 DEF ClickSave, Task
<1>3. ASSUME NEW t \in Task, Work(t) PROVE Without(S)'
  <2>1. CASE AutoStart(t)
    BY <2>1 DEF AutoStart
  <2>2. CASE Create(t)
    BY <2>2 DEF Create
  <2>3. CASE JsonOpen(t)
    BY <2>3 DEF JsonOpen
  <2>4. CASE JsonWrite(t)
    <3>1. json' \in {json, buf[t], Garbled} /\ buf[t] \notin S
      BY <2>4, OverlayType DEF JsonWrite
    <3> QED
      BY <2>4, <3>1 DEF JsonWrite
  <2>5. CASE ConfExists(t) \/ ConfRead(t) \/ ConfOpen(t) \/ ConfWrite(t)
    BY <2>5 DEF ConfExists, ConfRead, ConfOpen, ConfWrite
  <2>6. CASE AutoStartThrows(t) \/ SaveFails(t) \/ Answer(t)
    BY <2>6 DEF AutoStartThrows, SaveFails, Answer
  <2>7. CASE Load
    BY <2>7 DEF Load, LoadExists, LoadRead, LoadFails, LoadSaved, Task
  <2> QED
    BY <1>3, <2>1, <2>2, <2>3, <2>4, <2>5, <2>6, <2>7 DEF Work, Save
<1>4. CASE Relaunch
  BY <1>4 DEF Relaunch, Launched, NoArg, NoBuf
<1>5. CASE UNCHANGED vars
  BY <1>5 DEF vars
<1> QED
  BY <1>1, <1>2, <1>3, <1>4, <1>5 DEF Next

\* However calls overlap, fail and are cut off, and over any number of sessions,
\* memory and config.json hold the default, settings some click saved, or nothing
\* that loads: no mixture of two saves is ever taken for settings.
THEOREM NothingIsInvented ==
    ASSUME NEW CONSTANT S \in SUBSET (AppConfig \ {Default})
    PROVE  Spec /\ [][\A c \in Call : ClickSave(c) => FormConfig \notin S]_vars
               => [](mem \notin S /\ json \notin S)
<1>1. Init => TypeInv /\ Without(S)
  <2>1. Init => Without(S)
    BY FileAssumption DEF Init, Without, Launched, NoArg, NoBuf
  <2> QED
    BY <2>1, TypeInit
<1>2. /\ TypeInv /\ Without(S) /\ [Next]_vars
      /\ [\A c \in Call : ClickSave(c) => FormConfig \notin S]_vars
      => TypeInv' /\ Without(S)'
  <2> SUFFICES ASSUME TypeInv, Without(S), [Next]_vars,
                      [\A c \in Call : ClickSave(c) => FormConfig \notin S]_vars
               PROVE  Without(S)'
    BY TypeStep
  <2>1. CASE UNCHANGED vars
    BY <2>1 DEF Without, vars
  <2>2. CASE \A c \in Call : ClickSave(c) => FormConfig \notin S
    BY <2>2, WithoutStep
  <2> QED
    BY <2>1, <2>2
<1>3. Without(S) => mem \notin S /\ json \notin S
  BY DEF Without
<1> QED
  BY <1>1, <1>2, <1>3, PTL DEF Spec

(***************************************************************************)
(* No call goes round in a circle                                          *)
(***************************************************************************)

\* The steps a call can still take, from each of its awaits on.
Left(step) ==
    CASE step \in {"exists", "auto"} -> 9
      [] step = "create" -> 8
      [] step = "jsonOpen" -> 7
      [] step = "jsonWrite" -> 6
      [] step = "confExists" -> 5
      [] step = "confRead" -> 4
      [] step = "confOpen" -> 3
      [] step = "confWrite" -> 2
      [] step \in {"read", "done", "failed"} -> 1
      [] step = "idle" -> 0

\* What one call does brings it nearer to its end and leaves the others alone.
LEMMA WorkShortens ==
    ASSUME TypeOK, NEW t \in Task, Work(t)
    PROVE  /\ Left(pc'[t]) < Left(pc[t])
           /\ \A s \in Task \ {t} : pc'[s] = pc[s]
<1> USE DEF TypeOK, Goto, End, Left
<1>1. CASE AutoStart(t) \/ AutoStartThrows(t) \/ Create(t) \/ JsonOpen(t)
  BY <1>1 DEF AutoStart, AutoStartThrows, Create, JsonOpen
<1>2. CASE JsonWrite(t) \/ ConfExists(t) \/ ConfRead(t)
  BY <1>2 DEF JsonWrite, ConfExists, ConfRead
<1>3. CASE ConfOpen(t) \/ ConfWrite(t) \/ SaveFails(t)
  BY <1>3 DEF ConfOpen, ConfWrite, SaveFails, SaveStep
<1>4. CASE Answer(t)
  BY <1>4 DEF Answer
<1>5. CASE t = Boot /\ Load
  BY <1>5 DEF Load, LoadExists, LoadRead, LoadFails, LoadSaved
<1> QED
  BY <1>1, <1>2, <1>3, <1>4, <1>5 DEF Work, Save

\* Within a session a call that has begun only ever comes nearer to its end:
\* whatever overlaps it and whatever fails, no error path takes it back to an
\* operation it has had.  (That each operation ends makes CallsEnd of it.)
THEOREM CallsOnlyGetShorter ==
    Spec => [][\A t \in Task :
                  ~Relaunch /\ pc[t] # "idle" =>
                      pc'[t] = pc[t] \/ Left(pc'[t]) < Left(pc[t])]_vars
<1> DEFINE Shorter ==
        \A t \in Task : ~Relaunch /\ pc[t] # "idle" =>
            pc'[t] = pc[t] \/ Left(pc'[t]) < Left(pc[t])
<1>1. TypeInv /\ [Next]_vars => [Shorter]_vars
  <2> SUFFICES ASSUME TypeInv, Next PROVE Shorter
    BY DEF vars
  <2>1. CASE Edit
    BY <2>1 DEF Edit
  <2>2. ASSUME NEW c \in Call, ClickSave(c) PROVE Shorter
    BY <2>2 DEF ClickSave, Goto, TypeInv, TypeOK, Task
  <2>3. ASSUME NEW t \in Task, Work(t) PROVE Shorter
    BY <2>3, WorkShortens DEF TypeInv
  <2>4. CASE Relaunch
    BY <2>4
  <2> QED
    BY <2>1, <2>2, <2>3, <2>4 DEF Next
<1> QED
  BY <1>1, TypeInit, TypeStep, PTL DEF Spec
=============================================================================
