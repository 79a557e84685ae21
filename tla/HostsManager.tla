---------------------------- MODULE HostsManager ----------------------------
(***************************************************************************)
(* HostsManagerService (lib/core/hosts_manager.dart) and the sites card of *)
(* the dashboard (_buildSitesCard in lib/ui/dashboard.dart).               *)
(*                                                                         *)
(* Every build of the dashboard gives the FutureBuilder a new lookup, which*)
(* reads the hosts file and then scans the sites folder; the result of a   *)
(* lookup that a later build has replaced is dropped, and until a result   *)
(* arrives the card keeps the previous one.  "Fix All" takes the list of   *)
(* the built card, writes a script to one fixed temporary file and runs it *)
(* elevated, which asks the user first.                                    *)
(*                                                                         *)
(* A site is named by its folder, a sequence of pieces in which ".test" is *)
(* one piece wherever it occurs; its domain is that name with ".test"      *)
(* appended.  The hosts file is the number of entries of each domain: the  *)
(* order of the lines and the lines of others do not matter here.          *)
(***************************************************************************)
EXTENDS Naturals, Sequences, SequencesExt

CONSTANTS
    Name,       \* folder names
    Fix,        \* fixMissingDomains calls that may be in flight together
    MaxEntries  \* bound: entries of one domain

ASSUME NameAssumption == \A n \in Name : n \in Seq(STRING) /\ n # <<>>
ASSUME MaxEntriesAssumption == MaxEntries \in Nat \ {0}

VARIABLES
    sites,   \* folders in sites/
    hosts,   \* entries of each domain in the hosts file
    look,    \* the lookup of the last build: "idle", "read" or "scan"
    found,   \* entries the lookup has read
    missing, \* the list of the built card
    fix,     \* the await a fixMissingDomains call is suspended on
    arg,     \* its domains
    script,  \* the domains in luhut_hosts_fix.ps1
    todo,    \* the domains its elevated shell has read from the script
    fresh,   \* history: the card shows what became of a lookup that was begun
             \* after the last fix had ended ("coming": it is on its way)
    unread,  \* history: whether the lookup and the card come from a failed read
    blind    \* history: the fixes clicked on a card that does
seen == <<unread, blind>>
vars == <<sites, hosts, look, found, missing, fix, arg, script, todo, fresh, seen>>

FixStep == {"idle", "open", "write", "prompt", "append", "ended"}

TypeOK ==
    /\ sites \in SUBSET Name
    /\ hosts \in [Name -> 0 .. MaxEntries]
    /\ look \in {"idle", "read", "scan"}
    /\ found \in SUBSET Name
    /\ missing \in SUBSET Name
    /\ fix \in [Fix -> FixStep]
    /\ arg \in [Fix -> SUBSET Name]
    /\ script \in SUBSET Name
    /\ todo \in [Fix -> SUBSET Name]
    /\ fresh \in {"no", "coming", "yes"}
    /\ unread \in SUBSET {"look", "card"}
    /\ blind \in SUBSET Fix

\* The first build of the dashboard: nothing is known and a lookup begins.
Init ==
    /\ sites \in SUBSET Name
    /\ hosts \in [Name -> {0, 1}]
    /\ look = "read"
    /\ found = {}
    /\ missing = {}
    /\ fix = [f \in Fix |-> "idle"]
    /\ arg = [f \in Fix |-> {}]
    /\ script = {}
    /\ todo = [f \in Fix |-> {}]
    /\ fresh = "coming"
    /\ unread = {}
    /\ blind = {}

FixIdle == \A f \in Fix : fix[f] = "idle"

(***************************************************************************)
(* The sites folder                                                        *)
(***************************************************************************)

AddSite(n) ==
    /\ n \notin sites
    /\ sites' = sites \cup {n}
    /\ UNCHANGED <<hosts, look, found, missing, fix, arg, script, todo, fresh, seen>>

RemoveSite(n) ==
    /\ n \in sites
    /\ sites' = sites \ {n}
    /\ UNCHANGED <<hosts, look, found, missing, fix, arg, script, todo, fresh, seen>>

(***************************************************************************)
(* getMissingDomains and the FutureBuilder                                 *)
(***************************************************************************)

Domain(n) == Append(n, ".test")

\* The test for a registered site: "127.0.0.1 <domain>" is somewhere in the file,
\* be it the start of the entry of another domain.
Registered(n, entries) == \E e \in entries : IsPrefix(Domain(n), Domain(e))

Entries == {n \in Name : hosts[n] > 0}

\* Mutant: the lookup of the first build is kept for good.
RebuildKeeps == UNCHANGED vars

\* A timer tick or the setState of a click: a new lookup replaces the one before,
\* whether that has ended or not, and the card keeps its list until it ends.
Rebuild ==
    /\ look' = "read"
    /\ found' = {}
    /\ fresh' = IF fresh = "no" /\ FixIdle THEN "coming" ELSE fresh
    /\ unread' = unread \ {"look"}
    /\ UNCHANGED <<sites, hosts, missing, fix, arg, script, todo, blind>>

\* readHosts.
LookRead ==
    /\ look = "read"
    /\ found' = Entries
    /\ look' = "scan"
    /\ UNCHANGED <<sites, hosts, missing, fix, arg, script, todo, fresh, seen>>

\* readHosts catches the error of the read and returns an empty text.
LookReadFails ==
    /\ look = "read"
    /\ found' = {}
    /\ look' = "scan"
    /\ unread' = unread \cup {"look"}
    /\ UNCHANGED <<sites, hosts, missing, fix, arg, script, todo, fresh, blind>>

\* The card is built from what became of the lookup, which then is the one it
\* shows.
LookEnds(list, misread) ==
    /\ missing' = list
    /\ look' = "idle"
    /\ found' = {}
    /\ fresh' = IF fresh = "coming" THEN "yes" ELSE fresh
    /\ unread' = IF misread THEN {"card"} ELSE {}
    /\ UNCHANGED <<sites, hosts, fix, arg, script, todo, blind>>

\* Mutant: the suffix is appended to a domain.
LookScanSuffixes ==
    /\ look = "scan"
    /\ LookEnds({Domain(n) : n \in {m \in sites : ~Registered(m, found)}}, "look" \in unread)

\* scanSites: the sites whose entries were not in the text that was read.
LookScan ==
    /\ look = "scan"
    /\ LookEnds({n \in sites : ~Registered(n, found)}, "look" \in unread)

\* The folder cannot be listed: nobody catches the error, the snapshot has no
\* data, and the card shows an empty list.
LookScanFails ==
    /\ look = "scan"
    /\ LookEnds({}, FALSE)

(***************************************************************************)
(* Fix All                                                                 *)
(***************************************************************************)

Goto(f, step) == fix' = [fix EXCEPT ![f] = step]

\* The button is there when the list is not empty, and takes that list along.
ClickFix(f) ==
    /\ fix[f] = "idle"
    /\ missing # {}
    /\ arg' = [arg EXCEPT ![f] = missing]
    /\ fresh' = "no"
    /\ blind' = IF "card" \in unread THEN blind \cup {f} ELSE blind \ {f}
    /\ Goto(f, "open")
    /\ UNCHANGED <<sites, hosts, look, found, missing, script, todo, unread>>

\* Mutant: the entries are added to those of earlier scripts.
ScriptAppend(f) ==
    /\ fix[f] = "open"
    /\ Goto(f, "write")
    /\ UNCHANGED <<sites, hosts, look, found, missing, arg, script, todo, fresh, seen>>

\* Mutant: the script is made of the list the card shows by now.
ScriptWriteShown(f) ==
    /\ fix[f] = "write"
    /\ script' = missing
    /\ Goto(f, "prompt")
    /\ UNCHANGED <<sites, hosts, look, found, missing, arg, todo, fresh, seen>>

\* writeAsString truncates the script of whatever call wrote it last, then
\* writes the entries at its start: what another call wrote in between is
\* overwritten or stays behind them.
ScriptOpen(f) ==
    /\ fix[f] = "open"
    /\ script' = {}
    /\ Goto(f, "write")
    /\ UNCHANGED <<sites, hosts, look, found, missing, arg, todo, fresh, seen>>

ScriptWrite(f) ==
    /\ fix[f] = "write"
    /\ script' \in {arg[f], script \cup arg[f]}
    /\ Goto(f, "prompt")
    /\ UNCHANGED <<sites, hosts, look, found, missing, arg, todo, fresh, seen>>

\* The write throws: out of fixMissingDomains and of the click, without setState.
ScriptFails(f) ==
    /\ fix[f] \in {"open", "write"}
    /\ arg' = [arg EXCEPT ![f] = {}]
    /\ Goto(f, "idle")
    /\ UNCHANGED <<sites, hosts, look, found, missing, script, todo, fresh, seen>>

\* _runElevated: the user allows the elevated shell, and it reads the script.
Elevate(f) ==
    /\ fix[f] = "prompt"
    /\ todo' = [todo EXCEPT ![f] = script]
    /\ Goto(f, "append")
    /\ UNCHANGED <<sites, hosts, look, found, missing, arg, script, fresh, seen>>

\* Add-Content: one entry for each domain of the script.
AddContent(f) ==
    /\ fix[f] = "append"
    /\ \A n \in todo[f] : hosts[n] < MaxEntries
    /\ hosts' = [n \in Name |-> IF n \in todo[f] THEN hosts[n] + 1 ELSE hosts[n]]
    /\ todo' = [todo EXCEPT ![f] = {}]
    /\ Goto(f, "ended")
    /\ UNCHANGED <<sites, look, found, missing, arg, script, fresh, seen>>

\* The user refuses, the shell cannot be started, or Add-Content fails: nobody
\* looks at the result, or at the exit code of the inner shell.
FixFails(f) ==
    /\ fix[f] \in {"prompt", "append"}
    /\ todo' = [todo EXCEPT ![f] = {}]
    /\ Goto(f, "ended")
    /\ UNCHANGED <<sites, hosts, look, found, missing, arg, script, fresh, seen>>

\* The call returns, and setState asks for a build: the next Rebuild, which comes
\* at any time and is what looks again.
FixReturns(f) ==
    /\ fix[f] = "ended"
    /\ Goto(f, "idle")
    /\ arg' = [arg EXCEPT ![f] = {}]
    /\ UNCHANGED <<sites, hosts, look, found, missing, script, todo, fresh, seen>>

User == \E n \in Name : AddSite(n) \/ RemoveSite(n)

Lookup == LookRead \/ LookReadFails \/ LookScan \/ LookScanFails

FixWork(f) ==
    \/ ScriptOpen(f) \/ ScriptWrite(f) \/ ScriptFails(f)
    \/ Elevate(f) \/ AddContent(f) \/ FixFails(f) \/ FixReturns(f)

Next ==
    \/ User
    \/ Rebuild
    \/ Lookup
    \/ \E f \in Fix : ClickFix(f) \/ FixWork(f)

\* A user who waits for the card to show what became of a lookup begun after the
\* fix before had ended.  Whether it could read the hosts file, nobody can see.
PatientNext ==
    \/ User
    \/ Rebuild
    \/ Lookup
    \/ \E f \in Fix : (FixIdle /\ fresh = "yes" /\ ClickFix(f)) \/ FixWork(f)

\* The timer ticks, file operations end, and builds, two seconds apart, do not
\* overtake the lookups for ever.  The prompt may stay open.
Fairness ==
    /\ WF_vars(Rebuild)
    /\ WF_vars(LookRead \/ LookReadFails)
    /\ SF_vars(LookScan \/ LookScanFails)

Spec == Init /\ [][Next]_vars /\ Fairness
PatientSpec == Init /\ [][PatientNext]_vars /\ Fairness

(***************************************************************************)
(* Properties                                                              *)
(***************************************************************************)

\* A fix enters a domain that has an entry already only if it was clicked on a
\* list whose lookup could not read the hosts file (readHosts passes the error on
\* as an empty text, and the card shows every site as missing): neither an older
\* list left on the card nor the script of an earlier fix ever comes back.
NoDuplicates ==
    [][\A f \in Fix : AddContent(f) =>
           f \in blind \/ \A n \in todo[f] : hosts[n] = 0]_vars

\* If scans of the sites folder do not fail again and again, a site that stays
\* unregistered is eventually on the list of the card and stays there, whatever
\* reads fail, fixes are refused and builds replace lookups.  (A failed scan
\* empties the list.)
Noticed ==
    \A n \in Name :
        /\ <>[](n \in sites /\ ~Registered(n, Entries))
        /\ <>[][~LookScanFails]_vars
        => <>[](n \in missing)

\* The fixes between the click and the answer of the elevated shell.
InFlight == {f \in Fix : fix[f] \in {"open", "write", "prompt", "append"}}

Registry ==
    INSTANCE Registration WITH
        Site <- Name, registered <- Entries, asked <- UNION {arg[f] : f \in InFlight}

\* What a fix asked for when it was clicked is what it registers, all of it at
\* once, or nothing: no other click, lookup, earlier script or removed folder
\* changes a request on its way through the script and the elevated shell.
ImplementsRegistration == Registry!Spec

\* A lookup that lists the sites empties the card, which then says "All Sites
\* Registered", only when every site has its entry.
AllRegisteredIsTrue ==
    [][LookScan /\ missing' = {} => \A n \in sites : hosts[n] > 0]_vars
=============================================================================
