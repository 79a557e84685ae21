------------------------- MODULE HostsManagerProofs -------------------------
(***************************************************************************)
(* What holds of HostsManager for every set of folder names, every number  *)
(* of Fix All calls and every bound on the entries.                        *)
(***************************************************************************)
EXTENDS HostsManager, TLAPS

(***************************************************************************)
(* Types                                                                   *)
(***************************************************************************)

LEMMA TypeInit == Init => TypeOK
<1> SUFFICES ASSUME Init PROVE TypeOK
  OBVIOUS
<1>1. {0, 1} \subseteq 0 .. MaxEntries
  BY MaxEntriesAssumption
<1>2. hosts \in [Name -> 0 .. MaxEntries]
  BY <1>1 DEF Init
<1> QED
  BY <1>2 DEF Init, TypeOK, FixStep

\* No lookup, click, file operation or elevated shell leaves the types.
LEMMA TypeStep == TypeOK /\ [Next]_vars => TypeOK'
<1> SUFFICES ASSUME TypeOK, [Next]_vars PROVE TypeOK'
  OBVIOUS
<1> USE DEF TypeOK, seen
<1>1. CASE User
  BY <1>1 DEF User, AddSite, RemoveSite
<1>2. CASE Rebuild
  BY <1>2 DEF Rebuild
<1>3. CASE Lookup
  <2>1. CASE LookRead \/ LookReadFails
    BY <2>1 DEF LookRead, LookReadFails, Entries
  <2>2. CASE LookScan \/ LookScanFails
    BY <2>2 DEF LookScan, LookScanFails, LookEnds
  <2> QED
    BY <1>3, <2>1, <2>2 DEF Lookup
<1>4. ASSUME NEW f \in Fix, ClickFix(f) PROVE TypeOK'
  BY <1>4 DEF ClickFix, Goto, FixStep
<1>5. ASSUME NEW f \in Fix, FixWork(f) PROVE TypeOK'
  <2> USE DEF Goto, FixStep, seen
  <2>1. CASE ScriptOpen(f) \/ ScriptWrite(f) \/ ScriptFails(f)
    BY <2>1 DEF ScriptOpen, ScriptWrite, ScriptFails
  <2>2. CASE Elevate(f) \/ FixFails(f)
    BY <2>2 DEF Elevate, FixFails
  <2>3. CASE AddContent(f)
    <3>1. hosts' \in [Name -> 0 .. MaxEntries]
      BY <2>3, MaxEntriesAssumption DEF AddContent
    <3>2. fix' \in [Fix -> FixStep] /\ todo' \in [Fix -> SUBSET Name]
      BY <2>3 DEF AddContent
    <3> QED
      BY <2>3, <3>1, <3>2 DEF AddContent
  <2>4. CASE FixReturns(f)
    BY <2>4 DEF FixReturns
  <2> QED
    BY <1>5, <2>1, <2>2, <2>3, <2>4 DEF FixWork
<1>6. CASE UNCHANGED vars
  BY <1>6 DEF vars, seen
<1> QED
  BY <1>1, <1>2, <1>3, <1>4, <1>5, <1>6 DEF Next

\* Every variable keeps its type, whatever the user clicks.
THEOREM HostsTypeCorrect == Spec => []TypeOK
<1> QED
  BY TypeInit, TypeStep, PTL DEF Spec

\* A patient click is a click.
LEMMA PatientIsNext == [PatientNext]_vars => [Next]_vars
  BY DEF PatientNext, Next

(***************************************************************************)
(* No entry twice                                                          *)
(***************************************************************************)

Unregistered(S) == \A n \in S : hosts[n] = 0

\* A registered domain is found, although it is searched for as the beginning of
\* an entry.
LEMMA FoundIsRegistered ==
    ASSUME NEW n \in Name, NEW S, n \in S
    PROVE  Registered(n, S)
<1> DEFINE Piece == STRING \cup {".test"}
<1>1. n \in Seq(Piece)
  BY NameAssumption
<1>2. Domain(n) \in Seq(Piece)
  BY <1>1 DEF Domain
<1>3. IsPrefix(Domain(n), Domain(n))
  BY <1>2 DEF IsPrefix
<1> QED
  BY <1>3 DEF Registered

\* The list of a card that may be acted on names unregistered domains only, if its
\* lookup could read the file: nobody could write to the file since.
LookInv ==
    /\ fresh = "yes" /\ "card" \notin unread => Unregistered(missing)
    /\ fresh # "no" => FixIdle
    /\ fresh # "no" /\ look = "scan" /\ "look" \notin unread => found = Entries

\* What one fix carries from the click to the hosts file is that list; no other
\* fix comes in between.
FixInv ==
    /\ \A f, g \in Fix : fix[f] # "idle" /\ fix[g] # "idle" => f = g
    /\ \A f \in Fix :
        /\ fix[f] \in {"open", "write", "prompt", "append"} =>
              f \in blind \/ Unregistered(arg[f])
        /\ fix[f] = "write" => script = {}
        /\ fix[f] = "prompt" => script = arg[f]
        /\ fix[f] = "append" => todo[f] = arg[f]

PatientInv == LookInv /\ FixInv

LEMMA PatientInit == Init => PatientInv
  BY DEF Init, PatientInv, LookInv, FixInv, FixIdle, Unregistered

\* Only AddContent writes to the hosts file, and by then only this fix runs.
LEMMA PatientStep == TypeOK /\ PatientInv /\ [PatientNext]_vars => PatientInv'
<1> SUFFICES ASSUME TypeOK, PatientInv, [PatientNext]_vars PROVE PatientInv'
  OBVIOUS
<1> USE DEF TypeOK, PatientInv, LookInv, FixInv, FixIdle, Unregistered, Entries, seen
<1>1. CASE User \/ UNCHANGED vars
  BY <1>1 DEF User, AddSite, RemoveSite, vars
<1>2. CASE Rebuild
  BY <1>2 DEF Rebuild
<1>3. CASE LookRead \/ LookReadFails
  BY <1>3 DEF LookRead, LookReadFails
<1>4. CASE LookScan
  <2>1. fresh # "no" /\ "look" \notin unread => Unregistered(missing')
    BY <1>4, FoundIsRegistered DEF LookScan, LookEnds
  <2>2. "card" \notin unread' => "look" \notin unread
    BY <1>4 DEF LookScan, LookEnds
  <2> QED
    BY <1>4, <2>1, <2>2 DEF LookScan, LookEnds
<1>7. CASE LookScanFails
  BY <1>7 DEF LookScanFails, LookEnds
<1>5. ASSUME NEW f \in Fix, FixIdle, fresh = "yes", ClickFix(f) PROVE PatientInv'
  BY <1>5 DEF ClickFix, Goto
<1>6. ASSUME NEW f \in Fix, FixWork(f) PROVE PatientInv'
  <2>0. fix[f] # "idle" => fresh = "no" /\ \A g \in Fix \ {f} : fix[g] = "idle"
    OBVIOUS
  <2> USE DEF Goto, seen
  <2>1. CASE ScriptOpen(f)
    BY <2>0, <2>1 DEF ScriptOpen
  <2>2. CASE ScriptWrite(f)
    BY <2>0, <2>2 DEF ScriptWrite
  <2>3. CASE ScriptFails(f)
    BY <2>0, <2>3 DEF ScriptFails
  <2>4. CASE Elevate(f)
    BY <2>0, <2>4 DEF Elevate
  <2>5. CASE AddContent(f)
    BY <2>0, <2>5 DEF AddContent
  <2>6. CASE FixFails(f)
    BY <2>0, <2>6 DEF FixFails
  <2>7. CASE FixReturns(f)
    BY <2>0, <2>7 DEF FixReturns
  <2> QED
    BY <1>6, <2>1, <2>2, <2>3, <2>4, <2>5, <2>6, <2>7 DEF FixWork
<1> QED
  BY <1>1, <1>2, <1>3, <1>4, <1>5, <1>6, <1>7 DEF PatientNext, Lookup

\* However many folders, calls and timer ticks, failed lookups and refused prompts
\* there are: where a user waits for a new lookup after each fix, no domain is
\* entered again but by a fix clicked on a list whose lookup could not read the
\* hosts file.  That one error of readHosts is all that duplicates entries.
THEOREM NeverDuplicated == PatientSpec => NoDuplicates
<1>1. Init => TypeOK /\ PatientInv
  BY TypeInit, PatientInit
<1>2. TypeOK /\ PatientInv /\ [PatientNext]_vars => TypeOK' /\ PatientInv'
  BY PatientIsNext, TypeStep, PatientStep
<1>3. PatientInv => [\A f \in Fix : AddContent(f) =>
                        f \in blind \/ \A n \in todo[f] : hosts[n] = 0]_vars
  BY DEF PatientInv, FixInv, AddContent, Unregistered
<1> QED
  BY <1>1, <1>2, <1>3, PTL DEF PatientSpec, NoDuplicates

(***************************************************************************)
(* Fix All is a Registration                                               *)
(***************************************************************************)

Asked == UNION {arg[f] : f \in InFlight}

\* A request in flight asks for something.
AskInv == PatientInv /\ \A f \in InFlight : arg[f] # {}

LEMMA AskStep ==
    ASSUME TypeOK, AskInv, [PatientNext]_vars
    PROVE  AskInv'
<1>1. PatientInv'
  BY PatientStep DEF AskInv
<1> SUFFICES (\A f \in InFlight : arg[f] # {})'
  BY <1>1 DEF AskInv
<1> USE DEF TypeOK, AskInv, InFlight, Goto
<1>2. CASE User \/ Rebuild \/ Lookup \/ UNCHANGED vars
  BY <1>2 DEF User, AddSite, RemoveSite, Rebuild, Lookup, LookRead, LookReadFails, LookScan,
              LookScanFails, LookEnds, vars
<1>3. ASSUME NEW f \in Fix, ClickFix(f) PROVE (\A g \in InFlight : arg[g] # {})'
  BY <1>3 DEF ClickFix
<1>4. ASSUME NEW f \in Fix, FixWork(f) PROVE (\A g \in InFlight : arg[g] # {})'
  BY <1>4 DEF FixWork, ScriptOpen, ScriptWrite, ScriptFails, Elevate, AddContent, FixFails,
              FixReturns
<1> QED
  BY <1>2, <1>3, <1>4 DEF PatientNext

\* One fix at a time: what is asked is what that fix asks.
LEMMA AskedIs ==
    ASSUME FixInv, NEW f \in InFlight
    PROVE  Asked = arg[f]
  BY DEF Asked, FixInv, InFlight

LEMMA AskedIsAfter ==
    ASSUME FixInv', NEW f \in InFlight'
    PROVE  Asked' = arg'[f]
  BY DEF Asked, FixInv, InFlight

\* The steps of the abstract list, of the entries and the request.
Register ==
    \/ UNCHANGED <<Entries, Asked>>
    \/ Asked = {} /\ Asked' # {} /\ Asked' \in SUBSET Name /\ Entries' = Entries
    \/ Asked # {} /\ Asked' = {} /\ Entries' \in {Entries, Entries \cup Asked}

LEMMA RegisterIsRegistry == Register => [Registry!Next]_(Registry!vars)
<1> USE DEF Asked
<1>1. CASE UNCHANGED <<Entries, Asked>>
  BY <1>1 DEF Registry!vars
<1>2. CASE Asked = {} /\ Asked' # {} /\ Asked' \in SUBSET Name /\ Entries' = Entries
  <2>1. PICK request \in SUBSET Name : request = Asked'
    BY <1>2
  <2>2. Registry!Ask(request)
    BY <1>2, <2>1 DEF Registry!Ask
  <2> QED
    BY <2>2 DEF Registry!Next
<1>3. CASE Asked # {} /\ Asked' = {} /\ Entries' \in {Entries, Entries \cup Asked}
  BY <1>3 DEF Registry!Next, Registry!Grant, Registry!Refuse
<1> QED
  BY <1>1, <1>2, <1>3 DEF Register

\* A step of a fix that leaves the request in flight asks for the same, and one
\* that ends it leaves nothing asked.
LEMMA RequestStep ==
    ASSUME TypeOK, AskInv, TypeOK', FixInv', NEW f \in Fix, fix[f] # "idle",
           \A g \in Fix \ {f} : fix'[g] = fix[g]
    PROVE  /\ f \in InFlight => Asked = arg[f] /\ Asked # {}
           /\ f \notin InFlight => Asked = {}
           /\ f \in InFlight' => Asked' = arg'[f]
           /\ f \notin InFlight' => Asked' = {}
<1>1. \A g \in Fix \ {f} : fix[g] = "idle" /\ fix'[g] = "idle"
  BY DEF AskInv, PatientInv, FixInv
<1>2. InFlight \subseteq {f} /\ InFlight' \subseteq {f}
  BY <1>1 DEF InFlight
<1>3. f \in InFlight => Asked = arg[f] /\ Asked # {}
  BY AskedIs DEF AskInv, PatientInv
<1>4. f \in InFlight' => Asked' = arg'[f]
  BY AskedIsAfter
<1>5. InFlight = {} => Asked = {}
  BY DEF Asked
<1>6. InFlight' = {} => Asked' = {}
  BY DEF Asked
<1> QED
  BY <1>2, <1>3, <1>4, <1>5, <1>6

\* Every step of a patient user, of a lookup and of a fix is a step of the list.
LEMMA RegistryStep ==
    ASSUME TypeOK, AskInv, TypeOK', FixInv', [PatientNext]_vars
    PROVE  Register
<1>1. CASE User \/ Rebuild \/ Lookup \/ UNCHANGED vars
  <2>1. UNCHANGED <<hosts, fix, arg>>
    BY <1>1 DEF User, AddSite, RemoveSite, Rebuild, Lookup, LookRead, LookReadFails,
                LookScan, LookScanFails, LookEnds, vars
  <2>2. UNCHANGED <<Entries, InFlight>>
    BY <2>1 DEF Entries, InFlight
  <2>3. UNCHANGED Asked
    BY <2>1, <2>2 DEF Asked
  <2> QED
    BY <2>2, <2>3 DEF Register
<1>2. ASSUME NEW f \in Fix, FixIdle, fresh = "yes", ClickFix(f) PROVE Register
  <2>1. InFlight = {} /\ f \in InFlight' /\ arg'[f] = missing
    BY <1>2 DEF ClickFix, FixIdle, InFlight, Goto, TypeOK
  <2>2. Asked = {} /\ Asked' = missing
    BY <2>1, AskedIsAfter DEF Asked
  <2>3. missing # {} /\ Entries' = Entries
    BY <1>2 DEF ClickFix, Entries
  <2> QED
    BY <2>2, <2>3 DEF Register, TypeOK
<1>3. ASSUME NEW f \in Fix, FixWork(f) PROVE Register
  <2>0. fix[f] # "idle" /\ \A g \in Fix \ {f} : fix'[g] = fix[g]
    BY <1>3 DEF FixWork, ScriptOpen, ScriptWrite, ScriptFails, Elevate, AddContent, FixFails,
                FixReturns, Goto, TypeOK
  <2>a. /\ f \in InFlight => Asked = arg[f] /\ Asked # {}
        /\ f \notin InFlight => Asked = {}
        /\ f \in InFlight' => Asked' = arg'[f]
        /\ f \notin InFlight' => Asked' = {}
    BY <2>0, RequestStep
  <2> USE DEF TypeOK, Goto
  <2>1. CASE ScriptOpen(f) \/ ScriptWrite(f) \/ Elevate(f)
    <3>1. f \in InFlight /\ f \in InFlight' /\ UNCHANGED <<hosts, arg>>
      BY <2>1 DEF ScriptOpen, ScriptWrite, Elevate, InFlight
    <3> QED
      BY <2>a, <3>1 DEF Register, Entries
  <2>2. CASE ScriptFails(f) \/ FixFails(f)
    <3>1. f \in InFlight /\ f \notin InFlight' /\ UNCHANGED hosts
      BY <2>2 DEF ScriptFails, FixFails, InFlight
    <3> QED
      BY <2>a, <3>1 DEF Register, Entries
  <2>3. CASE AddContent(f)
    <3>1. f \in InFlight /\ f \notin InFlight' /\ todo[f] = arg[f]
      BY <2>3 DEF AddContent, InFlight, AskInv, PatientInv, FixInv
    <3>2. Entries' = Entries \cup todo[f]
      BY <2>3, MaxEntriesAssumption DEF AddContent, Entries
    <3> QED
      BY <2>a, <3>1, <3>2 DEF Register
  <2>4. CASE FixReturns(f)
    <3>1. f \notin InFlight /\ f \notin InFlight' /\ UNCHANGED hosts
      BY <2>4 DEF FixReturns, InFlight
    <3> QED
      BY <2>a, <3>1 DEF Register, Entries
  <2> QED
    BY <1>3, <2>1, <2>2, <2>3, <2>4 DEF FixWork
<1> QED
  BY <1>1, <1>2, <1>3 DEF PatientNext

LEMMA RegistryInit == Init => Registry!Init /\ AskInv
  BY PatientInit DEF Init, Registry!Init, Entries, InFlight, AskInv

\* What is registered is what was asked for, all of it or nothing, and no
\* registration is lost: for every set of folder names and number of fixes, with
\* failed reads, refused prompts and folders that come and go on the way.
THEOREM FixAllIsRegistration == PatientSpec => ImplementsRegistration
<1> DEFINE Inv == TypeOK /\ AskInv
<1>1. Init => Inv /\ Registry!Init
  BY TypeInit, RegistryInit
<1>2. Inv /\ [PatientNext]_vars => Inv'
  BY PatientIsNext, TypeStep, AskStep
<1>3. Inv /\ Inv' /\ [PatientNext]_vars => [Registry!Next]_(Registry!vars)
  BY RegistryStep, RegisterIsRegistry DEF AskInv, PatientInv
<1> QED
  <2> HIDE DEF Inv
  <2> QED
    BY <1>1, <1>2, <1>3, PTL DEF PatientSpec, ImplementsRegistration, Registry!Spec

(***************************************************************************)
(* "All Sites Registered" is wrong of names with ".test" only              *)
(***************************************************************************)

\* The piece that is the suffix of every domain is in no folder name.
PlainNames == \A n \in Name : \A i \in 1 .. Len(n) : n[i] # ".test"

\* Then no domain is the beginning of another.
LEMMA DomainsPrefixFree ==
    ASSUME PlainNames, NEW n \in Name, NEW m \in Name, IsPrefix(Domain(n), Domain(m))
    PROVE  n = m
<1>1. n \in Seq(STRING) /\ m \in Seq(STRING)
  BY NameAssumption
<1> DEFINE k == Len(n) + 1
<1>2. Len(n) \in Nat /\ Len(m) \in Nat
  BY <1>1
<1>3. Len(Domain(n)) = k /\ Len(Domain(m)) = Len(m) + 1
  BY <1>1 DEF Domain
<1>4. k <= Len(m) + 1 /\ \A i \in 1 .. k : Domain(n)[i] = Domain(m)[i]
  BY <1>1, <1>2, <1>3 DEF IsPrefix, Domain
<1>5. k \in 1 .. k /\ Domain(n)[k] = ".test"
  BY <1>1, <1>2 DEF Domain
<1>6. Domain(m)[k] = ".test"
  BY <1>4, <1>5
<1>7. k = Len(m) + 1
  <2>1. SUFFICES ASSUME k <= Len(m) PROVE FALSE
    BY <1>2, <1>4
  <2>2. k \in 1 .. Len(m) /\ Domain(m)[k] = m[k]
    BY <1>1, <1>2, <2>1 DEF Domain
  <2> QED
    BY <1>6, <2>2 DEF PlainNames
<1>8. Len(n) = Len(m)
  BY <1>2, <1>7
<1>9. ASSUME NEW i \in 1 .. Len(n) PROVE n[i] = m[i]
  <2>1. Domain(n)[i] = n[i] /\ Domain(m)[i] = m[i]
    BY <1>1, <1>2, <1>8, <1>9 DEF Domain
  <2> QED
    BY <1>2, <1>4, <2>1
<1> QED
  BY <1>1, <1>8, <1>9

\* What a lookup has read is in the file: entries are never taken out.
Read == found \subseteq Entries

LEMMA ReadStep == TypeOK /\ Read /\ [Next]_vars => Read'
<1> SUFFICES ASSUME TypeOK, Read, [Next]_vars PROVE Read'
  OBVIOUS
<1> USE DEF Read, TypeOK, Entries
<1>1. CASE User \/ Rebuild \/ Lookup \/ UNCHANGED vars
  BY <1>1 DEF User, AddSite, RemoveSite, Rebuild, Lookup, LookRead, LookReadFails, LookScan,
              LookScanFails, LookEnds, vars
<1>2. ASSUME NEW f \in Fix, ClickFix(f) PROVE Read'
  BY <1>2 DEF ClickFix
<1>3. ASSUME NEW f \in Fix, AddContent(f) PROVE Read'
  BY <1>3, MaxEntriesAssumption DEF AddContent
<1>4. ASSUME NEW f \in Fix, FixWork(f), ~AddContent(f) PROVE Read'
  BY <1>4 DEF FixWork, ScriptOpen, ScriptWrite, ScriptFails, Elevate, FixFails, FixReturns
<1> QED
  BY <1>1, <1>2, <1>3, <1>4 DEF Next

\* If no folder name holds the piece ".test", a lookup that lists the sites never
\* leaves out one without an entry, whatever is clicked, although reads fail and
\* fixes overlap: the names, not the timing, are what makes its empty list wrong.
\* (A card that has no list, before the first lookup and after a failed scan, says
\* the same without having looked.)
THEOREM AllRegisteredOfPlainNames ==
    ASSUME PlainNames
    PROVE  Spec => AllRegisteredIsTrue
<1>1. Init => TypeOK /\ Read
  BY TypeInit DEF Init, Read
<1>2. TypeOK /\ Read /\ [Next]_vars => TypeOK' /\ Read'
  BY TypeStep, ReadStep
<1>3. ASSUME TypeOK, Read, LookScan, missing' = {}, NEW n \in sites
      PROVE  hosts[n] > 0
  <2>1. n \in Name /\ Registered(n, found)
    BY <1>3 DEF LookScan, LookEnds, TypeOK
  <2>2. PICK e \in found : IsPrefix(Domain(n), Domain(e))
    BY <2>1 DEF Registered
  <2>3. e \in Name /\ e \in Entries
    BY <1>3 DEF Read, Entries
  <2>4. n = e
    BY <2>1, <2>2, <2>3, DomainsPrefixFree
  <2> QED
    BY <2>3, <2>4 DEF Entries
<1>4. TypeOK /\ Read /\ [Next]_vars =>
          [LookScan /\ missing' = {} => \A n \in sites : hosts[n] > 0]_vars
  BY <1>3
<1> QED
  BY <1>1, <1>2, <1>4, PTL DEF Spec, AllRegisteredIsTrue
=============================================================================
