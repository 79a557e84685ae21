--------------------------- MODULE SettingsStore ---------------------------
(***************************************************************************)
(* What the settings page promises, with none of the files: there is one   *)
(* set of stored settings, the next session starts from it, and a save     *)
(* that is reported has become it.  While a save runs the stored settings  *)
(* may be the default, but never anything the user did not save; and every *)
(* save ends.  ConfigManager shows that the page, memory and config.json   *)
(* implement this under failures and crashes, for one click at a time.     *)
(***************************************************************************)
CONSTANTS
    Settings,
    Factory,  \* the default settings, one of Settings
    Nothing   \* no settings, none of Settings

VARIABLES
    stored,   \* what the next session will start from
    saving,   \* the settings of the save in progress
    promised  \* the settings of the last save reported, until the next begins

vars == <<stored, saving, promised>>

Init ==
    /\ stored = Factory
    /\ saving = Nothing
    /\ promised = Nothing

Begin(settings) ==
    /\ saving = Nothing
    /\ saving' = settings
    /\ promised' = Nothing
    /\ UNCHANGED stored

\* The stored settings are thrown away before the new ones are there.
Discard ==
    /\ saving # Nothing
    /\ stored' = Factory
    /\ UNCHANGED <<saving, promised>>

Store ==
    /\ saving # Nothing
    /\ stored' = saving
    /\ UNCHANGED <<saving, promised>>

Report ==
    /\ saving # Nothing
    /\ stored = saving
    /\ promised' = saving
    /\ saving' = Nothing
    /\ UNCHANGED stored

\* The save fails, or the application ends.
Abandon ==
    /\ saving # Nothing
    /\ saving' = Nothing
    /\ UNCHANGED <<stored, promised>>

Next ==
    \/ \E settings \in Settings : Begin(settings)
    \/ Discard \/ Store \/ Report \/ Abandon

\* What may happen, and what must: every save ends.
Safety == Init /\ [][Next]_vars

Ends == saving # Nothing ~> saving = Nothing

Spec == Safety /\ Ends
=============================================================================
