# Luhut in TLA+

Luhut is a Windows desktop application (Flutter/Dart, `lib/`, with the C++
runner of the Flutter template in `windows/runner/`). It starts and stops three
bundled servers, nginx, php-cgi and mysqld, edits its settings and nginx.conf,
and registers the sites in `sites/` in the hosts file of Windows. This directory
holds TLA+ models of it, TLC runs and TLAPS proofs.

## 1. Inventory

| Component | State | Operations | Talks to |
|---|---|---|---|
| Process manager, `lib/core/process_manager.dart` | one `Process?` handle per service | start and stop of each service, `stopAll`, an exit closure per process | Windows (processes, `taskkill`) |
| Dashboard service cards, `lib/ui/dashboard.dart` | the built page, a 2 s timer | three toggles, refresh, build | process manager, by calls |
| Config manager, `lib/core/config_manager.dart` | `_config`; config.json, nginx.conf, the login entry | load at construction, `saveConfig`, `_updateNginxConfig` | files, registry |
| Settings page, `lib/ui/settings.dart` | text fields and switches | edit, Save Changes | config manager, by calls |
| Hosts manager, `lib/core/hosts_manager.dart` | none of its own: the hosts file, one temporary script | scan, find missing, fix | files, an elevated shell |
| Sites card, `lib/ui/dashboard.dart` | the list of the last lookup | build, Fix All | hosts manager, by futures |
| Sites page, `lib/ui/sites_page.dart` | a future per build | refresh, open site, open folder | hosts manager |
| Window and tray, `lib/main.dart` | how far start-up and tray are, prevent-close | close, tray menu, exit, maximize | window_manager, system_tray, by queued calls and events |
| Windows runner, `windows/runner/` | window handle, controller, child, class registration, window count | create, destroy, messages, the loop | Win32, by nested calls |
| Installer, `setup.iss` | the installed files | install, upgrade | files, settings |
| Bundled servers, `bin/` | third-party, except nginx.conf and the system pages | | |

Nothing here runs in threads of its own. What makes it hard is that Dart code is
suspended at every `await` and any other event may run there, that the state
acted on afterwards (a handle, `_config`, a file) may have changed, that the
processes and files outlive the application, and that errors are caught and
logged where the caller goes on. What must be right, per component:

* Process manager: a running process is not forgotten, a dead one is noticed,
  a stop ends what it says, whatever overlaps.
* Service cards: label and button tell the truth, at the latest after a poll.
* Config: memory, config.json, nginx.conf and the login entry are the same
  settings; a reported save is a save and is still there after a crash; a save
  changes what the user changed.
* Hosts: an unregistered site is noticed and registered once.
* Window and tray: the application can always be shown again and ended.
* Runner: the window class outlives its windows; a message finds its objects.
* Installer: an upgrade keeps the settings.

`PROJECT.json` lists the hazards line by line.

## 2. Modules

| Module | What it is |
|---|---|
| `ProcessManager` | the service object, its child processes, `taskkill`, the end of the application |
| `Dashboard` | extends it with the page, its clicks and its user |
| `ServiceLifecycle` | abstract specification of one service card: off, starting, on, stopping |
| `ConfigManager` | settings page, load and save, files and login entry |
| `SettingsStore` | abstract specification of the settings page: one stored value, a promise, a save in progress |
| `Registration` | abstract specification of Fix All: a request, granted whole or not at all |
| `HostsManager` | lookup, sites card, Fix All, script and elevated shell |
| `Runner` | wWinMain, FlutterWindow, Win32Window and the window class |
| `WindowTray` | extends it with the queues to and from Dart, prevent-close, the tray and the user |
| `Application` | extends `ConfigManager` with the services (as `ServiceLifecycle`) and the installer |
| `MC...` | the modules TLC runs |
| `ProcessManagerProofs`, `DashboardProofs`, `LifecycleProofs` | theorems about service object and page |
| `ConfigManagerProofs`, `SettingsStoreProofs` | theorems about the settings |
| `HostsManagerProofs`, `ApplicationProofs`, `WindowTrayProofs` | theorems about the rest |

Definitions named as mutants are plausible bugs; the definition after each is
the code's. No specification uses one: replacing the definition by its mutant
must break the property that PROJECT.json pairs it with.

### ProcessManager and Dashboard

An action is the code between two awaits. `startNginx`, `startPHP` and
`startMySQL` are the same code: `Start` (guard and call), `Spawn` or
`StartFails` (what `Process.start` does), `Started` (assignment of the handle
and registration of the exit closure), `ExitCallback`. A stop is `Stop`, then
`TaskKill` or `StopThrows`, then `StopResume`; `stopPHP` has no await, so its
`Stop` is all of it: that is what the constant `TaskKilled` tells apart.
`handle`, `starting`, `resume`, `armed`, `killing` and `killed` are the object
and its suspended calls; `alive` and `worker` are the operating system. `StopAll`
is an action of `PMSpec`, the service object under any caller, although the
application never calls it: it is in the proofs and in no run. `Relaunched` is the end of the application at any
moment and its next launch. A `taskkill` is taken to end no later than the
application that launched it.

`Dashboard` adds the built label (`shown`), a pending frame (`dirty`) and a
history of the last click on Stop. A click acts on the handle as it is, whatever
the button says. Next lets the user click at any time. `PatientNext` is a user
who lets a service settle before Start: none with a call in flight or an exit
closure due. Stop is clicked at any time, in the middle of a start or of another
stop. Clicks of the two users differ in nothing else.

`ServiceLifecycle` and `SettingsStore` state their safety and their fairness as two
formulas each: `FollowsLifecycle` and `ImplementsStore` are the first, which are
proved, `TransitionsEnd` and `SavesEnd` the second, which TLC checks.

### ConfigManager and SettingsStore

Every file operation of `_loadConfig`, `saveConfig` and `_updateNginxConfig` is
an action of the call that awaits it (`pc`), and takes effect when its future
completes. `writeAsString` is two: the open that truncates, and the write, which
`Overlay`s what another call has written since. A call's `buf` is the text it is
about to write: config.json is encoded from `_config` as it is then, not from
the argument, and nginx.conf is rewritten from the text that was read. The
regular expressions replace a port that `\d+` matches and leave any other text
alone, an empty file included. The settings page always starts from the defaults:
its `initState` is what makes the lazily created ConfigManager, whose load has
then not read anything. `Next` clicks Save at any time, `LoadedNext` waits for
the load only, `PatientNext` for every call.

`CanFail` lets every file and registry operation fail, `CanCrash` lets the
application end in the middle of a call. A save whose file operation failed goes
on where the code goes on and still reports success: its `pc` ends in `failed`
instead of `done`. `harm` is a history of the worst that has happened to any
call, cut off or failed: from then on files may disagree until they are written
again, and the properties say what still holds. A negative port is a number to the
page and no port to the pattern: once in nginx.conf it stays there for good, and
`Follows`, which says what nginx.conf owes the settings, is about the others.

`SettingsStore` knows no files: what is stored, what is being saved, what has
been promised. `ImplementsStore` maps `stored` to what the next load will find
(`config.json` if it parses, the defaults otherwise), `saving` to the argument of
the save in flight and `promised` to `acked`.

mysqlPort and enablePrettyUrls are left out: they are fields of config.json like
phpPort, and no other code reads them.

### HostsManager

Only the lookup of the last build exists: a FutureBuilder drops the results of
those before. `LookRead` and `LookScan` are the two halves of
`getMissingDomains`; a read error is an empty text (`LookReadFails`), an error of the
scan no list at all (`LookScanFails`). Nobody can see which of these a card comes
from, so `PatientNext`, a user who waits for the lookup that follows a fix, acts on any;
`unread` and `blind` are histories of the cards and clicks a failed read stands
behind. A fix truncates and writes
the one script file, asks for elevation, reads the script in the elevated shell
and appends. Folder names are sequences of pieces, so that one domain can be the
beginning of another: that is all `contains` can confuse.

`Registration` knows no lookup, card, script or shell: the sites that have an
entry, and the request in progress. `ImplementsRegistration` maps the request to the
list the fix in flight carries, from the click to the append or the failure.

### Runner and WindowTray

The runner has one thread, but its calls nest: `DestroyWindow` sends WM_DESTROY,
whose handler calls `Destroy` again before the outer call goes on, and in a
destructor the virtual call is another function. `stack` is what the thread has
still to run, innermost call first; each step is one action, a call pushes steps,
and "loop" is where it waits for messages. A failed creation replaces the rest by
the destructor. `object` is what is left of the C++ object, `hwnd` and `class` are
Windows, the others are the members of their names. Windows refuses to unregister
the class of a window that exists, and the code does not ask whether it did.
`Arguments` is there for one conversion: the length of an argument minus its
terminator, as an unsigned int.

In `WindowTray`, `calls` are method calls of Dart on their way to the plugins,
`events` those of the plugins on their way to Dart, each queue in order, neither
in order with the other or with WM_CLOSE. The plugin sees WM_CLOSE first and
holds it back once `setPreventClose` has arrived. `dart` and `tray` are how far
`main`, `initState` and `_initSystemTray` are; `main` may throw on the way, and so may
the icon or the menu. `show()` of window_manager 0.5.1 (the version of pubspec.lock; the
plugin is not in the repository) first asks whether the window is minimized: two
calls, the second made when the answer has come back among the events ("notMinimized",
the only answer here, since minimizing is left out). `wish` and `exiting` are
histories of what the user asked, as Windows delivered it, from the first call on. A
request to hide made while a show is still to be called, by the first frame or behind
such an answer, is "crossed": the show comes later, whatever the user meant.

### Application

Where the components meet: a save writes nginx.conf, nginx reads it when it
starts (`served`), PHP is started on the literal port of the dashboard, and an
upgrade replaces files while the services are off and no call is in flight. The
services are taken from `ServiceLifecycle`, which `Dashboard` implements for a
patient user; the settings are `ConfigManager` itself.

## 3. Runs

| Run | Specification and bounds | Shows |
|---|---|---|
| `dash_any_clicks` | `Spec`; nginx, 2 processes, 2 starts and 2 stops in flight | a handle is watched by a closure that will clear it (`HandleWatched`) and never keeps naming a dead process (`ExitObserved`); a Stop that raced no start leaves nothing of the image after its taskkill (`CleanStopSweeps`); a service that is down is shown so (`DownIsShown`) |
| `dash_patient` | `PatientSpec`; nginx and PHP, 2 processes each, 2 calls in flight | the page implements `ServiceLifecycle` (`FollowsLifecycle`), every transition of it ends (`TransitionsEnd`), no process is forgotten (`NoneForgotten`), what runs is shown (`UpIsShown`) |
| `config_patient` | `PatientSpec`, `CanFail`, `CanCrash`; 1 call, 3 ports (one negative), 2 editable fields | the page implements `SettingsStore` (`ImplementsStore`), whose saves end (`SavesEnd`); a reported save survives (`Durable`); the four places agree until something fails or is cut off (`StoresAgree`); a reported save that met no error is in config.json and, as far as nginx.conf can follow, there too (`SavedReaches`); every call ends (`CallsEnd`) |
| `hosts_patient` | `PatientSpec`, 2 folders, one domain the beginning of the other | Fix All implements `Registration` (`ImplementsRegistration`); only a click on the list of a failed hosts read enters a domain again (`NoDuplicates`); an unregistered site is noticed, unless scans fail again and again (`Noticed`) |
| `window_any_user` | `Spec`, `CanFail`; 2 calls and events in flight when the user acts | messages find their objects (`WindowOwned`, `ReadyInLoop`); the loop has a window or WM_QUIT ahead of it, and a chosen Exit is on its way (`NeverStranded`); nothing is left at the end (`CleanExit`); closing only hides (`KeptAlive`); requests to show hold, and so do requests to hide that cross no show (`RequestsHold`); a hidden window can come back (`CanComeBack`); Exit ends (`ExitEnds`); no process without a window (`NoGhost`) |
| `dash_stale_exit` | `Spec`; PHP | violation: the old exit closure clears the new handle |
| `dash_relaunch` | `PatientSpec`; PHP | violation: services outlive the application and are shown as Stopped |
| `config_form` | `PatientSpec`, no failures or crashes | violation: a save resets the fields the user has not touched |
| `config_wiped` | `LoadedSpec`, 2 calls | violation: overlapping saves leave nginx.conf empty |
| `hosts_prefix` | as `hosts_patient` | violation: "All Sites Registered" with a site unregistered |
| `app_php_port` | `AppSpec`, the PHP port edited | violation: nginx passes PHP to a port nobody listens on |
| `app_upgrade` | `AppSpec` | violation: an upgrade replaces saved settings by the shipped ones |

Why these bounds. Two processes of a service are what every race here needs: the
one a call or closure is about, and the one that has replaced it; a third can
only repeat the second. Two calls in flight are an overlap. The services share
no handle, no image and no process, and meet only in the frame, `stopAll` and a
relaunch; nginx has all that any service has (taskkill and workers), PHP is the
one without taskkill, and mysqld differs from nginx in having no worker. Two
values of a port are the default and another one. `Editable` has two fields, one
port (both are treated alike) and the switch with the login entry. Sessions are
not bounded. `MaxQueue` bounds the queues only where the user acts; what start-up
and Dart add is not bounded, and two are enough for any two requests to cross.
`UnsignedRange`, `Memory` and `ArgumentBytes` are small numbers in the order of the
real ones: the wrap of 0 - 1 exceeds the memory, every length does not.

Fairness. Futures complete, the event loop runs what is due, the timer ticks and
a frame that was asked for is built: weak fairness, as Dart and Flutter provide
while the window is visible. Clicks, exits, crashes and relaunches are never
forced. In `HostsManager` the end of a lookup, by its list or by the error of its
scan, has strong fairness: builds come two seconds apart, and the lookup of one
small file and a folder is assumed not to be overtaken by the next build for ever.
In `WindowTray` the thread runs, its loop serves both queues, and Flutter draws a
first frame; the user is free to do nothing, and that `main` does not throw is not
assumed. `CHECK_DEADLOCK FALSE` stands only in `window_any_user`, where the process
ends.

### What the violations mean

* `dash_stale_exit`: Stop and Start of PHP within the time Windows needs to
  report the exit. The new php-cgi runs, the card says Stopped, and Start makes
  another one that finds the port taken.
* `dash_relaunch`: Exit in the tray calls `destroy` only. `stopAll` has no caller.
* `config_form`: save port 8080, restart, open Settings: it shows 80, and saving
  anything writes 80.
* `config_wiped`: two clicks on Save Changes. The second save reads the file the
  first has just truncated. No later save brings it back.
* `hosts_prefix`: a folder `a` next to a registered domain `a.testb.test`.
* `app_php_port`: the settings page offers the port, nginx.conf gets it, and the
  dashboard starts `startPHP('8.4', 9000)`.
* `app_upgrade`: `bin\*` with `ignoreversion` has overwritten config.json before
  the entry that asks whether it exists. The login entry stays: if it was on, the
  setting now reads off, and since a save touches the entry only when the setting
  changes, it takes switching it on, saving, off and saving to remove it.

Known and not run as violations:

* Services: a Start clicked while a stop awaits taskkill, its process already
  gone, is forgotten by that stop; a button that says Stop starts a service that
  has exited since the last build.
* Settings: `saveConfig` reports success after a failed write (`pc` = "failed");
  a negative port is written to nginx.conf and never matched again, so that a save of
  -1 and then of 9000 leaves it there under "Settings Saved & Config Updated"; a crash
  between truncation and write leaves nginx.conf empty for good; all paths are
  relative, so a launch at login, from another directory, finds neither settings
  nor servers.
* Hosts: a second Fix All before the new lookup duplicates entries, and so does one
  click on the list of a failed hosts read, which shows every site as missing; before
  the first lookup of a launch has ended, and after a scan of the folder has failed,
  the card says that all sites are registered.
* Window: a hide soon after a show, or before the first frame (Alt+F4 while Flutter
  draws it), is overtaken by that show, and the window stays; if `main` throws before
  `runApp`, the process runs on with no frame and no icon; if the tray icon or its menu
  cannot be made, nobody catches the error, and a window hidden after that is out of
  reach; the maximize button decides on a state read
  before an await, so that a second fast click repeats the first.
* Runner: `Destroy` inside WM_DESTROY unregisters the class while the window
  exists whenever the destructor destroys a window, against the comment at
  win32_window.cpp:75-76 ("Should only be called if there are no instances of the
  window"); only the outer call's second try succeeds. `child_content_` is never reset.
* Sites page: `folderName` drops every `.test`, so a folder whose name holds it
  is opened under another name.
* Installer: the task "startup" has no entry that carries it out.

## 4. Proofs

TLAPS checks, for every set of services, processes, ports, folders and calls and
every bound:

* `PMTypeCorrect`, `HandleAlwaysWatched` (`ProcessManagerProofs`), under any caller
  and with `StopAll`. HandleWatched is inductive relative to the types.
* `TypeCorrect`, `ApplicationHandleWatched` (`DashboardProofs`), through the
  lemma `DashboardStep`: every step of the page is a step of the service object.
* `CleanStopAlwaysSweeps`. The property alone is not inductive, since a call
  still in `Process.start` would bring the image back; `SweepInv` adds that after
  a clean Stop there is none.
* `PatientNeverForgets`. `OneAtATime` says that there is at most one start call or
  process of the session per service, however many stops overlap, since only
  Starts have to wait.
* `PageFollowsLifecycle` (`LifecycleProofs`): the refinement, step by step.
  `Phase(s)` depends on the variables of s alone, a step touches one service (or
  ends the application), and under `OneAtATime` it skips no phase.
* `ConfigTypeCorrect` (`ConfigManagerProofs`), strengthened by what each call
  holds in `buf` at each await (`Holds`).
* `SavesAreDurable`: `DurableInv` follows the argument of a save from memory to
  config.json, and says that while a report stands only a load runs, which only
  reads.
* `NothingIsInvented`, for clicks at any time and any overlap: take any settings S
  but the default that no click on Save asks for, and no copy is ever in S
  (`Without`). Torn files do not parse, so they never pass for settings.
* `CallsOnlyGetShorter`, for any overlap: each step of a call lowers what it has
  still to do (`Left`), error paths included. With the fairness of each call this is
  what `CallsEnd` is about; the last step, from there to its end, is TLC's.
* `StoresAlwaysAgree`, `SavedAlwaysReaches` (`SettingsStoreProofs`), negative ports
  included, which nginx.conf is excused from giving up. `AgreeInv` says,
  for each await of the one call in flight, which places hold its settings already:
  the files (`FilesInv`) and the login entry (`LoginInv`).
* `PageIsStore`: the refinement of `SettingsStore`, from `DurableInv` and `BootInv`
  (a load and a save are never in flight together).
* `HostsTypeCorrect`, `NeverDuplicated` (`HostsManagerProofs`): the list of a card
  that may be acted on names unregistered domains only, unless a failed read stands
  behind it (`LookInv`), and the one fix in flight carries that list to the file
  (`FixInv`). It needs that a domain is found in its own entry, and not how `contains`
  works otherwise.
* `FixAllIsRegistration`: the refinement of `Registration`. The append is the one
  step that grants; a failure on the way, or a refused prompt, is the refusal.
* `AppTypeCorrect` (`ApplicationProofs`), and `FilesAgreeThroughUpgrades`: memory,
  config.json and nginx.conf agree with nothing in flight, upgrades included.
* `WindowTypeCorrect`, `WindowAlwaysOwned`, `AlwaysReadyInLoop`, `AlwaysCleanExit`
  (`WindowTrayProofs`). The stack is always what is left of one of five step
  lists; `Place` says which, and what holds there. That includes the destructor
  running over a window that is still alive.
* `AlwaysKeptAlive`: `KeptInv` says that the tray is asked for behind
  preventClose in the queue, that a destroy in the queue comes from Exit, and that a
  loop told to end with its window alive was told so by Exit.
* `RequestsAlwaysHold`: `WishInv` follows the last request from the events, through the
  calls, back through the answer of a show, and to the window (`Heading`): what comes
  behind it asks for the same or for neither. Of a hide that was not crossed it says
  that no show is coming (`Still`), neither that of the first frame nor that behind an
  answer.
* `NeverStrandedInLoop`: the loop is entered for the first time with a window, and
  again only from the message that destroyed it. That message has posted WM_QUIT
  before the loop goes on (`StrandInv`, over the places of the stack), and a queue
  that is served from its head loses neither Exit nor destroy.

### What the violations depend on

For most violations a theorem says what it takes, by proving the property without it:

| Violation | Theorem | Without |
|---|---|---|
| `dash_stale_exit` | `PatientNeverForgets` | a Start before the service has settled |
| `dash_relaunch` | `StoppedMeansDownInOneSession` | a relaunch |
| `config_wiped` | `ConfKeptByPatience` | overlapping saves (nor a failure or a cut) |
| `hosts_prefix` | `AllRegisteredOfPlainNames` | a folder name that holds `.test` |
| `app_php_port` | `DefaultPortReached` | an edit of the PHP port |
| `app_upgrade` | `OnlyUpgradesLose` | an upgrade |

`EmptyConfStaysEmpty` is the other side of `config_wiped`: once nothing is in flight
and nginx.conf is empty, nothing the application does ever makes it whole; only an
upgrade does. `OnlyUpgradesPartLogin` is that of what `app_upgrade` leaves behind: the
login entry agrees with the settings as long as there is no upgrade.

### Assumptions, and what is left to TLC

The assumptions are the named ASSUMEs on the constants, which TLC evaluates in
every run, and those a theorem states itself: `PlainNames`,
"phpPort" not in `Editable`. Every invariant and every
action property of a passing run, and the safety of the three refinements, are
proved. Model-checked only, since fairness and ENABLED are out of the prover's reach:
`ExitObserved`, `DownIsShown`, `UpIsShown`, `TransitionsEnd`, `SavesEnd`, `CallsEnd`,
`Noticed`, `CanComeBack`, `ExitEnds`, `NoGhost`. What TLC refutes (`UntouchedKept` of
`config_form`) has no theorem beside it: it fails for the simplest of saves.

## 5. Not modelled

* The sites page: it keeps no state, and the scan it shows is in `HostsManager`.
* Minimizing, maximizing, dragging and the sidebar; sizes, theme, DPI, focus,
  fonts, COM and the console of the runner: no property of the rest depends on
  them. WM_FONTCHANGE is covered as the state its handler finds, in the messages
  the loop dispatches.
* `_initAutoStart`: a save that changes autoStart before `launchAtStartup.setup` has run
  throws, even where the registry would not fail. `CanFail` covers the throw, not its
  cause.
* What `kill()` and `taskkill` report, which the code ignores: a process that may not be
  killed (access denied) survives its Stop; here both always end what they aim at, once
  `taskkill` could be launched.
* The output of the child processes, which nobody reads; what a server does with
  its port beyond reading it; the relative paths; layout and wording; the stock
  widget test, which tests a counter that is not there.
* Icons, tasks and removal of the installer.
* The bundled servers. `bin/mysql/include` holds nearly all lines of C and C++ in
  the repository: headers of MariaDB, shipped beside its binaries and compiled by
  nothing here. The application's own code is Dart, apart from the runner's few
  hundred lines of C++, so the share of the C and C++ lines that is modelled
  stays tiny however much of the application is.

## 6. Plan

Done: the service cards, the settings, the hosts file, the window with its
runner, their meeting points, the safety of each proved, and the three refinements.
What remains is of less weight:

0. Proofs: that the call stack of the runner gets shorter between two messages, the
   safety half of `ExitEnds` and `NoGhost`; a bound on the queues of `WindowTray`.

1. The title bar: minimize, and maximize with its await, as an extension of
   `WindowTray` whose invariants it does not touch.
2. The sites page's way back from domain to folder, as an operator over the folder
   names of `HostsManager`.
3. Launches at login: the working directory as a part of what a session finds.
4. `Application` over `Dashboard` itself instead of its abstraction, if a property
   ever needs a user who does not wait.
