----------------------------- MODULE WindowTray -----------------------------
(***************************************************************************)
(* The window and the tray icon as lib/main.dart handles them, in the      *)
(* native window of Runner.                                                *)
(*                                                                         *)
(* Dart and the plugins (window_manager, system_tray) talk through the     *)
(* engine: calls of Dart wait in one queue for the loop of the runner,     *)
(* events of the plugins in another for Dart.  The X of the title bar and  *)
(* Alt+F4 end in WM_CLOSE.  The plugin sees it before Win32Window does and *)
(* holds it back, but only once setPreventClose has arrived; the listener  *)
(* then hides the window.  After that the tray is the way back, and the    *)
(* only way to end the application.                                        *)
(*                                                                         *)
(* show() of window_manager is two calls: it asks whether the window is    *)
(* minimized and shows it after the answer, which travels with the events. *)
(* Minimizing and maximizing, dragging and the sidebar are left out.       *)
(***************************************************************************)
EXTENDS Runner

CONSTANT MaxQueue  \* bound: calls and events in flight when the user acts

ASSUME QueueAssumption == MaxQueue \in Nat \ {0}

VARIABLES
    dart,     \* main(): "start", "shown" after windowManager.show, "run",
              \* "failed" when it throws before that
    calls,    \* method calls on their way to the plugins
    events,   \* events and answers of the plugins on their way to Dart
    prevent,  \* the plugin holds WM_CLOSE back
    tray,     \* how far _initSystemTray is
    wish,     \* history: what the last request Windows delivered asks for:
              \* "shown", "hidden", or "crossed" if it was to hide while a show
              \* was still to be called
    exiting   \* history: the user has chosen Exit

trayVars == <<dart, calls, events, prevent, tray, wish, exiting>>
vars == <<stack, object, active, registered, class, hwnd, handle, controller,
          content, quitOnClose, quit, frameDue, visible,
          dart, calls, events, prevent, tray, wish, exiting>>

PluginCall == {"isMinimized", "show", "hide", "close", "destroy", "preventClose",
               "initSystemTray", "setContextMenu"}
TrayEvent == {"click", "Show", "Hide", "Exit"}
Event == TrayEvent \cup {"close", "notMinimized"}
TrayStep == {"none", "asked", "icon", "building", "menu", "ready", "failed"}

TypeOK ==
    /\ RunnerTypeOK
    /\ dart \in {"start", "shown", "run", "failed"}
    /\ calls \in Seq(PluginCall)
    /\ events \in Seq(Event)
    /\ prevent \in BOOLEAN
    /\ tray \in TrayStep
    /\ wish \in {"any", "shown", "hidden", "crossed"}
    /\ exiting \in BOOLEAN

Init ==
    /\ RunnerInit
    /\ dart = "start"
    /\ calls = <<>>
    /\ events = <<>>
    /\ prevent = FALSE
    /\ tray = "none"
    /\ wish = "any"
    /\ exiting = FALSE

\* The engine runs the isolate of Dart and carries its messages.
Running == At("loop") /\ controller = "engine"

\* The window is going to be shown by a call that is not made yet: that of a show
\* whose first half has no answer, or that of the first frame.
ShowComing ==
    \/ frameDue
    \/ \E i \in 1 .. Len(events) : events[i] \in {"click", "Show"}
    \/ \E i \in 1 .. Len(calls) : calls[i] = "isMinimized"

WishHidden == wish' = IF ShowComing THEN "crossed" ELSE "hidden"

(***************************************************************************)
(* Dart                                                                    *)
(***************************************************************************)

\* main() up to runApp; nothing before this call matters here, unless it throws.
MainShows ==
    /\ Running
    /\ dart = "start"
    /\ dart' = "shown"
    /\ calls' = Append(calls, "isMinimized")
    /\ UNCHANGED <<runnerVars, events, prevent, tray, wish, exiting>>

\* Then there is never a page, a frame or an icon.
MainThrows ==
    /\ CanFail
    /\ Running
    /\ dart = "start"
    /\ dart' = "failed"
    /\ UNCHANGED <<runnerVars, calls, events, prevent, tray, wish, exiting>>

\* Mutant: the tray is asked for before the plugin is told to prevent closing.
InitStateTrayFirst ==
    /\ Running
    /\ dart = "shown"
    /\ dart' = "run"
    /\ calls' = calls \o <<"initSystemTray", "preventClose">>
    /\ tray' = "asked"
    /\ UNCHANGED <<runnerVars, events, prevent, wish, exiting>>

\* runApp builds the page: initState of MainWindowScaffold.
InitState ==
    /\ Running
    /\ dart = "shown"
    /\ dart' = "run"
    /\ calls' = calls \o <<"preventClose", "initSystemTray">>
    /\ tray' = "asked"
    /\ UNCHANGED <<runnerVars, events, prevent, wish, exiting>>

\* _initSystemTray goes on when its icon is there.
BuildMenu ==
    /\ Running
    /\ tray = "icon"
    /\ tray' = "building"
    /\ calls' = Append(calls, "setContextMenu")
    /\ UNCHANGED <<runnerVars, dart, events, prevent, wish, exiting>>

\* Mutant: nobody listens to the icon.
RegisterForgotten ==
    /\ Running
    /\ tray = "menu"
    /\ UNCHANGED vars

\* Its last step: registerSystemTrayEventHandler.
RegisterHandler ==
    /\ Running
    /\ tray = "menu"
    /\ tray' = "ready"
    /\ UNCHANGED <<runnerVars, dart, calls, events, prevent, wish, exiting>>

\* Mutant: onWindowClose does nothing.
AnswerIgnoresClose(event) ==
    CASE event = "close" -> <<>>
      [] event = "Hide" -> <<"hide">>
      [] event \in {"click", "Show"} -> <<"isMinimized">>
      [] event = "notMinimized" -> <<"show">>
      [] event = "Exit" -> <<"destroy">>

\* Mutant: _closeApp asks the window to close.
AnswerCloses(event) ==
    CASE event \in {"close", "Hide"} -> <<"hide">>
      [] event \in {"click", "Show"} -> <<"isMinimized">>
      [] event = "notMinimized" -> <<"show">>
      [] event = "Exit" -> <<"close">>

\* onWindowClose, the handler of the icon, the items of its menu, _closeApp, and
\* the second half of a show.
Answer(event) ==
    CASE event \in {"close", "Hide"} -> <<"hide">>
      [] event \in {"click", "Show"} -> <<"isMinimized">>
      [] event = "notMinimized" -> <<"show">>
      [] event = "Exit" -> <<"destroy">>

\* Mutant: an event that has been handled takes those behind it along.
HandleEventClears ==
    /\ Running
    /\ events # <<>>
    /\ events' = <<>>
    /\ calls' = calls \o Answer(Head(events))
    /\ UNCHANGED <<runnerVars, dart, prevent, tray, wish, exiting>>

HandleEvent ==
    /\ Running
    /\ events # <<>>
    /\ events' = Tail(events)
    /\ calls' = calls \o Answer(Head(events))
    /\ UNCHANGED <<runnerVars, dart, prevent, tray, wish, exiting>>

Dart == MainShows \/ MainThrows \/ InitState \/ BuildMenu \/ RegisterHandler \/ HandleEvent

(***************************************************************************)
(* The loop of the runner: messages, calls of Dart, the first frame        *)
(***************************************************************************)

\* DestroyWindow called while a message is handled.
Destroyed ==
    /\ Dispatch(<<"WM_DESTROY", "Gone">>)
    /\ hwnd' = "dying"
    /\ UNCHANGED <<object, active, registered, class, handle, controller, content,
                   quitOnClose, quit, frameDue, visible>>

\* FlutterWindow::MessageHandler for WM_CLOSE: the controller hands it to the
\* plugins first; what they leave goes to DefWindowProc, which destroys.
CloseMessage ==
    /\ Running
    /\ hwnd = "alive"
    /\ IF prevent
       THEN /\ events' = Append(events, "close")
            /\ WishHidden
            /\ UNCHANGED runnerVars
       ELSE /\ Destroyed
            /\ UNCHANGED <<events, wish>>

\* Alt+F4, or Close in the taskbar.
AltF4 ==
    /\ visible
    /\ Len(calls) + Len(events) < MaxQueue
    /\ CloseMessage
    /\ UNCHANGED <<dart, calls, prevent, tray, exiting>>

\* The plugins carry out the first call of the queue: what is simply done at once.
PlainCall ==
    /\ Running
    /\ calls # <<>>
    /\ Head(calls) \in {"show", "hide", "preventClose"}
    /\ calls' = Tail(calls)
    /\ visible' = IF Head(calls) = "preventClose" THEN visible ELSE Head(calls) = "show"
    /\ prevent' = (prevent \/ Head(calls) = "preventClose")
    /\ UNCHANGED <<stack, object, active, registered, class, hwnd, handle,
                   controller, content, quitOnClose, quit, frameDue,
                   dart, events, tray, wish, exiting>>

\* The answer to the first half of a show.
QueryCall ==
    /\ Running
    /\ calls # <<>>
    /\ Head(calls) = "isMinimized"
    /\ calls' = Tail(calls)
    /\ events' = Append(events, "notMinimized")
    /\ UNCHANGED <<runnerVars, dart, prevent, tray, wish, exiting>>

\* The tray: an icon, then the menu, or an error that ends _initSystemTray.
TrayCall ==
    /\ Running
    /\ calls # <<>>
    /\ \/ Head(calls) = "initSystemTray" /\ tray' = "icon"
       \/ Head(calls) = "setContextMenu" /\ tray' = "menu"
       \/ /\ CanFail
          /\ Head(calls) \in {"initSystemTray", "setContextMenu"}
          /\ tray' = "failed"
    /\ calls' = Tail(calls)
    /\ UNCHANGED <<runnerVars, dart, events, prevent, wish, exiting>>

\* close() is a WM_CLOSE like any other.
CloseCall ==
    /\ calls # <<>>
    /\ Head(calls) = "close"
    /\ CloseMessage
    /\ calls' = Tail(calls)
    /\ UNCHANGED <<dart, prevent, tray, exiting>>

\* destroy() ends the loop, with the window or before it.
DestroyCalled ==
    /\ Running
    /\ calls # <<>>
    /\ Head(calls) = "destroy"
    /\ calls' = Tail(calls)
    /\ \/ hwnd = "alive" /\ Destroyed
       \/ quit' = TRUE /\ UNCHANGED <<stack, object, active, registered, class, hwnd,
                               handle, controller, content, quitOnClose, frameDue,
                               visible>>
    /\ UNCHANGED <<dart, events, prevent, tray, wish, exiting>>

Plugins == PlainCall \/ QueryCall \/ TrayCall \/ CloseCall \/ DestroyCalled

\* The callback of OnCreate shows the window when Flutter has drawn a frame.
FirstFrame ==
    /\ Running
    /\ dart = "run"
    /\ frameDue
    /\ frameDue' = FALSE
    /\ visible' = (visible \/ handle)
    /\ UNCHANGED <<stack, object, active, registered, class, hwnd, handle,
                   controller, content, quitOnClose, quit, trayVars>>

(***************************************************************************)
(* The user                                                                *)
(***************************************************************************)

\* The X of WindowButtons, there once a frame has been drawn.
ClickX ==
    /\ Running
    /\ visible /\ ~frameDue
    /\ Len(calls) + Len(events) < MaxQueue
    /\ calls' = Append(calls, "close")
    /\ UNCHANGED <<runnerVars, dart, events, prevent, tray, wish, exiting>>

\* The icon, and the items of the menu that a right click on it opens.
UseTray(event) ==
    /\ Running
    /\ tray = "ready"
    /\ Len(calls) + Len(events) < MaxQueue
    /\ events' = Append(events, event)
    /\ CASE event \in {"click", "Show"} -> wish' = "shown" /\ UNCHANGED exiting
         [] event = "Hide" -> WishHidden /\ UNCHANGED exiting
         [] event = "Exit" -> exiting' = TRUE /\ UNCHANGED wish
    /\ UNCHANGED <<runnerVars, dart, calls, prevent, tray>>

User == AltF4 \/ ClickX \/ \E event \in TrayEvent : UseTray(event)

ThreadStep == Thread /\ UNCHANGED trayVars

Next == ThreadStep \/ Dart \/ Plugins \/ FirstFrame \/ User

\* The thread runs and its loop serves both queues; Flutter draws a first frame.
\* The user is free to do nothing.
Fairness ==
    /\ WF_vars(ThreadStep)
    /\ WF_vars(MainShows) /\ WF_vars(InitState)
    /\ WF_vars(BuildMenu) /\ WF_vars(RegisterHandler) /\ WF_vars(HandleEvent)
    /\ WF_vars(Plugins)
    /\ WF_vars(FirstFrame)

Spec == Init /\ [][Next]_vars /\ Fairness

(***************************************************************************)
(* Properties                                                              *)
(***************************************************************************)

\* A message always finds its object: as long as Windows has the window, the
\* object its user data points to exists, a living window is the one of
\* window_handle_, and that handle never outlives its window.
WindowOwned ==
    /\ hwnd # "none" => object # "none"
    /\ hwnd = "alive" => handle
    /\ handle => hwnd # "none"

\* Every message the loop dispatches to the window finds what MessageHandler
\* uses without asking: the controller with its engine and the child; and the
\* loop is never entered by a window that would not end it.
ReadyInLoop ==
    At("loop") /\ hwnd = "alive" =>
        /\ object = "flutter"
        /\ controller = "engine"
        /\ content
        /\ quitOnClose

\* Whatever way wWinMain ends, failures and nested calls of Destroy included,
\* the window, its class, the controller and the object are gone.
CleanExit ==
    stack = <<>> =>
        /\ hwnd = "none" /\ ~handle
        /\ ~class /\ ~registered
        /\ controller = "none" /\ object = "none" /\ active = 0

\* "Prevent app from closing on X": once the icon is there to get it back, the
\* application runs with its window until the user chooses Exit.
KeptAlive ==
    tray \in {"icon", "building", "menu", "ready"} /\ ~exiting =>
        Running /\ hwnd = "alive"

\* With no message on its way, the window is shown if the last request was to show
\* it, whatever was still hiding it then; and hidden if it was to hide it, wherever
\* that came from, unless a show was still to be called: that of the first frame,
\* or one whose first half had no answer, is called behind the hide.
RequestsHold ==
    Running /\ hwnd = "alive" /\ calls = <<>> /\ events = <<>> =>
        /\ wish = "shown" => visible
        /\ wish = "hidden" => ~visible

\* The loop never waits for nothing: it has a window, or WM_QUIT is in its queue;
\* and once Exit has been chosen, either WM_QUIT is there, or the request is still
\* on its way to Dart or to the plugins.
NeverStranded ==
    At("loop") =>
        /\ hwnd = "alive" \/ quit
        /\ exiting => \/ quit
                      \/ \E i \in 1 .. Len(events) : events[i] = "Exit"
                      \/ \E i \in 1 .. Len(calls) : calls[i] = "destroy"

\* A hidden window does not stay out of reach: it is shown, or the icon answers,
\* or the application ends.  (Not if main() threw, or _initSystemTray did.)
CanComeBack ==
    (Running /\ ~visible) ~>
        (visible \/ tray \in {"ready", "failed"} \/ dart = "failed" \/ stack = <<>>)

\* Exit ends the application, whatever else is on its way.
ExitEnds == exiting ~> stack = <<>>

\* No process is left behind without a window.
NoGhost == (hwnd = "none" /\ stack # <<>>) ~> (hwnd = "alive" \/ stack = <<>>)
=============================================================================
