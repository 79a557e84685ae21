------------------------------- MODULE Runner -------------------------------
(***************************************************************************)
(* The Windows runner (windows/runner): wWinMain, the FlutterWindow it     *)
(* makes, its base class Win32Window and the registration of their window  *)
(* class.                                                                  *)
(*                                                                         *)
(* All of it runs on one thread, but not one call after another:           *)
(* DestroyWindow sends WM_DESTROY to the window, whose handler calls       *)
(* Destroy again before the Destroy that called DestroyWindow goes on; in  *)
(* a destructor the same handler is another function, because the object   *)
(* is by then only the base.  So the state has the call stack of the       *)
(* thread: the steps it has still to run, those of the innermost call      *)
(* first.  Between messages the thread waits at "loop".                    *)
(*                                                                         *)
(* Sizes, theme, fonts, COM and the console are left out: nothing here is  *)
(* decided by them.                                                        *)
(***************************************************************************)
EXTENDS Naturals, Sequences

CONSTANTS
    CanFail,       \* the window, the engine or the tray icon may not be made
    UnsignedRange, \* bound: 2^32, the range of unsigned int
    Memory,        \* bound: bytes an allocation can have for certain
    ArgumentBytes  \* what WideCharToMultiByte says of an argument: its length
                   \* with the terminator, 0 if it is not valid UTF-16

ASSUME FailAssumption == CanFail \in BOOLEAN
ASSUME LengthAssumption ==
    /\ UnsignedRange \in Nat /\ Memory \in Nat
    /\ Memory < UnsignedRange - 1
    /\ ArgumentBytes \subseteq 0 .. Memory

VARIABLES
    stack,        \* the steps the thread has still to run
    object,       \* the window object: "none", "flutter", or "base" once only
                  \* its base class is left
    active,       \* g_active_window_count
    registered,   \* class_registered_
    class,        \* Windows: the window class exists
    hwnd,         \* Windows: the top-level window, "none", "alive" or "dying"
    handle,       \* window_handle_ is not null
    controller,   \* flutter_controller_: "none", "engine", or "broken" when it
                  \* has no engine or no view
    content,      \* child_content_ is not null
    quitOnClose,  \* quit_on_close_
    quit,         \* WM_QUIT is in the queue of the thread
    frameDue,     \* the next-frame callback has still to run
    visible       \* Windows: the top-level window is shown

runnerVars == <<stack, object, active, registered, class, hwnd, handle,
                controller, content, quitOnClose, quit, frameDue, visible>>

\* Win32Window::Destroy.
DestroyCall == <<"OnDestroy", "DestroyWindow", "Unregister">>

\* ~FlutterWindow with its members, then ~Win32Window.
DestructCall == <<"Members", "Uncount">> \o DestroyCall \o <<"Freed">>

\* wWinMain, with Create and OnCreate in place.
WinMain ==
    <<"Arguments", "Construct">> \o DestroyCall
        \o <<"GetWindowClass", "CreateWindow", "Controller", "Child",
             "SetQuitOnClose", "loop">>
        \o DestructCall

Step == {"Arguments", "Construct", "OnDestroy", "DestroyWindow", "Unregister",
         "GetWindowClass", "CreateWindow", "Controller", "Child",
         "SetQuitOnClose", "loop", "Members", "Uncount", "Freed",
         "WM_DESTROY", "PostQuit", "Gone", "ForgetHandle"}

RunnerTypeOK ==
    /\ stack \in Seq(Step)
    /\ object \in {"none", "flutter", "base"}
    /\ active \in Nat
    /\ registered \in BOOLEAN
    /\ class \in BOOLEAN
    /\ hwnd \in {"none", "alive", "dying"}
    /\ handle \in BOOLEAN
    /\ controller \in {"none", "engine", "broken"}
    /\ content \in BOOLEAN
    /\ quitOnClose \in BOOLEAN
    /\ quit \in BOOLEAN
    /\ frameDue \in BOOLEAN
    /\ visible \in BOOLEAN

RunnerInit ==
    /\ stack = WinMain
    /\ object = "none"
    /\ active = 0
    /\ registered = FALSE
    /\ class = FALSE
    /\ hwnd = "none"
    /\ handle = FALSE
    /\ controller = "none"
    /\ content = FALSE
    /\ quitOnClose = FALSE
    /\ quit = FALSE
    /\ frameDue = FALSE
    /\ visible = FALSE

At(step) == stack # <<>> /\ Head(stack) = step
Done == stack' = Tail(stack)
Call(steps) == stack' = steps \o Tail(stack)

\* A message the loop dispatches: the steps of its handler, then the loop again.
Dispatch(steps) == At("loop") /\ stack' = steps \o stack

(***************************************************************************)
(* Starting                                                                *)
(***************************************************************************)

\* target_length in Utf8FromUtf16: the terminator is taken off without sign.
TargetLength(bytes) == (bytes + UnsignedRange - 1) % UnsignedRange

\* GetCommandLineArguments, for the argument that matters most.  One that is not
\* UTF-16 asks for an allocation as long as unsigned int allows; where that
\* throws, the process is gone before it has made anything.
Arguments ==
    /\ At("Arguments")
    /\ \E bytes \in ArgumentBytes :
        Done \/ (TargetLength(bytes) > Memory /\ stack' = <<>>)
    /\ UNCHANGED <<object, active, registered, class, hwnd, handle, controller,
                   content, quitOnClose, quit, frameDue, visible>>

\* Mutant: the constructor does not count the window.
ConstructUncounted ==
    /\ At("Construct") /\ Done
    /\ object' = "flutter"
    /\ UNCHANGED <<active, registered, class, hwnd, handle, controller, content,
                   quitOnClose, quit, frameDue, visible>>

Construct ==
    /\ At("Construct") /\ Done
    /\ object' = "flutter"
    /\ active' = active + 1
    /\ UNCHANGED <<registered, class, hwnd, handle, controller, content,
                   quitOnClose, quit, frameDue, visible>>

GetWindowClass ==
    /\ At("GetWindowClass") /\ Done
    /\ registered' = TRUE
    /\ class' = (class \/ ~registered)
    /\ UNCHANGED <<object, active, hwnd, handle, controller, content,
                   quitOnClose, quit, frameDue, visible>>

\* WM_NCCREATE gives the window its object and the object its handle; the other
\* messages of the creation find no controller and no child.  Without a window
\* Create returns false and wWinMain fails.
CreateWindow ==
    /\ At("CreateWindow")
    /\ \/ class /\ hwnd' = "alive" /\ handle' = TRUE /\ Done
       \/ (CanFail \/ ~class) /\ stack' = DestructCall /\ UNCHANGED <<hwnd, handle>>
    /\ UNCHANGED <<object, active, registered, class, controller, content,
                   quitOnClose, quit, frameDue, visible>>

\* Mutant: OnCreate does not look whether there is an engine.
ControllerUnchecked ==
    /\ At("Controller") /\ Done
    /\ \/ controller' = "engine"
       \/ CanFail /\ controller' = "broken"
    /\ UNCHANGED <<object, active, registered, class, hwnd, handle, content,
                   quitOnClose, quit, frameDue, visible>>

\* FlutterWindow::OnCreate makes the controller and fails if it is no good.
Controller ==
    /\ At("Controller")
    /\ \/ controller' = "engine" /\ Done
       \/ CanFail /\ controller' = "broken" /\ stack' = DestructCall
    /\ UNCHANGED <<object, active, registered, class, hwnd, handle, content,
                   quitOnClose, quit, frameDue, visible>>

\* SetChildContent, and the callback that will show the window.
Child ==
    /\ At("Child") /\ Done
    /\ content' = TRUE
    /\ frameDue' = TRUE
    /\ UNCHANGED <<object, active, registered, class, hwnd, handle, controller,
                   quitOnClose, quit, visible>>

\* Mutant: wWinMain does not ask for it.
SetQuitOnCloseForgotten ==
    /\ At("SetQuitOnClose") /\ Done
    /\ UNCHANGED <<object, active, registered, class, hwnd, handle, controller,
                   content, quitOnClose, quit, frameDue, visible>>

SetQuitOnClose ==
    /\ At("SetQuitOnClose") /\ Done
    /\ quitOnClose' = TRUE
    /\ UNCHANGED <<object, active, registered, class, hwnd, handle, controller,
                   content, quit, frameDue, visible>>

\* GetMessage returns 0, and wWinMain leaves the scope of the window.
LoopEnds ==
    /\ At("loop") /\ Done
    /\ quit
    /\ quit' = FALSE
    /\ UNCHANGED <<object, active, registered, class, hwnd, handle, controller,
                   content, quitOnClose, frameDue, visible>>

(***************************************************************************)
(* Destroy, called by Create, by WM_DESTROY and by the destructor          *)
(***************************************************************************)

\* The call is virtual: what is only a base has no controller to release.
OnDestroy ==
    /\ At("OnDestroy") /\ Done
    /\ controller' = IF object = "flutter" THEN "none" ELSE controller
    /\ UNCHANGED <<object, active, registered, class, hwnd, handle, content,
                   quitOnClose, quit, frameDue, visible>>

\* DestroyWindow sends WM_DESTROY and returns when the window is gone; the
\* assignment behind it comes after that.
DestroyWindow ==
    /\ At("DestroyWindow")
    /\ IF handle
       THEN Call(<<"WM_DESTROY", "Gone", "ForgetHandle">>) /\ hwnd' = "dying"
       ELSE Done /\ UNCHANGED hwnd
    /\ UNCHANGED <<object, active, registered, class, handle, controller, content,
                   quitOnClose, quit, frameDue, visible>>

\* Mutant: the handler leaves window_handle_ to Destroy.
WmDestroyKeepsHandle ==
    /\ At("WM_DESTROY")
    /\ Call(<<"OnDestroy", "Unregister", "PostQuit">>)
    /\ UNCHANGED <<object, active, registered, class, hwnd, handle, controller,
                   content, quitOnClose, quit, frameDue, visible>>

\* The handler of WM_DESTROY: no handle any more, and Destroy once more.
WmDestroy ==
    /\ At("WM_DESTROY")
    /\ Call(DestroyCall \o <<"PostQuit">>)
    /\ handle' = FALSE
    /\ UNCHANGED <<object, active, registered, class, hwnd, controller, content,
                   quitOnClose, quit, frameDue, visible>>

PostQuit ==
    /\ At("PostQuit") /\ Done
    /\ quit' = (quit \/ quitOnClose)
    /\ UNCHANGED <<object, active, registered, class, hwnd, handle, controller,
                   content, quitOnClose, frameDue, visible>>

Gone ==
    /\ At("Gone") /\ Done
    /\ hwnd' = "none"
    /\ visible' = FALSE
    /\ UNCHANGED <<object, active, registered, class, handle, controller, content,
                   quitOnClose, quit, frameDue>>

ForgetHandle ==
    /\ At("ForgetHandle") /\ Done
    /\ handle' = FALSE
    /\ UNCHANGED <<object, active, registered, class, hwnd, controller, content,
                   quitOnClose, quit, frameDue, visible>>

\* Windows refuses to unregister the class of a window that exists; the
\* registrar does not ask.
Unregister ==
    /\ At("Unregister") /\ Done
    /\ registered' = (registered /\ active > 0)
    /\ class' = (class /\ (active > 0 \/ hwnd # "none"))
    /\ UNCHANGED <<object, active, hwnd, handle, controller, content, quitOnClose,
                   quit, frameDue, visible>>

(***************************************************************************)
(* The end of the object                                                   *)
(***************************************************************************)

\* ~FlutterWindow: the controller, a member, goes before the base class does.
Members ==
    /\ At("Members") /\ Done
    /\ controller' = "none"
    /\ object' = "base"
    /\ UNCHANGED <<active, registered, class, hwnd, handle, content, quitOnClose,
                   quit, frameDue, visible>>

\* Mutant: the destructor does not count the window out.
UncountForgotten ==
    /\ At("Uncount") /\ Done
    /\ UNCHANGED <<object, active, registered, class, hwnd, handle, controller,
                   content, quitOnClose, quit, frameDue, visible>>

Uncount ==
    /\ At("Uncount") /\ Done
    /\ active' = active - 1
    /\ UNCHANGED <<object, registered, class, hwnd, handle, controller, content,
                   quitOnClose, quit, frameDue, visible>>

Freed ==
    /\ At("Freed") /\ Done
    /\ object' = "none"
    /\ UNCHANGED <<active, registered, class, hwnd, handle, controller, content,
                   quitOnClose, quit, frameDue, visible>>

\* Everything the thread does by itself.
Thread ==
    \/ Arguments \/ Construct \/ GetWindowClass \/ CreateWindow
    \/ Controller \/ Child \/ SetQuitOnClose \/ LoopEnds
    \/ OnDestroy \/ DestroyWindow \/ WmDestroy \/ PostQuit \/ Gone
    \/ ForgetHandle \/ Unregister
    \/ Members \/ Uncount \/ Freed
=============================================================================
