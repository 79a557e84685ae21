-------------------------- MODULE WindowTrayProofs --------------------------
(***************************************************************************)
(* What holds of WindowTray for every bound on the calls and events in     *)
(* flight, every range of unsigned int and every length of an argument.    *)
(*                                                                         *)
(* The call stack of the runner is always what is left of one of five step *)
(* lists: wWinMain, or one of the ways in which the window is destroyed    *)
(* while wWinMain is in its loop or in the destructor.  Place says where   *)
(* the thread is and what holds there.                                     *)
(*                                                                         *)
(* KeptInv then orders what is queued, for KeptAlive, and WishInv follows  *)
(* the last request through the queues, for RequestsHold.  StrandInv says  *)
(* that the message that destroys the window in the loop has posted        *)
(* WM_QUIT before it returns, for NeverStranded.                           *)
(***************************************************************************)
EXTENDS WindowTray, SequenceTheorems, TLAPS

(***************************************************************************)
(* Step lists                                                              *)
(***************************************************************************)

\* s is what is left of prog from its step k on.
Left(s, prog, k) ==
    /\ s \in Seq(Step)
    /\ Len(s) = Len(prog) - k + 1
    /\ \A i \in 1 .. Len(s) : s[i] = prog[k + i - 1]

On(prog, k) == Left(stack, prog, k)

\* WM_DESTROY dispatched by the loop, or sent by the destructor; then the handler.
LoopMessage ==
    <<"WM_DESTROY", "Gone", "loop", "Members", "Uncount",
      "OnDestroy", "DestroyWindow", "Unregister", "Freed">>
InLoop ==
    <<"OnDestroy", "DestroyWindow", "Unregister", "PostQuit", "Gone",
      "loop", "Members", "Uncount", "OnDestroy", "DestroyWindow", "Unregister", "Freed">>
EndMessage == <<"WM_DESTROY", "Gone", "ForgetHandle", "Unregister", "Freed">>
InEnd ==
    <<"OnDestroy", "DestroyWindow", "Unregister", "PostQuit", "Gone",
      "ForgetHandle", "Unregister", "Freed">>

LEMMA WinMainIs ==
    /\ WinMain \in Seq(Step) /\ Len(WinMain) = 17
    /\ WinMain[1] = "Arguments" /\ WinMain[2] = "Construct"
    /\ WinMain[3] = "OnDestroy" /\ WinMain[4] = "DestroyWindow"
    /\ WinMain[5] = "Unregister" /\ WinMain[6] = "GetWindowClass"
    /\ WinMain[7] = "CreateWindow" /\ WinMain[8] = "Controller"
    /\ WinMain[9] = "Child" /\ WinMain[10] = "SetQuitOnClose"
    /\ WinMain[11] = "loop" /\ WinMain[12] = "Members"
    /\ WinMain[13] = "Uncount" /\ WinMain[14] = "OnDestroy"
    /\ WinMain[15] = "DestroyWindow" /\ WinMain[16] = "Unregister"
    /\ WinMain[17] = "Freed"
<1>1. DestroyCall \in Seq(Step)
  BY DEF DestroyCall, Step
<1>2. DestructCall \in Seq(Step)
  BY <1>1 DEF DestructCall, Step
<1>3. WinMain \in Seq(Step)
  BY <1>1, <1>2 DEF WinMain, Step
<1>4. Len(WinMain) = 17
  BY DEF WinMain, DestructCall, DestroyCall
<1> QED
  BY <1>3, <1>4 DEF WinMain, DestructCall, DestroyCall

LEMMA DestructIs ==
    /\ DestructCall \in Seq(Step) /\ Len(DestructCall) = 6
    /\ \A i \in 1 .. 6 : DestructCall[i] = WinMain[11 + i]
<1>1. DestructCall \in Seq(Step) /\ Len(DestructCall) = 6
  BY DEF DestructCall, DestroyCall, Step
<1>2. /\ DestructCall[1] = "Members" /\ DestructCall[2] = "Uncount"
      /\ DestructCall[3] = "OnDestroy" /\ DestructCall[4] = "DestroyWindow"
      /\ DestructCall[5] = "Unregister" /\ DestructCall[6] = "Freed"
  BY DEF DestructCall, DestroyCall
<1> QED
  BY <1>1, <1>2, WinMainIs

LEMMA ProgramsAre ==
    /\ InLoop \in Seq(Step) /\ Len(InLoop) = 12
    /\ InEnd \in Seq(Step) /\ Len(InEnd) = 8
    /\ LoopMessage \in Seq(Step) /\ Len(LoopMessage) = 9
    /\ EndMessage \in Seq(Step) /\ Len(EndMessage) = 5
<1> USE DEF Step
<1>1. InLoop \in Seq(Step) /\ Len(InLoop) = 12
  BY DEF InLoop
<1>2. InEnd \in Seq(Step) /\ Len(InEnd) = 8
  BY DEF InEnd
<1>3. LoopMessage \in Seq(Step) /\ Len(LoopMessage) = 9
  BY DEF LoopMessage
<1>4. EndMessage \in Seq(Step) /\ Len(EndMessage) = 5
  BY DEF EndMessage
<1> QED
  BY <1>1, <1>2, <1>3, <1>4



\* A step that is done leaves the rest of its list.
LEMMA HeadIs ==
    ASSUME NEW prog \in Seq(Step), NEW k \in 1 .. Len(prog), On(prog, k)
    PROVE  /\ stack # <<>> /\ Head(stack) = prog[k]
           /\ Left(Tail(stack), prog, k + 1)
<1>1. stack # <<>> /\ Head(stack) = prog[k]
  BY DEF On, Left
<1>2. Tail(stack) \in Seq(Step) /\ Len(Tail(stack)) = Len(stack) - 1
  BY <1>1 DEF On, Left
<1>3. \A i \in 1 .. Len(Tail(stack)) : Tail(stack)[i] = stack[i + 1]
  BY <1>1, <1>2 DEF On, Left
<1> QED
  BY <1>1, <1>2, <1>3 DEF On, Left

LEMMA DoneIs ==
    ASSUME NEW prog \in Seq(Step), NEW k \in 1 .. Len(prog), On(prog, k), Done
    PROVE  On(prog, k + 1)'
<1>1. Left(Tail(stack), prog, k + 1)
  BY HeadIs
<1> QED
  BY <1>1 DEF Done, On, Left

\* Steps put on top of the rest of one list are another list, if they read so.
LEMMA Pushed ==
    ASSUME NEW prog \in Seq(Step), NEW k \in 1 .. Len(prog) + 1,
           NEW rest, Left(rest, prog, k),
           NEW top \in Seq(Step), stack' = top \o rest,
           NEW whole \in Seq(Step), Len(whole) = Len(top) + Len(prog) - k + 1,
           \A i \in 1 .. Len(top) : whole[i] = top[i],
           \A i \in k .. Len(prog) : whole[Len(top) + i - k + 1] = prog[i]
    PROVE  On(whole, 1)'
<1>1. rest \in Seq(Step) /\ Len(rest) = Len(prog) - k + 1
  BY DEF Left
<1>2. /\ stack' \in Seq(Step) /\ Len(stack') = Len(top) + Len(rest)
      /\ \A i \in 1 .. Len(stack') :
            stack'[i] = IF i <= Len(top) THEN top[i] ELSE rest[i - Len(top)]
  <2>1. /\ top \o rest \in Seq(Step)
        /\ Len(top \o rest) = Len(top) + Len(rest)
        /\ \A i \in 1 .. Len(top) + Len(rest) :
              (top \o rest)[i] = IF i <= Len(top) THEN top[i] ELSE rest[i - Len(top)]
    BY <1>1, ConcatProperties
  <2> QED
    BY <2>1
<1>3. ASSUME NEW i \in 1 .. Len(stack') PROVE stack'[i] = whole[i]
  <2>1. CASE i <= Len(top)
    BY <1>1, <1>2, <2>1
  <2>2. CASE i > Len(top)
    <3>1. stack'[i] = rest[i - Len(top)] /\ i - Len(top) \in 1 .. Len(rest)
      BY <1>1, <1>2, <2>2
    <3>2. rest[i - Len(top)] = prog[k + i - Len(top) - 1]
      BY <3>1 DEF Left
    <3>3. k + i - Len(top) - 1 \in k .. Len(prog)
      <4>1. Len(top) \in Nat /\ Len(prog) \in Nat /\ k \in Nat
        OBVIOUS
      <4>2. i - Len(top) >= 1 /\ i - Len(top) <= Len(prog) - k + 1
        BY <1>1, <3>1
      <4> QED
        BY <4>1, <4>2
    <3> QED
      BY <3>1, <3>2, <3>3
  <2> QED
    BY <2>1, <2>2
<1> QED
  BY <1>2, <1>3 DEF On, Left

\* Two lists that end alike are the same from there on.
LEMMA SameEnd ==
    ASSUME NEW prog \in Seq(Step), NEW k \in 1 .. Len(prog),
           NEW other \in Seq(Step), NEW m \in 1 .. Len(other),
           Len(prog) - k = Len(other) - m,
           \A i \in 1 .. Len(prog) - k + 1 : prog[k + i - 1] = other[m + i - 1],
           On(prog, k)
    PROVE  On(other, m)
<1>1. stack \in Seq(Step) /\ Len(stack) = Len(prog) - k + 1
  BY DEF On, Left
<1>2. Len(stack) = Len(other) - m + 1
  BY <1>1
<1>3. ASSUME NEW i \in 1 .. Len(stack) PROVE stack[i] = other[m + i - 1]
  <2>1. stack[i] = prog[k + i - 1]
    BY <1>3 DEF On, Left
  <2> QED
    BY <1>1, <2>1
<1> QED
  BY <1>1, <1>2, <1>3 DEF On, Left

LEMMA BackInLoop == On(InLoop, 6) => On(WinMain, 11)
<1>1. InLoop \in Seq(Step) /\ 6 \in 1 .. Len(InLoop) /\ Len(InLoop) - 6 + 1 = 7
  BY ProgramsAre
<1>2. WinMain \in Seq(Step) /\ 11 \in 1 .. Len(WinMain) /\ Len(InLoop) - 6 = Len(WinMain) - 11
  BY ProgramsAre, WinMainIs
<1>3. \A i \in 1 .. 7 : InLoop[6 + i - 1] = WinMain[11 + i - 1]
  BY WinMainIs DEF InLoop
<1> QED
  BY <1>1, <1>2, <1>3, SameEnd

LEMMA BackInEnd == On(InEnd, 7) => On(WinMain, 16)
<1>1. InEnd \in Seq(Step) /\ 7 \in 1 .. Len(InEnd) /\ Len(InEnd) - 7 + 1 = 2
  BY ProgramsAre
<1>2. WinMain \in Seq(Step) /\ 16 \in 1 .. Len(WinMain) /\ Len(InEnd) - 7 = Len(WinMain) - 16
  BY ProgramsAre, WinMainIs
<1>3. \A i \in 1 .. 2 : InEnd[7 + i - 1] = WinMain[16 + i - 1]
  BY WinMainIs DEF InEnd
<1> QED
  BY <1>1, <1>2, <1>3, SameEnd

LEMMA LoopSends ==
    ASSUME On(WinMain, 11), Dispatch(<<"WM_DESTROY", "Gone">>)
    PROVE  On(LoopMessage, 1)'
<1> DEFINE top == <<"WM_DESTROY", "Gone">>
<1>1. top \in Seq(Step) /\ Len(top) = 2
  BY DEF Step
<1>2. /\ \A i \in 1 .. Len(top) : LoopMessage[i] = top[i]
      /\ \A i \in 11 .. Len(WinMain) : LoopMessage[Len(top) + i - 11 + 1] = WinMain[i]
  BY WinMainIs, <1>1 DEF LoopMessage
<1>3. WinMain \in Seq(Step) /\ 11 \in 1 .. Len(WinMain) + 1 /\ Left(stack, WinMain, 11)
  BY WinMainIs DEF On
<1>4. LoopMessage \in Seq(Step) /\ Len(LoopMessage) = Len(top) + Len(WinMain) - 11 + 1
  BY <1>1, ProgramsAre, WinMainIs
<1>5. stack' = top \o stack
  BY DEF Dispatch
<1> HIDE DEF top
<1> QED
  BY <1>1, <1>2, <1>3, <1>4, <1>5, Pushed

LEMMA EndSends ==
    ASSUME On(WinMain, 15), Call(<<"WM_DESTROY", "Gone", "ForgetHandle">>)
    PROVE  On(EndMessage, 1)'
<1> DEFINE top == <<"WM_DESTROY", "Gone", "ForgetHandle">>
<1>1. top \in Seq(Step) /\ Len(top) = 3
  BY DEF Step
<1>2. /\ \A i \in 1 .. Len(top) : EndMessage[i] = top[i]
      /\ \A i \in 16 .. Len(WinMain) : EndMessage[Len(top) + i - 16 + 1] = WinMain[i]
  BY WinMainIs, <1>1 DEF EndMessage
<1>3. WinMain \in Seq(Step) /\ 16 \in 1 .. Len(WinMain) + 1 /\ Left(Tail(stack), WinMain, 16)
  <2>1. WinMain \in Seq(Step) /\ 15 \in 1 .. Len(WinMain)
    BY WinMainIs
  <2>2. Left(Tail(stack), WinMain, 15 + 1)
    BY <2>1, HeadIs
  <2> QED
    BY <2>1, <2>2
<1>4. EndMessage \in Seq(Step) /\ Len(EndMessage) = Len(top) + Len(WinMain) - 16 + 1
  BY <1>1, ProgramsAre, WinMainIs
<1>5. stack' = top \o Tail(stack)
  BY DEF Call
<1> HIDE DEF top
<1> QED
  BY <1>1, <1>2, <1>3, <1>4, <1>5, Pushed

\* The steps of the handler of WM_DESTROY.
LEMMA HandlerIs ==
    LET top == DestroyCall \o <<"PostQuit">> IN
    /\ top \in Seq(Step) /\ Len(top) = 4
    /\ top[1] = "OnDestroy" /\ top[2] = "DestroyWindow"
    /\ top[3] = "Unregister" /\ top[4] = "PostQuit"
<1>1. DestroyCall \in Seq(Step) /\ <<"PostQuit">> \in Seq(Step)
  BY DEF DestroyCall, Step
<1>2. DestroyCall \o <<"PostQuit">> \in Seq(Step)
  BY <1>1
<1> QED
  BY <1>2 DEF DestroyCall

LEMMA LoopHandles ==
    ASSUME On(LoopMessage, 1), Call(DestroyCall \o <<"PostQuit">>)
    PROVE  On(InLoop, 1)'
<1> DEFINE top == DestroyCall \o <<"PostQuit">>
<1>1. /\ top \in Seq(Step) /\ Len(top) = 4
      /\ top[1] = "OnDestroy" /\ top[2] = "DestroyWindow"
      /\ top[3] = "Unregister" /\ top[4] = "PostQuit"
  BY HandlerIs
<1>5. stack' = top \o Tail(stack)
  BY DEF Call
<1> HIDE DEF top
<1>2. /\ \A i \in 1 .. Len(top) : InLoop[i] = top[i]
      /\ \A i \in 2 .. Len(LoopMessage) : InLoop[Len(top) + i - 2 + 1] = LoopMessage[i]
  BY ProgramsAre, <1>1 DEF InLoop, LoopMessage
<1>3. /\ LoopMessage \in Seq(Step) /\ 2 \in 1 .. Len(LoopMessage) + 1
      /\ Left(Tail(stack), LoopMessage, 2)
  <2>1. LoopMessage \in Seq(Step) /\ 1 \in 1 .. Len(LoopMessage)
    BY ProgramsAre
  <2>2. Left(Tail(stack), LoopMessage, 1 + 1)
    BY <2>1, HeadIs
  <2> QED
    BY <2>1, <2>2
<1>4. InLoop \in Seq(Step) /\ Len(InLoop) = Len(top) + Len(LoopMessage) - 2 + 1
  BY <1>1, ProgramsAre
<1> QED
  BY <1>1, <1>2, <1>3, <1>4, <1>5, Pushed

LEMMA EndHandles ==
    ASSUME On(EndMessage, 1), Call(DestroyCall \o <<"PostQuit">>)
    PROVE  On(InEnd, 1)'
<1> DEFINE top == DestroyCall \o <<"PostQuit">>
<1>1. /\ top \in Seq(Step) /\ Len(top) = 4
      /\ top[1] = "OnDestroy" /\ top[2] = "DestroyWindow"
      /\ top[3] = "Unregister" /\ top[4] = "PostQuit"
  BY HandlerIs
<1>5. stack' = top \o Tail(stack)
  BY DEF Call
<1> HIDE DEF top
<1>2. /\ \A i \in 1 .. Len(top) : InEnd[i] = top[i]
      /\ \A i \in 2 .. Len(EndMessage) : InEnd[Len(top) + i - 2 + 1] = EndMessage[i]
  BY ProgramsAre, <1>1 DEF InEnd, EndMessage
<1>3. /\ EndMessage \in Seq(Step) /\ 2 \in 1 .. Len(EndMessage) + 1
      /\ Left(Tail(stack), EndMessage, 2)
  <2>1. EndMessage \in Seq(Step) /\ 1 \in 1 .. Len(EndMessage)
    BY ProgramsAre
  <2>2. Left(Tail(stack), EndMessage, 1 + 1)
    BY <2>1, HeadIs
  <2> QED
    BY <2>1, <2>2
<1>4. InEnd \in Seq(Step) /\ Len(InEnd) = Len(top) + Len(EndMessage) - 2 + 1
  BY <1>1, ProgramsAre
<1> QED
  BY <1>1, <1>2, <1>3, <1>4, <1>5, Pushed

\* wWinMain leaves the scope of the window early, or everything.
LEMMA Leaves == ASSUME stack' = DestructCall PROVE On(WinMain, 12)'
<1>1. \A i \in 1 .. 6 : DestructCall[i] = WinMain[12 + i - 1]
  BY DestructIs, WinMainIs
<1> QED
  BY <1>1, DestructIs, WinMainIs DEF On, Left

LEMMA Stops == ASSUME stack' = <<>> PROVE On(WinMain, 18)'
  BY WinMainIs DEF On, Left

(***************************************************************************)
(* Where the thread is, and what holds there                               *)
(***************************************************************************)

\* Before wWinMain has reached its loop, Dart has not run.
Young ==
    /\ dart = "start" /\ tray = "none" /\ ~prevent /\ ~exiting /\ wish = "any"
    /\ calls = <<>> /\ events = <<>>
    /\ ~quit /\ (~frameDue => ~content)

InMain(k) ==
    /\ object = IF k \in 3 .. 12 THEN "flutter" ELSE IF k \in 13 .. 17 THEN "base" ELSE "none"
    /\ active = IF k \in 3 .. 13 THEN 1 ELSE 0
    /\ k \notin 3 .. 16 => ~registered /\ ~class
    /\ hwnd \in {"none", "alive"}
    /\ handle <=> hwnd = "alive"
    /\ k \notin 8 .. 15 => hwnd = "none"
    /\ k \in 8 .. 10 => hwnd = "alive" /\ Young
    /\ k <= 7 => Young
    /\ k \notin 9 .. 12 => controller = IF k = 11 /\ hwnd = "alive" THEN "engine" ELSE "none"
    /\ k \in 9 .. 10 => controller = "engine"
    /\ k = 11 => controller = IF hwnd = "alive" THEN "engine" ELSE "none"
    /\ k \in 10 .. 11 => content
    /\ k = 11 => quitOnClose

\* The window is being destroyed while wWinMain is in its loop.
Closing == hwnd = "dying" /\ object = "flutter" /\ active = 1

\* It is being destroyed by the destructor of the base class.
Ending == object = "base" /\ active = 0 /\ controller = "none"

Place ==
    \/ \E k \in 1 .. 18 : On(WinMain, k) /\ InMain(k)
    \/ On(LoopMessage, 1) /\ Closing /\ content /\ quitOnClose
    \/ \E k \in 1 .. 5 : /\ On(InLoop, k) /\ Closing /\ content /\ quitOnClose
                         /\ ~handle /\ (k > 1 => controller = "none")
    \/ On(EndMessage, 1) /\ Ending /\ hwnd = "dying"
    \/ \E k \in 1 .. 6 : /\ On(InEnd, k) /\ Ending /\ ~handle
                         /\ hwnd = IF k = 6 THEN "none" ELSE "dying"

\* What the thread is about to do tells where it is.
LEMMA MainHead ==
    ASSUME NEW k \in 1 .. 18, On(WinMain, k)
    PROVE  /\ k = 18 <=> stack = <<>>
           /\ k < 18 => Head(stack) = WinMain[k] /\ (Done => On(WinMain, k + 1)')
<1>1. CASE k = 18
  <2>1. Len(stack) = 0 /\ stack \in Seq(Step)
    BY <1>1, WinMainIs DEF On, Left
  <2> QED
    BY <1>1, <2>1
<1>2. CASE k < 18
  <2>1. WinMain \in Seq(Step) /\ k \in 1 .. Len(WinMain)
    BY <1>2, WinMainIs
  <2> QED
    BY <1>2, <2>1, HeadIs, DoneIs
<1> QED
  BY <1>1, <1>2

\* wWinMain and the destructors, with nothing nested.
LEMMA MainStep ==
    ASSUME NEW k \in 1 .. 18, On(WinMain, k), InMain(k), ThreadStep
    PROVE  Place'
<1> USE DEF InMain, Young
<1>u. UNCHANGED trayVars
  BY DEF ThreadStep
<1>n. /\ UNCHANGED <<dart, calls, events, prevent, tray, wish, exiting>>
  BY <1>u DEF trayVars
<1>0. k < 18 /\ Head(stack) = WinMain[k] /\ (Done => On(WinMain, k + 1)')
  BY MainHead DEF ThreadStep, Thread, At, Arguments, Construct, GetWindowClass, CreateWindow,
     Controller, Child, SetQuitOnClose, LoopEnds, OnDestroy, DestroyWindow, WmDestroy,
     PostQuit, Gone, ForgetHandle, Unregister, Members, Uncount, Freed
<1>d. ASSUME Done, InMain(k + 1)' PROVE Place'
  <2>1. k + 1 \in 1 .. 18 /\ On(WinMain, k + 1)'
    BY <1>0, <1>d
  <2> QED
    BY <1>d, <2>1 DEF Place
<1>1. CASE Arguments
  <2>1. k = 1
    BY <1>0, <1>1, WinMainIs DEF Arguments, At
  <2>2. CASE Done
    BY <1>1, <1>d, <1>n, <2>1, <2>2 DEF Arguments
  <2>3. CASE stack' = <<>>
    BY <1>1, <1>n, <2>1, <2>3, Stops DEF Arguments, Place
  <2> QED
    BY <1>1, <2>2, <2>3 DEF Arguments
<1>2. CASE Construct
  BY <1>0, <1>2, <1>d, <1>n, WinMainIs DEF Construct, At
<1>3. CASE GetWindowClass
  BY <1>0, <1>3, <1>d, <1>n, WinMainIs DEF GetWindowClass, At
<1>4. CASE CreateWindow
  <2>1. k = 7
    BY <1>0, <1>4, WinMainIs DEF CreateWindow, At
  <2>2. CASE Done /\ hwnd' = "alive" /\ handle' = TRUE
    BY <1>4, <1>d, <1>n, <2>1, <2>2 DEF CreateWindow
  <2>3. CASE stack' = DestructCall /\ UNCHANGED <<hwnd, handle>>
    <3>1. InMain(12)'
      BY <1>4, <2>1, <2>3 DEF CreateWindow
    <3> QED
      BY <2>3, <3>1, Leaves DEF Place
  <2> QED
    BY <1>4, <2>2, <2>3 DEF CreateWindow
<1>5. CASE Controller
  <2>1. k = 8
    BY <1>0, <1>5, WinMainIs DEF Controller, At
  <2>2. CASE Done /\ controller' = "engine"
    BY <1>5, <1>d, <1>n, <2>1, <2>2 DEF Controller
  <2>3. CASE stack' = DestructCall
    <3>1. InMain(12)'
      BY <1>5, <2>1, <2>3 DEF Controller
    <3> QED
      BY <2>3, <3>1, Leaves DEF Place
  <2> QED
    BY <1>5, <2>2, <2>3 DEF Controller
<1>6. CASE Child
  BY <1>0, <1>6, <1>d, <1>n, WinMainIs DEF Child, At
<1>7. CASE SetQuitOnClose
  BY <1>0, <1>7, <1>d, <1>n, WinMainIs DEF SetQuitOnClose, At
<1>8. CASE LoopEnds
  BY <1>0, <1>8, <1>d, <1>n, WinMainIs DEF LoopEnds, At
<1>9. CASE OnDestroy
  BY <1>0, <1>9, <1>d, <1>n, WinMainIs DEF OnDestroy, At
<1>10. CASE DestroyWindow
  <2>1. k \in {4, 15}
    BY <1>0, <1>10, WinMainIs DEF DestroyWindow, At
  <2>2. CASE ~handle
    BY <1>10, <1>d, <1>n, <2>1, <2>2 DEF DestroyWindow
  <2>3. CASE handle
    <3>1. k = 15 /\ Ending /\ hwnd' = "dying"
      BY <1>10, <2>1, <2>3 DEF DestroyWindow, Ending
    <3>2. On(EndMessage, 1)'
      BY <1>10, <2>3, <3>1, EndSends DEF DestroyWindow
    <3>3. Ending'
      BY <1>10, <3>1 DEF DestroyWindow, Ending
    <3> QED
      BY <3>1, <3>2, <3>3 DEF Place
  <2> QED
    BY <2>2, <2>3
<1>11. CASE Unregister
  <2>1. k \in {5, 16} /\ Done /\ hwnd = "none"
    BY <1>0, <1>11, WinMainIs DEF Unregister, At
  <2>2. k = 16 => registered' = FALSE /\ class' = FALSE
    <3>1. k = 16 => ~(active > 0)
      OBVIOUS
    <3> QED
      BY <1>11, <2>1, <3>1 DEF Unregister
  <2> QED
    BY <1>11, <1>d, <1>n, <2>1, <2>2 DEF Unregister
<1>12. CASE Members
  BY <1>0, <1>12, <1>d, <1>n, WinMainIs DEF Members, At
<1>13. CASE Uncount
  BY <1>0, <1>13, <1>d, <1>n, WinMainIs DEF Uncount, At
<1>14. CASE Freed
  BY <1>0, <1>14, <1>d, <1>n, WinMainIs DEF Freed, At
<1>15. ~(WmDestroy \/ PostQuit \/ Gone \/ ForgetHandle)
  <2>1. WinMain[k] \notin {"WM_DESTROY", "PostQuit", "Gone", "ForgetHandle"}
    BY <1>0, WinMainIs
  <2> QED
    BY <1>0, <2>1 DEF WmDestroy, PostQuit, Gone, ForgetHandle, At
<1> QED
  BY <1>1, <1>2, <1>3, <1>4, <1>5, <1>6, <1>7, <1>8, <1>9, <1>10, <1>11, <1>12, <1>13,
     <1>14, <1>15 DEF ThreadStep, Thread

\* The same for the other lists.
LEMMA LoopMessageHead ==
    ASSUME NEW k \in 1 .. 9, On(LoopMessage, k)
    PROVE  stack # <<>> /\ Head(stack) = LoopMessage[k] /\ (Done => On(LoopMessage, k + 1)')
<1>1. LoopMessage \in Seq(Step) /\ k \in 1 .. Len(LoopMessage)
  BY ProgramsAre
<1> QED
  BY <1>1, HeadIs, DoneIs

LEMMA InLoopHead ==
    ASSUME NEW k \in 1 .. 12, On(InLoop, k)
    PROVE  stack # <<>> /\ Head(stack) = InLoop[k] /\ (Done => On(InLoop, k + 1)')
<1>1. InLoop \in Seq(Step) /\ k \in 1 .. Len(InLoop)
  BY ProgramsAre
<1> QED
  BY <1>1, HeadIs, DoneIs

LEMMA EndMessageHead ==
    ASSUME NEW k \in 1 .. 5, On(EndMessage, k)
    PROVE  stack # <<>> /\ Head(stack) = EndMessage[k] /\ (Done => On(EndMessage, k + 1)')
<1>1. EndMessage \in Seq(Step) /\ k \in 1 .. Len(EndMessage)
  BY ProgramsAre
<1> QED
  BY <1>1, HeadIs, DoneIs

LEMMA InEndHead ==
    ASSUME NEW k \in 1 .. 8, On(InEnd, k)
    PROVE  stack # <<>> /\ Head(stack) = InEnd[k] /\ (Done => On(InEnd, k + 1)')
<1>1. InEnd \in Seq(Step) /\ k \in 1 .. Len(InEnd)
  BY ProgramsAre
<1> QED
  BY <1>1, HeadIs, DoneIs

\* A step whose name is not at the top of the stack is not taken.
LEMMA OnlyHead ==
    ASSUME Thread
    PROVE  /\ stack # <<>>
           /\ Head(stack) = "WM_DESTROY" => WmDestroy
           /\ Head(stack) = "OnDestroy" => OnDestroy
           /\ Head(stack) = "DestroyWindow" => DestroyWindow
           /\ Head(stack) = "Unregister" => Unregister
           /\ Head(stack) = "PostQuit" => PostQuit
           /\ Head(stack) = "Gone" => Gone
           /\ Head(stack) = "ForgetHandle" => ForgetHandle
  BY DEF Thread, At, Arguments, Construct, GetWindowClass, CreateWindow,
     Controller, Child, SetQuitOnClose, LoopEnds, OnDestroy, DestroyWindow, WmDestroy,
     PostQuit, Gone, ForgetHandle, Unregister, Members, Uncount, Freed

\* The handler of WM_DESTROY, while wWinMain is in its loop.
LEMMA LoopNested ==
    ASSUME NEW k \in 1 .. 5, On(InLoop, k), Closing, content, quitOnClose, ~handle,
           k > 1 => controller = "none", Thread
    PROVE  Place'
<1> USE DEF Closing
<1>0. /\ stack # <<>> /\ Head(stack) = InLoop[k] /\ (Done => On(InLoop, k + 1)')
  BY InLoopHead
<1>d. ASSUME k < 5, Done, Closing', content', quitOnClose', ~handle', controller' = "none"
      PROVE  Place'
  <2>1. k + 1 \in 1 .. 5 /\ On(InLoop, k + 1)'
    BY <1>0, <1>d
  <2> QED
    BY <1>d, <2>1 DEF Place
<1>1. CASE k = 1
  <2>1. OnDestroy
    BY <1>0, <1>1, OnlyHead DEF InLoop
  <2> QED
    BY <1>1, <1>d, <2>1 DEF OnDestroy
<1>2. CASE k = 2
  <2>1. DestroyWindow
    BY <1>0, <1>2, OnlyHead DEF InLoop
  <2> QED
    BY <1>2, <1>d, <2>1 DEF DestroyWindow
<1>3. CASE k = 3
  <2>1. Unregister
    BY <1>0, <1>3, OnlyHead DEF InLoop
  <2> QED
    BY <1>3, <1>d, <2>1 DEF Unregister
<1>4. CASE k = 4
  <2>1. PostQuit
    BY <1>0, <1>4, OnlyHead DEF InLoop
  <2> QED
    BY <1>4, <1>d, <2>1 DEF PostQuit
<1>5. CASE k = 5
  <2>1. Gone
    BY <1>0, <1>5, OnlyHead DEF InLoop
  <2>2. On(InLoop, 6)'
    BY <1>0, <1>5, <2>1 DEF Gone
  <2>3. On(WinMain, 11)'
    <3>1. (On(InLoop, 6) => On(WinMain, 11))'
      BY BackInLoop, PTL
    <3> QED
      BY <2>2, <3>1
  <2>4. InMain(11)'
    BY <1>5, <2>1 DEF Gone, InMain
  <2> QED
    BY <2>3, <2>4 DEF Place
<1> QED
  BY <1>1, <1>2, <1>3, <1>4, <1>5

\* The same handler, sent by the destructor of the base class.
LEMMA EndNested ==
    ASSUME NEW k \in 1 .. 6, On(InEnd, k), Ending, ~handle,
           hwnd = IF k = 6 THEN "none" ELSE "dying", Thread
    PROVE  Place'
<1> USE DEF Ending
<1>0. /\ stack # <<>> /\ Head(stack) = InEnd[k] /\ (Done => On(InEnd, k + 1)')
  BY InEndHead
<1>d. ASSUME k < 6, Done, Ending', ~handle', hwnd' = IF k = 5 THEN "none" ELSE "dying"
      PROVE  Place'
  <2>1. k + 1 \in 1 .. 6 /\ On(InEnd, k + 1)'
    BY <1>0, <1>d
  <2> QED
    BY <1>d, <2>1 DEF Place
<1>1. CASE k = 1
  <2>1. OnDestroy
    BY <1>0, <1>1, OnlyHead DEF InEnd
  <2> QED
    BY <1>1, <1>d, <2>1 DEF OnDestroy
<1>2. CASE k = 2
  <2>1. DestroyWindow
    BY <1>0, <1>2, OnlyHead DEF InEnd
  <2> QED
    BY <1>2, <1>d, <2>1 DEF DestroyWindow
<1>3. CASE k = 3
  <2>1. Unregister
    BY <1>0, <1>3, OnlyHead DEF InEnd
  <2> QED
    BY <1>3, <1>d, <2>1 DEF Unregister
<1>4. CASE k = 4
  <2>1. PostQuit
    BY <1>0, <1>4, OnlyHead DEF InEnd
  <2> QED
    BY <1>4, <1>d, <2>1 DEF PostQuit
<1>5. CASE k = 5
  <2>1. Gone
    BY <1>0, <1>5, OnlyHead DEF InEnd
  <2> QED
    BY <1>5, <1>d, <2>1 DEF Gone
<1>6. CASE k = 6
  <2>1. ForgetHandle
    BY <1>0, <1>6, OnlyHead DEF InEnd
  <2>2. On(InEnd, 7)'
    BY <1>0, <1>6, <2>1 DEF ForgetHandle
  <2>3. On(WinMain, 16)'
    <3>1. (On(InEnd, 7) => On(WinMain, 16))'
      BY BackInEnd, PTL
    <3> QED
      BY <2>2, <3>1
  <2>4. InMain(16)'
    BY <1>6, <2>1 DEF ForgetHandle, InMain
  <2> QED
    BY <2>3, <2>4 DEF Place
<1> QED
  BY <1>1, <1>2, <1>3, <1>4, <1>5, <1>6

\* Whatever the thread does next, it stays within Place.
LEMMA ThreadPlace == ASSUME Place, ThreadStep PROVE Place'
<1>0. Thread
  BY DEF ThreadStep
<1>1. ASSUME NEW k \in 1 .. 18, On(WinMain, k), InMain(k) PROVE Place'
  BY <1>1, MainStep
<1>2. CASE On(LoopMessage, 1) /\ Closing /\ content /\ quitOnClose
  <2>1. Head(stack) = LoopMessage[1]
    BY <1>2, LoopMessageHead
  <2>2. WmDestroy
    BY <1>0, <2>1, OnlyHead DEF LoopMessage
  <2>3. On(InLoop, 1)'
    BY <1>2, <2>2, LoopHandles DEF WmDestroy
  <2> QED
    BY <1>2, <2>2, <2>3 DEF WmDestroy, Closing, Place
<1>3. ASSUME NEW k \in 1 .. 5, On(InLoop, k), Closing, content, quitOnClose, ~handle,
             k > 1 => controller = "none"
      PROVE  Place'
  BY <1>0, <1>3, LoopNested
<1>4. CASE On(EndMessage, 1) /\ Ending /\ hwnd = "dying"
  <2>1. Head(stack) = EndMessage[1]
    BY <1>4, EndMessageHead
  <2>2. WmDestroy
    BY <1>0, <2>1, OnlyHead DEF EndMessage
  <2>3. On(InEnd, 1)'
    BY <1>4, <2>2, EndHandles DEF WmDestroy
  <2> QED
    BY <1>4, <2>2, <2>3 DEF WmDestroy, Ending, Place
<1>5. ASSUME NEW k \in 1 .. 6, On(InEnd, k), Ending, ~handle,
             hwnd = IF k = 6 THEN "none" ELSE "dying"
      PROVE  Place'
  BY <1>0, <1>5, EndNested
<1> QED
  BY <1>1, <1>2, <1>3, <1>4, <1>5 DEF Place

\* The loop is a place of wWinMain only.
LEMMA LoopIsMain == ASSUME Place, At("loop") PROVE On(WinMain, 11) /\ InMain(11)
<1>1. ASSUME NEW k \in 1 .. 18, On(WinMain, k), InMain(k) PROVE On(WinMain, 11) /\ InMain(11)
  <2>1. k = 11
    BY <1>1, MainHead, WinMainIs DEF At
  <2> QED
    BY <1>1, <2>1
<1>2. ~On(LoopMessage, 1)
  <2>1. ASSUME On(LoopMessage, 1) PROVE Head(stack) = LoopMessage[1]
    BY <2>1, LoopMessageHead
  <2> QED
    BY <2>1 DEF At, LoopMessage
<1>3. ASSUME NEW k \in 1 .. 5, On(InLoop, k) PROVE FALSE
  <2>1. Head(stack) = InLoop[k]
    BY <1>3, InLoopHead
  <2> QED
    BY <2>1 DEF At, InLoop
<1>4. ~On(EndMessage, 1)
  <2>1. ASSUME On(EndMessage, 1) PROVE Head(stack) = EndMessage[1]
    BY <2>1, EndMessageHead
  <2> QED
    BY <2>1 DEF At, EndMessage
<1>5. ASSUME NEW k \in 1 .. 6, On(InEnd, k) PROVE FALSE
  <2>1. Head(stack) = InEnd[k]
    BY <1>5, InEndHead
  <2> QED
    BY <2>1 DEF At, InEnd
<1> QED
  BY <1>1, <1>2, <1>3, <1>4, <1>5 DEF Place

\* A DestroyWindow called while a message is handled.
LEMMA DestroyedPlace ==
    ASSUME Place, Running, hwnd = "alive", Destroyed
    PROVE  Place'
<1>1. On(WinMain, 11) /\ InMain(11)
  BY LoopIsMain DEF Running
<1>2. On(LoopMessage, 1)'
  BY <1>1, LoopSends DEF Destroyed
<1> QED
  BY <1>1, <1>2 DEF Destroyed, Closing, InMain, Place

\* Of the runner, Dart, the plugins and the user change what is shown, what is
\* due and what ends the loop; and only with the thread in its loop.
LEMMA LoopPlace ==
    ASSUME Place, Running,
           UNCHANGED <<stack, object, active, registered, class, hwnd, handle,
                       controller, content, quitOnClose>>
    PROVE  Place'
<1>1. On(WinMain, 11) /\ InMain(11)
  BY LoopIsMain DEF Running
<1>2. On(WinMain, 11)' /\ InMain(11)'
  BY <1>1 DEF On, InMain
<1> QED
  BY <1>2 DEF Place

\* Every step stays within Place.
LEMMA PlaceStep == ASSUME Place, [Next]_vars PROVE Place'
<1>1. CASE ThreadStep
  BY <1>1, ThreadPlace
<1>2. CASE Dart
  BY <1>2, LoopPlace DEF Dart, MainShows, MainThrows, InitState, BuildMenu, RegisterHandler,
                         HandleEvent, runnerVars
<1>3. ASSUME CloseMessage PROVE Place'
  <2>1. CASE prevent
    BY <1>3, <2>1, LoopPlace DEF CloseMessage, runnerVars
  <2>2. CASE ~prevent
    BY <1>3, <2>2, DestroyedPlace DEF CloseMessage
  <2> QED
    BY <2>1, <2>2
<1>4. CASE Plugins
  <2>1. CASE PlainCall \/ QueryCall \/ TrayCall
    BY <2>1, LoopPlace DEF PlainCall, QueryCall, TrayCall, runnerVars
  <2>2. CASE CloseCall
    BY <1>3, <2>2 DEF CloseCall
  <2>3. CASE DestroyCalled
    <3>1. CASE hwnd = "alive" /\ Destroyed
      BY <2>3, <3>1, DestroyedPlace DEF DestroyCalled
    <3>2. CASE ~(hwnd = "alive" /\ Destroyed)
      BY <2>3, <3>2, LoopPlace DEF DestroyCalled
    <3> QED
      BY <3>1, <3>2
  <2> QED
    BY <1>4, <2>1, <2>2, <2>3 DEF Plugins
<1>5. CASE FirstFrame
  BY <1>5, LoopPlace DEF FirstFrame
<1>6. CASE User
  <2>1. CASE AltF4
    BY <1>3, <2>1 DEF AltF4
  <2>2. CASE ClickX \/ \E event \in TrayEvent : UseTray(event)
    BY <2>2, LoopPlace DEF ClickX, UseTray, runnerVars
  <2> QED
    BY <1>6, <2>1, <2>2 DEF User
<1>7. CASE UNCHANGED vars
  BY <1>7 DEF vars, Place, On, InMain, Young, Closing, Ending
<1> QED
  BY <1>1, <1>2, <1>4, <1>5, <1>6, <1>7 DEF Next

LEMMA PlaceInit == Init => Place
<1> SUFFICES ASSUME Init PROVE Place
  OBVIOUS
<1>1. \A i \in 1 .. 17 : stack[i] = WinMain[1 + i - 1]
  BY DEF Init, RunnerInit
<1>2. On(WinMain, 1)
  BY <1>1, WinMainIs DEF Init, RunnerInit, On, Left
<1>3. InMain(1)
  BY DEF Init, RunnerInit, InMain, Young
<1> QED
  BY <1>2, <1>3 DEF Place

(***************************************************************************)
(* The window                                                              *)
(***************************************************************************)

\* Messages find their objects, whatever fails and however Destroy is nested.
THEOREM WindowAlwaysOwned == Spec => []WindowOwned
<1>1. Place => WindowOwned
  BY DEF Place, InMain, Closing, Ending, WindowOwned
<1> QED
  BY <1>1, PlaceInit, PlaceStep, PTL DEF Spec

\* The loop is entered with everything its messages need.
THEOREM AlwaysReadyInLoop == Spec => []ReadyInLoop
<1>1. Place => ReadyInLoop
  BY LoopIsMain DEF InMain, ReadyInLoop
<1> QED
  BY <1>1, PlaceInit, PlaceStep, PTL DEF Spec

\* Every way out of wWinMain leaves nothing behind.
THEOREM AlwaysCleanExit == Spec => []CleanExit
<1>1. ASSUME Place, stack = <<>> PROVE On(WinMain, 18) /\ InMain(18)
  <2>1. ASSUME NEW k \in 1 .. 18, On(WinMain, k), InMain(k)
        PROVE  On(WinMain, 18) /\ InMain(18)
    BY <1>1, <2>1, MainHead
  <2>2. /\ 1 \in 1 .. 9 /\ 1 \in 1 .. 5
        /\ 1 .. 5 \subseteq 1 .. 12 /\ 1 .. 6 \subseteq 1 .. 8
    OBVIOUS
  <2>3. /\ ~On(LoopMessage, 1) /\ \A k \in 1 .. 5 : ~On(InLoop, k)
        /\ ~On(EndMessage, 1) /\ \A k \in 1 .. 6 : ~On(InEnd, k)
    BY <1>1, <2>2, LoopMessageHead, InLoopHead, EndMessageHead, InEndHead
  <2> QED
    BY <1>1, <2>1, <2>3 DEF Place
<1>2. Place => CleanExit
  BY <1>1 DEF InMain, CleanExit
<1> QED
  BY <1>2, PlaceInit, PlaceStep, PTL DEF Spec

(***************************************************************************)
(* Types                                                                   *)
(***************************************************************************)

LEMMA StackType == Place => stack \in Seq(Step) /\ active \in Nat
  BY DEF Place, On, Left, InMain, Closing, Ending

RestTypeOK ==
    /\ object \in {"none", "flutter", "base"}
    /\ registered \in BOOLEAN /\ class \in BOOLEAN
    /\ hwnd \in {"none", "alive", "dying"} /\ handle \in BOOLEAN
    /\ controller \in {"none", "engine", "broken"} /\ content \in BOOLEAN
    /\ quitOnClose \in BOOLEAN /\ quit \in BOOLEAN
    /\ frameDue \in BOOLEAN /\ visible \in BOOLEAN
TrayTypeOK ==
    /\ dart \in {"start", "shown", "run", "failed"}
    /\ calls \in Seq(PluginCall) /\ events \in Seq(Event)
    /\ prevent \in BOOLEAN /\ tray \in TrayStep
    /\ wish \in {"any", "shown", "hidden", "crossed"} /\ exiting \in BOOLEAN

LEMMA TypeParts == Place /\ RestTypeOK /\ TrayTypeOK => TypeOK
  BY StackType DEF RestTypeOK, TrayTypeOK, TypeOK, RunnerTypeOK

LEMMA RestTypeStep == ASSUME Place, RestTypeOK, [Next]_vars PROVE RestTypeOK'
<1> USE DEF RestTypeOK
<1>1. CASE ThreadStep
  <2>1. CASE Arguments
    BY <2>1 DEF Arguments
  <2>2. CASE Construct
    BY <2>2 DEF Construct
  <2>3. CASE GetWindowClass
    BY <2>3 DEF GetWindowClass
  <2>4. CASE CreateWindow
    BY <2>4 DEF CreateWindow
  <2>5. CASE Controller
    BY <2>5 DEF Controller
  <2>6. CASE Child
    BY <2>6 DEF Child
  <2>7. CASE SetQuitOnClose
    BY <2>7 DEF SetQuitOnClose
  <2>8. CASE LoopEnds
    BY <2>8 DEF LoopEnds
  <2>9. CASE OnDestroy
    BY <2>9 DEF OnDestroy
  <2>10. CASE DestroyWindow
    BY <2>10 DEF DestroyWindow
  <2>11. CASE WmDestroy
    BY <2>11 DEF WmDestroy
  <2>12. CASE PostQuit
    BY <2>12 DEF PostQuit
  <2>13. CASE Gone
    BY <2>13 DEF Gone
  <2>14. CASE ForgetHandle
    BY <2>14 DEF ForgetHandle
  <2>15. CASE Unregister
    BY <2>15 DEF Unregister
  <2>16. CASE Members
    BY <2>16 DEF Members
  <2>17. CASE Uncount
    BY <2>17 DEF Uncount
  <2>18. CASE Freed
    BY <2>18 DEF Freed
  <2> QED
    BY <1>1, <2>1, <2>2, <2>3, <2>4, <2>5, <2>6, <2>7, <2>8, <2>9,
       <2>10, <2>11, <2>12, <2>13, <2>14, <2>15, <2>16, <2>17, <2>18
    DEF ThreadStep, Thread
<1>2. CASE Dart
  BY <1>2 DEF Dart, MainShows, MainThrows, InitState, BuildMenu, RegisterHandler, HandleEvent, runnerVars
<1>3. ASSUME CloseMessage PROVE RestTypeOK'
  BY <1>3 DEF CloseMessage, Destroyed, runnerVars
<1>4. CASE Plugins
  <2>1. CASE PlainCall
    BY <2>1 DEF PlainCall
  <2>2. CASE QueryCall \/ TrayCall
    BY <2>2 DEF QueryCall, TrayCall, runnerVars
  <2>3. CASE CloseCall
    BY <1>3, <2>3 DEF CloseCall
  <2>4. CASE DestroyCalled
    BY <2>4 DEF DestroyCalled, Destroyed
  <2> QED
    BY <1>4, <2>1, <2>2, <2>3, <2>4 DEF Plugins
<1>5. CASE FirstFrame
  BY <1>5 DEF FirstFrame
<1>6. CASE User
  <2>1. CASE AltF4
    BY <1>3, <2>1 DEF AltF4
  <2>2. CASE ClickX
    BY <2>2 DEF ClickX, runnerVars
  <2>3. ASSUME NEW event \in TrayEvent, UseTray(event) PROVE RestTypeOK'
    BY <2>3 DEF UseTray, runnerVars
  <2> QED
    BY <1>6, <2>1, <2>2, <2>3 DEF User
<1>7. CASE UNCHANGED vars
  BY <1>7 DEF vars
<1> QED
  BY <1>1, <1>2, <1>4, <1>5, <1>6, <1>7 DEF Next

LEMMA AnswerType == \A event \in Event : \E c \in PluginCall : Answer(event) = <<c>>
  BY DEF Answer, PluginCall, Event, TrayEvent

\* A queue without its first member, and with others behind it.
LEMMA QueueType ==
    ASSUME NEW S, NEW s \in Seq(S), NEW x \in S, NEW y \in S
    PROVE  /\ s # <<>> => Head(s) \in S /\ Tail(s) \in Seq(S)
           /\ Append(s, x) \in Seq(S) /\ s \o <<x>> \in Seq(S)
           /\ s \o <<x, y>> \in Seq(S)
  OBVIOUS

LEMMA TrayTypeStep == ASSUME TrayTypeOK, [Next]_vars PROVE TrayTypeOK'
<1> USE DEF TrayTypeOK, TrayStep
<1>0. /\ {"isMinimized", "show", "hide", "close", "destroy", "preventClose",
          "initSystemTray", "setContextMenu"} \subseteq PluginCall
      /\ {"close", "notMinimized"} \cup TrayEvent \subseteq Event
  BY DEF PluginCall, Event
<1>1. CASE ThreadStep \/ FirstFrame \/ UNCHANGED vars
  BY <1>1 DEF ThreadStep, FirstFrame, trayVars, vars
<1>2. CASE Dart
  <2>1. CASE MainShows \/ MainThrows \/ BuildMenu \/ RegisterHandler
    BY <1>0, <2>1, QueueType DEF MainShows, MainThrows, BuildMenu, RegisterHandler
  <2>2. CASE InitState
    <3>1. calls \o <<"preventClose", "initSystemTray">> \in Seq(PluginCall)
      BY <1>0, QueueType
    <3> QED
      BY <2>2, <3>1 DEF InitState
  <2>3. CASE HandleEvent
    <3>1. Head(events) \in Event /\ Tail(events) \in Seq(Event)
      BY <2>3, QueueType DEF HandleEvent
    <3>2. calls \o Answer(Head(events)) \in Seq(PluginCall)
      BY <3>1, AnswerType, QueueType
    <3> QED
      BY <2>3, <3>1, <3>2 DEF HandleEvent
  <2> QED
    BY <1>2, <2>1, <2>2, <2>3 DEF Dart
<1>3. ASSUME CloseMessage
      PROVE  events' \in Seq(Event) /\ wish' \in {"any", "shown", "hidden", "crossed"}
  <2>1. CASE prevent
    <3>1. events' = Append(events, "close") /\ WishHidden
      BY <1>3, <2>1 DEF CloseMessage
    <3> QED
      BY <1>0, <3>1, QueueType DEF WishHidden
  <2>2. CASE ~prevent
    BY <1>3, <2>2 DEF CloseMessage
  <2> QED
    BY <2>1, <2>2
<1>4. CASE Plugins
  <2>1. calls # <<>> => Tail(calls) \in Seq(PluginCall)
    BY QueueType
  <2>2. CASE PlainCall \/ TrayCall
    BY <2>1, <2>2 DEF PlainCall, TrayCall
  <2>5. CASE QueryCall
    BY <1>0, <2>1, <2>5, QueueType DEF QueryCall
  <2>3. CASE CloseCall
    BY <1>3, <2>1, <2>3 DEF CloseCall
  <2>4. CASE DestroyCalled
    BY <2>1, <2>4 DEF DestroyCalled
  <2> QED
    BY <1>4, <2>2, <2>3, <2>4, <2>5 DEF Plugins
<1>5. CASE User
  <2>1. CASE AltF4
    BY <1>3, <2>1 DEF AltF4
  <2>2. CASE ClickX
    BY <1>0, <2>2, QueueType DEF ClickX
  <2>3. ASSUME NEW event \in TrayEvent, UseTray(event) PROVE TrayTypeOK'
    <3>1. events' \in Seq(Event)
      BY <1>0, <2>3, QueueType DEF UseTray
    <3>2. wish' \in {"any", "shown", "hidden", "crossed"} /\ exiting' \in BOOLEAN
      BY <2>3 DEF UseTray, WishHidden, TrayEvent
    <3> QED
      BY <2>3, <3>1, <3>2 DEF UseTray
  <2> QED
    BY <1>5, <2>1, <2>2, <2>3 DEF User
<1> QED
  BY <1>1, <1>2, <1>4, <1>5 DEF Next

TypeInv == Place /\ RestTypeOK /\ TrayTypeOK

LEMMA TypeInit == Init => TypeInv
<1> SUFFICES ASSUME Init PROVE TypeInv
  OBVIOUS
<1>1. RestTypeOK
  BY DEF Init, RunnerInit, RestTypeOK
<1>2. TrayTypeOK
  <2>1. <<>> \in Seq(PluginCall) /\ <<>> \in Seq(Event)
    OBVIOUS
  <2>2. prevent \in BOOLEAN /\ exiting \in BOOLEAN
    BY Zenon DEF Init
  <2> QED
    BY <2>1, <2>2 DEF Init, TrayTypeOK, TrayStep
<1> QED
  BY <1>1, <1>2, PlaceInit DEF TypeInv

LEMMA TypeStep == TypeInv /\ [Next]_vars => TypeInv'
  BY PlaceStep, RestTypeStep, TrayTypeStep DEF TypeInv

\* Runner and tray keep their types, queues of any length included.
THEOREM WindowTypeCorrect == Spec => []TypeOK
<1>1. TypeInv => TypeOK
  BY TypeParts DEF TypeInv
<1> QED
  BY <1>1, TypeInit, TypeStep, PTL DEF Spec

(***************************************************************************)
(* The application is kept alive                                           *)
(***************************************************************************)

\* What may be queued, the plugin holding WM_CLOSE back or not (p), Exit chosen
\* or not (e): the tray is asked for behind preventClose, its menu after it.
Ordered(s, p, e) ==
    \A i \in 1 .. Len(s) :
        /\ s[i] = "initSystemTray" => p \/ \E j \in 1 .. i - 1 : s[j] = "preventClose"
        /\ s[i] = "setContextMenu" => p
        /\ s[i] = "destroy" => e

OnlyExitsAsk(s, e) == \A i \in 1 .. Len(s) : s[i] = "Exit" => e

KeptInv ==
    /\ Ordered(calls, prevent, exiting)
    /\ OnlyExitsAsk(events, exiting)
    /\ tray \in {"icon", "building", "menu", "ready"} => prevent
    /\ prevent /\ ~exiting => Running /\ hwnd = "alive"
    /\ quit /\ hwnd = "alive" => exiting

LEMMA Queued ==
    ASSUME NEW S, NEW s \in Seq(S), NEW x \in S
    PROVE  /\ s \o <<x>> = Append(s, x)
           /\ Append(s, x) \in Seq(S)
           /\ Len(Append(s, x)) = Len(s) + 1
           /\ \A i \in 1 .. Len(s) : Append(s, x)[i] = s[i]
           /\ Append(s, x)[Len(s) + 1] = x
  OBVIOUS

LEMMA Dequeued ==
    ASSUME NEW S, NEW s \in Seq(S), s # <<>>
    PROVE  /\ Tail(s) \in Seq(S) /\ Head(s) = s[1]
           /\ Len(s) \in Nat \ {0} /\ Len(Tail(s)) = Len(s) - 1
           /\ \A i \in 1 .. Len(s) - 1 : Tail(s)[i] = s[i + 1]
  OBVIOUS

LEMMA OrderedQueued ==
    ASSUME NEW S, NEW s \in Seq(S), NEW x \in S,
           NEW p \in BOOLEAN, NEW e \in BOOLEAN, Ordered(s, p, e),
           x = "initSystemTray" => p \/ \E j \in 1 .. Len(s) : s[j] = "preventClose",
           x = "setContextMenu" => p,
           x = "destroy" => e
    PROVE  Ordered(Append(s, x), p, e)
<1> DEFINE t == Append(s, x)
<1>0. /\ Len(t) = Len(s) + 1 /\ Len(s) \in Nat
      /\ \A i \in 1 .. Len(s) : t[i] = s[i]
      /\ t[Len(s) + 1] = x
  BY Queued
<1> HIDE DEF t
<1>1. ASSUME NEW i \in 1 .. Len(t)
      PROVE  /\ t[i] = "initSystemTray" => p \/ \E j \in 1 .. i - 1 : t[j] = "preventClose"
             /\ t[i] = "setContextMenu" => p
             /\ t[i] = "destroy" => e
  <2>1. CASE i = Len(s) + 1
    BY <1>0, <2>1
  <2>2. CASE i # Len(s) + 1
    <3>1. i \in 1 .. Len(s) /\ t[i] = s[i] /\ \A j \in 1 .. i - 1 : t[j] = s[j]
      BY <1>0, <2>2
    <3> QED
      BY <3>1 DEF Ordered
  <2> QED
    BY <2>1, <2>2
<1>2. Ordered(t, p, e)
  BY <1>1 DEF Ordered
<1> QED
  BY <1>2 DEF t

LEMMA OrderedDequeued ==
    ASSUME NEW S, NEW s \in Seq(S), s # <<>>,
           NEW p \in BOOLEAN, NEW e \in BOOLEAN, Ordered(s, p, e),
           NEW q \in BOOLEAN, p \/ Head(s) = "preventClose" => q
    PROVE  Ordered(Tail(s), q, e)
<1>0. /\ Head(s) = s[1] /\ Len(Tail(s)) = Len(s) - 1 /\ Len(s) \in Nat
      /\ \A i \in 1 .. Len(s) - 1 : Tail(s)[i] = s[i + 1]
  BY Dequeued
<1>1. ASSUME NEW i \in 1 .. Len(Tail(s))
      PROVE  /\ Tail(s)[i] = "initSystemTray" =>
                    q \/ \E j \in 1 .. i - 1 : Tail(s)[j] = "preventClose"
             /\ Tail(s)[i] = "setContextMenu" => q
             /\ Tail(s)[i] = "destroy" => e
  <2>1. i + 1 \in 1 .. Len(s) /\ Tail(s)[i] = s[i + 1]
    BY <1>0
  <2>2. ASSUME NEW j \in 1 .. i, s[j] = "preventClose", ~q
        PROVE  \E k \in 1 .. i - 1 : Tail(s)[k] = "preventClose"
    <3>1. j - 1 \in 1 .. i - 1 /\ Tail(s)[j - 1] = s[j]
      BY <1>0, <2>2
    <3> QED
      BY <2>2, <3>1
  <2> QED
    BY <2>1, <2>2 DEF Ordered
<1> QED
  BY <1>1 DEF Ordered

LEMMA AskedDequeued ==
    ASSUME NEW S, NEW s \in Seq(S), s # <<>>, NEW e \in BOOLEAN, OnlyExitsAsk(s, e)
    PROVE  OnlyExitsAsk(Tail(s), e) /\ (Head(s) = "Exit" => e)
  BY Dequeued DEF OnlyExitsAsk

LEMMA AskedQueued ==
    ASSUME NEW S, NEW s \in Seq(S), NEW x \in S,
           NEW e \in BOOLEAN, OnlyExitsAsk(s, e), x = "Exit" => e
    PROVE  OnlyExitsAsk(Append(s, x), e)
<1>0. /\ Len(Append(s, x)) = Len(s) + 1 /\ Len(s) \in Nat
      /\ \A i \in 1 .. Len(s) : Append(s, x)[i] = s[i]
      /\ Append(s, x)[Len(s) + 1] = x
  BY Queued
<1> QED
  BY <1>0 DEF OnlyExitsAsk

LEMMA KeptInit == Init => KeptInv
  BY DEF Init, RunnerInit, KeptInv, Ordered, OnlyExitsAsk

\* A window comes to life before anything has asked the loop to end, and the
\* message that ends it is posted by one that is not alive any more.
LEMMA QuitPlaces ==
    ASSUME Place
    PROVE  /\ At("CreateWindow") => ~quit
           /\ At("PostQuit") => hwnd # "alive"
<1>1. ASSUME NEW k \in 1 .. 18, On(WinMain, k), InMain(k)
      PROVE  /\ At("CreateWindow") => ~quit
             /\ ~At("PostQuit")
  <2>1. /\ At("CreateWindow") => k = 7
        /\ ~At("PostQuit")
    BY <1>1, MainHead, WinMainIs DEF At
  <2> QED
    BY <1>1, <2>1 DEF InMain, Young
<1>2. ASSUME On(LoopMessage, 1) PROVE ~At("CreateWindow")
  BY <1>2, LoopMessageHead DEF At, LoopMessage
<1>3. ASSUME NEW k \in 1 .. 5, On(InLoop, k) PROVE ~At("CreateWindow")
  BY <1>3, InLoopHead DEF At, InLoop
<1>4. ASSUME On(EndMessage, 1) PROVE ~At("CreateWindow")
  BY <1>4, EndMessageHead DEF At, EndMessage
<1>5. ASSUME NEW k \in 1 .. 6, On(InEnd, k) PROVE ~At("CreateWindow")
  BY <1>5, InEndHead DEF At, InEnd
<1>6. /\ Closing => hwnd # "alive"
      /\ Place => \/ \E k \in 1 .. 18 : On(WinMain, k) /\ InMain(k)
                  \/ hwnd # "alive"
  BY DEF Closing, Place
<1> QED
  BY <1>1, <1>2, <1>3, <1>4, <1>5, <1>6 DEF Place

\* The thread alone leaves its loop only when it has been told to.
LEMMA KeptThread == ASSUME Place, TypeOK, KeptInv, ThreadStep PROVE KeptInv'
<1>1. UNCHANGED <<calls, events, prevent, tray, exiting>>
  BY DEF ThreadStep, trayVars
<1>2. (quit /\ hwnd = "alive" => exiting)'
  <2>1. CASE CreateWindow
    <3>1. ~quit \/ UNCHANGED hwnd
      BY <2>1, QuitPlaces DEF CreateWindow
    <3> QED
      BY <1>1, <2>1, <3>1 DEF CreateWindow, KeptInv
  <2>2. CASE PostQuit
    <3>1. hwnd # "alive"
      BY <2>2, QuitPlaces DEF PostQuit
    <3> QED
      BY <2>2, <3>1 DEF PostQuit
  <2>3. CASE UNCHANGED <<quit, hwnd>>
    BY <1>1, <2>3 DEF KeptInv
  <2>4. quit' = FALSE \/ hwnd' # "alive" \/ CreateWindow \/ PostQuit \/ UNCHANGED <<quit, hwnd>>
    BY DEF ThreadStep, Thread, Arguments, Construct, GetWindowClass, Controller, Child,
           SetQuitOnClose, LoopEnds, OnDestroy, DestroyWindow, WmDestroy, Gone,
           ForgetHandle, Unregister, Members, Uncount, Freed
  <2> QED
    BY <2>1, <2>2, <2>3, <2>4
<1>3. ~(prevent /\ ~exiting)
  <2> SUFFICES ASSUME prevent, ~exiting PROVE FALSE
    OBVIOUS
  <2>1. At("loop") /\ ~quit
    BY DEF KeptInv, Running
  <2> QED
    BY <2>1 DEF At, ThreadStep, Thread, Arguments, Construct, GetWindowClass, CreateWindow,
           Controller, Child, SetQuitOnClose, LoopEnds, OnDestroy, DestroyWindow,
           WmDestroy, PostQuit, Gone, ForgetHandle, Unregister, Members, Uncount, Freed
<1> QED
  BY <1>1, <1>2, <1>3 DEF KeptInv

\* A message to close is an event once the plugin holds it back.
LEMMA KeptClose ==
    ASSUME TypeOK, KeptInv, CloseMessage, UNCHANGED <<prevent, tray, exiting>>,
           Ordered(calls', prevent, exiting)
    PROVE  KeptInv'
<1> USE DEF TypeOK
<1>1. CASE prevent
  <2>1. events' = Append(events, "close") /\ UNCHANGED runnerVars
    BY <1>1 DEF CloseMessage
  <2>2. OnlyExitsAsk(events', exiting)
    <3>1. "close" \in Event
      BY DEF Event
    <3> QED
      BY <2>1, <3>1, AskedQueued DEF KeptInv
  <2> QED
    BY <2>1, <2>2 DEF KeptInv, Running, At, runnerVars
<1>2. CASE ~prevent
  BY <1>2 DEF CloseMessage, Destroyed, KeptInv
<1> QED
  BY <1>1, <1>2

LEMMA KeptDart == ASSUME TypeOK, KeptInv, Dart PROVE KeptInv'
<1> USE DEF TypeOK
<1>0. /\ {"isMinimized", "show", "hide", "destroy", "preventClose", "initSystemTray",
          "setContextMenu"} \subseteq PluginCall
  BY DEF PluginCall
<1>a. UNCHANGED <<stack, hwnd, controller, quit, prevent, exiting>>
  BY DEF Dart, MainShows, MainThrows, InitState, BuildMenu, RegisterHandler, HandleEvent, runnerVars
<1>1. Ordered(calls', prevent, exiting)
  <2>1. CASE MainShows
    BY <1>0, <2>1, OrderedQueued DEF MainShows, KeptInv
  <2>2. CASE InitState
    <3> DEFINE s == Append(calls, "preventClose")
    <3>1. s \in Seq(PluginCall) /\ s[Len(s)] = "preventClose" /\ Len(s) \in Nat \ {0}
      BY <1>0, Queued
    <3>2. Ordered(s, prevent, exiting)
      BY <1>0, OrderedQueued DEF KeptInv
    <3>3. calls' = Append(s, "initSystemTray")
      BY <1>0, <2>2, Queued DEF InitState
    <3> HIDE DEF s
    <3>4. \E j \in 1 .. Len(s) : s[j] = "preventClose"
      BY <3>1
    <3> QED
      BY <1>0, <3>1, <3>2, <3>3, <3>4, OrderedQueued
  <2>3. CASE BuildMenu
    BY <1>0, <2>3, OrderedQueued DEF BuildMenu, KeptInv
  <2>4. CASE MainThrows \/ RegisterHandler
    BY <2>4 DEF MainThrows, RegisterHandler, KeptInv
  <2>5. CASE HandleEvent
    <3>1. Head(events) = "Exit" => exiting
      BY <2>5, AskedDequeued DEF HandleEvent, KeptInv
    <3>2. Head(events) \in Event
      BY <2>5 DEF HandleEvent
    <3>3. PICK c \in {"isMinimized", "show", "hide", "destroy"} :
              Answer(Head(events)) = <<c>> /\ (c = "destroy" => Head(events) = "Exit")
      BY <3>2 DEF Answer, Event, TrayEvent
    <3>4. calls' = Append(calls, c)
      <4>1. calls' = calls \o <<c>>
        BY <2>5, <3>3 DEF HandleEvent
      <4>2. c \in PluginCall
        BY <1>0
      <4> QED
        BY <4>1, <4>2, Queued
    <3> QED
      BY <1>0, <3>1, <3>3, <3>4, OrderedQueued DEF KeptInv
  <2> QED
    BY <2>1, <2>2, <2>3, <2>4, <2>5 DEF Dart
<1>2. OnlyExitsAsk(events', exiting)
  <2>1. CASE HandleEvent
    BY <2>1, AskedDequeued DEF HandleEvent, KeptInv
  <2>2. CASE ~HandleEvent
    BY <2>2 DEF Dart, MainShows, MainThrows, InitState, BuildMenu, RegisterHandler, KeptInv
  <2> QED
    BY <2>1, <2>2
<1>3. tray' \in {"icon", "building", "menu", "ready"} => prevent
  BY DEF Dart, MainShows, MainThrows, InitState, BuildMenu, RegisterHandler, HandleEvent, KeptInv
<1> QED
  BY <1>a, <1>1, <1>2, <1>3 DEF KeptInv, Running, At

LEMMA KeptPlugins == ASSUME Place, TypeOK, KeptInv, Plugins PROVE KeptInv'
<1> USE DEF TypeOK
<1>1. CASE PlainCall
  <2>1. Ordered(calls', prevent', exiting)
    BY <1>1, OrderedDequeued DEF PlainCall, KeptInv
  <2>2. hwnd = "alive"
    BY <1>1, LoopIsMain DEF PlainCall, Running, InMain
  <2> QED
    BY <1>1, <2>1, <2>2 DEF PlainCall, KeptInv, Running, At
<1>5. CASE QueryCall
  <2>1. Ordered(calls', prevent, exiting)
    BY <1>5, OrderedDequeued DEF QueryCall, KeptInv
  <2>2. OnlyExitsAsk(events', exiting)
    <3>1. "notMinimized" \in Event
      BY DEF Event
    <3> QED
      BY <1>5, <3>1, AskedQueued DEF QueryCall, KeptInv
  <2> QED
    BY <1>5, <2>1, <2>2 DEF QueryCall, KeptInv, Running, At, runnerVars
<1>2. CASE TrayCall
  <2>1. Ordered(calls', prevent, exiting)
    BY <1>2, OrderedDequeued DEF TrayCall, KeptInv
  <2>2. Head(calls) \in {"initSystemTray", "setContextMenu"} => prevent
    <3>1. calls # <<>> => Head(calls) = calls[1] /\ 1 \in 1 .. Len(calls)
      BY Dequeued
    <3> QED
      BY <1>2, <3>1 DEF TrayCall, KeptInv, Ordered
  <2> QED
    BY <1>2, <2>1, <2>2 DEF TrayCall, KeptInv, Running, At, runnerVars
<1>3. CASE CloseCall
  <2>1. Ordered(calls', prevent, exiting)
    BY <1>3, OrderedDequeued DEF CloseCall, KeptInv
  <2> QED
    BY <1>3, <2>1, KeptClose DEF CloseCall
<1>4. CASE DestroyCalled
  <2>1. exiting
    <3>1. Head(calls) = calls[1] /\ 1 \in 1 .. Len(calls)
      BY <1>4, Dequeued DEF DestroyCalled
    <3> QED
      BY <1>4, <3>1 DEF DestroyCalled, KeptInv, Ordered
  <2>2. Ordered(calls', prevent, exiting)
    BY <1>4, OrderedDequeued DEF DestroyCalled, KeptInv
  <2> QED
    BY <1>4, <2>1, <2>2 DEF DestroyCalled, KeptInv
<1> QED
  BY <1>1, <1>2, <1>3, <1>4, <1>5 DEF Plugins

LEMMA KeptUser == ASSUME TypeOK, KeptInv, User PROVE KeptInv'
<1> USE DEF TypeOK
<1>1. CASE AltF4
  BY <1>1, KeptClose DEF AltF4, KeptInv
<1>2. CASE ClickX
  <2>1. "close" \in PluginCall
    BY DEF PluginCall
  <2>2. Ordered(calls', prevent, exiting)
    BY <1>2, <2>1, OrderedQueued DEF ClickX, KeptInv
  <2> QED
    BY <1>2, <2>2 DEF ClickX, KeptInv, Running, At, runnerVars
<1>3. ASSUME NEW event \in TrayEvent, UseTray(event) PROVE KeptInv'
  <2>1. exiting' \in BOOLEAN /\ (exiting => exiting') /\ (event = "Exit" => exiting')
    BY <1>3 DEF UseTray, TrayEvent
  <2>2. OnlyExitsAsk(events, exiting') /\ Ordered(calls, prevent, exiting')
    BY <2>1 DEF OnlyExitsAsk, Ordered, KeptInv
  <2>3. OnlyExitsAsk(events', exiting')
    <3>1. event \in Event
      BY DEF Event
    <3> QED
      BY <1>3, <2>1, <2>2, <3>1, AskedQueued DEF UseTray
  <2> QED
    BY <1>3, <2>1, <2>2, <2>3 DEF UseTray, KeptInv, Running, At, runnerVars
<1> QED
  BY <1>1, <1>2, <1>3 DEF User

LEMMA KeptStep == TypeInv /\ KeptInv /\ [Next]_vars => KeptInv'
<1> SUFFICES ASSUME TypeInv, KeptInv, [Next]_vars PROVE KeptInv'
  OBVIOUS
<1>0. TypeOK /\ Place
  BY TypeParts DEF TypeInv
<1>1. CASE FirstFrame
  BY <1>1 DEF FirstFrame, trayVars, KeptInv, Running, At
<1>2. CASE UNCHANGED vars
  BY <1>2 DEF vars, KeptInv, Running, At
<1> QED
  BY <1>0, <1>1, <1>2, KeptThread, KeptDart, KeptPlugins, KeptUser DEF Next

\* Once the plugin has the tray's icon on order, closing the window only hides it
\* (windowManager.setPreventClose in initState): until Exit the application stays
\* in its loop with its window alive.
THEOREM AlwaysKeptAlive == Spec => []KeptAlive
<1>1. KeptInv => KeptAlive
  BY DEF KeptInv, KeptAlive
<1> QED
  BY <1>1, TypeInit, TypeStep, KeptInit, KeptStep, PTL DEF Spec

(***************************************************************************)
(* Requests hold                                                           *)
(***************************************************************************)

\* The last member of s that is not in mute is one of asks; or there is none.
EndsIn(s, asks, mute) ==
    \E i \in 1 .. Len(s) : s[i] \in asks /\ \A j \in i + 1 .. Len(s) : s[j] \in mute
Silent(s, mute) == \A i \in 1 .. Len(s) : s[i] \in mute

\* Who asks for what: a show does in both its halves.
EventsFor(what) ==
    IF what = "shown" THEN {"click", "Show", "notMinimized"} ELSE {"close", "Hide"}
CallsFor(what) == IF what = "shown" THEN {"isMinimized", "show"} ELSE {"hide"}
MuteEvents(what) ==
    IF what = "shown" THEN {"click", "Show", "notMinimized", "Exit"}
    ELSE {"close", "Hide", "Exit"}
OtherCalls == {"close", "destroy", "preventClose", "initSystemTray", "setContextMenu"}
MuteCalls(what) == CallsFor(what) \cup OtherCalls

\* Where the last request is: with the events, with the calls, or carried out.
Heading ==
    \/ EndsIn(events, EventsFor(wish), MuteEvents(wish))
    \/ /\ Silent(events, MuteEvents(wish))
       /\ \/ EndsIn(calls, CallsFor(wish), MuteCalls(wish))
          \/ Silent(calls, MuteCalls(wish)) /\ visible = (wish = "shown")

\* No show is still to be called.
Still ==
    /\ dart = "run" /\ ~frameDue
    /\ Silent(events, Event \ {"click", "Show"})
    /\ Silent(calls, PluginCall \ {"isMinimized"})

WishInv ==
    /\ content /\ dart # "run" => frameDue
    /\ wish = "hidden" => Still
    /\ wish \in {"shown", "hidden"} /\ hwnd = "alive" => Heading

LEMMA EndsQueued ==
    ASSUME NEW S, NEW s \in Seq(S), NEW x \in S, NEW asks, NEW mute
    PROVE  /\ x \in asks => EndsIn(Append(s, x), asks, mute)
           /\ x \in mute /\ EndsIn(s, asks, mute) => EndsIn(Append(s, x), asks, mute)
           /\ x \in mute /\ Silent(s, mute) => Silent(Append(s, x), mute)
<1> DEFINE t == Append(s, x)
<1>0. /\ Len(t) = Len(s) + 1 /\ Len(s) \in Nat
      /\ \A i \in 1 .. Len(s) : t[i] = s[i]
      /\ t[Len(s) + 1] = x
  BY Queued
<1> HIDE DEF t
<1>1. ASSUME x \in asks PROVE EndsIn(t, asks, mute)
  <2>1. /\ Len(s) + 1 \in 1 .. Len(t)
        /\ \A j \in Len(s) + 1 + 1 .. Len(t) : t[j] \in mute
    BY <1>0
  <2> QED
    BY <1>0, <1>1, <2>1 DEF EndsIn
<1>2. ASSUME x \in mute, EndsIn(s, asks, mute) PROVE EndsIn(t, asks, mute)
  <2>1. PICK i \in 1 .. Len(s) : s[i] \in asks /\ \A j \in i + 1 .. Len(s) : s[j] \in mute
    BY <1>2 DEF EndsIn
  <2>2. i \in 1 .. Len(t) /\ t[i] \in asks
    BY <1>0, <2>1
  <2>3. \A j \in i + 1 .. Len(t) : t[j] \in mute
    BY <1>0, <1>2, <2>1
  <2> QED
    BY <2>2, <2>3 DEF EndsIn
<1>3. ASSUME x \in mute, Silent(s, mute) PROVE Silent(t, mute)
  BY <1>0, <1>3 DEF Silent
<1> QED
  BY <1>1, <1>2, <1>3 DEF t

LEMMA EndsDequeued ==
    ASSUME NEW S, NEW s \in Seq(S), s # <<>>, NEW asks, NEW mute
    PROVE  /\ EndsIn(s, asks, mute) =>
                \/ EndsIn(Tail(s), asks, mute)
                \/ Head(s) \in asks /\ Silent(Tail(s), mute)
           /\ Silent(s, mute) => Head(s) \in mute /\ Silent(Tail(s), mute)
<1> DEFINE t == Tail(s)
<1>0. /\ Head(s) = s[1] /\ Len(t) = Len(s) - 1 /\ Len(s) \in Nat \ {0}
      /\ \A i \in 1 .. Len(s) - 1 : t[i] = s[i + 1]
  BY Dequeued
<1> HIDE DEF t
<1>1. ASSUME EndsIn(s, asks, mute), ~(Head(s) \in asks /\ Silent(t, mute))
      PROVE  EndsIn(t, asks, mute)
  <2>1. PICK i \in 1 .. Len(s) : s[i] \in asks /\ \A j \in i + 1 .. Len(s) : s[j] \in mute
    BY <1>1 DEF EndsIn
  <2>2. i # 1
    <3> SUFFICES ASSUME i = 1 PROVE FALSE
      OBVIOUS
    <3>1. \A j \in 1 .. Len(t) : j + 1 \in i + 1 .. Len(s) /\ t[j] = s[j + 1]
      BY <1>0
    <3> QED
      BY <1>0, <1>1, <2>1, <3>1 DEF Silent
  <2>3. i - 1 \in 1 .. Len(t) /\ t[i - 1] \in asks
    BY <1>0, <2>1, <2>2
  <2>4. ASSUME NEW j \in (i - 1) + 1 .. Len(t) PROVE t[j] \in mute
    <3>1. j + 1 \in i + 1 .. Len(s) /\ t[j] = s[j + 1]
      BY <1>0
    <3> QED
      BY <2>1, <3>1
  <2> QED
    BY <2>3, <2>4 DEF EndsIn
<1>2. ASSUME Silent(s, mute) PROVE Head(s) \in mute /\ Silent(t, mute)
  <2>1. \A j \in 1 .. Len(t) : j + 1 \in 1 .. Len(s) /\ t[j] = s[j + 1]
    BY <1>0
  <2> QED
    BY <1>0, <1>2, <2>1 DEF Silent
<1> QED
  BY <1>1, <1>2 DEF t

\* A call that asks for nothing changes nothing, more or less.
LEMMA HeadingCall ==
    ASSUME TypeOK, Heading, UNCHANGED <<events, wish, visible>>,
           \/ \E x \in OtherCalls : calls' = Append(calls, x)
           \/ calls # <<>> /\ Head(calls) \in OtherCalls /\ calls' = Tail(calls)
    PROVE  Heading'
<1> USE DEF TypeOK
<1>1. ASSUME NEW x \in OtherCalls, calls' = Append(calls, x)
      PROVE  /\ EndsIn(calls, CallsFor(wish), MuteCalls(wish)) =>
                    EndsIn(calls', CallsFor(wish), MuteCalls(wish))
             /\ Silent(calls, MuteCalls(wish)) => Silent(calls', MuteCalls(wish))
  <2>1. x \in PluginCall /\ x \in MuteCalls(wish)
    BY DEF OtherCalls, MuteCalls, PluginCall
  <2> QED
    BY <1>1, <2>1, EndsQueued
<1>2. ASSUME calls # <<>>, Head(calls) \in OtherCalls, calls' = Tail(calls)
      PROVE  /\ EndsIn(calls, CallsFor(wish), MuteCalls(wish)) =>
                    EndsIn(calls', CallsFor(wish), MuteCalls(wish))
             /\ Silent(calls, MuteCalls(wish)) => Silent(calls', MuteCalls(wish))
  <2>1. Head(calls) \notin CallsFor(wish)
    BY <1>2 DEF CallsFor, OtherCalls
  <2> QED
    BY <1>2, <2>1, EndsDequeued
<1> QED
  BY <1>1, <1>2 DEF Heading

\* It leaves a window that no show is coming for as it is.
LEMMA StillCall ==
    ASSUME TypeOK, Still, UNCHANGED <<events, dart, frameDue>>,
           \/ \E x \in PluginCall \ {"isMinimized"} : calls' = Append(calls, x)
           \/ calls # <<>> /\ calls' = Tail(calls)
    PROVE  Still'
<1> USE DEF TypeOK
<1>1. ASSUME NEW x \in PluginCall \ {"isMinimized"}, calls' = Append(calls, x)
      PROVE  Silent(calls', PluginCall \ {"isMinimized"})
  BY <1>1, EndsQueued DEF Still
<1>2. ASSUME calls # <<>>, calls' = Tail(calls)
      PROVE  Silent(calls', PluginCall \ {"isMinimized"})
  BY <1>2, EndsDequeued DEF Still
<1> QED
  BY <1>1, <1>2 DEF Still

\* A request to hide counts only when no show is coming.
LEMMA StillOfShowComing ==
    ASSUME TypeOK, Place, WishInv, Running, WishHidden,
           NEW e \in Event \ {"click", "Show"}, events' = Append(events, e),
           UNCHANGED <<dart, frameDue>>,
           UNCHANGED calls \/ (calls # <<>> /\ calls' = Tail(calls))
    PROVE  wish' \in {"hidden", "crossed"} /\ (wish' = "hidden" => Still')
<1> USE DEF TypeOK
<1>1. CASE ShowComing
  BY <1>1 DEF WishHidden
<1>2. CASE ~ShowComing
  <2>1. wish' = "hidden"
    BY <1>2 DEF WishHidden
  <2>2. dart = "run" /\ ~frameDue
    BY <1>2, LoopIsMain DEF Running, InMain, WishInv, ShowComing
  <2>3. /\ Silent(events, Event \ {"click", "Show"})
        /\ Silent(calls, PluginCall \ {"isMinimized"})
    <3>1. /\ \A i \in 1 .. Len(events) : events[i] \in Event
          /\ \A i \in 1 .. Len(calls) : calls[i] \in PluginCall
      OBVIOUS
    <3> QED
      BY <1>2, <3>1 DEF ShowComing, Silent
  <2>4. Silent(events', Event \ {"click", "Show"})
    BY <2>3, EndsQueued
  <2>5. Silent(calls', PluginCall \ {"isMinimized"})
    BY <2>3, EndsDequeued
  <2> QED
    BY <2>1, <2>2, <2>4, <2>5 DEF Still
<1> QED
  BY <1>1, <1>2

\* A window comes to life and gets its child before anybody has asked anything.
LEMMA YoungPlaces == ASSUME Place, At("CreateWindow") \/ At("Child") PROVE wish = "any"
<1>1. ASSUME NEW k \in 1 .. 18, On(WinMain, k), InMain(k) PROVE wish = "any"
  <2>1. k \in {7, 9}
    BY <1>1, MainHead, WinMainIs DEF At
  <2> QED
    BY <1>1, <2>1 DEF InMain, Young
<1>2. ~On(LoopMessage, 1)
  <2>1. ASSUME On(LoopMessage, 1) PROVE Head(stack) = LoopMessage[1]
    BY <2>1, LoopMessageHead
  <2> QED
    BY <2>1 DEF At, LoopMessage
<1>3. ASSUME NEW k \in 1 .. 5, On(InLoop, k) PROVE FALSE
  <2>1. Head(stack) = InLoop[k]
    BY <1>3, InLoopHead
  <2> QED
    BY <2>1 DEF At, InLoop
<1>4. ~On(EndMessage, 1)
  <2>1. ASSUME On(EndMessage, 1) PROVE Head(stack) = EndMessage[1]
    BY <2>1, EndMessageHead
  <2> QED
    BY <2>1 DEF At, EndMessage
<1>5. ASSUME NEW k \in 1 .. 6, On(InEnd, k) PROVE FALSE
  <2>1. Head(stack) = InEnd[k]
    BY <1>5, InEndHead
  <2> QED
    BY <2>1 DEF At, InEnd
<1> QED
  BY <1>1, <1>2, <1>3, <1>4, <1>5 DEF Place

LEMMA WishInit == Init => WishInv
  BY DEF Init, RunnerInit, WishInv

LEMMA WishThread == ASSUME Place, TypeOK, WishInv, ThreadStep PROVE WishInv'
<1>1. UNCHANGED <<dart, calls, events, wish>>
  BY DEF ThreadStep, trayVars
<1>2. CASE CreateWindow \/ Child
  <2>1. wish = "any"
    BY <1>2, YoungPlaces DEF CreateWindow, Child
  <2>2. content' /\ dart' # "run" => frameDue'
    BY <1>1, <1>2 DEF CreateWindow, Child, WishInv
  <2> QED
    BY <1>1, <2>1, <2>2 DEF WishInv
<1>3. CASE ~(CreateWindow \/ Child)
  <2>1. /\ UNCHANGED <<content, frameDue>>
        /\ hwnd' = "alive" => UNCHANGED <<hwnd, visible>>
    BY <1>3 DEF ThreadStep, Thread, Arguments, Construct, GetWindowClass, Controller,
                SetQuitOnClose, LoopEnds, OnDestroy, DestroyWindow, WmDestroy, PostQuit,
                Gone, ForgetHandle, Unregister, Members, Uncount, Freed
  <2> QED
    BY <1>1, <2>1 DEF WishInv, Heading, Still
<1> QED
  BY <1>2, <1>3

\* A message to close is a request to hide.
LEMMA WishClose ==
    ASSUME TypeOK, Place, WishInv, CloseMessage, UNCHANGED dart,
           UNCHANGED calls \/ (calls # <<>> /\ calls' = Tail(calls))
    PROVE  WishInv'
<1> USE DEF TypeOK
<1>1. CASE prevent
  <2>1. /\ events' = Append(events, "close") /\ UNCHANGED runnerVars /\ WishHidden
        /\ Running /\ "close" \in Event \ {"click", "Show"}
    BY <1>1 DEF CloseMessage, Event
  <2>2. wish' \in {"hidden", "crossed"} /\ (wish' = "hidden" => Still')
    BY <2>1, StillOfShowComing DEF runnerVars
  <2>3. EndsIn(events', EventsFor("hidden"), MuteEvents("hidden"))
    <3>1. "close" \in EventsFor("hidden")
      BY DEF EventsFor
    <3> QED
      BY <2>1, <3>1, EndsQueued
  <2> QED
    BY <2>1, <2>2, <2>3 DEF WishInv, Heading, runnerVars
<1>2. CASE ~prevent
  <2>1. /\ hwnd' = "dying" /\ UNCHANGED <<content, frameDue, events, wish, dart>>
    BY <1>2 DEF CloseMessage, Destroyed
  <2>2. Still => Still'
    <3>1. ASSUME Still, calls # <<>>, calls' = Tail(calls) PROVE Still'
      BY <2>1, <3>1, StillCall
    <3>2. ASSUME Still, UNCHANGED calls PROVE Still'
      BY <2>1, <3>2 DEF Still
    <3> QED
      BY <3>1, <3>2
  <2> QED
    BY <2>1, <2>2 DEF WishInv
<1> QED
  BY <1>1, <1>2

LEMMA WishDart == ASSUME TypeOK, WishInv, Dart PROVE WishInv'
<1> USE DEF TypeOK
<1>0. UNCHANGED <<wish, visible, content, frameDue, hwnd>>
  BY DEF Dart, MainShows, MainThrows, InitState, BuildMenu, RegisterHandler, HandleEvent,
         runnerVars
<1>1. CASE MainShows
  <2>1. /\ "isMinimized" \in PluginCall /\ "isMinimized" \in CallsFor("shown")
    BY DEF PluginCall, CallsFor
  <2>2. ASSUME wish = "shown", Heading PROVE Heading'
    <3>1. EndsIn(calls', CallsFor("shown"), MuteCalls("shown"))
      BY <1>1, <2>1, EndsQueued DEF MainShows
    <3> QED
      BY <1>0, <1>1, <2>2, <3>1 DEF MainShows, Heading
  <2> QED
    BY <1>0, <1>1, <2>2 DEF MainShows, WishInv, Still
<1>2. CASE MainThrows \/ RegisterHandler
  BY <1>0, <1>2 DEF MainThrows, RegisterHandler, WishInv, Heading, Still
<1>3. CASE InitState
  <2>1. {"preventClose", "initSystemTray"} \subseteq PluginCall \cap OtherCalls
    BY DEF PluginCall, OtherCalls
  <2>2. calls' = Append(Append(calls, "preventClose"), "initSystemTray")
    BY <1>3, <2>1 DEF InitState
  <2>3. Append(calls, "preventClose") \in Seq(PluginCall)
    BY <2>1
  <2>4. {"preventClose", "initSystemTray"} \subseteq MuteCalls(wish)
    BY <2>1 DEF MuteCalls
  <2>5. /\ EndsIn(calls, CallsFor(wish), MuteCalls(wish)) =>
                EndsIn(calls', CallsFor(wish), MuteCalls(wish))
        /\ Silent(calls, MuteCalls(wish)) => Silent(calls', MuteCalls(wish))
    BY <2>1, <2>2, <2>3, <2>4, EndsQueued
  <2>6. Heading => Heading'
    BY <1>0, <1>3, <2>5 DEF InitState, Heading
  <2> QED
    BY <1>0, <1>3, <2>6 DEF InitState, WishInv, Still
<1>4. CASE BuildMenu
  <2>1. "setContextMenu" \in OtherCalls /\ "setContextMenu" \in PluginCall \ {"isMinimized"}
    BY DEF OtherCalls, PluginCall
  <2>2. Heading => Heading'
    BY <1>0, <1>4, <2>1, HeadingCall DEF BuildMenu
  <2>3. Still => Still'
    BY <1>0, <1>4, <2>1, StillCall DEF BuildMenu
  <2> QED
    BY <1>0, <1>4, <2>2, <2>3 DEF BuildMenu, WishInv
<1>5. CASE HandleEvent
  <2> DEFINE e == Head(events)
  <2>0. e \in Event /\ Tail(events) \in Seq(Event) /\ events' = Tail(events)
    BY <1>5, Dequeued DEF HandleEvent
  <2>1. PICK c \in {"isMinimized", "show", "hide", "destroy"} :
            /\ Answer(e) = <<c>>
            /\ c \in PluginCall
            /\ c = "isMinimized" => e \in {"click", "Show"}
            /\ \A what : e \in EventsFor(what) => c \in CallsFor(what)
            /\ \A what : e \in MuteEvents(what) => c \in MuteCalls(what)
    BY <2>0 DEF Answer, Event, TrayEvent, EventsFor, CallsFor, MuteEvents, MuteCalls,
                OtherCalls, PluginCall
  <2>2. calls' = Append(calls, c)
    <3>1. calls' = calls \o <<c>>
      BY <1>5, <2>1 DEF HandleEvent
    <3> QED
      BY <2>1, <3>1, Queued
  <2>3. events # <<>> /\ UNCHANGED dart
    BY <1>5 DEF HandleEvent
  <2>4. ASSUME Heading PROVE Heading'
    <3>1. CASE EndsIn(events', EventsFor(wish), MuteEvents(wish))
      BY <1>0, <3>1 DEF Heading
    <3>2. CASE e \in EventsFor(wish) /\ Silent(events', MuteEvents(wish))
      <4>1. EndsIn(calls', CallsFor(wish), MuteCalls(wish))
        BY <2>1, <2>2, <3>2, EndsQueued
      <4> QED
        BY <1>0, <3>2, <4>1 DEF Heading
    <3>3. CASE /\ Silent(events, MuteEvents(wish))
               /\ \/ EndsIn(calls, CallsFor(wish), MuteCalls(wish))
                  \/ Silent(calls, MuteCalls(wish)) /\ visible = (wish = "shown")
      <4>1. e \in MuteEvents(wish) /\ Silent(events', MuteEvents(wish))
        BY <2>0, <2>3, <3>3, EndsDequeued
      <4>2. c \in MuteCalls(wish)
        BY <2>1, <4>1
      <4>3. /\ EndsIn(calls, CallsFor(wish), MuteCalls(wish)) =>
                    EndsIn(calls', CallsFor(wish), MuteCalls(wish))
            /\ Silent(calls, MuteCalls(wish)) => Silent(calls', MuteCalls(wish))
        BY <2>1, <2>2, <4>2, EndsQueued
      <4> QED
        BY <1>0, <3>3, <4>1, <4>3 DEF Heading
    <3> QED
      BY <2>0, <2>3, <2>4, <3>1, <3>2, <3>3, EndsDequeued DEF Heading
  <2>5. ASSUME Still PROVE Still'
    <3>1. e \in Event \ {"click", "Show"} /\ Silent(events', Event \ {"click", "Show"})
      BY <2>0, <2>3, <2>5, EndsDequeued DEF Still
    <3>2. Silent(calls', PluginCall \ {"isMinimized"})
      BY <2>1, <2>2, <2>5, <3>1, EndsQueued DEF Still
    <3> QED
      BY <1>0, <2>3, <2>5, <3>1, <3>2 DEF Still
  <2> QED
    BY <1>0, <2>3, <2>4, <2>5 DEF WishInv
<1> QED
  BY <1>1, <1>2, <1>3, <1>4, <1>5 DEF Dart

LEMMA WishPlugins == ASSUME TypeOK, Place, WishInv, Plugins PROVE WishInv'
<1> USE DEF TypeOK
<1>1. CASE PlainCall
  <2>0. /\ calls # <<>> /\ calls' = Tail(calls)
        /\ UNCHANGED <<events, wish, content, dart, frameDue, hwnd>>
    BY <1>1 DEF PlainCall
  <2>1. ASSUME Heading, wish \in {"shown", "hidden"} PROVE Heading'
    <3>1. CASE Head(calls) = "preventClose"
      <4>1. Head(calls) \in OtherCalls /\ UNCHANGED visible
        BY <1>1, <3>1 DEF OtherCalls, PlainCall
      <4> QED
        BY <2>0, <2>1, <4>1, HeadingCall
    <3>2. CASE Head(calls) \in {"show", "hide"}
      <4>1. visible' = (Head(calls) = "show")
        BY <1>1, <3>2 DEF PlainCall
      <4>2. Head(calls) \in MuteCalls(wish) => visible' = (wish = "shown")
        BY <2>1, <3>2, <4>1 DEF MuteCalls, CallsFor, OtherCalls
      <4>3. CASE EndsIn(events, EventsFor(wish), MuteEvents(wish))
        BY <2>0, <4>3 DEF Heading
      <4>4. CASE Silent(events, MuteEvents(wish)) /\ EndsIn(calls, CallsFor(wish), MuteCalls(wish))
        <5>1. \/ EndsIn(calls', CallsFor(wish), MuteCalls(wish))
              \/ Head(calls) \in CallsFor(wish) /\ Silent(calls', MuteCalls(wish))
          BY <2>0, <4>4, EndsDequeued
        <5>2. Head(calls) \in CallsFor(wish) => visible' = (wish = "shown")
          BY <4>2 DEF MuteCalls
        <5> QED
          BY <2>0, <4>4, <5>1, <5>2 DEF Heading
      <4>5. CASE Silent(events, MuteEvents(wish)) /\ Silent(calls, MuteCalls(wish))
        <5>1. Head(calls) \in MuteCalls(wish) /\ Silent(calls', MuteCalls(wish))
          BY <2>0, <4>5, EndsDequeued
        <5> QED
          BY <2>0, <4>2, <4>5, <5>1 DEF Heading
      <4> QED
        BY <2>1, <4>3, <4>4, <4>5 DEF Heading
    <3> QED
      BY <1>1, <3>1, <3>2 DEF PlainCall
  <2>2. Still => Still'
    BY <2>0, StillCall
  <2> QED
    BY <2>0, <2>1, <2>2 DEF WishInv
<1>2. CASE QueryCall
  <2>0. /\ calls # <<>> /\ calls' = Tail(calls) /\ Head(calls) = "isMinimized"
        /\ events' = Append(events, "notMinimized") /\ "notMinimized" \in Event
        /\ UNCHANGED <<wish, visible, content, dart, frameDue, hwnd>>
    BY <1>2 DEF QueryCall, runnerVars, Event
  <2>1. ~Still
    BY <2>0, EndsDequeued DEF Still
  <2>2. ASSUME wish = "shown" PROVE Heading'
    <3>1. "notMinimized" \in EventsFor("shown")
      BY DEF EventsFor
    <3>2. EndsIn(events', EventsFor("shown"), MuteEvents("shown"))
      BY <2>0, <3>1, EndsQueued
    <3> QED
      BY <2>0, <2>2, <3>2 DEF Heading
  <2> QED
    BY <2>0, <2>1, <2>2 DEF WishInv
<1>3. CASE TrayCall
  <2>1. /\ Head(calls) \in OtherCalls /\ calls # <<>> /\ calls' = Tail(calls)
        /\ UNCHANGED <<events, wish, visible, content, dart, frameDue, hwnd>>
    BY <1>3 DEF TrayCall, OtherCalls, runnerVars
  <2>2. (Heading => Heading') /\ (Still => Still')
    BY <2>1, HeadingCall, StillCall
  <2> QED
    BY <2>1, <2>2 DEF WishInv
<1>4. CASE CloseCall
  BY <1>4, WishClose DEF CloseCall
<1>5. CASE DestroyCalled
  <2>1. /\ Head(calls) \in OtherCalls /\ calls # <<>> /\ calls' = Tail(calls)
        /\ UNCHANGED <<events, wish, dart>>
    BY <1>5 DEF DestroyCalled, OtherCalls
  <2>2. CASE hwnd = "alive" /\ Destroyed
    <3>1. hwnd' = "dying" /\ UNCHANGED <<content, frameDue>>
      BY <2>2 DEF Destroyed
    <3>2. Still => Still'
      BY <2>1, <3>1, StillCall
    <3> QED
      BY <2>1, <3>1, <3>2 DEF WishInv
  <2>3. CASE ~(hwnd = "alive" /\ Destroyed)
    <3>1. UNCHANGED <<visible, content, frameDue, hwnd>>
      BY <1>5, <2>3 DEF DestroyCalled
    <3>2. (Heading => Heading') /\ (Still => Still')
      BY <2>1, <3>1, HeadingCall, StillCall
    <3> QED
      BY <2>1, <3>1, <3>2 DEF WishInv
  <2> QED
    BY <2>2, <2>3
<1> QED
  BY <1>1, <1>2, <1>3, <1>4, <1>5 DEF Plugins

LEMMA WishUser == ASSUME TypeOK, WishInv, Place, User PROVE WishInv'
<1> USE DEF TypeOK
<1>1. CASE AltF4
  BY <1>1, WishClose DEF AltF4
<1>2. CASE ClickX
  <2>1. "close" \in OtherCalls /\ "close" \in PluginCall \ {"isMinimized"}
    BY DEF OtherCalls, PluginCall
  <2>2. /\ calls' = Append(calls, "close")
        /\ UNCHANGED <<events, wish, visible, content, dart, frameDue, hwnd>>
    BY <1>2 DEF ClickX, runnerVars
  <2>3. (Heading => Heading') /\ (Still => Still')
    BY <2>1, <2>2, HeadingCall, StillCall
  <2> QED
    BY <2>2, <2>3 DEF WishInv
<1>3. ASSUME NEW event \in TrayEvent, UseTray(event) PROVE WishInv'
  <2>0. /\ events' = Append(events, event) /\ event \in Event /\ Running
        /\ UNCHANGED <<calls, visible, content, dart, frameDue, hwnd>>
    BY <1>3 DEF UseTray, runnerVars, Event
  <2>1. CASE event = "Exit"
    <3>1. UNCHANGED wish
      BY <1>3, <2>1 DEF UseTray
    <3>2. event \in MuteEvents(wish) /\ event \in Event \ {"click", "Show"}
      BY <2>0, <2>1 DEF MuteEvents
    <3>3. ASSUME Heading PROVE Heading'
      BY <2>0, <3>1, <3>2, <3>3, EndsQueued DEF Heading
    <3>4. ASSUME Still PROVE Still'
      BY <2>0, <3>2, <3>4, EndsQueued DEF Still
    <3> QED
      BY <2>0, <3>1, <3>3, <3>4 DEF WishInv
  <2>2. CASE event \in {"click", "Show"}
    <3>1. wish' = "shown"
      BY <1>3, <2>2 DEF UseTray
    <3>2. event \in EventsFor("shown")
      BY <2>2 DEF EventsFor
    <3>3. EndsIn(events', EventsFor("shown"), MuteEvents("shown"))
      BY <2>0, <3>2, EndsQueued
    <3> QED
      BY <2>0, <3>1, <3>3 DEF WishInv, Heading
  <2>3. CASE event = "Hide"
    <3>1. WishHidden /\ event \in Event \ {"click", "Show"} /\ event \in EventsFor("hidden")
      BY <1>3, <2>0, <2>3 DEF UseTray, EventsFor
    <3>2. wish' \in {"hidden", "crossed"} /\ (wish' = "hidden" => Still')
      BY <2>0, <3>1, StillOfShowComing, Zenon
    <3>3. EndsIn(events', EventsFor("hidden"), MuteEvents("hidden"))
      BY <2>0, <3>1, EndsQueued
    <3> QED
      BY <2>0, <3>2, <3>3 DEF WishInv, Heading
  <2> QED
    BY <2>1, <2>2, <2>3 DEF TrayEvent
<1> QED
  BY <1>1, <1>2, <1>3 DEF User

LEMMA WishStep == TypeInv /\ WishInv /\ [Next]_vars => WishInv'
<1> SUFFICES ASSUME TypeInv, WishInv, [Next]_vars PROVE WishInv'
  OBVIOUS
<1>0. TypeOK /\ Place
  BY TypeParts DEF TypeInv
<1>1. CASE FirstFrame
  <2>1. /\ UNCHANGED <<dart, calls, events, wish, hwnd, content>> /\ dart = "run" /\ frameDue
        /\ visible => visible'
    BY <1>1 DEF FirstFrame, trayVars
  <2>2. wish # "hidden"
    BY <2>1 DEF WishInv, Still
  <2>3. visible' \in BOOLEAN
    BY <1>0, <1>1 DEF FirstFrame, TypeOK, RunnerTypeOK
  <2>4. wish = "shown" /\ Heading => Heading'
    BY <2>1, <2>3 DEF Heading
  <2> QED
    BY <2>1, <2>2, <2>4 DEF WishInv
<1>2. CASE UNCHANGED vars
  BY <1>2 DEF vars, WishInv, Heading, Still
<1> QED
  BY <1>0, <1>1, <1>2, WishThread, WishDart, WishPlugins, WishUser DEF Next

\* With nothing queued between Dart and the plugins, a window that the tray icon
\* or its menu asked for last is shown, whatever hid it before, and one that was to
\* be hidden last (onWindowClose, the menu) is hidden, unless that crossed a show
\* still to be called.
THEOREM RequestsAlwaysHold == Spec => []RequestsHold
<1>1. WishInv /\ TypeOK => RequestsHold
  <2> SUFFICES ASSUME WishInv, TypeOK, hwnd = "alive", calls = <<>>, events = <<>>,
                      wish \in {"shown", "hidden"}
               PROVE  visible = (wish = "shown")
    BY DEF RequestsHold
  <2>1. Len(calls) = 0 /\ Len(events) = 0
    OBVIOUS
  <2> QED
    BY <2>1 DEF WishInv, Heading, EndsIn
<1>2. TypeInv => TypeOK
  BY TypeParts DEF TypeInv
<1> QED
  BY <1>1, <1>2, TypeInit, TypeStep, WishInit, WishStep, PTL DEF Spec

(***************************************************************************)
(* The loop never waits for nothing                                        *)
(***************************************************************************)

Has(s, x) == \E i \in 1 .. Len(s) : s[i] = x

LEMMA HasQueued ==
    ASSUME NEW S, NEW s \in Seq(S), NEW x \in S
    PROVE  Has(Append(s, x), x) /\ \A y : Has(s, y) => Has(Append(s, x), y)
<1> DEFINE t == Append(s, x)
<1>0. /\ Len(t) = Len(s) + 1 /\ Len(s) \in Nat
      /\ \A i \in 1 .. Len(s) : t[i] = s[i]
      /\ t[Len(s) + 1] = x
  BY Queued
<1> HIDE DEF t
<1>1. Len(s) + 1 \in 1 .. Len(t) /\ 1 .. Len(s) \subseteq 1 .. Len(t)
  BY <1>0
<1>2. Has(t, x) /\ \A y : Has(s, y) => Has(t, y)
  BY <1>0, <1>1 DEF Has
<1> QED
  BY <1>2 DEF t

LEMMA HasDequeued ==
    ASSUME NEW S, NEW s \in Seq(S), s # <<>>, NEW x, Has(s, x), Head(s) # x
    PROVE  Has(Tail(s), x)
<1>0. /\ Head(s) = s[1] /\ Len(Tail(s)) = Len(s) - 1 /\ Len(s) \in Nat
      /\ \A i \in 1 .. Len(s) - 1 : Tail(s)[i] = s[i + 1]
  BY Dequeued
<1>1. PICK i \in 1 .. Len(s) : s[i] = x
  BY DEF Has
<1>2. i - 1 \in 1 .. Len(Tail(s)) /\ Tail(s)[i - 1] = x
  BY <1>0, <1>1
<1> QED
  BY <1>2 DEF Has

\* The message that destroys the window while the loop runs is not over before
\* WM_QUIT has been posted.
StrandInv ==
    /\ NeverStranded
    /\ At("Gone") /\ object = "flutter" => quit

LEMMA StrandIs ==
    NeverStranded <=>
        (At("loop") => /\ hwnd = "alive" \/ quit
                       /\ exiting => quit \/ Has(events, "Exit") \/ Has(calls, "destroy"))
  BY DEF NeverStranded, Has

LEMMA TopIs ==
    ASSUME NEW top \in Seq(Step), NEW rest \in Seq(Step), Len(top) > 0
    PROVE  top \o rest # <<>> /\ Head(top \o rest) = top[1]
<1>1. /\ top \o rest \in Seq(Step) /\ Len(top \o rest) = Len(top) + Len(rest)
      /\ \A i \in 1 .. Len(top) + Len(rest) :
            (top \o rest)[i] = IF i <= Len(top) THEN top[i] ELSE rest[i - Len(top)]
  BY ConcatProperties
<1>2. Len(top) \in Nat \ {0} /\ Len(rest) \in Nat
  BY LenProperties
<1> QED
  BY <1>1, <1>2

\* A step that is not done puts a call on the stack, or leaves wWinMain.
LEMMA NotDone ==
    ASSUME stack \in Seq(Step), Thread, ~Done
    PROVE  stack' = <<>> \/ Head(stack') \in {"Members", "WM_DESTROY", "OnDestroy"}
<1>0. Tail(stack) \in Seq(Step)
  BY DEF Thread, At, Arguments, Construct, GetWindowClass, CreateWindow,
     Controller, Child, SetQuitOnClose, LoopEnds, OnDestroy, DestroyWindow, WmDestroy,
     PostQuit, Gone, ForgetHandle, Unregister, Members, Uncount, Freed
<1>1. CASE stack' = DestructCall
  BY <1>1 DEF DestructCall, DestroyCall
<1>2. CASE Call(<<"WM_DESTROY", "Gone", "ForgetHandle">>)
  <2> DEFINE top == <<"WM_DESTROY", "Gone", "ForgetHandle">>
  <2>1. top \in Seq(Step) /\ Len(top) = 3 /\ top[1] = "WM_DESTROY"
    BY DEF Step
  <2>2. stack' = top \o Tail(stack)
    BY <1>2 DEF Call
  <2> HIDE DEF top
  <2>3. Len(top) > 0
    BY <2>1
  <2>4. top \o Tail(stack) # <<>> /\ Head(top \o Tail(stack)) = top[1]
    BY <1>0, <2>1, <2>3, TopIs
  <2> QED
    BY <2>1, <2>2, <2>4
<1>3. CASE Call(DestroyCall \o <<"PostQuit">>)
  <2> DEFINE top == DestroyCall \o <<"PostQuit">>
  <2>1. top \in Seq(Step) /\ Len(top) = 4 /\ top[1] = "OnDestroy"
    BY HandlerIs
  <2>2. stack' = top \o Tail(stack)
    BY <1>3 DEF Call
  <2> HIDE DEF top
  <2>3. Len(top) > 0
    BY <2>1
  <2>4. top \o Tail(stack) # <<>> /\ Head(top \o Tail(stack)) = top[1]
    BY <1>0, <2>1, <2>3, TopIs
  <2> QED
    BY <2>1, <2>2, <2>4
<1>4. \/ stack' = <<>> \/ stack' = DestructCall
      \/ Call(<<"WM_DESTROY", "Gone", "ForgetHandle">>)
      \/ Call(DestroyCall \o <<"PostQuit">>)
  BY DEF Thread, Arguments, Construct, GetWindowClass, CreateWindow,
     Controller, Child, SetQuitOnClose, LoopEnds, OnDestroy, DestroyWindow, WmDestroy,
     PostQuit, Gone, ForgetHandle, Unregister, Members, Uncount, Freed
<1> QED
  BY <1>1, <1>2, <1>3, <1>4

\* What comes to the top of the stack is the next step of the list.
LEMMA NextHead ==
    ASSUME NEW prog \in Seq(Step), NEW k \in 1 .. Len(prog), On(prog, k), Done,
           stack' # <<>>
    PROVE  k < Len(prog) /\ Head(stack') = prog[k + 1]
<1>1. Left(stack', prog, k + 1)
  BY HeadIs DEF Done
<1>2. stack' \in Seq(Step) /\ Len(stack') = Len(prog) - k /\ Len(stack') > 0
  BY <1>1 DEF Left
<1>3. Head(stack') = stack'[1] /\ stack'[1] = prog[k + 1]
  BY <1>1, <1>2 DEF Left
<1> QED
  BY <1>2, <1>3

LEMMA Reaches ==
    ASSUME NEW prog \in Seq(Step), NEW k \in 1 .. Len(prog), On(prog, k), Thread,
           NEW x \in {"loop", "Gone"}, At(x)'
    PROVE  Done /\ k < Len(prog) /\ prog[k + 1] = x /\ Head(stack) = prog[k]
<1>1. stack \in Seq(Step)
  BY DEF On, Left
<1>2. stack' # <<>> /\ Head(stack') = x
  BY DEF At
<1>3. Done
  BY <1>1, <1>2, NotDone
<1> QED
  BY <1>2, <1>3, NextHead, HeadIs

LEMMA InLoopStarts == On(InLoop, 1) => Head(stack) = "OnDestroy"
  BY InLoopHead DEF InLoop

LEMMA LoopMessageStarts == On(LoopMessage, 1) => Head(stack) = "WM_DESTROY"
  BY LoopMessageHead DEF LoopMessage

LEMMA InEndStarts == On(InEnd, 1) => Head(stack) = "OnDestroy"
  BY InEndHead DEF InEnd

\* The loop is entered for the first time, or comes back from the message that
\* destroyed the window; and behind that message's PostQuit.
LEMMA LoopReached ==
    ASSUME Place, ThreadStep
    PROVE  /\ At("loop")' => \/ SetQuitOnClose /\ hwnd = "alive" /\ ~exiting
                             \/ Gone /\ At("Gone") /\ object = "flutter"
           /\ At("Gone")' /\ object' = "flutter" => PostQuit /\ quitOnClose
<1>t. Thread
  BY DEF ThreadStep
<1>1. ASSUME NEW k \in 1 .. 18, On(WinMain, k), InMain(k)
      PROVE  /\ At("loop")' => SetQuitOnClose /\ hwnd = "alive" /\ ~exiting
             /\ ~At("Gone")'
  <2>1. stack # <<>>
    BY <1>t, OnlyHead
  <2>2. WinMain \in Seq(Step) /\ k \in 1 .. Len(WinMain)
    BY <1>1, <2>1, MainHead, WinMainIs
  <2>3. ASSUME At("loop")' PROVE SetQuitOnClose /\ hwnd = "alive" /\ ~exiting
    <3>0. k < Len(WinMain) /\ WinMain[k + 1] = "loop" /\ Head(stack) = WinMain[k]
      BY <1>1, <1>t, <2>2, <2>3, Reaches
    <3>1. WinMain[k + 1] = "loop" /\ Head(stack) = WinMain[k] /\ k + 1 \in 2 .. 17
      BY <3>0, WinMainIs
    <3>2. k = 10
      BY <3>1, WinMainIs
    <3>3. SetQuitOnClose
      BY <1>t, <3>1, <3>2, WinMainIs
         DEF Thread, At, Arguments, Construct, GetWindowClass, CreateWindow, Controller,
             Child, LoopEnds, OnDestroy, DestroyWindow, WmDestroy, PostQuit, Gone,
             ForgetHandle, Unregister, Members, Uncount, Freed
    <3> QED
      BY <1>1, <3>2, <3>3 DEF InMain, Young
  <2>4. ASSUME At("Gone")' PROVE FALSE
    <3>0. k < Len(WinMain) /\ WinMain[k + 1] = "Gone"
      BY <1>1, <1>t, <2>2, <2>4, Reaches
    <3>1. WinMain[k + 1] = "Gone" /\ k + 1 \in 2 .. 17
      BY <3>0, WinMainIs
    <3> QED
      BY <3>1, WinMainIs
  <2> QED
    BY <2>3, <2>4
<1>2. CASE On(LoopMessage, 1) \/ On(EndMessage, 1)
  <2>1. Head(stack) = "WM_DESTROY"
    <3>1. On(EndMessage, 1) => Head(stack) = "WM_DESTROY"
      BY EndMessageHead DEF EndMessage
    <3> QED
      BY <1>2, <3>1, LoopMessageStarts
  <2>2. WmDestroy
    BY <1>t, <2>1, OnlyHead
  <2>3. CASE On(LoopMessage, 1)
    <3>1. On(InLoop, 1)'
      BY <2>2, <2>3, LoopHandles DEF WmDestroy
    <3>2. (On(InLoop, 1) => Head(stack) = "OnDestroy")'
      BY InLoopStarts, PTL
    <3> QED
      BY <3>1, <3>2 DEF At
  <2>4. CASE On(EndMessage, 1)
    <3>1. On(InEnd, 1)'
      BY <2>2, <2>4, EndHandles DEF WmDestroy
    <3>2. (On(InEnd, 1) => Head(stack) = "OnDestroy")'
      BY InEndStarts, PTL
    <3> QED
      BY <3>1, <3>2 DEF At
  <2> QED
    BY <1>2, <2>3, <2>4
<1>3. ASSUME NEW k \in 1 .. 5, On(InLoop, k), Closing, quitOnClose
      PROVE  /\ At("loop")' => Gone /\ At("Gone") /\ object = "flutter"
             /\ At("Gone")' => PostQuit /\ quitOnClose
  <2>1. InLoop \in Seq(Step) /\ k \in 1 .. Len(InLoop) /\ stack # <<>>
    BY <1>3, ProgramsAre, InLoopHead
  <2>2. ASSUME At("loop")' PROVE Gone /\ At("Gone") /\ object = "flutter"
    <3>1. InLoop[k + 1] = "loop" /\ Head(stack) = InLoop[k]
      BY <1>3, <1>t, <2>1, <2>2, Reaches
    <3>2. k = 5
      BY <3>1 DEF InLoop
    <3>3. Head(stack) = "Gone"
      BY <3>1, <3>2 DEF InLoop
    <3> QED
      BY <1>3, <1>t, <2>1, <3>3, OnlyHead DEF At, Closing
  <2>3. ASSUME At("Gone")' PROVE PostQuit
    <3>1. InLoop[k + 1] = "Gone" /\ Head(stack) = InLoop[k]
      BY <1>3, <1>t, <2>1, <2>3, Reaches
    <3>2. k = 4
      BY <3>1 DEF InLoop
    <3>3. Head(stack) = "PostQuit"
      BY <3>1, <3>2 DEF InLoop
    <3> QED
      BY <1>t, <3>3, OnlyHead
  <2> QED
    BY <1>3, <2>2, <2>3
<1>4. ASSUME NEW k \in 1 .. 6, On(InEnd, k), Ending
      PROVE  ~At("loop")' /\ (At("Gone")' => object' # "flutter")
  <2>1. InEnd \in Seq(Step) /\ k \in 1 .. Len(InEnd) /\ stack # <<>>
    BY <1>4, ProgramsAre, InEndHead
  <2>2. ASSUME At("loop")' PROVE FALSE
    <3>1. InEnd[k + 1] = "loop"
      BY <1>4, <1>t, <2>1, <2>2, Reaches
    <3> QED
      BY <3>1 DEF InEnd
  <2>3. object' # "flutter"
    <3>1. Head(stack) # "Construct"
      BY <1>4, InEndHead DEF InEnd
    <3> QED
      BY <1>4, <1>t, <3>1
         DEF Ending, Thread, At, Arguments, Construct, GetWindowClass, CreateWindow,
             Controller, Child, SetQuitOnClose, LoopEnds, OnDestroy, DestroyWindow,
             WmDestroy, PostQuit, Gone, ForgetHandle, Unregister, Members, Uncount, Freed
  <2> QED
    BY <2>2, <2>3
<1> QED
  BY <1>1, <1>2, <1>3, <1>4 DEF Place

LEMMA StrandInit == Init => StrandInv
<1>1. At("loop") => stack[1] = "loop"
  BY DEF At
<1> QED
  BY <1>1, WinMainIs DEF Init, RunnerInit, StrandInv, NeverStranded, At

\* The thread comes to its loop with a window or with WM_QUIT posted.
LEMMA StrandThread == ASSUME Place, StrandInv, ThreadStep PROVE StrandInv'
<1>1. UNCHANGED <<calls, events, exiting>>
  BY DEF ThreadStep, trayVars
<1>2. ASSUME At("loop")'
      PROVE  (hwnd' = "alive" /\ ~exiting') \/ quit'
  <2>1. CASE SetQuitOnClose /\ hwnd = "alive" /\ ~exiting
    BY <1>1, <2>1 DEF SetQuitOnClose
  <2>2. CASE Gone /\ At("Gone") /\ object = "flutter"
    BY <2>2 DEF Gone, StrandInv
  <2> QED
    BY <1>2, <2>1, <2>2, LoopReached
<1>3. ASSUME At("Gone")', object' = "flutter" PROVE quit'
  BY <1>3, LoopReached DEF PostQuit
<1> QED
  BY <1>2, <1>3 DEF StrandInv, NeverStranded

\* While the thread is in its loop, it is enough to look at the queues.
LEMMA StrandLoop ==
    ASSUME Place, StrandInv, Running,
           UNCHANGED <<stack, hwnd, object>>, quit => quit',
           exiting' => \/ quit'
                       \/ Has(events', "Exit")
                       \/ Has(calls', "destroy")
    PROVE  StrandInv'
<1>1. At("loop") /\ ~At("Gone")
  BY DEF Running, At
<1> QED
  BY <1>1 DEF StrandInv, NeverStranded, Has, At

\* A DestroyWindow called while a message is handled leaves the loop.
LEMMA StrandDestroyed == ASSUME Place, Running, hwnd = "alive", Destroyed PROVE StrandInv'
<1>1. On(WinMain, 11) /\ InMain(11)
  BY LoopIsMain DEF Running
<1>2. On(LoopMessage, 1)'
  BY <1>1, LoopSends DEF Destroyed
<1>3. (On(LoopMessage, 1) => Head(stack) = "WM_DESTROY")'
  BY LoopMessageStarts, PTL
<1> QED
  BY <1>2, <1>3 DEF StrandInv, NeverStranded, At

LEMMA StrandClose ==
    ASSUME Place, TypeOK, StrandInv, CloseMessage, UNCHANGED exiting,
           Has(calls, "destroy") => Has(calls', "destroy")
    PROVE  StrandInv'
<1>1. CASE prevent
  <2>1. events' = Append(events, "close") /\ UNCHANGED runnerVars
    BY <1>1 DEF CloseMessage
  <2>2. Has(events, "Exit") => Has(events', "Exit")
    BY <2>1, HasQueued DEF TypeOK, Event
  <2>3. At("loop") /\ Running
    BY DEF CloseMessage, Running
  <2> QED
    BY <2>1, <2>2, <2>3, StrandIs, StrandLoop DEF StrandInv, runnerVars
<1>2. CASE ~prevent
  BY <1>2, StrandDestroyed DEF CloseMessage
<1> QED
  BY <1>1, <1>2

\* Dart takes Exit for destroy(), and puts what it calls behind what is queued.
LEMMA StrandDart == ASSUME Place, TypeOK, StrandInv, Dart PROVE StrandInv'
<1> USE DEF TypeOK
<1>0. /\ Running /\ At("loop") /\ UNCHANGED runnerVars /\ UNCHANGED exiting
      /\ UNCHANGED events \/ HandleEvent
  BY DEF Dart, MainShows, MainThrows, InitState, BuildMenu, RegisterHandler, HandleEvent, Running
<1>1. quit \/ Has(events, "Exit") \/ Has(calls, "destroy") \/ ~exiting
  BY <1>0, StrandIs DEF StrandInv
<1>2. Has(calls, "destroy") => Has(calls', "destroy")
  <2>1. {"isMinimized", "setContextMenu", "preventClose", "initSystemTray"} \subseteq PluginCall
    BY DEF PluginCall
  <2>2. CASE MainShows \/ BuildMenu
    <3>1. PICK c \in PluginCall : calls' = Append(calls, c)
      BY <2>1, <2>2 DEF MainShows, BuildMenu
    <3> QED
      BY <3>1, HasQueued
  <2>3. CASE InitState
    <3>1. calls' = Append(Append(calls, "preventClose"), "initSystemTray")
      BY <2>1, <2>3 DEF InitState
    <3>2. Append(calls, "preventClose") \in Seq(PluginCall)
      BY <2>1
    <3> QED
      BY <2>1, <3>1, <3>2, HasQueued
  <2>4. CASE MainThrows \/ RegisterHandler
    BY <2>4 DEF MainThrows, RegisterHandler
  <2>5. CASE HandleEvent
    <3>1. Head(events) \in Event
      BY <2>5, QueueType DEF HandleEvent
    <3>2. PICK c \in PluginCall : Answer(Head(events)) = <<c>>
      BY <3>1, AnswerType
    <3>3. calls' = Append(calls, c)
      <4>1. calls' = calls \o <<c>>
        BY <2>5, <3>2 DEF HandleEvent
      <4> QED
        BY <4>1
    <3> QED
      BY <3>3, HasQueued
  <2> QED
    BY <2>2, <2>3, <2>4, <2>5 DEF Dart
<1>3. ASSUME HandleEvent, Has(events, "Exit")
      PROVE  Has(events', "Exit") \/ Has(calls', "destroy")
  <2>1. CASE Head(events) = "Exit"
    <3>1. calls' = Append(calls, "destroy")
      BY <1>3, <2>1 DEF HandleEvent, Answer
    <3>2. "destroy" \in PluginCall
      BY DEF PluginCall
    <3> QED
      BY <3>1, <3>2, HasQueued
  <2>2. CASE Head(events) # "Exit"
    BY <1>3, <2>2, HasDequeued DEF HandleEvent
  <2> QED
    BY <2>1, <2>2
<1> QED
  BY <1>0, <1>1, <1>2, <1>3, StrandLoop DEF runnerVars

\* The plugins carry out a destroy() that has come to the head of the queue.
LEMMA StrandPlugins == ASSUME Place, TypeOK, StrandInv, Plugins PROVE StrandInv'
<1> USE DEF TypeOK
<1>0. /\ Running /\ At("loop") /\ calls # <<>> /\ calls' = Tail(calls)
      /\ UNCHANGED exiting
  BY DEF Plugins, PlainCall, QueryCall, TrayCall, CloseCall, DestroyCalled, CloseMessage, Running
<1>1. quit \/ Has(events, "Exit") \/ Has(calls, "destroy") \/ ~exiting
  BY <1>0, StrandIs DEF StrandInv
<1>2. ASSUME Head(calls) # "destroy", Has(calls, "destroy") PROVE Has(calls', "destroy")
  BY <1>0, <1>2, HasDequeued
<1>3. CASE PlainCall \/ TrayCall
  <2>1. /\ Head(calls) # "destroy"
        /\ UNCHANGED <<stack, hwnd, object, quit, events>>
    BY <1>3 DEF PlainCall, TrayCall, runnerVars
  <2> QED
    BY <1>0, <1>1, <1>2, <2>1, StrandLoop
<1>6. CASE QueryCall
  <2>1. /\ Head(calls) # "destroy" /\ events' = Append(events, "notMinimized")
        /\ UNCHANGED <<stack, hwnd, object, quit>>
    BY <1>6 DEF QueryCall, runnerVars
  <2>2. Has(events, "Exit") => Has(events', "Exit")
    BY <2>1, HasQueued DEF Event
  <2> QED
    BY <1>0, <1>1, <1>2, <2>1, <2>2, StrandLoop
<1>4. CASE CloseCall
  BY <1>0, <1>2, <1>4, StrandClose DEF CloseCall
<1>5. CASE DestroyCalled
  <2>1. CASE hwnd = "alive" /\ Destroyed
    BY <1>0, <2>1, StrandDestroyed
  <2>2. CASE ~(hwnd = "alive" /\ Destroyed)
    BY <1>0, <1>5, <2>2, StrandLoop DEF DestroyCalled
  <2> QED
    BY <2>1, <2>2
<1> QED
  BY <1>3, <1>4, <1>5, <1>6 DEF Plugins

\* What the user asks for is put behind what is queued.
LEMMA StrandUser == ASSUME Place, TypeOK, StrandInv, User PROVE StrandInv'
<1> USE DEF TypeOK
<1>1. CASE AltF4
  BY <1>1, StrandClose DEF AltF4
<1>0. At("loop") => quit \/ Has(events, "Exit") \/ Has(calls, "destroy") \/ ~exiting
  BY StrandIs DEF StrandInv
<1>2. CASE ClickX
  <2>1. /\ Running /\ At("loop") /\ calls' = Append(calls, "close")
        /\ UNCHANGED <<stack, hwnd, object, quit, events, exiting>>
    BY <1>2 DEF ClickX, runnerVars, Running
  <2>2. Has(calls, "destroy") => Has(calls', "destroy")
    BY <2>1, HasQueued DEF PluginCall
  <2> QED
    BY <1>0, <2>1, <2>2, StrandLoop
<1>3. ASSUME NEW event \in TrayEvent, UseTray(event) PROVE StrandInv'
  <2>1. /\ Running /\ At("loop") /\ events' = Append(events, event)
        /\ UNCHANGED <<stack, hwnd, object, quit, calls>>
    BY <1>3 DEF UseTray, runnerVars, Running
  <2>2. UNCHANGED exiting \/ event = "Exit"
    BY <1>3 DEF UseTray, TrayEvent
  <2>3. Has(events', event) /\ (Has(events, "Exit") => Has(events', "Exit"))
    BY <2>1, HasQueued DEF Event
  <2> QED
    BY <1>0, <2>1, <2>2, <2>3, StrandLoop
<1> QED
  BY <1>1, <1>2, <1>3 DEF User

LEMMA StrandStep == TypeInv /\ StrandInv /\ [Next]_vars => StrandInv'
<1> SUFFICES ASSUME TypeInv, StrandInv, [Next]_vars PROVE StrandInv'
  OBVIOUS
<1>0. TypeOK /\ Place
  BY TypeParts DEF TypeInv
<1>1. CASE FirstFrame
  <2>1. /\ Running /\ At("loop")
        /\ UNCHANGED <<stack, hwnd, object, quit, calls, events, exiting>>
    BY <1>1 DEF FirstFrame, trayVars, Running
  <2> QED
    BY <1>0, <2>1, StrandIs, StrandLoop DEF StrandInv
<1>2. CASE UNCHANGED vars
  BY <1>2 DEF vars, StrandInv, NeverStranded, At
<1> QED
  BY <1>0, <1>1, <1>2, StrandThread, StrandDart, StrandPlugins, StrandUser DEF Next

\* The loop of wWinMain never waits for nothing: it has its window, or WM_QUIT has
\* been posted; and Exit, once chosen, is never lost between the menu, _closeApp
\* and the plugin.
THEOREM NeverStrandedInLoop == Spec => []NeverStranded
<1>1. StrandInv => NeverStranded
  BY DEF StrandInv
<1> QED
  BY <1>1, TypeInit, TypeStep, StrandInit, StrandStep, PTL DEF Spec
=============================================================================
