---------------------------- MODULE MCWindowTray ----------------------------
(* Model checking the runner with the window and the tray of main.dart. *)
EXTENDS WindowTray
=============================================================================
