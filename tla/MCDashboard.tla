---------------------------- MODULE MCDashboard ----------------------------
(* Model checking the dashboard with its process manager. *)
EXTENDS Dashboard
=============================================================================
