--------------------------- MODULE MCApplication ---------------------------
(* Model checking settings, services and installer together. *)
EXTENDS Application
=============================================================================
