-------------------------- MODULE MCConfigManager --------------------------
(* Model checking the settings page with its config manager. *)
EXTENDS ConfigManager
=============================================================================
