--------------------------- MODULE MCSetupWizard ---------------------------
(* Small instances of SetupWizard for TLC. *)
EXTENDS SetupWizard
=============================================================================
