--------------------------- MODULE MC_External ---------------------------
(* Model values for the ExternalControl configurations.                     *)
EXTENDS ExternalControl

CONSTANTS h1

MC_Handlers == {h1}
=============================================================================
