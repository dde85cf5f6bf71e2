------------------------ MODULE MC_LoadOrchestrator ------------------------
(* Model values and sets for the LoadOrchestrator configurations.          *)
EXTENDS LoadOrchestrator

CONSTANTS h1, h2

MC_Handlers1 == {h1}
MC_Handlers2 == {h1, h2}
MC_RequestsAll == {"all", "external", "modem"}
MC_RequestsModem == {"modem"}
MC_RequestsExternal == {"external"}
=============================================================================
