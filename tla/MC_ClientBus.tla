---------------------------- MODULE MC_ClientBus ----------------------------
EXTENDS ClientBus

CONSTANTS c1, c2, c3

MC_Clients2 == {c1, c2}
MC_Clients3 == {c1, c2, c3}
MC_States   == {"ALIVE", "ASSERT"}
=============================================================================
