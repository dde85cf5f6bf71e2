\* Every pair of copies, a header length with bit 31 set included.  No
\* fault or power loss is needed.
CONSTANTS
  Payloads <- MC_Payloads
  PartSize = 2
  Shapes <- MC_AllShapes
  MaxFaults = 0
  MaxCrashes = 0
SPECIFICATION Spec
INVARIANT ReconcileFollowsPolicy
CHECK_DEADLOCK FALSE
