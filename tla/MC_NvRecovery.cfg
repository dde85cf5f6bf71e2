\* Every pair of copies, intact or damaged in its payload, checksum,
\* magic or length; one I/O fault or failed write and one power loss.
CONSTANTS
  Payloads <- MC_Payloads
  PartSize = 2
  Shapes <- MC_Corruptions
  MaxFaults = 1
  MaxCrashes = 1
SPECIFICATION Spec
INVARIANT ReconcileFollowsPolicy
PROPERTY ValidCopyNeverLost
CHECK_DEADLOCK FALSE
