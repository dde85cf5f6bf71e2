\* Two slots, a client that hangs up and reconnects before the read thread frees its slot; no broadcast.
CONSTANTS
  c1 = c1
  c2 = c2
  c3 = c3
  Clients <- MC_Clients2
  NSlots = 2
  Fds = {1, 2, 3}
  States <- MC_States
  MaxConnects = 3
  MaxHangups = 1
  MaxBroadcasts = 0
SPECIFICATION Spec
INVARIANT ClientStateAtMostOneBehind
CHECK_DEADLOCK FALSE
