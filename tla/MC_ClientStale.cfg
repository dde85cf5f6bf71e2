\* Two clients, enough slots, no hang-up; two broadcasts while the accept thread tells a client the state.
CONSTANTS
  c1 = c1
  c2 = c2
  c3 = c3
  Clients <- MC_Clients2
  NSlots = 2
  Fds = {1, 2, 3}
  States <- MC_States
  MaxConnects = 2
  MaxHangups = 0
  MaxBroadcasts = 2
SPECIFICATION Spec
INVARIANT ClientStateAtMostOneBehind
CHECK_DEADLOCK FALSE
