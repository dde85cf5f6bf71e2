\* Three slots (no eviction), a hang-up, a reconnect and one broadcast.
CONSTANTS
  c1 = c1
  c2 = c2
  c3 = c3
  Clients <- MC_Clients2
  NSlots = 3
  Fds = {1, 2, 3}
  States <- MC_States
  MaxConnects = 3
  MaxHangups = 1
  MaxBroadcasts = 1
SPECIFICATION Spec
PROPERTY OnlyEndedConnectionsClosed
CHECK_DEADLOCK FALSE
