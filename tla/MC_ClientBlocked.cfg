\* Three clients, three slots, four connections and two hang-ups, no
\* broadcast: the read thread may block reading a live connection whose fd
\* number was reused after select.
CONSTANTS
  c1 = c1
  c2 = c2
  c3 = c3
  Clients <- MC_Clients3
  NSlots = 3
  Fds = {1, 2, 3}
  States <- MC_States
  MaxConnects = 4
  MaxHangups = 2
  MaxBroadcasts = 0
SPECIFICATION Spec
PROPERTY EndedConnectionsReleased
CHECK_DEADLOCK FALSE
