SPECIFICATION Spec
CONSTANTS
  Servers = {1, 2}
  Sockets = {1, 2}
  MaxObjects = 3
  Upgrades <- MCUpgrades
  Frames <- MCFrames
  Cuts <- MCCuts
  Refused <- MCRefused
  Announcements <- MCAnnouncements
  Lengths = {0, 1, 125, 126, 65535, 65536}
INVARIANTS Consistent  EveryoneHears
PROPERTIES Settles
CHECK_DEADLOCK FALSE
