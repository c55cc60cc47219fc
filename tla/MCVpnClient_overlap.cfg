\* Three overlapping calls of ConnectVPN, any calls of StopVPN.
SPECIFICATION FairSpec
CONSTANTS
  MaxConnects = 3
  Patient = FALSE
INVARIANTS
  TypeOK
  OneMonitorListens
  ChannelsCloseOnce
PROPERTIES
  MonitorsStop
  LostConnectionIsDialled
