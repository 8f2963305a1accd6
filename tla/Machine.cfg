SPECIFICATION FairSpec
CONSTANTS
  Hosts = {h1}
  Own = own
  NoHost = none
  MaxWire = 2
INVARIANTS
  OwnSaveUntouched
PROPERTIES
  ControllerComesBack
  TunnelStops
