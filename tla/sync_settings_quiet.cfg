SPECIFICATION Spec
CONSTANTS
  Hosts = {h1, h2}
  Ids = {i1}
  None = None
  Domains = {"settings"}
  Contents <- MCContents
  Zones = {0}
  MaxStamp = 1
  MaxEvents = 2
PROPERTY GoesQuiet
CHECK_DEADLOCK FALSE
