SPECIFICATION Spec
CONSTANTS
  Hosts = {h1, h2}
  Ids = {i1}
  None = None
  Domains = {"favorites", "follows", "devices", "keys", "deviceinfo"}
  Contents <- MCContents
  Zones = {0, 1}
  MaxStamp = 2
  MaxEvents = 1
PROPERTY GoesQuiet
CHECK_DEADLOCK FALSE
