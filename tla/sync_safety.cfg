SPECIFICATION Spec
CONSTANTS
  Hosts = {h1, h2}
  Ids = {i1}
  None = None
  Domains = {"settings", "favorites", "follows", "devices", "keys"}
  Contents <- MCContents
  Zones = {0, 1}
  MaxStamp = 2
  MaxEvents = 2
SYMMETRY Symmetry
INVARIANTS TypeOK Converged EditsSurvive NothingShadowed
PROPERTY NeverOlder
CHECK_DEADLOCK FALSE
