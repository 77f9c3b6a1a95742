SPECIFICATION Spec
CONSTANTS
  Parts = {"files", "plan", "session", "system", "os", "check", "backup", "config", "import", "settings", "panes"}
  None = None
  Slots = {1, 2}
  Folders <- MCFolders
  Files <- MCFiles
  Dir <- MCDir
  NameOf <- MCNameOf
  System = {"/", "/x"}
  Hidden = {"home/.y"}
  Home = "home"
  MaxLoads = 2
  Clicks = 5
  Mods = {"app", "gate", "comp", "p", "old"}
  Brings <- MCBrings
  Wanting = {"app"}
  Providers = {"p"}
  Gate = "gate"
  Companion = "comp"
  Clashes = {{"p", "old"}}
  IncompatibleMods = {"old"}
  Preinstalled = {"old"}
  Upgradable = {"old"}
  ChecksFail = FALSE
  MaxClicks = 3
  Tablets = {t1}
  MaxLosses = 1
  SessionClicks = 2
  Chores = 1
  Commands = {"hashtable", "mods", "timezone", "reenable", "repair", "uninstall", "install", "guide", "rescan", "restart", "sleep", "restart-ui", "reboot"}
  Ids = {1, 2}
  Versions = {"v1", "v2"}
  NoVersion = ""
  Wiped = {"hashtable", "mods"}
  Incompatible = {"v2"}
  Reads = {1, 2}
  RunIds = {1, 2}
  MaxPresses = 4
  Targets = {"v1", "v2"}
  Calls = {1, 2}
  MaxOpens = 4
  Archives = {"a"}
  MaxRuns = 4
  Texts = {"a", "b", "bad"}
  Empty = ""
  Invalid = {"bad"}
  Loads = {1, 2}
  OpIds = {1, 2}
  MaxEdits = 4
  Documents = {1, 2}
  ImportIds = {1, 2}
  MaxTouches = 2
  Fields = {"theme", "proxyMode", "sshAgentSocketPath"}
  Synced = {"theme", "proxyMode"}
  Proxy = "proxyMode"
  Path = "sshAgentSocketPath"
  MaxChanges = 1
  Keys = {"k"}
  Asks = {1, 2}
  MaxActs = 1
INVARIANTS PageTypeOK ListingMatchesPath RestoringIsUnderWay  ProgressNamesTheInstall  CleanWasOnTheTablet MarkedDoneWasImported RemoteChangeSurvives 
PROPERTIES  NothingLostUnasked AppliesWhatWasChecked ChangesDoneOrKept OpensOnItsConnection StepsOutliveStaleFirmware EndsOnlyItsOwn
CHECK_DEADLOCK FALSE
