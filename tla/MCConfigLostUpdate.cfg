SPECIFICATION MCSpec
CONSTANTS
  Cli <- MCCli
  Env <- MCEnv
  Disks <- MCDisks
  StoredLayers <- MCStoredLayers
  Patches = {}
  Overrides = {}
  Puts <- MCPuts
  Deletes = {}
  Requests = {"put"}
  Taken = {"3000"}
  Clients = {c1, c2}
  Modes = {"server"}
  ServerDisks <- OneDisk
CONSTRAINT ServerBounds
INVARIANT NoLostUpdate
CHECK_DEADLOCK FALSE
