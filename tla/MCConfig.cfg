SPECIFICATION MCSpec
CONSTANTS
  Cli <- MCCli
  Env <- MCEnv
  Disks <- MCDisks
  StoredLayers <- MCStoredLayers
  Patches <- MCPatches
  Overrides <- MCOverrides
  Puts <- MCPuts
  Deletes <- MCDeletes
  Requests = {"put", "delete", "reload", "restart"}
  Taken = {"3000"}
  Clients = {c1}
  Modes = {"handle", "server"}
  ServerDisks <- TwoDisks
CONSTRAINT ServerBounds
INVARIANTS AdminTypeOK RunningIsExplained ReportsAreTrue DriftHasCause
PROPERTIES BootFieldsHold HupResyncs RestartIsChecked AnswerIsTrue
CHECK_DEADLOCK FALSE
