SPECIFICATION MCSpec
CONSTANTS
  Modes = {"life"}
  Pids = {p1}
  Paths = {f1, f2}
  NoFile = NoFile
  Tasks = {"confirm", "reload"}
  MaxRequests = 1
  Levels = {"info"}
  Unparsable = {}
  Intervals = {0}
  Default = "captchapi=debug"
  Hashes = {h1}
  Master = master
  Callers = {c1}
  Clients = {i1}
  Burst = 2
  Configs = {a}
  NoConfig = NoConfig
  Users = {u1}
  MaxInstances = 1
  SessionIds = {s1}
  KeyHashes = {k1}
  Nobody = nobody
  Promises = {q1}
  MaxAttempts = 1
  MaxConnections = 1
PROPERTIES TerminationIsFinal
CHECK_DEADLOCK FALSE
