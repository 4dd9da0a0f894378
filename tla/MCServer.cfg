SPECIFICATION MCSpec
CONSTANTS
  Modes = {"life", "watch", "keys", "node", "calls", "keycalls"}
  Pids = {p1, p2}
  Paths = {f1, f2}
  NoFile = NoFile
  Tasks = {"cleanup", "reload"}
  MaxRequests = 1
  Levels = {"info", "debug", "::="}
  Unparsable = {"::="}
  Intervals = {0, 2}
  Default = "captchapi=debug"
  Hashes = {h1}
  Master = master
  Callers = {c1, c2}
  Clients = {i1}
  Burst = 2
  Configs = {a, b}
  NoConfig = NoConfig
  Users = {u1, u2}
  MaxInstances = 3
  SessionIds = {s1}
  KeyHashes = {k1}
  Nobody = nobody
  Promises = {q1, q2}
  MaxAttempts = 1
  MaxConnections = 1
INVARIANTS ServerTypeOK BackgroundHolds AdmissionHolds SingletonHolds CallsAreHonest
PROPERTIES StepsAreJustified ServerProgresses
CHECK_DEADLOCK FALSE
