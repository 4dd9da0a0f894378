SPECIFICATION Spec
CONSTANTS
  port = port
  level = level
  master = master
  ok = ok
  other = other
  garbage = garbage
  taken = taken
  Absent = Absent
  NoLayer = NoLayer
  Fields = {port}
  Storable = {port}
  Values = {ok, taken}
  MaxGenerations = 3
  Servers = {s1}
  Environments <- OneEnvironment
  Unparsable = {garbage}
  Fatal = {taken}
  Overridable = {}
  CliOnline = TRUE
INVARIANT ConfirmedWasRun
