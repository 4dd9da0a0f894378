SPECIFICATION Spec
CONSTANTS
  port = port
  level = level
  master = master
  ok = ok
  other = other
  garbage = garbage
  taken = taken
  Absent = Absent
  NoLayer = NoLayer
  Fields = {level}
  Storable = {level}
  Values = {ok, garbage}
  MaxGenerations = 3
  Servers = {s1, s2}
  Environments <- OneEnvironment
  Unparsable = {garbage}
  Fatal = {}
  Overridable = {level}
  CliOnline = TRUE
INVARIANTS NewestDescribesTable OnlyUnreachablePruned OneTrier
PROPERTIES VerdictIsFinal KnownGoodAdvances
