SPECIFICATION Spec
CONSTANTS
  port = port
  level = level
  master = master
  ok = ok
  other = other
  garbage = garbage
  taken = taken
  Absent = Absent
  NoLayer = NoLayer
  Fields = {port, master}
  Storable = {port}
  Values = {ok, garbage, taken}
  MaxGenerations = 3
  Servers = {s1}
  Environments <- TwoEnvironments
  Unparsable = {garbage}
  Fatal = {taken}
  Overridable = {}
  CliOnline = FALSE
INVARIANTS TypeOK ConfirmedWasRun RolledBackToKnownGood
PROPERTIES NextStartRollsBack ImplementsKnownGood
