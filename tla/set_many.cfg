SPECIFICATION Spec
CONSTANTS
  r1 = r1
  r2 = r2
  cli = cli
  l1 = l1
  a = a
  b = b
  v1 = v1
  silence = silence
  steps = steps
  Fields = {silence, steps}
  Levels = {1, 2}
  Builtin <- BothLow
  Environ <- StepsGiven
  Bodies <- OneOrBoth
  Absent = Absent
  Unsure = Unsure
  Requests = {r1, r2}
  Shell = {cli}
  Launches = {l1}
  Names = {a, b}
  Values = {v1}
  Required = {a, b}
  Ops = {"put", "delete", "rescan", "rekey", "default"}
  MaxWrites = 3
  MaxEdits = 1
  MaxFaults = 1
CHECK_DEADLOCK FALSE
SYMMETRY Alike
INVARIANTS SettingsInv AnsweredIsInForce 
