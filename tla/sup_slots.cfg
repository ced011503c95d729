SPECIFICATION Spec
CONSTANTS
  w1 = w1
  w2 = w2
  l1 = l1
  l2 = l2
  i1 = i1
  i2 = i2
  s1 = s1
  s2 = s2
  Workflow = {w1}
  Launch = {l1, l2}
  RunId = {i1, i2}
  Stopper = {s1}
  WorkflowOf <- OneWorkflow
  IdsOf <- OnePool
  VideoCount = 2
  Concurrency = 1
  AtomicWorkflow = {w1}
  PrepareWorkflow = {w1}
  StopModes = {"graceful", "hard"}
  Faults = {"crash"}
  NoId = NoId
  NoLaunch = NoLaunch
  Free = Free
SYMMETRY LaunchSymmetry
INVARIANTS
  SlotIsExclusive
  
