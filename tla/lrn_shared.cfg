SPECIFICATION Spec
CONSTANTS
  c1 = c1
  c2 = c2
  None = None
  Clients = {c1, c2}
  NFiles = 2
  Outside = Outside
  MaxAttempts = 2
  Bounds <- Histories
CHECK_DEADLOCK FALSE
SYMMETRY Tabs
INVARIANTS LearningInv WholeProposals DamageIsLocal ResultsFollowTheRules
PROPERTIES OnlyReviewedIsApplied
