SPECIFICATION Spec
CONSTANTS
  None = None
  Thread = {t1, t2}
  User = {u}
  Family <- TwoFamilies
  Limit <- TwoLimits
  Default = 1
  MaxGates = 2
  MaxPipe = 1
  MaxAge = 3
INVARIANTS
  TheRecordIsTheDecision
  GateInv
PROPERTIES
  GateIsNeverTimedOut
  
  GatesAreReleased
