CONSTANTS
  Member = {ann, ben}
  Creator = ann
  NoGroup = NoGroup
  Window = 2
  MaxEpoch = 4
  MaxEntries = 3
  MaxSent = 3
  MaxReceipts = 3
SPECIFICATION Spec
SYMMETRY Symmetry
INVARIANTS
  TypeOK
  SecretsConverge
  CanCatchUp
  LeavesAreActive
  SlotsNotReused
  WindowSound
CHECK_DEADLOCK FALSE
