CONSTANTS
  Member = {ann, ben, cas}
  Creator = ann
  NoGroup = NoGroup
  Window = 2
  MaxEpoch = 2
  MaxEntries = 3
  MaxSent = 3
  MaxReceipts = 3
SPECIFICATION Spec
SYMMETRY Symmetry
INVARIANT MembersCanDecrypt
CHECK_DEADLOCK FALSE
