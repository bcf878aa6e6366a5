SPECIFICATION Spec
CONSTANTS
  Name <- MCName
  Fold <- MCFold
  Trim <- MCTrim
  Listable <- MCListable
  Askable <- MCAskable
  MaxProfiles = 2
  Fits <- MCFits
  Byte <- MCByte
  MaxLength <- MCMaxLength
  MaxAddress = 7
  MaxPatchSize = 4
  CandidateWindow = 3
  Cell = {0, 1}
  MaxPattern = 3
  MaxLimit = 2
INVARIANTS
  TextIsFaithful
  PagesFindEachMatchOnce
  AddressesAreSets
CHECK_DEADLOCK FALSE
