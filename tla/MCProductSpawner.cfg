SPECIFICATION Spec
CONSTANTS
  MaxPending = 1
  MaxAlive <- MCMaxAlive
  Zone = 0
  End = 4
  Models <- MCModels
  Length <- MCLength
  Pitch = 2
  Gap = 1
  MaxCount = 2
  MaxAsked = 1
CHECK_DEADLOCK FALSE
INVARIANTS
  TypeOK
  TraysApart
  NoCrowd
PROPERTY GoesRound
