SPECIFICATION Spec
CONSTANTS
  NoKey = NoKey
  Gate = 2
  KeyGate = 1
  Settled = 3
  SnapAfter = 2
  MaxCount = 4
  Objects = {"a", "b"}
  Scenes <- MCScenes
  MinOff = 0
  MaxOff = 1
  KeyOffsets = {0, 2}
  Lively = {"a"}
  LostS = 2
  Fresh = 1
  Pickable = 4
  MaxDelay = 1
  MaxFill = 2
  MaxId = 3
CHECK_DEADLOCK FALSE
INVARIANTS
  TypeOK
  OfferedWasThere
  OccupancyIsOfItsAge
PROPERTIES
  FrameNamesOneObject
  PatientSnap
  GhostsEnd
