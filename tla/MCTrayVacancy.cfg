\* The carton tray (2 x 4 pockets, pitch 90 mm) in units of 2.5 mm, two of them.
SPECIFICATION Spec
CONSTANTS
  Rows = 2
  Cols = 4
  Pitch = 36
  Gate = 16
  LatticeMinFit = 5
  RmsMax2 = 576
  Iters = 4
  Wall = 4
  Cover = 20
  Rise = 20
  Trays = {"first", "second"}
  Start <- MCStart
  V = 3
  KeepLast = 1
  IdGate = 32
  Horizon = 2
  w1 = w1
  w2 = w2
  Workers <- MCWorkers
  MaskErrs <- MCMaskErrs
  Slack <- MCSlack
  NoKey = NoKey
  Lag = 2
  Films <- MCFilms
SYMMETRY MCSymmetry
CHECK_DEADLOCK FALSE
INVARIANTS
  TypeOK
  FramesPaired
  RightPockets
  TrayIds
