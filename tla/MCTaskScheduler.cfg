SPECIFICATION Spec
CONSTANTS
  Trays = {"carton", "bar"}
  SpecOf <- MCSpec
  StartX <- MCStartX
  TrayY = 350
  VOut = 8
  VIn = 10
  Products = {"c", "b"}
  Class <- MCClass
  Fits <- MCFits
  Places <- MCPlaces
  PickLead = 9
  PlaceLead = 12
  Margin = 5
  WaitMargin = 3
  LatchTime = 10
  BlackTime = 10
  HoldTime = 30
  PickTime = 20
  Ests = {10, 20}
  ViewAges = {10, 20}
  ViewLag = 20
  Fresh = 4
  Step = 10
  Far = 1400
CHECK_DEADLOCK FALSE
INVARIANTS
  TypeOK
  NoDoubleFill
  NoGhostPick
  FallsBackLateOnly
PROPERTIES
  InReach
  HoldEnds
