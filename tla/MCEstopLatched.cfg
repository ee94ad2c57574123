\* A second emergency stop after the first was acknowledged.
SPECIFICATION Spec
CONSTANTS
  Topics = {joints}
  Estop = Estop
  MaxRuns = 1
  MaxFailures = 0
  MaxWire = 1
PROPERTY EstopLatched
