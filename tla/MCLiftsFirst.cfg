\* A goal that leaves a pocket without lifting first.
SPECIFICATION Spec
CONSTANTS
  MaxAttempts = 2
  Cycles = 2
  NoGoal = NoGoal
PROPERTIES LiftsFirst
