\* The task on its own timeouts, against a motion server that may do anything
\* MotionSlot allows, the cup and the channels in between.
SPECIFICATION FairSpec
CONSTANTS
  MaxAttempts = 3
  Cycles = 2
  NoGoal = NoGoal
INVARIANTS TypeOK
PROPERTIES NoBlindCarry ReleaseAtContact PutDown GoesOn
