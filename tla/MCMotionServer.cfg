\* Safety, the contract with the clients, and liveness under the fairness of
\* the control timer and of the generator.
SPECIFICATION FairMotionSpec
CONSTANTS
  pick = pick
  move = move
  empty = empty
  product = product
  NoGoal = NoGoal
  Goals <- MCGoals
  Frames <- MCFrames
  Plan <- MCPlan
  Grace = 1
  JamLimit = 1
INVARIANTS TypeOK AimOwned JamWithinSegment
PROPERTIES StopHonoured ImplementsMotionGoals ImplementsMotionSlot GoalsEnd
