\* A vacuum still on after the retreat from a failed pick.
SPECIFICATION Spec
CONSTANTS
  MaxAttempts = 2
  Cycles = 2
  NoGoal = NoGoal
INVARIANTS GivenUp
