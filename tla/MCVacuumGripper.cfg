\* The cup against any commands, contacts and removals, with the simulation
\* stepping on.
SPECIFICATION FairSpec
CONSTANTS
  carton = carton
  bar = bar
  crate = crate
  NoProduct = NoProduct
  Products <- MCProducts
  Heavy <- MCHeavy
  SealDelay = 3
  ReleaseDelay = 2
  WeldSteps = 3
  PublishEvery = 2
INVARIANTS TypeOK SealEarned
PROPERTIES ImplementsSuction CommandsFollowed
