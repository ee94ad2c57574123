\* What the header says of the release delay, which a second "off" skips.
SPECIFICATION Spec
CONSTANTS
  carton = carton
  bar = bar
  crate = crate
  NoProduct = NoProduct
  Products <- MCProducts
  Heavy <- MCHeavy
  SealDelay = 3
  ReleaseDelay = 2
  WeldSteps = 3
  PublishEvery = 2
PROPERTY ReleaseTakesTime
