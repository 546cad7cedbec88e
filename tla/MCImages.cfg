SPECIFICATION Spec
CONSTANTS
  Sizes <- MCSizes
  DefaultSize <- MCDefaultSize
  Slack <- MCSlack
  Uninitialised = {0, 32}
  IntLimit = 128
INVARIANTS TypeOK CleanReturn PixelsInPlace Scaled
