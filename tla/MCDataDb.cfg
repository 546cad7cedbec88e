\* No deadlock check: a program may make no more calls.
SPECIFICATION FairSpec
CONSTANTS
  Names = {n1, n2}
  Split = {n2}
  MaxDepth = 3
  MaxNodes = 3
  Lengths = {0, 2}
  MaxFails = 1
  MaxCalls = 1
  MaxWords = 1
INVARIANTS TypeOK NothingElse DeleteDone CopyDone SaveDone
PROPERTIES Returns
CHECK_DEADLOCK FALSE
