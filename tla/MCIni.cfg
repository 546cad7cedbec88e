SPECIFICATION FairSpec
CONSTANTS
  MAXINISECTION = 2
  LongRange = 256
  Titles = {"", "t", "k2=9"}
  Comments = {}
  Items <- MCItems
  ItemOf <- MCItemOf
  MaxFiles = 2
  MaxLines = 5
  MaxFails = 1
INVARIANTS TypeOK TableExact LookupExact OverrunOnly
PROPERTIES Returns
