SPECIFICATION FairSpec
CONSTANTS
  Radix = 3
  Percent = {1, 5, 9}
  MaxClients = 3
  MaxStarts = 2
  MaxLine = 3
PROPERTIES
  CountReported
