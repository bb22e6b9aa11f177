\* One to three threads; with three, the last one uses the long area.
CONSTANTS
  NbThreads = {1, 2, 3}
  ShortNumbers = {2}
  MaxRequests = 2
SPECIFICATION FairSpec
INVARIANTS
  ReportsAgree
  OnlyLastUnwritten
  SharedDataKept
PROPERTIES
  BenchEnds
CHECK_DEADLOCK FALSE
