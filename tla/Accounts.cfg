SPECIFICATION FairSpec
CONSTANTS
  a1 = a1
  a2 = a2
  bob = bob
  bob1 = bob1
  jobob = jobob
  People = {a1, a2}
  Names = {bob, bob1, jobob}
  Bases = {bob}
  Second <- MCSecond
  Words <- MCWords
  Spelling <- MCSpelling
  Upstream <- MCUpstream
  Settled <- MCSettled
  Threads = {t1, t2}
  Slots = 1
  Attempts = 2
  MaxCalls = 3
  MaxFaults = 1
  NoOne = NoOne
  Root = Root
INVARIANTS
  TypeOK
  NothingOutlives
  RemovedAreOut
PROPERTIES
  TeardownTakesOwn
  RequestsEnd
CHECK_DEADLOCK FALSE
