\* One task, two pieces of a message, three lines on their way, two faults.
SPECIFICATION FairSpec
CONSTANTS
  MaxOutput = 3
  MaxDeltas = 2
  MaxFaults = 2
CHECK_DEADLOCK FALSE
INVARIANTS
  TypeOK
  NoLostCompletion
  CompletedIsTrue
PROPERTIES
  RunKept
  RunsEnd
