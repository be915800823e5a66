\* Two commands with helpers of every kind; a pipe holds one of the at most two writes.
CONSTANTS
  Count = 2
  Kinds = {"attached", "silent", "detached"}
  Capacity = 1
  MaxOutput = 2
SPECIFICATION FairSpec
INVARIANTS TypeOK LogsComplete NoSurvivors
PROPERTIES WritesComplete DeadlineEndsWait
