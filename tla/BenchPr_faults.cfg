\* A pull request that is opened, benchmarked again on demand and pushed to; calls
\* may fail, answers get lost, comments are deleted and the server dies.
CONSTANTS
  opened = opened
  comment = comment
  pushed = pushed
  pr = pr
  c1 = c1
  c2 = c2
  Events = {opened, comment, pushed}
  PRs = {pr}
  Commits = {c1, c2}
  PrOf <- OnOnePr
  CommitOf <- TwoCommits
  CallsMayFail = TRUE
  MaxFaults = 2
SPECIFICATION FairSpec
INVARIANTS
  ReportNeverStale
  SuccessAfterReport
  PendingHasCause
PROPERTY
  StatusSettles
