\* The code's times, in half minutes: tokens are valid for an hour, and are refreshed
\* after 30 minutes, or 5 after a failure; GitHub answers within a minute.  Jobs may
\* take 35 minutes, longer than any token is certain to live, which is 28.
CONSTANTS
  Expiry = 120
  Refresh = 60
  Retry = 10
  MaxAnswer = 2
  MaxJob = 70
  MaxFailures = 4
SPECIFICATION FairSpec
INVARIANT
  ClientsAreValid
PROPERTY
  AlwaysRefreshed
