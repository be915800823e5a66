\* A webhook, a row of an earlier life of the server and a row of a kind it no
\* longer handles; clients may hang up, the clock is not set back.
CONSTANTS
  Events = {push, review, star}
  Allowed = {push, review}
  Backlog = {review, star}
  NoEvent = NoEvent
  ClockStepsBack = FALSE
  ClientsMayDisconnect = TRUE
  MaxDisturbances = 2
SPECIFICATION Spec
INVARIANTS
  AtMostTwoAttempts
  NoEventLost
  WakeupsCoverQueue
  StatusTellsTruth
  OneLateStart
  JobsFollowArrival
PROPERTIES
  FailureIsFinal
  LedgerSpec
