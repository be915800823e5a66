\* A client that hangs up, under fairness.
CONSTANTS
  Events = {push, review}
  Allowed = {push, review}
  Backlog = {review}
  NoEvent = NoEvent
  ClockStepsBack = FALSE
  ClientsMayDisconnect = TRUE
  MaxDisturbances = 0
SPECIFICATION FairSpec
PROPERTY
  EventuallyHandled
