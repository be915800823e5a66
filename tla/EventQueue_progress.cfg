\* A webhook, one of a kind that is refused and a row of an earlier life, under
\* fairness; clients wait for their answers.
CONSTANTS
  Events = {push, review, star}
  Allowed = {push, review}
  Backlog = {review}
  NoEvent = NoEvent
  ClockStepsBack = FALSE
  ClientsMayDisconnect = FALSE
  MaxDisturbances = 2
SPECIFICATION FairSpec
PROPERTIES
  EventuallyHandled
  PendingEnds
  Quiesces
