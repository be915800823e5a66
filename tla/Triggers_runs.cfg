\* A pull request with one push, two other events, and an application that counts
\* as a collaborator and is not recognised.
CONSTANTS
  Associated = {"maintainer", "app"}
  TakenForApp = {}
  MaxPushes = 1
  MaxEvents = 2
SPECIFICATION Spec
INVARIANTS
  TypeOK
  EveryHeadIsBenched
  DemandIsCurrent
  ReviewedCommitIsBenched
  RunsAreRequested
