\* The file comes, goes, is renamed and touched at any moment, and the lookup at
\* startup may err.
CONSTANTS
  LookupMayFail = TRUE
  Renames = TRUE
  MaxInbox = 6
SPECIFICATION FairSpec
INVARIANT
  HealsWithNextChange
PROPERTY
  FollowsFile
