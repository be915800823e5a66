\* The file may come and go while the server starts, nothing else happens.
CONSTANTS
  LookupMayFail = FALSE
  Renames = FALSE
  MaxInbox = 2
SPECIFICATION Spec
INVARIANT
  SettledAgrees
