\* As Report_comments, for comments that are too long.
CONSTANTS
  a = a
  b = b
  Scenarios = {a, b}
  Histories <- MCHistories
  Outputs <- MCOutputs
  Texts <- MCTexts
  Limit = 10
  NoteLen = 4
SPECIFICATION Spec
INVARIANT LongCommentsAreTruncated
