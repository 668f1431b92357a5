CONSTANTS
  u1 = u1
  u2 = u2
  Comment = Comment
  Alias = Alias
  NL = NL
  Absent = Absent
  UserText <- MCUserText
  UserFiles <- MCUserFiles
  MaxRuns = 2
SPECIFICATION Spec
CHECK_DEADLOCK FALSE
INVARIANT
  InstallOnlyAdds
