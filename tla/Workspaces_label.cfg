CONSTANTS
  w1 = w1  w2 = w2  w3 = w3
  s1 = s1  s2 = s2  s3 = s3
  here = here  there = there
  NoLabel = ""
  Unset = "unset"
  StartDir = here
  Paths = {here, there}
  Index <- NumberOf
  OsEnv <- Inherited
  TokenWords <- Words2
  FirstWord <- First2
  WorkspaceIds <- TwoWorkspaces
  ScopeIds <- OneScope
  Vanishing = {}
  Labels = {"a"}
  Words = {"0", "1", "2", "a"}
  ScopeNames = {}
  Keys = {}
  Values = {}

SPECIFICATION Spec
SYMMETRY IdSymmetry

INVARIANTS HereMarked
