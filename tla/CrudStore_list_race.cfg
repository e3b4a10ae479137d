SPECIFICATION Spec
CONSTANTS
  Workers = {w1, w2}
  Entities = {"crud/a", "crud//a", "crud/a/1/b"}
  Dirs <- MCDirs
  Root = "crud"
  DirOf <- MCDirOf
  Above <- MCAbove
  Numbered <- MCNumbered
  Contents = {"x"}
  Targets <- OneEntity
  NoEntity = NoEntity
  Partial = Partial
  NoFile = NoFile
  Nobody = Nobody
  Faults = {}
  MaxId = 3
  MaxRequests = 3
  MaxRestarts = 0
INVARIANT ListingFailureIsAnswered
CHECK_DEADLOCK FALSE
