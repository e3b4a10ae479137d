SPECIFICATION FairSpec
CONSTANTS
  Workers = {w1, w2, w3}
  Entities = {"crud/a", "crud//a", "crud/a/1/b"}
  Dirs <- MCDirs
  Root = "crud"
  DirOf <- MCDirOf
  Above <- MCAbove
  Numbered <- MCNumbered
  Contents = {"x"}
  Targets <- OneEntity
  NoEntity = NoEntity
  Partial = Partial
  NoFile = NoFile
  Nobody = Nobody
  Faults = {"mkdir", "open"}
  MaxId = 3
  MaxRequests = 3
  MaxRestarts = 0
PROPERTIES Answered
CHECK_DEADLOCK FALSE
