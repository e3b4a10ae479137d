SPECIFICATION Spec
CONSTANTS
  Workers = {w1, w2}
  Entities = {"crud/a", "crud//a", "crud/a/1/b"}
  Dirs <- MCDirs
  Root = "crud"
  DirOf <- MCDirOf
  Above <- MCAbove
  Numbered <- MCNumbered
  Contents = {x, y}
  Targets <- OtherSpelling
  NoEntity = NoEntity
  Partial = Partial
  NoFile = NoFile
  Nobody = Nobody
  Faults = {"mkdir", "open", "remove"}
  MaxId = 3
  MaxRequests = 4
  MaxRestarts = 1
SYMMETRY Symmetry
INVARIANTS NoTornRead
PROPERTIES OnlyOwnRequestChangesFile ServesStore
CHECK_DEADLOCK FALSE
