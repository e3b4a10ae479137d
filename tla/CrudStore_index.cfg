SPECIFICATION Spec
CONSTANTS
  Workers = {w1, w2}
  Entities = {"crud/a", "crud//a", "crud/a/1/b"}
  Dirs <- MCDirs
  Root = "crud"
  DirOf <- MCDirOf
  Above <- MCAbove
  Numbered <- MCNumbered
  Contents = {x}
  Targets <- AllTargets
  NoEntity = NoEntity
  Partial = Partial
  NoFile = NoFile
  Nobody = Nobody
  Faults = {"mkdir", "open", "write", "remove"}
  MaxId = 3
  MaxRequests = 4
  MaxRestarts = 0
SYMMETRY Symmetry
INVARIANTS TypeOK MutexInv IndexOnDisk AliasesDisjoint DiskMatchesIndex
CHECK_DEADLOCK FALSE
