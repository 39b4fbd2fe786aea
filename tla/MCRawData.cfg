CONSTANTS
  c1 = c1
  c2 = c2
  c3 = c3
  d1 = d1
  d2 = d2
  w1 = w1
  Creates <- AllCreates
  TypeOf <- MCTypeOf
  FileCount <- MCFileCount
  Deletes <- TwoDeletes
  Downloads <- OneDownload
  DiskMayFail = TRUE
  MayCrash = TRUE
SPECIFICATION Spec
CHECK_DEADLOCK FALSE
INVARIANTS
  NoOrphans
  OnlyFailuresDamage
PROPERTIES
  CatalogSpec
