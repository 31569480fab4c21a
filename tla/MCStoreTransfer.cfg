SPECIFICATION MCSpec
CONSTANTS
  Keys = {"c", "s", "l", "t", "h"}
  collectionName <- MCCollectionName
  ValsOf <- MCValsOf
  Expired = {"old"}
  None = None
  schemaVersion = 3
  VersionKey = "version"
  Configs = {"x", "y"}
  Contents <- MCContents
  Versions = {0, 1, 3}
  Files <- MCFiles
  Archives <- MCArchives
  MaxWrites = 1
  MaxFaults = 1
  MaxJobs = 1
CHECK_DEADLOCK FALSE
INVARIANTS
    TransferConsistent
    CountsAgree
    ImportExact
PROPERTY
    ImplementsSnapshots
