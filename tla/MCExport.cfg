SPECIFICATION Spec
CONSTANTS
  Texts = {"", "a"}
  Valid = {"a"}
  PoolSize = 2
  MaxJobs = 1
PROPERTIES
  ExportsWhatIsShown
CHECK_DEADLOCK FALSE
