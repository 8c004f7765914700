SPECIFICATION Spec
CONSTANTS
  SpillChars = 3
  ImageThreshold = 2
  RowOverhead = 2
  Row = 1
  Header = 1
  OmissionLine = 1
  MaxBundleCount = 2
  MaxBundleBytes = 14
  MaxTotalBytes = 28
  Segments <- MCSegments
  IoFaults <- MCFaults
  Detached <- MCDetached
  MaxCalls = 3
  MaxFaults = 1
INVARIANTS
  QuotaKept
  NamedBundleExists
  IndexComplete
  RequestKeptTogether
  NothingLostSilently
CHECK_DEADLOCK FALSE
