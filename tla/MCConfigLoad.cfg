\* Every main file with every pair of linked files, every operation.
CONSTANTS
  Disks <- MCDisks
  Main = "main"
  Requests <- MCRequests
  Cloned = {"r1", "r4"}
SPECIFICATION Spec
INVARIANTS ConfiguredOnce AcceptedIsValid FindsWhatIsConfigured
  ActiveHaveCommands
CHECK_DEADLOCK FALSE
