CONSTANTS
  Machines <- MCMachines
  Settings <- MCSettings
  Workers = 2
  MaxLaunches = 2
  MaxMeddling = 1
  Package = {"n", "a", "b"}
  Native = {"n"}
  InAUR = {"a"}
  Beginnings <- MCBeginnings
  Requests <- MCRequests
  Builders = 2
  MaxChanges = 1
  Trees <- MCTrees
  OptionSets <- MCOptionSets
SPECIFICATION Spec
INVARIANTS
  SetUpOnce AsConfiguredWhenDone NothingOverwritten
  IndexIsTrue InstalledWhenDone 
CHECK_DEADLOCK FALSE
