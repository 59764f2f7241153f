\* Seven packages and a name that was not loaded; every order of the queue.
CONSTANTS
  Names = 8
  Package <- MCPackage
  Name <- MCName
  ImportGraph <- MCImportGraph
SPECIFICATION ModuleSpec
INVARIANTS DependenciesFirst EveryPackageOnce NoEmptyGroup
  AsEarlyAsPossible GivesUpOnlyWhenNotLoaded
 
CHECK_DEADLOCK FALSE
