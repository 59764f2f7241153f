\* Every operation on every argument over 17 configurations.
CONSTANTS
  Configured <- MCConfigured
  Arguments <- MCArguments
  MaxPicks = 2
  Programs = {"ls"}
  History <- MCHistory
SPECIFICATION Spec
INVARIANTS RunsWhatWasPicked EveryEntryLeads
PROPERTY PickingEnds
CHECK_DEADLOCK FALSE
