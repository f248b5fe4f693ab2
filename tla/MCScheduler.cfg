CONSTANTS
  TotalPages = 10
  MAX_PROCESSES = 4
  VirtTop = 20
SPECIFICATION FairSpec
INVARIANTS TypeOK CountIsLive OnlyCurrentRuns CurrentIsLive StacksOwned MeminfoExact
PROPERTIES TurnsApproach TurnComes
