SPECIFICATION Spec
CONSTANTS
  MaxCluster = 7
  Units = 2
  EntPer = 2
  Names = {"a"}
  MaxFiles = 2
  MaxSize = 3
  MaxFaults = 1
INVARIANTS ChainsSound OwnData NothingLost
PROPERTY DefragKeepsFiles
CHECK_DEADLOCK FALSE
