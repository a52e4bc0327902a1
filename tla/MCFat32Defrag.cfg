SPECIFICATION Spec
CONSTANTS
  MaxCluster = 8
  Units = 1
  EntPer = 2
  Names = {"a"}
  MaxFiles = 2
  MaxSize = 3
  MaxFaults = 1
PROPERTY LeftAsItWas
CHECK_DEADLOCK FALSE
