SPECIFICATION Spec
CONSTANTS
  KHEAP_SIZE = 78
  KHEAP_BSIZE = 8
  HdrSize = 5
  WordSize = 1
  PageSize = 16
  IdMod = 6
  Sizes = {7, 8}
  UMALLOC_ALIGN = 2
  UMALLOC_HDR_SIZE = 4
  UMALLOC_MIN_GROW = 16
  UHeapEnd = 40
  USizes = {0, 1, 5, 13}
  MAX_COLS = 3
  VGA_ROWS = 2
  FbSizes <- MCFb
  Bytes = {97, 10, 208, 226, 240, 159, 255}
  Messages <- MCMessages
  Keys = {98, 99}
  Cyrillic = {1055}
  LineMax = 2
  MaxCalls = 3
  MAX_MOUNTS = 2
  MAX_FD = 2
  MAX_FS <- MCMaxFs
  Slots = {t1}
  Idle = idle
  Volumes = {"hda1", "hdb1"}
  Driver <- MCDriver
  MountPaths <- MCMountPaths
  Dirs <- MCDirs
  Files <- MCFiles
  MaxSize = 1
  MaxStarts = 2
  first_data_block = 1
  blocks_count = 13
  blocks_per_group = 7
  inodes_count = 6
  inodes_per_group = 3
  first_ino = 3
  Meta = {1, 8}
  NDir = 1
  Ptrs = 2
  Units = 2
  DirUnits = 15
  Names = {"a", "long5"}
  NameLen <- MCNameLen
  MaxFiles = 2
  MaxCells = 5
  MaxOps = 3
  MaxFaults = 1
  EVQ_CAP = 2
  WM_MAX_WIN = 3
  UGFX_POOL_COUNT = 3
  Buttons <- MCButtons
  KeyCodes = {"esc"}
INVARIANTS
  AllocationsApart ScanIsFirstFit
  HeapTiled
  DecodesExactly EchoIsLine
  DescriptorsSound UmountTakesVisible
  Ext2BlocksOwned Ext2OwnContents Ext2AccountsExact Ext2DirectoriesSound
  ZOrderSound DragIsLive
\* The behaviours of the console and of ext2 end at their bounds.
CHECK_DEADLOCK FALSE
