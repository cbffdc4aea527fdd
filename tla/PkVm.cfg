CONSTANTS
  MAX_FILES = 3
  MAX_FDS = 2
  STD = 1
  PGSIZE = 2
  NPAGE = 4
  STACK = 1
  ELF = 1
  BRK_MIN = 3
  MAX_VMR = 2
  Lengths = {1, 3, 30, 32}
  Targets = {2, 3, 11}
  Offsets = {1}
  Prots <- MCProts
  NewProts <- MCNewProts
  KERNEL = 4
  VPAGES = 9
  MPAGES = 18
  UINT = 16
  TLB_ENTRIES = 1
  LEAKS = 1
SPECIFICATION Spec
INVARIANTS VmTypeOK VmrCountsPages FilesHeldByReferences FreshData NoStaleTranslation HandledFaultIsOver RightsNeverGrow AllocFindsRoom
PROPERTY BrkSparesMappings
CHECK_DEADLOCK FALSE
