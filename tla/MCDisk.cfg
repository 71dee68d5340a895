SPECIFICATION FairSpec
CONSTANTS
  QWORD = 2
  CPU_DISK_SIZE = 7
  DMA_LEN = 2
  DiskImages <- OldDisk
  MEMORY_SZ = 88
  STACK = 52
  RET_STACK = 66
  IDT = 70
  IRQ_P0_BUF = 50
  IRQ_SZ = 2
  Programs <- RightPrograms
  Hosts <- SoundHost
  Keys = {13, 97}
  MaxKeys = 3
  MaxScreen = 8
INVARIANTS EchoInOrder AtRest ReadNeverBlocks LogOnDisk FaultsOnlyWhenFull
PROPERTIES ClockServed KeyEventServed SlowTypingLosesNone LoneKeyNoticed
CHECK_DEADLOCK FALSE
