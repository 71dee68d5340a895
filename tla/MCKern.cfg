SPECIFICATION Spec
CONSTANTS
  QWORD = 2
  CPU_DISK_SIZE = 1
  DMA_LEN = 2
  DiskImages <- ZeroDisk
  MEMORY_SZ = 86
  STACK = 56
  RET_STACK = 64
  IDT = 68
  IRQ_P0_BUF = 54
  IRQ_SZ = 2
  Programs <- KernPrograms
  Hosts <- SoundHost
  Keys = {97}
  MaxKeys = 1
  MaxScreen = 4
INVARIANT EntryQueued
CHECK_DEADLOCK FALSE
