SPECIFICATION Spec
CONSTANTS
  QWORD = 2
  CPU_DISK_SIZE = 1
  DMA_LEN = 2
  DiskImages <- ZeroDisk
  MEMORY_SZ = 66
  STACK = 36
  RET_STACK = 44
  IDT = 48
  IRQ_P0_BUF = 32
  IRQ_SZ = 2
  Programs <- LatePrograms
  Hosts <- SoundHost
  Keys = {97}
  MaxKeys = 1
  MaxScreen = 4
INVARIANT NoReadWithoutKey
CHECK_DEADLOCK FALSE
