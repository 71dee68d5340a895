SPECIFICATION Spec
CONSTANTS
  QWORD = 2
  CPU_DISK_SIZE = 1
  DMA_LEN = 2
  DiskImages <- ZeroDisk
  MEMORY_SZ = 300
  STACK = 270
  RET_STACK = 278
  IDT = 282
  IRQ_P0_BUF = 266
  IRQ_SZ = 2
  Programs <- FarPrograms
  Hosts <- SoundHost
  Keys = {97}
  MaxKeys = 1
  MaxScreen = 4
PROPERTY TimerJumpsToIsr
CHECK_DEADLOCK FALSE
