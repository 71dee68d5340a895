SPECIFICATION Spec
CONSTANTS
  QWORD = 2
  CPU_DISK_SIZE = 4
  DMA_LEN = 2
  DiskImages <- ZeroDisk
  MEMORY_SZ = 108
  STACK = 70
  RET_STACK = 80
  IDT = 90
  IRQ_P0_BUF = 68
  IRQ_SZ = 2
  Programs <- AllPrograms
  Hosts <- AnyHost
  Keys = {97}
  MaxKeys = 1
  MaxScreen = 2
INVARIANTS TypeOK IrqDiscipline ComputesReference FailureExplained
PROPERTIES ReturnLevel InterruptPromise HltIsForEver ArithmeticWraps ResumesThere EntersItsIsr
CHECK_DEADLOCK FALSE
