SPECIFICATION FairTraceSpec
CONSTANTS
  QWORD = 2
  IDT = 48
  IRQ_P0_BUF = 32
  DMA_LEN = 2
  CAPACITY = 64
  Sources <- BytesPrograms
  Hosts <- SoundHosts
INVARIANT PushesAddress
CHECK_DEADLOCK FALSE
