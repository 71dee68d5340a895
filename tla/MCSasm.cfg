SPECIFICATION FairTraceSpec
CONSTANTS
  QWORD = 2
  IDT = 48
  IRQ_P0_BUF = 32
  DMA_LEN = 2
  CAPACITY = 64
  Sources <- AllPrograms
  Hosts <- AllHosts
INVARIANTS TypeOK CodeInPlace DataReached RefsApart WildExplained ReadsAll ImagesAssembled
PROPERTY Finishes
CHECK_DEADLOCK FALSE
