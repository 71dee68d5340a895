------------------------------- MODULE MCDisk -------------------------------
(***************************************************************************)
(* A program that logs every key to the disk: its keyboard ISR stores the  *)
(* key in the DMA buffer of port 0 and sends the disk a write command.     *)
(* The repository's own disk programs (tests/io.s, tests/format.s) still   *)
(* push an ISR address with each command and do not get that far.          *)
(***************************************************************************)
EXTENDS MCEcho

Start == 2    \* where the log begins

\* STORE drops its upper operand, hence the PushB(0).  The address of the DMA
\* buffer waits on the stack for the key that handle_kbd pushes on top of it.
LogProgram ==
    LET kbd_isr == 26
    IN Image(
        Push(kbd_isr) \o Raise(IRQ_KBD)
        \o PushB(DISK_SET) \o PushB(Start) \o PushB(2) \o Raise(IRQ_P0)
        \o Push(IRQ_P0_BUF)
        \o InsB(RET)
        \o PushB(0) \o InsB(STORE)                          \* _kbd_isr
        \o PushB(DISK_WR) \o PushB(1) \o Raise(IRQ_P0)
        \o Push(IRQ_P0_BUF)
        \o InsB(RET))

Logging == program = LogProgram

\* The two programs whose ISRs do what they should.
RightPrograms == {SimpleProgram, LogProgram}

\* A file that was full of 7s when the machine opened it.
OldDisk == {[i \in 0 .. CPU_DISK_SIZE - 1 |-> 7]}

\* Between interrupts the file holds the keys read so far, one DMA buffer
\* each, in order and nothing else: the rest is the old file with the zero
\* byte init_disk puts at its end.
LogOnDisk ==
    Logging /\ Idle =>
        /\ curpos = Start + nread * DMA_LEN
        /\ \A i \in 0 .. CPU_DISK_SIZE - 1 :
              LET k == (i - Start) \div DMA_LEN
              IN map[i] = CASE i \in Start .. curpos - 1 ->
                                 IF (i - Start) % DMA_LEN = 0 THEN typed[k + 1] ELSE 0
                            [] i \notin Start .. curpos - 1 ->
                                 IF i = CPU_DISK_SIZE - 1 THEN 0 ELSE 7

\* The one thing that goes wrong is a disk that fills up, and it goes wrong
\* with the first key that does not fit: neither the program nor the disk
\* looks at the end of the mapping (disk.c:121-125).
FaultsOnlyWhenFull ==
    Logging /\ status # "ok" =>
        /\ status = "wild" /\ hpc = "kbd"
        /\ nread = (CPU_DISK_SIZE - Start) \div DMA_LEN + 1

=============================================================================
