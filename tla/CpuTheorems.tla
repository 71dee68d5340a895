----------------------------- MODULE CpuTheorems -----------------------------
(***************************************************************************)
(* Theorems about the machine, for every program, host, disk image, size   *)
(* of the memory and size of a qword.                                      *)
(***************************************************************************)
EXTENDS CpuProofs

----------------------------------------------------------------------------
(* Interrupt calls *)

LEMMA IrqsDistinct ==
    ASSUME CpuAssumption, QwordAssumption
    PROVE  /\ IRQ_CLK \in Nat \ {0}
           /\ IRQ_CLK \notin {IRQ_TTY, IRQ_KBD, IRQ_MMU, TTY_MASTER} \union Ports
           /\ IRQ_KBD \notin {IRQ_TTY, IRQ_MMU} \union Ports
           /\ IRQ_TTY \notin {IRQ_MMU} \union Ports
           /\ IRQ_MMU \notin Ports /\ IRQ_P0 \in Ports
<1>1. QWORD \in 2 .. 8 /\ IDT \in Nat \ {0}
  BY DEF CpuAssumption, MemoryAssumption, QwordAssumption
<1>. QED  BY <1>1 DEF IRQ_CLK, IRQ_TTY, IRQ_KBD, IRQ_MMU, IRQ_P0, Ports, IRQ, TTY_MASTER

LEMMA IntHeadType ==
    ASSUME MachineTypeOK, CpuAssumption, QwordAssumption,
           Accessible(sp - QWORD - 1, 1)
    PROVE  mem[sp - QWORD - 1] \in 0 .. 255
<1>1. sp - QWORD - 1 \in 0 .. MEMORY_SZ - 1
  BY DEF Accessible, MachineTypeOK, CpuAssumption, MemoryAssumption, QwordAssumption
<1>2. mem[sp - QWORD - 1] \in Byte
  BY <1>1 DEF MachineTypeOK
<1>. QED  BY <1>2, ByteRange

\* How much an interrupt call takes from the stack.
LEMMA IntConsumedBy ==
    ASSUME CpuAssumption, QwordAssumption
    PROVE  /\ irq = IRQ_CLK => IntConsumed = QWORD + (QWORD + 2)
           /\ irq = IRQ_KBD => IntConsumed = QWORD + QWORD
           /\ irq = IRQ_TTY => IntConsumed = QWORD + 1
           /\ irq = IRQ_MMU => IntConsumed \in {QWORD + (1 + n) : n \in {2 * QWORD, 2, 0}}
           /\ irq \in Ports => IntConsumed = QWORD + (1 + IntHead)
           /\ irq \notin {IRQ_CLK, IRQ_KBD, IRQ_TTY, IRQ_MMU} \union Ports
                => IntConsumed = QWORD + 0
BY IrqsDistinct DEF IntConsumed, MmuConsumed

LEMMA IntOperands ==
    ASSUME MachineTypeOK, CpuAssumption, QwordAssumption, IntDefined
    PROVE  /\ IntConsumed \in Nat
           /\ sp - IntConsumed \in Nat
           /\ Accessible(sp - IntConsumed, IntConsumed)
           /\ irq \in Ports => IntHead \in 0 .. 255
<1>1. QWORD \in 2 .. 8 /\ sp \in Nat
  BY DEF QwordAssumption, MachineTypeOK
<1>2. irq \in Ports => IntHead \in 0 .. 255
  BY IntHeadType DEF IntDefined, HasHead, IntHead
<1>3. IntConsumed \in Nat \ {0}
  <2>1. CASE irq \in {IRQ_CLK, IRQ_KBD, IRQ_TTY}
    BY <1>1, <2>1, IntConsumedBy
  <2>2. CASE irq = IRQ_MMU
    BY <1>1, <2>2, IntConsumedBy
  <2>3. CASE irq \in Ports
    BY <1>1, <1>2, <2>3, IntConsumedBy
  <2>4. CASE irq \notin {IRQ_CLK, IRQ_KBD, IRQ_TTY, IRQ_MMU} \union Ports
    BY <1>1, <2>4, IntConsumedBy
  <2>. QED  BY <2>1, <2>2, <2>3, <2>4
<1>4. Accessible(sp - IntConsumed, IntConsumed)
  BY DEF IntDefined
<1>5. sp - IntConsumed \in Nat
  BY <1>1, <1>3, <1>4 DEF Accessible
<1>. QED  BY <1>2, <1>3, <1>4, <1>5

\* A vector given to the timer or the keyboard is a qword of bytes.
LEMMA IsrType ==
    ASSUME MachineTypeOK, CpuAssumption, QwordAssumption, IntDefined,
           irq \in {IRQ_CLK, IRQ_KBD}
    PROVE  Block(2 * QWORD, QWORD) \in [0 .. QWORD - 1 -> Byte]
<1>1. QWORD \in Nat /\ 2 * QWORD \in Nat /\ QWORD <= 2 * QWORD
  BY DEF QwordAssumption
<1>2. IntConsumed \in Nat /\ 2 * QWORD <= IntConsumed
  BY <1>1, IntOperands, IntConsumedBy
<1>. QED  BY <1>1, <1>2, IntOperands, OperandType

LEMMA EventsType ==
    ASSUME KqTypeOK
    PROVE  /\ Activate(TTY_MASTER) => events' \in Seq({IRQ_CLK, TTY_MASTER})
           /\ KeyboardOnly \in Seq({IRQ_CLK, TTY_MASTER})
<1>. DEFINE Idents == {IRQ_CLK, TTY_MASTER}
<1>1. events \in Seq(Idents)
  BY DEF KqTypeOK
<1>2. Append(events, TTY_MASTER) \in Seq(Idents)
  BY <1>1
<1>3. <<>> \in Seq(Idents) /\ <<TTY_MASTER>> \in Seq(Idents)
  OBVIOUS
<1>. HIDE DEF Idents
<1>4. Activate(TTY_MASTER) => events' \in Seq(Idents)
  BY <1>1, <1>2 DEF Activate
<1>5. KeyboardOnly \in Seq(Idents)
  BY <1>3 DEF KeyboardOnly
<1>. QED  BY <1>4, <1>5 DEF Idents

LEMMA SetTimerType ==
    ASSUME MachineTypeOK, KqTypeOK, CpuAssumption,
           NEW isr \in [0 .. QWORD - 1 -> Byte], QwordAssumption, set_timer_isr(isr)
    PROVE  mem' \in Memory /\ KqTypeOK'
<1>1. QWORD \in Nat /\ IRQ_CLK \in Nat
  BY IrqsDistinct DEF QwordAssumption
<1>2. mem' \in Memory
  BY <1>1, StoreType DEF set_timer_isr
<1>3. KqTypeOK'
  BY EventsType DEF set_timer_isr, KqTypeOK
<1>. QED  BY <1>2, <1>3

LEMMA SetKbdType ==
    ASSUME MachineTypeOK, KqTypeOK, CpuAssumption,
           NEW isr \in [0 .. QWORD - 1 -> Byte], QwordAssumption, set_kbd_isr(isr)
    PROVE  mem' \in Memory /\ KqTypeOK'
<1>1. QWORD \in Nat /\ IRQ_KBD \in Nat
  BY Vectors DEF QwordAssumption, IRQ_KBD
<1>2. mem' \in Memory
  BY <1>1, StoreType DEF set_kbd_isr
<1>3. KqTypeOK'
  BY EventsType DEF set_kbd_isr, KqTypeOK
<1>. QED  BY <1>2, <1>3

LEMMA WriteTtyType ==
    ASSUME NEW c \in Byte, screen \in Seq(Byte), write_tty(c)
    PROVE  screen' \in Seq(Byte)
<1>1. <<13, 10>> \in Seq(Byte) /\ <<c>> \in Seq(Byte)
  BY ByteRange
<1>. QED  BY <1>1 DEF write_tty

LEMMA PortType ==
    ASSUME MachineTypeOK, DiskTypeOK, CpuAssumption, QwordAssumption, DiskAssumption,
           IntDefined, irq = IRQ_P0, NEW cmd, port0_int(cmd)
    PROVE  mem' \in Memory /\ DiskTypeOK'
<1>1. /\ MEMORY_SZ \in Nat /\ DMA_LEN \in Nat \ {0} /\ CPU_DISK_SIZE \in Nat
      /\ IRQ_P0_BUF \in Nat /\ IRQ_P0_BUF + DMA_LEN <= MEMORY_SZ
      /\ QWORD \in 2 .. 8 /\ sp \in Nat
      /\ mem \in [0 .. MEMORY_SZ - 1 -> Byte]
  BY DEF CpuAssumption, MemoryAssumption, DiskAssumption, MachineTypeOK, QwordAssumption
<1>2. mem' \in Memory
  <2>1. 0 \in Byte
    BY ByteRange
  <2>. QED  BY <1>1, <2>1 DEF port0_int, Memory
<1>. DEFINE n == IntHead - 1
            dma == Slice(mem, IRQ_P0_BUF, DMA_LEN)
            payload == Slice(mem, sp - IntConsumed + 1, n)
<1>3. dma \in [0 .. DMA_LEN - 1 -> Byte]
  BY <1>1, SliceType
<1>4. disk_handler(cmd, payload, n, dma) /\ ~DiskUndefined(cmd, n)
  BY DEF port0_int
<1>5. CASE cmd = DISK_SET
  <2>1. n \in 0 .. QWORD
    BY <1>4, <1>5 DEF DiskUndefined
  <2>2. IntHead \in 0 .. 255 /\ IntConsumed = QWORD + (1 + IntHead)
    BY IrqsDistinct, IntOperands, IntConsumedBy
  <2>3. sp - IntConsumed \in Nat /\ Accessible(sp - IntConsumed, IntConsumed)
    BY IntOperands
  <2>4. sp - IntConsumed + 1 \in Nat /\ (sp - IntConsumed + 1) + n <= MEMORY_SZ
    BY <1>1, <2>1, <2>2, <2>3 DEF Accessible
  <2>5. payload \in [0 .. n - 1 -> Byte] /\ n \in Nat
    <3>1. n \in Nat
      BY <1>1, <2>1
    <3>. HIDE DEF n
    <3>. QED  BY <1>1, <2>4, <3>1, SliceType
  <2>. HIDE DEF n, payload
  <2>6. Num(payload, n) \in Nat
    BY <2>5, NumType
  <2>. QED  BY <1>2, <1>4, <1>5, <2>6
       DEF disk_handler, set_disk_position, DISK_SET, DISK_WR, DiskTypeOK
<1>6. CASE cmd = DISK_WR
  <2>. HIDE DEF n, payload, dma
  <2>1. curpos \in Nat /\ map \in [0 .. CPU_DISK_SIZE - 1 -> Byte]
    BY DEF DiskTypeOK
  <2>2. Overwrite(map, curpos, dma) \in [0 .. CPU_DISK_SIZE - 1 -> Byte]
    BY <1>3, <2>1 DEF Overwrite
  <2>. QED  BY <1>1, <1>2, <1>4, <1>6, <2>1, <2>2
       DEF disk_handler, write_disk, DISK_SET, DISK_WR, DiskTypeOK
<1>7. CASE cmd \notin {DISK_SET, DISK_WR}
  <2>. HIDE DEF n, payload, dma
  <2>. QED  BY <1>2, <1>4, <1>7 DEF disk_handler, diskVars, DiskTypeOK
<1>. QED  BY <1>2, <1>5, <1>6, <1>7

LEMMA IntType ==
    ASSUME TypeOK, CpuAssumption, QwordAssumption, DiskAssumption, Defined, handle_int
    PROVE  MachineTypeOK' /\ KqTypeOK' /\ screen' \in Seq(Byte) /\ DiskTypeOK'
<1>1. MachineTypeOK /\ KqTypeOK /\ DiskTypeOK /\ screen \in Seq(Byte)
  BY DEF TypeOK, TerminalTypeOK
<1>2. IntDefined
  BY DEF Defined, handle_int
<1>3. sp' \in Nat /\ ip' \in Nat /\ rp' \in Nat /\ halted' \in BOOLEAN
  BY <1>1, <1>2, IntOperands DEF handle_int, Advance, MachineTypeOK
<1>4. mem' \in Memory /\ KqTypeOK' /\ screen' \in Seq(Byte) /\ DiskTypeOK'
  <2>. DEFINE isr == Block(2 * QWORD, QWORD)
  <2>1. CASE irq = IRQ_CLK /\ set_timer_isr(isr) /\ UNCHANGED <<screen, diskVars>>
    <3>1. isr \in [0 .. QWORD - 1 -> Byte]
      BY <1>1, <1>2, <2>1, IsrType
    <3>. HIDE DEF isr
    <3>. QED  BY <1>1, <2>1, <3>1, SetTimerType DEF diskVars, DiskTypeOK
  <2>2. CASE irq = IRQ_KBD /\ set_kbd_isr(isr) /\ UNCHANGED <<screen, diskVars>>
    <3>1. isr \in [0 .. QWORD - 1 -> Byte]
      BY <1>1, <1>2, <2>2, IsrType
    <3>. HIDE DEF isr
    <3>. QED  BY <1>1, <2>2, <3>1, SetKbdType DEF diskVars, DiskTypeOK
  <2>3. CASE irq = IRQ_TTY /\ write_tty(mem[sp - QWORD - 1])
             /\ UNCHANGED <<mem, kq, diskVars>>
    <3>1. Accessible(sp - QWORD - 1, 1)
      <4>1. IntConsumed = QWORD + 1 /\ Accessible(sp - IntConsumed, IntConsumed)
        BY <1>1, <1>2, <2>3, IntOperands, IntConsumedBy
      <4>2. QWORD \in 2 .. 8 /\ sp \in Nat /\ MEMORY_SZ \in Nat
        BY <1>1 DEF MachineTypeOK, QwordAssumption, CpuAssumption, MemoryAssumption
      <4>. HIDE DEF IntConsumed
      <4>. QED  BY <4>1, <4>2 DEF Accessible
    <3>2. mem[sp - QWORD - 1] \in Byte
      BY <1>1, <3>1, IntHeadType, ByteRange
    <3>3. screen' \in Seq(Byte)
      BY <1>1, <2>3, <3>2, WriteTtyType
    <3>4. mem' \in Memory
      BY <1>1, <2>3 DEF MachineTypeOK, Memory
    <3>. QED  BY <1>1, <2>3, <3>3, <3>4 DEF kq, diskVars, KqTypeOK, DiskTypeOK
  <2>4. CASE irq = IRQ_P0 /\ (\E cmd \in PortCommands : port0_int(cmd))
             /\ UNCHANGED <<kq, screen>>
    <3>1. PICK cmd \in PortCommands : port0_int(cmd)
      BY <2>4
    <3>2. mem' \in Memory /\ DiskTypeOK'
      BY <1>1, <1>2, <2>4, <3>1, PortType
    <3>. QED  BY <1>1, <2>4, <3>2 DEF kq, KqTypeOK
  <2>5. CASE UNCHANGED <<mem, kq, screen, diskVars>>
    <3>1. mem' \in Memory
      BY <1>1, <2>5 DEF MachineTypeOK, Memory
    <3>. QED  BY <1>1, <2>5, <3>1 DEF kq, diskVars, KqTypeOK, DiskTypeOK
  <2>. QED  BY <2>1, <2>2, <2>3, <2>4, <2>5 DEF handle_int
<1>. QED  BY <1>3, <1>4 DEF MachineTypeOK, Memory

----------------------------------------------------------------------------
(* One instruction, one interrupt *)

LEMMA OpType ==
    ASSUME TypeOK, CpuAssumption, QwordAssumption, PowerAssumption, DiskAssumption,
           Defined, handle_op
    PROVE  MachineTypeOK' /\ KqTypeOK' /\ screen' \in Seq(Byte) /\ DiskTypeOK'
<1>1. MachineTypeOK /\ KqTypeOK /\ DiskTypeOK /\ screen \in Seq(Byte)
  BY DEF TypeOK, TerminalTypeOK
<1>2. CASE handle_int
  BY <1>2, IntType
<1>3. CASE ~handle_int
  <2>1. UNCHANGED <<kq, screen, diskVars>>
    BY <1>3 DEF handle_op
  <2>2. KqTypeOK' /\ screen' \in Seq(Byte) /\ DiskTypeOK'
    BY <1>1, <2>1 DEF kq, diskVars, KqTypeOK, DiskTypeOK
  <2>3. CASE handle_nop
    BY <1>1, <2>2, <2>3 DEF handle_nop, Advance, MachineTypeOK
  <2>4. CASE handle_hlt
    BY <1>1, <2>2, <2>4 DEF handle_hlt, MachineTypeOK
  <2>5. CASE handle_call
    BY <1>1, <2>2, <2>5, CallType
  <2>6. CASE handle_ret
    BY <1>1, <2>2, <2>6, RetType
  <2>7. CASE handle_load
    BY <1>1, <2>2, <2>7, LoadType
  <2>8. CASE handle_store
    BY <1>1, <2>2, <2>8, StoreOpType
  <2>9. CASE handle_op2
    BY <1>1, <2>2, <2>9, Op2Type
  <2>10. CASE handle_jump
    BY <1>1, <2>2, <2>10, JumpType
  <2>11. CASE handle_dup
    BY <1>1, <2>2, <2>11, DupType
  <2>12. CASE handle_push
    BY <1>1, <2>2, <2>12, PushType
  <2>13. CASE handle_pop
    BY <1>1, <2>2, <2>13, DefinedType DEF handle_pop, Drop, Advance, MachineTypeOK
  <2>14. CASE handle_swap
    BY <1>1, <2>2, <2>14, SwapType
  <2>. QED  BY <1>3, <2>3, <2>4, <2>5, <2>6, <2>7, <2>8, <2>9, <2>10, <2>11, <2>12,
               <2>13, <2>14 DEF handle_op
<1>. QED  BY <1>2, <1>3

\* No instruction wakes a machine that has halted.
LEMMA OpHalts ==
    ASSUME handle_op
    PROVE  halted' \in {halted, TRUE}
BY DEF handle_op, handle_nop, handle_hlt, handle_call, handle_ret, handle_load,
       handle_store, handle_op2, handle_jump, handle_dup, handle_push, handle_pop,
       handle_swap, handle_int

\* Pushing the return address on any memory keeps the machine typed.
LEMMA HandleIrqType ==
    ASSUME MachineTypeOK, CpuAssumption, QwordAssumption, PowerAssumption,
           NEW where, NEW isr \in Nat, NEW stack \in Memory, handle_irq(where, isr, stack)
    PROVE  mem' \in Memory /\ ip' \in Nat /\ rp' \in Nat /\ ret' \in Nat
<1>1. /\ MEMORY_SZ \in Nat /\ QWORD \in Nat /\ QWORD \in 0 .. QWORD
      /\ ip \in Int /\ rp \in Nat
  BY DEF MachineTypeOK, CpuAssumption, MemoryAssumption, QwordAssumption
<1>2. LE(ip, QWORD) \in [0 .. QWORD - 1 -> Byte]
  BY <1>1, LEType
<1>3. Overwrite(stack, rp, LE(ip, QWORD)) \in Memory
  BY <1>2 DEF Memory, Overwrite
<1>. QED  BY <1>1, <1>3 DEF handle_irq

LEMMA KeyIsByte ==
    ASSUME TerminalTypeOK, CpuAssumption, nread < Len(typed)
    PROVE  typed[nread + 1] \in Byte
<1>1. nread + 1 \in 1 .. Len(typed) /\ typed \in Seq(Keys)
  BY DEF TerminalTypeOK
<1>. QED  BY <1>1 DEF CpuAssumption, InputAssumption

\* A key's interrupt finds the key pushed, and takes the ISR's address from
\* the memory as it is then.
LEMMA KeyInterrupts ==
    ASSUME MachineTypeOK, TerminalTypeOK, CpuAssumption, QwordAssumption,
           handle_kbd, nread < Len(typed)
    PROVE  \E isr \in Nat, stack \in Memory :
              /\ isr < RADIX^QWORD /\ stack = [mem EXCEPT ![sp] = typed[nread + 1]]
              /\ handle_irq("kbd", isr, stack)
<1>. DEFINE stack == [mem EXCEPT ![sp] = typed[nread + 1]]
            isr   == Num(Slice(stack, IRQ_KBD, QWORD), QWORD)
<1>1. stack \in Memory /\ MEMORY_SZ \in Nat /\ QWORD \in Nat
  BY KeyIsByte DEF MachineTypeOK, Memory, CpuAssumption, MemoryAssumption, QwordAssumption
<1>2. IRQ_KBD \in Nat /\ IRQ_KBD + QWORD <= MEMORY_SZ
  <2>1. 2 \in 0 .. 8 /\ IRQ_KBD = IRQ(2)
    BY DEF IRQ_KBD
  <2>. QED  BY <2>1, Vectors
<1>3. handle_irq("kbd", isr, stack)
  BY DEF handle_kbd
<1>4. isr \in Nat /\ isr < RADIX^QWORD
  <2>. HIDE DEF stack
  <2>1. Slice(stack, IRQ_KBD, QWORD) \in [0 .. QWORD - 1 -> Byte]
    BY <1>1, <1>2, SliceType DEF Memory
  <2>2. QWORD \in 0 .. QWORD
    BY <1>1
  <2>. QED  BY <1>1, <2>1, <2>2, NumType, NumBound
<1>. HIDE DEF isr
<1>. QED  BY <1>1, <1>3, <1>4

----------------------------------------------------------------------------
(* Type correctness *)

LEMMA InitType ==
    ASSUME CpuAssumption, QwordAssumption, DiskAssumption, Init
    PROVE  TypeOK
<1>1. ProcessTypeOK
  BY DEF Init, init_cpu, load_cpu, ProcessTypeOK
<1>2. MachineTypeOK
  <2>1. program \in Seq(Byte) /\ 0 \in Byte
    BY ByteRange DEF Init, init_cpu, load_cpu, CpuAssumption, InputAssumption
  <2>2. ASSUME NEW i \in 0 .. MEMORY_SZ - 1
        PROVE  (IF i < Len(program) THEN program[i + 1] ELSE 0) \in Byte
    <3>1. CASE i < Len(program)
      <4>1. i + 1 \in 1 .. Len(program)
        BY <2>1, <3>1
      <4>. QED  BY <2>1, <3>1, <4>1
    <3>2. CASE ~(i < Len(program))
      BY <2>1, <3>2
    <3>. QED  BY <3>1, <3>2
  <2>3. mem \in [0 .. MEMORY_SZ - 1 -> Byte]
    BY <2>2 DEF Init, init_cpu, load_cpu
  <2>. QED  BY <2>3 DEF Init, init_cpu, load_cpu, MachineTypeOK, CpuAssumption, MemoryAssumption
<1>3. KqTypeOK
  BY DEF Init, init_cpu, load_cpu, KqTypeOK, TTY_MASTER
<1>4. TerminalTypeOK
  <2>1. typed = <<>> /\ nread = 0 /\ eof = FALSE /\ screen = <<>>
    BY DEF Init, init_cpu, load_cpu
  <2>2. <<>> \in Seq(Keys) /\ <<>> \in Seq(Byte) /\ Len(<<>>) = 0
    OBVIOUS
  <2>3. typed \in Seq(Keys) /\ screen \in Seq(Byte) /\ Len(typed) = 0
    BY <2>1, <2>2, Zenon
  <2>4. nread \in 0 .. Len(typed) /\ eof \in BOOLEAN
    <3>1. 0 \in 0 .. 0 /\ FALSE \in BOOLEAN
      OBVIOUS
    <3>. QED  BY <2>1, <2>3, <3>1, Zenon
  <2>. QED  BY <2>3, <2>4, Zenon DEF TerminalTypeOK
<1>5. DiskTypeOK
  <2>1. PICK image \in DiskImages : map = [image EXCEPT ![CPU_DISK_SIZE - 1] = 0]
    BY DEF Init, init_cpu, load_cpu, init_disk
  <2>2. image \in [0 .. CPU_DISK_SIZE - 1 -> Byte] /\ 0 \in Byte
    BY ByteRange DEF DiskAssumption
  <2>. QED  BY <2>1, <2>2 DEF Init, init_cpu, load_cpu, init_disk, DiskTypeOK
<1>. QED  BY <1>1, <1>2, <1>3, <1>4, <1>5 DEF TypeOK

LEMMA TypeStep ==
    ASSUME CpuAssumption, QwordAssumption, PowerAssumption, DiskAssumption,
           TypeOK, [Next]_vars
    PROVE  TypeOK'
<1>. USE DEF TypeOK
<1>1. CASE step_cpu
  <2>1. MachineTypeOK' /\ KqTypeOK' /\ screen' \in Seq(Byte) /\ DiskTypeOK'
    BY <1>1, OpType DEF step_cpu
  <2>2. ProcessTypeOK'
    BY <1>1 DEF step_cpu, LeaveIrq, setup, ProcessTypeOK
  <2>3. UNCHANGED keyboard
    BY <1>1 DEF step_cpu
  <2>. QED  BY <2>1, <2>2, <2>3 DEF keyboard, TerminalTypeOK
<1>2. ASSUME NEW why \in {"exit", "wild"}, Stop(why)
      PROVE  TypeOK'
  BY <1>2 DEF Stop, setup, machine, kq, keyboard, diskVars, ProcessTypeOK, MachineTypeOK,
       KqTypeOK, TerminalTypeOK, DiskTypeOK
<1>3. CASE exit_cpu \/ wild_cpu \/ wild_irq
  BY <1>2, <1>3 DEF exit_cpu, wild_cpu, wild_irq
<1>4. CASE handle_io
  <2>1. UNCHANGED <<setup, status, watched, keyboard, screen, diskVars>>
    BY <1>4 DEF handle_io
  <2>2. TerminalTypeOK' /\ DiskTypeOK'
    BY <2>1 DEF keyboard, diskVars, TerminalTypeOK, DiskTypeOK
  <2>3. KqTypeOK'
    <3>1. events \in Seq({IRQ_CLK, TTY_MASTER}) /\ events # <<>>
      BY <1>4 DEF handle_io, KqTypeOK
    <3>2. Head(events) \in {IRQ_CLK, TTY_MASTER}
      BY <3>1
    <3>3. Tail(events) \in Seq({IRQ_CLK, TTY_MASTER})
      BY <3>1
    <3>. QED  BY <1>4, <2>1, <3>2, <3>3 DEF handle_io, KqTypeOK
  <2>4. CASE TimerDue
    <3>1. handle_irq("clk", mem[IRQ_CLK], mem) /\ UNCHANGED <<sp, halted>>
      BY <1>4, <2>4 DEF handle_io, handle_timer
    <3>2. mem[IRQ_CLK] \in Nat
      <4>1. IRQ_CLK \in 0 .. MEMORY_SZ - 1
        <5>1. 0 \in 0 .. 8 /\ IRQ_CLK = IRQ(0)
          BY DEF IRQ_CLK
        <5>2. IRQ_CLK \in Nat /\ IRQ_CLK + QWORD <= MEMORY_SZ
          BY <5>1, Vectors
        <5>. QED  BY <5>2 DEF CpuAssumption, MemoryAssumption, QwordAssumption
      <4>2. mem[IRQ_CLK] \in Byte
        BY <4>1 DEF MachineTypeOK
      <4>3. Byte \subseteq Nat
        BY ByteRange
      <4>. QED  BY <4>2, <4>3
    <3>3. mem \in Memory
      BY DEF MachineTypeOK, Memory
    <3>4. mem' \in Memory /\ ip' \in Nat /\ rp' \in Nat /\ ret' \in Nat
      BY <3>1, <3>2, <3>3, HandleIrqType
    <3>. QED  BY <2>1, <2>2, <2>3, <3>1, <3>4
         DEF handle_irq, setup, ProcessTypeOK, MachineTypeOK, Memory
  <2>5. CASE ~TimerDue
    BY <1>4, <2>1, <2>2, <2>3, <2>5
       DEF handle_io, setup, machine, ProcessTypeOK, MachineTypeOK
  <2>. QED  BY <2>4, <2>5
<1>5. CASE test_kbd
  BY <1>5 DEF test_kbd, setup, machine, kq, keyboard, diskVars, ProcessTypeOK,
       MachineTypeOK, KqTypeOK, TerminalTypeOK, DiskTypeOK
<1>6. CASE handle_kbd
  <2>1. UNCHANGED <<setup, halted, status, kq, typed, eof, screen, diskVars>>
    BY <1>6 DEF handle_kbd
  <2>2. KqTypeOK' /\ DiskTypeOK'
    BY <2>1 DEF kq, diskVars, KqTypeOK, DiskTypeOK
  <2>3. TerminalTypeOK'
    BY <1>6, <2>1 DEF handle_kbd, TerminalTypeOK
  <2>4. CASE nread < Len(typed)
    <3>1. PICK isr \in Nat, stack \in Memory : handle_irq("kbd", isr, stack)
      BY <1>6, <2>4, KeyInterrupts
    <3>3. sp' = sp + 1
      BY <1>6, <2>4 DEF handle_kbd
    <3>5. mem' \in Memory /\ ip' \in Nat /\ rp' \in Nat /\ ret' \in Nat
      BY <3>1, HandleIrqType
    <3>. QED  BY <2>1, <2>2, <2>3, <3>1, <3>3, <3>5
         DEF handle_irq, setup, ProcessTypeOK, MachineTypeOK, Memory
  <2>5. CASE ~(nread < Len(typed))
    BY <1>6, <2>1, <2>2, <2>3, <2>5 DEF handle_kbd, setup, ProcessTypeOK, MachineTypeOK
  <2>. QED  BY <2>4, <2>5
<1>7. CASE type_key
  <2>1. KqTypeOK'
    BY <1>7, EventsType DEF type_key, machineAndHost, Notify, KqTypeOK
  <2>2. TerminalTypeOK'
    BY <1>7 DEF type_key, machineAndHost, TerminalTypeOK
  <2>. QED  BY <1>7, <2>1, <2>2 DEF type_key, machineAndHost, setup, machine, diskVars,
               ProcessTypeOK, MachineTypeOK, DiskTypeOK
<1>8. CASE close_tty
  <2>1. KqTypeOK'
    BY <1>8, EventsType DEF close_tty, machineAndHost, Notify, KqTypeOK
  <2>. QED  BY <1>8, <2>1 DEF close_tty, machineAndHost, setup, machine, diskVars,
               ProcessTypeOK, MachineTypeOK, TerminalTypeOK, DiskTypeOK
<1>9. CASE timer_fires
  <2>1. KqTypeOK'
    BY <1>9 DEF timer_fires, machineAndHost, KqTypeOK
  <2>. QED  BY <1>9, <2>1 DEF timer_fires, machineAndHost, setup, machine, diskVars,
               ProcessTypeOK, MachineTypeOK, TerminalTypeOK, DiskTypeOK
<1>10. CASE UNCHANGED vars
  BY <1>10 DEF vars, setup, machine, kq, keyboard, diskVars, ProcessTypeOK,
       MachineTypeOK, KqTypeOK, TerminalTypeOK, DiskTypeOK
<1>. QED  BY <1>1, <1>3, <1>4, <1>5, <1>6, <1>7, <1>8, <1>9, <1>10 DEF Next, run_cpu

\* Whatever the program does, the machine stays a machine: memory and disk
\* hold bytes, the registers are offsets, and the terminal hands out only
\* keys that were typed; an access that would end this is status "wild".
THEOREM TypeCorrect == Spec => []TypeOK
<1>1. CpuAssumption /\ QwordAssumption /\ PowerAssumption /\ DiskAssumption
  BY CpuAssumption, QwordAssumption, PowerAssumption, DiskAssumption
<1>2. Init => TypeOK
  BY <1>1, InitType
<1>3. TypeOK /\ [Next]_vars => TypeOK'
  BY <1>1, TypeStep
<1>. QED  BY <1>2, <1>3, PTL DEF Spec

----------------------------------------------------------------------------
(* The discipline of interrupts *)

\* Together with the types, the discipline is inductive: LeaveIrq leaves the
\* loop exactly when rp is back at ret, and handle_irq moves rp off it.
LEMMA DisciplineStep ==
    ASSUME QwordAssumption, TypeOK, IrqDiscipline, [Next]_vars
    PROVE  IrqDiscipline'
<1>1. QWORD \in Nat \ {0} /\ rp \in Nat /\ NoLevel \notin Nat
  BY DEF QwordAssumption, TypeOK, MachineTypeOK, NoLevel
<1>2. CASE step_cpu
  <2>1. halted' \in {halted, TRUE} /\ ret' = ret
    BY <1>2, OpHalts DEF step_cpu, LeaveIrq
  <2>2. CASE hpc \in {"clk", "kbd"}
    <3>1. halted /\ ret # NoLevel
      BY <2>2 DEF IrqDiscipline
    <3>2. IF rp' = ret THEN hpc' \in {"mid", "program"} ELSE hpc' = hpc
      BY <1>2, <2>2 DEF step_cpu, LeaveIrq
    <3>. QED  BY <2>1, <2>2, <3>1, <3>2 DEF IrqDiscipline
  <2>3. CASE hpc = "program" /\ ~halted
    <3>1. hpc' = "program" /\ ret' = NoLevel
      BY <1>2, <2>1, <2>3 DEF step_cpu, LeaveIrq, IrqDiscipline
    <3>. QED  BY <3>1 DEF IrqDiscipline
  <2>. QED  BY <1>2, <2>2, <2>3 DEF step_cpu, Stepping
<1>3. CASE handle_io
  <2>1. halted /\ hpc = "program" /\ halted' = halted
    BY <1>3 DEF handle_io, handle_timer, machine
  <2>2. CASE TimerDue
    <3>1. ret' = rp /\ rp' = rp + QWORD /\ hpc' = "clk"
      BY <1>3, <2>2 DEF handle_io, handle_timer, handle_irq
    <3>2. rp' # ret' /\ ret' # NoLevel
      BY <1>1, <3>1
    <3>. QED  BY <2>1, <3>1, <3>2 DEF IrqDiscipline
  <2>3. CASE ~TimerDue
    BY <1>3, <2>1, <2>3 DEF handle_io, machine, IrqDiscipline
  <2>. QED  BY <2>2, <2>3
<1>4. CASE test_kbd
  BY <1>4 DEF test_kbd, machine, IrqDiscipline
<1>5. CASE handle_kbd
  <2>1. halted' = halted /\ hpc = "read"
    BY <1>5 DEF handle_kbd
  <2>2. CASE nread < Len(typed)
    <3>1. ret' = rp /\ rp' = rp + QWORD /\ hpc' = "kbd"
      BY <1>5, <2>2 DEF handle_kbd, handle_irq
    <3>2. rp' # ret' /\ ret' # NoLevel
      BY <1>1, <3>1
    <3>. QED  BY <2>1, <3>1, <3>2 DEF IrqDiscipline
  <2>3. CASE ~(nread < Len(typed))
    BY <1>5, <2>1, <2>3 DEF handle_kbd, IrqDiscipline
  <2>. QED  BY <2>2, <2>3
<1>6. CASE exit_cpu \/ wild_cpu \/ wild_irq
  BY <1>6 DEF exit_cpu, wild_cpu, wild_irq, Stop, machine, IrqDiscipline
<1>7. CASE type_key \/ close_tty \/ timer_fires
  BY <1>7 DEF type_key, close_tty, timer_fires, machineAndHost, machine, IrqDiscipline
<1>8. CASE UNCHANGED vars
  BY <1>8 DEF vars, machine, IrqDiscipline
<1>. QED  BY <1>2, <1>3, <1>4, <1>5, <1>6, <1>7, <1>8 DEF Next, run_cpu

\* An interrupt is served to its end before the next begins, and the return
\* stack is then as deep as it was found (handle_irq's loop).
THEOREM Discipline == Spec => []IrqDiscipline
<1>1. Init => IrqDiscipline
  BY DEF Init, init_cpu, IrqDiscipline
<1>2. TypeOK /\ IrqDiscipline /\ [Next]_vars => IrqDiscipline'
  BY QwordAssumption, DisciplineStep
<1>. QED  BY <1>1, <1>2, TypeCorrect, PTL DEF Spec

\* All interrupts are taken at one depth of the return stack: nothing a
\* program or an ISR does makes the stack creep from interrupt to interrupt.
THEOREM OneLevel == Spec => ReturnLevel
<1>1. TypeOK /\ IrqDiscipline /\ [Next]_vars => [ret # NoLevel => ret' = ret]_vars
  <2>. SUFFICES ASSUME TypeOK, IrqDiscipline, Next, ret # NoLevel
                PROVE  ret' = ret
    OBVIOUS
  <2>1. CASE handle_io
    BY <2>1 DEF handle_io, handle_timer, handle_irq, IrqDiscipline
  <2>2. CASE handle_kbd
    BY <2>2 DEF handle_kbd, handle_irq, IrqDiscipline
  <2>3. CASE step_cpu \/ test_kbd
    BY <2>3 DEF step_cpu, LeaveIrq, test_kbd
  <2>4. CASE exit_cpu \/ wild_cpu \/ wild_irq
    BY <2>4 DEF exit_cpu, wild_cpu, wild_irq, Stop
  <2>5. CASE type_key \/ close_tty \/ timer_fires
    BY <2>5 DEF type_key, close_tty, timer_fires, machineAndHost
  <2>. QED  BY <2>1, <2>2, <2>3, <2>4, <2>5 DEF Next, run_cpu
<1>. QED  BY <1>1, TypeCorrect, Discipline, PTL DEF Spec, ReturnLevel

----------------------------------------------------------------------------
(* Arithmetic *)

\* A block written to memory is read again, and nothing else has changed.
ReadsBack(p, m, at, len, block) ==
    /\ \A d, n \in Nat : d + n <= len =>
          Slice(p, at + d, n) = [i \in 0 .. n - 1 |-> block[d + i]]
    /\ \A i \in DOMAIN m : i \notin at .. at + len - 1 => p[i] = m[i]

LEMMA Written ==
    ASSUME NEW size \in Nat, NEW m \in [0 .. size - 1 -> Byte], NEW at \in Nat,
           NEW len \in Nat, at + len <= size, NEW block, DOMAIN block = 0 .. len - 1,
           NEW p, p = Overwrite(m, at, block)
    PROVE  ReadsBack(p, m, at, len, block)
<1>1. ASSUME NEW d \in Nat, NEW n \in Nat, d + n <= len, NEW i \in 0 .. n - 1
      PROVE  p[at + d + i] = block[d + i]
  <2>1. /\ at + d + i \in 0 .. size - 1 /\ (at + d + i) - at = d + i
        /\ d + i \in 0 .. len - 1
    BY <1>1
  <2>. QED  BY <2>1 DEF Overwrite
<1>2. ASSUME NEW i \in DOMAIN m, i \notin at .. at + len - 1
      PROVE  p[i] = m[i]
  <2>1. i \in Int /\ i - at \notin 0 .. len - 1
    BY <1>2
  <2>. QED  BY <2>1 DEF Overwrite
<1>. QED  BY <1>1, <1>2 DEF Slice, ReadsBack

\* A step that moves ip is one of the loops that execute instructions.
LEMMA ExecutesStep ==
    ASSUME [Next]_vars, Stepping, ip' # ip
    PROVE  handle_op
<1>1. /\ hpc \in {"clk", "kbd", "program"} /\ (hpc = "program" => ~halted)
  BY DEF Stepping
<1>2. ~(handle_io \/ test_kbd \/ handle_kbd)
  BY <1>1 DEF handle_io, test_kbd, handle_kbd
<1>3. ~(exit_cpu \/ wild_cpu \/ wild_irq)
  BY DEF exit_cpu, wild_cpu, wild_irq, Stop, machine
<1>4. ~(type_key \/ close_tty \/ timer_fires)
  BY DEF type_key, close_tty, timer_fires, machineAndHost, machine
<1>5. ~UNCHANGED vars
  BY DEF vars, machine
<1>. QED  BY <1>2, <1>3, <1>4, <1>5 DEF Next, run_cpu, step_cpu

LEMMA ExecutesOp2 ==
    ASSUME handle_op, Op \in NumberOps
    PROVE  handle_op2
<1>1. Op \notin {NOP, HLT, CALL, RET, LOAD, STORE, JMP, JE, JNE, JZ, JNZ, DUP, PUSH, POP,
                 SWAP, INT}
  BY DEF NumberOps, NOP, HLT, CALL, RET, LOAD, STORE, ADD, SUB, MUL, DIV,
         JMP, JE, JNE, JZ, JNZ, DUP, PUSH, POP, SWAP, INT
<1>. QED
  BY <1>1
  DEF handle_op, handle_nop, handle_hlt, handle_call, handle_ret, handle_load,
      handle_store, handle_jump, handle_dup, handle_push, handle_pop, handle_swap,
      handle_int

LEMMA LengthIs ==
    ASSUME MachineTypeOK, CpuAssumption, QwordAssumption, Defined, Op \in NumberOps
    PROVE  Length \in {1, 2, 4, 8} /\ Length <= QWORD
<1>1. Length \in Nat /\ Length <= QWORD
  BY DefinedType DEF NumberOps, ADD, SUB, MUL, DIV, NOP, HLT, RET, INT
<1>2. ip \in 0 .. MEMORY_SZ - 1 /\ mem \in [0 .. MEMORY_SZ - 1 -> Byte]
  BY DEF Defined, MachineTypeOK, CpuAssumption, MemoryAssumption
<1>3. mem[ip] \in Nat
  <2>1. mem[ip] \in Byte
    BY <1>2
  <2>. QED  BY <2>1, ByteRange
<1>4. mem[ip] % 8 \in {0, 1, 2, 3, 4, 5, 6, 7}
  BY <1>3
<1>5. Length \in {1, 2, 4, 8, 16, 32, 64, 128}
  BY <1>4 DEF Length
<1>. QED  BY <1>1, <1>5, QwordAssumption

\* Quotient and remainder are no larger than what is divided.
LEMMA QuotientType ==
    ASSUME NEW b \in Nat, NEW a \in Nat \ {0}
    PROVE  \E q, r : /\ q = b \div a /\ r = b % a /\ q \in Nat /\ r \in Nat /\ r < a
                     /\ b = a * q + r /\ q <= b /\ r <= b
<1>1. PICK q, r : q = b \div a /\ r = b % a
  OBVIOUS
<1>2. q \in Nat /\ r \in Nat /\ r < a /\ b = a * q + r
  <2>1. Splits(b, a, b \div a, b % a)
    <3>1. b \in Int
      OBVIOUS
    <3>. QED  BY <3>1, Division
  <2>2. b \div a \in Nat
    OBVIOUS
  <2>. QED  BY <1>1, <2>1, <2>2 DEF Splits
<1>3. \A x \in Nat \ {0} : \A y \in Nat : y <= x * y /\ x * y \in Nat
  OBVIOUS
<1>4. PICK p \in Nat : p = a * q /\ q <= p
  BY <1>2, <1>3
<1>5. b = p + r
  BY <1>2, <1>4
<1>6. q <= b /\ r <= b
  BY <1>2, <1>4, <1>5
<1>. QED  BY <1>1, <1>2, <1>6

\* What a step leaves as the n bytes d below the stack pointer.
LeftAt(d, n) == Num(Slice(mem', sp' - d, n), n)

LEMMA LeavesNumber ==
    ASSUME MachineTypeOK, CpuAssumption, QwordAssumption, PowerAssumption,
           NEW n \in {1, 2, 4, 8}, n <= QWORD, Consumed = 2 * n,
           sp - Consumed \in Nat, sp <= MEMORY_SZ,
           NEW x \in Int, Leave(LE(x, n), n)
    PROVE  /\ LeftAt(n, n) = x % RADIX^n /\ sp' = sp - n
           /\ \A i \in DOMAIN mem : i \notin sp - 2 * n .. sp - 1 => mem'[i] = mem[i]
<1>1. PICK at \in Nat : at = sp - 2 * n
  OBVIOUS
<1>2. MEMORY_SZ \in Nat /\ mem \in [0 .. MEMORY_SZ - 1 -> Byte] /\ sp \in Nat
  BY DEF MachineTypeOK, CpuAssumption, MemoryAssumption
<1>3. mem' = Overwrite(mem, at, LE(x, n)) /\ sp' = sp - 2 * n + n
  BY <1>1 DEF Leave
<1>4. /\ n \in Nat /\ at + n <= MEMORY_SZ /\ 0 \in Nat /\ 0 + n <= n
      /\ sp' = sp - n /\ sp' - n = at + 0 /\ at + n - 1 <= sp - 1
  BY <1>1, <1>2, <1>3
<1>5. DOMAIN LE(x, n) = 0 .. n - 1 /\ [i \in 0 .. n - 1 |-> LE(x, n)[0 + i]] = LE(x, n)
  BY <1>4 DEF LE
<1>6. /\ Slice(mem', at + 0, n) = [i \in 0 .. n - 1 |-> LE(x, n)[0 + i]]
      /\ \A i \in DOMAIN mem : i \notin at .. at + n - 1 => mem'[i] = mem[i]
  <2>1. /\ \A d, k \in Nat : d + k <= n =>
               Slice(mem', at + d, k) = [i \in 0 .. k - 1 |-> LE(x, n)[d + i]]
        /\ \A i \in DOMAIN mem : i \notin at .. at + n - 1 => mem'[i] = mem[i]
    <3>1. ReadsBack(mem', mem, at, n, LE(x, n))
      BY <1>2, <1>3, <1>4, <1>5, Written
    <3>. QED  BY <3>1 DEF ReadsBack
  <2>. QED  BY <1>4, <2>1
<1>7. LeftAt(n, n) = x % RADIX^n
  <2>1. LeftAt(n, n) = Num(LE(x, n), n)
    BY <1>4, <1>5, <1>6 DEF LeftAt
  <2>. QED  BY <2>1, NumLE
<1>8. \A i : i \notin sp - 2 * n .. sp - 1 => i \notin at .. at + n - 1
  BY <1>1, <1>2, <1>4
<1>. QED  BY <1>4, <1>6, <1>7, <1>8

LEMMA LeavesPair ==
    ASSUME MachineTypeOK, CpuAssumption, QwordAssumption, PowerAssumption,
           NEW n \in {1, 2, 4, 8}, n <= QWORD, Consumed = 2 * n,
           sp - Consumed \in Nat, sp <= MEMORY_SZ,
           NEW q \in Nat, q < RADIX^n, NEW r \in Nat, r < RADIX^n,
           Leave(Joined(LE(q, n), n, LE(r, n), n), 2 * n)
    PROVE  /\ LeftAt(2 * n, n) = q /\ LeftAt(n, n) = r /\ sp' = sp
           /\ \A i \in DOMAIN mem : i \notin sp - 2 * n .. sp - 1 => mem'[i] = mem[i]
<1> DEFINE block == Joined(LE(q, n), n, LE(r, n), n)
<1>1. PICK at \in Nat : at = sp - 2 * n
  OBVIOUS
<1>2. MEMORY_SZ \in Nat /\ mem \in [0 .. MEMORY_SZ - 1 -> Byte] /\ sp \in Nat
  BY DEF MachineTypeOK, CpuAssumption, MemoryAssumption
<1>3. mem' = Overwrite(mem, at, block) /\ sp' = sp - 2 * n + 2 * n
  BY <1>1 DEF Leave
<1>4. /\ n \in Nat /\ 2 * n \in Nat /\ at + 2 * n <= MEMORY_SZ /\ 0 \in Nat
      /\ 0 + n <= 2 * n /\ n + n <= 2 * n /\ n + n - 1 = 2 * n - 1
      /\ sp' = sp /\ sp' - 2 * n = at + 0 /\ sp' - n = at + n /\ at + 2 * n - 1 = sp - 1
  BY <1>1, <1>2, <1>3
<1>5. DOMAIN block = 0 .. 2 * n - 1
  BY <1>4 DEF Joined
<1>6. \A i \in 0 .. n - 1 : block[0 + i] = LE(q, n)[i] /\ block[n + i] = LE(r, n)[i]
  BY <1>4 DEF Joined
<1>. HIDE DEF block
<1>7. /\ Slice(mem', at + 0, n) = [i \in 0 .. n - 1 |-> block[0 + i]]
      /\ Slice(mem', at + n, n) = [i \in 0 .. n - 1 |-> block[n + i]]
      /\ \A i \in DOMAIN mem : i \notin at .. at + 2 * n - 1 => mem'[i] = mem[i]
  <2>1. /\ \A d, k \in Nat : d + k <= 2 * n =>
               Slice(mem', at + d, k) = [i \in 0 .. k - 1 |-> block[d + i]]
        /\ \A i \in DOMAIN mem : i \notin at .. at + 2 * n - 1 => mem'[i] = mem[i]
    <3>1. ReadsBack(mem', mem, at, 2 * n, block)
      BY <1>2, <1>3, <1>4, <1>5, Written
    <3>. QED  BY <3>1 DEF ReadsBack
  <2>. QED  BY <1>4, <2>1
<1>8. Slice(mem', at + 0, n) = LE(q, n) /\ Slice(mem', at + n, n) = LE(r, n)
  BY <1>6, <1>7 DEF LE
<1>9. PICK M : M = RADIX^n /\ M \in Nat \ {0}
  BY <1>4, PowerType
<1>10. q % M = q /\ r % M = r
  <2>1. \A x \in Nat : x < M => x % M = x
    BY <1>9
  <2>. QED  BY <1>9, <2>1
<1>11. LeftAt(2 * n, n) = q /\ LeftAt(n, n) = r
  BY <1>4, <1>8, <1>9, <1>10, NumLE DEF LeftAt
<1>. QED  BY <1>1, <1>4, <1>7, <1>11

LEMMA ArithmeticStep ==
    ASSUME MachineTypeOK, CpuAssumption, QwordAssumption, PowerAssumption,
           Defined, Op \in NumberOps, handle_op2,
           NEW n, n = Length, NEW a, a = Arg(n, n), NEW b, b = Arg(2 * n, n)
    PROVE  /\ Op = ADD => LeftAt(n, n) = (b + a) % RADIX^n
           /\ Op = SUB => LeftAt(n, n) = (b - a) % RADIX^n
           /\ Op = MUL => LeftAt(n, n) = (b * a) % RADIX^n
           /\ Op = DIV => b = a * LeftAt(2 * n, n) + LeftAt(n, n) /\ LeftAt(n, n) < a
           /\ sp' = IF Op = DIV THEN sp ELSE sp - n
           /\ \A i \in DOMAIN mem : i \notin sp - 2 * n .. sp - 1 => mem'[i] = mem[i]
<1>1. Consumed = 2 * n
  BY ConsumedBy DEF NumberOps, Op2
<1>2. n \in {1, 2, 4, 8} /\ n <= QWORD /\ n \in Nat /\ 2 * n \in Nat
  BY LengthIs
<1>3. a \in Nat /\ b \in Nat /\ Block(2 * n, n) \in [0 .. n - 1 -> Byte]
  <2>1. n <= Consumed /\ n <= n /\ 2 * n <= Consumed /\ n <= 2 * n
    BY <1>1, <1>2
  <2>. QED  BY <1>2, <2>1, DefinedOperandType
<1>4. sp - Consumed \in Nat /\ sp <= MEMORY_SZ
  BY <1>1, <1>2, DefinedType DEF MachineTypeOK, CpuAssumption, MemoryAssumption, Accessible
<1>5. CASE Op # DIV
  <2>1. PICK x \in Int : /\ Leave(LE(x, n), n)
                         /\ Op = ADD => x = b + a
                         /\ Op = SUB => x = b - a
                         /\ Op = MUL => x = b * a
    <3>1. b + a \in Int /\ b - a \in Int /\ b * a \in Int
      BY <1>3
    <3>2. CASE Op = ADD
      BY <3>1, <3>2 DEF handle_op2, ADD, SUB, MUL, DIV, AND, OR
    <3>3. CASE Op = SUB
      BY <3>1, <3>3 DEF handle_op2, ADD, SUB, MUL, DIV, AND, OR
    <3>4. CASE Op = MUL
      BY <3>1, <3>4 DEF handle_op2, ADD, SUB, MUL, DIV, AND, OR
    <3>. QED  BY <1>5, <3>2, <3>3, <3>4 DEF NumberOps
  <2>. QED  BY <1>1, <1>2, <1>4, <1>5, <2>1, LeavesNumber
<1>6. CASE Op = DIV
  <2>1. Leave(Joined(LE(b \div a, n), n, LE(b % a, n), n), 2 * n)
    BY <1>6 DEF handle_op2
  <2>2. a \in Nat \ {0}
    BY <1>3, <1>6 DEF Defined
  <2>3. PICK q, r : /\ q = b \div a /\ r = b % a /\ q \in Nat /\ r \in Nat /\ r < a
                    /\ b = a * q + r /\ q <= b /\ r <= b
    BY <1>3, <2>2, QuotientType
  <2>4. q \in Nat /\ r \in Nat /\ q <= b /\ r <= b
    BY <2>3
  <2>5. PICK M \in Nat : M = RADIX^n
    BY <1>2, PowerType
  <2>6. b < M
    BY <1>2, <1>3, <2>5, NumBound DEF Arg
  <2>7. q < M /\ r < M
    BY <1>3, <2>4, <2>5, <2>6
  <2>8. Leave(Joined(LE(q, n), n, LE(r, n), n), 2 * n)
    BY <2>1, <2>3
  <2>9. /\ LeftAt(2 * n, n) = q /\ LeftAt(n, n) = r /\ sp' = sp
        /\ \A i \in DOMAIN mem : i \notin sp - 2 * n .. sp - 1 => mem'[i] = mem[i]
    BY <1>1, <1>2, <1>4, <2>4, <2>5, <2>7, <2>8, LeavesPair
  <2>. QED  BY <1>6, <2>3, <2>9 DEF ADD, SUB, MUL, DIV
<1>. QED  BY <1>5, <1>6

\* For every width and size of a qword, the arithmetic instructions compute
\* with numbers modulo 256^n, and change nothing but the place of their
\* operands on the stack (handle_add, handle_sub, handle_mul, handle_div).
THEOREM ArithmeticIsModular == Spec => ArithmeticWraps
<1>1. TypeOK /\ [Next]_vars => [Wraps]_vars
  <2>. SUFFICES ASSUME TypeOK, [Next]_vars, Stepping, Defined, Op \in NumberOps, ip' # ip
                PROVE  Wraps
    BY DEF Wraps
  <2>1. handle_op2 /\ MachineTypeOK
    BY ExecutesStep, ExecutesOp2 DEF TypeOK
  <2>2. PICK n, a, b : n = Length /\ a = Arg(n, n) /\ b = Arg(2 * n, n)
    OBVIOUS
  <2>3. /\ Op = ADD => LeftAt(n, n) = (b + a) % RADIX^n
        /\ Op = SUB => LeftAt(n, n) = (b - a) % RADIX^n
        /\ Op = MUL => LeftAt(n, n) = (b * a) % RADIX^n
        /\ Op = DIV => b = a * LeftAt(2 * n, n) + LeftAt(n, n) /\ LeftAt(n, n) < a
        /\ sp' = IF Op = DIV THEN sp ELSE sp - n
        /\ \A i \in DOMAIN mem : i \notin sp - 2 * n .. sp - 1 => mem'[i] = mem[i]
    BY <2>1, <2>2, ArithmeticStep, CpuAssumption, QwordAssumption, PowerAssumption
  <2>. QED  BY <2>2, <2>3 DEF LeftAt, Wraps
<1>. QED  BY <1>1, TypeCorrect, PTL DEF Spec, ArithmeticWraps

----------------------------------------------------------------------------
(* A HLT inside an ISR *)

LEMMA HungStep ==
    ASSUME TypeOK, IrqDiscipline, Hung, [Next]_vars, CpuAssumption, QwordAssumption
    PROVE  Hung' /\ UNCHANGED <<machine, ret, ke, nread, screen, diskVars>>
<1>1. /\ Op = HLT /\ status = "ok" /\ hpc \in {"clk", "kbd"} /\ ip < MEMORY_SZ
      /\ halted /\ rp # ret
  BY DEF Hung, IrqDiscipline, TypeOK, MachineTypeOK
<1>2. Defined /\ ~Exits
  <2>1. Consumed = 0 /\ Elsewhere = {}
    BY <1>1, ConsumedBy DEF Elsewhere, CALL, RET, LOAD, STORE, PUSH, HLT
  <2>2. Defined
    BY <1>1, <2>1 DEF Defined, Accessible, Op0, HLT, DIV, INT
  <2>. QED  BY <1>1, <2>2 DEF Exits, Op0, HLT, INT
<1>3. ~PortUndefined
  BY <1>1 DEF PortUndefined, HLT, INT
<1>4. CASE step_cpu
  <2>1. handle_hlt /\ UNCHANGED <<kq, screen, diskVars>>
    BY <1>1, <1>4
       DEF step_cpu, handle_op, handle_nop, handle_call, handle_ret, handle_load, handle_store,
           handle_op2, handle_jump, handle_dup, handle_push, handle_pop, handle_swap,
           handle_int, Op2, NOP, HLT, CALL, RET, LOAD, STORE, ADD, SUB, MUL, DIV,
           AND, OR, JMP, JE, JNE, JZ, JNZ, DUP, PUSH, POP, SWAP, INT
  <2>2. UNCHANGED machine
    BY <1>1, <2>1 DEF handle_hlt, machine
  <2>3. UNCHANGED <<hpc, ret, status, nread>>
    BY <1>1, <1>4, <2>2 DEF step_cpu, LeaveIrq, machine, keyboard
  <2>. QED  BY <1>1, <2>1, <2>2, <2>3 DEF Hung, Op, machine, kq
<1>5. CASE type_key \/ close_tty \/ timer_fires
  BY <1>1, <1>5 DEF type_key, close_tty, timer_fires, machineAndHost, Hung, Op, machine
<1>6. ~(exit_cpu \/ wild_cpu \/ handle_io \/ test_kbd \/ handle_kbd \/ wild_irq)
  BY <1>1, <1>2, <1>3 DEF exit_cpu, wild_cpu, handle_io, test_kbd, handle_kbd, wild_irq
<1>7. CASE UNCHANGED vars
  BY <1>1, <1>7 DEF vars, machine, kq, keyboard, Hung, Op
<1>. QED  BY <1>4, <1>5, <1>6, <1>7 DEF Next, run_cpu

\* Whatever program ran into it, a HLT inside an ISR is executed for ever:
\* the machine stands still, takes no key and serves no event (handle_hlt,
\* handle_irq).
THEOREM HltInIsr == Spec => HltIsForEver
<1>1. /\ TypeOK /\ IrqDiscipline /\ [Next]_vars
      => [Hung => Hung' /\ UNCHANGED <<machine, ret, ke, nread, screen, diskVars>>]_vars
  BY HungStep, CpuAssumption, QwordAssumption
<1>. QED  BY <1>1, TypeCorrect, Discipline, PTL DEF Spec, HltIsForEver

----------------------------------------------------------------------------
(* The return stack *)

\* Places a multiple of a qword apart stay so when a qword is pushed or popped.
LEMMA Apart ==
    ASSUME NEW x \in Int, x % QWORD = 0
    PROVE  /\ (x + QWORD) % QWORD = 0 /\ (x - QWORD) % QWORD = 0
           /\ x > 0 => x >= QWORD
           /\ 0 % QWORD = 0
<1>1. CASE QWORD = 2
  BY <1>1
<1>2. CASE QWORD = 3
  BY <1>2
<1>3. CASE QWORD = 4
  BY <1>3
<1>4. CASE QWORD = 5
  BY <1>4
<1>5. CASE QWORD = 6
  BY <1>5
<1>6. CASE QWORD = 7
  BY <1>6
<1>7. CASE QWORD = 8
  BY <1>7
<1>. QED  BY <1>1, <1>2, <1>3, <1>4, <1>5, <1>6, <1>7, QwordAssumption

\* What fits into fewer bytes fits into a qword.
LEMMA PowerMonotone == \A k \in 0 .. QWORD : RADIX^k <= RADIX^QWORD
<1>. DEFINE Least(d) == d \in 0 .. QWORD => RADIX^(QWORD - d) <= RADIX^QWORD
<1>1. Least(0)
  <2>1. PICK q \in Nat : q = RADIX^QWORD
    BY PowerType, QwordAssumption
  <2>2. QWORD - 0 = QWORD
    BY QwordAssumption
  <2>. QED  BY <2>1, <2>2
<1>2. ASSUME NEW d \in 0 .. 7, Least(d) PROVE Least(d + 1)
  <2>. SUFFICES ASSUME d + 1 \in 0 .. QWORD PROVE RADIX^(QWORD - (d + 1)) <= RADIX^QWORD
    OBVIOUS
  <2>1. PICK k \in Nat : k = QWORD - (d + 1)
    BY QwordAssumption
  <2>2. /\ k + 1 \in 1 .. QWORD /\ k \in 0 .. QWORD /\ QWORD \in 0 .. QWORD
        /\ (k + 1) - 1 = k /\ QWORD - d = k + 1 /\ d \in 0 .. QWORD
    BY <2>1, QwordAssumption
  <2>3. PICK p \in Nat, r \in Nat, q \in Nat : p = RADIX^k /\ r = RADIX^(k + 1) /\ q = RADIX^QWORD
    BY <2>2, PowerType
  <2>4. r = 256 * p
    BY <2>2, <2>3, PowerAssumption DEF RADIX
  <2>5. r <= q
    BY <1>2, <2>2, <2>3
  <2>. QED  BY <2>1, <2>3, <2>4, <2>5
<1>. HIDE DEF Least
<1>3. \A d \in 0 .. 7 : Least(d) => Least(d + 1)
  BY <1>2
<1>4. Least(1) /\ Least(2) /\ Least(3) /\ Least(4)
  <2>1. Least(0 + 1)
    BY <1>1, <1>3
  <2>2. Least(1 + 1)
    BY <1>3, <2>1
  <2>3. Least(2 + 1)
    BY <1>3, <2>2
  <2>4. Least(3 + 1)
    BY <1>3, <2>3
  <2>. QED  BY <2>1, <2>2, <2>3, <2>4
<1>5. Least(5) /\ Least(6) /\ Least(7) /\ Least(8)
  <2>1. Least(4 + 1)
    BY <1>3, <1>4
  <2>2. Least(5 + 1)
    BY <1>3, <2>1
  <2>3. Least(6 + 1)
    BY <1>3, <2>2
  <2>4. Least(7 + 1)
    BY <1>3, <2>3
  <2>. QED  BY <2>1, <2>2, <2>3, <2>4
<1>6. \A d \in 0 .. 8 : Least(d)
  <2>1. \A d \in 0 .. 8 : d \in {0, 1, 2, 3, 4, 5, 6, 7, 8}
    OBVIOUS
  <2>. QED  BY <1>1, <1>4, <1>5, <2>1
<1>7. ASSUME NEW k \in 0 .. QWORD PROVE RADIX^k <= RADIX^QWORD
  <2>1. PICK d \in 0 .. 8 : d \in 0 .. QWORD /\ QWORD - d = k
    <3>1. QWORD - k \in 0 .. 8 /\ QWORD - k \in 0 .. QWORD /\ QWORD - (QWORD - k) = k
      BY QwordAssumption
    <3>. QED  BY <3>1
  <2>. QED  BY <1>6, <2>1 DEF Least
<1>. QED  BY <1>7

\* What makes the theorems below inductive: the machine's place in the program
\* fits into a return address, so none is cut as it is pushed; and the address
\* an ISR returns to stays on the return stack, a whole number of addresses
\* below its top, so no call inside the ISR overwrites it.
ReturnAddress ==
    /\ ip < RADIX^QWORD
    /\ hpc \in {"clk", "kbd"} => IsFrame(ret)

LEMMA VectorBound ==
    ASSUME MachineTypeOK, CpuAssumption, NEW at \in Nat, at + QWORD <= MEMORY_SZ
    PROVE  Vector(at) \in Nat /\ Vector(at) < RADIX^QWORD
<1>1. MEMORY_SZ \in Nat /\ mem \in [0 .. MEMORY_SZ - 1 -> Byte] /\ QWORD \in Nat
  BY QwordAssumption DEF MachineTypeOK, CpuAssumption, MemoryAssumption
<1>2. Slice(mem, at, QWORD) \in [0 .. QWORD - 1 -> Byte]
  BY <1>1, SliceType
<1>3. QWORD \in 0 .. QWORD
  BY <1>1
<1>. QED  BY <1>1, <1>2, <1>3, NumType, NumBound DEF Vector

\* A target that an instruction takes from the stack fits into a qword.
LEMMA TargetBound ==
    ASSUME MachineTypeOK, CpuAssumption, Defined,
           Op \in {CALL, JMP, JE, JNE, JZ, JNZ}
    PROVE  Arg(Length, Length) < RADIX^QWORD
<1>1. Length \in Nat \ {0} /\ Length <= QWORD /\ Consumed \in Nat
  BY DefinedType, QwordAssumption DEF CALL, JMP, JE, JNE, JZ, JNZ, NOP, HLT, RET, INT
<1>2. Length <= Consumed
  BY <1>1, ConsumedBy
<1>3. Block(Length, Length) \in [0 .. Length - 1 -> Byte] /\ Arg(Length, Length) \in Nat
  BY <1>1, <1>2, DefinedOperandType, QwordAssumption
<1>4. Length \in 0 .. QWORD /\ QWORD \in 0 .. QWORD
  BY <1>1, QwordAssumption
<1>5. Arg(Length, Length) < RADIX^Length
  BY <1>3, <1>4, NumBound DEF Arg
<1>6. PICK p \in Nat, q \in Nat : p = RADIX^Length /\ q = RADIX^QWORD /\ p <= q
  BY <1>4, PowerType, PowerMonotone
<1>. QED  BY <1>3, <1>5, <1>6

\* Where an instruction goes on.
LEMMA NextBound ==
    ASSUME MachineTypeOK, CpuAssumption, Defined, handle_op, ip < RADIX^QWORD
    PROVE  ip' < RADIX^QWORD
<1>1. PICK q \in Nat : q = RADIX^QWORD
  BY PowerType, QwordAssumption
<1>2. MEMORY_SZ \in Nat /\ MEMORY_SZ < q /\ ip \in Nat /\ ip < MEMORY_SZ /\ rp \in Nat
  BY <1>1 DEF CpuAssumption, MemoryAssumption, MachineTypeOK, Defined
<1>3. CASE Advance \/ ip' = ip
  BY <1>1, <1>2, <1>3 DEF Advance
<1>4. CASE handle_call
  BY <1>4, TargetBound DEF handle_call
<1>5. CASE handle_jump
  <2>1. Op \in {JMP, JE, JNE, JZ, JNZ} /\ ip' \in {Arg(Length, Length), ip + 1}
    BY <1>5 DEF handle_jump, Jump
  <2>. QED  BY <1>1, <1>2, <2>1, TargetBound
<1>6. CASE handle_ret
  <2>1. Accessible(rp - QWORD, QWORD)
    <3>1. <<rp - QWORD, QWORD>> \in Elsewhere
      BY <1>6 DEF Elsewhere, handle_ret, RET, CALL, LOAD, STORE, PUSH
    <3>. QED  BY <3>1, ElsewhereAccessible
  <2>2. rp - QWORD \in Nat /\ (rp - QWORD) + QWORD <= MEMORY_SZ
    BY <1>2, <2>1, QwordAssumption DEF Accessible
  <2>. QED  BY <1>6, <2>2, VectorBound DEF handle_ret
<1>7. CASE handle_push
  <2>1. Accessible(ip + 1, Length) /\ Length \in Nat \ {0}
    <3>1. <<ip + 1, Length>> \in Elsewhere
      BY <1>7 DEF Elsewhere, handle_push, RET, CALL, LOAD, STORE, PUSH
    <3>. QED  BY <3>1, ElsewhereAccessible, DefinedType, QwordAssumption
  <2>2. ip' = ip + 1 + Length
    BY <1>7 DEF handle_push
  <2>. QED  BY <1>1, <1>2, <2>1, <2>2 DEF Accessible
<1>. QED  BY <1>3, <1>4, <1>5, <1>6, <1>7
     DEF handle_op, handle_nop, handle_hlt, handle_load, handle_store, handle_op2,
         handle_dup, handle_pop, handle_swap, handle_int

\* Only a call, a return and an interrupt move rp.
LEMMA OpRp ==
    ASSUME handle_op
    PROVE  \/ handle_call
           \/ handle_ret
           \/ rp' = rp /\ Op \notin {CALL, RET}
<1>1. CASE handle_nop \/ handle_hlt \/ handle_load \/ handle_store \/ handle_op2
             \/ handle_dup \/ handle_pop \/ handle_push \/ handle_swap
  BY <1>1 DEF handle_nop, handle_hlt, handle_load, handle_store, handle_op2, handle_dup,
       handle_pop, handle_push, handle_swap, Op2, NOP, HLT, CALL, RET, LOAD, STORE, ADD, SUB,
       MUL, DIV, AND, OR, DUP, PUSH, POP, SWAP
<1>2. CASE handle_jump
  <2>1. Op \in {JMP, JE, JNE, JZ, JNZ} /\ rp' = rp
    BY <1>2 DEF handle_jump
  <2>. QED  BY <2>1 DEF CALL, RET, JMP, JE, JNE, JZ, JNZ
<1>3. CASE handle_int
  <2>1. Op = INT /\ rp' = rp
    BY <1>3 DEF handle_int
  <2>. QED  BY <2>1 DEF CALL, RET, INT
<1>. QED  BY <1>1, <1>2, <1>3 DEF handle_op

\* What pushing an address on the return stack leaves there.
LEMMA Pushed ==
    ASSUME MachineTypeOK, CpuAssumption, NEW stack \in Memory,
           NEW x \in Nat, x < RADIX^QWORD, Accessible(rp, QWORD),
           mem' = Overwrite(stack, rp, LE(x, QWORD)), rp' = rp + QWORD
    PROVE  /\ \A at \in Nat : IsFrame(at) => IsFrame(at)'
           /\ \A at \in Nat : at = rp => IsFrame(at)' /\ Vector(at)' = x
           /\ \A i \in 0 .. rp - 1 : mem'[i] = stack[i]
<1>1. /\ MEMORY_SZ \in Nat /\ stack \in [0 .. MEMORY_SZ - 1 -> Byte] /\ rp \in Nat
      /\ QWORD \in 2 .. 8 /\ QWORD \in 0 .. QWORD /\ rp + QWORD <= MEMORY_SZ
  BY QwordAssumption DEF MachineTypeOK, CpuAssumption, MemoryAssumption, Memory, Accessible
<1>2. \A at \in Nat : IsFrame(at) => IsFrame(at)'
  <2>. SUFFICES ASSUME NEW at \in Nat, at + QWORD <= rp, (rp - at) % QWORD = 0
                PROVE  at + QWORD <= rp' /\ (rp' - at) % QWORD = 0
    BY DEF IsFrame
  <2>1. rp - at \in Int /\ rp' - at = (rp - at) + QWORD
    BY <1>1
  <2>. QED  BY <1>1, <2>1, Apart
<1>3. ASSUME NEW at \in Nat, at = rp
      PROVE  at + QWORD <= rp' /\ (rp' - at) % QWORD = 0
  <2>1. rp' - at = 0 + QWORD /\ 0 \in Int
    BY <1>1, <1>3
  <2>2. 0 % QWORD = 0
    BY <1>1
  <2>. QED  BY <1>1, <1>3, <2>1, <2>2, Apart
<1>4. ReadsBack(mem', stack, rp, QWORD, LE(x, QWORD))
  <2>1. DOMAIN LE(x, QWORD) = 0 .. QWORD - 1
    BY DEF LE
  <2>. QED  BY <1>1, <2>1, Written
<1>5. Slice(mem', rp, QWORD) = LE(x, QWORD)
  <2>1. \A d, n \in Nat : d + n <= QWORD =>
            Slice(mem', rp + d, n) = [i \in 0 .. n - 1 |-> LE(x, QWORD)[d + i]]
    BY <1>4 DEF ReadsBack
  <2>2. 0 \in Nat /\ QWORD \in Nat /\ 0 + QWORD <= QWORD /\ rp + 0 = rp
    BY <1>1
  <2>3. Slice(mem', rp + 0, QWORD) = [i \in 0 .. QWORD - 1 |-> LE(x, QWORD)[0 + i]]
    BY <2>1, <2>2
  <2>4. \A i \in 0 .. QWORD - 1 : 0 + i = i
    BY <1>1
  <2>. QED  BY <2>2, <2>3, <2>4 DEF LE
<1>6. Num(Slice(mem', rp, QWORD), QWORD) = x
  <2>1. PICK q \in Nat : q = RADIX^QWORD
    BY <1>1, PowerType
  <2>2. x % q = x
    BY <2>1
  <2>. QED  BY <1>1, <1>5, <2>1, <2>2, NumLE
<1>7. \A i \in 0 .. rp - 1 : mem'[i] = stack[i]
  <2>1. \A i \in DOMAIN stack : i \notin rp .. rp + QWORD - 1 => mem'[i] = stack[i]
    BY <1>4 DEF ReadsBack
  <2>2. \A i \in 0 .. rp - 1 : i \in DOMAIN stack /\ i \notin rp .. rp + QWORD - 1
    BY <1>1
  <2>. QED  BY <2>1, <2>2
<1>8. \A at \in Nat : at = rp => IsFrame(at)' /\ Vector(at)' = x
  BY <1>3, <1>6 DEF IsFrame, Vector
<1>. QED  BY <1>2, <1>7, <1>8

\* The two ways an address is pushed: by a call, and by an interrupt.
LEMMA CallPushes ==
    ASSUME MachineTypeOK, CpuAssumption, Defined, handle_call
    PROVE  /\ rp' = rp + QWORD
           /\ \A at \in Nat : IsFrame(at) => IsFrame(at)'
           /\ \A at \in Nat : at = rp => IsFrame(at)' /\ Vector(at)' = ip + 1
           /\ \A i \in 0 .. rp - 1 : mem'[i] = mem[i]
<1>1. Accessible(rp, QWORD)
  <2>1. <<rp, QWORD>> \in Elsewhere
    BY DEF Elsewhere, handle_call, RET, CALL, LOAD, STORE, PUSH
  <2>. QED  BY <2>1, ElsewhereAccessible
<1>2. ip + 1 \in Nat /\ ip + 1 < RADIX^QWORD
  <2>1. PICK q \in Nat : q = RADIX^QWORD
    BY PowerType, QwordAssumption
  <2>. QED  BY <2>1 DEF CpuAssumption, MemoryAssumption, MachineTypeOK, Defined
<1>3. mem \in Memory /\ mem' = Overwrite(mem, rp, LE(ip + 1, QWORD)) /\ rp' = rp + QWORD
  BY DEF MachineTypeOK, Memory, handle_call
<1>. QED  BY <1>1, <1>2, <1>3, Pushed

LEMMA IrqPushes ==
    ASSUME MachineTypeOK, CpuAssumption, ip < RADIX^QWORD, Accessible(rp, QWORD),
           NEW where, NEW isr, NEW stack \in Memory, handle_irq(where, isr, stack)
    PROVE  /\ rp' = rp + QWORD /\ ret' = rp
           /\ \A at \in Nat : IsFrame(at) => IsFrame(at)'
           /\ \A at \in Nat : at = rp => IsFrame(at)' /\ Vector(at)' = ip
           /\ \A i \in 0 .. rp - 1 : mem'[i] = stack[i]
<1>1. ip \in Nat /\ mem' = Overwrite(stack, rp, LE(ip, QWORD)) /\ rp' = rp + QWORD /\ ret' = rp
  BY DEF MachineTypeOK, handle_irq
<1>. QED  BY <1>1, Pushed

\* A return takes the address on top, and what lies below it stays.
LEMMA RetPops ==
    ASSUME MachineTypeOK, CpuAssumption, Defined, handle_ret
    PROVE  /\ rp' = rp - QWORD /\ rp - QWORD \in Nat /\ rp <= MEMORY_SZ
           /\ ip' = Vector(rp - QWORD) /\ UNCHANGED mem
           /\ \A at \in Nat : IsFrame(at) => IsFrame(at)' \/ at = rp - QWORD
<1>1. Accessible(rp - QWORD, QWORD)
  <2>1. <<rp - QWORD, QWORD>> \in Elsewhere
    BY DEF Elsewhere, handle_ret, RET, CALL, LOAD, STORE, PUSH
  <2>. QED  BY <2>1, ElsewhereAccessible
<1>2. /\ QWORD \in 2 .. 8 /\ rp \in Nat /\ rp - QWORD \in Nat /\ rp <= MEMORY_SZ
      /\ rp' = rp - QWORD /\ ip' = Vector(rp - QWORD) /\ UNCHANGED mem
  BY <1>1, QwordAssumption
     DEF Accessible, MachineTypeOK, CpuAssumption, MemoryAssumption, handle_ret
<1>3. ASSUME NEW at \in Nat, IsFrame(at), at # rp - QWORD
      PROVE  IsFrame(at)'
  <2>1. PICK x \in Int : x = rp - at - QWORD
    BY <1>2
  <2>2. (x + QWORD) % QWORD = 0 /\ x + QWORD \in Int /\ x > 0
    BY <1>2, <1>3, <2>1 DEF IsFrame
  <2>3. x % QWORD = 0
    <3>1. ((x + QWORD) - QWORD) % QWORD = 0
      BY <2>2, Apart
    <3>2. (x + QWORD) - QWORD = x
      BY <1>2
    <3>. QED  BY <3>1, <3>2
  <2>4. x >= QWORD
    BY <2>2, <2>3, Apart
  <2>5. at + QWORD <= rp' /\ rp' - at = x
    BY <1>2, <2>1, <2>4
  <2>. QED  BY <2>3, <2>5 DEF IsFrame
<1>. QED  BY <1>2, <1>3

\* An address is what its bytes say.
LEMMA KeptVector ==
    ASSUME QWORD \in Nat, NEW at \in Nat, Kept(at)
    PROVE  Num(Slice(mem', at, QWORD), QWORD) = Vector(at)
<1>1. \A i \in 0 .. QWORD - 1 : at + i \in at .. at + QWORD - 1
  OBVIOUS
<1>2. Slice(mem', at, QWORD) = Slice(mem, at, QWORD)
  BY <1>1 DEF Slice, Kept
<1>. QED  BY <1>2 DEF Vector

LEMMA ReturnAddressStep ==
    ASSUME TypeOK, IrqDiscipline, ReturnAddress, [Next]_vars, CpuAssumption
    PROVE  ReturnAddress'
<1>1. /\ MachineTypeOK /\ ip < RADIX^QWORD /\ ip \in Nat /\ rp \in Nat
      /\ ret \in Nat \union {NoLevel}
      /\ hpc \in {"clk", "kbd"} => IsFrame(ret) /\ ret \in Nat
  BY DEF TypeOK, MachineTypeOK, ProcessTypeOK, ReturnAddress, IrqDiscipline
<1>2. CASE step_cpu
  <2>1. /\ Defined /\ handle_op /\ ret' = ret
        /\ hpc' \in {"clk", "kbd"} => hpc' = hpc /\ rp' # ret
    BY <1>2 DEF step_cpu, LeaveIrq
  <2>2. ip' < RADIX^QWORD
    BY <1>1, <2>1, NextBound
  <2>3. ASSUME hpc \in {"clk", "kbd"}, rp' # ret
        PROVE  IsFrame(ret)'
    <3>1. PICK at \in Nat : at = ret /\ IsFrame(at)
      BY <1>1, <2>3
    <3>2. IsFrame(at)'
      <4>1. CASE handle_call
        BY <1>1, <2>1, <3>1, <4>1, CallPushes
      <4>2. CASE handle_ret
        <5>1. rp' = rp - QWORD /\ (IsFrame(at)' \/ at = rp - QWORD)
          BY <1>1, <2>1, <3>1, <4>2, RetPops
        <5>. QED  BY <2>3, <3>1, <5>1
      <4>3. CASE rp' = rp
        BY <3>1, <4>3 DEF IsFrame
      <4>. QED  BY <2>1, <4>1, <4>2, <4>3, OpRp
    <3>. QED  BY <2>1, <3>1, <3>2 DEF IsFrame
  <2>. QED  BY <2>1, <2>2, <2>3 DEF ReturnAddress
<1>3. CASE handle_io
  <2>1. CASE TimerDue
    <3>1. handle_irq("clk", mem[IRQ_CLK], mem) /\ Accessible(rp, QWORD) /\ mem \in Memory
      BY <1>1, <1>3, <2>1 DEF handle_io, handle_timer, MachineTypeOK, Memory
    <3>2. PICK at \in Nat : at = rp /\ IsFrame(at)' /\ ret' = at
      BY <1>1, <3>1, IrqPushes
    <3>3. ip' = mem[IRQ_CLK] /\ mem[IRQ_CLK] \in 0 .. 255
      <4>1. IRQ_CLK \in 0 .. MEMORY_SZ - 1
        <5>1. 0 \in 0 .. 8 /\ IRQ_CLK = IRQ(0)
          BY DEF IRQ_CLK
        <5>2. IRQ_CLK \in Nat /\ IRQ_CLK + QWORD <= MEMORY_SZ
          BY <5>1, Vectors, QwordAssumption
        <5>. QED  BY <5>2, QwordAssumption DEF CpuAssumption, MemoryAssumption
      <4>2. mem[IRQ_CLK] \in Byte
        BY <1>1, <4>1 DEF MachineTypeOK
      <4>. QED  BY <3>1, <4>2, ByteRange DEF handle_irq
    <3>4. PICK q \in Nat : q = RADIX^QWORD /\ q >= 256
      <4>1. 1 \in 0 .. QWORD /\ QWORD \in 0 .. QWORD /\ 1 \in 1 .. QWORD
        BY QwordAssumption
      <4>2. RADIX^1 = 256
        <5>1. RADIX^1 = RADIX * RADIX^(1 - 1) /\ RADIX^0 = 1 /\ 1 - 1 = 0
          BY <4>1, PowerAssumption
        <5>. QED  BY <5>1 DEF RADIX
      <4>3. PICK p \in Nat, q \in Nat : p = RADIX^1 /\ q = RADIX^QWORD /\ p <= q
        BY <4>1, PowerType, PowerMonotone
      <4>. QED  BY <4>2, <4>3
    <3>5. ip' < RADIX^QWORD
      BY <3>3, <3>4
    <3>. QED  BY <3>2, <3>5 DEF ReturnAddress, IsFrame
  <2>2. CASE ~TimerDue
    BY <1>1, <1>3, <2>2 DEF handle_io, machine, ReturnAddress
  <2>. QED  BY <2>1, <2>2
<1>4. CASE handle_kbd
  <2>1. CASE nread < Len(typed)
    <3>1. PICK isr \in Nat, stack \in Memory :
             /\ isr < RADIX^QWORD /\ stack = [mem EXCEPT ![sp] = typed[nread + 1]]
             /\ handle_irq("kbd", isr, stack)
      BY <1>4, <2>1, KeyInterrupts, QwordAssumption DEF TypeOK
    <3>2. Accessible(rp, QWORD)
      BY <1>4, <2>1 DEF handle_kbd
    <3>3. PICK at \in Nat : at = rp /\ IsFrame(at)' /\ ret' = at
      BY <1>1, <3>1, <3>2, IrqPushes
    <3>4. ip' < RADIX^QWORD
      BY <3>1 DEF handle_irq
    <3>. QED  BY <3>3, <3>4 DEF ReturnAddress, IsFrame
  <2>2. CASE ~(nread < Len(typed))
    BY <1>1, <1>4, <2>2 DEF handle_kbd, ReturnAddress
  <2>. QED  BY <2>1, <2>2
<1>5. CASE test_kbd
  BY <1>1, <1>5 DEF test_kbd, machine, ReturnAddress
<1>6. CASE exit_cpu \/ wild_cpu \/ wild_irq
  BY <1>6 DEF exit_cpu, wild_cpu, wild_irq, Stop, machine, ReturnAddress, IsFrame
<1>7. CASE type_key \/ close_tty \/ timer_fires
  BY <1>7 DEF type_key, close_tty, timer_fires, machineAndHost, machine, ReturnAddress, IsFrame
<1>8. CASE UNCHANGED vars
  BY <1>8 DEF vars, machine, ReturnAddress, IsFrame
<1>. QED  BY <1>2, <1>3, <1>4, <1>5, <1>6, <1>7, <1>8 DEF Next, run_cpu

LEMMA ReturnAddressIs == Spec => []ReturnAddress
<1>1. Init => ReturnAddress
  <2>. SUFFICES ASSUME Init PROVE ReturnAddress
    OBVIOUS
  <2>1. ip = 0 /\ hpc = "program"
    BY DEF Init, init_cpu
  <2>2. PICK q \in Nat \ {0} : q = RADIX^QWORD
    BY PowerType, QwordAssumption
  <2>. QED  BY <2>1, <2>2 DEF ReturnAddress
<1>2. TypeOK /\ IrqDiscipline /\ ReturnAddress /\ [Next]_vars => ReturnAddress'
  BY ReturnAddressStep, CpuAssumption
<1>. QED  BY <1>1, <1>2, TypeCorrect, Discipline, PTL DEF Spec

LEMMA NestsStep ==
    ASSUME TypeOK, ReturnAddress, Next, CpuAssumption
    PROVE  Nests
<1>. SUFFICES ASSUME status' = "ok" PROVE Nests
  BY DEF Nests
<1>1. /\ MachineTypeOK /\ ip < RADIX^QWORD /\ rp \in Nat /\ QWORD \in 2 .. 8
      /\ 0 .. rp \subseteq Nat /\ mem \in Memory
  BY QwordAssumption DEF TypeOK, MachineTypeOK, Memory, ReturnAddress
<1>2. ASSUME rp' = rp, MayWrite \/ UNCHANGED mem
      PROVE  Nests
  <2>1. ASSUME NEW at \in 0 .. rp, IsFrame(at)
        PROVE  IsFrame(at)' /\ (MayWrite \/ Kept(at))
    BY <1>2, <2>1 DEF IsFrame, Kept
  <2>. QED  BY <1>1, <1>2, <2>1 DEF Nests
\* An address was pushed that is where the machine was, or behind its CALL.
<1>3. ASSUME NEW stack, rp' = rp + QWORD, MayWrite \/ stack = mem,
             \A at \in Nat : IsFrame(at) => IsFrame(at)',
             \A at \in Nat : at = rp => Vector(at)' = IF Stepping THEN ip + 1 ELSE ip,
             \A i \in 0 .. rp - 1 : mem'[i] = stack[i]
      PROVE  Nests
  <2>1. ASSUME NEW at \in 0 .. rp, IsFrame(at)
        PROVE  IsFrame(at)' /\ (MayWrite \/ Kept(at))
    <3>1. at \in Nat /\ at + QWORD <= rp
      BY <1>1, <2>1 DEF IsFrame
    <3>2. \A i \in at .. at + QWORD - 1 : i \in 0 .. rp - 1
      BY <1>1, <3>1
    <3>. QED  BY <1>3, <2>1, <3>1, <3>2 DEF Kept
  <2>2. \E at \in 0 .. rp : /\ at = rp /\ at + QWORD = rp'
                            /\ Vector(at)' = IF Stepping THEN ip + 1 ELSE ip
    <3>1. PICK at \in 0 .. rp : at = rp
      BY <1>1
    <3>. QED  BY <1>1, <1>3, <3>1
  <2>. QED  BY <2>1, <2>2 DEF Nests
<1>4. CASE step_cpu
  <2>1. Stepping /\ Defined /\ handle_op
    BY <1>4 DEF step_cpu
  <2>2. CASE handle_call
    <3>1. /\ rp' = rp + QWORD
          /\ \A at \in Nat : IsFrame(at) => IsFrame(at)'
          /\ \A at \in Nat : at = rp => Vector(at)' = ip + 1
          /\ \A i \in 0 .. rp - 1 : mem'[i] = mem[i]
      BY <1>1, <2>1, <2>2, CallPushes
    <3>. QED  BY <1>3, <2>1, <3>1
  <2>3. CASE handle_ret
    <3>1. /\ rp' = rp - QWORD /\ ip' = Vector(rp - QWORD) /\ UNCHANGED mem
          /\ \A at \in Nat : IsFrame(at) => IsFrame(at)' \/ at = rp - QWORD
      BY <1>1, <2>1, <2>3, RetPops
    <3>2. ASSUME NEW at \in 0 .. rp, IsFrame(at)
          PROVE  \/ IsFrame(at)' /\ (MayWrite \/ Kept(at))
                 \/ rp' = at /\ ip' = Vector(at)
      BY <1>1, <3>1, <3>2 DEF Kept
    <3>3. ~(rp' > rp)
      BY <1>1, <3>1
    <3>. QED  BY <3>2, <3>3 DEF Nests
  <2>4. CASE rp' = rp /\ Op \notin {CALL, RET}
    BY <1>2, <2>1, <2>4 DEF MayWrite, Defined
  <2>. QED  BY <2>1, <2>2, <2>3, <2>4, OpRp
<1>5. CASE handle_io
  <2>1. ~Stepping
    BY <1>5 DEF handle_io, Stepping
  <2>2. CASE TimerDue
    <3>1. handle_irq("clk", mem[IRQ_CLK], mem) /\ Accessible(rp, QWORD)
      BY <1>5, <2>2 DEF handle_io, handle_timer
    <3>2. /\ rp' = rp + QWORD
          /\ \A at \in Nat : IsFrame(at) => IsFrame(at)'
          /\ \A at \in Nat : at = rp => Vector(at)' = ip
          /\ \A i \in 0 .. rp - 1 : mem'[i] = mem[i]
      BY <1>1, <3>1, IrqPushes
    <3>. QED  BY <1>3, <2>1, <3>2
  <2>3. CASE ~TimerDue
    BY <1>2, <1>5, <2>3 DEF handle_io, machine
  <2>. QED  BY <2>2, <2>3
<1>6. CASE handle_kbd
  <2>1. ~Stepping /\ MayWrite
    BY <1>6 DEF handle_kbd, Stepping, MayWrite
  <2>2. CASE nread < Len(typed)
    <3>1. PICK isr \in Nat, stack \in Memory :
             /\ isr < RADIX^QWORD /\ stack = [mem EXCEPT ![sp] = typed[nread + 1]]
             /\ handle_irq("kbd", isr, stack)
      BY <1>6, <2>2, KeyInterrupts, QwordAssumption DEF TypeOK
    <3>2. Accessible(rp, QWORD)
      BY <1>6, <2>2 DEF handle_kbd
    <3>3. /\ rp' = rp + QWORD
          /\ \A at \in Nat : IsFrame(at) => IsFrame(at)'
          /\ \A at \in Nat : at = rp => Vector(at)' = ip
          /\ \A i \in 0 .. rp - 1 : mem'[i] = stack[i]
      BY <1>1, <3>1, <3>2, IrqPushes
    <3>. QED  BY <1>3, <2>1, <3>3
  <2>3. CASE ~(nread < Len(typed))
    BY <1>2, <1>6, <2>1, <2>3 DEF handle_kbd
  <2>. QED  BY <2>2, <2>3
<1>7. CASE test_kbd \/ type_key \/ close_tty \/ timer_fires
  BY <1>2, <1>7 DEF test_kbd, type_key, close_tty, timer_fires, machineAndHost, machine
<1>8. ~(exit_cpu \/ wild_cpu \/ wild_irq)
  BY DEF exit_cpu, wild_cpu, wild_irq, Stop
<1>. QED  BY <1>4, <1>5, <1>6, <1>7, <1>8 DEF Next, run_cpu

\* Calls, returns and interrupts keep the return stack a stack, for every
\* program, wherever it points rp: each return goes to the address the last
\* call or interrupt pushed that has not been returned to, and none of them
\* changes an address further down (handle_call, handle_ret, handle_irq).
THEOREM ReturnStack == Spec => ReturnsNest
<1>1. TypeOK /\ ReturnAddress /\ [Next]_vars => [Nests]_vars
  BY NestsStep, CpuAssumption
<1>. QED  BY <1>1, TypeCorrect, ReturnAddressIs, PTL DEF Spec, ReturnsNest

LEMMA ResumesStep ==
    ASSUME TypeOK, IrqDiscipline, ReturnAddress, Next, CpuAssumption
    PROVE  Resumes
<1>. SUFFICES ASSUME halted, status' = "ok"
              PROVE  Resume' = Resume \/ (Stepping /\ MayWrite /\ ~Kept(ret))
  BY DEF Resumes
<1>1. /\ MachineTypeOK /\ ip < RADIX^QWORD /\ rp \in Nat /\ QWORD \in 2 .. 8 /\ mem \in Memory
      /\ hpc \in {"clk", "kbd"} => IsFrame(ret) /\ ret \in Nat /\ ret + QWORD <= rp
  BY QwordAssumption
     DEF TypeOK, MachineTypeOK, ProcessTypeOK, Memory, IrqDiscipline, ReturnAddress, IsFrame
<1>2. CASE step_cpu
  <2>1. /\ Stepping /\ Defined /\ handle_op /\ ret' = ret /\ hpc \in {"clk", "kbd"}
        /\ IF rp' = ret THEN hpc' \in {"mid", "program"} ELSE hpc' = hpc
    BY <1>2 DEF step_cpu, LeaveIrq, Stepping
  <2>2. ASSUME rp' # ret, Kept(ret)
        PROVE  Resume' = Resume
    <3>1. Num(Slice(mem', ret, QWORD), QWORD) = Vector(ret)
      <4>1. PICK at \in Nat : at = ret
        BY <1>1, <2>1
      <4>2. QWORD \in Nat /\ Kept(at)
        BY <1>1, <2>2, <4>1 DEF Kept
      <4>3. Num(Slice(mem', at, QWORD), QWORD) = Vector(at)
        BY <4>2, KeptVector
      <4>. QED  BY <4>1, <4>3
    <3>2. Vector(ret)' = Vector(ret)
      BY <2>1, <3>1 DEF Vector
    <3>. QED  BY <2>1, <2>2, <3>2 DEF Resume
  <2>3. CASE handle_call
    <3>1. rp' = rp + QWORD /\ \A i \in 0 .. rp - 1 : mem'[i] = mem[i]
      BY <1>1, <2>1, <2>3, CallPushes
    <3>2. Kept(ret) /\ rp' # ret
      <4>1. \A i \in ret .. ret + QWORD - 1 : i \in 0 .. rp - 1
        BY <1>1, <2>1
      <4>. QED  BY <1>1, <2>1, <3>1, <4>1 DEF Kept
    <3>. QED  BY <2>2, <3>2
  <2>4. CASE handle_ret
    <3>1. rp' = rp - QWORD /\ ip' = Vector(rp - QWORD) /\ UNCHANGED mem
      BY <1>1, <2>1, <2>4, RetPops
    <3>2. CASE rp' = ret
      <4>1. ip' = Vector(ret)
        BY <3>1, <3>2
      <4>. QED  BY <2>1, <3>2, <4>1 DEF Resume
    <3>3. CASE rp' # ret
      BY <2>2, <3>1, <3>3 DEF Kept
    <3>. QED  BY <3>2, <3>3
  <2>5. CASE rp' = rp /\ Op \notin {CALL, RET}
    <3>1. rp' # ret /\ MayWrite
      BY <1>1, <2>1, <2>5 DEF MayWrite, Defined
    <3>. QED  BY <2>1, <2>2, <3>1
  <2>. QED  BY <2>1, <2>3, <2>4, <2>5, OpRp
<1>3. CASE handle_io
  <2>1. hpc = "program" /\ Resume = ip
    BY <1>3 DEF handle_io, Resume
  <2>2. CASE TimerDue
    <3>1. handle_irq("clk", mem[IRQ_CLK], mem) /\ Accessible(rp, QWORD)
      BY <1>3, <2>2 DEF handle_io, handle_timer
    <3>2. PICK at \in Nat : at = rp /\ ret' = at /\ Vector(at)' = ip
      BY <1>1, <3>1, IrqPushes
    <3>3. Resume' = ip
      BY <3>1, <3>2 DEF Resume, Vector, handle_irq
    <3>. QED  BY <2>1, <3>3
  <2>3. CASE ~TimerDue
    BY <1>3, <2>1, <2>3 DEF handle_io, machine, Resume
  <2>. QED  BY <2>2, <2>3
<1>4. CASE handle_kbd
  <2>1. hpc = "read" /\ Resume = ip
    BY <1>4 DEF handle_kbd, Resume
  <2>2. CASE nread < Len(typed)
    <3>1. PICK isr \in Nat, stack \in Memory :
             /\ isr < RADIX^QWORD /\ stack = [mem EXCEPT ![sp] = typed[nread + 1]]
             /\ handle_irq("kbd", isr, stack)
      BY <1>4, <2>2, KeyInterrupts, QwordAssumption DEF TypeOK
    <3>2. Accessible(rp, QWORD)
      BY <1>4, <2>2 DEF handle_kbd
    <3>3. PICK at \in Nat : at = rp /\ ret' = at /\ Vector(at)' = ip
      BY <1>1, <3>1, <3>2, IrqPushes
    <3>4. Resume' = ip
      BY <3>1, <3>3 DEF Resume, Vector, handle_irq
    <3>. QED  BY <2>1, <3>4
  <2>3. CASE ~(nread < Len(typed))
    BY <1>4, <2>1, <2>3 DEF handle_kbd, Resume
  <2>. QED  BY <2>2, <2>3
<1>5. CASE test_kbd
  BY <1>5 DEF test_kbd, machine, Resume
<1>6. CASE type_key \/ close_tty \/ timer_fires
  BY <1>6 DEF type_key, close_tty, timer_fires, machineAndHost, machine, Resume, Vector
<1>7. ~(exit_cpu \/ wild_cpu \/ wild_irq)
  BY DEF exit_cpu, wild_cpu, wild_irq, Stop
<1>. QED  BY <1>2, <1>3, <1>4, <1>5, <1>6, <1>7 DEF Next, run_cpu

\* Once halted, the machine comes back from every interrupt to where it had
\* halted, whatever its ISRs call: the address only changes when an
\* instruction of an ISR writes over it (handle_irq, cpu.c:519-526).
THEOREM InterruptsAreTransparent == Spec => ResumesThere
<1>1. TypeOK /\ IrqDiscipline /\ ReturnAddress /\ [Next]_vars => [Resumes]_vars
  BY ResumesStep, CpuAssumption
<1>. QED  BY <1>1, TypeCorrect, Discipline, ReturnAddressIs, PTL DEF Spec, ResumesThere

----------------------------------------------------------------------------
(* Keys are noticed *)

\* An active event stays until it is read, and notifying makes it active.
LEMMA EventStays ==
    ASSUME NEW S, events \in Seq(S), NEW e
    PROVE  /\ Pending(e) /\ UNCHANGED events => Pending(e)'
           /\ Activate(e) => Pending(e)'
           /\ \A f : Pending(e) /\ events' = Append(events, f) => Pending(e)'
           /\ Pending(e) /\ events' = Tail(events) /\ Head(events) # e => Pending(e)'
           /\ Pending(e) => events # <<>>
<1>1. Pending(e) /\ UNCHANGED events => Pending(e)'
  BY DEF Pending
<1>2. ASSUME NEW f, events' = Append(events, f)
      PROVE  (Pending(e) => Pending(e)') /\ (f = e => Pending(e)')
  BY <1>2 DEF Pending
<1>3. Activate(e) => Pending(e)'
  BY <1>1, <1>2 DEF Activate
<1>4. ASSUME Pending(e), events' = Tail(events), Head(events) # e
      PROVE  Pending(e)'
  <2>1. PICK i \in 1 .. Len(events) : events[i] = e
    BY <1>4 DEF Pending
  <2>2. i # 1 /\ events # <<>>
    BY <1>4, <2>1
  <2>3. i - 1 \in 1 .. Len(Tail(events)) /\ Tail(events)[i - 1] = events[i]
    BY <2>1, <2>2
  <2>. QED  BY <1>4, <2>1, <2>3 DEF Pending
<1>5. Pending(e) => events # <<>>
  BY DEF Pending
<1>. QED  BY <1>1, <1>2, <1>3, <1>4, <1>5

LEMMA NoticedStep ==
    ASSUME TypeOK, Next, CpuAssumption
    PROVE  StaysNoticed
<1>. SUFFICES ASSUME Noticed, Len(typed) <= nread + 1, Len(typed') <= nread' + 1,
                     TTY_MASTER \in watched', nread' < Len(typed')
              PROVE  Reported' \/ (hpc = "mid" /\ mem[IRQ_KBD] = 0)
  BY DEF StaysNoticed, Noticed
<1>1. events \in Seq({IRQ_CLK, TTY_MASTER}) /\ nread \in Nat /\ Len(typed) \in Nat
  BY DEF TypeOK, KqTypeOK, TerminalTypeOK
<1>2. IRQ_CLK # TTY_MASTER
  BY IrqsDistinct, QwordAssumption
<1>3. Pending(TTY_MASTER)' => Reported'
  BY DEF Reported
<1>4. ASSUME UNCHANGED <<watched, typed, nread>>
      PROVE  Reported
  BY <1>4 DEF Noticed
<1>5. CASE step_cpu
  <2>1. hpc \in {"program", "clk", "kbd"} /\ UNCHANGED <<typed, nread>> /\ handle_op
    BY <1>5 DEF step_cpu, Stepping, keyboard
  <2>2. ASSUME TTY_MASTER \in watched PROVE Pending(TTY_MASTER)
    BY <2>1, <2>2 DEF Noticed, Reported
  <2>3. CASE \E isr : set_timer_isr(isr)
    <3>1. /\ watched' = watched \union {IRQ_CLK}
          /\ events' \in {events, KeyboardOnly}
      BY <2>3 DEF set_timer_isr
    <3>2. Pending(TTY_MASTER)
      BY <1>2, <2>2, <3>1
    <3>3. CASE events' = events
      BY <1>1, <1>3, <3>2, <3>3, EventStays
    <3>4. CASE events' = KeyboardOnly
      <4>1. events' = <<TTY_MASTER>>
        BY <3>2, <3>4 DEF KeyboardOnly
      <4>. QED  BY <1>3, <4>1 DEF Pending
    <3>. QED  BY <3>1, <3>3, <3>4
  <2>4. CASE \E isr : set_kbd_isr(isr)
    <3>1. Activate(TTY_MASTER)
      BY <2>1, <2>4 DEF set_kbd_isr, Unread
    <3>. QED  BY <1>1, <1>3, <3>1, EventStays
  <2>5. CASE UNCHANGED kq
    BY <1>1, <1>3, <2>2, <2>5, EventStays DEF kq
  <2>6. UNCHANGED kq \/ (\E isr : set_timer_isr(isr)) \/ (\E isr : set_kbd_isr(isr))
    BY <2>1 DEF handle_op, handle_int
  <2>. QED  BY <2>3, <2>4, <2>5, <2>6
<1>6. CASE handle_io
  <2>1. /\ hpc = "program" /\ UNCHANGED <<watched, typed, nread>>
        /\ ke' = Head(events) /\ events' = Tail(events)
        /\ ~TimerDue => hpc' = "mid"
    BY <1>6 DEF handle_io, keyboard
  <2>2. Pending(TTY_MASTER)
    BY <1>4, <2>1 DEF Reported
  <2>3. CASE Head(events) = TTY_MASTER
    <3>1. ~TimerDue
      BY <1>2, <2>3 DEF TimerDue
    <3>. QED  BY <2>1, <2>3, <3>1 DEF Reported
  <2>4. CASE Head(events) # TTY_MASTER
    BY <1>1, <1>3, <2>1, <2>2, <2>4, EventStays
  <2>. QED  BY <2>3, <2>4
<1>7. CASE test_kbd
  <2>1. /\ hpc = "mid" /\ UNCHANGED <<watched, typed, nread, events>>
        /\ hpc' = IF mem[IRQ_KBD] # 0 /\ ke = TTY_MASTER THEN "read" ELSE "program"
    BY <1>7 DEF test_kbd, kq, keyboard
  <2>2. Pending(TTY_MASTER) \/ ke = TTY_MASTER
    BY <1>4, <2>1 DEF Reported
  <2>3. CASE Pending(TTY_MASTER)
    BY <1>1, <1>3, <2>1, <2>3, EventStays
  <2>4. CASE ke = TTY_MASTER
    BY <2>1, <2>4 DEF Reported
  <2>. QED  BY <2>2, <2>3, <2>4
<1>8. ~handle_kbd
  <2>. SUFFICES ASSUME handle_kbd PROVE FALSE
    OBVIOUS
  <2>1. /\ typed' = typed
        /\ IF nread < Len(typed) THEN nread' = nread + 1 ELSE nread' = nread
    BY DEF handle_kbd
  <2>. QED  BY <1>1, <2>1
<1>9. CASE type_key
  <2>1. UNCHANGED watched /\ Notify
    BY <1>9 DEF type_key, machineAndHost
  <2>2. Activate(TTY_MASTER)
    BY <2>1 DEF Notify
  <2>. QED  BY <1>1, <1>3, <2>2, EventStays
<1>10. CASE close_tty
  <2>1. UNCHANGED watched /\ Notify
    BY <1>10 DEF close_tty, machineAndHost
  <2>2. Activate(TTY_MASTER)
    BY <2>1 DEF Notify
  <2>. QED  BY <1>1, <1>3, <2>2, EventStays
<1>11. CASE timer_fires
  <2>1. /\ UNCHANGED <<watched, typed, nread, hpc, ke>>
        /\ events' = Append(events, IRQ_CLK)
    BY <1>11 DEF timer_fires, machineAndHost
  <2>2. CASE Pending(TTY_MASTER)
    BY <1>1, <1>3, <2>1, <2>2, EventStays
  <2>3. CASE ~Pending(TTY_MASTER)
    BY <1>4, <2>1, <2>3 DEF Reported
  <2>. QED  BY <2>2, <2>3
<1>12. CASE exit_cpu \/ wild_cpu \/ wild_irq
  <2>1. UNCHANGED <<watched, typed, nread, hpc, ke, events>>
    BY <1>12 DEF exit_cpu, wild_cpu, wild_irq, Stop, kq, keyboard
  <2>2. CASE Pending(TTY_MASTER)
    BY <1>1, <1>3, <2>1, <2>2, EventStays
  <2>3. CASE ~Pending(TTY_MASTER)
    BY <1>4, <2>1, <2>3 DEF Reported
  <2>. QED  BY <2>2, <2>3
<1>. QED  BY <1>5, <1>6, <1>7, <1>8, <1>9, <1>10, <1>11, <1>12 DEF Next, run_cpu

\* A key that is the only one unread stays reported until it is read, for
\* every program and every interleaving of the clock, its ISR and the user:
\* what the kqueue of handle_io loses are keys that came while another was
\* unread, and keys for a vector whose first byte is zero (cpu.c:133-145).
THEOREM LoneKeys == Spec => LoneKeyNoticed
<1>1. TypeOK /\ [Next]_vars => [StaysNoticed]_vars
  BY NoticedStep, CpuAssumption
<1>. QED  BY <1>1, TypeCorrect, PTL DEF Spec, LoneKeyNoticed

----------------------------------------------------------------------------
(* The machine implements Interrupts *)

\* What the abstract state is, by the place the C program is in.
LEMMA ModeIs ==
    /\ status # "ok" => Mode = "down"
    /\ status = "ok" /\ ~halted => Mode = "program"
    /\ status = "ok" /\ halted /\ hpc = "program" => Mode = "idle"
    /\ status = "ok" /\ halted /\ hpc # "program" => Mode = "serving"
BY DEF Mode

\* An instruction ends the program, ends a service, or changes nothing the
\* abstract machine shows.
LEMMA InstructionImplements ==
    ASSUME TypeOK, IrqDiscipline, step_cpu
    PROVE  [Abstract!Next]_(Abstract!vars)
<1>1. /\ status = "ok" /\ status' = "ok" /\ ret' = ret
      /\ typed' = typed /\ nread' = nread /\ halted' \in {halted, TRUE}
  BY OpHalts DEF step_cpu, Stepping, Running, LeaveIrq, keyboard
<1>2. CASE ~halted
  <2>1. hpc = "program" /\ hpc' = "program"
    BY <1>2 DEF IrqDiscipline, step_cpu, LeaveIrq
  <2>2. CASE halted'
    <3>1. Mode = "program" /\ Mode' = "idle"
      BY <1>1, <1>2, <2>1, <2>2 DEF Mode
    <3>. QED  BY <1>1, <2>1, <3>1 DEF Abstract!Next, Abstract!Halt
  <2>3. CASE ~halted'
    <3>1. Mode = "program" /\ Mode' = "program"
      BY <1>1, <1>2, <2>3 DEF Mode
    <3>. QED  BY <1>1, <2>1, <3>1 DEF Abstract!vars
  <2>. QED  BY <2>2, <2>3
<1>3. CASE halted
  <2>1. hpc \in {"clk", "kbd"} /\ halted'
    BY <1>1, <1>3 DEF step_cpu, Stepping
  <2>2. \/ hpc' = hpc
        \/ hpc = "clk" /\ hpc' = "mid"
        \/ hpc = "kbd" /\ hpc' = "program"
    BY <2>1 DEF step_cpu, LeaveIrq
  <2>3. Mode = "serving"
    BY <1>1, <1>3, <2>1, ModeIs
  <2>4. CASE hpc' = "program"
    <3>1. Mode' = "idle"
      BY <1>1, <2>1, <2>4 DEF Mode
    <3>. QED  BY <1>1, <2>3, <2>4, <3>1 DEF Abstract!Next, Abstract!Done
  <2>5. CASE hpc' # "program"
    <3>1. Mode' = "serving" /\ (hpc' = "kbd") = (hpc = "kbd")
      BY <1>1, <2>1, <2>2, <2>5 DEF Mode
    <3>. QED  BY <1>1, <2>3, <3>1 DEF Abstract!vars
  <2>. QED  BY <2>4, <2>5
<1>. QED  BY <1>2, <1>3

LEMMA EventImplements ==
    ASSUME TypeOK, handle_io \/ test_kbd \/ handle_kbd, IrqDiscipline
    PROVE  [Abstract!Next]_(Abstract!vars)
<1>1. rp \in Nat /\ (ret # NoLevel /\ hpc \notin {"clk", "kbd"} => rp = ret)
  BY DEF TypeOK, MachineTypeOK, IrqDiscipline
<1>2. CASE handle_io
  <2>1. /\ status = "ok" /\ status' = "ok" /\ halted /\ halted'
        /\ typed' = typed /\ nread' = nread /\ hpc = "program"
        /\ \/ hpc' = "clk" /\ ret' = rp
           \/ hpc' = "mid" /\ ret' = ret
    BY <1>2 DEF handle_io, handle_timer, handle_irq, Running, keyboard, machine
  <2>2. Mode = "idle" /\ Mode' = "serving"
    BY <2>1 DEF Mode
  <2>3. Abstract!SameLevel
    BY <1>1, <2>1 DEF Abstract!SameLevel
  <2>. QED  BY <2>1, <2>2, <2>3 DEF Abstract!Next, Abstract!Begin
<1>3. CASE test_kbd
  <2>1. /\ status = "ok" /\ status' = "ok" /\ hpc = "mid" /\ halted /\ halted'
        /\ typed' = typed /\ nread' = nread /\ ret' = ret
        /\ hpc' \in {"read", "program"}
    BY <1>3 DEF test_kbd, Running, keyboard, machine, IrqDiscipline
  <2>2. CASE hpc' = "read"
    <3>1. Mode = "serving" /\ Mode' = "serving"
      BY <2>1, <2>2 DEF Mode
    <3>. QED  BY <2>1, <2>2, <3>1 DEF Abstract!vars
  <2>3. CASE hpc' = "program"
    <3>1. Mode = "serving" /\ Mode' = "idle"
      BY <2>1, <2>3 DEF Mode
    <3>. QED  BY <2>1, <2>3, <3>1 DEF Abstract!Next, Abstract!Done
  <2>. QED  BY <2>1, <2>2, <2>3
<1>4. CASE handle_kbd
  <2>1. /\ status = "ok" /\ status' = "ok" /\ hpc = "read" /\ halted /\ halted'
        /\ typed' = typed
    BY <1>4 DEF handle_kbd, Running, IrqDiscipline
  <2>2. Mode = "serving"
    BY <2>1 DEF Mode
  <2>3. CASE nread < Len(typed)
    <3>1. nread' = nread + 1 /\ hpc' = "kbd" /\ ret' = rp
      BY <1>4, <2>3 DEF handle_kbd, handle_irq
    <3>2. Mode' = "serving"
      BY <2>1, <3>1 DEF Mode
    <3>3. Abstract!SameLevel
      BY <1>1, <2>1, <3>1 DEF Abstract!SameLevel
    <3>. QED  BY <2>1, <2>2, <2>3, <3>1, <3>2, <3>3 DEF Abstract!Next, Abstract!TakeKey
  <2>4. CASE ~(nread < Len(typed))
    <3>1. nread' = nread /\ hpc' = "program" /\ ret' = ret
      BY <1>4, <2>4 DEF handle_kbd
    <3>2. Mode' = "idle"
      BY <2>1, <3>1 DEF Mode
    <3>. QED  BY <2>1, <2>2, <3>1, <3>2 DEF Abstract!Next, Abstract!Done
  <2>. QED  BY <2>3, <2>4
<1>. QED  BY <1>2, <1>3, <1>4

\* A machine that stops goes down; what the user and the timer do shows in
\* the keys typed or not at all.
LEMMA OtherImplements ==
    ASSUME exit_cpu \/ wild_cpu \/ wild_irq
             \/ type_key \/ close_tty \/ timer_fires \/ UNCHANGED vars
    PROVE  [Abstract!Next]_(Abstract!vars)
<1>1. CASE exit_cpu \/ wild_cpu \/ wild_irq
  <2>1. /\ status = "ok" /\ status' \in {"exit", "wild"} /\ ret' = ret
        /\ typed' = typed /\ nread' = nread /\ hpc' = hpc
    BY <1>1 DEF exit_cpu, wild_cpu, wild_irq, Stop, Stepping, Running, keyboard
  <2>2. Mode # "down" /\ Mode' = "down"
    BY <2>1 DEF Mode
  <2>. QED  BY <2>1, <2>2 DEF Abstract!Next, Abstract!Fail
<1>2. CASE type_key \/ close_tty \/ timer_fires
  <2>1. /\ status = "ok" /\ UNCHANGED <<status, halted, hpc, ret, nread>>
        /\ Mode' = Mode /\ Mode # "down"
    BY <1>2 DEF type_key, close_tty, timer_fires, machineAndHost, machine, Running, Mode
  <2>2. CASE type_key
    BY <2>1, <2>2 DEF type_key, Abstract!Next, Abstract!TypeKey
  <2>3. CASE close_tty \/ timer_fires
    BY <2>1, <2>3 DEF close_tty, timer_fires, Abstract!vars
  <2>. QED  BY <1>2, <2>2, <2>3
<1>3. CASE UNCHANGED vars
  <2>1. UNCHANGED <<status, halted, hpc, ret, typed, nread>> /\ Mode' = Mode
    BY <1>3 DEF vars, machine, keyboard, Mode
  <2>. QED  BY <2>1 DEF Abstract!vars
<1>. QED  BY <1>1, <1>2, <1>3

\* The machine keeps the promise of module Interrupts to every program: one
\* service at a time, at most one key each, in the order they were typed.
THEOREM Implements == Spec => InterruptPromise
<1>1. Init => Abstract!Init
  <2>. SUFFICES ASSUME Init PROVE Abstract!Init
    OBVIOUS
  <2>1. status = "ok" /\ ~halted /\ hpc = "program" /\ ret = NoLevel
          /\ typed = <<>> /\ nread = 0
    BY DEF Init, init_cpu
  <2>2. Mode = "program"
    BY <2>1, ModeIs
  <2>. QED  BY <2>1, <2>2 DEF Abstract!Init
<1>2. TypeOK /\ IrqDiscipline /\ [Next]_vars => [Abstract!Next]_(Abstract!vars)
  BY InstructionImplements, EventImplements, OtherImplements DEF Next, run_cpu
<1>. QED  BY <1>1, <1>2, TypeCorrect, Discipline, PTL
         DEF Spec, InterruptPromise, Abstract!Spec

=============================================================================
