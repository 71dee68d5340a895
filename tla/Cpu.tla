-------------------------------- MODULE Cpu --------------------------------
(***************************************************************************)
(* The virtual machine of src/lib/cpu/cpu.c and its hardware, driven by    *)
(* the loop of src/cpu.c ("while (true) run_cpu(cpu)").                    *)
(*                                                                         *)
(* One step of the specification is one instruction, or one stage of       *)
(* handle_io between two points where the environment can interfere: the   *)
(* kevent call, the test for a key, and the blocking read of the terminal. *)
(* Every access outside the machine's memory, and every other undefined    *)
(* behaviour of the C program, leads to status "wild", from where nothing  *)
(* is promised and nothing more is modelled.                               *)
(***************************************************************************)
EXTENDS Disk, Isa, Sequences

CONSTANTS
    MEMORY_SZ, STACK, RET_STACK, IRQ_P0_BUF,   \* cpu.h
    IRQ_SZ,        \* sizeof(irq_t): 4 of a qword's 8 bytes in the code
    Programs,      \* the system files load_cpu may be given
    Hosts,         \* what the C library and the kernel make of the program
    Keys,          \* the bytes a user types
    MaxKeys,       \* bound: how many keys are typed
    MaxScreen      \* bound: how many characters of output are remembered

TTY_MASTER == 0    \* tty->master: connect_tty is never called
NoLevel == 0 - 1   \* ret before the first interrupt

MemoryAssumption ==
    /\ MEMORY_SZ \in Nat \ {0} /\ STACK \in Nat \ {0} /\ RET_STACK \in Nat \ {0}
    /\ IDT \in Nat \ {0} /\ IRQ_P0_BUF \in Nat \ {0}
    /\ IDT + 9 * QWORD <= MEMORY_SZ /\ MEMORY_SZ < RADIX^QWORD
    /\ STACK <= MEMORY_SZ /\ RET_STACK <= MEMORY_SZ
    /\ IRQ_P0_BUF + DMA_LEN <= MEMORY_SZ
    /\ IRQ_SZ \in 1 .. QWORD

InputAssumption ==
    /\ \A program \in Programs :
          program \in Seq(Byte) /\ Len(program) <= MEMORY_SZ
    /\ Hosts \subseteq [opmaps : {"zero", "garbage"},
                        ports : {"adjacent", "scattered"},
                        kqueue : {"works", "fails"}]
    /\ Keys \subseteq Byte
    /\ MaxKeys \in Nat /\ MaxScreen \in Nat

ASSUME CpuAssumption == MemoryAssumption /\ InputAssumption

VARIABLES
    host,       \* the member of Hosts this process runs on
    program,    \* the system file it was started with
    mem, ip, sp, rp,    \* the machine; registers are offsets into mem
    halted,     \* ts = NULL
    status,     \* "ok", "exit" (the process ended) or "wild"
    hpc,        \* where the C program is: "program", "clk", "mid", "read", "kbd"
    ret,        \* local of the last handle_irq; NoLevel before the first
    ke,         \* ke.ident, the event read last or the filter set last
    watched,    \* the filters registered with the kqueue
    events,     \* the kqueue's active events, oldest first
    typed,      \* everything typed so far
    nread,      \* how much of it read_tty has returned
    eof,        \* the terminal is closed
    screen      \* the characters written to the terminal

setup    == <<host, program>>
machine  == <<mem, ip, sp, rp, halted>>
kq       == <<ke, watched, events>>
keyboard == <<typed, nread, eof>>
vars     == <<setup, machine, status, hpc, ret, kq, keyboard, screen, diskVars>>

----------------------------------------------------------------------------
(* Decoding *)

\* The instruction at ip: opcode in the high 5 bits, size flags in the low 3.
Op     == mem[ip] \div 8
Length == <<1, 2, 4, 8, 16, 32, 64, 128>>[(mem[ip] % 8) + 1]

Accessible(at, n) == n = 0 \/ (0 <= at /\ at + n <= MEMORY_SZ)

\* The block of n bytes whose first byte lies d bytes below sp, its number,
\* and the qword an interrupt vector holds.
Block(d, n)  == Slice(mem, sp - d, n)
Arg(d, n)    == Num(Block(d, n), n)
Vector(slot) == Num(Slice(mem, slot, QWORD), QWORD)

\* Bytes an instruction takes from the stack.  STORE is dispatched as a
\* one-operand instruction, so it loses Length bytes it never looks at.
Consumed ==
    CASE Op \in {CALL, JMP, DUP, POP}   -> Length
      [] Op \in Op2 \union {JZ, JNZ}    -> 2 * Length
      [] Op \in {JE, JNE}               -> 3 * Length
      [] Op = LOAD                      -> QWORD
      [] Op = STORE                     -> 2 * Length + QWORD
      [] Op = SWAP                      -> Length + QWORD
      [] Op \in {NOP, HLT, RET, PUSH, INT} -> 0

\* The operand of an interrupt call: its number, and the byte below it that
\* says how much more the MMU or a port takes.
irq == Arg(QWORD, QWORD) % RADIX^IRQ_SZ
IntHead == mem[sp - QWORD - 1]
HasHead == irq \in Ports \union {IRQ_MMU}

\* mmu_int pops two qwords or a 16-bit process number, and does nothing else.
MmuConsumed == CASE IntHead = 0 -> 2 * QWORD [] IntHead = 1 -> 2 [] OTHER -> 0

IntConsumed ==
    QWORD +
    CASE irq = IRQ_CLK     -> QWORD + 2
      [] irq = IRQ_KBD     -> QWORD
      [] irq = IRQ_TTY     -> 1
      [] irq = IRQ_MMU     -> 1 + MmuConsumed
      [] irq \in Ports     -> 1 + IntHead
      [] OTHER             -> 0

\* find_port does arithmetic on a pointer to port 0, although each port was
\* allocated on its own.
IntDefined ==
    /\ Accessible(sp - QWORD, QWORD)
    /\ HasHead => Accessible(sp - QWORD - 1, 1)
    /\ Accessible(sp - IntConsumed, IntConsumed)
    /\ irq \in Ports \ {IRQ_P0} => host.ports = "adjacent"

\* What an instruction accesses besides its operands.
Elsewhere ==
    CASE Op = CALL  -> {<<rp, QWORD>>}
      [] Op = RET   -> {<<rp - QWORD, QWORD>>}
      [] Op = LOAD  -> {<<Arg(QWORD, QWORD), Length>>}
      [] Op = STORE -> {<<Arg(Consumed, QWORD), Length>>}
      [] Op = PUSH  -> {<<ip + 1, Length>>, <<sp, Length>>}
      [] OTHER      -> {}

\* The instruction at ip does what its handler says: no access outside the
\* memory, no operand too long for the handler's 8-byte locals, no division
\* by zero, no call through an uninitialised entry of the opmaps.
Defined ==
    /\ ip < MEMORY_SZ
    /\ Op \in Op0 \/ (Op \in Op1 \union Op2 /\ host.opmaps = "zero")
    /\ Op \in {NOP, HLT, RET, INT} \/ Length <= QWORD
    /\ Accessible(sp - Consumed, Consumed)
    /\ \A region \in Elsewhere : Accessible(region[1], region[2])
    /\ Op = DIV => Arg(Length, Length) # 0
    /\ Op = INT => IntDefined

----------------------------------------------------------------------------
(* Handlers: each one's effect on the machine *)

Advance == ip' = ip + 1
Jump(loc, taken) == ip' = IF taken THEN loc ELSE ip + 1

\* Replace the consumed operands by a block of n bytes.
Leave(block, n) ==
    /\ mem' = Overwrite(mem, sp - Consumed, block)
    /\ sp' = sp - Consumed + n

Drop == sp' = sp - Consumed /\ UNCHANGED mem

Joined(x, n, y, m) == [i \in 0 .. n + m - 1 |-> IF i < n THEN x[i] ELSE y[i - n]]

handle_nop == Op = NOP /\ Advance /\ UNCHANGED <<mem, sp, rp, halted>>

\* Faulty: HLT moves on like other instructions.
handle_hlt_Advances ==
    Op = HLT /\ halted' = TRUE /\ Advance /\ UNCHANGED <<mem, sp, rp>>

\* ts is freed for good; ip stays on the instruction.
handle_hlt == Op = HLT /\ halted' = TRUE /\ UNCHANGED <<mem, ip, sp, rp>>

\* Faulty: rp moves as a pointer to qwords would.
handle_call_Overshoots ==
    /\ Op = CALL
    /\ ip' = Arg(Length, Length)
    /\ mem' = Overwrite(mem, rp, LE(ip + 1, QWORD))
    /\ rp' = rp + QWORD * QWORD
    /\ sp' = sp - Consumed
    /\ UNCHANGED halted

handle_call ==
    /\ Op = CALL
    /\ ip' = Arg(Length, Length)
    /\ mem' = Overwrite(mem, rp, LE(ip + 1, QWORD))
    /\ rp' = rp + QWORD
    /\ sp' = sp - Consumed
    /\ UNCHANGED halted

handle_ret ==
    /\ Op = RET
    /\ ip' = Vector(rp - QWORD)
    /\ rp' = rp - QWORD
    /\ UNCHANGED <<mem, sp, halted>>

handle_load ==
    /\ Op = LOAD
    /\ Leave(Slice(mem, Arg(QWORD, QWORD), Length), Length)
    /\ Advance
    /\ UNCHANGED <<rp, halted>>

handle_store ==
    /\ Op = STORE
    /\ mem' = Overwrite(mem, Arg(Consumed, QWORD), Block(2 * Length, Length))
    /\ sp' = sp - Consumed
    /\ Advance
    /\ UNCHANGED <<rp, halted>>

\* Faulty: SUB and DIV take their operands the wrong way round.
handle_op2_Swapped ==
    LET b == Arg(Length, Length)
        a == Arg(2 * Length, Length)
    IN /\ Op \in Op2
       /\ IF Op = DIV /\ a # 0
            THEN Leave(Joined(LE(b \div a, Length), Length, LE(b % a, Length), Length),
                       2 * Length)
            ELSE Leave(LE(b - a, Length), Length)
       /\ Advance
       /\ UNCHANGED <<rp, halted>>

\* The two-operand instructions: a is the upper operand, b the one below.
handle_op2 ==
    LET a == Arg(Length, Length)
        b == Arg(2 * Length, Length)
        A == Block(Length, Length)
        B == Block(2 * Length, Length)
        Result == CASE Op = ADD -> LE(b + a, Length)
                    [] Op = SUB -> LE(b - a, Length)
                    [] Op = MUL -> LE(b * a, Length)
                    [] Op = AND -> And(B, A)
                    [] Op = OR  -> Or(B, A)
    IN /\ \/ Op \in Op2 \ {DIV} /\ Leave(Result, Length)
          \/ /\ Op = DIV
             /\ Leave(Joined(LE(b \div a, Length), Length, LE(b % a, Length), Length),
                      2 * Length)
       /\ Advance
       /\ UNCHANGED <<rp, halted>>

\* Jumps: the target is on top, what is compared lies below it.
handle_jump ==
    LET loc == Arg(Length, Length)
        a   == Arg(2 * Length, Length)
        b   == Arg(3 * Length, Length)
    IN /\ \/ Op = JMP /\ Jump(loc, TRUE)
          \/ Op = JE  /\ Jump(loc, a = b)
          \/ Op = JNE /\ Jump(loc, a # b)
          \/ Op = JZ  /\ Jump(loc, a = 0)
          \/ Op = JNZ /\ Jump(loc, a # 0)
       /\ Drop
       /\ UNCHANGED <<rp, halted>>

\* The operand is written back in place and sp moved twice its size: the
\* second copy is whatever the stack held above.
handle_dup ==
    /\ Op = DUP
    /\ Leave(Block(Length, Length), 2 * Length)
    /\ Advance
    /\ UNCHANGED <<rp, halted>>

handle_push ==
    /\ Op = PUSH
    /\ Leave(Slice(mem, ip + 1, Length), Length)
    /\ ip' = ip + 1 + Length
    /\ UNCHANGED <<rp, halted>>

handle_pop == Op = POP /\ Drop /\ Advance /\ UNCHANGED <<rp, halted>>

\* The upper operand has the instruction's size, the lower always 8 bytes.
handle_swap ==
    /\ Op = SWAP
    /\ Leave(Joined(Block(Length, Length), Length,
                    Block(Length + QWORD, QWORD), QWORD), Length + QWORD)
    /\ Advance
    /\ UNCHANGED <<rp, halted>>

----------------------------------------------------------------------------
(* Interrupt calls *)

\* kevent with EV_ADD | EV_CLEAR.  A read filter is active at once if there
\* is something to read; setting a timer again may lose its pending event.
\* The filter is left in ke, where handle_io keeps the event it read.
Unread == nread < Len(typed) \/ eof

Pending(ident) == \E i \in 1 .. Len(events) : events[i] = ident

Activate(ident) ==
    events' = IF Pending(ident) THEN events ELSE Append(events, ident)

KeyboardOnly == IF Pending(TTY_MASTER) THEN <<TTY_MASTER>> ELSE <<>>

\* Faulty: the vector is not written; the filter is named by its vector.
set_timer_isr_NoVector(isr) ==
    /\ ke' = IRQ_CLK
    /\ watched' = watched \union {IRQ_CLK}
    /\ UNCHANGED <<events, mem>>

set_kbd_isr_WrongIdent(isr) ==
    /\ ke' = IRQ_KBD
    /\ watched' = watched \union {TTY_MASTER}
    /\ UNCHANGED events
    /\ mem' = Overwrite(mem, IRQ_KBD, isr)

\* Faulty: what was typed before goes unnoticed.
set_kbd_isr_OnlyLater(isr) ==
    /\ ke' = TTY_MASTER
    /\ watched' = watched \union {TTY_MASTER}
    /\ UNCHANGED events
    /\ mem' = Overwrite(mem, IRQ_KBD, isr)

set_timer_isr(isr) ==
    /\ ke' = IRQ_CLK
    /\ watched' = watched \union {IRQ_CLK}
    /\ events' \in {events, KeyboardOnly}
    /\ mem' = Overwrite(mem, IRQ_CLK, isr)

set_kbd_isr(isr) ==
    /\ ke' = TTY_MASTER
    /\ watched' = watched \union {TTY_MASTER}
    /\ IF Unread THEN Activate(TTY_MASTER) ELSE UNCHANGED events
    /\ mem' = Overwrite(mem, IRQ_KBD, isr)

\* Faulty: a carriage return is written as it is.
write_tty_NewlineOnly(c) ==
    LET out == IF c = 10 THEN <<13, 10>> ELSE <<c>>
    IN screen' = IF Len(screen) + 2 <= MaxScreen THEN screen \o out ELSE screen

\* A line end is written as carriage return and newline.
write_tty(c) ==
    LET out == IF c \in {10, 13} THEN <<13, 10>> ELSE <<c>>
    IN screen' = IF Len(screen) + 2 <= MaxScreen THEN screen \o out ELSE screen

\* The command of an empty message is a byte of an empty malloc.
PortCommands == IF IntHead = 0 THEN Byte ELSE {mem[sp - IntConsumed]}

\* Port 0 has the disk.  handle_port_read copies the disk's one-byte reply
\* behind the port's own interrupt slot.
port0_int(cmd) ==
    /\ ~DiskUndefined(cmd, IntHead - 1)
    /\ disk_handler(cmd, Slice(mem, sp - IntConsumed + 1, IntHead - 1), IntHead - 1,
                    Slice(mem, IRQ_P0_BUF, DMA_LEN))
    /\ mem' = IF Replies(cmd) THEN [mem EXCEPT ![IRQ_P0 + QWORD] = 0] ELSE mem

handle_int ==
    /\ Op = INT
    /\ \/ /\ irq = IRQ_CLK
          /\ set_timer_isr(Block(2 * QWORD, QWORD))
          /\ UNCHANGED <<screen, diskVars>>
       \/ /\ irq = IRQ_KBD
          /\ set_kbd_isr(Block(2 * QWORD, QWORD))
          /\ UNCHANGED <<screen, diskVars>>
       \/ /\ irq = IRQ_TTY
          /\ write_tty(mem[sp - QWORD - 1])
          /\ UNCHANGED <<mem, kq, diskVars>>
       \/ /\ irq = IRQ_P0
          /\ \E cmd \in PortCommands : port0_int(cmd)
          /\ UNCHANGED <<kq, screen>>
       \/ /\ irq \notin {IRQ_CLK, IRQ_KBD, IRQ_TTY, IRQ_P0}
          /\ UNCHANGED <<mem, kq, screen, diskVars>>
    /\ sp' = sp - IntConsumed
    /\ Advance
    /\ UNCHANGED <<rp, halted>>

handle_op ==
    \/ /\ \/ handle_nop  \/ handle_hlt   \/ handle_call \/ handle_ret
          \/ handle_load \/ handle_store \/ handle_op2  \/ handle_jump
          \/ handle_dup  \/ handle_push  \/ handle_pop  \/ handle_swap
       /\ UNCHANGED <<kq, screen, diskVars>>
    \/ handle_int

----------------------------------------------------------------------------
(* The two loops that execute instructions: main's, and handle_irq's *)

Running == status = "ok"

\* The process ends, or its behaviour is undefined from here on.
Stop(why) ==
    /\ status' = why
    /\ UNCHANGED <<setup, machine, hpc, ret, kq, keyboard, screen, diskVars>>

Stepping ==
    /\ Running
    /\ hpc \in {"clk", "kbd"} \/ (hpc = "program" /\ ~halted)

\* exit(1): an opcode without a handler, or a kevent that fails.
Exits ==
    \/ ip < MEMORY_SZ /\ Op \notin Op0 \union Op1 \union Op2 /\ host.opmaps = "zero"
    \/ Defined /\ Op = INT /\ irq \in {IRQ_CLK, IRQ_KBD} /\ host.kqueue = "fails"

PortUndefined ==
    /\ Defined /\ Op = INT /\ irq = IRQ_P0
    /\ \E cmd \in PortCommands : DiskUndefined(cmd, IntHead - 1)

\* Faulty: the loop ends at the first RET; only below the level it started
\* from; it goes back to the read instead of the loop of main.
LeaveIrq_FirstRet ==
    /\ hpc' = IF hpc \in {"clk", "kbd"} /\ Op = RET
                 THEN IF hpc = "clk" THEN "mid" ELSE "program"
                 ELSE hpc
    /\ UNCHANGED ret

LeaveIrq_Below ==
    /\ hpc' = IF hpc \in {"clk", "kbd"} /\ rp' < ret
                 THEN IF hpc = "clk" THEN "mid" ELSE "program"
                 ELSE hpc
    /\ UNCHANGED ret

LeaveIrq_ReadOn ==
    /\ hpc' = IF hpc \in {"clk", "kbd"} /\ rp' = ret
                 THEN IF hpc = "clk" THEN "mid" ELSE "read"
                 ELSE hpc
    /\ UNCHANGED ret

\* handle_irq's loop ends when rp is back where the interrupt found it.
LeaveIrq ==
    /\ hpc' = IF hpc \in {"clk", "kbd"} /\ rp' = ret
                 THEN IF hpc = "clk" THEN "mid" ELSE "program"
                 ELSE hpc
    /\ UNCHANGED ret

step_cpu ==
    /\ Stepping
    /\ Defined
    /\ ~Exits
    /\ handle_op
    /\ LeaveIrq
    /\ UNCHANGED <<setup, status, keyboard>>

exit_cpu == Stepping /\ Exits = TRUE /\ Stop("exit")

wild_cpu ==
    /\ Stepping
    /\ (~Defined /\ ~Exits) \/ PortUndefined
    /\ Stop("wild")

\* Faulty: the ISR returns behind the HLT, as a call would.
handle_irq_NextIp(where, isr, stack) ==
    /\ ret' = rp
    /\ mem' = Overwrite(stack, rp, LE(ip + 1, QWORD))
    /\ rp' = rp + QWORD
    /\ ip' = isr
    /\ hpc' = where

\* Push the return address and jump; stack is the memory the address goes to.
handle_irq(where, isr, stack) ==
    /\ ret' = rp
    /\ mem' = Overwrite(stack, rp, LE(ip, QWORD))
    /\ rp' = rp + QWORD
    /\ ip' = isr
    /\ hpc' = where

\* Both tests of handle_io look at the vector's first byte only, and
\* handle_timer takes that byte, not the qword, for the ISR's address.
TimerDue == mem[IRQ_CLK] # 0 /\ Head(events) = IRQ_CLK

handle_timer == handle_irq("clk", mem[IRQ_CLK], mem) /\ UNCHANGED <<sp, halted>>

\* Faulty: kevent hands over every active event and one of them is looked at.
handle_io_DropsOthers ==
    /\ Running /\ hpc = "program" /\ halted
    /\ events # <<>>
    /\ ke' = Head(events)
    /\ events' = <<>>
    /\ IF TimerDue
         THEN Accessible(rp, QWORD) /\ handle_timer
         ELSE hpc' = "mid" /\ UNCHANGED <<machine, ret>>
    /\ UNCHANGED <<setup, status, watched, keyboard, screen, diskVars>>

\* handle_io: read one event, run the timer's ISR ...
handle_io ==
    /\ Running /\ hpc = "program" /\ halted
    /\ events # <<>>
    /\ ke' = Head(events)
    /\ events' = Tail(events)
    /\ IF TimerDue
         THEN Accessible(rp, QWORD) /\ handle_timer
         ELSE hpc' = "mid" /\ UNCHANGED <<machine, ret>>
    /\ UNCHANGED <<setup, status, watched, keyboard, screen, diskVars>>

\* Faulty: the event is not looked at, only the vector.
test_kbd_AnyEvent ==
    /\ Running /\ hpc = "mid"
    /\ hpc' = IF mem[IRQ_KBD] # 0 THEN "read" ELSE "program"
    /\ UNCHANGED <<setup, machine, status, ret, kq, keyboard, screen, diskVars>>

\* ... then test, against what ke holds now, whether a key is due ...
test_kbd ==
    /\ Running /\ hpc = "mid"
    /\ hpc' = IF mem[IRQ_KBD] # 0 /\ ke = TTY_MASTER THEN "read" ELSE "program"
    /\ UNCHANGED <<setup, machine, status, ret, kq, keyboard, screen, diskVars>>

\* ... and if so read one character, blocking, push it and run its ISR.
handle_kbd ==
    /\ Running /\ hpc = "read"
    /\ Unread
    /\ IF nread < Len(typed)
         THEN /\ nread' = nread + 1
              /\ Accessible(sp, 1) /\ Accessible(rp, QWORD)
              /\ LET stack == [mem EXCEPT ![sp] = typed[nread + 1]]
                 IN handle_irq("kbd", Num(Slice(stack, IRQ_KBD, QWORD), QWORD), stack)
              /\ sp' = sp + 1
         ELSE /\ hpc' = "program"
              /\ UNCHANGED <<nread, mem, ip, sp, rp, ret>>
    /\ UNCHANGED <<setup, halted, status, kq, typed, eof, screen, diskVars>>

\* The interrupt finds a stack pointer that points outside the memory.
wild_irq ==
    /\ Running
    /\ \/ /\ hpc = "program" /\ halted /\ events # <<>>
          /\ TimerDue
          /\ ~Accessible(rp, QWORD)
       \/ /\ hpc = "read" /\ nread < Len(typed)
          /\ ~(Accessible(sp, 1) /\ Accessible(rp, QWORD))
    /\ Stop("wild")

\* run_cpu, called for ever by main.
run_cpu ==
    \/ step_cpu \/ exit_cpu \/ wild_cpu
    \/ handle_io \/ test_kbd \/ handle_kbd \/ wild_irq

----------------------------------------------------------------------------
(* The environment *)

machineAndHost == <<setup, machine, status, hpc, ret, ke, watched, nread, screen, diskVars>>

Notify == IF TTY_MASTER \in watched THEN Activate(TTY_MASTER) ELSE UNCHANGED events

type_key ==
    /\ Running /\ ~eof
    /\ Len(typed) < MaxKeys
    /\ \E key \in Keys : typed' = Append(typed, key)
    /\ Notify
    /\ UNCHANGED <<machineAndHost, eof>>

close_tty ==
    /\ Running /\ ~eof
    /\ eof' = TRUE
    /\ Notify
    /\ UNCHANGED <<machineAndHost, typed>>

\* The timer expires; expirations not read yet are one event.
timer_fires ==
    /\ Running
    /\ IRQ_CLK \in watched /\ ~Pending(IRQ_CLK)
    /\ events' = Append(events, IRQ_CLK)
    /\ UNCHANGED <<machineAndHost, typed, eof>>

----------------------------------------------------------------------------
init_cpu ==
    /\ host \in Hosts
    /\ ip = 0 /\ sp = STACK /\ rp = RET_STACK
    /\ halted = FALSE /\ status = "ok"
    /\ hpc = "program" /\ ret = NoLevel
    /\ ke = 0 /\ watched = {} /\ events = <<>>
    /\ typed = <<>> /\ nread = 0 /\ eof = FALSE
    /\ screen = <<>>

\* The file is copied to the start of the zeroed memory.
load_cpu ==
    /\ program \in Programs
    /\ mem = [i \in 0 .. MEMORY_SZ - 1 |->
                IF i < Len(program) THEN program[i + 1] ELSE 0]

\* What main of src/cpu.c does before its loop.
Init == init_cpu /\ init_disk /\ load_cpu

Next == run_cpu \/ type_key \/ close_tty \/ timer_fires

Spec == Init /\ [][Next]_vars

\* main never stops calling run_cpu, and a timer that is set expires again
\* and again.  Nobody has to type.
Fairness == WF_vars(run_cpu) /\ WF_vars(timer_fires)

FairSpec == Spec /\ Fairness

----------------------------------------------------------------------------
ProcessTypeOK ==
    /\ host \in Hosts /\ program \in Programs
    /\ status \in {"ok", "exit", "wild"}
    /\ hpc \in {"program", "clk", "mid", "read", "kbd"}
    /\ ret \in Nat \union {NoLevel}

MachineTypeOK ==
    /\ mem \in [0 .. MEMORY_SZ - 1 -> Byte]
    /\ ip \in Nat /\ sp \in Nat /\ rp \in Nat
    /\ halted \in BOOLEAN

KqTypeOK ==
    /\ ke \in {IRQ_CLK, TTY_MASTER}
    /\ watched \subseteq {IRQ_CLK, TTY_MASTER}
    /\ events \in Seq({IRQ_CLK, TTY_MASTER})

TerminalTypeOK ==
    /\ typed \in Seq(Keys)
    /\ nread \in 0 .. Len(typed)
    /\ eof \in BOOLEAN
    /\ screen \in Seq(Byte)

TypeOK ==
    ProcessTypeOK /\ MachineTypeOK /\ KqTypeOK /\ TerminalTypeOK /\ DiskTypeOK

----------------------------------------------------------------------------
(* Promises to every program *)

\* The invariant behind the interrupt machinery: instructions run either in
\* the program before it halts or inside handle_irq's loop, which they have
\* not finished; between two interrupts rp is where the last one found it.
\* It is what keeps an ISR that returns too often, never, or through a
\* forged address from shifting the return stack under the next interrupt.
IrqDiscipline ==
    /\ ~halted => hpc = "program" /\ ret = NoLevel
    /\ hpc \in {"clk", "kbd"} => ret # NoLevel /\ rp # ret
    /\ hpc \notin {"clk", "kbd"} /\ ret # NoLevel => rp = ret

\* All interrupts are taken at one depth of the return stack (cpu.c:519,526).
ReturnLevel == [][ret # NoLevel => ret' = ret]_vars

\* A HLT inside an ISR is executed for ever: the machine stands still, rp does
\* not come back, no key is taken and no event is served (handle_hlt,
\* handle_irq).
Hung == status = "ok" /\ hpc \in {"clk", "kbd"} /\ ip < MEMORY_SZ /\ Op = HLT
HltIsForEver ==
    [][Hung => Hung' /\ UNCHANGED <<machine, ret, ke, nread, screen, diskVars>>]_vars

\* At every width the arithmetic of the two-operand instructions is that of
\* numbers modulo 256^n, differences below zero included; DIV leaves quotient
\* and remainder whole.  The rest of the memory keeps what it had (memcpy to
\* and from zeroed locals, cpu.c:251-292).
NumberOps == {ADD, SUB, MUL, DIV}
Wraps ==
    Stepping /\ Defined /\ Op \in NumberOps /\ ip' # ip =>
        LET n == Length
            a == Arg(n, n)
            b == Arg(2 * n, n)
            left(d) == Num(Slice(mem', sp' - d, n), n)
        IN /\ Op = ADD => left(n) = (b + a) % RADIX^n
           /\ Op = SUB => left(n) = (b - a) % RADIX^n
           /\ Op = MUL => left(n) = (b * a) % RADIX^n
           /\ Op = DIV => b = a * left(2 * n) + left(n) /\ left(n) < a
           /\ sp' = IF Op = DIV THEN sp ELSE sp - n
           /\ \A i \in DOMAIN mem : i \notin sp - 2 * n .. sp - 1 => mem'[i] = mem[i]
ArithmeticWraps == [][Wraps]_vars

\* There is a return address at this place, rp being the top of their stack.
IsFrame(at) == at + QWORD <= rp /\ (rp - at) % QWORD = 0

\* The next step may write to a return address without being a call or an
\* interrupt: any other instruction, and the key that is pushed for its ISR.
MayWrite == (Stepping /\ ip < MEMORY_SZ /\ Op \notin {CALL, RET}) \/ hpc = "read"

\* The step leaves the return address at this place alone.
Kept(at) == \A i \in at .. at + QWORD - 1 : mem'[i] = mem[i]

\* Calls and interrupts nest: each puts the address it came from on top of the
\* return stack and leaves those below alone, and a return goes to the one on
\* top.  Only other instructions change an address in place, and none of those
\* moves rp (handle_call, handle_ret, handle_irq).
Nests ==
    status' = "ok" =>
        /\ \A at \in 0 .. rp :
              IsFrame(at) => \/ IsFrame(at)' /\ (MayWrite \/ Kept(at))
                             \/ rp' = at /\ ip' = Vector(at)
        /\ rp' > rp => \E at \in 0 .. rp :
              /\ at = rp /\ at + QWORD = rp'
              /\ Vector(at)' = IF Stepping THEN ip + 1 ELSE ip
ReturnsNest == [][Nests]_vars

\* Where the machine goes on after the interrupt it serves.
Resume == IF hpc \in {"clk", "kbd"} THEN Vector(ret) ELSE ip

\* An interrupt is transparent: the machine comes back to where it had halted,
\* however deep an ISR calls and whatever it leaves on the other stack, unless
\* an ISR writes over the return address itself (handle_irq, cpu.c:519-526).
Resumes ==
    halted /\ status' = "ok" =>
        \/ Resume' = Resume
        \/ Stepping /\ MayWrite /\ ~Kept(ret)
ResumesThere == [][Resumes]_vars

\* A key that nobody read is reported: its event waits, or was read and leads to
\* the read of the terminal.
Reported ==
    \/ Pending(TTY_MASTER)
    \/ hpc = "mid" /\ ke = TTY_MASTER
    \/ hpc = "read"
Noticed == TTY_MASTER \in watched /\ nread < Len(typed) => Reported

\* The kqueue reports a burst of keys once, but a key that is the only one
\* unread stays reported until it is read, whatever the clock's ISR and the
\* program do to filters and events in between: only a vector that is zero in
\* its first byte, which handle_io takes for no ISR, loses it (cpu.c:133-145,
\* set_kbd_isr, set_timer_isr).
StaysNoticed ==
    Noticed /\ Len(typed) <= nread + 1 /\ Len(typed') <= nread' + 1 =>
        Noticed' \/ (hpc = "mid" /\ mem[IRQ_KBD] = 0)
LoneKeyNoticed == [][StaysNoticed]_vars

\* The machine implements the abstract promise.
Mode ==
    CASE status # "ok" -> "down"
      [] status = "ok" /\ ~halted -> "program"
      [] status = "ok" /\ halted /\ hpc = "program" -> "idle"
      [] status = "ok" /\ halted /\ hpc # "program" -> "serving"

Abstract == INSTANCE Interrupts WITH
    Key <- Keys, mode <- Mode, level <- ret, taken <- hpc = "kbd"

InterruptPromise == Abstract!Spec

=============================================================================
