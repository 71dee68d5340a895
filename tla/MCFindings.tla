----------------------------- MODULE MCFindings -----------------------------
(***************************************************************************)
(* Programs of the repository, and two of its statements about interrupts, *)
(* that the machine does not live up to.  Each property is checked by a    *)
(* run of its own that is expected to violate it.                          *)
(***************************************************************************)
EXTENDS MCPrograms

\* data/progs/kbd.s without the debug interrupt, which no longer exists.
KbdProgram ==
    LET kbd_isr == 13
        rest == 13 + 1 + 4 + 3 + 3 + 1 + 1
    IN Image(
        Push(kbd_isr) \o Raise(IRQ_KBD) \o InsB(RET)
        \o Ins(DUP) \o Raise(IRQ_TTY)              \* _kbd_isr: echo the char
        \o Push(0) \o Push(rest) \o Ins(JE) \o InsB(RET)
        \o InsB(RET))

\* _run of data/progs/dos/sys/kern.s up to its first STORE, called with an
\* entry point on the stack; the queue is empty, its length a data word.
run_queue == 50
EntryPoint == 321

KernProgram ==
    LET run_queue_len == 13
        _run == 15
    IN Image(
        Push(EntryPoint) \o Push(_run) \o Ins(CALL) \o InsB(RET)
        \o <<0, 0>>                                    \* run_queue_len
        \o Push(run_queue) \o Push(run_queue_len) \o Ins(LOAD)    \* _run
        \o Push(8) \o Ins(MUL) \o Ins(ADD)
        \o Ins(SWAP) \o Ins(STORE)
        \o InsB(RET))

\* A clock ISR above address 255; nothing else is in the program.
FarProgram ==
    LET clk_isr == 260
    IN Image(Push(1) \o Push(clk_isr) \o Raise(IRQ_CLK) \o InsB(RET)
             \o [i \in 1 .. 244 |-> NOP] \o InsB(RET))

\* A clock ISR that sets the keyboard's, as a driver that starts late does.
LateProgram ==
    LET clk_isr == 5 + 10 + 1
        kbd_isr == clk_isr + 8
    IN Image(Push(1) \o Push(clk_isr) \o Raise(IRQ_CLK) \o InsB(RET)
             \o Push(kbd_isr) \o Raise(IRQ_KBD) \o InsB(RET)
             \o InsB(POP) \o InsB(RET))

JumpPrograms == {JumpProgram}
KbdPrograms  == {KbdProgram}
KernPrograms == {KernProgram}
FarPrograms  == {FarProgram}
LatePrograms == {LateProgram}

\* kbd.s:10 "; echo the char": the first character the program prints is the
\* first key.  It is a byte DUP left uninitialised.
FirstKeyEchoed == screen # <<>> => typed # <<>> /\ screen[1] = typed[1]

\* kern.s:62 "; store the entry point": once _run has stored it, the first
\* element of the run queue is the entry point.  STORE drops it and uses the
\* queue's address as the value.
EntryQueued == halted => Vector(run_queue) = EntryPoint

\* cpu.c:550 "timer, jumping to %016llx": the clock's ISR starts at the
\* address the vector holds.  The jump goes to the vector's low byte.
TimerJumpsToIsr ==
    [][hpc = "program" /\ hpc' = "clk" => ip' = Vector(IRQ_CLK)]_vars

\* README:20-23: a clock event has the clock's ISR handled, and a key is
\* pushed when there is a keyboard event.  A filter the clock's ISR sets is
\* taken for the event that was read, and the machine waits for a key.
NoReadWithoutKey == hpc = "read" => Unread

\* tests/io.s:49-50 "push _loop", "jmp" (and tests/format.s:39-40): a jump goes
\* to the label pushed before it.  It is assembled one byte wide, takes the
\* high byte of the address, and starts the program again.
JumpReachesLabel ==
    [][status = "ok" /\ ~halted /\ Op = JMP => ip' = JumpTarget]_vars

=============================================================================
