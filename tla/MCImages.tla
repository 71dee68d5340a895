------------------------------- MODULE MCImages -------------------------------
(***************************************************************************)
(* Images of programs, written instruction by instruction for the runs     *)
(* that start the machine with them; the assembler's run checks that it    *)
(* makes these images from the sources.  A qword is scaled to two bytes,   *)
(* so size flag 0 is "byte" and size flag 1 is both "word" and "qword".    *)
(***************************************************************************)
EXTENDS Isa, Sequences

Ins(op)   == <<op * 8 + 1>>      \* qword-sized, the assembler's default
InsB(op)  == <<op * 8>>          \* "byte"
InsD(op)  == <<op * 8 + 2>>      \* longer than a qword
Qword(x)  == <<x % 256, x \div 256>>
Push(x)   == Ins(PUSH) \o Qword(x)
PushB(x)  == InsB(PUSH) \o <<x>>
Raise(slot) == Push(slot) \o InsB(INT)

\* write_prologue: call _main, then halt.
Prologue   == Push(5) \o Ins(CALL) \o InsB(HLT)
Image(main) == Prologue \o main

\* data/progs/tests/simple.s: echo every key, do nothing on the clock.
SimpleProgram ==
    LET kbd_isr == 23
        clk_isr == 28
    IN Image(
        Push(kbd_isr) \o Raise(IRQ_KBD)
        \o Push(1000) \o Push(clk_isr) \o Raise(IRQ_CLK)
        \o InsB(RET)
        \o Raise(IRQ_TTY) \o InsB(RET)     \* _kbd_isr
        \o InsB(RET))                    \* _clk_isr

\* A jump over one instruction, as data/progs/tests/io.s and format.s do it.
JumpTarget == 10
JumpProgram ==
    Image(Push(JumpTarget) \o InsB(JMP) \o InsB(NOP) \o InsB(RET))

=============================================================================
