-------------------------------- MODULE Isa --------------------------------
(***************************************************************************)
(* What the machine and its assembler agree on: the numbers of the         *)
(* instructions, how many operands each is dispatched with, and the slots  *)
(* of the interrupt table (src/lib/cpu/cpu.h).                             *)
(***************************************************************************)
EXTENDS Bytes

CONSTANT IDT    \* address of the interrupt table

NOP   == 0
HLT   == 1
CALL  == 2
RET   == 3
LOAD  == 4
STORE == 5
ADD   == 6
SUB   == 7
MUL   == 8
DIV   == 9
AND   == 10
OR    == 11
JMP   == 12
JE    == 13
JNE   == 14
JZ    == 15
JNZ   == 16
DUP   == 17
PUSH  == 18
POP   == 19
SWAP  == 20
INT   == 21

Op0 == {NOP, HLT, RET, LOAD, PUSH, SWAP, INT}
Op1 == {CALL, STORE, JMP, JE, JNE, JZ, JNZ, DUP, POP}
Op2 == {ADD, SUB, MUL, DIV, AND, OR}

IRQ(n)  == IDT + n * QWORD
IRQ_CLK == IRQ(0)
IRQ_TTY == IRQ(1)
IRQ_KBD == IRQ(2)
IRQ_MMU == IRQ(3)
IRQ_P0  == IRQ(4)
Ports   == {IRQ(4), IRQ(5), IRQ(6), IRQ(7)}

=============================================================================
