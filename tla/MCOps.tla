------------------------------- MODULE MCOps -------------------------------
(***************************************************************************)
(* Every instruction against a reference definition: short programs, the   *)
(* operands at the edges of their width, and the stack each should leave.  *)
(***************************************************************************)
EXTENDS MCPrograms

Halt == InsB(HLT)

\* An operand of either width: n is its size in bytes, 1 or QWORD.
PushN(n, x) == IF n = 1 THEN PushB(x) ELSE Push(x)
InsN(n, op) == IF n = 1 THEN InsB(op) ELSE Ins(op)
Bytes(n, x) == IF n = 1 THEN <<x>> ELSE Qword(x)

Operands(n) == IF n = 1 THEN {0, 1, 2, 127, 255} ELSE {0, 1, 255, 256, 32767}

RECURSIVE Bitwise(_, _, _)
Bitwise(op, x, y) ==
    IF x = 0 /\ y = 0 THEN 0
    ELSE 2 * Bitwise(op, x \div 2, y \div 2)
         + (IF op = AND THEN (x % 2) * (y % 2)
            ELSE (x % 2) + (y % 2) - (x % 2) * (y % 2))

\* What b op a leaves, b having been pushed first: numbers modulo 256^n; for
\* DIV quotient below remainder.
Reference(op, n, b, a) ==
    LET M == 256^n
    IN CASE op = ADD -> Bytes(n, IF b + a < M THEN b + a ELSE b + a - M)
         [] op = SUB -> Bytes(n, IF b < a THEN b + M - a ELSE b - a)
         [] op = MUL -> Bytes(n, (b * a) % M)
         [] op \in {AND, OR} -> Bytes(n, Bitwise(op, b, a))
         [] op = DIV ->
               LET q == CHOOSE q \in 0 .. b : q * a <= b /\ b - q * a < a
               IN Bytes(n, q) \o Bytes(n, b - q * a)

\* A case: a program, and the stack it leaves when it halts; a program that
\* must not halt has a status instead.
Case(image, stack) == [image |-> image, stack |-> stack, status |-> "ok"]
Fault(image, how) == [image |-> image, stack |-> <<>>, status |-> how]

Arithmetic ==
    UNION {{ LET image == PushN(n, b) \o PushN(n, a) \o InsN(n, op) \o Halt
             IN IF op = DIV /\ a = 0 THEN Fault(image, "wild")
                ELSE Case(image, Reference(op, n, b, a))
             : op \in Op2, a \in Operands(n), b \in Operands(n)} : n \in {1, QWORD}}

\* The conditional jumps: 1 is left if the jump was taken, 2 if it was not.
Jumps ==
    UNION {{ LET two == op \in {JE, JNE}
                 here == PushN(n, b) \o (IF two THEN PushN(n, a) ELSE <<>>)
                 rest == InsN(n, op) \o PushB(2) \o Halt
                 target == Len(here) + n + 1 + Len(rest)
                 taken == CASE op = JE -> a = b [] op = JNE -> a # b
                            [] op = JZ -> b = 0 [] op = JNZ -> b # 0
             IN Case(here \o PushN(n, target) \o rest \o PushB(1) \o Halt,
                     IF taken THEN <<1>> ELSE <<2>>)
             : op \in {JE, JNE, JZ, JNZ}, a \in {0, 255}, b \in {0, 255}}
           : n \in {1, QWORD}}

Data == 60    \* an address no program reaches

Memory == {
    \* What STORE keeps below its discarded operand, LOAD finds again.
    Case(Push(Data) \o Push(515) \o Push(9) \o Ins(STORE)
         \o Push(Data) \o Ins(LOAD) \o Halt, Qword(515)),
    Case(Push(Data) \o PushB(77) \o PushB(9) \o InsB(STORE)
         \o Push(Data) \o Ins(LOAD) \o Halt, <<77, 0>>),
    \* SWAP exchanges the top with the eight bytes below it.
    Case(Push(258) \o Push(515) \o Ins(SWAP) \o Halt, Qword(515) \o Qword(258)),
    Case(Push(258) \o PushB(3) \o InsB(SWAP) \o Halt, <<3>> \o Qword(258)),
    \* POP, NOP and an unconditional JMP over an instruction.
    Case(PushB(1) \o PushB(2) \o InsB(POP) \o InsB(NOP) \o Halt, <<1>>),
    Case(PushB(5) \o InsB(JMP) \o PushB(9) \o PushB(4) \o Halt, <<4>>),
    \* DUP leaves the byte that happened to lie above the stack.
    Case(PushB(8) \o PushB(6) \o InsB(POP) \o InsB(DUP) \o Halt, <<8, 6>>),
    \* A call within a call returns behind each of them.
    Case(Push(7) \o Ins(CALL) \o PushB(3) \o Halt
         \o Push(14) \o Ins(CALL) \o PushB(2) \o InsB(RET)
         \o PushB(1) \o InsB(RET), <<1, 2, 3>>) }

\* The MMU takes operands by command, an unknown interrupt none.
Interrupting == {
    Case(PushB(5) \o Push(1) \o Push(2) \o PushB(0) \o Raise(IRQ_MMU) \o Halt, <<5>>),
    Case(PushB(5) \o Push(1) \o PushB(1) \o Raise(IRQ_MMU) \o Halt, <<5>>),
    Case(PushB(5) \o PushB(2) \o Raise(IRQ_MMU) \o Halt, <<5>>),
    Case(PushB(5) \o Raise(IRQ(9)) \o Halt, <<5>>),
    Case(PushB(5) \o PushB(6) \o PushB(1) \o Raise(IRQ(5)) \o Halt, <<5>>),
    \* The disk's answer ends up behind the slot of port 0, as a zero byte.
    Case(Push(IRQ(5)) \o PushB(9) \o PushB(0) \o InsB(STORE)
         \o PushB(DISK_STATUS) \o PushB(1) \o Raise(IRQ_P0)
         \o Push(IRQ(5)) \o InsB(LOAD) \o Halt, <<0>>),
    Case(Push(IRQ(5)) \o PushB(9) \o PushB(0) \o InsB(STORE)
         \o PushB(200) \o PushB(1) \o Raise(IRQ_P0)
         \o Push(IRQ(5)) \o InsB(LOAD) \o Halt, <<9>>),
    Case(PushB(DISK_RD) \o PushB(4) \o PushB(2) \o Raise(IRQ_P0) \o Halt, <<>>),
    Fault(PushB(DISK_SET) \o Push(0) \o PushB(0) \o PushB(4) \o Raise(IRQ_P0) \o Halt, "wild"),
    Fault(PushB(DISK_RD) \o Push(0) \o PushB(0) \o PushB(4) \o Raise(IRQ_P0) \o Halt, "wild"),
    Fault(PushB(DISK_SET) \o Push(3) \o PushB(3) \o Raise(IRQ_P0)
          \o PushB(DISK_WR) \o PushB(1) \o Raise(IRQ_P0) \o Halt, "wild") }

\* Programs that leave the machine: an opcode nobody handles, an operand
\* longer than a qword, and accesses outside the memory of every kind.
Faults == {
    Fault(InsB(31), "exit"),
    Fault(InsD(PUSH) \o Halt, "wild"),
    Fault(Push(MEMORY_SZ) \o Ins(JMP), "wild"),
    Fault(Push(MEMORY_SZ - 1) \o Ins(LOAD) \o Halt, "wild"),
    Fault(Push(MEMORY_SZ) \o PushB(1) \o PushB(1) \o InsB(STORE) \o Halt, "wild"),
    Fault(InsB(POP) \o Push(0) \o Ins(JMP), "wild"),
    Fault(PushB(1) \o Push(0) \o Ins(JMP), "wild"),
    Fault(Push(0) \o Ins(CALL), "wild"),
    Fault(InsB(RET), "wild"),
    Fault(Push(0) \o Ins(JMP), "ok") }

Cases == Arithmetic \union Jumps \union Memory \union Interrupting \union Faults

OpsPrograms == {c.image : c \in Cases}

Finished == status # "ok" \/ halted

\* On a host that does what the machine relies on, a program that finishes
\* has computed what the reference says, no more and no less on its stack, or
\* has failed the way it must.
ComputesReference ==
    Finished /\ host \in SoundHost /\ program \in OpsPrograms =>
        \E c \in Cases :
            /\ c.image = program /\ c.status = status
            /\ status = "ok" =>
                 /\ sp = STACK + Len(c.stack)
                 /\ \A i \in 1 .. Len(c.stack) : mem[STACK + i - 1] = c.stack[i]

=============================================================================
