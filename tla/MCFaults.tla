------------------------------ MODULE MCFaults ------------------------------
(***************************************************************************)
(* How the machine ends: the programs of MCOps and MCAnyIsr, and programs  *)
(* that lean on what it takes for granted of the C library, of the kernel  *)
(* and of its two stacks, all of them on every host.                       *)
(***************************************************************************)
EXTENDS MCOps, MCAnyIsr

AnyHost == [opmaps : {"zero", "garbage"}, ports : {"adjacent", "scattered"},
            kqueue : {"works", "fails"}]

\* No instruction with an entry in opmap1 or opmap2.
Plain == PushB(1) \o InsB(NOP) \o InsB(HLT)

\* A message to port 1, which has no peripheral.
ToPort1 == PushB(6) \o PushB(1) \o Raise(IRQ(5)) \o InsB(HLT)

\* An empty message to the disk.
Empty == PushB(0) \o Raise(IRQ_P0) \o InsB(HLT)

\* Watches the keyboard, then moves sp to the end of the memory: DUP goes
\* forward without a write.
RECURSIVE Times(_, _)
Times(n, code) == IF n = 0 THEN <<>> ELSE code \o Times(n - 1, code)

FullStack ==
    Push(3) \o Raise(IRQ_KBD) \o Push(3)
    \o Times((MEMORY_SZ - STACK - QWORD) \div QWORD, Ins(DUP)) \o InsB(HLT)

\* Sets the timer, calls n deep and halts.  The ISR is the RET behind the HLT;
\* Behind(k) is where the program goes on after k calls.
RECURSIVE Nest(_, _)
Nest(from, n) ==
    IF n = 0 THEN InsB(HLT) ELSE Push(from + 4) \o Ins(CALL) \o Nest(from + 4, n - 1)

Behind(k) == 10 + 4 * k
IsrOf(n)  == Behind(n) + 1

DeepCalls(n) ==
    Push(1) \o Push(IsrOf(n)) \o Raise(IRQ_CLK) \o Nest(Behind(0), n) \o InsB(RET)

\* As many calls as fit between the start of the return stack and the end of
\* the memory, and as many as fit below the clock's vector.
Depths     == 0 .. (MEMORY_SZ - RET_STACK) \div QWORD
BelowClock == (IRQ_CLK - RET_STACK) \div QWORD
Deep       == {DeepCalls(n) : n \in Depths}

FaultPrograms == {Plain, ToPort1, Empty, FullStack} \union Deep
AllPrograms   == OpsPrograms \union IsrPrograms \union FaultPrograms

\* The timer is due and the machine waits for it, or its ISR calls ever deeper:
\* the program's own calls, if their return addresses have taken the ISR's
\* place.
AtTheEnd ==
    /\ halted /\ rp = MEMORY_SZ
    /\ \/ hpc = "program" /\ Pending(IRQ_CLK)
       \/ hpc = "clk" /\ \E n \in Depths : program = DeepCalls(n) /\ n > BelowClock

\* A program that is not at fault itself ends only for a reason outside its
\* code: an opmap that was not zero when malloc returned it, ports the heap
\* placed apart, a kqueue that refuses a filter, a command read from an empty
\* message, or a stack at the end of the memory.  In particular a program needs
\* zeroed opmaps from its first one-operand instruction on (cpu.c:36-61,168-175).
FailureExplained ==
    program \in FaultPrograms =>
        /\ status = "exit" => host.kqueue = "fails" /\ program \in Deep \union {FullStack}
        /\ status = "wild" =>
             \/ program = ToPort1 /\ host.ports = "scattered"
             \/ program = Empty
             \/ program \in Deep \union {FullStack} /\ host.opmaps = "garbage" /\ ~halted
             \/ program = FullStack /\ halted /\ sp = MEMORY_SZ /\ typed # <<>>
             \/ program \in Deep /\ AtTheEnd
        /\ halted /\ program \in (Deep \ {DeepCalls(0)}) \union {FullStack}
             => host.opmaps = "zero"

\* The clock's interrupt enters the ISR the program set as long as the open
\* calls leave room below the vector.  With exactly as many calls as fit, the
\* first interrupt puts its own return address over the vector and the next one
\* jumps back to the HLT; with more, a call has done so before (cpu.c:209-210,
\* 519-521,551: neither compares rp with the vectors' place).
EntersItsIsr ==
    [][\A n \in Depths :
         program = DeepCalls(n) /\ hpc = "program" /\ hpc' = "clk" =>
           /\ n < BelowClock => ip' = IsrOf(n)
           /\ n = BelowClock =>
                ip' = IF ret = NoLevel THEN IsrOf(n) ELSE Behind(BelowClock)
           /\ n > BelowClock => ip' = Behind(BelowClock + 1)]_vars

=============================================================================
