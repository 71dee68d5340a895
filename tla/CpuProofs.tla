------------------------------ MODULE CpuProofs ------------------------------
(***************************************************************************)
(* Theorems about the machine, for every program, host, disk, size of the  *)
(* memory and of a qword: type correctness, the discipline of interrupts,  *)
(* and the refinement of module Interrupts.                                *)
(***************************************************************************)
EXTENDS Cpu, BytesProofs

----------------------------------------------------------------------------
(* The instruction at ip *)

LEMMA Vectors ==
    ASSUME CpuAssumption, QwordAssumption, NEW n \in 0 .. 8
    PROVE  IRQ(n) \in Nat \ {0} /\ IRQ(n) + QWORD <= MEMORY_SZ
<1>1. n * QWORD \in Nat /\ n * QWORD + QWORD <= 9 * QWORD
  <2>1. n \in {0, 1, 2, 3, 4, 5, 6, 7, 8} /\ QWORD \in Nat
    BY QwordAssumption
  <2>. QED  BY <2>1
<1>. QED  BY <1>1, QwordAssumption DEF IRQ, CpuAssumption, MemoryAssumption

LEMMA InstructionType ==
    ASSUME MachineTypeOK, ip < MEMORY_SZ, CpuAssumption
    PROVE  Op \in Nat /\ Length \in Nat \ {0}
<1>1. mem[ip] \in 0 .. 255
  <2>1. ip \in 0 .. MEMORY_SZ - 1 /\ mem \in [0 .. MEMORY_SZ - 1 -> Byte]
    BY DEF MachineTypeOK, CpuAssumption, MemoryAssumption
  <2>2. mem[ip] \in Byte
    BY <2>1
  <2>. QED  BY <2>2, ByteRange
<1>2. mem[ip] \div 8 \in Nat /\ mem[ip] % 8 \in {0, 1, 2, 3, 4, 5, 6, 7}
  BY <1>1
<1>. QED  BY <1>2 DEF Op, Length

LEMMA OperandType ==
    ASSUME MachineTypeOK, CpuAssumption,
           NEW c \in Nat, Accessible(sp - c, c),
           NEW d \in Nat, d <= c, NEW n \in Nat, n <= d
    PROVE  /\ Block(d, n) \in [0 .. n - 1 -> Byte]
           /\ Arg(d, n) \in Nat
<1>1. MEMORY_SZ \in Nat /\ mem \in [0 .. MEMORY_SZ - 1 -> Byte] /\ sp \in Nat
  BY DEF MachineTypeOK, CpuAssumption, MemoryAssumption
<1>2. sp - d \in Nat /\ (n <= 0 \/ (sp - d) + n <= MEMORY_SZ)
  BY <1>1 DEF Accessible
<1>3. Block(d, n) \in [0 .. n - 1 -> Byte]
  BY <1>1, <1>2, SliceType DEF Block
<1>. QED  BY <1>3, NumType DEF Arg

LEMMA ConsumedBy ==
    /\ Op \in {CALL, JMP, DUP, POP} => Consumed = Length
    /\ Op \in Op2 \union {JZ, JNZ} => Consumed = 2 * Length
    /\ Op \in {JE, JNE} => Consumed = 3 * Length
    /\ Op = LOAD => Consumed = QWORD
    /\ Op = STORE => Consumed = 2 * Length + QWORD
    /\ Op = SWAP => Consumed = Length + QWORD
    /\ Op \in {NOP, HLT, RET, PUSH, INT} => Consumed = 0
BY DEF Consumed, Op2, NOP, HLT, CALL, RET, LOAD, STORE, ADD, SUB, MUL,
         DIV, AND, OR, JMP, JE, JNE, JZ, JNZ, DUP, PUSH, POP, SWAP, INT

\* What a defined instruction takes from the stack is there.
LEMMA DefinedType ==
    ASSUME MachineTypeOK, CpuAssumption, QwordAssumption, Defined
    PROVE  /\ Op \in Op0 \union Op1 \union Op2
           /\ Length \in Nat \ {0}
           /\ Op \notin {NOP, HLT, RET, INT} => Length <= QWORD
           /\ Consumed \in Nat
           /\ sp - Consumed \in Nat
           /\ Accessible(sp - Consumed, Consumed)
<1>1. Op \in Nat /\ Length \in Nat \ {0}
  BY InstructionType DEF Defined
<1>2. Op \in Op0 \union Op1 \union Op2
  BY DEF Defined
<1>3. Consumed \in Nat
  BY <1>1, <1>2, QwordAssumption
     DEF Consumed, Op0, Op1, Op2, NOP, HLT, CALL, RET, LOAD, STORE, ADD, SUB, MUL,
         DIV, AND, OR, JMP, JE, JNE, JZ, JNZ, DUP, PUSH, POP, SWAP, INT
<1>4. Accessible(sp - Consumed, Consumed)
  BY DEF Defined
<1>5. sp - Consumed \in Nat
  BY <1>3, <1>4 DEF Accessible, MachineTypeOK
<1>. QED  BY <1>1, <1>2, <1>3, <1>4, <1>5 DEF Defined

LEMMA DefinedOperandType ==
    ASSUME MachineTypeOK, CpuAssumption, QwordAssumption, Defined,
           NEW d \in Nat, d <= Consumed, NEW n \in Nat, n <= d
    PROVE  /\ Block(d, n) \in [0 .. n - 1 -> Byte]
           /\ Arg(d, n) \in Nat
BY DefinedType, OperandType

----------------------------------------------------------------------------
(* Handlers keep the machine typed *)

Memory == [0 .. MEMORY_SZ - 1 -> Byte]

LEMMA LeaveType ==
    ASSUME MachineTypeOK, CpuAssumption, sp - Consumed \in Nat,
           NEW n \in Nat, NEW block \in [0 .. n - 1 -> Byte], Leave(block, n)
    PROVE  mem' \in Memory /\ sp' \in Nat
<1>1. MEMORY_SZ \in Nat /\ mem \in [0 .. MEMORY_SZ - 1 -> Byte]
  BY DEF MachineTypeOK, CpuAssumption, MemoryAssumption
<1>2. Overwrite(mem, sp - Consumed, block) \in [0 .. MEMORY_SZ - 1 -> Byte]
  BY <1>1 DEF Overwrite
<1>3. mem' \in [0 .. MEMORY_SZ - 1 -> Byte]
  BY <1>2 DEF Leave
<1>4. sp' \in Nat
  BY DEF Leave
<1>. QED  BY <1>3, <1>4 DEF Memory

LEMMA JoinedType ==
    ASSUME NEW n \in Nat, NEW x \in [0 .. n - 1 -> Byte],
           NEW m \in Nat, NEW y \in [0 .. m - 1 -> Byte]
    PROVE  Joined(x, n, y, m) \in [0 .. n + m - 1 -> Byte]
BY DEF Joined

\* A qword written at any address leaves memory of bytes.
LEMMA StoreType ==
    ASSUME MachineTypeOK, CpuAssumption,
           NEW n \in Nat, NEW block \in [0 .. n - 1 -> Byte], NEW at \in Nat
    PROVE  Overwrite(mem, at, block) \in Memory
<1>1. MEMORY_SZ \in Nat /\ mem \in [0 .. MEMORY_SZ - 1 -> Byte]
  BY DEF MachineTypeOK, CpuAssumption, MemoryAssumption
<1>. QED  BY <1>1 DEF Memory, Overwrite

LEMMA VectorType ==
    ASSUME MachineTypeOK, CpuAssumption, QwordAssumption,
           NEW at \in Nat, at + QWORD <= MEMORY_SZ
    PROVE  Vector(at) \in Nat
<1>1. MEMORY_SZ \in Nat /\ mem \in [0 .. MEMORY_SZ - 1 -> Byte] /\ QWORD \in Nat
  BY DEF MachineTypeOK, CpuAssumption, MemoryAssumption, QwordAssumption
<1>2. Slice(mem, at, QWORD) \in [0 .. QWORD - 1 -> Byte]
  BY <1>1, SliceType
<1>. QED  BY <1>1, <1>2, NumType DEF Vector

LEMMA ElsewhereAccessible ==
    ASSUME Defined, NEW at, NEW n, <<at, n>> \in Elsewhere
    PROVE  Accessible(at, n)
<1>1. \A region \in Elsewhere : Accessible(region[1], region[2])
  BY DEF Defined
<1>. QED  BY <1>1

LEMMA CallType ==
    ASSUME MachineTypeOK, CpuAssumption, QwordAssumption, PowerAssumption,
           Defined, handle_call
    PROVE  MachineTypeOK'
<1>1. Op = CALL /\ Consumed = Length
  BY ConsumedBy DEF handle_call
<1>2. Length \in Nat /\ sp - Consumed \in Nat
  BY DefinedType
<1>3. Arg(Length, Length) \in Nat
  <2>1. Length \in Nat /\ Length <= Consumed /\ Length <= Length
    BY <1>1, <1>2
  <2>. QED  BY <2>1, DefinedOperandType
<1>4. ip + 1 \in Nat /\ rp \in Nat /\ QWORD \in Nat
  BY DEF MachineTypeOK, QwordAssumption
<1>5. LE(ip + 1, QWORD) \in [0 .. QWORD - 1 -> Byte]
  <2>1. ip + 1 \in Int /\ QWORD \in 0 .. QWORD
    BY <1>4
  <2>. QED  BY <2>1, LEType
<1>6. mem' \in Memory
  BY <1>4, <1>5, StoreType DEF handle_call
<1>. QED  BY <1>2, <1>3, <1>4, <1>6 DEF handle_call, MachineTypeOK, Memory

LEMMA RetType ==
    ASSUME MachineTypeOK, CpuAssumption, QwordAssumption, Defined, handle_ret
    PROVE  MachineTypeOK'
<1>1. Accessible(rp - QWORD, QWORD)
  <2>1. <<rp - QWORD, QWORD>> \in Elsewhere
    BY DEF Elsewhere, handle_ret, RET, CALL, LOAD, STORE, PUSH
  <2>. QED  BY <2>1, ElsewhereAccessible
<1>2. rp - QWORD \in Nat /\ (rp - QWORD) + QWORD <= MEMORY_SZ
  BY <1>1 DEF Accessible, MachineTypeOK, QwordAssumption
<1>3. Vector(rp - QWORD) \in Nat
  BY <1>2, VectorType
<1>. QED  BY <1>2, <1>3 DEF handle_ret, MachineTypeOK

LEMMA LoadType ==
    ASSUME MachineTypeOK, CpuAssumption, QwordAssumption, Defined, handle_load
    PROVE  MachineTypeOK'
<1>1. Op = LOAD /\ Consumed = QWORD
  BY ConsumedBy DEF handle_load
<1>. DEFINE loc == Arg(QWORD, QWORD)
<1>2. QWORD \in Nat /\ Length \in Nat \ {0} /\ sp - Consumed \in Nat
  BY DefinedType DEF QwordAssumption
<1>3. loc \in Nat
  BY <1>1, <1>2, DefinedOperandType
<1>4. Accessible(loc, Length)
  <2>1. <<loc, Length>> \in Elsewhere
    BY <1>1 DEF Elsewhere, RET, CALL, LOAD, STORE, PUSH
  <2>. QED  BY <2>1, ElsewhereAccessible
<1>5. Slice(mem, loc, Length) \in [0 .. Length - 1 -> Byte]
  BY <1>2, <1>3, <1>4, SliceType DEF Accessible, MachineTypeOK, CpuAssumption, MemoryAssumption
<1>6. Leave(Slice(mem, loc, Length), Length)
  BY DEF handle_load
<1>7. mem' \in Memory /\ sp' \in Nat
  BY <1>2, <1>5, <1>6, LeaveType
<1>. QED  BY <1>7 DEF handle_load, Advance, MachineTypeOK, Memory

LEMMA StoreOpType ==
    ASSUME MachineTypeOK, CpuAssumption, QwordAssumption, Defined, handle_store
    PROVE  MachineTypeOK'
<1>1. Op = STORE /\ Consumed = 2 * Length + QWORD
  BY ConsumedBy DEF handle_store
<1>2. QWORD \in Nat /\ Length \in Nat \ {0} /\ sp - Consumed \in Nat /\ Consumed \in Nat
  BY DefinedType DEF QwordAssumption
<1>3. Arg(Consumed, QWORD) \in Nat
  <2>1. Consumed <= Consumed /\ QWORD <= Consumed
    BY <1>1, <1>2
  <2>. QED  BY <1>2, <2>1, DefinedOperandType
<1>4. Block(2 * Length, Length) \in [0 .. Length - 1 -> Byte]
  <2>1. 2 * Length \in Nat /\ 2 * Length <= Consumed /\ Length <= 2 * Length
    BY <1>1, <1>2
  <2>. QED  BY <1>2, <2>1, DefinedOperandType
<1>5. mem' \in Memory
  BY <1>2, <1>3, <1>4, StoreType DEF handle_store
<1>. QED  BY <1>2, <1>5 DEF handle_store, Advance, MachineTypeOK, Memory

LEMMA Op2Type ==
    ASSUME MachineTypeOK, CpuAssumption, QwordAssumption, PowerAssumption,
           Defined, handle_op2
    PROVE  MachineTypeOK'
<1>. DEFINE a == Arg(Length, Length)
            b == Arg(2 * Length, Length)
            A == Block(Length, Length)
            B == Block(2 * Length, Length)
<1>1. Op \in Op2 /\ Consumed = 2 * Length
  BY ConsumedBy DEF handle_op2, Op2
<1>2. Length \in Nat \ {0} /\ Length <= QWORD /\ sp - Consumed \in Nat
  BY <1>1, DefinedType DEF Op2, ADD, SUB, MUL, DIV, AND, OR, NOP, HLT, RET, INT
<1>3. Length \in 0 .. QWORD /\ 2 * Length \in Nat /\ Length <= 2 * Length
  BY <1>2, QwordAssumption
<1>4. a \in Nat /\ A \in [0 .. Length - 1 -> Byte]
  <2>1. Length \in Nat /\ Length <= Consumed /\ Length <= Length
    BY <1>1, <1>2
  <2>. QED  BY <2>1, DefinedOperandType
<1>5. b \in Nat /\ B \in [0 .. Length - 1 -> Byte]
  <2>1. Length \in Nat /\ 2 * Length <= Consumed
    BY <1>1, <1>2
  <2>. QED  BY <1>3, <2>1, DefinedOperandType
<1>. DEFINE Result == CASE Op = ADD -> LE(b + a, Length)
                        [] Op = SUB -> LE(b - a, Length)
                        [] Op = MUL -> LE(b * a, Length)
                        [] Op = AND -> And(B, A)
                        [] Op = OR  -> Or(B, A)
<1>6. CASE Op # DIV
  <2>1. /\ LE(b + a, Length) \in [0 .. Length - 1 -> Byte]
        /\ LE(b - a, Length) \in [0 .. Length - 1 -> Byte]
        /\ LE(b * a, Length) \in [0 .. Length - 1 -> Byte]
    <3>1. b + a \in Int /\ b - a \in Int /\ b * a \in Int
      BY <1>4, <1>5
    <3>. HIDE DEF a, b
    <3>. QED  BY <1>3, <3>1, LEType
  <2>2. /\ And(B, A) \in [0 .. Length - 1 -> Byte]
        /\ Or(B, A) \in [0 .. Length - 1 -> Byte]
    <3>1. Length \in Int
      BY <1>2
    <3>. HIDE DEF A, B
    <3>. QED  BY <1>4, <1>5, <3>1, AndOrType
  <2>. HIDE DEF a, b, A, B
  <2>3. Result \in [0 .. Length - 1 -> Byte]
    BY <1>1, <1>6, <2>1, <2>2 DEF Op2, ADD, SUB, MUL, DIV, AND, OR
  <2>. USE DEF a, b, A, B
  <2>4. Leave(Result, Length)
    BY <1>6 DEF handle_op2
  <2>. HIDE DEF Result
  <2>5. mem' \in Memory /\ sp' \in Nat
    BY <1>2, <2>3, <2>4, LeaveType
  <2>. QED  BY <2>5 DEF handle_op2, Advance, MachineTypeOK, Memory
<1>7. CASE Op = DIV
  <2>. DEFINE q == LE(b \div a, Length)
              r == LE(b % a, Length)
  <2>1. a # 0
    BY <1>7 DEF Defined
  <2>2. b \div a \in Int /\ b % a \in Int
    <3>. HIDE DEF a, b
    <3>. QED  BY <1>4, <1>5, <2>1
  <2>3. q \in [0 .. Length - 1 -> Byte] /\ r \in [0 .. Length - 1 -> Byte]
    <3>. HIDE DEF a, b
    <3>. QED  BY <1>3, <2>2, LEType
  <2>4. Joined(q, Length, r, Length) \in [0 .. 2 * Length - 1 -> Byte]
    <3>. HIDE DEF q, r
    <3>1. Joined(q, Length, r, Length) \in [0 .. Length + Length - 1 -> Byte]
      <4>1. Length \in Nat
        BY <1>2
      <4>. QED  BY <2>3, <4>1, JoinedType
    <3>2. Length + Length - 1 = 2 * Length - 1
      BY <1>2
    <3>3. 0 .. Length + Length - 1 = 0 .. 2 * Length - 1
      BY <3>2, Zenon
    <3>. QED  BY <3>1, <3>3, Zenon
  <2>5. Leave(Joined(q, Length, r, Length), 2 * Length)
    BY <1>7 DEF handle_op2
  <2>6. mem' \in Memory /\ sp' \in Nat
    BY <1>2, <1>3, <2>4, <2>5, LeaveType
  <2>. QED  BY <2>6 DEF handle_op2, Advance, MachineTypeOK, Memory
<1>. QED  BY <1>6, <1>7

LEMMA JumpType ==
    ASSUME MachineTypeOK, CpuAssumption, QwordAssumption, Defined, handle_jump
    PROVE  MachineTypeOK'
<1>1. Op \in {JMP, JE, JNE, JZ, JNZ}
  BY DEF handle_jump
<1>2. Length \in Nat \ {0} /\ sp - Consumed \in Nat /\ Consumed \in Nat
  BY DefinedType
<1>3. Length <= Consumed
  BY <1>1, <1>2, ConsumedBy
<1>4. Arg(Length, Length) \in Nat
  <2>1. Length \in Nat /\ Length <= Length
    BY <1>2
  <2>. QED  BY <1>3, <2>1, DefinedOperandType
<1>5. ip' \in Nat
  BY <1>4 DEF handle_jump, Jump, MachineTypeOK
<1>. QED  BY <1>2, <1>5 DEF handle_jump, Drop, MachineTypeOK

LEMMA DupType ==
    ASSUME MachineTypeOK, CpuAssumption, QwordAssumption, Defined, handle_dup
    PROVE  MachineTypeOK'
<1>1. Consumed = Length
  BY ConsumedBy DEF handle_dup
<1>2. Length \in Nat \ {0} /\ sp - Consumed \in Nat
  BY DefinedType
<1>3. Block(Length, Length) \in [0 .. Length - 1 -> Byte]
  BY <1>1, <1>2, DefinedOperandType
<1>4. mem' \in Memory
  BY <1>2, <1>3, StoreType DEF handle_dup, Leave
<1>5. sp' \in Nat
  BY <1>2 DEF handle_dup, Leave
<1>. QED  BY <1>4, <1>5 DEF handle_dup, Advance, MachineTypeOK, Memory

LEMMA PushType ==
    ASSUME MachineTypeOK, CpuAssumption, QwordAssumption, Defined, handle_push
    PROVE  MachineTypeOK'
<1>1. Length \in Nat \ {0} /\ sp - Consumed \in Nat
  BY DefinedType
<1>2. Accessible(ip + 1, Length)
  <2>1. <<ip + 1, Length>> \in Elsewhere
    BY DEF Elsewhere, handle_push, RET, CALL, LOAD, STORE, PUSH
  <2>. QED  BY <2>1, ElsewhereAccessible
<1>3. Slice(mem, ip + 1, Length) \in [0 .. Length - 1 -> Byte]
  BY <1>1, <1>2, SliceType DEF Accessible, MachineTypeOK, CpuAssumption, MemoryAssumption
<1>4. Leave(Slice(mem, ip + 1, Length), Length)
  BY DEF handle_push
<1>5. mem' \in Memory /\ sp' \in Nat
  BY <1>1, <1>3, <1>4, LeaveType
<1>. QED  BY <1>1, <1>5 DEF handle_push, MachineTypeOK, Memory

LEMMA SwapType ==
    ASSUME MachineTypeOK, CpuAssumption, QwordAssumption, Defined, handle_swap
    PROVE  MachineTypeOK'
<1>1. Consumed = Length + QWORD
  BY ConsumedBy DEF handle_swap
<1>2. Length \in Nat \ {0} /\ QWORD \in Nat /\ sp - Consumed \in Nat /\ Consumed \in Nat
  BY DefinedType DEF QwordAssumption
<1>3. Block(Length, Length) \in [0 .. Length - 1 -> Byte]
  <2>1. Length \in Nat /\ Length <= Consumed /\ Length <= Length
    BY <1>1, <1>2
  <2>. QED  BY <2>1, DefinedOperandType
<1>4. Block(Length + QWORD, QWORD) \in [0 .. QWORD - 1 -> Byte]
  <2>1. Length + QWORD \in Nat /\ Length + QWORD <= Consumed /\ QWORD <= Length + QWORD
    BY <1>1, <1>2
  <2>. QED  BY <1>2, <2>1, DefinedOperandType
<1>. DEFINE block == Joined(Block(Length, Length), Length, Block(Length + QWORD, QWORD), QWORD)
<1>5. block \in [0 .. Length + QWORD - 1 -> Byte]
  BY <1>2, <1>3, <1>4, JoinedType
<1>6. Leave(block, Length + QWORD)
  BY DEF handle_swap
<1>7. Length + QWORD \in Nat
  BY <1>2
<1>. HIDE DEF block
<1>8. mem' \in Memory /\ sp' \in Nat
  BY <1>2, <1>5, <1>6, <1>7, LeaveType
<1>. QED  BY <1>8 DEF handle_swap, Advance, MachineTypeOK, Memory

=============================================================================
