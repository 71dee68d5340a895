----------------------------- MODULE SasmProofs -----------------------------
(***************************************************************************)
(* The types of the assembler's state, and the references it records while *)
(* it parses, for every source, every heap and every size of the image and *)
(* of a qword.                                                             *)
(***************************************************************************)
EXTENDS Sasm, BytesProofs, FiniteSetTheorems, WellFoundedInduction

Entry == [name : STRING, value : Nat, addr : Nat, len : Nat,
          data : Seq(Byte) \union {NULL}, refs : Seq([addr : Nat, len : Width])]

\* NULL is no sequence of bytes.
LEMMA NullIs == NULL \notin Seq(Byte)
<1>1. PICK x : x = <<RADIX>> /\ x = NULL
  BY DEF NULL
<1>2. 1 \in DOMAIN x /\ x[1] = RADIX /\ RADIX \notin Byte
  BY <1>1 DEF Byte, RADIX
<1>3. \A y \in Seq(Byte) : \A i \in DOMAIN y : y[i] \in Byte
  OBVIOUS
<1>. QED  BY <1>1, <1>2, <1>3

\* What is copied for an entry without contents is its value, at most a qword
\* of it.
Variable == {v \in Entry : v.data = NULL => v.len \in 0 .. QWORD}

LEMMA WidthType == \A w \in Width : w \in {1, 2, 4, 8} /\ w \in 0 .. QWORD /\ w \in Nat
BY QwordAssumption DEF Width

LEMMA OpcodeType ==
    ASSUME NEW o \in Instruction, NEW w \in {1, 2, 4, 8}
    PROVE  Opcode(o, w) \in Byte /\ Opcode(o, w) \div 8 = o
<1>1. o \in 0 .. 21
  BY DEF Instruction, Op0, Op1, Op2, NOP, HLT, CALL, RET, LOAD, STORE, ADD, SUB, MUL, DIV,
         AND, OR, JMP, JE, JNE, JZ, JNZ, DUP, PUSH, POP, SWAP, INT
<1>2. PICK f \in 0 .. 3 : f = opflags(w)
  BY DEF opflags
<1>3. o * 8 + f \in 0 .. 255
  BY <1>1
<1>4. (o * 8 + f) \div 8 = o
  BY <1>1
<1>. QED  BY <1>2, <1>3, <1>4 DEF Opcode, Byte, RADIX

\* Which statement a kind is, and what its parts are.
LEMMA StatementType ==
    ASSUME NEW s \in Statement
    PROVE  /\ s.kind \notin {"op", "error", "pusht"} => s.name \in STRING
           /\ s.kind = "data" => s.value \in Nat /\ s.len \in Width
           /\ s.kind = "data_str" => s.text \in Seq(Byte)
           /\ s.kind = "equ" => s.value \in Nat
           /\ s.kind = "equrel" => s.of \in STRING
           /\ s.kind = "res" => s.count \in Nat /\ s.len \in Width
           /\ s.kind = "pusht" => s.value \in Nat /\ s.len \in Width
           /\ s.kind = "pushtv" => s.len \in Width
           /\ s.kind = "op" => s.op \in Instruction /\ s.len \in Width
<1>1. s.kind = "data_str" => s.text \in Seq(Byte \ {0})
  BY DEF Statement
<1>2. \A t \in Seq(Byte \ {0}) : t \in Seq(Byte)
  OBVIOUS
<1>. QED  BY <1>1, <1>2 DEF Statement

----------------------------------------------------------------------------
(* Sums *)

\* A set of numbers below a bound has a least one: the subsets of an interval
\* are well founded, so an induction over its numbers can be made by looking at
\* the least counterexample.
LEMMA Minimum ==
    ASSUME NEW n \in Nat, NEW T \in SUBSET (0 .. n), T # {}
    PROVE  \E x \in T : \A y \in T : x <= y
<1> DEFINE X == {0 .. k : k \in T}
           R == StrictSubsetOrdering(0 .. n)
<1>1. IsFiniteSet(0 .. n)
  BY FS_Interval
<1>2. FiniteSubsetsOf(0 .. n) = SUBSET (0 .. n)
  BY <1>1, FS_FiniteSubsetsOfFinite
<1>3. IsWellFoundedOn(R, SUBSET (0 .. n))
  BY <1>2, FS_StrictSubsetOrderingWellFounded
<1>4. X \subseteq SUBSET (0 .. n) /\ X # {}
  <2>1. \A k \in T : 0 .. k \subseteq 0 .. n
    OBVIOUS
  <2>. QED  BY <2>1
<1>5. PICK x \in X : \A y \in X : ~ (<<y, x>> \in R)
  <2>. HIDE DEF X, R
  <2>. QED BY <1>3, <1>4, WFMin
<1>6. PICK k \in T : x = 0 .. k
  OBVIOUS
<1>7. ASSUME NEW m \in T, m < k PROVE FALSE
  <2>1. 0 .. m \in X /\ <<0 .. m, 0 .. k>> \notin R
    BY <1>5, <1>6
  <2>2. 0 .. m \subseteq 0 .. k /\ 0 .. m # 0 .. k
    BY <1>7
  <2>3. 0 .. m \in SUBSET (0 .. n) /\ 0 .. k \in SUBSET (0 .. n)
    BY <1>7
  <2>. QED BY <2>1, <2>2, <2>3 DEF StrictSubsetOrdering
<1>. QED BY <1>6, <1>7

\* A length added to the one before, starting from a base: the function so
\* defined exists.
LEMMA Sums ==
    ASSUME NEW n \in Nat, NEW base \in Nat, NEW len \in [1 .. n -> Nat]
    PROVE  \E f \in [0 .. n -> Nat] :
              f = [k \in 0 .. n |-> IF k = 0 THEN base ELSE f[k - 1] + len[k]]
<1> DEFINE Is(f, m) == /\ f \in [0 .. m -> Nat] /\ f[0] = base
                       /\ \A k \in 1 .. m : f[k] = f[k - 1] + len[k]
           Bad == {m \in 0 .. n : ~ \E f : Is(f, m)}
<1>1. SUFFICES ASSUME Bad # {} PROVE FALSE
  <2>1. n \notin Bad /\ n \in 0 .. n
    <3>1. Bad = {}
      BY <1>1
    <3>. HIDE DEF Bad
    <3>. QED  BY <3>1
  <2>2. PICK f : Is(f, n)
    <3>. HIDE DEF Is
    <3>. QED  BY <2>1
  <2>3. f = [k \in 0 .. n |-> IF k = 0 THEN base ELSE f[k - 1] + len[k]]
    BY <2>2
  <2>. QED BY <2>2, <2>3
<1>2. PICK m \in Bad : \A k \in Bad : m <= k
  BY <1>1, Minimum
<1>3. CASE m = 0
  <2> DEFINE g == [k \in 0 .. 0 |-> base]
  <2>1. Is(g, 0)
    OBVIOUS
  <2>. QED BY <2>1, <1>3, <1>2
<1>4. CASE m # 0
  <2>1. m \in 0 .. n
    OBVIOUS
  <2>2. m \in 1 .. n /\ m - 1 \in 0 .. n /\ ~(m <= m - 1)
    BY <2>1, <1>4
  <2>3. m - 1 \notin Bad
    <3>. HIDE DEF Bad
    <3>. QED  BY <1>2, <2>2
  <2>4. PICK f : Is(f, m - 1)
    <3>. HIDE DEF Is
    <3>. QED  BY <2>2, <2>3
  <2> DEFINE g == [k \in 0 .. m |-> IF k = m THEN f[m - 1] + len[m] ELSE f[k]]
  <2>5. f[m - 1] \in Nat /\ len[m] \in Nat
    BY <2>2, <2>4
  <2>6. g \in [0 .. m -> Nat] /\ g[0] = base
    BY <2>2, <2>4, <2>5
  <2>7. ASSUME NEW k \in 1 .. m PROVE g[k] = g[k - 1] + len[k]
    <3>1. k \in 0 .. m /\ k - 1 \in 0 .. m /\ k - 1 # m
      BY <2>2
    <3>2. CASE k = m
      BY <3>1, <3>2
    <3>3. CASE k # m
      <4>1. k \in 1 .. m - 1
        BY <2>2, <3>3
      <4>2. f[k] = f[k - 1] + len[k]
        BY <4>1, <2>4
      <4>. QED  BY <3>1, <3>3, <4>2
    <3>. QED  BY <3>2, <3>3
  <2>8. Is(g, m)
    BY <2>6, <2>7
  <2>. QED
    <3>. HIDE DEF Is, g
    <3>. QED  BY <2>8, <1>2
<1>. QED BY <1>3, <1>4

\* Whatever satisfies that definition counts in natural numbers.
LEMMA SumType ==
    ASSUME NEW n \in Nat, NEW base \in Nat, NEW len \in [1 .. n -> Nat], NEW f,
           f = [k \in 0 .. n |-> IF k = 0 THEN base ELSE f[k - 1] + len[k]]
    PROVE  f \in [0 .. n -> Nat]
<1> DEFINE Bad == {k \in 0 .. n : f[k] \notin Nat}
<1>1. SUFFICES ASSUME Bad # {} PROVE FALSE
  OBVIOUS
<1>2. PICK k \in Bad : \A m \in Bad : k <= m
  BY <1>1, Minimum
<1>3. k \in 0 .. n /\ f[k] \notin Nat
  OBVIOUS
<1>4. f[k] = IF k = 0 THEN base ELSE f[k - 1] + len[k]
  BY <1>3
<1>5. k \in 1 .. n /\ k - 1 \in 0 .. n /\ ~(k <= k - 1)
  BY <1>3, <1>4
<1>6. f[k - 1] \in Nat
  BY <1>2, <1>5
<1>. QED  BY <1>3, <1>4, <1>5, <1>6

\* Such a sum never falls.
LEMMA Increasing ==
    ASSUME NEW n \in Nat, NEW f \in [0 .. n -> Nat], \A k \in 1 .. n : f[k - 1] <= f[k],
           NEW i \in 0 .. n, NEW j \in i .. n
    PROVE  f[i] <= f[j]
<1> DEFINE Bad == {k \in 0 .. n : i <= k /\ ~(f[i] <= f[k])}
<1>1. SUFFICES ASSUME Bad # {} PROVE FALSE
  <2>1. j \in 0 .. n /\ i <= j
    OBVIOUS
  <2>. QED  BY <2>1
<1>2. PICK k \in Bad : \A m \in Bad : k <= m
  BY <1>1, Minimum
<1>3. k \in 0 .. n /\ i <= k /\ ~(f[i] <= f[k]) /\ f[i] \in Nat /\ k # i
  OBVIOUS
<1>4. k \in 1 .. n /\ k - 1 \in 0 .. n /\ i <= k - 1 /\ ~(k <= k - 1)
  BY <1>3
<1>5. f[i] <= f[k - 1]
  BY <1>2, <1>4
<1>6. f[k - 1] <= f[k] /\ f[k - 1] \in Nat /\ f[k] \in Nat
  BY <1>4
<1>. QED  BY <1>3, <1>5, <1>6

----------------------------------------------------------------------------
(* The table *)

Table == variables \in Seq(Variable)

LEMMA PlaceType ==
    ASSUME Table, NEW name \in STRING
    PROVE  /\ find_variable(name) \in 0 .. Len(variables)
           /\ find_or_create_variable(name) \in Seq(Variable)
           /\ Place(name) \in DOMAIN find_or_create_variable(name)
           /\ DOMAIN variables \subseteq DOMAIN find_or_create_variable(name)
           /\ \A i \in DOMAIN variables : find_or_create_variable(name)[i] = variables[i]
           /\ \A i \in DOMAIN find_or_create_variable(name) :
                 i \in DOMAIN variables \/ find_or_create_variable(name)[i].refs = <<>>
<1>1. find_variable(name) \in 0 .. Len(variables)
  BY DEF Table, find_variable, Places
<1>2. New(name) \in Variable /\ New(name).refs = <<>>
  BY QwordAssumption DEF New, Variable, Entry
<1>. QED
  BY <1>1, <1>2 DEF Table, find_or_create_variable, Place, Known

\* A name's entry changed to another entry leaves a table.
LEMMA TableType ==
    ASSUME Table, NEW name \in STRING, NEW var \in Variable
    PROVE  [find_or_create_variable(name) EXCEPT ![Place(name)] = var] \in Seq(Variable)
BY PlaceType

\* What an instruction of the assembler needs to know of a place in the table.
LEMMA EntryType ==
    ASSUME Table, NEW name \in STRING
    PROVE  find_or_create_variable(name)[Place(name)] \in Variable
BY PlaceType

----------------------------------------------------------------------------
(* Sequences *)

LEMMA AppendIs ==
    ASSUME NEW S, NEW s \in Seq(S), NEW e \in S
    PROVE  /\ Append(s, e) \in Seq(S) /\ Len(s) \in Nat /\ Len(s) + 1 \in Nat
           /\ Len(Append(s, e)) = Len(s) + 1
           /\ DOMAIN s = 1 .. Len(s) /\ DOMAIN Append(s, e) = 1 .. Len(s) + 1
           /\ \A i \in DOMAIN s : Append(s, e)[i] = s[i]
           /\ Append(s, e)[Len(s) + 1] = e
OBVIOUS

----------------------------------------------------------------------------
(* What is emitted *)

LEMMA OverwriteType ==
    ASSUME prog \in [0 .. CAPACITY - 1 -> Byte], NEW at \in Nat, NEW n \in Nat,
           NEW block \in [0 .. n - 1 -> Byte]
    PROVE  /\ Overwrite(prog, at, block) \in [0 .. CAPACITY - 1 -> Byte]
           /\ \A a \in 0 .. CAPACITY - 1 : a < at => Overwrite(prog, at, block)[a] = prog[a]
           /\ n > 0 /\ at < CAPACITY => Overwrite(prog, at, block)[at] = block[0]
<1>1. \A i \in 0 .. CAPACITY - 1 :
         (IF i - at \in DOMAIN block THEN block[i - at] ELSE prog[i]) \in Byte
  OBVIOUS
<1>. QED  BY <1>1, SasmAssumption DEF Overwrite

LEMMA WithOperandType ==
    ASSUME NEW o \in Instruction, NEW value \in Nat, NEW w \in Width
    PROVE  /\ WithOperand(o, value, w) \in [0 .. w -> Byte]
           /\ WithOperand(o, value, w)[0] = Opcode(o, w)
<1>1. w \in {1, 2, 4, 8} /\ w \in 0 .. QWORD /\ w \in Nat
  BY WidthType
<1>2. Opcode(o, w) \in Byte
  BY <1>1, OpcodeType
<1>3. LE(value, w) \in [0 .. w - 1 -> Byte]
  <2>1. value \in Int /\ w \in 0 .. QWORD
    BY <1>1
  <2>. QED  BY <2>1, LEType
<1>. QED  BY <1>1, <1>2, <1>3 DEF WithOperand

----------------------------------------------------------------------------
(* The invariant *)

\* The types of everything that one step changes.
Types ==
    /\ source \in Sources /\ host \in Hosts
    /\ text \in Seq(Statement) /\ files \in Seq(STRING)
    /\ phase \in {"parse", "data", "main"}
    /\ status \in {"ok", "done", "exit", "wild"}
    /\ prog \in [0 .. CAPACITY - 1 -> Byte]
    /\ ip \in Nat /\ prog_len \in Nat /\ variables_sz \in Nat
    /\ Table

\* A reference is to a whole operand of a push that has been emitted.
InCode(q) ==
    /\ Cells(q) \subseteq PROLOGUE .. ip - 1
    /\ ref(q).addr - 1 \in 0 .. CAPACITY - 1 /\ ref(q).addr - 1 < ip
    /\ DecodedOp(ref(q).addr - 1) = PUSH

Apart ==
    \A q \in Refs : InCode(q) /\ \A r \in Refs : r # q => Cells(q) \intersect Cells(r) = {}

\* Until the data are written; an access outside the program ends the process
\* between the entry of a reference and its push.
Parsing ==
    phase # "main" => Types /\ PROLOGUE <= ip /\ (status # "wild" => Apart)

LEMMA RefsMembers ==
    /\ \A q \in Refs : q = <<q[1], q[2]>> /\ q[1] \in DOMAIN variables
                       /\ q[2] \in DOMAIN variables[q[1]].refs
    /\ \A i \in DOMAIN variables : \A r \in DOMAIN variables[i].refs : <<i, r>> \in Refs
BY DEF Refs

LEMMA ElementType ==
    ASSUME NEW S, NEW s \in Seq(S), NEW i \in DOMAIN s
    PROVE  s[i] \in S
OBVIOUS

LEMMA RefType ==
    ASSUME Table, NEW q \in Refs
    PROVE  ref(q).addr \in Nat /\ ref(q).len \in Width
<1>1. q[1] \in DOMAIN variables /\ q[2] \in DOMAIN variables[q[1]].refs
  BY RefsMembers
<1>2. variables[q[1]] \in Variable
  BY <1>1 DEF Table
<1>3. variables[q[1]].refs \in Seq([addr : Nat, len : Width])
  BY <1>2 DEF Variable, Entry
<1>4. variables[q[1]].refs[q[2]] \in [addr : Nat, len : Width]
  BY <1>1, <1>3, ElementType
<1>. QED  BY <1>4 DEF ref

\* What a step must leave alone for the references to stay apart.
SameRefs ==
    \A i \in DOMAIN variables' :
        \/ i \in DOMAIN variables /\ variables'[i].refs = variables[i].refs
        \/ variables'[i].refs = <<>>

LEMMA LongerRange ==
    \A a, b, c \in Int : b <= c => a .. b - 1 \subseteq a .. c - 1
OBVIOUS

LEMMA KeepsApart ==
    ASSUME Types, Apart, SameRefs, ip' \in Nat, ip <= ip',
           \A a \in 0 .. CAPACITY - 1 : a < ip => prog'[a] = prog[a]
    PROVE  Apart'
<1>1. ASSUME NEW q \in Refs'
      PROVE  q \in Refs /\ ref(q)' = ref(q)
  <2>1. q = <<q[1], q[2]>> /\ q[1] \in DOMAIN variables' /\ q[2] \in DOMAIN variables'[q[1]].refs
    BY <1>1 DEF Refs
  <2>2. q[1] \in DOMAIN variables /\ variables'[q[1]].refs = variables[q[1]].refs
    BY <2>1 DEF SameRefs
  <2>. QED  BY <2>1, <2>2, RefsMembers DEF ref
<1>2. ASSUME NEW q \in Refs'
      PROVE  InCode(q)'
  <2>1. q \in Refs /\ ref(q)' = ref(q) /\ InCode(q)
    BY <1>1 DEF Apart
  <2>2. DecodedOp(ref(q).addr - 1) = prog[ref(q).addr - 1] \div 8
    BY DEF DecodedOp
  <2>3. prog'[ref(q).addr - 1] = prog[ref(q).addr - 1]
    BY <2>1 DEF InCode
  <2>4. PROLOGUE .. ip - 1 \subseteq PROLOGUE .. ip' - 1
    <3>1. ip \in Nat /\ PROLOGUE \in Nat
      BY QwordAssumption DEF Types, PROLOGUE
    <3>2. ip \in Int /\ PROLOGUE \in Int /\ ip' \in Int /\ ip <= ip'
      BY <3>1
    <3>. QED  BY <3>2, LongerRange
  <2>5. ref(q).addr \in Nat
    BY <2>1, RefType DEF Types
  <2>. QED  BY <2>1, <2>2, <2>3, <2>4, <2>5 DEF InCode, Cells, DecodedOp, Types
<1>3. ASSUME NEW q \in Refs', NEW r \in Refs', r # q
      PROVE  Cells(q)' \intersect Cells(r)' = {}
  BY <1>1, <1>3 DEF Apart, Cells
<1>. QED  BY <1>2, <1>3 DEF Apart

\* A step that changes the entry of a name, and not its references.
LEMMA Redefined ==
    ASSUME Table, NEW name \in STRING, NEW var \in Variable,
           var.refs = find_or_create_variable(name)[Place(name)].refs,
           variables' = [find_or_create_variable(name) EXCEPT ![Place(name)] = var]
    PROVE  Table' /\ SameRefs
<1>1. Table'
  BY TableType DEF Table
<1>2. \A i \in DOMAIN variables' :
         i \in DOMAIN find_or_create_variable(name)
         /\ variables'[i].refs = find_or_create_variable(name)[i].refs
  BY PlaceType
<1>. QED  BY <1>1, <1>2, PlaceType DEF SameRefs

LEMMA DefineVariable ==
    ASSUME Types, NEW name \in STRING, NEW value \in Nat, NEW len \in Width,
           define_variable(name, value, len)
    PROVE  Table' /\ SameRefs /\ variables_sz' \in Nat
<1> DEFINE old == find_or_create_variable(name)[Place(name)]
           new == [old EXCEPT !.value = value, !.len = len]
<1>1. old \in Variable
  BY EntryType DEF Types
<1>2. new \in Variable /\ new.refs = old.refs
  BY <1>1, WidthType DEF Variable, Entry
<1>3. variables' = [find_or_create_variable(name) EXCEPT ![Place(name)] = new]
  BY PlaceType DEF define_variable, Types
<1>4. variables_sz' \in Nat
  BY DEF define_variable, new_variable, Types
<1>. QED  BY <1>2, <1>3, <1>4, Redefined DEF Types

LEMMA DefineData ==
    ASSUME Types, NEW name \in STRING, NEW contents \in Seq(Byte),
           define_data(name, contents)
    PROVE  Table' /\ SameRefs /\ variables_sz' \in Nat
<1> DEFINE old == find_or_create_variable(name)[Place(name)]
           new == [old EXCEPT !.len = Len(contents), !.data = contents]
<1>1. old \in Variable
  BY EntryType DEF Types
<1>2. new \in Variable /\ new.refs = old.refs
  <2>1. Len(contents) \in Nat /\ contents # NULL
    BY NullIs
  <2>2. new \in Entry /\ new.refs = old.refs /\ new.data = contents /\ new.len = Len(contents)
    BY <1>1, <2>1 DEF Variable, Entry
  <2>. HIDE DEF new
  <2>. QED  BY <2>1, <2>2 DEF Variable
<1>3. variables' = [find_or_create_variable(name) EXCEPT ![Place(name)] = new]
  BY PlaceType DEF define_data, Types
<1>4. variables_sz' \in Nat
  BY DEF define_data, new_variable, Types
<1>. QED  BY <1>2, <1>3, <1>4, Redefined DEF Types

LEMMA DefineConstant ==
    ASSUME Types, NEW name \in STRING, NEW addr \in Nat, NEW value \in Nat,
           define_constant(name, addr, value)
    PROVE  Table' /\ SameRefs /\ variables_sz' \in Nat
<1> DEFINE old == find_or_create_variable(name)[Place(name)]
           new == [old EXCEPT !.addr = IF Known(name) THEN ip ELSE addr, !.value = value]
<1>1. old \in Variable
  BY EntryType DEF Types
<1>2. new \in Variable /\ new.refs = old.refs
  BY <1>1 DEF Variable, Entry, Types
<1>3. variables' = [find_or_create_variable(name) EXCEPT ![Place(name)] = new]
  BY PlaceType DEF define_constant, Types
<1>4. variables_sz' \in Nat
  BY DEF define_constant, new_variable, Types
<1>. QED  BY <1>2, <1>3, <1>4, Redefined DEF Types

LEMMA DefineLabel ==
    ASSUME Types, NEW name \in STRING, define_label(name)
    PROVE  Table' /\ SameRefs /\ variables_sz' \in Nat
<1> DEFINE old == find_or_create_variable(name)[Place(name)]
           new == [old EXCEPT !.addr = ip]
<1>1. old \in Variable
  BY EntryType DEF Types
<1>2. new \in Variable /\ new.refs = old.refs
  BY <1>1 DEF Variable, Entry, Types
<1>3. variables' = [find_or_create_variable(name) EXCEPT ![Place(name)] = new]
  BY PlaceType DEF define_label, Types
<1>4. variables_sz' \in Nat
  BY DEF define_label, new_variable, Types
<1>. QED  BY <1>2, <1>3, <1>4, Redefined DEF Types

----------------------------------------------------------------------------
(* A step that emits *)

LEMMA EmitType ==
    ASSUME Types, NEW n \in Nat \ {0}, NEW block \in [0 .. n - 1 -> Byte], emit(block, n)
    PROVE  /\ prog' \in [0 .. CAPACITY - 1 -> Byte] /\ ip' \in Nat /\ ip <= ip'
           /\ status' \in {"ok", "done", "exit", "wild"}
           /\ \A a \in 0 .. CAPACITY - 1 : a < ip => prog'[a] = prog[a]
           /\ status' # "wild" =>
                 ip' = ip + n /\ ip \in 0 .. CAPACITY - 1 /\ prog'[ip] = block[0]
<1>1. CASE ip + n <= CAPACITY
  <2>1. prog' = Overwrite(prog, ip, block) /\ ip' = ip + n /\ status' = status
    BY <1>1 DEF emit
  <2>2. ip \in 0 .. CAPACITY - 1 /\ ip \in Nat /\ n \in Nat
    BY <1>1, SasmAssumption DEF Types
  <2>3. prog \in [0 .. CAPACITY - 1 -> Byte]
    BY DEF Types
  <2>4. n > 0 /\ ip < CAPACITY /\ ip <= ip + n /\ ip + n \in Nat
    BY <2>2, SasmAssumption
  <2>5. /\ prog' \in [0 .. CAPACITY - 1 -> Byte]
        /\ \A a \in 0 .. CAPACITY - 1 : a < ip => prog'[a] = prog[a]
        /\ prog'[ip] = block[0]
    BY <2>1, <2>2, <2>3, <2>4, OverwriteType
  <2>6. status' \in {"ok", "done", "exit", "wild"}
    BY <2>1 DEF Types
  <2>. QED  BY <2>1, <2>2, <2>4, <2>5, <2>6
<1>2. CASE ~(ip + n <= CAPACITY)
  BY <1>2 DEF emit, Types
<1>. QED  BY <1>1, <1>2

LEMMA Push0 ==
    ASSUME Types, NEW o \in Instruction, NEW w \in {1, 2, 4, 8}, push0(o, w)
    PROVE  /\ prog' \in [0 .. CAPACITY - 1 -> Byte] /\ ip' \in Nat /\ ip <= ip'
           /\ status' \in {"ok", "done", "exit", "wild"}
           /\ \A a \in 0 .. CAPACITY - 1 : a < ip => prog'[a] = prog[a]
<1>1. [i \in {0} |-> Opcode(o, w)] \in [0 .. 1 - 1 -> Byte]
  BY OpcodeType
<1>2. emit([i \in {0} |-> Opcode(o, w)], 1)
  BY DEF push0
<1>3. 1 \in Nat \ {0}
  OBVIOUS
<1>. QED  BY <1>1, <1>2, <1>3, EmitType

LEMMA Push1 ==
    ASSUME Types, NEW o \in Instruction, NEW value \in Nat, NEW w \in Width,
           push1(o, value, w)
    PROVE  /\ prog' \in [0 .. CAPACITY - 1 -> Byte] /\ ip' \in Nat /\ ip <= ip'
           /\ status' \in {"ok", "done", "exit", "wild"}
           /\ \A a \in 0 .. CAPACITY - 1 : a < ip => prog'[a] = prog[a]
           /\ status' # "wild" =>
                 ip' = ip + 1 + w /\ ip \in 0 .. CAPACITY - 1 /\ prog'[ip] \div 8 = o
<1>1. w \in Nat /\ 1 + w \in Nat \ {0} /\ (1 + w) - 1 = w
  BY WidthType
<1>2. WithOperand(o, value, w) \in [0 .. (1 + w) - 1 -> Byte]
  BY <1>1, WithOperandType
<1>3. WithOperand(o, value, w)[0] \div 8 = o
  BY WithOperandType, WidthType, OpcodeType
<1>4. emit(WithOperand(o, value, w), 1 + w)
  BY DEF push1
<1>5. ip + (1 + w) = ip + 1 + w
  BY <1>1 DEF Types
<1>. QED  BY <1>1, <1>2, <1>3, <1>4, <1>5, EmitType

\* A reference more: the entry of its name has it behind the others.
LEMMA AddRef ==
    ASSUME Types, NEW name \in STRING, NEW w \in Width,
           add_variable_ref(name, ip + 1, w)
    PROVE  /\ Table' /\ variables_sz' \in Nat
           /\ \E new : \A q \in Refs' :
                 \/ q \in Refs /\ ref(q)' = ref(q)
                 \/ q = new /\ ref(q)' = [addr |-> ip + 1, len |-> w]
<1> DEFINE F == find_or_create_variable(name)
           P == Place(name)
           r == [addr |-> ip + 1, len |-> w]
           var == [F[P] EXCEPT !.refs = Append(F[P].refs, r)]
<1>1. F[P] \in Variable /\ F[P].refs \in Seq([addr : Nat, len : Width])
  BY EntryType DEF Types, Variable, Entry
<1>2. r \in [addr : Nat, len : Width]
  BY DEF Types
<1>3. /\ Append(F[P].refs, r) \in Seq([addr : Nat, len : Width])
      /\ DOMAIN Append(F[P].refs, r) = 1 .. Len(F[P].refs) + 1
      /\ DOMAIN F[P].refs = 1 .. Len(F[P].refs) /\ Len(F[P].refs) \in Nat
      /\ \A i \in 1 .. Len(F[P].refs) : Append(F[P].refs, r)[i] = F[P].refs[i]
      /\ Append(F[P].refs, r)[Len(F[P].refs) + 1] = r
  <2>. HIDE DEF F, P, r
  <2>. QED  BY <1>1, <1>2
<1>4. var \in Variable /\ var.refs = Append(F[P].refs, r)
  BY <1>1, <1>3 DEF Variable, Entry
<1>5. variables' = [F EXCEPT ![P] = var]
  BY PlaceType DEF add_variable_ref, Types
<1>6. Table'
  BY <1>4, <1>5, TableType DEF Types, Table
<1>7. variables_sz' \in Nat
  BY DEF add_variable_ref, new_variable, Types
<1>8. ASSUME NEW q \in Refs'
      PROVE  \/ q \in Refs /\ ref(q)' = ref(q)
             \/ q = <<P, Len(F[P].refs) + 1>> /\ ref(q)' = r
  <2>1. q = <<q[1], q[2]>> /\ q[1] \in DOMAIN variables' /\ q[2] \in DOMAIN variables'[q[1]].refs
    BY DEF Refs
  <2>2. q[1] \in DOMAIN F /\ ref(q)' = variables'[q[1]].refs[q[2]]
    BY <2>1, <1>5 DEF ref
  <2>3. ASSUME q[2] \in DOMAIN F[q[1]].refs, ref(q)' = F[q[1]].refs[q[2]]
        PROVE  q \in Refs /\ ref(q)' = ref(q)
    <3>1. q[1] \in DOMAIN variables /\ F[q[1]] = variables[q[1]]
      BY <2>2, <2>3, PlaceType DEF Types
    <3>. QED  BY <2>1, <2>3, <3>1, RefsMembers DEF ref
  <2>4. CASE q[1] # P
    BY <2>1, <2>2, <2>3, <2>4, <1>5
  <2>5. CASE q[1] = P
    <3>1. variables'[P].refs = Append(F[P].refs, r)
      BY <2>2, <2>5, <1>4, <1>5
    <3>2. CASE q[2] = Len(F[P].refs) + 1
      BY <2>1, <2>2, <2>5, <3>1, <3>2, <1>3
    <3>3. CASE q[2] # Len(F[P].refs) + 1
      <4>1. q[2] \in 1 .. Len(F[P].refs)
        BY <2>1, <2>5, <3>1, <3>3, <1>3
      <4>. QED  BY <4>1, <2>2, <2>3, <2>5, <3>1, <1>3
    <3>. QED  BY <3>2, <3>3
  <2>. QED  BY <2>4, <2>5
<1>9. \E new : \A q \in Refs' :
         \/ q \in Refs /\ ref(q)' = ref(q)
         \/ q = new /\ ref(q)' = r
  <2>. HIDE DEF r
  <2>. WITNESS <<P, Len(F[P].refs) + 1>>
  <2>. QED  BY <1>8
<1>. QED  BY <1>6, <1>7, <1>9

\* The push that is emitted for it follows what has been emitted before.
LEMMA AddedApart ==
    ASSUME Types, PROLOGUE <= ip, Apart, NEW name \in STRING, NEW w \in Width,
           add_variable_ref(name, ip + 1, w),
           ip' = ip + 1 + w, ip \in 0 .. CAPACITY - 1, prog'[ip] \div 8 = PUSH,
           \A a \in 0 .. CAPACITY - 1 : a < ip => prog'[a] = prog[a]
    PROVE  Apart'
<1> DEFINE r == [addr |-> ip + 1, len |-> w]
<1>1. PICK new : \A q \in Refs' :
         \/ q \in Refs /\ ref(q)' = ref(q)
         \/ q = new /\ ref(q)' = r
  BY AddRef
<1>2. ip \in Nat /\ PROLOGUE \in Nat /\ w \in Nat /\ w >= 1
  BY QwordAssumption, WidthType DEF Types, PROLOGUE
<1>3. \A q \in Refs : ref(q).addr \in Nat /\ ref(q).len \in Nat
  BY RefType, WidthType DEF Types
<1>4. \A q \in Refs : Cells(q) \subseteq PROLOGUE .. ip - 1
  BY DEF Apart, InCode
<1>5. ASSUME NEW q \in Refs', q \in Refs, ref(q)' = ref(q)
      PROVE  InCode(q)' /\ Cells(q)' = Cells(q)
  <2>1. Cells(q)' = Cells(q)
    BY <1>5 DEF Cells
  <2>2. PROLOGUE .. ip - 1 \subseteq PROLOGUE .. ip' - 1
    <3>1. PROLOGUE \in Int /\ ip \in Int /\ ip' \in Int /\ ip <= ip'
      BY <1>2
    <3>. QED  BY <3>1, LongerRange
  <2>3. InCode(q)
    BY <1>5 DEF Apart
  <2>4. prog'[ref(q).addr - 1] = prog[ref(q).addr - 1]
    BY <2>3 DEF InCode
  <2>5. ref(q).addr - 1 < ip'
    BY <1>2, <1>3, <1>5, <2>3 DEF InCode
  <2>. QED  BY <1>5, <2>1, <2>2, <2>3, <2>4, <2>5 DEF InCode, DecodedOp
<1>6. ASSUME NEW q \in Refs', ref(q)' = r
      PROVE  InCode(q)' /\ Cells(q)' = ip + 1 .. ip + w
  <2>1. ref(q)'.addr = ip + 1 /\ ref(q)'.len = w /\ (ip + 1) + w - 1 = ip + w
        /\ (ip + 1) - 1 = ip
    BY <1>2, <1>6
  <2>2. Cells(q)' = ip + 1 .. ip + w
    BY <2>1 DEF Cells
  <2>3. ip + 1 .. ip + w \subseteq PROLOGUE .. ip' - 1
    BY <1>2
  <2>4. ip < ip'
    BY <1>2
  <2>. QED  BY <2>1, <2>2, <2>3, <2>4 DEF InCode, DecodedOp
<1>7. \A q \in Refs : Cells(q) \intersect (ip + 1 .. ip + w) = {}
  BY <1>2, <1>4
<1>8. ASSUME NEW q \in Refs', NEW p \in Refs', p # q
      PROVE  Cells(q)' \intersect Cells(p)' = {}
  <2>1. CASE q \in Refs /\ ref(q)' = ref(q) /\ p \in Refs /\ ref(p)' = ref(p)
    BY <1>5, <1>8, <2>1 DEF Apart
  <2>2. CASE q \in Refs /\ ref(q)' = ref(q) /\ ref(p)' = r
    BY <1>5, <1>6, <1>7, <2>2
  <2>3. CASE ref(q)' = r /\ p \in Refs /\ ref(p)' = ref(p)
    BY <1>5, <1>6, <1>7, <2>3
  <2>. QED  BY <1>1, <1>8, <2>1, <2>2, <2>3
<1>. QED  BY <1>1, <1>5, <1>6, <1>8 DEF Apart

----------------------------------------------------------------------------
(* The steps *)

LEMMA ReadsType ==
    ASSUME Parsing, NEW kind, Reads(kind)
    PROVE  /\ Types /\ Apart /\ PROLOGUE <= ip
           /\ stmt \in Statement /\ stmt.kind = kind
           /\ source' \in Sources /\ host' \in Hosts /\ text' \in Seq(Statement)
           /\ phase' \in {"parse", "data", "main"} /\ prog_len' \in Nat
<1>1. Types /\ Apart /\ PROLOGUE <= ip
  BY DEF Parsing, Reads
<1>2. stmt \in Statement /\ text' \in Seq(Statement)
  BY <1>1 DEF Types, Reads, stmt
<1>. QED  BY <1>1, <1>2 DEF Reads, Types

\* A statement that changes the table at most.
LEMMA DefinesStep ==
    ASSUME Parsing, NEW kind, Defines(kind), Table', SameRefs, variables_sz' \in Nat
    PROVE  Parsing'
<1>1. Reads(kind) /\ UNCHANGED <<files, status, prog, ip>>
  BY DEF Defines
<1>2. /\ Types /\ Apart /\ PROLOGUE <= ip
      /\ source' \in Sources /\ host' \in Hosts /\ text' \in Seq(Statement)
      /\ phase' \in {"parse", "data", "main"} /\ prog_len' \in Nat
  BY <1>1, ReadsType
<1>3. Types' /\ ip' \in Nat /\ ip <= ip'
  BY <1>1, <1>2 DEF Types
<1>4. Apart'
  BY <1>1, <1>2, <1>3, KeepsApart
<1>. QED  BY <1>1, <1>2, <1>3, <1>4 DEF Parsing

\* A statement that emits something at most.
LEMMA EmitsStep ==
    ASSUME Parsing, NEW kind, Reads(kind), UNCHANGED table,
           files' \in Seq(STRING), status' \in {"ok", "done", "exit", "wild"},
           prog' \in [0 .. CAPACITY - 1 -> Byte], ip' \in Nat, ip <= ip',
           \A a \in 0 .. CAPACITY - 1 : a < ip => prog'[a] = prog[a]
    PROVE  Parsing'
<1>1. /\ Types /\ Apart /\ PROLOGUE <= ip
      /\ source' \in Sources /\ host' \in Hosts /\ text' \in Seq(Statement)
      /\ phase' \in {"parse", "data", "main"} /\ prog_len' \in Nat
  BY ReadsType
<1>2. Table' /\ variables_sz' \in Nat /\ SameRefs
  BY <1>1 DEF table, Types, Table, SameRefs
<1>3. Types'
  BY <1>1, <1>2 DEF Types
<1>4. Apart'
  BY <1>1, <1>2, KeepsApart
<1>5. PROLOGUE <= ip'
  BY <1>1, QwordAssumption DEF PROLOGUE, Types
<1>. QED  BY <1>3, <1>4, <1>5 DEF Parsing

LEMMA DefinitionSteps ==
    ASSUME Parsing, lbl_def \/ data \/ data_str \/ equ \/ equrel \/ res
    PROVE  Parsing'
<1>1. CASE lbl_def
  <2>1. Defines("lbl_def") /\ Reads("lbl_def") /\ define_label(stmt.name)
    BY <1>1 DEF lbl_def, Defines
  <2>2. Types /\ stmt.name \in STRING
    BY <2>1, ReadsType, StatementType
  <2>. QED  BY <2>1, <2>2, DefineLabel, DefinesStep
<1>2. CASE data
  <2>1. Defines("data") /\ Reads("data") /\ define_variable(stmt.name, stmt.value, stmt.len)
    BY <1>2 DEF data, Defines
  <2>2. Types /\ stmt.name \in STRING /\ stmt.value \in Nat /\ stmt.len \in Width
    BY <2>1, ReadsType, StatementType
  <2>. QED  BY <2>1, <2>2, DefineVariable, DefinesStep
<1>3. CASE data_str
  <2>1. Defines("data_str") /\ Reads("data_str") /\ define_data(stmt.name, stmt.text)
    BY <1>3 DEF data_str, Defines
  <2>2. Types /\ stmt.name \in STRING /\ stmt.text \in Seq(Byte)
    BY <2>1, ReadsType, StatementType
  <2>. QED  BY <2>1, <2>2, DefineData, DefinesStep
<1>4. CASE equ
  <2>1. Defines("equ") /\ Reads("equ") /\ define_constant(stmt.name, stmt.value, stmt.value)
    BY <1>4 DEF equ, Defines
  <2>2. Types /\ stmt.name \in STRING /\ stmt.value \in Nat
    BY <2>1, ReadsType, StatementType
  <2>. QED  BY <2>1, <2>2, DefineConstant, DefinesStep
<1>5. CASE equrel
  <2>1. Reads("equrel")
    BY <1>5 DEF equrel
  <2>2. Types /\ stmt.name \in STRING /\ stmt.of \in STRING
    BY <2>1, ReadsType, StatementType
  <2>3. CASE /\ Known(stmt.of)
             /\ define_constant(stmt.name, 0, variables[find_variable(stmt.of)].len)
             /\ UNCHANGED <<files, status, prog, ip>>
    <3>1. Defines("equrel")
      BY <2>1, <2>3 DEF Defines
    <3>2. find_variable(stmt.of) \in DOMAIN variables
      <4>1. find_variable(stmt.of) \in 0 .. Len(variables) /\ find_variable(stmt.of) # 0
        BY <2>2, <2>3, PlaceType DEF Types, Known
      <4>2. Len(variables) \in Nat /\ DOMAIN variables = 1 .. Len(variables)
        BY <2>2 DEF Types, Table
      <4>. QED  BY <4>1, <4>2
    <3>3. variables[find_variable(stmt.of)].len \in Nat
      <4>1. variables[find_variable(stmt.of)] \in Variable
        BY <2>2, <3>2, ElementType DEF Types, Table
      <4>. QED  BY <4>1 DEF Variable, Entry
    <3>. QED  BY <2>2, <2>3, <3>1, <3>3, DefineConstant, DefinesStep
  <2>4. CASE status' = "wild" /\ UNCHANGED <<files, prog, ip, table>>
    BY <2>1, <2>2, <2>4, EmitsStep DEF Types
  <2>. QED  BY <1>5, <2>3, <2>4 DEF equrel
<1>6. CASE res
  <2>1. Defines("res") /\ Reads("res")
        /\ define_data(stmt.name, [i \in 1 .. stmt.count * stmt.len |-> 0])
    BY <1>6 DEF res, Defines
  <2>2. Types /\ stmt.name \in STRING /\ stmt.count \in Nat /\ stmt.len \in Nat
    BY <2>1, ReadsType, StatementType, WidthType
  <2>3. stmt.count * stmt.len \in Nat
    BY <2>2
  <2>4. \A n \in Nat : [i \in 1 .. n |-> 0] \in Seq(Byte)
    BY ByteRange
  <2>. QED  BY <2>1, <2>2, <2>3, <2>4, DefineData, DefinesStep
<1>. QED  BY <1>1, <1>2, <1>3, <1>4, <1>5, <1>6

LEMMA EmittingSteps ==
    ASSUME Parsing, include \/ pusht \/ pushtv \/ op \/ yyerror
    PROVE  Parsing'
<1>1. CASE include
  <2>1. Reads("include") /\ files' = Append(files, stmt.name)
        /\ UNCHANGED <<status, prog, ip, table>>
    BY <1>1 DEF include
  <2>2. Types /\ stmt.name \in STRING
    BY <2>1, ReadsType, StatementType
  <2>3. files' \in Seq(STRING)
    BY <2>1, <2>2 DEF Types
  <2>. QED  BY <2>1, <2>2, <2>3, EmitsStep DEF Types
<1>2. CASE pusht
  <2>1. Reads("pusht") /\ push1(PUSH, stmt.value, stmt.len) /\ UNCHANGED <<files, table>>
    BY <1>2 DEF pusht
  <2>2. Types /\ stmt.value \in Nat /\ stmt.len \in Width
    BY <2>1, ReadsType, StatementType
  <2>3. PUSH \in Instruction
    BY DEF Instruction, Op0
  <2>4. files' \in Seq(STRING)
    BY <2>1, <2>2 DEF Types
  <2>. QED  BY <2>1, <2>2, <2>3, <2>4, Push1, EmitsStep
<1>3. CASE pushtv
  <2>1. Reads("pushtv") /\ files' = files
    BY <1>3 DEF pushtv
  <2>2. /\ Types /\ Apart /\ PROLOGUE <= ip /\ stmt.name \in STRING /\ stmt.len \in Width
        /\ source' \in Sources /\ host' \in Hosts /\ text' \in Seq(Statement)
        /\ phase' \in {"parse", "data", "main"} /\ prog_len' \in Nat
    BY <2>1, ReadsType, StatementType
  <2>3. CASE status' = "wild" /\ UNCHANGED <<prog, ip, table>>
    BY <2>1, <2>2, <2>3, EmitsStep DEF Types
  <2>4. CASE /\ add_variable_ref(stmt.name, ip + 1, stmt.len)
             /\ push1(PUSH, find_or_create_variable(stmt.name)[Place(stmt.name)].addr, stmt.len)
    <3>1. find_or_create_variable(stmt.name)[Place(stmt.name)].addr \in Nat
      BY <2>2, EntryType DEF Types, Variable, Entry
    <3>2. PUSH \in Instruction
      BY DEF Instruction, Op0
    <3>3. /\ prog' \in [0 .. CAPACITY - 1 -> Byte] /\ ip' \in Nat /\ ip <= ip'
          /\ status' \in {"ok", "done", "exit", "wild"}
          /\ \A a \in 0 .. CAPACITY - 1 : a < ip => prog'[a] = prog[a]
          /\ status' # "wild" =>
                ip' = ip + 1 + stmt.len /\ ip \in 0 .. CAPACITY - 1 /\ prog'[ip] \div 8 = PUSH
      BY <2>2, <2>4, <3>1, <3>2, Push1
    <3>4. Table' /\ variables_sz' \in Nat
      BY <2>2, <2>4, AddRef
    <3>5. Types'
      BY <2>1, <2>2, <3>3, <3>4 DEF Types
    <3>6. status' # "wild" => Apart'
      BY <2>2, <2>4, <3>3, AddedApart
    <3>7. PROLOGUE <= ip'
      BY <2>2, <3>3, QwordAssumption DEF PROLOGUE, Types
    <3>. QED  BY <3>5, <3>6, <3>7 DEF Parsing
  <2>. QED  BY <1>3, <2>3, <2>4 DEF pushtv
<1>4. CASE op
  <2>1. Reads("op") /\ UNCHANGED <<files, table>>
    BY <1>4 DEF op
  <2>2. Types /\ stmt.op \in Instruction /\ stmt.len \in {1, 2, 4, 8}
    BY <2>1, ReadsType, StatementType, WidthType
  <2>3. PICK w \in {1, 2, 4, 8} : push0(stmt.op, w)
    BY <1>4, <2>2, SasmAssumption DEF op
  <2>4. files' \in Seq(STRING)
    BY <2>1, <2>2 DEF Types
  <2>. QED  BY <2>1, <2>2, <2>3, <2>4, Push0, EmitsStep
<1>5. CASE yyerror
  <2>1. Reads("error") /\ status' = "exit" /\ UNCHANGED <<files, prog, ip, table>>
    BY <1>5 DEF yyerror
  <2>2. Types
    BY <2>1, ReadsType
  <2>. QED  BY <2>1, <2>2, EmitsStep DEF Types
<1>. QED  BY <1>1, <1>2, <1>3, <1>4, <1>5

\* The stages between the statements and behind them emit nothing.
LEMMA StageSteps ==
    ASSUME Parsing, yywrap \/ yyaccept \/ write_data \/ write_prologue
    PROVE  Parsing'
<1>1. CASE yywrap
  <2>1. /\ status = "ok" /\ phase = "parse" /\ files # <<>>
        /\ UNCHANGED <<source, host, phase, prog, ip, prog_len, table>>
    BY <1>1 DEF yywrap
  <2>2. Types /\ Apart /\ PROLOGUE <= ip
    BY <2>1 DEF Parsing
  <2>3. text' \in Seq(Statement)
    BY <1>1, <2>2, SasmAssumption DEF yywrap, Types
  <2>4. files' \in Seq(STRING)
    <3>1. files' = <<>> \/ files' = Tail(files)
      BY <1>1 DEF yywrap
    <3>2. \A S : \A s \in Seq(S) : <<>> \in Seq(S) /\ (s # <<>> => Tail(s) \in Seq(S))
      OBVIOUS
    <3>3. files \in Seq(STRING)
      BY <2>2 DEF Types
    <3>. QED  BY <2>1, <3>1, <3>2, <3>3
  <2>5. status' \in {"ok", "done", "exit", "wild"}
    BY <1>1, <2>2 DEF yywrap, Types
  <2>6. Types' /\ SameRefs
    BY <2>1, <2>2, <2>3, <2>4, <2>5 DEF Types, Table, table, SameRefs
  <2>7. Apart'
    BY <2>1, <2>2, <2>6, KeepsApart DEF Types
  <2>. QED  BY <2>1, <2>2, <2>6, <2>7 DEF Parsing
<1>2. CASE yyaccept
  <2>1. /\ status = "ok" /\ phase = "parse" /\ phase' = "data"
        /\ UNCHANGED <<source, host, text, files, status, prog, ip, prog_len, table>>
    BY <1>2 DEF yyaccept
  <2>2. Types /\ Apart /\ PROLOGUE <= ip
    BY <2>1 DEF Parsing
  <2>3. Types' /\ SameRefs
    BY <2>1, <2>2 DEF Types, Table, table, SameRefs
  <2>4. Apart'
    BY <2>1, <2>2, <2>3, KeepsApart DEF Types
  <2>. QED  BY <2>1, <2>2, <2>3, <2>4 DEF Parsing
<1>3. CASE write_data
  <2>1. phase = "data" /\ UNCHANGED <<source, host, text, files, variables_sz>>
    BY <1>3 DEF write_data
  <2>2. CASE status' = "wild" /\ UNCHANGED <<phase, prog, ip, prog_len, variables>>
    <3>1. Types /\ PROLOGUE <= ip
      BY <2>1 DEF Parsing
    <3>2. Types'
      BY <2>1, <2>2, <3>1 DEF Types, Table
    <3>. QED  BY <2>2, <3>1, <3>2 DEF Parsing
  <2>3. CASE phase' = "main"
    BY <2>3 DEF Parsing
  <2>. QED  BY <1>3, <2>2, <2>3 DEF write_data
<1>4. CASE write_prologue
  BY <1>4 DEF write_prologue, Parsing
<1>. QED  BY <1>1, <1>2, <1>3, <1>4

----------------------------------------------------------------------------
(* Writing the data *)

\* Where the data end is what its recursive definition says.
LEMMA DataEndIs ==
    ASSUME Table, ip \in Nat
    PROVE  /\ DataEnd \in [0 .. Len(variables) -> Nat]
           /\ DataEnd = [k \in 0 .. Len(variables) |->
                           IF k = 0 THEN ip ELSE DataEnd[k - 1] + variables[k].len]
<1> DEFINE len == [k \in 1 .. Len(variables) |-> variables[k].len]
           G(f) == [k \in 0 .. Len(variables) |->
                      IF k = 0 THEN ip ELSE f[k - 1] + variables[k].len]
<1>1. Len(variables) \in Nat /\ len \in [1 .. Len(variables) -> Nat]
  <2>1. \A k \in DOMAIN variables : variables[k] \in Variable
    BY DEF Table
  <2>2. \A v \in Variable : v.len \in Nat
    BY DEF Variable, Entry
  <2>. QED  BY <2>1, <2>2 DEF Table
<1>2. PICK n \in Nat : n = Len(variables)
  BY <1>1, Zenon
<1>3. PICK f \in [0 .. Len(variables) -> Nat] :
         f = [k \in 0 .. Len(variables) |-> IF k = 0 THEN ip ELSE f[k - 1] + len[k]]
  <2>1. n \in Nat /\ ip \in Nat /\ len \in [1 .. n -> Nat]
    BY <1>1, <1>2, Zenon
  <2>2. \E f \in [0 .. n -> Nat] :
           f = [k \in 0 .. n |-> IF k = 0 THEN ip ELSE f[k - 1] + len[k]]
    <3>. HIDE DEF len
    <3>. QED  BY <2>1, Sums
  <2>. HIDE DEF len
  <2>. QED  BY <1>2, <2>2, Zenon
<1>4. f = G(f)
  <2>1. \A k \in 1 .. Len(variables) : len[k] = variables[k].len
    OBVIOUS
  <2>2. ASSUME NEW k \in 0 .. Len(variables)
        PROVE  (IF k = 0 THEN ip ELSE f[k - 1] + len[k])
                  = (IF k = 0 THEN ip ELSE f[k - 1] + variables[k].len)
    <3>1. k # 0 => k \in 1 .. Len(variables)
      BY <1>1
    <3>. HIDE DEF len
    <3>. QED  BY <2>1, <3>1
  <2>. HIDE DEF len
  <2>. QED  BY <1>3, <2>2
<1>5. DataEnd = CHOOSE g : g = G(g)
  BY DEF DataEnd
<1>6. DataEnd = G(DataEnd)
  <2>. HIDE DEF G
  <2>. QED  BY <1>4, <1>5
<1>7. DataEnd = [k \in 0 .. n |-> IF k = 0 THEN ip ELSE DataEnd[k - 1] + len[k]]
  <2>1. \A k \in 1 .. n : len[k] = variables[k].len
    BY <1>2
  <2>2. ASSUME NEW k \in 0 .. n
        PROVE  (IF k = 0 THEN ip ELSE DataEnd[k - 1] + len[k])
                  = (IF k = 0 THEN ip ELSE DataEnd[k - 1] + variables[k].len)
    <3>1. k # 0 => k \in 1 .. n
      BY <1>2
    <3>. HIDE DEF len
    <3>. QED  BY <2>1, <3>1
  <2>3. DataEnd = [k \in 0 .. n |-> IF k = 0 THEN ip ELSE DataEnd[k - 1] + variables[k].len]
    BY <1>6, <1>2, Zenon
  <2>. HIDE DEF len
  <2>. QED  BY <2>2, <2>3
<1>8. DataEnd \in [0 .. n -> Nat]
  <2>1. len \in [1 .. n -> Nat]
    BY <1>1, <1>2
  <2>. HIDE DEF len
  <2>2. ASSUME NEW g, g = [k \in 0 .. n |-> IF k = 0 THEN ip ELSE g[k - 1] + len[k]]
        PROVE  g \in [0 .. n -> Nat]
    BY <2>1, <2>2, SumType, ZenonT(30)
  <2>. QED  BY <1>7, <2>2, Zenon
<1>. QED  BY <1>6, <1>2, <1>8, Zenon

\* Each datum lies behind the one before, from the end of the code on.
LEMMA DataEndSteps ==
    ASSUME Types
    PROVE  /\ Len(variables) \in Nat /\ DOMAIN variables = 1 .. Len(variables)
           /\ DataEnd \in [0 .. Len(variables) -> Nat] /\ DataEnd[0] = ip
           /\ \A k \in DOMAIN variables :
                 /\ variables[k] \in Variable /\ variables[k].len \in Nat
                 /\ DataEnd[k] = DataEnd[k - 1] + variables[k].len
           /\ \A i \in 0 .. Len(variables) : \A j \in i .. Len(variables) :
                 DataEnd[i] <= DataEnd[j]
<1>1. Len(variables) \in Nat /\ DOMAIN variables = 1 .. Len(variables)
      /\ \A k \in DOMAIN variables : variables[k] \in Variable /\ variables[k].len \in Nat
  <2>1. \A k \in DOMAIN variables : variables[k] \in Variable
    BY DEF Types, Table
  <2>2. \A v \in Variable : v.len \in Nat
    BY DEF Variable, Entry
  <2>. QED  BY <2>1, <2>2 DEF Types, Table
<1>2. /\ DataEnd \in [0 .. Len(variables) -> Nat]
      /\ DataEnd = [k \in 0 .. Len(variables) |->
                      IF k = 0 THEN ip ELSE DataEnd[k - 1] + variables[k].len]
  BY DataEndIs DEF Types
<1>3. DataEnd[0] = ip /\ \A k \in 1 .. Len(variables) :
         DataEnd[k] = DataEnd[k - 1] + variables[k].len
  <2>. HIDE DEF DataEnd
  <2>. QED  BY <1>1, <1>2
<1>4. ASSUME NEW k \in 1 .. Len(variables) PROVE DataEnd[k - 1] <= DataEnd[k]
  <2>1. k - 1 \in 0 .. Len(variables)
    BY <1>1
  <2>2. DataEnd[k - 1] \in Nat
    BY <1>2, <2>1, Zenon
  <2>3. variables[k].len \in Nat
    BY <1>1, Zenon
  <2>4. DataEnd[k] = DataEnd[k - 1] + variables[k].len
    BY <1>3, Zenon
  <2>5. \A p, q, l : p \in Nat /\ l \in Nat /\ q = p + l => p <= q
    OBVIOUS
  <2>. QED  BY <2>2, <2>3, <2>4, <2>5, Zenon
<1>5. \A i \in 0 .. Len(variables) : \A j \in i .. Len(variables) : DataEnd[i] <= DataEnd[j]
  BY <1>1, <1>2, <1>4, Increasing
<1>. QED  BY <1>1, <1>2, <1>3, <1>5

\* What is copied for an entry is bytes, where its contents are as long as that.
LEMMA ContentsType ==
    ASSUME NEW var \in Variable, var.data # NULL => var.len <= Len(var.data),
           NEW x \in 0 .. var.len - 1
    PROVE  Contents(var)[x] \in Byte
<1>1. var.value \in Nat /\ var.len \in Nat /\ (var.data # NULL => var.data \in Seq(Byte))
  BY DEF Variable, Entry
<1>2. CASE var.data = NULL
  <2>1. var.len \in 0 .. QWORD /\ var.value \in Int
    BY <1>1, <1>2 DEF Variable
  <2>2. LE(var.value, var.len) \in [0 .. var.len - 1 -> Byte]
    BY <2>1, LEType
  <2>. QED  BY <1>2, <2>2 DEF Contents
<1>3. CASE var.data # NULL
  <2>1. x + 1 \in DOMAIN var.data
    BY <1>1, <1>3
  <2>2. var.data[x + 1] \in Byte
    BY <1>1, <1>3, <2>1, ElementType
  <2>. QED  BY <1>3, <2>2 DEF Contents
<1>. QED  BY <1>2, <1>3

LEMMA FcnIsSeq ==
    ASSUME NEW S, NEW n \in Nat, NEW f \in [1 .. n -> S]
    PROVE  f \in Seq(S)
OBVIOUS

\* Placing the data changes addresses only, and only those of data.
LEMMA PlacedType ==
    ASSUME Types
    PROVE  /\ Placed \in Seq(Variable) /\ DOMAIN Placed = DOMAIN variables
           /\ \A k \in DOMAIN variables :
                 Placed[k] = IF variables[k].len > 0
                             THEN [variables[k] EXCEPT !.addr = DataEnd[k - 1]]
                             ELSE variables[k]
<1>1. PICK n \in Nat : DOMAIN variables = 1 .. n /\ DataEnd \in [0 .. n -> Nat]
  BY DataEndSteps
<1>2. \A k \in 1 .. n : variables[k] \in Variable
  BY <1>1, DataEndSteps
<1>. HIDE DEF DataEnd
<1>3. Placed = [k \in 1 .. n |->
                  IF variables[k].len > 0
                  THEN [variables[k] EXCEPT !.addr = DataEnd[k - 1]] ELSE variables[k]]
  BY <1>1 DEF Placed
<1>4. ASSUME NEW k \in 1 .. n PROVE Placed[k] \in Variable
  <2>1. k - 1 \in 0 .. n
    OBVIOUS
  <2>2. DataEnd[k - 1] \in Nat
    BY <1>1, <2>1
  <2>. QED  BY <1>2, <1>3, <2>2 DEF Variable, Entry
<1>5. Placed \in Seq(Variable)
  <2>1. Placed \in [1 .. n -> Variable]
    BY <1>3, <1>4
  <2>. QED  BY <2>1, FcnIsSeq, Zenon
<1>. QED  BY <1>1, <1>3, <1>5

\* Nothing before the end of the code changes, and behind it lie the data.
LEMMA WithDataType ==
    ASSUME Types, ~WriteUndefined
    PROVE  /\ WithData \in [0 .. CAPACITY - 1 -> Byte]
           /\ \A a \in 0 .. CAPACITY - 1 : a < ip => WithData[a] = prog[a]
           /\ \A k \in DOMAIN variables : \A x \in 0 .. variables[k].len - 1 :
                 /\ DataEnd[k - 1] + x \in ip .. CAPACITY - 1
                 /\ WithData[DataEnd[k - 1] + x] = Contents(variables[k])[x]
<1> DEFINE here(a) == {i \in DOMAIN variables : DataEnd[i - 1] <= a /\ a < DataEnd[i]}
           datum(a) == CHOOSE i \in here(a) : TRUE
<1>1. PICK n \in Nat :
         /\ n = Len(variables) /\ DOMAIN variables = 1 .. n
         /\ DataEnd \in [0 .. n -> Nat] /\ DataEnd[0] = ip
         /\ \A k \in 1 .. n : /\ variables[k] \in Variable /\ variables[k].len \in Nat
                              /\ DataEnd[k] = DataEnd[k - 1] + variables[k].len
         /\ \A i \in 0 .. n : \A j \in i .. n : DataEnd[i] <= DataEnd[j]
  BY DataEndSteps
<1>2. DataEnd[n] <= CAPACITY
  <2>1. ~(DataEnd[Len(variables)] > CAPACITY)
    BY DEF WriteUndefined
  <2>. HIDE DEF DataEnd
  <2>2. ~(DataEnd[n] > CAPACITY)
    BY <1>1, <2>1
  <2>3. DataEnd[n] \in Nat
    BY <1>1
  <2>. QED  BY <2>2, <2>3, SasmAssumption
<1>3. \A k \in 1 .. n : variables[k].data # NULL => variables[k].len <= Len(variables[k].data)
  <2>. SUFFICES ASSUME NEW k \in 1 .. n, variables[k].data # NULL
                PROVE  variables[k].len <= Len(variables[k].data)
    OBVIOUS
  <2>1. variables[k] \in ToSet(variables)
    BY <1>1 DEF ToSet
  <2>2. ~(variables[k].len > Len(variables[k].data))
    BY <2>1 DEF WriteUndefined
  <2>3. variables[k].data \in Seq(Byte) /\ variables[k].len \in Nat
    BY <1>1 DEF Variable, Entry
  <2>4. Len(variables[k].data) \in Nat
    BY <2>3
  <2>. QED  BY <2>2, <2>3, <2>4
<1>4. prog \in [0 .. CAPACITY - 1 -> Byte] /\ ip \in Nat
  BY DEF Types
<1>. HIDE DEF DataEnd
<1>5. WithData = [a \in 0 .. CAPACITY - 1 |->
                    IF here(a) = {} THEN prog[a]
                    ELSE Contents(variables[datum(a)])[a - DataEnd[datum(a) - 1]]]
  BY <1>4 DEF WithData
<1>6. \A a \in Nat : here(a) # {} => datum(a) \in here(a)
  OBVIOUS
<1>7. \A k \in 1 .. n : k - 1 \in 0 .. n /\ k \in k .. n /\ n \in k .. n /\ k - 1 \in 0 .. n
                        /\ DataEnd[k] \in Nat /\ DataEnd[k - 1] \in Nat
  BY <1>1
<1>8. ASSUME NEW a \in Nat, NEW k \in here(a)
      PROVE  k \in 1 .. n /\ a - DataEnd[k - 1] \in 0 .. variables[k].len - 1 /\ ip <= a
  <2>1. k \in 1 .. n /\ DataEnd[k - 1] <= a /\ a < DataEnd[k]
    BY <1>1
  <2>2. DataEnd[0] <= DataEnd[k - 1]
    <3>1. 0 \in 0 .. n /\ k - 1 \in 0 .. n
      BY <2>1
    <3>. QED  BY <1>1, <3>1
  <2>3. DataEnd[k] = DataEnd[k - 1] + variables[k].len /\ variables[k].len \in Nat
    BY <1>1, <2>1
  <2>. QED  BY <1>1, <1>4, <1>7, <2>1, <2>2, <2>3
<1>9. ASSUME NEW a \in 0 .. CAPACITY - 1 PROVE WithData[a] \in Byte
  <2>1. CASE here(a) = {}
    BY <1>4, <1>5, <2>1
  <2>2. CASE here(a) # {}
    <3>1. PICK k \in here(a) : k = datum(a)
      BY <2>2
    <3>2. k \in 1 .. n /\ a - DataEnd[k - 1] \in 0 .. variables[k].len - 1
      <4>1. a \in Nat
        OBVIOUS
      <4>. HIDE DEF here
      <4>. QED  BY <1>8, <4>1
    <3>3. Contents(variables[k])[a - DataEnd[k - 1]] \in Byte
      BY <1>1, <1>3, <3>2, ContentsType
    <3>4. WithData[a] = Contents(variables[k])[a - DataEnd[k - 1]]
      <4>. HIDE DEF here, datum
      <4>. QED  BY <1>5, <2>2, <3>1
    <3>. QED  BY <3>3, <3>4
  <2>. QED  BY <2>1, <2>2
<1>10. ASSUME NEW a \in 0 .. CAPACITY - 1, a < ip PROVE WithData[a] = prog[a]
  <2>1. here(a) = {}
    <3>1. a \in Nat /\ ~(ip <= a)
      BY <1>4, <1>10
    <3>. HIDE DEF here
    <3>2. \A k \in here(a) : FALSE
      BY <1>8, <3>1
    <3>3. here(a) \subseteq 1 .. n
      BY <1>1 DEF here
    <3>. QED  BY <3>2, <3>3
  <2>. HIDE DEF here, datum
  <2>. QED  BY <1>5, <2>1
<1>11. ASSUME NEW k \in 1 .. n, NEW x \in 0 .. variables[k].len - 1
       PROVE  /\ DataEnd[k - 1] + x \in ip .. CAPACITY - 1
              /\ WithData[DataEnd[k - 1] + x] = Contents(variables[k])[x]
  <2>1. DataEnd[k] = DataEnd[k - 1] + variables[k].len /\ variables[k].len \in Nat
        /\ x \in Nat /\ x < variables[k].len
    BY <1>1, <1>11
  <2>2. PICK a \in Nat : a = DataEnd[k - 1] + x
    BY <1>7, <2>1
  <2>3. DataEnd[k - 1] <= a /\ a < DataEnd[k] /\ a - DataEnd[k - 1] = x
    BY <1>7, <2>1, <2>2
  <2>4. k \in here(a)
    BY <1>1, <2>3
  <2>5. DataEnd[k] <= DataEnd[n] /\ DataEnd[n] \in Nat
    BY <1>1, <1>7
  <2>6. a \in ip .. CAPACITY - 1
    <3>1. ip <= a
      BY <1>8, <2>4
    <3>2. a < CAPACITY
      BY <1>2, <1>7, <2>3, <2>5, SasmAssumption
    <3>. QED  BY <1>4, <3>1, <3>2, SasmAssumption
  <2>7. ASSUME NEW i \in here(a) PROVE i = k
    <3>1. i \in 1 .. n /\ DataEnd[i - 1] <= a /\ a < DataEnd[i]
      BY <1>1
    <3>2. ~(i < k)
      <4>1. i < k => k - 1 \in i .. n /\ i \in 0 .. n
        BY <3>1
      <4>2. i < k => DataEnd[i] <= DataEnd[k - 1]
        BY <1>1, <4>1
      <4>. QED  BY <1>7, <2>3, <3>1, <4>2
    <3>3. ~(k < i)
      <4>1. k < i => i - 1 \in k .. n /\ k \in 0 .. n
        BY <3>1
      <4>2. k < i => DataEnd[k] <= DataEnd[i - 1]
        BY <1>1, <4>1
      <4>. QED  BY <1>7, <2>3, <3>1, <4>2
    <3>. QED  BY <3>1, <3>2, <3>3
  <2>8. here(a) # {} /\ datum(a) = k
    <3>. HIDE DEF here
    <3>. QED  BY <2>4, <2>7
  <2>9. a \in 0 .. CAPACITY - 1
    BY <1>4, <2>6
  <2>. HIDE DEF here, datum
  <2>10. WithData[a] = Contents(variables[k])[a - DataEnd[k - 1]]
    BY <1>5, <2>8, <2>9
  <2>. QED  BY <2>2, <2>3, <2>6, <2>10
<1>12. WithData \in [0 .. CAPACITY - 1 -> Byte]
  <2>. HIDE DEF here, datum
  <2>. QED  BY <1>5, <1>9
<1>. QED  BY <1>1, <1>10, <1>11, <1>12

\* Patching changes the operands referred to, to what their names stand for.
LEMMA PatchedType ==
    ASSUME NEW image \in [0 .. CAPACITY - 1 -> Byte], NEW names \in Seq(Variable)
    PROVE  /\ Patched(image, names) \in [0 .. CAPACITY - 1 -> Byte]
           /\ \A a \in 0 .. CAPACITY - 1 :
                 (\A i \in DOMAIN names : \A r \in DOMAIN names[i].refs :
                     a - names[i].refs[r].addr \notin 0 .. names[i].refs[r].len - 1)
                 => Patched(image, names)[a] = image[a]
           /\ \A a \in 0 .. CAPACITY - 1 :
              \A i \in DOMAIN names : \A r \in DOMAIN names[i].refs :
                 /\ a - names[i].refs[r].addr \in 0 .. names[i].refs[r].len - 1
                 /\ \A j \in DOMAIN names : \A s \in DOMAIN names[j].refs :
                       a - names[j].refs[s].addr \in 0 .. names[j].refs[s].len - 1
                       => j = i /\ s = r
                 => Patched(image, names)[a] =
                       LE(Value(names[i]), names[i].refs[r].len)[a - names[i].refs[r].addr]
<1> DEFINE Uses == UNION {{<<i, r>> : r \in DOMAIN names[i].refs} : i \in DOMAIN names}
           use(p) == names[p[1]].refs[p[2]]
           here(a) == {p \in Uses : a - use(p).addr \in 0 .. use(p).len - 1}
           first(a) == CHOOSE p \in here(a) : TRUE
           patch(a, p) == LE(Value(names[p[1]]), use(p).len)[a - use(p).addr]
<1>1. Patched(image, names) =
         [a \in 0 .. CAPACITY - 1 |->
            IF here(a) = {} THEN image[a] ELSE patch(a, first(a))]
  BY DEF Patched
<1>2. \A p \in Uses : p = <<p[1], p[2]>> /\ p[1] \in DOMAIN names
                      /\ p[2] \in DOMAIN names[p[1]].refs
  OBVIOUS
<1>3. \A i \in DOMAIN names : \A r \in DOMAIN names[i].refs : <<i, r>> \in Uses
  OBVIOUS
<1>4. ASSUME NEW a, NEW p \in here(a) PROVE patch(a, p) \in Byte
  <2>1. p \in Uses /\ a - use(p).addr \in 0 .. use(p).len - 1
    OBVIOUS
  <2>2. p[1] \in DOMAIN names /\ p[2] \in DOMAIN names[p[1]].refs
    <3>. HIDE DEF Uses
    <3>. QED  BY <1>2, <2>1
  <2>3. names[p[1]] \in Variable
    BY <2>2, ElementType
  <2>4. names[p[1]].refs \in Seq([addr : Nat, len : Width]) /\ Value(names[p[1]]) \in Nat
    BY <2>3 DEF Variable, Entry, Value
  <2>5. use(p) \in [addr : Nat, len : Width]
    BY <2>2, <2>4, ElementType
  <2>6. use(p).len \in 0 .. QWORD
    BY <2>5, WidthType
  <2>. HIDE DEF use
  <2>7. LE(Value(names[p[1]]), use(p).len) \in [0 .. use(p).len - 1 -> Byte]
    BY <2>4, <2>6, LEType
  <2>. QED  BY <2>1, <2>7
<1>5. ASSUME NEW a \in 0 .. CAPACITY - 1
      PROVE  (IF here(a) = {} THEN image[a] ELSE patch(a, first(a))) \in Byte
  <2>1. here(a) # {} => first(a) \in here(a)
    OBVIOUS
  <2>2. image[a] \in Byte
    OBVIOUS
  <2>. HIDE DEF here, first, patch
  <2>. QED  BY <1>4, <2>1, <2>2
<1>6. ASSUME NEW a \in 0 .. CAPACITY - 1,
             \A i \in DOMAIN names : \A r \in DOMAIN names[i].refs :
                a - names[i].refs[r].addr \notin 0 .. names[i].refs[r].len - 1
      PROVE  here(a) = {}
  <2>1. ASSUME NEW p \in here(a) PROVE FALSE
    <3>1. p \in Uses /\ a - use(p).addr \in 0 .. use(p).len - 1
      OBVIOUS
    <3>2. p[1] \in DOMAIN names /\ p[2] \in DOMAIN names[p[1]].refs
      <4>. HIDE DEF Uses
      <4>. QED  BY <1>2, <3>1
    <3>. QED  BY <1>6, <3>1, <3>2
  <2>. HIDE DEF here
  <2>. QED  BY <2>1
<1>7. ASSUME NEW a \in 0 .. CAPACITY - 1, NEW i \in DOMAIN names,
             NEW r \in DOMAIN names[i].refs,
             a - names[i].refs[r].addr \in 0 .. names[i].refs[r].len - 1,
             \A j \in DOMAIN names : \A s \in DOMAIN names[j].refs :
                a - names[j].refs[s].addr \in 0 .. names[j].refs[s].len - 1
                => j = i /\ s = r
      PROVE  here(a) # {} /\ first(a) = <<i, r>>
  <2>1. <<i, r>> \in here(a)
    <3>1. <<i, r>> \in Uses /\ use(<<i, r>>) = names[i].refs[r]
      BY <1>3
    <3>. HIDE DEF Uses, use
    <3>. QED  BY <1>7, <3>1
  <2>2. ASSUME NEW p \in here(a) PROVE p = <<i, r>>
    <3>1. p \in Uses /\ a - use(p).addr \in 0 .. use(p).len - 1
      OBVIOUS
    <3>2. p = <<p[1], p[2]>> /\ p[1] \in DOMAIN names /\ p[2] \in DOMAIN names[p[1]].refs
      <4>. HIDE DEF Uses
      <4>. QED  BY <1>2, <3>1
    <3>3. p[1] = i /\ p[2] = r
      BY <1>7, <3>1, <3>2
    <3>. QED  BY <3>2, <3>3
  <2>. HIDE DEF here
  <2>. QED  BY <2>1, <2>2
<1>8. \A a, i, r : patch(a, <<i, r>>) =
         LE(Value(names[i]), names[i].refs[r].len)[a - names[i].refs[r].addr]
  OBVIOUS
<1>. HIDE DEF here, first, patch
<1>9. Patched(image, names) \in [0 .. CAPACITY - 1 -> Byte]
  BY <1>1, <1>5
<1>10. \A a \in 0 .. CAPACITY - 1 :
          (\A i \in DOMAIN names : \A r \in DOMAIN names[i].refs :
              a - names[i].refs[r].addr \notin 0 .. names[i].refs[r].len - 1)
          => Patched(image, names)[a] = image[a]
  BY <1>1, <1>6
<1>11. \A a \in 0 .. CAPACITY - 1 :
       \A i \in DOMAIN names : \A r \in DOMAIN names[i].refs :
          /\ a - names[i].refs[r].addr \in 0 .. names[i].refs[r].len - 1
          /\ \A j \in DOMAIN names : \A s \in DOMAIN names[j].refs :
                a - names[j].refs[s].addr \in 0 .. names[j].refs[s].len - 1
                => j = i /\ s = r
          => Patched(image, names)[a] =
                LE(Value(names[i]), names[i].refs[r].len)[a - names[i].refs[r].addr]
  <2>. SUFFICES
         ASSUME NEW a \in 0 .. CAPACITY - 1, NEW i \in DOMAIN names,
                NEW r \in DOMAIN names[i].refs,
                a - names[i].refs[r].addr \in 0 .. names[i].refs[r].len - 1,
                \A j \in DOMAIN names : \A s \in DOMAIN names[j].refs :
                   a - names[j].refs[s].addr \in 0 .. names[j].refs[s].len - 1
                   => j = i /\ s = r
         PROVE  Patched(image, names)[a] =
                   LE(Value(names[i]), names[i].refs[r].len)[a - names[i].refs[r].addr]
    OBVIOUS
  <2>1. here(a) # {} /\ first(a) = <<i, r>>
    BY <1>7
  <2>2. Patched(image, names)[a] = patch(a, <<i, r>>)
    BY <1>1, <2>1
  <2>. QED  BY <1>8, <2>2
<1>. QED  BY <1>9, <1>10, <1>11

----------------------------------------------------------------------------
(* The beginning, and any step *)

LEMMA InitParsing == Init => Parsing
<1>. SUFFICES ASSUME Init PROVE Parsing
  OBVIOUS
<1>1. text \in Seq(Statement) /\ files \in Seq(STRING)
  BY SasmAssumption DEF Init
<1>2. prog \in [0 .. CAPACITY - 1 -> Byte]
  BY ByteRange DEF Init
<1>3. PROLOGUE \in Nat
  BY QwordAssumption DEF PROLOGUE
<1>4. \A i \in DOMAIN Predefined :
         Predefined[i].name \in STRING /\ Predefined[i].addr \in Nat
  <2>1. /\ IRQ_CLK \in Nat /\ IRQ_KBD \in Nat /\ IRQ_TTY \in Nat /\ IRQ_MMU \in Nat
        /\ IRQ(4) \in Nat /\ IRQ(5) \in Nat /\ IRQ(6) \in Nat /\ IRQ(7) \in Nat
    BY QwordAssumption, SasmAssumption DEF IRQ, IRQ_CLK, IRQ_KBD, IRQ_TTY, IRQ_MMU
  <2>2. /\ IRQ_P0_BUF \in Nat /\ IRQ_P0_BUF + DMA_LEN \in Nat
        /\ IRQ_P0_BUF + 2 * DMA_LEN \in Nat /\ IRQ_P0_BUF + 3 * DMA_LEN \in Nat
    BY SasmAssumption
  <2>. SUFFICES ASSUME NEW i \in 1 .. 12 PROVE Predefined[i].addr \in Nat
    BY NameAssumption DEF Predefined
  <2>3. i \in 1 .. 4 => Predefined[i].addr \in Nat
    BY <2>1 DEF Predefined
  <2>4. i \in 5 .. 8 => Predefined[i].addr \in Nat
    BY <2>1 DEF Predefined
  <2>5. i \in 9 .. 12 => Predefined[i].addr \in Nat
    BY <2>2 DEF Predefined
  <2>. QED  BY <2>3, <2>4, <2>5
<1>5. DOMAIN Predefined = 1 .. 12
  BY DEF Predefined
<1>6. \A i \in DOMAIN Predefined :
         /\ [New(Predefined[i].name) EXCEPT !.addr = Predefined[i].addr] \in Variable
         /\ [New(Predefined[i].name) EXCEPT !.addr = Predefined[i].addr].refs = <<>>
  <2>1. \A name \in STRING, addr \in Nat :
           /\ [New(name) EXCEPT !.addr = addr] \in Variable
           /\ [New(name) EXCEPT !.addr = addr].refs = <<>>
    <3>1. ASSUME NEW name \in STRING PROVE New(name) \in Variable /\ New(name).refs = <<>>
      BY <3>1, QwordAssumption DEF New, Variable, Entry
    <3>. QED  BY <3>1 DEF Variable, Entry
  <2>. QED  BY <1>4, <2>1
<1>7. Table /\ \A i \in DOMAIN variables : variables[i].refs = <<>>
  BY <1>5, <1>6 DEF Init, Table
<1>8. Refs = {}
  BY <1>7 DEF Refs
<1>9. Types
  BY <1>1, <1>2, <1>3, <1>7 DEF Init, Types
<1>. QED  BY <1>3, <1>8, <1>9 DEF Init, Parsing, Apart

LEMMA NextParsing == Parsing /\ [Next]_vars => Parsing'
<1>1. ASSUME Parsing, UNCHANGED vars PROVE Parsing'
  <2>1. CASE phase = "main"
    BY <1>1, <2>1 DEF vars, Parsing
  <2>2. CASE phase # "main"
    <3>1. Types' /\ PROLOGUE <= ip' /\ SameRefs
      BY <1>1, <2>2 DEF vars, Parsing, Types, Table, SameRefs
    <3>2. status' # "wild" => Apart'
      BY <1>1, <2>2, <3>1, KeepsApart DEF vars, Parsing, Types
    <3>. QED  BY <3>1, <3>2 DEF Parsing
  <2>. QED  BY <2>1, <2>2
<1>. QED  BY <1>1, DefinitionSteps, EmittingSteps, StageSteps DEF Next, stmts

\* The prologue is bytes.
LEMMA PrologueType ==
    ASSUME NEW addr \in Nat
    PROVE  [i \in 0 .. QWORD + 2 |->
              IF i <= QWORD THEN WithOperand(PUSH, addr, QWORD)[i]
              ELSE IF i = QWORD + 1 THEN Opcode(CALL, QWORD) ELSE Opcode(HLT, 1)]
              \in [0 .. PROLOGUE - 1 -> Byte]
<1>1. PUSH \in Instruction /\ CALL \in Instruction /\ HLT \in Instruction
  BY DEF Instruction, Op0, Op1
<1>2. QWORD \in Width /\ QWORD \in {1, 2, 4, 8} /\ QWORD \in Nat
  BY SasmAssumption DEF Width
<1>3. WithOperand(PUSH, addr, QWORD) \in [0 .. QWORD -> Byte]
  BY <1>1, <1>2, WithOperandType
<1>4. Opcode(CALL, QWORD) \in Byte /\ Opcode(HLT, 1) \in Byte
  BY <1>1, <1>2, OpcodeType
<1>5. PROLOGUE - 1 = QWORD + 2
  BY <1>2 DEF PROLOGUE
<1>. QED  BY <1>2, <1>3, <1>4, <1>5

\* Each step after the parsing keeps the types too.
LEMMA WriteDataTypes ==
    ASSUME Types, write_data
    PROVE  Types'
<1>1. UNCHANGED <<source, host, text, files, variables_sz>>
  BY DEF write_data
<1>2. CASE WriteUndefined
  <2>1. status' = "wild" /\ UNCHANGED <<phase, prog, ip, prog_len, variables>>
    BY <1>2 DEF write_data
  <2>. QED  BY <1>1, <2>1 DEF Types, Table
<1>3. CASE ~WriteUndefined
  <2>1. /\ variables' = Placed /\ prog' = Patched(WithData, Placed)
        /\ ip' = DataEnd[Len(variables)] /\ prog_len' = ip' /\ phase' = "main"
        /\ status' = status
    BY <1>3 DEF write_data
  <2>2. Placed \in Seq(Variable)
    BY PlacedType
  <2>3. WithData \in [0 .. CAPACITY - 1 -> Byte]
    BY <1>3, WithDataType
  <2>4. prog' \in [0 .. CAPACITY - 1 -> Byte]
    BY <2>1, <2>2, <2>3, PatchedType
  <2>5. ip' \in Nat
    <3>1. PICK n \in Nat : n = Len(variables) /\ DataEnd \in [0 .. n -> Nat]
      BY DataEndSteps
    <3>2. n \in 0 .. n
      OBVIOUS
    <3>. HIDE DEF DataEnd
    <3>3. DataEnd[n] \in Nat
      BY <3>1, <3>2
    <3>. QED  BY <2>1, <3>1, <3>3, Zenon
  <2>. QED  BY <1>1, <2>1, <2>2, <2>4, <2>5 DEF Types, Table
<1>. QED  BY <1>2, <1>3

LEMMA WritePrologueTypes ==
    ASSUME Types, write_prologue
    PROVE  Types'
<1> DEFINE main == find_variable("_main")
<1>1. UNCHANGED <<source, host, text, files, phase, prog_len, table>>
  BY DEF write_prologue
<1>2. CASE main = 0
  <2>1. status' = "wild" /\ UNCHANGED <<prog, ip>>
    BY <1>2 DEF write_prologue
  <2>. QED  BY <1>1, <2>1 DEF Types, Table, table
<1>3. CASE main # 0
  <2>1. main \in DOMAIN variables
    <3>1. Places("_main") # {} /\ main = CHOOSE i \in Places("_main") : TRUE
      BY <1>3 DEF find_variable
    <3>. QED  BY <3>1 DEF Places
  <2>2. variables[main] \in Variable
    BY <2>1, ElementType DEF Types, Table
  <2>3. PICK addr \in Nat : addr = variables[main].addr
    BY <2>2 DEF Variable, Entry
  <2> DEFINE block == [i \in 0 .. QWORD + 2 |->
                         IF i <= QWORD THEN WithOperand(PUSH, addr, QWORD)[i]
                         ELSE IF i = QWORD + 1 THEN Opcode(CALL, QWORD) ELSE Opcode(HLT, 1)]
  <2>4. prog' = Overwrite(prog, 0, block) /\ ip' = PROLOGUE /\ status' = "done"
    BY <1>3, <2>3 DEF write_prologue
  <2>5. block \in [0 .. PROLOGUE - 1 -> Byte] /\ PROLOGUE \in Nat
    BY PrologueType, QwordAssumption DEF PROLOGUE
  <2>. HIDE DEF block
  <2>6. prog' \in [0 .. CAPACITY - 1 -> Byte]
    BY <2>4, <2>5, OverwriteType DEF Types
  <2>. QED  BY <1>1, <2>4, <2>5, <2>6 DEF Types, Table, table
<1>. QED  BY <1>2, <1>3

LEMMA NextTypes == Types /\ Parsing /\ [Next]_vars => Types'
<1>. SUFFICES ASSUME Types, Parsing, [Next]_vars PROVE Types'
  OBVIOUS
<1>1. CASE phase' # "main"
  BY <1>1, NextParsing DEF Parsing
<1>2. CASE write_data
  BY <1>2, WriteDataTypes
<1>3. CASE write_prologue
  BY <1>3, WritePrologueTypes
<1>4. CASE phase' = "main" /\ (stmts \/ yywrap \/ yyaccept)
  <2>1. stmts \/ yywrap => phase = "parse" /\ phase' = phase
    BY DEF stmts, lbl_def, include, data, data_str, equ, equrel, res, pusht, pushtv, op,
           yyerror, Defines, Reads, yywrap
  <2>2. yyaccept => phase' = "data"
    BY DEF yyaccept
  <2>. QED  BY <1>4, <2>1, <2>2
<1>5. CASE UNCHANGED vars
  BY <1>5 DEF vars, Types, Table
<1>. QED  BY <1>1, <1>2, <1>3, <1>4, <1>5 DEF Next

----------------------------------------------------------------------------
(* The theorems *)

\* The assembler keeps the types of its state, from the first statement to the
\* finished image: every byte of the image is one, whatever is emitted, copied
\* behind the code or patched into it, and the table of names holds numbers,
\* contents and references of the widths a push can have (find_variable,
\* new_variable, push0, push1, write_data, write_prologue).
THEOREM TypeCorrect == Spec => []TypeOK
<1>1. Init => Types
  BY InitParsing DEF Init, Parsing
<1>2. Types => TypeOK
  <2>1. Variable \subseteq Entry
    BY DEF Variable
  <2>2. Table => variables \in Seq(Entry)
    BY <2>1 DEF Table
  <2>. QED  BY <2>2 DEF Types, Entry, TypeOK
<1>. QED  BY <1>1, <1>2, InitParsing, NextParsing, NextTypes, PTL DEF Spec

\* Patching touches the operands of pushes and nothing else, whatever a program
\* says and the heap does: the references recorded are apart from each other,
\* behind the prologue, in code that has been emitted (add_variable_ref).
THEOREM RefsStayApart == Spec => []RefsApart
<1>1. Parsing => RefsApart
  BY DEF Parsing, Apart, InCode, RefsApart
<1>. QED  BY <1>1, InitParsing, NextParsing, PTL DEF Spec

=============================================================================
