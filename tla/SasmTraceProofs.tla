--------------------------- MODULE SasmTraceProofs ---------------------------
(***************************************************************************)
(* What an image holds, for every source, every heap and every size of the *)
(* image and of a qword: the program's instructions with the operands they *)
(* were written with, and its data behind them.                            *)
(***************************************************************************)
EXTENDS SasmTrace, SasmProofs

----------------------------------------------------------------------------
(* The table as a function of names *)

\* The entry of a name: that in the table, or the one it would begin with.
Look(n) == IF Known(n) THEN variables[find_variable(n)] ELSE New(n)

Unique ==
    \A i, j \in DOMAIN variables : variables[i].name = variables[j].name => i = j

Found ==
    /\ \A i \in DOMAIN variables :
          Known(variables[i].name) /\ Look(variables[i].name) = variables[i]
    /\ \A n : Known(n) => \E i \in DOMAIN variables :
          variables[i].name = n /\ Look(n) = variables[i] /\ find_variable(n) = i

LEMMA KnownIs == Table /\ Unique => Found
<1>. SUFFICES ASSUME Table, Unique PROVE Found
  OBVIOUS
<1>1. \A i \in DOMAIN variables : i # 0
  BY DEF Table
<1>2. ASSUME NEW i \in DOMAIN variables
      PROVE  find_variable(variables[i].name) = i
  <2>1. i \in Places(variables[i].name)
    BY DEF Places
  <2>2. \A j \in Places(variables[i].name) : j = i
    BY DEF Places, Unique
  <2>. QED  BY <2>1, <2>2 DEF find_variable
<1>3. ASSUME NEW n, Known(n)
      PROVE  \E i \in DOMAIN variables : variables[i].name = n
  <2>1. Places(n) # {}
    BY <1>3 DEF Known, find_variable
  <2>. QED  BY <2>1 DEF Places
<1>. QED  BY <1>1, <1>2, <1>3 DEF Found, Known, Look

LEMMA NewType == \A n \in STRING : New(n) \in Variable
BY QwordAssumption DEF New, Variable, Entry

LEMMA LookType ==
    ASSUME Table, NEW n \in STRING
    PROVE  /\ Look(n) \in Variable /\ Look(n) = find_or_create_variable(n)[Place(n)]
           /\ (Unique => Look(n).name = n)
<1>1. find_or_create_variable(n)[Place(n)] \in Variable
  BY EntryType
<1>2. Look(n) = find_or_create_variable(n)[Place(n)]
  <2>1. CASE Known(n)
    BY <2>1 DEF Look, find_or_create_variable, Place
  <2>2. CASE ~Known(n)
    <3>1. Append(variables, New(n))[Len(variables) + 1] = New(n)
      <4>1. \A q \in Seq(Variable), e \in Variable : Append(q, e)[Len(q) + 1] = e
        BY AppendIs
      <4>2. variables \in Seq(Variable) /\ New(n) \in Variable
        BY NewType DEF Table
      <4>. QED  BY <4>1, <4>2, Zenon
    <3>. QED  BY <2>2, <3>1 DEF Look, find_or_create_variable, Place
  <2>. QED  BY <2>1, <2>2
<1>3. Unique => Look(n).name = n
  <2>1. CASE Known(n)
    BY <2>1, KnownIs DEF Found
  <2>2. CASE ~Known(n)
    BY <2>2 DEF Look, New
  <2>. QED  BY <2>1, <2>2
<1>. QED  BY <1>1, <1>2, <1>3

\* A step changes the entry of one name.
Sets(name, var) ==
    /\ Unique' /\ Known(name)' /\ Look(name)' = var
    /\ \A n : n # name => (Known(n)' <=> Known(n)) /\ Look(n)' = Look(n)

LEMMA Update ==
    ASSUME Table, Unique, NEW name \in STRING, NEW var \in Variable, var.name = name,
           variables' = [find_or_create_variable(name) EXCEPT ![Place(name)] = var]
    PROVE  Sets(name, var)
<1> DEFINE F == find_or_create_variable(name)
           P == Place(name)
<1>1. /\ F \in Seq(Variable) /\ P \in DOMAIN F /\ DOMAIN variables \subseteq DOMAIN F
      /\ \A i \in DOMAIN variables : F[i] = variables[i]
  BY PlaceType
<1>2. DOMAIN F \subseteq DOMAIN variables \union {P}
  <2>1. CASE Known(name)
    BY <2>1 DEF find_or_create_variable
  <2>2. CASE ~Known(name)
    <3>1. F = Append(variables, New(name)) /\ P = Len(variables) + 1
      BY <2>2 DEF find_or_create_variable, Place
    <3>2. DOMAIN Append(variables, New(name)) = 1 .. Len(variables) + 1
          /\ DOMAIN variables = 1 .. Len(variables) /\ Len(variables) \in Nat
      BY DEF Table
    <3>. QED  BY <3>1, <3>2
  <2>. QED  BY <2>1, <2>2
<1>3. \A i \in DOMAIN variables : variables[i].name = name => i = P
  <2>1. ASSUME NEW i \in DOMAIN variables, variables[i].name = name PROVE i = P
    <3>1. Known(name)
      BY <2>1, KnownIs DEF Found
    <3>2. PICK j \in DOMAIN variables : variables[j].name = name /\ find_variable(name) = j
      BY <3>1, KnownIs DEF Found
    <3>3. i = j
      BY <2>1, <3>2 DEF Unique
    <3>. QED  BY <3>1, <3>2, <3>3 DEF Place
  <2>. QED  BY <2>1
<1>4. P \in DOMAIN variables => variables[P].name = name
  <2>1. CASE Known(name)
    BY <2>1, KnownIs DEF Found, Place
  <2>2. CASE ~Known(name)
    <3>1. P = Len(variables) + 1 /\ DOMAIN variables = 1 .. Len(variables) /\ Len(variables) \in Nat
      BY <2>2 DEF Place, Table
    <3>. QED  BY <3>1
  <2>. QED  BY <2>1, <2>2
<1>. HIDE DEF F, P
<1>5. /\ DOMAIN variables' = DOMAIN F /\ variables'[P] = var
      /\ \A i \in DOMAIN variables' : i # P => i \in DOMAIN variables /\ variables'[i] = variables[i]
      /\ \A i \in DOMAIN variables : i # P => i \in DOMAIN variables' /\ variables'[i] = variables[i]
      /\ Table'
  <2>1. variables' = [F EXCEPT ![P] = var]
    BY DEF F, P
  <2>. QED  BY <1>1, <1>2, <2>1, TableType DEF Table, F, P
<1>6. Unique'
  <2>. SUFFICES ASSUME NEW i \in DOMAIN variables', NEW j \in DOMAIN variables',
                       variables'[i].name = variables'[j].name
                PROVE  i = j
    BY DEF Unique
  <2>1. CASE i # P /\ j # P
    BY <1>5, <2>1 DEF Unique
  <2>2. CASE i = P /\ j # P
    BY <1>3, <1>5, <2>2
  <2>3. CASE i # P /\ j = P
    BY <1>3, <1>5, <2>3
  <2>. QED  BY <2>1, <2>2, <2>3
<1>7. Found'
  <2>1. Table' /\ Unique'
    BY <1>5, <1>6
  <2>2. (Table /\ Unique => Found)'
    BY KnownIs, PTL
  <2>. QED  BY <2>1, <2>2
<1>8. Known(name)' /\ Look(name)' = var
  BY <1>1, <1>5, <1>7 DEF Found
<1>9. ASSUME NEW n, n # name PROVE (Known(n)' <=> Known(n)) /\ Look(n)' = Look(n)
  <2>1. CASE Known(n)
    <3>1. PICK i \in DOMAIN variables : variables[i].name = n /\ Look(n) = variables[i]
      BY <2>1, KnownIs DEF Found
    <3>2. i # P
      BY <1>4, <1>9, <3>1
    <3>. QED  BY <1>5, <1>7, <2>1, <3>1, <3>2 DEF Found
  <2>2. CASE ~Known(n)
    <3>1. ~Known(n)'
      <4>. SUFFICES ASSUME Known(n)' PROVE FALSE
        OBVIOUS
      <4>1. PICK i \in DOMAIN variables' : variables'[i].name = n
        BY <1>7 DEF Found
      <4>2. i # P
        BY <1>5, <1>9, <4>1
      <4>3. i \in DOMAIN variables /\ variables[i].name = n
        BY <1>5, <4>1, <4>2
      <4>. QED  BY <2>2, <4>3, KnownIs DEF Found
    <3>. QED  BY <2>2, <3>1 DEF Look, Known
  <2>. QED  BY <2>1, <2>2
<1>. QED  BY <1>6, <1>8, <1>9 DEF Sets

----------------------------------------------------------------------------
(* What a statement does to the table *)

Named(s) == Defining(s) \/ s.kind = "pushtv"

\* The entry of a statement's name when it has been parsed.
After(s) ==
    LET old == Look(s.name)
    IN CASE s.kind = "lbl_def" -> [old EXCEPT !.addr = ip]
         [] s.kind = "data" -> [old EXCEPT !.value = s.value, !.len = s.len]
         [] s.kind \in {"data_str", "res"} ->
               [old EXCEPT !.len = Len(DataBytes(s)), !.data = DataBytes(s)]
         [] s.kind = "equ" ->
               [old EXCEPT !.addr = IF Known(s.name) THEN ip ELSE s.value,
                           !.value = s.value]
         [] s.kind = "equrel" ->
               [old EXCEPT !.addr = IF Known(s.name) THEN ip ELSE 0,
                           !.value = Look(s.of).len]
         [] s.kind = "pushtv" ->
               [old EXCEPT !.refs = Append(@, [addr |-> ip + 1, len |-> s.len])]

LEMMA DataBytesType ==
    ASSUME NEW s \in Statement, IsData(s)
    PROVE  /\ DataBytes(s) \in Seq(Byte) /\ Len(DataBytes(s)) \in Nat
           /\ s.kind = "data" => Len(DataBytes(s)) = s.len
<1>1. CASE s.kind = "data"
  <2>1. s.value \in Int /\ s.len \in 0 .. QWORD /\ s.len \in Nat
    BY <1>1, StatementType, WidthType
  <2>2. LE(s.value, s.len) \in [0 .. s.len - 1 -> Byte]
    BY <2>1, LEType
  <2>3. DataBytes(s) = [i \in 1 .. s.len |-> LE(s.value, s.len)[i - 1]]
    BY <1>1 DEF DataBytes
  <2>4. \A i \in 1 .. s.len : LE(s.value, s.len)[i - 1] \in Byte
    BY <2>1, <2>2
  <2>5. DataBytes(s) \in [1 .. s.len -> Byte]
    BY <2>3, <2>4
  <2>6. DataBytes(s) \in Seq(Byte)
    BY <2>1, <2>5, FcnIsSeq
  <2>7. Len(DataBytes(s)) = s.len
    BY <2>1, <2>5, <2>6
  <2>. QED  BY <2>1, <2>6, <2>7
<1>2. CASE s.kind = "data_str"
  <2>1. DataBytes(s) = s.text
    BY <1>2 DEF DataBytes
  <2>. QED  BY <1>2, <2>1, StatementType
<1>3. CASE s.kind = "res"
  <2>1. s.count \in Nat /\ s.len \in Nat
    BY <1>3, StatementType, WidthType
  <2>2. PICK n \in Nat : n = s.count * s.len
    BY <2>1
  <2>3. DataBytes(s) = [i \in 1 .. n |-> 0]
    BY <1>3, <2>2 DEF DataBytes
  <2>4. DataBytes(s) \in [1 .. n -> Byte]
    BY <2>3 DEF Byte, RADIX
  <2>. QED  BY <1>3, <2>4, FcnIsSeq
<1>. QED  BY <1>1, <1>2, <1>3 DEF IsData

LEMMA AfterType ==
    ASSUME Types, Unique, NEW s \in Statement, Named(s)
    PROVE  /\ s.name \in STRING /\ Look(s.name) \in Variable /\ Look(s.name).name = s.name
           /\ After(s) \in Variable /\ After(s).name = s.name
<1> DEFINE old == Look(s.name)
<1>1. s.name \in STRING
  BY StatementType DEF Named, Defining, IsData, IsNumber
<1>2. old \in Variable /\ old.name = s.name
  BY <1>1, LookType DEF Types
<1>3. ip \in Nat
  BY DEF Types
<1>. HIDE DEF old
<1>4. CASE s.kind = "lbl_def"
  <2>1. After(s) = [old EXCEPT !.addr = ip]
    BY <1>4 DEF After, old
  <2>. QED  BY <1>1, <1>2, <1>3, <2>1 DEF Variable, Entry, old
<1>5. CASE s.kind = "data"
  <2>1. After(s) = [old EXCEPT !.value = s.value, !.len = s.len]
    BY <1>5 DEF After, old
  <2>2. s.value \in Nat /\ s.len \in Nat /\ s.len \in 0 .. QWORD
    BY <1>5, StatementType, WidthType
  <2>. QED  BY <1>1, <1>2, <2>1, <2>2 DEF Variable, Entry, old
<1>6. CASE s.kind \in {"data_str", "res"}
  <2>1. PICK bytes \in Seq(Byte), n \in Nat : bytes = DataBytes(s) /\ n = Len(DataBytes(s))
    BY <1>6, DataBytesType DEF IsData
  <2>2. bytes # NULL
    BY NullIs
  <2>3. After(s) = [old EXCEPT !.len = n, !.data = bytes]
    BY <1>6, <2>1 DEF After, old
  <2>4. After(s) \in Entry /\ After(s).len = n /\ After(s).data = bytes /\ After(s).name = s.name
    BY <1>2, <2>1, <2>3 DEF Variable, Entry
  <2>. QED  BY <1>1, <1>2, <2>2, <2>4 DEF Variable, old
<1>7. CASE s.kind = "equ"
  <2>1. PICK addr \in Nat : After(s) = [old EXCEPT !.addr = addr, !.value = s.value]
    BY <1>3, <1>7, StatementType DEF After, old
  <2>2. s.value \in Nat
    BY <1>7, StatementType
  <2>. QED  BY <1>1, <1>2, <2>1, <2>2 DEF Variable, Entry, old
<1>8. CASE s.kind = "equrel"
  <2>1. PICK addr \in Nat : After(s) = [old EXCEPT !.addr = addr, !.value = Look(s.of).len]
    BY <1>3, <1>8 DEF After, old
  <2>2. Look(s.of).len \in Nat
    BY <1>8, StatementType, LookType DEF Types, Variable, Entry
  <2>. QED  BY <1>1, <1>2, <2>1, <2>2 DEF Variable, Entry, old
<1>9. CASE s.kind = "pushtv"
  <2>1. PICK refs : refs = Append(old.refs, [addr |-> ip + 1, len |-> s.len])
    OBVIOUS
  <2>2. s.len \in Width /\ old.refs \in Seq([addr : Nat, len : Width])
    BY <1>2, <1>9, StatementType DEF Variable, Entry
  <2>3. refs \in Seq([addr : Nat, len : Width])
    BY <1>3, <2>1, <2>2
  <2>4. After(s) = [old EXCEPT !.refs = refs]
    BY <1>9, <2>1 DEF After, old
  <2>. QED  BY <1>1, <1>2, <2>3, <2>4 DEF Variable, Entry, old
<1>. QED  BY <1>4, <1>5, <1>6, <1>7, <1>8, <1>9 DEF Named, Defining, IsData, IsNumber

\* A statement sets the entry of its name, if it has one, and no other.
TableStep(s) == IF Named(s) THEN Sets(s.name, After(s)) ELSE UNCHANGED variables

LEMMA SetsEntry ==
    ASSUME Types, Unique, NEW s \in Statement, Named(s),
           variables' = [find_or_create_variable(s.name) EXCEPT ![Place(s.name)] = After(s)]
    PROVE  TableStep(s)
BY AfterType, Update DEF Types, TableStep

LEMMA TableSteps ==
    ASSUME Parsing, Unique, stmts, status' # "wild"
    PROVE  TableStep(stmt)
<1> DEFINE s == stmt
           F == find_or_create_variable(s.name)
           P == Place(s.name)
<1>1. PICK kind : Reads(kind)
  BY DEF stmts, lbl_def, include, data, data_str, equ, equrel, res, pusht, pushtv, op,
         yyerror, Defines
<1>2. Types /\ s \in Statement
  BY <1>1, ReadsType
<1>. HIDE DEF s
<1>3. s.name \in STRING => P \in DOMAIN F /\ F[P] = Look(s.name) /\ F \in Seq(Variable)
  BY <1>2, PlaceType, LookType DEF Types
<1>4. CASE lbl_def
  <2>1. s.kind = "lbl_def" /\ s.name \in STRING /\ define_label(s.name)
    BY <1>2, <1>4, StatementType DEF s, lbl_def, Defines, Reads
  <2>2. variables' = [F EXCEPT ![P] = [F[P] EXCEPT !.addr = ip]]
    BY <1>3, <2>1 DEF define_label
  <2>3. After(s) = [F[P] EXCEPT !.addr = ip]
    BY <1>3, <2>1 DEF After
  <2>. QED  BY <1>2, <2>1, <2>2, <2>3, SetsEntry DEF s, Named, Defining, IsNumber
<1>5. CASE data
  <2>1. s.kind = "data" /\ s.name \in STRING /\ define_variable(s.name, s.value, s.len)
    BY <1>2, <1>5, StatementType DEF s, data, Defines, Reads
  <2>2. variables' = [F EXCEPT ![P] = [F[P] EXCEPT !.value = s.value, !.len = s.len]]
    BY <1>3, <2>1 DEF define_variable
  <2>3. After(s) = [F[P] EXCEPT !.value = s.value, !.len = s.len]
    BY <1>3, <2>1 DEF After
  <2>. QED  BY <1>2, <2>1, <2>2, <2>3, SetsEntry DEF s, Named, Defining, IsData
<1>6. CASE data_str \/ res
  <2>1. /\ s.kind \in {"data_str", "res"} /\ s.name \in STRING
        /\ define_data(s.name, DataBytes(s))
    BY <1>2, <1>6, StatementType DEF s, data_str, res, Defines, Reads, DataBytes
  <2>2. variables' = [F EXCEPT ![P] = [F[P] EXCEPT !.len = Len(DataBytes(s)),
                                                   !.data = DataBytes(s)]]
    BY <1>3, <2>1 DEF define_data
  <2>3. After(s) = [F[P] EXCEPT !.len = Len(DataBytes(s)), !.data = DataBytes(s)]
    BY <1>3, <2>1 DEF After
  <2>. QED  BY <1>2, <2>1, <2>2, <2>3, SetsEntry DEF s, Named, Defining, IsData
<1>7. CASE equ
  <2>1. s.kind = "equ" /\ s.name \in STRING /\ define_constant(s.name, s.value, s.value)
    BY <1>2, <1>7, StatementType DEF s, equ, Defines, Reads
  <2>2. variables' = [F EXCEPT ![P] = [F[P] EXCEPT
                         !.addr = IF Known(s.name) THEN ip ELSE s.value, !.value = s.value]]
    BY <1>3, <2>1 DEF define_constant
  <2>3. After(s) = [F[P] EXCEPT !.addr = IF Known(s.name) THEN ip ELSE s.value,
                                !.value = s.value]
    BY <1>3, <2>1 DEF After
  <2>. QED  BY <1>2, <2>1, <2>2, <2>3, SetsEntry DEF s, Named, Defining, IsNumber
<1>8. CASE equrel
  <2>1. /\ s.kind = "equrel" /\ s.name \in STRING /\ Known(s.of)
        /\ define_constant(s.name, 0, variables[find_variable(s.of)].len)
    BY <1>2, <1>8, StatementType DEF s, equrel, Reads
  <2>2. variables[find_variable(s.of)] = Look(s.of)
    BY <2>1 DEF Look
  <2>3. variables' = [F EXCEPT ![P] = [F[P] EXCEPT
                         !.addr = IF Known(s.name) THEN ip ELSE 0, !.value = Look(s.of).len]]
    BY <1>3, <2>1, <2>2 DEF define_constant
  <2>4. After(s) = [F[P] EXCEPT !.addr = IF Known(s.name) THEN ip ELSE 0,
                                !.value = Look(s.of).len]
    BY <1>3, <2>1 DEF After
  <2>. QED  BY <1>2, <2>1, <2>3, <2>4, SetsEntry DEF s, Named, Defining, IsNumber
<1>9. CASE pushtv
  <2>1. /\ s.kind = "pushtv" /\ s.name \in STRING
        /\ add_variable_ref(s.name, ip + 1, s.len)
    BY <1>2, <1>9, StatementType DEF s, pushtv, Reads
  <2>2. variables' = [F EXCEPT ![P] = [F[P] EXCEPT
                         !.refs = Append(@, [addr |-> ip + 1, len |-> s.len])]]
    BY <1>3, <2>1 DEF add_variable_ref
  <2>3. After(s) = [F[P] EXCEPT !.refs = Append(@, [addr |-> ip + 1, len |-> s.len])]
    BY <1>3, <2>1 DEF After
  <2>. QED  BY <1>2, <2>1, <2>2, <2>3, SetsEntry DEF s, Named
<1>10. CASE include \/ pusht \/ op \/ yyerror
  <2>1. s.kind \in {"include", "pusht", "op", "error"} /\ UNCHANGED variables
    BY <1>10 DEF s, include, pusht, op, yyerror, Reads, table
  <2>. QED  BY <2>1 DEF s, TableStep, Named, Defining, IsData, IsNumber
<1>. QED  BY <1>4, <1>5, <1>6, <1>7, <1>8, <1>9, <1>10 DEF stmts

----------------------------------------------------------------------------
(* What a statement does to the code *)

\* An image has the bytes of a statement at an address, but the operand of a
\* push of a name.
InImage(image, s, at) ==
    /\ Size(s) > 0 => at + Size(s) <= CAPACITY
    /\ s.kind = "op" => image[at] \div 8 = s.op
    /\ s.kind \in {"pusht", "pushtv"} => image[at] = Opcode(PUSH, s.len)
    /\ s.kind = "pusht" => \A k \in 0 .. s.len - 1 :
          image[at + 1 + k] = LE(s.value, s.len)[k]

CodeStep(s) ==
    /\ ip' = ip + Size(s)
    /\ \A a \in 0 .. CAPACITY - 1 : a < ip => prog'[a] = prog[a]
    /\ InImage(prog', s, ip)

LEMMA SizeType == \A s \in Statement : Size(s) \in Nat
BY StatementType, WidthType DEF Size

LEMMA EmitBlock ==
    ASSUME Types, NEW n \in Nat \ {0}, NEW block \in [0 .. n - 1 -> Byte], emit(block, n),
           status' # "wild"
    PROVE  /\ ip' = ip + n /\ ip + n <= CAPACITY
           /\ \A a \in 0 .. CAPACITY - 1 : a < ip => prog'[a] = prog[a]
           /\ \A k \in 0 .. n - 1 : prog'[ip + k] = block[k]
<1>1. prog' = Overwrite(prog, ip, block) /\ ip' = ip + n /\ ip + n <= CAPACITY
  BY DEF emit
<1>2. ip \in Nat /\ prog \in [0 .. CAPACITY - 1 -> Byte] /\ CAPACITY \in Nat
  BY SasmAssumption DEF Types
<1>3. \A a \in 0 .. CAPACITY - 1 : a < ip => prog'[a] = prog[a]
  BY <1>1, <1>2, OverwriteType
<1>4. ASSUME NEW k \in 0 .. n - 1 PROVE prog'[ip + k] = block[k]
  <2>1. ip + k \in 0 .. CAPACITY - 1 /\ (ip + k) - ip = k
    BY <1>1, <1>2
  <2>2. Overwrite(prog, ip, block)[ip + k] = block[k]
    BY <1>2, <2>1 DEF Overwrite
  <2>. QED  BY <1>1, <2>2
<1>. QED  BY <1>1, <1>3, <1>4

LEMMA Emits1 ==
    ASSUME Types, NEW value \in Nat, NEW w \in Width, push1(PUSH, value, w),
           status' # "wild"
    PROVE  /\ ip' = ip + (1 + w) /\ ip + (1 + w) <= CAPACITY
           /\ \A a \in 0 .. CAPACITY - 1 : a < ip => prog'[a] = prog[a]
           /\ prog'[ip] = Opcode(PUSH, w)
           /\ \A k \in 0 .. w - 1 : prog'[ip + 1 + k] = LE(value, w)[k]
<1>1. w \in Nat /\ 1 + w \in Nat \ {0} /\ (1 + w) - 1 = w /\ ip \in Nat
  BY WidthType DEF Types
<1>2. WithOperand(PUSH, value, w) \in [0 .. (1 + w) - 1 -> Byte]
  <2>1. PUSH \in Instruction
    BY DEF Instruction, Op0, Op1
  <2>. QED  BY <1>1, <2>1, WithOperandType
<1>3. emit(WithOperand(PUSH, value, w), 1 + w)
  BY DEF push1
<1>4. /\ ip' = ip + (1 + w) /\ ip + (1 + w) <= CAPACITY
      /\ \A a \in 0 .. CAPACITY - 1 : a < ip => prog'[a] = prog[a]
      /\ \A k \in 0 .. w : prog'[ip + k] = WithOperand(PUSH, value, w)[k]
  BY <1>1, <1>2, <1>3, EmitBlock, ZenonT(30)
<1>5. prog'[ip] = Opcode(PUSH, w)
  <2>1. 0 \in 0 .. w /\ ip + 0 = ip
    BY <1>1
  <2>2. WithOperand(PUSH, value, w)[0] = Opcode(PUSH, w)
    BY <2>1 DEF WithOperand
  <2>. QED  BY <1>4, <2>1, <2>2
<1>6. ASSUME NEW k \in 0 .. w - 1 PROVE prog'[ip + 1 + k] = LE(value, w)[k]
  <2>1. 1 + k \in 0 .. w /\ 1 + k # 0 /\ (1 + k) - 1 = k /\ ip + (1 + k) = ip + 1 + k
    BY <1>1
  <2>2. WithOperand(PUSH, value, w)[1 + k] = LE(value, w)[k]
    BY <2>1 DEF WithOperand
  <2>. QED  BY <1>4, <2>1, <2>2
<1>. QED  BY <1>4, <1>5, <1>6

LEMMA CodeSteps ==
    ASSUME Parsing, stmts, status' # "wild"
    PROVE  CodeStep(stmt)
<1> DEFINE s == stmt
<1>1. PICK kind : Reads(kind)
  BY DEF stmts, lbl_def, include, data, data_str, equ, equrel, res, pusht, pushtv, op,
         yyerror, Defines
<1>2. Types /\ s \in Statement /\ ip \in Nat
  BY <1>1, ReadsType DEF Types
<1>. HIDE DEF s
<1>3. CASE UNCHANGED <<prog, ip>> /\ s.kind \notin {"op", "pusht", "pushtv"}
  <2>1. Size(s) = 0
    BY <1>3 DEF Size
  <2>. QED  BY <1>2, <1>3, <2>1 DEF s, CodeStep, InImage
<1>4. CASE lbl_def \/ data \/ data_str \/ equ \/ equrel \/ res \/ include \/ yyerror
  <2>1. UNCHANGED <<prog, ip>>
    BY <1>4 DEF lbl_def, include, data, data_str, equ, equrel, res, yyerror, Defines
  <2>2. s.kind \notin {"op", "pusht", "pushtv"}
    BY <1>4 DEF s, lbl_def, include, data, data_str, equ, equrel, res, yyerror, Defines, Reads
  <2>. QED  BY <1>3, <2>1, <2>2
<1>5. CASE pusht
  <2>1. s.kind = "pusht" /\ push1(PUSH, s.value, s.len) /\ s.value \in Nat /\ s.len \in Width
    BY <1>2, <1>5, StatementType DEF s, pusht, Reads
  <2>2. Size(s) = 1 + s.len
    BY <2>1 DEF Size
  <2>. QED  BY <1>2, <2>1, <2>2, Emits1 DEF s, CodeStep, InImage
<1>6. CASE pushtv
  <2>1. s.kind = "pushtv" /\ s.len \in Width /\ s.name \in STRING
    BY <1>2, <1>6, StatementType DEF s, pushtv, Reads
  <2>2. PICK addr : push1(PUSH, addr, s.len)
                    /\ addr = find_or_create_variable(s.name)[Place(s.name)].addr
    BY <1>6 DEF s, pushtv
  <2>3. addr \in Nat
    BY <1>2, <2>1, <2>2, EntryType DEF Types, Variable, Entry
  <2>4. Size(s) = 1 + s.len
    BY <2>1 DEF Size
  <2>. QED  BY <1>2, <2>1, <2>2, <2>3, <2>4, Emits1 DEF s, CodeStep, InImage
<1>7. CASE op
  <2>1. s.kind = "op" /\ s.op \in Instruction /\ s.len \in Width
    BY <1>2, <1>7, StatementType DEF s, op, Reads
  <2>2. PICK w \in {1, 2, 4, 8} : push0(s.op, w)
    BY <1>7, <2>1, WidthType, SasmAssumption DEF s, op
  <2>3. [i \in {0} |-> Opcode(s.op, w)] \in [0 .. 1 - 1 -> Byte] /\ Opcode(s.op, w) \div 8 = s.op
    BY <2>1, <2>2, OpcodeType
  <2>4. emit([i \in {0} |-> Opcode(s.op, w)], 1) /\ 1 \in Nat \ {0}
    BY <2>2 DEF push0
  <2>5. /\ ip' = ip + 1 /\ ip + 1 <= CAPACITY
        /\ \A a \in 0 .. CAPACITY - 1 : a < ip => prog'[a] = prog[a]
        /\ \A k \in 0 .. 1 - 1 : prog'[ip + k] = [i \in {0} |-> Opcode(s.op, w)][k]
    BY <1>2, <2>3, <2>4, EmitBlock
  <2>6. prog'[ip] = Opcode(s.op, w)
    <3>1. 0 \in 0 .. 1 - 1 /\ ip + 0 = ip
      BY <1>2
    <3>. QED  BY <2>5, <3>1
  <2>7. Size(s) = 1
    BY <2>1 DEF Size
  <2>. QED  BY <1>2, <2>1, <2>3, <2>5, <2>6, <2>7 DEF s, CodeStep, InImage
<1>. QED  BY <1>4, <1>5, <1>6, <1>7 DEF stmts

----------------------------------------------------------------------------
(* Well-formed programs *)

LEMMA DefinitionIs ==
    ASSUME NEW p, WellFormed(p), NEW n, NEW d \in Definitions(p, n)
    PROVE  /\ d \in DOMAIN p /\ Defining(p[d]) /\ p[d].name = n
           /\ ~IsPredefined(n) /\ Definition(p, n) = d
           /\ \A e \in Definitions(p, n) : e = d
<1>1. d \in DOMAIN p /\ Defining(p[d]) /\ p[d].name = n
  BY DEF Definitions
<1>2. ~IsPredefined(n) /\ \A e \in Definitions(p, n) : e = d
  BY <1>1 DEF WellFormed
<1>. QED  BY <1>1, <1>2 DEF Definition

\* With a statement more, the others still mean what they did.
LEMMA Prefix ==
    ASSUME NEW p \in Seq(Statement), NEW s \in Statement, NEW q, q = Append(p, s),
           WellFormed(q)
    PROVE  /\ WellFormed(p)
           /\ \A n : Definitions(p, n) = Definitions(q, n) \intersect DOMAIN p
           /\ \A i \in DOMAIN p : p[i].kind \in {"equ", "equrel"} =>
                 Constant(q, p[i]) = Constant(p, p[i])
           /\ \A i \in DOMAIN p : UsedBefore(q, i) <=> UsedBefore(p, i)
<1>1. PICK n \in Nat : /\ DOMAIN p = 1 .. n /\ DOMAIN q = 1 .. n + 1
                       /\ \A i \in DOMAIN p : q[i] = p[i]
  BY AppendIs
<1>2. DOMAIN p \subseteq DOMAIN q
  BY <1>1
<1>3. \A m : Definitions(p, m) = Definitions(q, m) \intersect DOMAIN p
  BY <1>1, <1>2 DEF Definitions
<1>4. ASSUME NEW i \in DOMAIN p, p[i].kind = "equrel"
      PROVE  /\ \E d \in Definitions(p, p[i].of) : d < i /\ IsData(p[d])
             /\ Definition(q, p[i].of) = Definition(p, p[i].of)
             /\ Definition(p, p[i].of) \in DOMAIN p
  <2>1. PICK d \in Definitions(q, p[i].of) : d < i /\ IsData(q[d])
    BY <1>1, <1>2, <1>4 DEF WellFormed
  <2>2. d \in DOMAIN q /\ i \in 1 .. n
    BY <1>1, <2>1 DEF Definitions
  <2>3. d \in DOMAIN p
    BY <1>1, <2>1, <2>2
  <2>4. Definitions(q, p[i].of) = {d} /\ Definitions(p, p[i].of) = {d}
    BY <1>3, <2>3, DefinitionIs
  <2>. QED  BY <1>1, <2>1, <2>3, <2>4 DEF Definition
<1>5. ASSUME NEW i \in DOMAIN p, p[i].kind \in {"equ", "equrel"}
      PROVE  Constant(q, p[i]) = Constant(p, p[i])
  BY <1>1, <1>4, <1>5 DEF Constant
<1>6. \A i \in DOMAIN p : UsedBefore(q, i) <=> UsedBefore(p, i)
  <2>1. ASSUME NEW i \in DOMAIN p PROVE \A j \in 1 .. i - 1 : j \in DOMAIN p
    BY <1>1
  <2>. QED  BY <1>1, <2>1 DEF UsedBefore
<1>7. WellFormed(p)
  <2>1. \A i \in DOMAIN p : Defining(p[i]) =>
          ~IsPredefined(p[i].name) /\ \A d \in Definitions(p, p[i].name) : d = i
    BY <1>1, <1>2, <1>3 DEF WellFormed
  <2>2. \A i \in DOMAIN p : p[i].kind = "data" => p[i].value = 0
    BY <1>1, <1>2 DEF WellFormed
  <2>. QED  BY <1>4, <2>1, <2>2 DEF WellFormed
<1>. QED  BY <1>3, <1>5, <1>6, <1>7

LEMMA LengthTaken ==
    ASSUME NEW p, WellFormed(p), NEW i \in DOMAIN p, p[i].kind = "equrel"
    PROVE  \E d \in Definitions(p, p[i].of) : d < i /\ IsData(p[d])
BY DEF WellFormed

\* A name that the last statement defines had no definition before.
LEMMA LastDefinition ==
    ASSUME NEW p \in Seq(Statement), NEW s \in Statement, NEW q, q = Append(p, s),
           WellFormed(q), Defining(s)
    PROVE  /\ ~IsPredefined(s.name) /\ Definitions(p, s.name) = {}
           /\ s.kind = "data" => s.value = 0
           /\ s.kind = "equrel" =>
                 \E d \in Definitions(p, s.of) :
                    IsData(p[d]) /\ Constant(q, s) = Len(DataBytes(p[d]))
           /\ \A i \in DOMAIN q \ DOMAIN p :
                 UsedBefore(q, i) <=>
                    \E j \in DOMAIN p : p[j].kind = "pushtv" /\ p[j].name = s.name
<1>1. PICK n \in Nat : /\ DOMAIN p = 1 .. n /\ DOMAIN q = 1 .. n + 1
                       /\ \A i \in DOMAIN p : q[i] = p[i]
                       /\ q[n + 1] = s
  BY AppendIs
<1>2. n + 1 \in DOMAIN q /\ n + 1 \notin DOMAIN p /\ DOMAIN p \subseteq DOMAIN q
      /\ \A j \in DOMAIN p : j \in 1 .. (n + 1) - 1
  BY <1>1
<1>3. ~IsPredefined(s.name) /\ \A d \in Definitions(q, s.name) : d = n + 1
  BY <1>1, <1>2 DEF WellFormed
<1>4. \A m : Definitions(p, m) = Definitions(q, m) \intersect DOMAIN p
  BY Prefix
<1>5. Definitions(p, s.name) = {}
  BY <1>2, <1>3, <1>4
<1>6. s.kind = "data" => s.value = 0
  BY <1>1, <1>2 DEF WellFormed
<1>7. ASSUME s.kind = "equrel"
      PROVE  \E d \in Definitions(p, s.of) :
                IsData(p[d]) /\ Constant(q, s) = Len(DataBytes(p[d]))
  <2>1. PICK d \in Definitions(q, s.of) : d < n + 1 /\ IsData(q[d])
    BY <1>1, <1>2, <1>7, LengthTaken
  <2>2. d \in DOMAIN q
    BY DEF Definitions
  <2>3. d \in DOMAIN p
    BY <1>1, <2>1, <2>2
  <2>4. d \in Definitions(p, s.of)
    BY <1>4, <2>3
  <2>5. Definition(q, s.of) = d /\ q[d] = p[d]
    BY <1>1, <2>3, DefinitionIs
  <2>6. Constant(q, s) = Len(DataBytes(p[d]))
    BY <1>7, <2>5 DEF Constant
  <2>. QED  BY <2>1, <2>4, <2>5, <2>6
<1>8. ASSUME NEW i \in DOMAIN q \ DOMAIN p
      PROVE  UsedBefore(q, i) <=> \E j \in DOMAIN p : p[j].kind = "pushtv" /\ p[j].name = s.name
  <2>1. i = n + 1 /\ DOMAIN p = 1 .. i - 1
    BY <1>1
  <2>. QED  BY <1>1, <2>1 DEF UsedBefore
<1>. QED  BY <1>3, <1>5, <1>6, <1>7, <1>8

----------------------------------------------------------------------------
(* The code: its statements lie one behind the other *)

History ==
    read \in Seq(Statement) /\ where \in Seq(Nat) /\ DOMAIN where = DOMAIN read

Follows(i) == where[i] = IF i = 1 THEN PROLOGUE ELSE where[i - 1] + Size(read[i - 1])

Layout ==
    /\ CodeEnd \in Nat /\ PROLOGUE <= CodeEnd
    /\ \A i \in DOMAIN read :
          /\ Follows(i)
          /\ PROLOGUE <= where[i] /\ where[i] + Size(read[i]) <= CodeEnd
          /\ \A j \in DOMAIN read : i < j => where[i] + Size(read[i]) <= where[j]

Code ==
    History /\ Layout /\ \A i \in DOMAIN read : InImage(prog, read[i], where[i])

\* The statement parsed is the last of the history.
Grown(s, n) ==
    /\ n \in Nat /\ s \in Statement /\ read' = Append(read, s)
    /\ DOMAIN read = 1 .. n /\ DOMAIN read' = 1 .. n + 1
    /\ \A i \in DOMAIN read : read'[i] = read[i] /\ where'[i] = where[i]
    /\ read'[n + 1] = s /\ where'[n + 1] = ip
    /\ CodeEnd' = ip + Size(s)
    /\ CodeEnd = IF n = 0 THEN PROLOGUE ELSE where[n] + Size(read[n])

LEMMA Grows1 ==
    ASSUME Parsing, History, parse
    PROVE  History' /\ stmt \in Statement /\ \E n \in Nat : Grown(stmt, n)
<1>1. PICK kind : Reads(kind)
  BY DEF parse, stmts, lbl_def, include, data, data_str, equ, equrel, res, pusht, pushtv, op,
         yyerror, Defines
<1>2. PICK s \in Statement : s = stmt
  BY <1>1, ReadsType
<1>3. ip \in Nat
  BY <1>1, ReadsType DEF Types
<1>4. read' = Append(read, s) /\ where' = Append(where, ip)
  BY <1>2 DEF parse
<1>5. read \in Seq(Statement) /\ where \in Seq(Nat) /\ DOMAIN where = DOMAIN read
  BY DEF History
<1>6. PICK n \in Nat : /\ Len(read) = n /\ DOMAIN read = 1 .. n /\ DOMAIN read' = 1 .. n + 1
                       /\ Len(read') = n + 1 /\ read' \in Seq(Statement)
                       /\ \A i \in DOMAIN read : read'[i] = read[i]
                       /\ read'[n + 1] = s
  BY <1>4, <1>5, AppendIs
<1>7. PICK m \in Nat : /\ Len(where) = m /\ DOMAIN where = 1 .. m /\ DOMAIN where' = 1 .. m + 1
                       /\ Len(where') = m + 1 /\ where' \in Seq(Nat)
                       /\ \A i \in DOMAIN where : where'[i] = where[i]
                       /\ where'[m + 1] = ip
  BY <1>3, <1>4, <1>5, AppendIs
<1>8. m = n
  BY <1>5, <1>6, <1>7
<1>9. History'
  BY <1>6, <1>7, <1>8 DEF History
<1>10. CodeEnd' = ip + Size(s)
  <2>1. read' # <<>>
    BY <1>6
  <2>. QED  BY <1>6, <1>7, <1>8, <2>1 DEF CodeEnd
<1>11. CodeEnd = IF n = 0 THEN PROLOGUE ELSE where[n] + Size(read[n])
  <2>1. read = <<>> <=> n = 0
    BY <1>5, <1>6
  <2>. QED  BY <1>6, <1>7, <1>8, <2>1 DEF CodeEnd
<1>12. Grown(s, n)
  BY <1>4, <1>5, <1>6, <1>7, <1>8, <1>10, <1>11 DEF Grown
<1>. QED  BY <1>2, <1>9, <1>12

\* What has been written below an address survives what is written behind it.
LEMMA InImageKept ==
    ASSUME NEW s \in Statement, NEW at \in Nat, NEW old, NEW new,
           \A a \in 0 .. CAPACITY - 1 : at <= a /\ a < at + Size(s) => new[a] = old[a],
           InImage(old, s, at)
    PROVE  InImage(new, s, at)
<1>1. CAPACITY \in Nat /\ Size(s) \in Nat
  BY SasmAssumption, SizeType
<1>2. CASE Size(s) = 0
  <2>1. s.kind \notin {"op", "pusht", "pushtv"}
    BY <1>2, StatementType, WidthType DEF Size
  <2>. QED  BY <1>2, <2>1 DEF InImage
<1>3. CASE Size(s) # 0
  <2>1. at + Size(s) <= CAPACITY /\ Size(s) > 0
    BY <1>1, <1>3 DEF InImage
  <2>2. \A k \in 0 .. Size(s) - 1 : new[at + k] = old[at + k]
    BY <1>1, <2>1
  <2>3. new[at] = old[at]
    <3>1. 0 \in 0 .. Size(s) - 1 /\ at + 0 = at
      BY <1>1, <2>1
    <3>. QED  BY <2>2, <3>1
  <2>4. ASSUME s.kind = "pusht", NEW k \in 0 .. s.len - 1
        PROVE  new[at + 1 + k] = old[at + 1 + k]
    <3>1. Size(s) = 1 + s.len /\ s.len \in Nat
      BY <2>4, StatementType, WidthType DEF Size
    <3>2. 1 + k \in 0 .. Size(s) - 1 /\ at + (1 + k) = at + 1 + k
      BY <3>1
    <3>. QED  BY <2>2, <3>2
  <2>. QED  BY <2>1, <2>3, <2>4 DEF InImage
<1>. QED  BY <1>2, <1>3

LEMMA CodeGrows ==
    ASSUME Parsing, Code, ip = CodeEnd, parse, status' # "wild"
    PROVE  Code' /\ ip' = CodeEnd'
<1>1. History' /\ CodeStep(stmt) /\ stmt \in Statement
  BY Grows1, CodeSteps DEF Code, parse
<1>2. PICK s \in Statement, n \in Nat : s = stmt /\ Grown(s, n)
  BY Grows1 DEF Code
<1>3. /\ ip \in Nat /\ Size(s) \in Nat /\ ip' = ip + Size(s) /\ ip' = CodeEnd'
      /\ PROLOGUE <= ip /\ PROLOGUE \in Nat /\ ip' \in Nat
  <2>1. ip' = ip + Size(s) /\ ip' = CodeEnd'
    BY <1>1, <1>2 DEF CodeStep, Grown
  <2>2. ip \in Nat /\ PROLOGUE <= ip
    BY DEF Code, Layout
  <2>3. PROLOGUE \in Nat /\ Size(s) \in Nat
    BY SizeType, QwordAssumption DEF PROLOGUE
  <2>. QED  BY <2>1, <2>2, <2>3
<1>4. /\ DOMAIN read = 1 .. n /\ DOMAIN read' = 1 .. n + 1
      /\ \A i \in DOMAIN read : read'[i] = read[i] /\ where'[i] = where[i]
      /\ read'[n + 1] = s /\ where'[n + 1] = ip
      /\ ip = IF n = 0 THEN PROLOGUE ELSE where[n] + Size(read[n])
  BY <1>2 DEF Grown
<1>5. \A i \in DOMAIN read : where[i] \in Nat /\ read[i] \in Statement /\ Size(read[i]) \in Nat
  BY SizeType DEF Code, History
<1>6. \A i \in DOMAIN read :
         /\ Follows(i) /\ PROLOGUE <= where[i] /\ where[i] + Size(read[i]) <= ip
         /\ \A j \in DOMAIN read : i < j => where[i] + Size(read[i]) <= where[j]
  BY DEF Code, Layout
<1>7. ASSUME NEW i \in DOMAIN read'
      PROVE  where'[i] = IF i = 1 THEN PROLOGUE ELSE where'[i - 1] + Size(read'[i - 1])
  <2>1. CASE i = n + 1
    <3>1. i # 1 => n \in DOMAIN read /\ i - 1 = n /\ n # 0
      BY <1>4, <2>1
    <3>2. i = 1 => n = 0
      BY <2>1
    <3>. QED  BY <1>4, <2>1, <3>1, <3>2
  <2>2. CASE i # n + 1
    <3>1. i \in DOMAIN read /\ (i # 1 => i - 1 \in DOMAIN read)
      BY <1>4, <2>2
    <3>. QED  BY <1>4, <1>6, <3>1 DEF Follows
  <2>. QED  BY <2>1, <2>2
<1>8. ASSUME NEW i \in DOMAIN read'
      PROVE  /\ PROLOGUE <= where'[i] /\ where'[i] + Size(read'[i]) <= ip'
             /\ \A j \in DOMAIN read' : i < j => where'[i] + Size(read'[i]) <= where'[j]
  <2>1. CASE i = n + 1
    BY <1>3, <1>4, <2>1
  <2>2. CASE i # n + 1
    <3>1. i \in DOMAIN read
      BY <1>4, <2>2
    <3>2. ASSUME NEW j \in DOMAIN read', i < j
          PROVE  where'[i] + Size(read'[i]) <= where'[j]
      <4>1. j = n + 1 \/ j \in DOMAIN read
        BY <1>4
      <4>. QED  BY <1>4, <1>6, <3>1, <3>2, <4>1
    <3>. QED  BY <1>3, <1>4, <1>5, <1>6, <3>1, <3>2
  <2>. QED  BY <2>1, <2>2
<1>9. ASSUME NEW i \in DOMAIN read' PROVE InImage(prog', read'[i], where'[i])
  <2>1. CASE i = n + 1
    BY <1>1, <1>2, <1>4, <2>1 DEF CodeStep
  <2>2. CASE i # n + 1
    <3>1. i \in DOMAIN read /\ InImage(prog, read[i], where[i])
      BY <1>4, <2>2 DEF Code
    <3>2. \A a \in 0 .. CAPACITY - 1 :
             where[i] <= a /\ a < where[i] + Size(read[i]) => prog'[a] = prog[a]
      <4>1. \A a \in 0 .. CAPACITY - 1 : a < ip => prog'[a] = prog[a]
        BY <1>1 DEF CodeStep
      <4>. QED  BY <1>3, <1>5, <1>6, <3>1, <4>1, SasmAssumption
    <3>. QED  BY <1>4, <1>5, <3>1, <3>2, InImageKept
  <2>. QED  BY <2>1, <2>2
<1>10. Layout'
  BY <1>3, <1>7, <1>8 DEF Layout, Follows
<1>. QED  BY <1>1, <1>3, <1>9, <1>10 DEF Code

----------------------------------------------------------------------------
(* The references: they are the operands of the pushes of names *)

Reference(i) == [addr |-> where[i] + 1, len |-> read[i].len]

Referenced ==
    /\ \A i \in DOMAIN read : read[i].kind = "pushtv" =>
          /\ Known(read[i].name)
          /\ \E r \in DOMAIN Look(read[i].name).refs :
                Look(read[i].name).refs[r] = Reference(i)
    /\ \A n : \A r \in DOMAIN Look(n).refs :
          \E i \in DOMAIN read : read[i].kind = "pushtv" /\ Look(n).refs[r] = Reference(i)

NamesRead ==
    \A n : Known(n) =>
        IsPredefined(n) \/ \E i \in DOMAIN read : Named(read[i]) /\ read[i].name = n

LEMMA AfterRefs ==
    ASSUME Types, Unique, NEW s \in Statement, Named(s),
           NEW r, r = [addr |-> ip + 1, len |-> s.len]
    PROVE  LET old == Look(s.name).refs
               new == After(s).refs
           IN /\ \A x \in DOMAIN old : x \in DOMAIN new /\ new[x] = old[x]
              /\ s.kind = "pushtv" => \E x \in DOMAIN new : new[x] = r
              /\ \A x \in DOMAIN new :
                    \/ x \in DOMAIN old /\ new[x] = old[x]
                    \/ s.kind = "pushtv" /\ new[x] = r
<1>1. Look(s.name) \in Variable
  BY AfterType
<1>2. PICK old : old = Look(s.name).refs /\ old \in Seq([addr : Nat, len : Width])
  BY <1>1 DEF Variable, Entry
<1>3. CASE s.kind # "pushtv"
  <2>1. After(s).refs = Look(s.name).refs
    BY <1>1, <1>3 DEF After, Variable, Entry, Named, Defining, IsData, IsNumber
  <2>. QED  BY <1>3, <2>1, Zenon
<1>4. CASE s.kind = "pushtv"
  <2>1. r \in [addr : Nat, len : Width]
    BY <1>4, StatementType DEF Types
  <2>2. After(s).refs = Append(old, r)
    BY <1>1, <1>2, <1>4 DEF After, Variable, Entry
  <2>3. /\ Len(old) \in Nat
        /\ DOMAIN old = 1 .. Len(old) /\ DOMAIN Append(old, r) = 1 .. Len(old) + 1
        /\ \A x \in DOMAIN old : Append(old, r)[x] = old[x]
        /\ Append(old, r)[Len(old) + 1] = r
    BY <1>2, <2>1, AppendIs, SMTT(30)
  <2>4. PICK n, new : n = Len(old) /\ new = Append(old, r)
    OBVIOUS
  <2>5. /\ DOMAIN old = 1 .. n /\ DOMAIN new = 1 .. n + 1
        /\ \A x \in DOMAIN old : new[x] = old[x]
        /\ new[n + 1] = r
    BY <2>3, <2>4, Zenon
  <2>6. /\ n \in Nat
        /\ \A x \in 1 .. n : x \in 1 .. n + 1
        /\ n + 1 \in 1 .. n + 1
        /\ \A x \in 1 .. n + 1 : x \in 1 .. n \/ x = n + 1
    <3>1. n \in Nat
      BY <2>3, <2>4, Zenon
    <3>. QED  BY <3>1
  <2>. QED  BY <1>2, <1>4, <2>2, <2>4, <2>5, <2>6, Zenon
<1>. QED  BY <1>3, <1>4

LEMMA RefsGrow ==
    ASSUME Types, Unique, Referenced, NEW s, NEW n, Grown(s, n), TableStep(s)
    PROVE  Referenced'
<1>1. /\ s \in Statement /\ n \in Nat /\ DOMAIN read = 1 .. n /\ DOMAIN read' = 1 .. n + 1
      /\ \A i \in DOMAIN read : read'[i] = read[i] /\ where'[i] = where[i]
      /\ read'[n + 1] = s /\ where'[n + 1] = ip
  BY DEF Grown
<1>2. /\ \A i \in DOMAIN read : i \in DOMAIN read' /\ Reference(i)' = Reference(i)
      /\ n + 1 \in DOMAIN read' /\ Reference(n + 1)' = [addr |-> ip + 1, len |-> s.len]
      /\ \A i \in DOMAIN read' : i \in DOMAIN read \/ i = n + 1
  BY <1>1 DEF Reference
<1>3. CASE ~Named(s)
  <2>1. variables' = variables /\ s.kind # "pushtv"
    BY <1>3 DEF TableStep, Named
  <2>2. \A m : (Known(m)' <=> Known(m)) /\ Look(m)' = Look(m)
    BY <2>1 DEF Known, Look, find_variable, Places
  <2>3. ASSUME NEW i \in DOMAIN read', read'[i].kind = "pushtv"
        PROVE  /\ Known(read'[i].name)
               /\ \E r \in DOMAIN Look(read'[i].name).refs :
                     Look(read'[i].name).refs[r] = Reference(i)'
    <3>1. i \in DOMAIN read /\ read'[i] = read[i]
      BY <1>1, <1>2, <2>1, <2>3
    <3>. QED  BY <1>2, <2>3, <3>1 DEF Referenced
  <2>4. ASSUME NEW m, NEW r \in DOMAIN Look(m).refs
        PROVE  \E i \in DOMAIN read' :
                  read'[i].kind = "pushtv" /\ Look(m).refs[r] = Reference(i)'
    <3>1. PICK i \in DOMAIN read : read[i].kind = "pushtv" /\ Look(m).refs[r] = Reference(i)
      BY DEF Referenced
    <3>. QED  BY <1>1, <1>2, <3>1
  <2>. QED  BY <2>2, <2>3, <2>4 DEF Referenced
<1>4. CASE Named(s)
  <2> DEFINE old == Look(s.name).refs
             new == After(s).refs
             mine == [addr |-> ip + 1, len |-> s.len]
  <2>1. /\ Known(s.name)' /\ Look(s.name)' = After(s)
        /\ \A m : m # s.name => (Known(m)' <=> Known(m)) /\ Look(m)' = Look(m)
    BY <1>4 DEF TableStep, Sets
  <2>2. /\ \A x \in DOMAIN old : x \in DOMAIN new /\ new[x] = old[x]
        /\ s.kind = "pushtv" => \E x \in DOMAIN new : new[x] = mine
        /\ \A x \in DOMAIN new :
              \/ x \in DOMAIN old /\ new[x] = old[x]
              \/ s.kind = "pushtv" /\ new[x] = mine
    BY <1>1, <1>4, AfterRefs
  <2>. HIDE DEF mine
  <2>3. \A m : Known(m) => Known(m)'
    BY <2>1
  <2>4. \A m : \A x \in DOMAIN Look(m).refs :
           x \in DOMAIN Look(m)'.refs /\ Look(m)'.refs[x] = Look(m).refs[x]
    BY <2>1, <2>2
  <2>5. ASSUME NEW i \in DOMAIN read', read'[i].kind = "pushtv", NEW m, m = read'[i].name
        PROVE  Known(m)' /\ \E r \in DOMAIN Look(m)'.refs : Look(m)'.refs[r] = Reference(i)'
    <3>1. CASE i \in DOMAIN read
      <4>1. Known(m) /\ \E r \in DOMAIN Look(m).refs : Look(m).refs[r] = Reference(i)
        BY <1>1, <2>5, <3>1 DEF Referenced
      <4>. QED  BY <1>2, <2>3, <2>4, <3>1, <4>1
    <3>2. CASE i = n + 1
      <4>1. m = s.name /\ s.kind = "pushtv"
        BY <1>1, <2>5, <3>2
      <4>. QED  BY <1>2, <2>1, <2>2, <3>2, <4>1 DEF mine
    <3>. QED  BY <1>2, <3>1, <3>2
  <2>6. ASSUME NEW m, NEW r \in DOMAIN Look(m)'.refs
        PROVE  \E i \in DOMAIN read' :
                  read'[i].kind = "pushtv" /\ Look(m)'.refs[r] = Reference(i)'
    <3>1. CASE r \in DOMAIN Look(m).refs /\ Look(m)'.refs[r] = Look(m).refs[r]
      <4>1. PICK i \in DOMAIN read : read[i].kind = "pushtv" /\ Look(m).refs[r] = Reference(i)
        BY <3>1 DEF Referenced
      <4>. QED  BY <1>1, <1>2, <3>1, <4>1
    <3>2. CASE s.kind = "pushtv" /\ Look(m)'.refs[r] = mine
      BY <1>1, <1>2, <3>2 DEF mine
    <3>. QED  BY <2>1, <2>2, <2>6, <3>1, <3>2
  <2>. HIDE DEF old, new
  <2>. QED  BY <2>5, <2>6 DEF Referenced
<1>. QED  BY <1>3, <1>4

LEMMA NamesGrow ==
    ASSUME NamesRead, NEW s, NEW n, Grown(s, n), TableStep(s)
    PROVE  NamesRead'
<1>1. /\ n \in Nat /\ DOMAIN read = 1 .. n /\ DOMAIN read' = 1 .. n + 1
      /\ \A i \in DOMAIN read : i \in DOMAIN read' /\ read'[i] = read[i]
      /\ n + 1 \in DOMAIN read' /\ read'[n + 1] = s
  BY DEF Grown
<1>2. \A m : Known(m)' => Known(m) \/ (Named(s) /\ m = s.name)
  <2>1. CASE Named(s)
    BY <2>1 DEF TableStep, Sets
  <2>2. CASE ~Named(s)
    BY <2>2 DEF TableStep, Known, find_variable, Places
  <2>. QED  BY <2>1, <2>2
<1>. QED  BY <1>1, <1>2 DEF NamesRead

----------------------------------------------------------------------------
(* The table holds what the statements mean *)

\* An entry that nothing has been said of, but where it is used.
Plain(v) == v.value = 0 /\ v.addr = 0 /\ v.len = 0 /\ v.data = NULL

\* An entry as a definition leaves it; c is the number of a label or constant.
Means(v, s, c) ==
    /\ IsNumber(s) => v.len = 0 /\ Value(v) = c
    /\ s.kind = "lbl_def" => v.addr = c
    /\ IsData(s) =>
          /\ v.value = 0 /\ v.len = Len(DataBytes(s))
          /\ v.data # NULL => v.len <= Len(v.data)
          /\ \A x \in 0 .. v.len - 1 : Contents(v)[x] = DataBytes(s)[x + 1]

IsPort(v, n) == v.len = 0 /\ v.value = 0 /\ v.addr = PredefinedAddr(n)

Bound ==
    /\ \A d \in DOMAIN read : Defining(read[d]) =>
          /\ Known(read[d].name)
          /\ Means(Look(read[d].name), read[d], Number(read, where, d))
    /\ \A n : IsPredefined(n) => Known(n) /\ IsPort(Look(n), n)
    /\ \A n : ~IsPredefined(n) /\ Definitions(read, n) = {} => Plain(Look(n))

LEMMA AfterMeans ==
    ASSUME Types, Unique, NEW s \in Statement, Defining(s), Plain(Look(s.name)),
           NEW value, NEW c,
           s.kind = "data" => s.value = 0,
           s.kind = "equ" => value = s.value,
           s.kind = "equrel" => value = Look(s.of).len,
           c = IF s.kind = "lbl_def" \/ (value = 0 /\ Known(s.name)) THEN ip ELSE value
    PROVE  Means(After(s), s, c)
<1> DEFINE old == Look(s.name)
<1>1. old \in Entry /\ Plain(old)
  BY AfterType DEF Named, Variable
<1>2. ip \in Nat
  BY DEF Types
<1>3. CASE s.kind = "lbl_def"
  <2>1. After(s) = [old EXCEPT !.addr = ip]
    BY <1>3 DEF After
  <2>. HIDE DEF old
  <2>. QED  BY <1>1, <1>2, <1>3, <2>1 DEF Entry, Plain, Means, IsData, IsNumber, Value
<1>4. CASE s.kind \in {"equ", "equrel"}
  <2>1. PICK addr \in Nat : /\ After(s) = [old EXCEPT !.addr = addr, !.value = value]
                            /\ value = 0 => addr = c
    BY <1>2, <1>4, StatementType DEF After
  <2>2. value # 0 => c = value
    BY <1>4
  <2>. HIDE DEF old
  <2>. QED  BY <1>1, <1>2, <1>4, <2>1, <2>2 DEF Entry, Plain, Means, IsData, Value
<1>5. CASE s.kind = "data"
  <2>1. After(s) = [old EXCEPT !.value = 0, !.len = s.len]
    BY <1>5 DEF After
  <2>2. s.len \in Nat /\ s.len = Len(DataBytes(s))
    BY <1>5, DataBytesType, StatementType, WidthType DEF IsData
  <2>3. PICK v : v = After(s)
    OBVIOUS
  <2>. HIDE DEF old
  <2>4. v.value = 0 /\ v.len = s.len /\ v.data = NULL
    BY <1>1, <2>1, <2>3 DEF Entry, Plain
  <2>5. ASSUME NEW x \in 0 .. v.len - 1 PROVE Contents(v)[x] = DataBytes(s)[x + 1]
    <3>1. x + 1 \in 1 .. s.len /\ (x + 1) - 1 = x
      BY <2>2, <2>4
    <3>2. DataBytes(s)[x + 1] = LE(0, s.len)[x]
      BY <1>5, <3>1 DEF DataBytes
    <3>3. Contents(v) = LE(0, s.len)
      BY <2>4 DEF Contents
    <3>. QED  BY <3>2, <3>3
  <2>. QED  BY <1>5, <2>2, <2>3, <2>4, <2>5 DEF Means, IsNumber
<1>6. CASE s.kind \in {"data_str", "res"}
  <2>1. PICK n \in Nat, bytes \in Seq(Byte) : n = Len(DataBytes(s)) /\ bytes = DataBytes(s)
    BY <1>6, DataBytesType DEF IsData
  <2>2. After(s) = [old EXCEPT !.len = n, !.data = bytes]
    BY <1>6, <2>1 DEF After
  <2>3. bytes # NULL
    BY NullIs
  <2>4. PICK v : v = After(s)
    OBVIOUS
  <2>. HIDE DEF old
  <2>5. v.value = 0 /\ v.len = n /\ v.data = bytes /\ v.len <= Len(v.data)
    BY <1>1, <2>1, <2>2, <2>4 DEF Entry, Plain
  <2>6. ASSUME NEW x \in 0 .. v.len - 1 PROVE Contents(v)[x] = bytes[x + 1]
    <3>1. v.data # NULL
      BY <2>1, <2>3, <2>5
    <3>. QED  BY <2>5, <3>1 DEF Contents
  <2>. QED  BY <1>6, <2>1, <2>4, <2>5, <2>6 DEF Means, IsNumber
<1>. QED  BY <1>3, <1>4, <1>5, <1>6 DEF Defining, IsData, IsNumber

\* A use changes nothing of what a name means.
SameMeaning(v, w) ==
    v.value = w.value /\ v.addr = w.addr /\ v.len = w.len /\ v.data = w.data

LEMMA AfterUse ==
    ASSUME Types, Unique, NEW s \in Statement, s.kind = "pushtv"
    PROVE  SameMeaning(After(s), Look(s.name))
BY AfterType DEF Named, After, Variable, Entry, SameMeaning

LEMMA SameMeans ==
    ASSUME NEW v, NEW w, SameMeaning(w, v)
    PROVE  /\ Plain(v) => Plain(w)
           /\ \A n : IsPort(v, n) => IsPort(w, n)
           /\ \A s, c : Means(v, s, c) => Means(w, s, c)
<1>1. w.value = v.value /\ w.addr = v.addr /\ w.len = v.len /\ w.data = v.data
  BY DEF SameMeaning
<1>2. Value(w) = Value(v) /\ Contents(w) = Contents(v)
  BY <1>1 DEF Value, Contents
<1>3. ASSUME NEW s, NEW c, Means(v, s, c) PROVE Means(w, s, c)
  BY <1>1, <1>2, <1>3, ZenonT(30) DEF Means
<1>4. ASSUME NEW n, IsPort(v, n) PROVE IsPort(w, n)
  BY <1>1, <1>4 DEF IsPort
<1>. QED  BY <1>1, <1>3, <1>4 DEF Plain

LEMMA BoundGrows ==
    ASSUME Types, Unique, Referenced, NamesRead, History, WellFormed(read) => Bound,
           NEW s, NEW n, Grown(s, n), TableStep(s), WellFormed(read')
    PROVE  Bound'
<1>1. /\ s \in Statement /\ n \in Nat /\ DOMAIN read = 1 .. n /\ DOMAIN read' = 1 .. n + 1
      /\ \A i \in DOMAIN read : read'[i] = read[i] /\ where'[i] = where[i]
      /\ read'[n + 1] = s /\ where'[n + 1] = ip
      /\ read' = Append(read, s) /\ read \in Seq(Statement)
  BY DEF Grown, History
<1>2. /\ WellFormed(read)
      /\ \A m : Definitions(read, m) = Definitions(read', m) \intersect DOMAIN read
      /\ \A i \in DOMAIN read : read[i].kind \in {"equ", "equrel"} =>
            Constant(read', read[i]) = Constant(read, read[i])
      /\ \A i \in DOMAIN read : UsedBefore(read', i) <=> UsedBefore(read, i)
  BY <1>1, Prefix
<1>3. Bound
  BY <1>2
<1>4. ASSUME NEW d \in DOMAIN read, NEW v, Means(v, read[d], Number(read, where, d))
      PROVE  Means(v, read[d], Number(read', where', d))
  <2>1. CASE IsNumber(read[d])
    <3>1. Number(read', where', d) = Number(read, where, d)
      BY <1>1, <1>2, <2>1 DEF Number, IsNumber
    <3>. QED  BY <1>4, <3>1
  <2>2. CASE ~IsNumber(read[d])
    BY <1>4, <2>2 DEF Means, IsNumber
  <2>. QED  BY <2>1, <2>2
<1>5. CASE ~Defining(s)
  <2>1. \A m : (Known(m) => Known(m)') /\ SameMeaning(Look(m)', Look(m))
    <3>1. CASE Named(s)
      <4>1. /\ Known(s.name)' /\ Look(s.name)' = After(s)
            /\ \A m : m # s.name => (Known(m)' <=> Known(m)) /\ Look(m)' = Look(m)
        BY <3>1 DEF TableStep, Sets
      <4>2. SameMeaning(After(s), Look(s.name))
        BY <1>1, <1>5, <3>1, AfterUse DEF Named
      <4>. QED  BY <4>1, <4>2 DEF SameMeaning
    <3>2. CASE ~Named(s)
      <4>1. variables' = variables
        BY <3>2 DEF TableStep
      <4>. QED  BY <4>1 DEF Known, Look, find_variable, Places, SameMeaning
    <3>. QED  BY <3>1, <3>2
  <2>2. ASSUME NEW d \in DOMAIN read', Defining(read'[d]), NEW m, m = read'[d].name
        PROVE  Known(m)' /\ Means(Look(m)', read'[d], Number(read', where', d))
    <3>1. d \in DOMAIN read /\ read'[d] = read[d] /\ where'[d] = where[d]
      BY <1>1, <1>5, <2>2
    <3>2. Known(m) /\ Means(Look(m), read[d], Number(read', where', d))
      BY <1>3, <1>4, <2>2, <3>1 DEF Bound
    <3>. QED  BY <2>1, <3>1, <3>2, SameMeans
  <2>3. ASSUME NEW m, IsPredefined(m) PROVE Known(m)' /\ IsPort(Look(m)', m)
    BY <1>3, <2>1, <2>3, SameMeans DEF Bound
  <2>4. ASSUME NEW m, ~IsPredefined(m), Definitions(read', m) = {} PROVE Plain(Look(m)')
    BY <1>2, <1>3, <2>1, <2>4, SameMeans DEF Bound
  <2>. QED  BY <2>2, <2>3, <2>4 DEF Bound
<1>6. CASE Defining(s)
  <2> DEFINE c == Constant(read', s)
  <2>1. /\ Known(s.name)' /\ Look(s.name)' = After(s)
        /\ \A m : m # s.name => (Known(m)' <=> Known(m)) /\ Look(m)' = Look(m)
    BY <1>6 DEF TableStep, Sets, Named
  <2>2. /\ ~IsPredefined(s.name) /\ Definitions(read, s.name) = {}
        /\ s.kind = "data" => s.value = 0
        /\ s.kind = "equrel" =>
              \E d \in Definitions(read, s.of) : IsData(read[d]) /\ c = Len(DataBytes(read[d]))
        /\ UsedBefore(read', n + 1) <=>
              \E j \in DOMAIN read : read[j].kind = "pushtv" /\ read[j].name = s.name
    <3>1. read \in Seq(Statement) /\ s \in Statement /\ read' = Append(read, s)
      BY <1>1
    <3>2. \A q : q = Append(read, s) /\ WellFormed(q) =>
             /\ ~IsPredefined(s.name) /\ Definitions(read, s.name) = {}
             /\ s.kind = "data" => s.value = 0
             /\ s.kind = "equrel" =>
                   \E d \in Definitions(read, s.of) :
                      IsData(read[d]) /\ Constant(q, s) = Len(DataBytes(read[d]))
             /\ \A i \in DOMAIN q \ DOMAIN read :
                   UsedBefore(q, i) <=>
                      \E j \in DOMAIN read : read[j].kind = "pushtv" /\ read[j].name = s.name
      BY <1>6, <3>1, LastDefinition, ZenonT(30)
    <3>3. n + 1 \in DOMAIN read' \ DOMAIN read
      BY <1>1
    <3>. QED  BY <3>1, <3>2, <3>3
  <2>3. Plain(Look(s.name))
    BY <1>3, <2>2 DEF Bound
  <2>4. s.kind = "equ" => c = s.value
    BY DEF Constant
  <2>5. s.kind = "equrel" => c = Look(s.of).len
    <3>. SUFFICES ASSUME s.kind = "equrel" PROVE c = Look(s.of).len
      OBVIOUS
    <3>1. PICK d \in Definitions(read, s.of) : IsData(read[d]) /\ c = Len(DataBytes(read[d]))
      BY <2>2
    <3>2. d \in DOMAIN read /\ Defining(read[d]) /\ read[d].name = s.of
      BY DEF Definitions
    <3>. HIDE DEF c
    <3>3. Means(Look(s.of), read[d], Number(read, where, d))
      BY <1>3, <3>2 DEF Bound
    <3>. QED  BY <3>1, <3>3 DEF Means
  <2>6. Known(s.name) <=> UsedBefore(read', n + 1)
    <3>. HIDE DEF c
    <3>1. \A j \in DOMAIN read : ~(Defining(read[j]) /\ read[j].name = s.name)
      BY <2>2 DEF Definitions
    <3>. QED  BY <2>2, <3>1 DEF NamesRead, Named, Referenced
  <2>. HIDE DEF c
  <2>7. Means(After(s), s, Number(read', where', n + 1))
    <3>1. PICK x : x = Number(read', where', n + 1)
      OBVIOUS
    <3>2. x = IF s.kind = "lbl_def" \/ (c = 0 /\ Known(s.name)) THEN ip ELSE c
      BY <1>1, <2>6, <3>1 DEF Number, c
    <3>3. PICK k : k = c
      OBVIOUS
    <3>4. /\ s.kind = "data" => s.value = 0
          /\ s.kind = "equ" => k = s.value
          /\ s.kind = "equrel" => k = Look(s.of).len
          /\ x = IF s.kind = "lbl_def" \/ (k = 0 /\ Known(s.name)) THEN ip ELSE k
      BY <2>2, <2>4, <2>5, <3>2, <3>3
    <3>5. s \in Statement
      BY <1>1
    <3>6. Means(After(s), s, x)
      BY <1>6, <2>3, <3>4, <3>5, AfterMeans
    <3>. QED  BY <3>1, <3>6
  <2>8. ASSUME NEW d \in DOMAIN read', Defining(read'[d]), NEW m, m = read'[d].name
        PROVE  Known(m)' /\ Means(Look(m)', read'[d], Number(read', where', d))
    <3>1. CASE d = n + 1
      BY <1>1, <2>1, <2>7, <2>8, <3>1
    <3>2. CASE d # n + 1
      <4>1. d \in DOMAIN read /\ read'[d] = read[d] /\ where'[d] = where[d]
        BY <1>1, <3>2
      <4>2. Known(m) /\ Means(Look(m), read[d], Number(read', where', d))
        BY <1>3, <1>4, <2>8, <4>1 DEF Bound
      <4>3. m # s.name
        BY <2>2, <2>8, <4>1 DEF Definitions
      <4>. QED  BY <2>1, <4>1, <4>2, <4>3
    <3>. QED  BY <3>1, <3>2
  <2>9. ASSUME NEW m, IsPredefined(m) PROVE Known(m)' /\ IsPort(Look(m)', m)
    BY <1>3, <2>1, <2>2, <2>9 DEF Bound
  <2>10. ASSUME NEW m, ~IsPredefined(m), Definitions(read', m) = {} PROVE Plain(Look(m)')
    <3>1. m # s.name
      BY <1>1, <1>6, <2>10 DEF Definitions
    <3>. QED  BY <1>2, <1>3, <2>1, <2>10, <3>1 DEF Bound
  <2>. QED  BY <2>8, <2>9, <2>10 DEF Bound
<1>. QED  BY <1>5, <1>6

----------------------------------------------------------------------------
(* Writing the data *)

\* Each entry k with contents has them at start[k], behind the code and apart
\* from the others; the operands referred to are what their names stand for.
Written(start) ==
    /\ start \in [DOMAIN variables -> Nat]
    /\ variables' \in Seq(Variable) /\ DOMAIN variables' = DOMAIN variables
    /\ \A k \in DOMAIN variables :
          variables'[k] = IF variables[k].len > 0
                          THEN [variables[k] EXCEPT !.addr = start[k]] ELSE variables[k]
    /\ prog_len' \in Nat /\ ip <= prog_len' /\ prog_len' <= CAPACITY
    /\ \A k \in DOMAIN variables : \A x \in 0 .. variables[k].len - 1 :
          /\ start[k] + x \in ip .. prog_len' - 1
          /\ prog'[start[k] + x] = Contents(variables[k])[x]
    /\ \A j, k \in DOMAIN variables :
       \A x \in 0 .. variables[j].len - 1, y \in 0 .. variables[k].len - 1 :
          j # k => start[j] + x # start[k] + y
    /\ \A a \in 0 .. CAPACITY - 1 :
          a < ip /\ (\A q \in Refs : a \notin Cells(q)) => prog'[a] = prog[a]
    /\ \A q \in Refs : \A x \in 0 .. ref(q).len - 1 :
          prog'[ref(q).addr + x] = LE(Value(variables'[q[1]]), ref(q).len)[x]

LEMMA WriteDataSteps ==
    ASSUME Parsing, write_data, status' # "wild"
    PROVE  /\ phase = "data" /\ phase' = "main" /\ status' = "ok"
           /\ \E start : Written(start)
<1> DEFINE len(k) == variables[k].len
           start == [k \in DOMAIN variables |-> DataEnd[k - 1]]
<1>1. /\ status = "ok" /\ phase = "data" /\ ~WriteUndefined
      /\ variables' = Placed /\ prog' = Patched(WithData, Placed)
      /\ prog_len' = DataEnd[Len(variables)] /\ phase' = "main" /\ status' = "ok"
  BY DEF write_data
<1>2. Types /\ Apart
  BY <1>1 DEF Parsing
<1>3. PICK n \in Nat :
         /\ n = Len(variables) /\ DOMAIN variables = 1 .. n
         /\ DataEnd \in [0 .. n -> Nat] /\ DataEnd[0] = ip
         /\ \A k \in 1 .. n : /\ variables[k] \in Variable /\ variables[k].len \in Nat
                              /\ DataEnd[k] = DataEnd[k - 1] + variables[k].len
         /\ \A i \in 0 .. n : \A j \in i .. n : DataEnd[i] <= DataEnd[j]
  BY <1>2, DataEndSteps
<1>. HIDE DEF DataEnd
<1>4. prog_len' = DataEnd[n] /\ ~(DataEnd[n] > CAPACITY)
  BY <1>1, <1>3, Zenon DEF WriteUndefined
<1>5. \A k \in 1 .. n : /\ k - 1 \in 0 .. n /\ DataEnd[k - 1] \in Nat /\ DataEnd[k] \in Nat
                        /\ DataEnd[k] <= DataEnd[n] /\ ip <= DataEnd[k - 1]
                        /\ start[k] = DataEnd[k - 1] /\ len(k) \in Nat
                        /\ DataEnd[k] = DataEnd[k - 1] + len(k)
  <2>1. \A k \in 1 .. n : k \in 0 .. n /\ n \in k .. n /\ k - 1 \in 0 .. n /\ 0 \in 0 .. n
    OBVIOUS
  <2>. QED  BY <1>3, <2>1
<1>6. prog_len' \in Nat /\ ip <= prog_len' /\ prog_len' <= CAPACITY
  <2>1. n \in 0 .. n /\ 0 \in 0 .. n
    OBVIOUS
  <2>. QED  BY <1>3, <1>4, <2>1, SasmAssumption
<1>7. start \in [DOMAIN variables -> Nat]
  BY <1>3, <1>5
<1>8. /\ Placed \in Seq(Variable) /\ DOMAIN Placed = DOMAIN variables
      /\ \A k \in DOMAIN variables :
            Placed[k] = IF variables[k].len > 0
                        THEN [variables[k] EXCEPT !.addr = DataEnd[k - 1]] ELSE variables[k]
  BY <1>2, PlacedType
<1>9. \A k \in DOMAIN variables : Placed[k].refs = variables[k].refs
  BY <1>3, <1>8 DEF Variable, Entry
<1>10. /\ WithData \in [0 .. CAPACITY - 1 -> Byte]
       /\ \A a \in 0 .. CAPACITY - 1 : a < ip => WithData[a] = prog[a]
       /\ \A k \in DOMAIN variables : \A x \in 0 .. variables[k].len - 1 :
             /\ DataEnd[k - 1] + x \in ip .. CAPACITY - 1
             /\ WithData[DataEnd[k - 1] + x] = Contents(variables[k])[x]
  BY <1>1, <1>2, WithDataType
<1>. HIDE DEF start, len
<1>11. \A i \in DOMAIN Placed : \A r \in DOMAIN Placed[i].refs :
          /\ <<i, r>> \in Refs /\ Placed[i].refs[r] = ref(<<i, r>>)
          /\ \A a \in Int : a - Placed[i].refs[r].addr \in 0 .. Placed[i].refs[r].len - 1
                            <=> a \in Cells(<<i, r>>)
  <2>. SUFFICES ASSUME NEW i \in DOMAIN variables, NEW r \in DOMAIN variables[i].refs
                PROVE  /\ <<i, r>> \in Refs /\ variables[i].refs[r] = ref(<<i, r>>)
                       /\ \A a \in Int :
                             a - variables[i].refs[r].addr \in 0 .. variables[i].refs[r].len - 1
                             <=> a \in Cells(<<i, r>>)
    BY <1>8, <1>9
  <2>1. <<i, r>> \in Refs /\ ref(<<i, r>>) = variables[i].refs[r]
    BY RefsMembers DEF ref
  <2>2. PICK addr \in Nat, width \in Nat :
           addr = variables[i].refs[r].addr /\ width = variables[i].refs[r].len
    BY <1>2, <2>1, RefType, WidthType DEF Types
  <2>3. Cells(<<i, r>>) = addr .. addr + width - 1
    BY <2>1, <2>2 DEF Cells
  <2>4. \A a \in Int : a - addr \in 0 .. width - 1 <=> a \in addr .. addr + width - 1
    OBVIOUS
  <2>. QED  BY <2>1, <2>2, <2>3, <2>4
<1>12. \A q \in Refs :
          /\ Cells(q) \subseteq PROLOGUE .. ip - 1
          /\ \A r \in Refs : r # q => Cells(q) \intersect Cells(r) = {}
  BY <1>2 DEF Apart, InCode
<1>13. ASSUME NEW a \in 0 .. CAPACITY - 1, \A q \in Refs : a \notin Cells(q)
       PROVE  prog'[a] = WithData[a]
  <2>1. \A i \in DOMAIN Placed : \A r \in DOMAIN Placed[i].refs :
           a - Placed[i].refs[r].addr \notin 0 .. Placed[i].refs[r].len - 1
    <3>1. a \in Int
      BY SasmAssumption
    <3>. QED  BY <1>11, <1>13, <3>1
  <2>. QED  BY <1>1, <1>8, <1>10, <2>1, PatchedType
<1>14. ASSUME NEW q \in Refs, NEW x \in 0 .. ref(q).len - 1
       PROVE  prog'[ref(q).addr + x] = LE(Value(variables'[q[1]]), ref(q).len)[x]
  <2>1. PICK i \in DOMAIN variables, r \in DOMAIN variables[q[1]].refs :
           q = <<i, r>> /\ i = q[1] /\ r \in DOMAIN variables[i].refs
    BY RefsMembers
  <2>2. PICK a \in Nat : a = ref(q).addr + x /\ a - ref(q).addr = x
    BY <1>2, RefType, WidthType DEF Types
  <2>3. a \in Cells(q) /\ a \in 0 .. CAPACITY - 1
    <3>1. a \in Cells(q)
      BY <1>2, <2>2, RefType, WidthType DEF Cells, Types
    <3>2. a < ip /\ ip \in Nat
      BY <1>2, <1>12, <3>1 DEF Types
    <3>. QED  BY <1>6, <2>2, <3>1, <3>2, SasmAssumption
  <2>4. \A j \in DOMAIN Placed : \A s \in DOMAIN Placed[j].refs :
           a - Placed[j].refs[s].addr \in 0 .. Placed[j].refs[s].len - 1 => j = i /\ s = r
    <3>. SUFFICES ASSUME NEW j \in DOMAIN Placed, NEW s \in DOMAIN Placed[j].refs,
                         a - Placed[j].refs[s].addr \in 0 .. Placed[j].refs[s].len - 1
                  PROVE  j = i /\ s = r
      OBVIOUS
    <3>1. a \in Cells(<<j, s>>) /\ <<j, s>> \in Refs
      <4>1. a \in Int
        OBVIOUS
      <4>. QED  BY <1>11, <4>1
    <3>2. <<j, s>> = q
      BY <1>12, <2>3, <3>1
    <3>. QED  BY <2>1, <3>2
  <2>5. i \in DOMAIN Placed /\ r \in DOMAIN Placed[i].refs /\ Placed[i].refs[r] = ref(q)
    <3>1. i \in DOMAIN Placed /\ r \in DOMAIN Placed[i].refs
      BY <1>8, <1>9, <2>1
    <3>. QED  BY <1>11, <2>1, <3>1
  <2>6. a - Placed[i].refs[r].addr \in 0 .. Placed[i].refs[r].len - 1
    BY <2>2, <2>5
  <2>7. Patched(WithData, Placed)[a] =
           LE(Value(Placed[i]), Placed[i].refs[r].len)[a - Placed[i].refs[r].addr]
    <3>1. Placed \in Seq(Variable) /\ WithData \in [0 .. CAPACITY - 1 -> Byte]
      BY <1>8, <1>10
    <3>2. a \in 0 .. CAPACITY - 1 /\ i \in DOMAIN Placed /\ r \in DOMAIN Placed[i].refs
      BY <2>3, <2>5
    <3>. QED  BY <2>4, <2>6, <3>1, <3>2, PatchedType, SMTT(30)
  <2>. QED  BY <1>1, <2>1, <2>2, <2>5, <2>7
<1>15. ASSUME NEW k \in DOMAIN variables, NEW x \in 0 .. variables[k].len - 1
       PROVE  /\ start[k] + x \in ip .. prog_len' - 1
              /\ prog'[start[k] + x] = Contents(variables[k])[x]
  <2>1. k \in 1 .. n /\ len(k) \in Nat /\ x \in 0 .. len(k) - 1
    BY <1>3, <1>5 DEF len
  <2>2. PICK a \in Nat : a = start[k] + x /\ a = DataEnd[k - 1] + x
    BY <1>5, <2>1
  <2>3. a < prog_len' /\ ip <= a /\ ip \in Nat
    <3>1. /\ DataEnd[k - 1] \in Nat /\ DataEnd[k] \in Nat /\ DataEnd[n] \in Nat
          /\ DataEnd[k] <= DataEnd[n] /\ ip <= DataEnd[k - 1] /\ ip \in Nat
          /\ DataEnd[k] = DataEnd[k - 1] + len(k)
      BY <1>2, <1>4, <1>5, <1>6, <2>1 DEF Types
    <3>. QED  BY <1>4, <2>1, <2>2, <3>1
  <2>4. a \in ip .. prog_len' - 1 /\ a \in 0 .. CAPACITY - 1
    BY <1>6, <2>2, <2>3, SasmAssumption
  <2>5. \A q \in Refs : a \notin Cells(q)
    BY <1>2, <1>12, <2>3 DEF Types
  <2>. QED  BY <1>10, <1>13, <2>2, <2>4, <2>5
<1>16. ASSUME NEW j \in DOMAIN variables, NEW k \in DOMAIN variables,
              NEW x \in 0 .. variables[j].len - 1, NEW y \in 0 .. variables[k].len - 1, j # k
       PROVE  start[j] + x # start[k] + y
  <2>1. /\ j \in 1 .. n /\ k \in 1 .. n /\ len(j) \in Nat /\ len(k) \in Nat
        /\ x \in 0 .. len(j) - 1 /\ y \in 0 .. len(k) - 1
    BY <1>3, <1>5 DEF len
  <2>2. j < k => DataEnd[j] <= DataEnd[k - 1]
    <3>1. j < k => j \in 0 .. n /\ k - 1 \in j .. n
      BY <2>1
    <3>. QED  BY <1>3, <3>1
  <2>3. k < j => DataEnd[k] <= DataEnd[j - 1]
    <3>1. k < j => k \in 0 .. n /\ j - 1 \in k .. n
      BY <2>1
    <3>. QED  BY <1>3, <3>1
  <2>. QED  BY <1>5, <1>16, <2>1, <2>2, <2>3
<1>17. Written(start)
  <2>1. \A k \in DOMAIN variables : start[k] = DataEnd[k - 1]
    BY <1>3, <1>5
  <2>2. \A a \in 0 .. CAPACITY - 1 :
           a < ip /\ (\A q \in Refs : a \notin Cells(q)) => prog'[a] = prog[a]
    BY <1>10, <1>13
  <2>. QED  BY <1>1, <1>6, <1>7, <1>8, <1>14, <1>15, <1>16, <2>1, <2>2 DEF Written
<1>. QED  BY <1>1, <1>17

----------------------------------------------------------------------------
(* What the image holds then *)

\* A datum lies behind the code, inside the image.
Loaded(v, bytes) ==
    /\ v.value = 0 /\ v.len = Len(bytes)
    /\ \A x \in 0 .. v.len - 1 :
          v.addr + x \in CodeEnd .. prog_len - 1 /\ prog[v.addr + x] = bytes[x + 1]

Operands ==
    \A i \in DOMAIN read : read[i].kind = "pushtv" =>
        \A k \in 0 .. read[i].len - 1 :
           prog[where[i] + 1 + k] = LE(Value(Look(read[i].name)), read[i].len)[k]

AreasApart ==
    \A m, n : Known(m) /\ Known(n) /\ m # n =>
        \A x \in 0 .. Look(m).len - 1, y \in 0 .. Look(n).len - 1 :
           Look(m).addr + x # Look(n).addr + y

Numbers ==
    /\ \A d \in DOMAIN read : IsNumber(read[d]) =>
          /\ Known(read[d].name)
          /\ Means(Look(read[d].name), read[d], Number(read, where, d))
    /\ \A n : IsPredefined(n) => IsPort(Look(n), n)

DataLoaded ==
    \A d \in DOMAIN read : IsData(read[d]) =>
        Known(read[d].name) /\ Loaded(Look(read[d].name), DataBytes(read[d]))

Resolved ==
    /\ Code /\ prog_len \in Nat /\ CodeEnd <= prog_len /\ prog_len <= CAPACITY
    /\ Operands /\ AreasApart
    /\ WellFormed(read) => Numbers /\ DataLoaded

LEMMA LookWritten ==
    ASSUME Table, Unique, NEW start, Written(start)
    PROVE  /\ \A n : Known(n)' <=> Known(n)
           /\ \A n : Known(n) => \E k \in DOMAIN variables :
                 /\ variables[k].name = n
                 /\ Look(n) = variables[k] /\ Look(n)' = variables'[k]
           /\ \A n : ~Known(n) => Look(n)' = Look(n)
           /\ \A k \in DOMAIN variables :
                 /\ variables[k].len \in Nat /\ variables'[k].len = variables[k].len
                 /\ variables'[k].value = variables[k].value
                 /\ variables[k].len > 0 => variables'[k].addr = start[k]
                 /\ variables[k].len = 0 => variables'[k] = variables[k]
<1>1. \A k \in DOMAIN variables : variables[k] \in Entry
  BY ElementType DEF Table, Variable
<1>2. \A k \in DOMAIN variables :
         /\ variables[k].len \in Nat /\ variables'[k].len = variables[k].len
         /\ variables'[k].value = variables[k].value
         /\ variables[k].len > 0 => variables'[k].addr = start[k]
         /\ variables[k].len = 0 => variables'[k] = variables[k]
         /\ variables'[k].name = variables[k].name
  BY <1>1 DEF Written, Entry
<1>3. \A n : Places(n)' = Places(n)
  BY <1>2 DEF Places, Written
<1>4. \A n : find_variable(n)' = find_variable(n) /\ (Known(n)' <=> Known(n))
  <2>1. \A n : find_variable(n)' = find_variable(n)
    <3>. SUFFICES ASSUME NEW n PROVE find_variable(n)' = find_variable(n)
      OBVIOUS
    <3>1. PICK P : P = Places(n) /\ Places(n)' = P
      BY <1>3
    <3>2. find_variable(n) = IF P = {} THEN 0 ELSE CHOOSE i \in P : TRUE
      BY <3>1 DEF find_variable
    <3>3. find_variable(n)' = IF P = {} THEN 0 ELSE CHOOSE i \in P : TRUE
      BY <3>1 DEF find_variable
    <3>. QED  BY <3>2, <3>3
  <2>. QED  BY <2>1 DEF Known
<1>5. ASSUME NEW n, Known(n)
      PROVE  \E k \in DOMAIN variables :
                /\ variables[k].name = n
                /\ Look(n) = variables[k] /\ Look(n)' = variables'[k]
  <2>1. PICK k \in DOMAIN variables :
           variables[k].name = n /\ Look(n) = variables[k] /\ find_variable(n) = k
    BY <1>5, KnownIs DEF Found
  <2>. QED  BY <1>4, <1>5, <2>1 DEF Look
<1>6. \A n : ~Known(n) => Look(n)' = Look(n)
  BY <1>4 DEF Look
<1>. QED  BY <1>2, <1>4, <1>5, <1>6

\* What is referred to is the operand of a push, whole.
LEMMA CellsIs ==
    ASSUME Table, Unique, Referenced, History, NEW q \in Refs
    PROVE  \E j \in DOMAIN read :
              /\ read[j].kind = "pushtv" /\ Size(read[j]) = 1 + read[j].len
              /\ Cells(q) = where[j] + 1 .. where[j] + Size(read[j]) - 1
<1>1. q[1] \in DOMAIN variables /\ q[2] \in DOMAIN variables[q[1]].refs
  BY RefsMembers
<1>2. PICK n : Look(n) = variables[q[1]]
  BY <1>1, KnownIs DEF Found
<1>3. PICK j \in DOMAIN read : read[j].kind = "pushtv" /\ Look(n).refs[q[2]] = Reference(j)
  BY <1>1, <1>2 DEF Referenced
<1>4. ref(q).addr = where[j] + 1 /\ ref(q).len = read[j].len
  BY <1>2, <1>3 DEF ref, Reference
<1>5. read[j] \in Statement /\ where[j] \in Nat
  BY DEF History
<1>6. Size(read[j]) = 1 + read[j].len /\ read[j].len \in Nat
  BY <1>3, <1>5, StatementType, WidthType DEF Size
<1>7. where[j] + 1 + read[j].len - 1 = where[j] + Size(read[j]) - 1
  BY <1>5, <1>6
<1>. QED  BY <1>3, <1>4, <1>6, <1>7 DEF Cells

LEMMA CodeWritten ==
    ASSUME Types, Unique, Referenced, Code, ip = CodeEnd, NEW start, Written(start),
           UNCHANGED <<read, where>>
    PROVE  Code'
<1>1. History /\ Layout /\ \A i \in DOMAIN read : InImage(prog, read[i], where[i])
  BY DEF Code
<1>2. History' /\ Layout'
  BY <1>1 DEF History, Layout, CodeEnd, Follows
<1>3. \A i \in DOMAIN read :
         read[i] \in Statement /\ where[i] \in Nat /\ Size(read[i]) \in Nat
  BY <1>1, SizeType DEF History
<1>4. \A i \in DOMAIN read :
         /\ where[i] + Size(read[i]) <= ip
         /\ \A j \in DOMAIN read : i < j => where[i] + Size(read[i]) <= where[j]
  BY <1>1 DEF Layout
<1>5. \A i, j \in DOMAIN read : i # j => i < j \/ j < i
  BY <1>1 DEF History
<1>6. CAPACITY \in Nat /\ ip \in Nat
  BY SasmAssumption DEF Types
<1>7. \A a \in 0 .. CAPACITY - 1 :
         a < ip /\ (\A q \in Refs : a \notin Cells(q)) => prog'[a] = prog[a]
  BY DEF Written
\* Bytes of a statement that are no operand of a push of a name.
<1>8. ASSUME NEW i \in DOMAIN read, NEW a \in 0 .. CAPACITY - 1,
             where[i] <= a, a < where[i] + Size(read[i]),
             read[i].kind # "pushtv" \/ a = where[i]
      PROVE  prog'[a] = prog[a]
  <2>1. ASSUME NEW q \in Refs PROVE a \notin Cells(q)
    <3>1. PICK j \in DOMAIN read :
             /\ read[j].kind = "pushtv"
             /\ Cells(q) = where[j] + 1 .. where[j] + Size(read[j]) - 1
      BY <1>1, CellsIs DEF Types
    <3>2. CASE j = i
      BY <1>3, <1>8, <3>1, <3>2
    <3>3. CASE j # i
      BY <1>3, <1>4, <1>5, <1>8, <3>1, <3>3
    <3>. QED  BY <3>2, <3>3
  <2>2. a < ip
    BY <1>3, <1>4, <1>6, <1>8
  <2>. QED  BY <1>7, <2>1, <2>2
<1>9. ASSUME NEW i \in DOMAIN read PROVE InImage(prog', read[i], where[i])
  <2>1. InImage(prog, read[i], where[i]) /\ read[i] \in Statement /\ where[i] \in Nat
    BY <1>1, <1>3
  <2>2. CASE read[i].kind # "pushtv"
    <3>1. \A a \in 0 .. CAPACITY - 1 :
             where[i] <= a /\ a < where[i] + Size(read[i]) => prog'[a] = prog[a]
      BY <1>8, <2>2
    <3>. QED  BY <2>1, <3>1, InImageKept
  <2>3. CASE read[i].kind = "pushtv"
    <3>1. Size(read[i]) = 1 + read[i].len /\ read[i].len \in Nat
      BY <2>1, <2>3, StatementType, WidthType DEF Size
    <3>2. where[i] + Size(read[i]) <= CAPACITY
      BY <2>1, <3>1 DEF InImage
    <3>3. prog'[where[i]] = prog[where[i]]
      BY <1>6, <1>8, <2>1, <3>1, <3>2
    <3>. QED  BY <2>1, <2>3, <3>2, <3>3 DEF InImage
  <2>. QED  BY <2>2, <2>3
<1>. QED  BY <1>2, <1>9 DEF Code

LEMMA OperandsWritten ==
    ASSUME Types, Unique, Referenced, History, NEW start, Written(start),
           UNCHANGED <<read, where>>
    PROVE  Operands'
<1>. SUFFICES ASSUME NEW i \in DOMAIN read, read[i].kind = "pushtv",
                     NEW m, m = read[i].name, NEW k \in 0 .. read[i].len - 1
              PROVE  prog'[where[i] + 1 + k] = LE(Value(Look(m)'), read[i].len)[k]
  BY DEF Operands
<1>1. PICK r \in DOMAIN Look(m).refs : Known(m) /\ Look(m).refs[r] = Reference(i)
  BY DEF Referenced
<1>2. PICK p \in DOMAIN variables : Look(m) = variables[p] /\ Look(m)' = variables'[p]
  BY <1>1, LookWritten DEF Types
<1>3. <<p, r>> \in Refs /\ ref(<<p, r>>) = Reference(i)
  BY <1>1, <1>2, RefsMembers DEF ref
<1>4. ref(<<p, r>>).addr = where[i] + 1 /\ ref(<<p, r>>).len = read[i].len
  BY <1>3 DEF Reference
<1>5. \A q \in Refs : \A x \in 0 .. ref(q).len - 1 :
         prog'[ref(q).addr + x] = LE(Value(variables'[q[1]]), ref(q).len)[x]
  BY DEF Written
<1>. QED  BY <1>2, <1>3, <1>4, <1>5

LEMMA AreasWritten ==
    ASSUME Types, Unique, NEW start, Written(start)
    PROVE  AreasApart'
<1>. SUFFICES ASSUME NEW m, NEW n, Known(m)', Known(n)', m # n,
                     NEW x \in 0 .. Look(m)'.len - 1, NEW y \in 0 .. Look(n)'.len - 1
              PROVE  Look(m)'.addr + x # Look(n)'.addr + y
  BY DEF AreasApart
<1>1. Known(m) /\ Known(n)
  BY LookWritten DEF Types
<1>2. PICK j \in DOMAIN variables : variables[j].name = m /\ Look(m)' = variables'[j]
  BY <1>1, LookWritten DEF Types
<1>3. PICK k \in DOMAIN variables : variables[k].name = n /\ Look(n)' = variables'[k]
  BY <1>1, LookWritten DEF Types
<1>4. /\ variables[j].len \in Nat /\ variables'[j].len = variables[j].len
      /\ variables[k].len \in Nat /\ variables'[k].len = variables[k].len
      /\ variables[j].len > 0 => variables'[j].addr = start[j]
      /\ variables[k].len > 0 => variables'[k].addr = start[k]
  BY LookWritten DEF Types
<1>5. variables'[j].addr = start[j] /\ variables'[k].addr = start[k]
  BY <1>2, <1>3, <1>4
<1>6. j # k
  BY <1>2, <1>3
<1>7. start[j] + x # start[k] + y
  BY <1>2, <1>3, <1>4, <1>6 DEF Written
<1>. QED  BY <1>2, <1>3, <1>5, <1>7

LEMMA NamesWritten ==
    ASSUME Types, Unique, Bound, ip = CodeEnd, NEW start, Written(start),
           UNCHANGED <<read, where>>
    PROVE  Numbers' /\ DataLoaded'
<1>1. \A d \in DOMAIN read : Defining(read[d]) =>
         /\ Known(read[d].name)
         /\ Means(Look(read[d].name), read[d], Number(read, where, d))
  BY DEF Bound
<1>2. \A n : Known(n) => Known(n)' /\ (Look(n).len = 0 => Look(n)' = Look(n))
  BY LookWritten DEF Types
<1>3. ASSUME NEW d \in DOMAIN read, IsNumber(read[d]), NEW m, m = read[d].name
      PROVE  Known(m)' /\ Means(Look(m)', read[d], Number(read, where, d))
  <2>1. Known(m) /\ Means(Look(m), read[d], Number(read, where, d))
    BY <1>1, <1>3 DEF Defining
  <2>2. Look(m).len = 0
    BY <1>3, <2>1 DEF Means, IsNumber
  <2>. QED  BY <1>2, <2>1, <2>2
<1>4. ASSUME NEW n, IsPredefined(n) PROVE IsPort(Look(n)', n)
  <2>1. Known(n) /\ IsPort(Look(n), n)
    BY <1>4 DEF Bound
  <2>2. Look(n).len = 0
    BY <2>1 DEF IsPort
  <2>. QED  BY <1>2, <2>1, <2>2
<1>5. ASSUME NEW d \in DOMAIN read, IsData(read[d]), NEW m, m = read[d].name
      PROVE  Known(m)' /\ Loaded(Look(m), DataBytes(read[d]))'
  <2>1. Known(m) /\ Means(Look(m), read[d], Number(read, where, d))
    BY <1>1, <1>5 DEF Defining
  <2>2. PICK k \in DOMAIN variables : Look(m) = variables[k] /\ Look(m)' = variables'[k]
    BY <2>1, LookWritten DEF Types
  <2>3. PICK v, w, bytes, n :
           v = Look(m) /\ w = Look(m)' /\ bytes = DataBytes(read[d]) /\ n = Len(DataBytes(read[d]))
    OBVIOUS
  <2>4. /\ v.value = 0 /\ v.len = n
        /\ \A x \in 0 .. v.len - 1 : Contents(v)[x] = bytes[x + 1]
    BY <1>5, <2>1, <2>3 DEF Means
  <2>5. /\ v.len \in Nat /\ w.len = v.len /\ w.value = v.value
        /\ v.len > 0 => w.addr = start[k]
    BY <2>2, <2>3, LookWritten DEF Types
  <2>6. \A x \in 0 .. v.len - 1 :
           /\ start[k] + x \in ip .. prog_len' - 1
           /\ prog'[start[k] + x] = Contents(v)[x]
    BY <2>2, <2>3 DEF Written
  <2>7. ASSUME NEW x \in 0 .. w.len - 1
        PROVE  w.addr + x \in ip .. prog_len' - 1 /\ prog'[w.addr + x] = bytes[x + 1]
    <3>1. v.len > 0 /\ x \in 0 .. v.len - 1
      BY <2>5
    <3>. QED  BY <2>4, <2>5, <2>6, <3>1
  <2>8. CodeEnd' = ip
    BY DEF CodeEnd
  <2>9. Known(m)'
    BY <1>2, <2>1
  <2>10. DataBytes(read[d])' = bytes
    BY <2>3
  <2>. QED  BY <2>3, <2>4, <2>5, <2>7, <2>8, <2>9, <2>10 DEF Loaded
<1>. QED  BY <1>3, <1>4, <1>5 DEF Numbers, DataLoaded

\* What holds while the statements are parsed.
Parsed ==
    /\ Code /\ ip = CodeEnd
    /\ Unique /\ Referenced /\ NamesRead
    /\ WellFormed(read) => Bound

LEMMA DataWritten ==
    ASSUME Parsing, Parsed, write_data, status' # "wild", UNCHANGED <<read, where>>
    PROVE  Resolved'
<1>1. phase = "data" /\ Types
  BY WriteDataSteps DEF Parsing
<1>2. PICK start : Written(start)
  BY WriteDataSteps
<1>3. Code' /\ Operands' /\ AreasApart'
  BY <1>1, <1>2, CodeWritten, OperandsWritten, AreasWritten DEF Parsed, Code
<1>4. WellFormed(read)' => Numbers' /\ DataLoaded'
  BY <1>1, <1>2, NamesWritten DEF Parsed
<1>5. CodeEnd' = ip
  BY DEF CodeEnd, Parsed
<1>6. prog_len' \in Nat /\ ip <= prog_len' /\ prog_len' <= CAPACITY
  BY <1>2 DEF Written
<1>. QED  BY <1>3, <1>4, <1>5, <1>6 DEF Resolved

----------------------------------------------------------------------------
(* The prologue *)

Calls ==
    /\ Known("_main")
    /\ prog[0] = Opcode(PUSH, QWORD)
    /\ \A k \in 0 .. QWORD - 1 : prog[1 + k] = LE(Look("_main").addr, QWORD)[k]
    /\ prog[1 + QWORD] = Opcode(CALL, QWORD) /\ prog[2 + QWORD] = Opcode(HLT, 1)

LEMMA TableKept ==
    ASSUME UNCHANGED variables
    PROVE  \A n : (Known(n)' <=> Known(n)) /\ Look(n)' = Look(n)
BY DEF Known, Look, find_variable, Places

LEMMA PrologueWritten ==
    ASSUME Types, Resolved, write_prologue, status' # "wild", UNCHANGED <<read, where>>
    PROVE  Resolved' /\ Calls' /\ phase' = phase /\ phase = "main"
<1> DEFINE call == WithOperand(PUSH, Look("_main").addr, QWORD)
           block == [i \in 0 .. QWORD + 2 |->
                        IF i <= QWORD THEN call[i]
                        ELSE IF i = QWORD + 1 THEN Opcode(CALL, QWORD) ELSE Opcode(HLT, 1)]
<1>1. /\ Known("_main") /\ phase = "main"
      /\ UNCHANGED <<phase, prog_len, variables>>
  BY DEF write_prologue, table, Known
<1>2. prog' = Overwrite(prog, 0, block)
  BY <1>1 DEF write_prologue, Known, Look
<1>3. /\ QWORD \in Nat /\ PROLOGUE = 3 + QWORD /\ CAPACITY \in Nat /\ PROLOGUE <= CAPACITY
      /\ CodeEnd \in Nat /\ prog_len \in Nat
  <2>1. QWORD \in Nat /\ PROLOGUE = 3 + QWORD /\ CAPACITY \in Nat
    BY QwordAssumption, SasmAssumption DEF PROLOGUE
  <2>2. /\ CodeEnd \in Nat /\ prog_len \in Nat /\ PROLOGUE <= CodeEnd /\ CodeEnd <= prog_len
        /\ prog_len <= CAPACITY
    BY DEF Resolved, Code, Layout
  <2>. QED  BY <2>1, <2>2
<1>4. DOMAIN prog = 0 .. CAPACITY - 1
  BY DEF Types
<1>5. \A i \in 0 .. QWORD : call[i] = IF i = 0 THEN Opcode(PUSH, QWORD)
                                   ELSE LE(Look("_main").addr, QWORD)[i - 1]
  BY DEF WithOperand
<1>. HIDE DEF call
<1>6. \A a \in 0 .. CAPACITY - 1 : PROLOGUE <= a => prog'[a] = prog[a]
  BY <1>2, <1>3, <1>4 DEF Overwrite
<1>7. \A a \in 0 .. QWORD + 2 : prog'[a] = block[a]
  <2>1. \A a \in 0 .. QWORD + 2 : a \in 0 .. CAPACITY - 1 /\ a - 0 = a
    BY <1>3
  <2>2. DOMAIN block = 0 .. QWORD + 2
    OBVIOUS
  <2>. HIDE DEF block
  <2>. QED  BY <1>2, <1>4, <2>1, <2>2 DEF Overwrite
<1>8. \A n : (Known(n)' <=> Known(n)) /\ Look(n)' = Look(n)
  BY <1>1, TableKept
<1>9. Calls'
  <2>1. prog'[0] = Opcode(PUSH, QWORD)
    BY <1>3, <1>5, <1>7
  <2>2. ASSUME NEW k \in 0 .. QWORD - 1 PROVE prog'[1 + k] = LE(Look("_main").addr, QWORD)[k]
    <3>1. 1 + k \in 0 .. QWORD /\ 1 + k \in 0 .. QWORD + 2 /\ 1 + k # 0 /\ (1 + k) - 1 = k
      BY <1>3
    <3>. QED  BY <1>5, <1>7, <3>1
  <2>3. prog'[1 + QWORD] = Opcode(CALL, QWORD) /\ prog'[2 + QWORD] = Opcode(HLT, 1)
    <3>1. /\ 1 + QWORD \in 0 .. QWORD + 2 /\ ~(1 + QWORD <= QWORD) /\ 1 + QWORD = QWORD + 1
          /\ 2 + QWORD \in 0 .. QWORD + 2 /\ ~(2 + QWORD <= QWORD) /\ 2 + QWORD # QWORD + 1
      BY <1>3
    <3>. QED  BY <1>7, <3>1
  <2>. QED  BY <1>1, <1>8, <2>1, <2>2, <2>3 DEF Calls
<1>. HIDE DEF block
<1>10. /\ History /\ Layout
       /\ \A i \in DOMAIN read :
             /\ InImage(prog, read[i], where[i]) /\ read[i] \in Statement
             /\ where[i] \in Nat /\ PROLOGUE <= where[i]
  BY DEF Resolved, Code, Layout, History
<1>11. Code'
  <2>1. History' /\ Layout'
    BY <1>10 DEF History, Layout, CodeEnd, Follows
  <2>2. ASSUME NEW i \in DOMAIN read PROVE InImage(prog', read[i], where[i])
    <3>1. \A a \in 0 .. CAPACITY - 1 :
             where[i] <= a /\ a < where[i] + Size(read[i]) => prog'[a] = prog[a]
      BY <1>3, <1>6, <1>10
    <3>. QED  BY <1>10, <3>1, InImageKept
  <2>. QED  BY <2>1, <2>2 DEF Code
<1>12. Operands'
  <2>. SUFFICES ASSUME NEW i \in DOMAIN read, read[i].kind = "pushtv",
                       NEW k \in 0 .. read[i].len - 1
                PROVE  prog'[where[i] + 1 + k] = prog[where[i] + 1 + k]
    BY <1>8 DEF Operands, Resolved
  <2>1. Size(read[i]) = 1 + read[i].len /\ read[i].len \in Nat
    BY <1>10, StatementType, WidthType DEF Size
  <2>2. where[i] + (1 + read[i].len) <= CAPACITY
    BY <1>10, <2>1 DEF InImage
  <2>3. where[i] + 1 + k \in 0 .. CAPACITY - 1 /\ PROLOGUE <= where[i] + 1 + k
    BY <1>3, <1>10, <2>1, <2>2
  <2>. QED  BY <1>6, <2>3
<1>13. AreasApart'
  BY <1>8 DEF AreasApart, Resolved
<1>14. WellFormed(read) => Numbers' /\ DataLoaded'
  <2>. SUFFICES ASSUME WellFormed(read), Numbers, DataLoaded PROVE Numbers' /\ DataLoaded'
    BY DEF Resolved
  <2>1. Numbers'
    BY <1>8 DEF Numbers
  <2>2. ASSUME NEW d \in DOMAIN read, IsData(read[d]), NEW m, m = read[d].name
        PROVE  Known(m)' /\ Loaded(Look(m), DataBytes(read[d]))'
    <3>1. Known(m) /\ Loaded(Look(m), DataBytes(read[d]))
      BY <2>2 DEF DataLoaded
    <3>2. CodeEnd' = CodeEnd /\ prog_len' = prog_len
      BY <1>1 DEF CodeEnd
    <3>3. \A a \in CodeEnd .. prog_len - 1 : prog'[a] = prog[a]
      <4>1. \A a \in CodeEnd .. prog_len - 1 : a \in 0 .. CAPACITY - 1 /\ PROLOGUE <= a
        BY <1>3 DEF Resolved, Code, Layout
      <4>. QED  BY <1>6, <4>1
    <3>4. Known(m)' /\ Look(m)' = Look(m)
      BY <1>8, <3>1
    <3>. HIDE DEF CodeEnd
    <3>. QED  BY <3>1, <3>2, <3>3, <3>4, SMTT(30) DEF Loaded
  <2>. QED  BY <2>1, <2>2 DEF DataLoaded
<1>15. CodeEnd' = CodeEnd /\ prog_len' = prog_len
  BY <1>1 DEF CodeEnd
<1>. QED  BY <1>1, <1>9, <1>11, <1>12, <1>13, <1>14, <1>15 DEF Resolved

----------------------------------------------------------------------------
(* The invariant *)

Inv ==
    /\ Types /\ Parsing
    /\ status # "wild" => IF phase = "main" THEN Resolved ELSE Parsed
    /\ status = "done" => phase = "main" /\ Calls

LEMMA PredefinedNames ==
    \A i, j \in DOMAIN Predefined : Predefined[i].name = Predefined[j].name => i = j
<1>1. DOMAIN Predefined = 1 .. 12
  BY DEF Predefined
<1>2. SUFFICES ASSUME NEW i \in 1 .. 12, NEW j \in 1 .. 12,
                      Predefined[i].name = Predefined[j].name
               PROVE  i = j
  BY <1>1
<1>. QED  BY <1>2 DEF Predefined

LEMMA InitInv == TraceInit => Inv
<1>. SUFFICES ASSUME TraceInit PROVE Inv
  OBVIOUS
<1>1. Init /\ read = <<>> /\ where = <<>>
  BY DEF TraceInit
<1>2. Types /\ Parsing /\ phase # "main" /\ status = "ok"
  BY <1>1, InitParsing DEF Init, Parsing
<1>3. DOMAIN read = {} /\ DOMAIN where = {} /\ History
  BY <1>1 DEF History
<1>4. CodeEnd = PROLOGUE /\ ip = CodeEnd /\ PROLOGUE \in Nat
  BY <1>1, QwordAssumption DEF Init, CodeEnd, PROLOGUE
<1>5. Code
  BY <1>3, <1>4 DEF Code, Layout
<1>6. /\ DOMAIN variables = DOMAIN Predefined
      /\ \A i \in DOMAIN Predefined :
            variables[i] = [New(Predefined[i].name) EXCEPT !.addr = Predefined[i].addr]
  BY <1>1 DEF Init
<1>7. \A i \in DOMAIN variables :
         /\ variables[i].name = Predefined[i].name /\ variables[i].addr = Predefined[i].addr
         /\ variables[i].len = 0 /\ variables[i].value = 0 /\ variables[i].refs = <<>>
  <2>. SUFFICES ASSUME NEW i \in DOMAIN variables
                PROVE  /\ variables[i].name = Predefined[i].name
                       /\ variables[i].addr = Predefined[i].addr
                       /\ variables[i].len = 0 /\ variables[i].value = 0
                       /\ variables[i].refs = <<>>
    OBVIOUS
  <2>1. PICK name, addr : name = Predefined[i].name /\ addr = Predefined[i].addr
    OBVIOUS
  <2>2. PICK v : v = variables[i] /\ v = [New(name) EXCEPT !.addr = addr]
    BY <1>6, <2>1
  <2>3. v.name = name /\ v.addr = addr /\ v.len = 0 /\ v.value = 0 /\ v.refs = <<>>
    BY <2>2 DEF New
  <2>. QED  BY <2>1, <2>2, <2>3
<1>8. Unique
  BY <1>6, <1>7, PredefinedNames DEF Unique
<1>9. Found
  BY <1>2, <1>8, KnownIs DEF Types
<1>10. \A n : Known(n) <=> IsPredefined(n)
  BY <1>6, <1>7, <1>9 DEF Found, IsPredefined
<1>11. \A n : ~Known(n) => Plain(Look(n)) /\ Look(n).refs = <<>>
  BY DEF Look, New, Plain
<1>12. \A n : Look(n).refs = <<>>
  BY <1>7, <1>9, <1>11 DEF Found
<1>13. Referenced /\ NamesRead
  BY <1>3, <1>10, <1>12 DEF Referenced, NamesRead
<1>14. ASSUME NEW n, IsPredefined(n) PROVE IsPort(Look(n), n)
  <2>1. PICK i \in DOMAIN Predefined : Predefined[i].name = n
    BY <1>14 DEF IsPredefined
  <2>2. PredefinedAddr(n) = Predefined[i].addr
    <3>1. \A j \in DOMAIN Predefined : Predefined[j].name = n => j = i
      BY <2>1, PredefinedNames
    <3>2. (CHOOSE j \in DOMAIN Predefined : Predefined[j].name = n) = i
      BY <2>1, <3>1
    <3>. QED  BY <3>2 DEF PredefinedAddr
  <2>3. Look(n) = variables[i]
    BY <1>6, <1>7, <1>9, <2>1 DEF Found
  <2>. QED  BY <1>6, <1>7, <2>2, <2>3 DEF IsPort
<1>15. Bound
  BY <1>3, <1>10, <1>11, <1>14 DEF Bound
<1>. QED  BY <1>2, <1>4, <1>5, <1>8, <1>13, <1>15 DEF Inv, Parsed

\* A statement parsed.
LEMMA ParseStep ==
    ASSUME Parsing, Parsed, parse, status' # "wild"
    PROVE  Parsed' /\ phase' = phase /\ phase # "main" /\ status' # "done"
<1>1. PICK kind : Reads(kind)
  BY DEF parse, stmts, lbl_def, include, data, data_str, equ, equrel, res, pusht, pushtv, op,
         yyerror, Defines
<1>2. phase' = phase /\ phase # "main" /\ status = "ok"
  BY <1>1 DEF Reads
<1>3. Types
  BY <1>2 DEF Parsing
<1>4. status' # "done"
  BY <1>2 DEF parse, stmts, lbl_def, include, data, data_str, equ, equrel, res, pusht, pushtv,
              op, yyerror, Defines, push0, push1, emit
<1>5. PICK s, n : s = stmt /\ Grown(s, n)
  BY Grows1 DEF Parsed, Code
<1>6. TableStep(s)
  BY <1>5, TableSteps DEF parse, Parsed
<1>7. Code' /\ ip' = CodeEnd'
  BY CodeGrows DEF Parsed
<1>8. Unique'
  <2>1. CASE Named(s)
    BY <1>6, <2>1 DEF TableStep, Sets
  <2>2. CASE ~Named(s)
    BY <1>6, <2>2 DEF TableStep, Parsed, Unique
  <2>. QED  BY <2>1, <2>2
<1>9. Referenced' /\ NamesRead'
  BY <1>3, <1>5, <1>6, RefsGrow, NamesGrow DEF Parsed
<1>10. WellFormed(read') => Bound'
  BY <1>3, <1>5, <1>6, BoundGrows DEF Parsed, Code
<1>. QED  BY <1>2, <1>4, <1>7, <1>8, <1>9, <1>10 DEF Parsed

\* Nothing of it changes with the file that is read.
LEMMA ParsedKept ==
    ASSUME Parsed, UNCHANGED <<prog, ip, variables, read, where>>
    PROVE  Parsed'
<1>1. \A n : (Known(n)' <=> Known(n)) /\ Look(n)' = Look(n)
  BY TableKept
<1>2. Code' /\ ip' = CodeEnd'
  BY DEF Parsed, Code, History, Layout, CodeEnd, Follows
<1>3. Unique' /\ Referenced' /\ NamesRead'
  BY <1>1 DEF Parsed, Unique, Referenced, Reference, NamesRead
<1>4. Bound => Bound'
  BY <1>1 DEF Bound
<1>. QED  BY <1>2, <1>3, <1>4 DEF Parsed

LEMMA ResolvedKept ==
    ASSUME Resolved, UNCHANGED <<prog, prog_len, variables, read, where>>
    PROVE  Resolved' /\ (Calls => Calls')
<1>1. \A n : (Known(n)' <=> Known(n)) /\ Look(n)' = Look(n)
  BY TableKept
<1>2. Code' /\ CodeEnd' = CodeEnd
  BY DEF Resolved, Code, History, Layout, CodeEnd, Follows
<1>3. Operands' /\ AreasApart'
  BY <1>1 DEF Resolved, Operands, AreasApart
<1>4. Numbers => Numbers'
  BY <1>1 DEF Numbers
<1>5. DataLoaded => DataLoaded'
  BY <1>1, <1>2 DEF DataLoaded, Loaded
<1>6. Calls => Calls'
  BY <1>1 DEF Calls
<1>. QED  BY <1>2, <1>3, <1>4, <1>5, <1>6 DEF Resolved

LEMMA NextInv == Inv /\ [TraceNext]_traceVars => Inv'
<1>. SUFFICES ASSUME Inv, [TraceNext]_traceVars PROVE Inv'
  OBVIOUS
<1>1. [Next]_vars
  BY DEF TraceNext, traceVars, parse, Next
<1>2. Types' /\ Parsing'
  BY <1>1, NextParsing, NextTypes DEF Inv
<1>3. CASE parse
  <2>1. phase # "main" /\ status # "wild" /\ phase' = phase
    BY <1>3 DEF parse, stmts, lbl_def, include, data, data_str, equ, equrel, res, pusht, pushtv,
                op, yyerror, Defines, Reads
  <2>2. Parsing /\ Parsed
    BY <2>1 DEF Inv
  <2>. QED  BY <1>2, <1>3, <2>1, <2>2, ParseStep DEF Inv
<1>4. CASE (yywrap \/ yyaccept) /\ UNCHANGED <<read, where>>
  <2>1. /\ phase # "main" /\ phase' # "main" /\ status = "ok" /\ status' # "done"
        /\ UNCHANGED <<prog, ip, variables>>
    BY <1>4 DEF yywrap, yyaccept, table
  <2>2. Parsed'
    BY <1>4, <2>1, ParsedKept DEF Inv
  <2>. QED  BY <1>2, <2>1, <2>2 DEF Inv
<1>5. CASE write_data /\ UNCHANGED <<read, where>>
  <2>1. status = "ok" /\ phase # "main" /\ status' # "done"
    BY <1>5 DEF write_data
  <2>2. status' # "wild" => phase' = "main" /\ Resolved'
    BY <1>5, <2>1, WriteDataSteps, DataWritten DEF Inv
  <2>. QED  BY <1>2, <2>1, <2>2 DEF Inv
<1>6. CASE write_prologue /\ UNCHANGED <<read, where>>
  <2>1. status = "ok" /\ phase = "main"
    BY <1>6 DEF write_prologue
  <2>2. status' # "wild" => phase' = "main" /\ Resolved' /\ Calls'
    BY <1>6, <2>1, PrologueWritten DEF Inv
  <2>3. status' = "done" => status' # "wild"
    OBVIOUS
  <2>. QED  BY <1>2, <2>2, <2>3 DEF Inv
<1>7. CASE UNCHANGED traceVars
  <2>1. UNCHANGED <<prog, prog_len, ip, variables, read, where, status, phase>>
    BY <1>7 DEF traceVars, vars
  <2>2. CASE status = "wild"
    BY <1>2, <2>1, <2>2 DEF Inv
  <2>3. CASE status # "wild" /\ phase = "main"
    BY <1>2, <2>1, <2>3, ResolvedKept DEF Inv
  <2>4. CASE status # "wild" /\ phase # "main"
    BY <1>2, <2>1, <2>4, ParsedKept DEF Inv
  <2>. QED  BY <2>2, <2>3, <2>4
<1>. QED  BY <1>3, <1>4, <1>5, <1>6, <1>7 DEF TraceNext

----------------------------------------------------------------------------
(* What the machine decodes *)

LEMMA LenIs ==
    ASSUME NEW o \in Instruction, NEW w \in {1, 2, 4, 8}
    PROVE  <<1, 2, 4, 8>>[(Opcode(o, w) % 8) + 1] = w
<1>1. o \in Nat
  BY DEF Instruction, Op0, Op1, Op2, NOP, HLT, CALL, RET, LOAD, STORE, ADD, SUB, MUL, DIV,
         AND, OR, JMP, JE, JNE, JZ, JNZ, DUP, PUSH, POP, SWAP, INT
<1>2. PICK f \in 0 .. 3 : f = opflags(w) /\ <<1, 2, 4, 8>>[f + 1] = w
  BY DEF opflags
<1>3. (o * 8 + f) % 8 = f
  BY <1>1
<1>. QED  BY <1>2, <1>3 DEF Opcode

\* The bytes of a push are decoded to it.
LEMMA PushesIs ==
    ASSUME NEW a \in Nat, NEW value \in Nat, NEW w \in Width,
           prog[a] = Opcode(PUSH, w),
           \A k \in 0 .. w - 1 : prog[a + 1 + k] = LE(value, w)[k]
    PROVE  Pushes(a, value, w)
<1>1. w \in {1, 2, 4, 8} /\ w <= QWORD /\ w \in Nat
  BY WidthType, QwordAssumption
<1>2. PUSH \in Instruction
  BY DEF Instruction, Op0, Op1
<1>3. DecodedOp(a) = PUSH /\ DecodedLen(a) = w
  BY <1>1, <1>2, OpcodeType, LenIs DEF DecodedOp, DecodedLen
<1>4. Slice(prog, a + 1, w) = LE(value, w)
  BY DEF Slice, LE
<1>5. Num(LE(value, w), w) = value % RADIX^w
  BY <1>1, NumLE
<1>. QED  BY <1>3, <1>4, <1>5 DEF Pushes, Operand

LEMMA MeaningIs ==
    ASSUME Numbers, WellFormed(read), NEW n, StandsForNumber(read, n)
    PROVE  Value(Look(n)) = Meaning(read, where, n)
<1>1. CASE IsPredefined(n)
  BY <1>1 DEF Numbers, IsPort, Value, Meaning
<1>2. CASE ~IsPredefined(n)
  <2>1. PICK d \in Definitions(read, n) : IsNumber(read[d])
    BY <1>2 DEF StandsForNumber
  <2>2. d \in DOMAIN read /\ read[d].name = n /\ Definition(read, n) = d
    BY DefinitionIs
  <2>3. Means(Look(n), read[d], Number(read, where, d))
    BY <2>1, <2>2 DEF Numbers
  <2>4. Meaning(read, where, n) = Number(read, where, d)
    BY <1>2, <2>2 DEF Meaning
  <2>. QED  BY <2>1, <2>3, <2>4 DEF Means
<1>. QED  BY <1>1, <1>2

LEMMA ValueType ==
    ASSUME Types, NEW n \in STRING
    PROVE  Value(Look(n)) \in Nat /\ Look(n).addr \in Nat
BY LookType DEF Types, Variable, Entry, Value

LEMMA CodeDecoded == Inv => CodeInPlace
<1>. SUFFICES ASSUME Inv, status = "done", Proper(read) PROVE CodeInPlace
  BY DEF CodeInPlace
<1>1. Types /\ Resolved /\ Calls /\ WellFormed(read)
  BY DEF Inv, Proper
<1>2. /\ History /\ Layout /\ Operands /\ Numbers
      /\ \A i \in DOMAIN read : InImage(prog, read[i], where[i])
  BY <1>1 DEF Resolved, Code
<1>3. QWORD \in Width /\ QWORD \in {1, 2, 4, 8} /\ QWORD \in Nat
  BY SasmAssumption DEF Width
<1>4. Pushes(0, Meaning(read, where, "_main"), QWORD)
  <2>1. PICK d \in Definitions(read, "_main") : read[d].kind = "lbl_def"
    BY DEF Proper
  <2>2. d \in DOMAIN read /\ read[d].name = "_main" /\ Definition(read, "_main") = d
        /\ ~IsPredefined("_main")
    BY <1>1, DefinitionIs
  <2>3. Look("_main").addr = where[d]
    BY <1>2, <2>1, <2>2 DEF Numbers, Means, IsNumber, Number
  <2>4. Meaning(read, where, "_main") = where[d] /\ where[d] \in Nat
    BY <1>2, <2>1, <2>2 DEF Meaning, Number, History
  <2>5. /\ prog[0] = Opcode(PUSH, QWORD)
        /\ \A k \in 0 .. QWORD - 1 : prog[0 + 1 + k] = LE(where[d], QWORD)[k]
    BY <1>1, <1>3, <2>3 DEF Calls
  <2>. QED  BY <1>3, <2>4, <2>5, PushesIs
<1>5. /\ DecodedOp(1 + QWORD) = CALL /\ DecodedLen(1 + QWORD) = QWORD
      /\ DecodedOp(2 + QWORD) = HLT
  <2>1. CALL \in Instruction /\ HLT \in Instruction
    BY DEF Instruction, Op0, Op1
  <2>. QED  BY <1>1, <1>3, <2>1, OpcodeType, LenIs DEF Calls, DecodedOp, DecodedLen
<1>6. ASSUME NEW i \in DOMAIN read
      PROVE  /\ where[i] = IF i = 1 THEN PROLOGUE ELSE where[i - 1] + Size(read[i - 1])
             /\ read[i].kind = "op" => DecodedOp(where[i]) = read[i].op
             /\ read[i].kind = "pusht" => Pushes(where[i], read[i].value, read[i].len)
             /\ read[i].kind = "pushtv" /\ StandsForNumber(read, read[i].name) =>
                   Pushes(where[i], Meaning(read, where, read[i].name), read[i].len)
  <2>1. read[i] \in Statement /\ where[i] \in Nat /\ InImage(prog, read[i], where[i])
    BY <1>2 DEF History
  <2>2. where[i] = IF i = 1 THEN PROLOGUE ELSE where[i - 1] + Size(read[i - 1])
    BY <1>2 DEF Layout, Follows
  <2>3. read[i].kind = "op" => DecodedOp(where[i]) = read[i].op
    BY <2>1 DEF InImage, DecodedOp
  <2>4. ASSUME read[i].kind = "pusht"
        PROVE  Pushes(where[i], read[i].value, read[i].len)
    BY <2>1, <2>4, StatementType, PushesIs DEF InImage
  <2>5. ASSUME read[i].kind = "pushtv", StandsForNumber(read, read[i].name)
        PROVE  Pushes(where[i], Meaning(read, where, read[i].name), read[i].len)
    <3>1. PICK value : value = Value(Look(read[i].name))
                       /\ value = Meaning(read, where, read[i].name)
      BY <1>1, <1>2, <2>5, MeaningIs
    <3>2. value \in Nat /\ read[i].len \in Width
      BY <1>1, <2>1, <2>5, <3>1, StatementType, ValueType
    <3>3. /\ prog[where[i]] = Opcode(PUSH, read[i].len)
          /\ \A k \in 0 .. read[i].len - 1 :
                prog[where[i] + 1 + k] = LE(value, read[i].len)[k]
      BY <1>2, <2>1, <2>5, <3>1 DEF InImage, Operands
    <3>. QED  BY <2>1, <3>1, <3>2, <3>3, PushesIs
  <2>. QED  BY <2>2, <2>3, <2>4, <2>5
<1>. QED  BY <1>4, <1>5, <1>6 DEF CodeInPlace

\* What a push of a datum leaves: the address of the datum's bytes.
LEMMA DatumIs ==
    ASSUME Inv, status = "done", WellFormed(read),
           NEW i \in DOMAIN read, NEW name, name = read[i].name,
           read[i].kind = "pushtv", StandsForData(read, name),
           CAPACITY <= RADIX^read[i].len,
           NEW bytes, bytes = DataBytes(read[Definition(read, name)]),
           NEW n, n = Len(bytes), NEW o, o = Operand(where[i])
    PROVE  /\ name \in STRING /\ Known(name) /\ Look(name).len = n
           /\ n \in Nat /\ DOMAIN bytes = 1 .. n /\ o \in Nat
           /\ n > 0 => o = Look(name).addr
           /\ \A x \in 0 .. n - 1 :
                 /\ Look(name).addr + x \in CodeEnd .. prog_len - 1
                 /\ prog[Look(name).addr + x] = bytes[x + 1]
<1>1. /\ Types /\ History /\ Operands /\ DataLoaded
      /\ InImage(prog, read[i], where[i])
      /\ prog_len \in Nat /\ prog_len <= CAPACITY /\ CodeEnd \in Nat
  BY DEF Inv, Resolved, Code, Layout
<1>2. /\ read[i] \in Statement /\ where[i] \in Nat /\ name \in STRING
      /\ read[i].len \in Width /\ read[i].len \in Nat /\ read[i].len \in 0 .. QWORD
  BY <1>1, StatementType, WidthType, SMTT(30) DEF History
<1>3. PICK d \in Definitions(read, name) : IsData(read[d])
  BY DEF StandsForData
<1>4. d \in DOMAIN read /\ read[d].name = name /\ bytes = DataBytes(read[d])
  BY <1>3, DefinitionIs
<1>5. Known(name) /\ Loaded(Look(name), bytes)
  BY <1>1, <1>3, <1>4 DEF DataLoaded
<1>6. n \in Nat /\ DOMAIN bytes = 1 .. n
  BY <1>1, <1>3, <1>4, DataBytesType DEF History
<1>7. Look(name).len = n
  BY <1>5 DEF Loaded
<1>8. PICK value : value = Value(Look(name))
  OBVIOUS
<1>9. value \in Nat /\ Look(name).addr \in Nat
  BY <1>1, <1>2, <1>8, ValueType
<1>10. Pushes(where[i], value, read[i].len)
  <2>1. prog[where[i]] = Opcode(PUSH, read[i].len)
    BY <1>1 DEF InImage
  <2>2. \A k \in 0 .. read[i].len - 1 : prog[where[i] + 1 + k] = LE(value, read[i].len)[k]
    BY <1>1, <1>8 DEF Operands
  <2>. QED  BY <1>2, <1>9, <2>1, <2>2, PushesIs
<1>11. PICK r : /\ r = RADIX^read[i].len /\ r \in Nat \ {0}
                /\ CAPACITY \in Nat /\ CAPACITY <= r
  BY <1>2, PowerType, SasmAssumption
<1>12. o = value % r /\ o \in Nat
  BY <1>9, <1>10, <1>11 DEF Pushes
<1>13. \A x \in 0 .. n - 1 :
          /\ Look(name).addr + x \in CodeEnd .. prog_len - 1
          /\ prog[Look(name).addr + x] = bytes[x + 1]
  BY <1>5, <1>7 DEF Loaded
<1>14. ASSUME n > 0 PROVE o = Look(name).addr
  <2>1. value = Look(name).addr
    BY <1>5, <1>8 DEF Loaded, Value
  <2>2. value + 0 <= prog_len - 1
    BY <1>1, <1>6, <1>9, <1>13, <1>14, <2>1
  <2>3. value < r
    BY <1>1, <1>9, <1>11, <2>2
  <2>4. value % r = value
    <3>1. \A p \in Nat, q \in Nat \ {0} : p < q => p % q = p
      OBVIOUS
    <3>. QED  BY <1>9, <1>11, <2>3, <3>1, Zenon
  <2>. QED  BY <1>12, <2>1, <2>4
<1>. QED  BY <1>2, <1>5, <1>6, <1>7, <1>12, <1>13, <1>14

LEMMA DataDecoded == Inv => DataReached
<1>. SUFFICES ASSUME Inv, status = "done", Proper(read) PROVE DataReached
  BY DEF DataReached
<1> DEFINE Uses == {i \in DOMAIN read :
                       /\ read[i].kind = "pushtv" /\ StandsForData(read, read[i].name)
                       /\ CAPACITY <= RADIX^read[i].len}
           Bytes(i) == DataBytes(read[Definition(read, read[i].name)])
           Area(i) == Operand(where[i]) .. Operand(where[i]) + Len(Bytes(i)) - 1
<1>1. WellFormed(read) /\ AreasApart
  BY DEF Proper, Inv, Resolved
<1>2. ASSUME NEW i \in Uses
      PROVE  /\ Area(i) \subseteq CodeEnd .. prog_len - 1
             /\ \A k \in DOMAIN Bytes(i) : prog[Operand(where[i]) + k - 1] = Bytes(i)[k]
  <2>1. PICK name, bytes, n, o :
           /\ name = read[i].name /\ bytes = Bytes(i) /\ n = Len(bytes)
           /\ o = Operand(where[i])
    OBVIOUS
  <2>2. /\ n \in Nat /\ DOMAIN bytes = 1 .. n /\ o \in Nat
        /\ n > 0 => o = Look(name).addr
        /\ \A x \in 0 .. n - 1 :
              /\ Look(name).addr + x \in CodeEnd .. prog_len - 1
              /\ prog[Look(name).addr + x] = bytes[x + 1]
    BY <1>1, <2>1, DatumIs
  <2>3. Area(i) = o .. o + n - 1
    BY <2>1
  <2>4. ASSUME NEW a \in o .. o + n - 1 PROVE a \in CodeEnd .. prog_len - 1
    <3>1. a - o \in 0 .. n - 1 /\ n > 0 /\ o + (a - o) = a
      BY <2>2
    <3>. QED  BY <2>2, <3>1
  <2>5. ASSUME NEW k \in 1 .. n PROVE prog[o + k - 1] = bytes[k]
    <3>1. k - 1 \in 0 .. n - 1 /\ n > 0 /\ o + (k - 1) = o + k - 1 /\ (k - 1) + 1 = k
      BY <2>2
    <3>. QED  BY <2>2, <3>1
  <2>. QED  BY <2>1, <2>2, <2>3, <2>4, <2>5
<1>3. ASSUME NEW i \in Uses, NEW j \in Uses, read[j].name # read[i].name
      PROVE  Area(i) \intersect Area(j) = {}
  <2>1. PICK m, mbytes, mlen, mo :
           /\ m = read[i].name /\ mbytes = Bytes(i) /\ mlen = Len(mbytes)
           /\ mo = Operand(where[i])
    OBVIOUS
  <2>2. PICK n, nbytes, nlen, no :
           /\ n = read[j].name /\ nbytes = Bytes(j) /\ nlen = Len(nbytes)
           /\ no = Operand(where[j])
    OBVIOUS
  <2>3. /\ Known(m) /\ Look(m).len = mlen /\ mlen \in Nat /\ mo \in Nat
        /\ mlen > 0 => mo = Look(m).addr
    BY <1>1, <2>1, DatumIs
  <2>4. /\ Known(n) /\ Look(n).len = nlen /\ nlen \in Nat /\ no \in Nat
        /\ nlen > 0 => no = Look(n).addr
    BY <1>1, <2>2, DatumIs
  <2>5. Area(i) = mo .. mo + mlen - 1 /\ Area(j) = no .. no + nlen - 1
    BY <2>1, <2>2
  <2>6. ASSUME NEW a, a \in mo .. mo + mlen - 1, a \in no .. no + nlen - 1 PROVE FALSE
    <3>1. /\ a - mo \in 0 .. mlen - 1 /\ mlen > 0 /\ Look(m).addr + (a - mo) = a
          /\ a - no \in 0 .. nlen - 1 /\ nlen > 0 /\ Look(n).addr + (a - no) = a
      BY <2>3, <2>4, <2>6
    <3>2. \A x \in 0 .. Look(m).len - 1, y \in 0 .. Look(n).len - 1 :
             Look(m).addr + x # Look(n).addr + y
      <4>1. m # n
        BY <1>3, <2>1, <2>2
      <4>. HIDE DEF Uses, Bytes
      <4>. QED  BY <1>1, <2>3, <2>4, <4>1 DEF AreasApart
    <3>. QED  BY <2>3, <2>4, <3>1, <3>2
  <2>. QED  BY <2>5, <2>6
<1>4. DataReached =
         (\A i \in Uses :
             /\ Area(i) \subseteq CodeEnd .. prog_len - 1
             /\ \A k \in DOMAIN Bytes(i) : prog[Operand(where[i]) + k - 1] = Bytes(i)[k]
             /\ \A j \in Uses :
                   read[j].name # read[i].name => Area(i) \intersect Area(j) = {})
  BY DEF DataReached
<1>. QED  BY <1>2, <1>3, <1>4

----------------------------------------------------------------------------
(* Theorems *)

\* Whatever program is assembled, to the end and with every name defined, the
\* image holds its instructions one behind the other, with the operands they
\* were written with, and every label, constant and length resolved to its one
\* value wherever it is used, before or after its definition; the prologue
\* calls _main (push1, define_label, define_constant, write_data).
THEOREM CodeCorrect == TraceSpec => []CodeInPlace
<1>1. TraceSpec => []Inv
  BY InitInv, NextInv, PTL DEF TraceSpec
<1>. QED  BY <1>1, CodeDecoded, PTL

\* In such an image a datum that is pushed, at a width that holds every
\* address, is the address of the datum's bytes; they lie behind the code and
\* inside the image, and no two data overlap (define_data, write_data).
THEOREM DataCorrect == TraceSpec => []DataReached
<1>1. TraceSpec => []Inv
  BY InitInv, NextInv, PTL DEF TraceSpec
<1>. QED  BY <1>1, DataDecoded, PTL

----------------------------------------------------------------------------
(* How the assembler crashes *)

\* A file that waits was named by a statement.
Included ==
    \A k \in DOMAIN files :
        \E i \in DOMAIN read : read[i].kind = "include" /\ read[i].name = files[k]

\* Data are copied no further than they go.
LEMMA EntriesFit ==
    ASSUME Types, Unique, Bound, NEW i \in DOMAIN variables
    PROVE  variables[i].data # NULL => variables[i].len <= Len(variables[i].data)
<1> DEFINE n == variables[i].name
<1>1. PICK v : v = variables[i] /\ v = Look(n)
  BY KnownIs DEF Types, Found
<1>2. v \in Entry
  <2>1. v \in Variable
    BY <1>1, ElementType DEF Types, Table
  <2>. QED  BY <2>1 DEF Variable
<1>3. v.data # NULL => Len(v.data) \in Nat
  BY <1>2 DEF Entry
<1>. HIDE DEF n
<1>4. v.len = 0 \/ (v.data # NULL => v.len <= Len(v.data))
  <2>1. CASE IsPredefined(n)
    BY <1>1, <2>1 DEF Bound, IsPort
  <2>2. CASE Definitions(read, n) # {}
    <3>1. PICK d \in DOMAIN read : Defining(read[d]) /\ read[d].name = n
      BY <2>2 DEF Definitions
    <3>2. Means(v, read[d], Number(read, where, d))
      BY <1>1, <3>1 DEF Bound
    <3>. QED  BY <3>1, <3>2 DEF Means, Defining, IsNumber
  <2>3. CASE ~IsPredefined(n) /\ Definitions(read, n) = {}
    BY <1>1, <2>3 DEF Bound, Plain
  <2>. QED  BY <2>1, <2>2, <2>3
<1>. QED  BY <1>1, <1>3, <1>4

\* A statement that crashes is an instruction for which there is no room, or uses
\* the table in a way that takes the heap for granted.
LEMMA StatementFails ==
    ASSUME Parsing, Parsed, parse, status' = "wild", WellFormed(read')
    PROVE  (CodeEnd > CAPACITY)' \/ ByTheHeap'
<1>1. PICK kind : Reads(kind)
  BY DEF parse, stmts, lbl_def, include, data, data_str, equ, equrel, res, pusht, pushtv, op,
         yyerror, Defines
<1>2. Types /\ status = "ok" /\ host' = host
  BY <1>1, ReadsType DEF Reads
<1>3. PICK s, n : s = stmt /\ Grown(s, n) /\ s \in Statement
  BY Grows1 DEF Parsed, Code
<1>4. CodeEnd' = ip + Size(s) /\ read' = Append(read, s) /\ read \in Seq(Statement)
  BY <1>3 DEF Grown, Parsed, Code, History
<1>5. WellFormed(read) /\ Bound
  BY <1>3, <1>4, Prefix DEF Parsed
<1>6. read' # <<>> /\ read'[Len(read')] = s
  BY <1>3, <1>4
<1>7. CASE pushtv /\ Dirty(Place(s.name))
  <2>1. s.kind = "pushtv" /\ host'.realloc = "dirty"
    BY <1>2, <1>3, <1>7 DEF pushtv, Reads, Dirty
  <2>. QED  BY <1>6, <2>1 DEF ByTheHeap, JustRead
<1>8. CASE pusht \/ (pushtv /\ ~Dirty(Place(s.name))) \/ op
  <2>1. ip \in Nat /\ CAPACITY \in Nat /\ Size(s) \in Nat
    BY <1>2, <1>3, SasmAssumption, SizeType DEF Types
  <2>2. PICK k : ~(ip + k <= CAPACITY) /\ k = Size(s)
    <3>1. CASE pusht
      <4>1. s.kind = "pusht" /\ Size(s) = 1 + s.len
        BY <1>3, <3>1 DEF pusht, Reads, Size
      <4>. QED  BY <1>2, <1>3, <3>1, <4>1 DEF pusht, push1, emit
    <3>2. CASE pushtv /\ ~Dirty(Place(s.name))
      <4>1. s.kind = "pushtv" /\ Size(s) = 1 + s.len
        BY <1>3, <3>2 DEF pushtv, Reads, Size
      <4>2. push1(PUSH, find_or_create_variable(s.name)[Place(s.name)].addr, s.len)
        BY <1>3, <3>2 DEF pushtv
      <4>. QED  BY <1>2, <4>1, <4>2 DEF push1, emit
    <3>3. CASE op
      <4>1. s.kind = "op" /\ Size(s) = 1
        BY <1>3, <3>3 DEF op, Reads, Size
      <4>. QED  BY <1>2, <3>3, <4>1 DEF op, push0, emit
    <3>. QED  BY <1>8, <3>1, <3>2, <3>3
  <2>. QED  BY <1>4, <2>1, <2>2
<1>9. CASE equrel
  <2>1. s.kind = "equrel"
    BY <1>3, <1>9 DEF equrel, Reads
  <2>2. CASE Known(s.of)
    <3>1. /\ Grows(s.name) /\ host.block = "moves" /\ host.freed # "kept"
          /\ UNCHANGED <<variables, variables_sz>>
      BY <1>2, <1>3, <1>9, <2>2 DEF equrel, table, define_constant
    <3>2. Grows(s.name)'
      BY <3>1 DEF Grows, Known, find_variable, Places
    <3>. QED  BY <1>2, <1>6, <2>1, <3>1, <3>2 DEF ByTheHeap, JustRead
  <2>3. CASE ~Known(s.of)
    <3>1. PICK d \in Definitions(read, s.of) : TRUE
      BY <1>3, <1>4, <2>1, LastDefinition DEF Defining, IsNumber
    <3>2. d \in DOMAIN read /\ Defining(read[d]) /\ read[d].name = s.of
      BY DEF Definitions
    <3>. QED  BY <1>5, <2>3, <3>2 DEF Bound
  <2>. QED  BY <2>2, <2>3
<1>10. CASE lbl_def \/ include \/ data \/ data_str \/ equ \/ res \/ yyerror
  BY <1>2, <1>10 DEF lbl_def, include, data, data_str, equ, res, yyerror, Defines
<1>. QED  BY <1>7, <1>8, <1>9, <1>10 DEF parse, stmts

\* The data crash behind the end of the image, or where lengths and pointers of
\* the table were never set.
LEMMA DataFail ==
    ASSUME Parsing, Parsed, write_data, status' = "wild", WellFormed(read)
    PROVE  (phase = "data" /\ DataEnd[Len(variables)] > CAPACITY)' \/ ByTheHeap'
<1>1. /\ status = "ok" /\ phase = "data" /\ WriteUndefined
      /\ UNCHANGED <<host, phase, ip, variables>>
  BY DEF write_data
<1>2. Types /\ Unique /\ Bound
  BY <1>1 DEF Parsing, Parsed
<1>3. CASE Dirty(Len(variables))
  BY <1>1, <1>3 DEF Dirty, ByTheHeap
<1>4. ~\E var \in ToSet(variables) : var.data # NULL /\ var.len > Len(var.data)
  <2>. SUFFICES ASSUME NEW i \in DOMAIN variables, variables[i].data # NULL,
                       variables[i].len > Len(variables[i].data)
                PROVE  FALSE
    BY DEF ToSet
  <2>1. variables[i].len <= Len(variables[i].data)
    BY <1>2, EntriesFit
  <2>2. variables[i] \in Entry
    BY <1>2 DEF Types, Table, Variable
  <2>3. variables[i].len \in Nat /\ Len(variables[i].data) \in Nat
    BY <2>2 DEF Entry
  <2>. QED  BY <2>1, <2>3
<1>5. CASE ~Dirty(Len(variables))
  <2>1. DataEnd[Len(variables)] > CAPACITY
    BY <1>1, <1>4, <1>5 DEF WriteUndefined
  <2>2. DataEnd' = DataEnd
    BY <1>1 DEF DataEnd
  <2>. QED  BY <1>1, <2>1, <2>2
<1>. QED  BY <1>3, <1>5

\* Nor is a program without _main diagnosed.
LEMMA PrologueFails ==
    ASSUME Resolved, write_prologue, status' = "wild", WellFormed(read)
    PROVE  phase = "main" /\ Definitions(read, "_main") = {}
<1>1. phase = "main" /\ ~Known("_main")
  BY DEF write_prologue, Known
<1>2. ASSUME NEW d \in Definitions(read, "_main") PROVE FALSE
  <2>1. d \in DOMAIN read /\ Defining(read[d]) /\ read[d].name = "_main"
    BY DEF Definitions
  <2>. QED  BY <1>1, <2>1 DEF Resolved, Numbers, DataLoaded, Defining
<1>. QED  BY <1>1, <1>2

LEMMA IncludedKept ==
    ASSUME Inv, Included, [TraceNext]_traceVars
    PROVE  Included'
<1>1. files \in Seq(STRING)
  BY DEF Inv, Types
<1>2. CASE parse
  <2>1. PICK kind : Reads(kind)
    BY <1>2 DEF parse, stmts, lbl_def, include, data, data_str, equ, equrel, res, pusht,
                pushtv, op, yyerror, Defines
  <2>2. PICK s, n : s = stmt /\ Grown(s, n)
    BY <1>2, <2>1, Grows1 DEF Inv, Parsed, Code, Reads
  <2>3. /\ n + 1 \in DOMAIN read' /\ read'[n + 1] = s
        /\ \A i \in DOMAIN read : i \in DOMAIN read' /\ read'[i] = read[i]
    BY <2>2 DEF Grown
  <2>4. CASE include
    <3>1. s.kind = "include" /\ s.name \in STRING /\ files' = Append(files, s.name)
      BY <2>1, <2>2, <2>4, ReadsType, StatementType DEF include, Reads, Inv
    <3>2. PICK m \in Nat : /\ DOMAIN files = 1 .. m /\ DOMAIN files' = 1 .. m + 1
                           /\ \A k \in DOMAIN files : files'[k] = files[k]
                           /\ files'[m + 1] = s.name
      BY <1>1, <3>1, AppendIs
    <3>3. ASSUME NEW k \in DOMAIN files'
          PROVE  \E i \in DOMAIN read' : read'[i].kind = "include" /\ read'[i].name = files'[k]
      <4>1. CASE k = m + 1
        BY <2>3, <3>1, <3>2, <4>1
      <4>2. CASE k # m + 1
        <5>1. k \in DOMAIN files /\ files'[k] = files[k]
          BY <3>2, <4>2
        <5>. QED  BY <2>3, <5>1 DEF Included
      <4>. QED  BY <4>1, <4>2
    <3>. QED  BY <3>3 DEF Included
  <2>5. CASE UNCHANGED files
    BY <2>3, <2>5 DEF Included
  <2>. QED  BY <1>2, <2>4, <2>5 DEF parse, stmts, lbl_def, data, data_str, equ, equrel, res,
                                    pusht, pushtv, op, yyerror, Defines
<1>3. CASE yywrap /\ UNCHANGED <<read, where>>
  <2>1. files' = <<>> \/ (files # <<>> /\ files' = Tail(files))
    BY <1>3 DEF yywrap
  <2>2. \A k \in DOMAIN files' : \E j \in DOMAIN files : files'[k] = files[j]
    <3>1. CASE files' = <<>>
      BY <3>1
    <3>2. CASE files # <<>> /\ files' = Tail(files)
      BY <1>1, <3>2
    <3>. QED  BY <2>1, <3>1, <3>2
  <2>. QED  BY <1>3, <2>2 DEF Included
<1>4. CASE UNCHANGED <<files, read>>
  BY <1>4 DEF Included
<1>. QED  BY <1>2, <1>3, <1>4 DEF TraceNext, traceVars, vars, yyaccept, write_data,
                                  write_prologue

\* Crashing is final, and each way to crash has its reason.
LEMMA CrashStep ==
    ASSUME Inv, Included, WildExplained, [TraceNext]_traceVars
    PROVE  WildExplained'
<1>. SUFFICES ASSUME status' = "wild", WellFormed(read') PROVE Blamed' \/ ByTheHeap'
  BY DEF WildExplained
<1>1. CASE parse
  <2>1. phase = "parse" /\ status = "ok"
    BY <1>1 DEF parse, stmts, lbl_def, include, data, data_str, equ, equrel, res, pusht, pushtv,
                op, yyerror, Defines, Reads
  <2>2. (CodeEnd > CAPACITY)' \/ ByTheHeap'
    BY <1>1, <2>1, StatementFails DEF Inv
  <2>. QED  BY <2>2 DEF Blamed
<1>2. CASE yywrap /\ UNCHANGED <<read, where>>
  <2>1. /\ Head(files) \notin DOMAIN source.text \/ host.freed = "reused"
        /\ files # <<>> /\ source' = source /\ host' = host
    BY <1>2 DEF yywrap
  <2>2. 1 \in DOMAIN files /\ Head(files) = files[1]
    BY <2>1 DEF Inv, Types
  <2>3. PICK i \in DOMAIN read : read[i].kind = "include" /\ read[i].name = files[1]
    BY <2>2 DEF Included
  <2>4. CASE Head(files) \notin DOMAIN source.text
    BY <1>2, <2>1, <2>2, <2>3, <2>4 DEF Blamed
  <2>5. CASE host.freed = "reused"
    BY <1>2, <2>1, <2>3, <2>5 DEF ByTheHeap, IncludesAny
  <2>. QED  BY <2>1, <2>4, <2>5
<1>3. CASE write_data /\ UNCHANGED <<read, where>>
  <2>1. status = "ok" /\ phase = "data"
    BY <1>3 DEF write_data
  <2>2. (phase = "data" /\ DataEnd[Len(variables)] > CAPACITY)' \/ ByTheHeap'
    BY <1>3, <2>1, DataFail DEF Inv
  <2>. QED  BY <2>2 DEF Blamed
<1>4. CASE write_prologue /\ UNCHANGED <<read, where>>
  <2>1. status = "ok" /\ phase = "main" /\ phase' = phase
    BY <1>4 DEF write_prologue
  <2>2. Definitions(read, "_main") = {}
    BY <1>4, <2>1, PrologueFails DEF Inv
  <2>. QED  BY <1>4, <2>1, <2>2 DEF Blamed
<1>5. CASE yyaccept
  BY <1>5 DEF yyaccept
<1>6. CASE UNCHANGED traceVars
  <2>1. DataEnd' = DataEnd
    BY <1>6 DEF DataEnd, traceVars, vars
  <2>. HIDE DEF DataEnd
  <2>2. \A n : Grows(n)' = Grows(n)
    BY <1>6 DEF Grows, Known, find_variable, Places, traceVars, vars
  <2>3. (Blamed => Blamed') /\ (JustRead("equrel") => JustRead("equrel")')
        /\ (JustRead("pushtv") => JustRead("pushtv")')
    BY <1>6, <2>1 DEF Blamed, JustRead, CodeEnd, traceVars, vars
  <2>4. ByTheHeap => ByTheHeap'
    BY <1>6, <2>2, <2>3 DEF ByTheHeap, IncludesAny, traceVars, vars
  <2>5. status = "wild" /\ WellFormed(read)
    BY <1>6 DEF traceVars, vars
  <2>. QED  BY <2>3, <2>4, <2>5 DEF WildExplained
<1>. QED  BY <1>1, <1>2, <1>3, <1>4, <1>5, <1>6 DEF TraceNext

\* The assembler crashes on a well-formed program only if the image is too
\* small for its code or its data, a file cannot be opened, nothing defines
\* _main, or the heap does one of the things the code takes for granted it will
\* not do: for every program and every heap (equrel, new_variable, yywrap,
\* write_data, write_prologue).
THEOREM CrashExplained == TraceSpec => []WildExplained
<1>1. TraceInit => Inv /\ Included /\ WildExplained
  <2>1. TraceInit => files = <<>> /\ status = "ok"
    BY DEF TraceInit, Init
  <2>. QED  BY <2>1, InitInv DEF Included, WildExplained
<1>2. Inv /\ Included /\ WildExplained /\ [TraceNext]_traceVars
      => (Inv /\ Included /\ WildExplained)'
  BY NextInv, IncludedKept, CrashStep
<1>. QED  BY <1>1, <1>2, PTL DEF TraceSpec

=============================================================================
