-------------------------------- MODULE Sasm --------------------------------
(***************************************************************************)
(* The assembler of src/lib/cpu/sasm: one pass over a source file and the  *)
(* files it includes, that emits instructions and collects names, then the *)
(* data behind the code, the references patched, and a prologue that calls *)
(* _main.                                                                  *)
(*                                                                         *)
(* A source is what the lexer makes of its files: a sequence of statements *)
(* for each, comments and empty lines left out.  One step of the           *)
(* specification parses one statement, or is one of the stages that        *)
(* follow.  As in Cpu, "wild" is any access outside the program's memory.  *)
(***************************************************************************)
EXTENDS Isa, SequencesExt

CONSTANTS
    CAPACITY,      \* bytes of sasm->prog
    IRQ_P0_BUF,    \* address of the first port's DMA buffer
    DMA_LEN,       \* distance from one port's buffer to the next one's
    Sources,       \* the programs: [main : a name, text : names -> statements]
    Hosts          \* what the C library does with the heap

\* What a source can hold.  Widths are those of byte ... qword, db ... dq and
\* resb ... resq; a string has no zero byte.
Width == {1, 2, 4, 8} \intersect 1 .. QWORD
Instruction == Op0 \union Op1 \union Op2
Statement ==
    [kind : {"lbl_def", "include"}, name : STRING]
    \union [kind : {"data"}, name : STRING, value : Nat, len : Width]
    \union [kind : {"data_str"}, name : STRING, text : Seq(Byte \ {0})]
    \union [kind : {"equ"}, name : STRING, value : Nat]
    \union [kind : {"equrel"}, name : STRING, of : STRING]
    \union [kind : {"res"}, name : STRING, count : Nat, len : Width]
    \union [kind : {"pusht"}, value : Nat, len : Width]
    \union [kind : {"pushtv"}, name : STRING, len : Width]
    \union [kind : {"op"}, op : Instruction \ {PUSH}, len : Width]
    \union [kind : {"error"}]

ASSUME SasmAssumption ==
    /\ QWORD \in {2, 4, 8}
    /\ CAPACITY \in Nat /\ DMA_LEN \in Nat
    /\ IDT \in Nat /\ IRQ_P0_BUF \in Nat
    /\ Hosts \subseteq [realloc : {"zeroed", "dirty"},  \* memory it adds
                        block   : {"stays", "moves"},   \* where it puts it
                        freed   : {"kept", "cleared", "reused"}]
    /\ \A s \in Sources : /\ s.main \in DOMAIN s.text /\ DOMAIN s.text \subseteq STRING
                          /\ \A f \in DOMAIN s.text : s.text[f] \in Seq(Statement)

VARIABLES
    source, host,   \* the members of Sources and Hosts
    text,           \* what is left of the file being read
    files,          \* the files to be read after it
    phase,          \* "parse", "data", "main"
    status,         \* "ok", "done", "exit" or "wild"
    prog,           \* the image
    ip,             \* where the next byte goes, an offset into prog
    prog_len,       \* length of the image, set once the data are in it
    variables,      \* the table of names
    variables_sz    \* how many entries it has room for

vars == <<source, host, text, files, phase, status, prog, ip, prog_len,
          variables, variables_sz>>

----------------------------------------------------------------------------
(* The table of names *)

\* var->data of a name that is no string or reservation: no sequence of bytes,
\* and not the empty one that malloc(0) stands for.
NULL == <<RADIX>>

PROLOGUE == 3 + QWORD   \* bytes left free for the call of _main

New(name) == [name |-> name, value |-> 0, addr |-> 0, len |-> 0,
              data |-> NULL, refs |-> <<>>]

\* Where a name is in the table; the code takes the first place, and a name is
\* entered only if it has none.
Places(name) == {i \in DOMAIN variables : variables[i].name = name}

\* Faulty: the search stops before the last name.
find_variable_MissesLast(name) ==
    LET places == Places(name) \ {Len(variables)}
    IN IF places = {} THEN 0 ELSE CHOOSE i \in places : TRUE

\* The place of a name, 0 if it is not there.
find_variable(name) ==
    IF Places(name) = {} THEN 0 ELSE CHOOSE i \in Places(name) : TRUE
Known(name) == find_variable(name) # 0

\* The table with the name in it, and the name's place there.
find_or_create_variable(name) ==
    IF Known(name) THEN variables ELSE Append(variables, New(name))
Place(name) ==
    IF Known(name) THEN find_variable(name) ELSE Len(variables) + 1

\* An entry more doubles a full table, and the block may move.
Grows(name) == ~Known(name) /\ Len(variables) = variables_sz
new_variable(name) ==
    variables_sz' = IF Grows(name) THEN 2 * variables_sz ELSE variables_sz

\* All entries but the first are memory that realloc added and nobody set.
Dirty(place) == host.realloc = "dirty" /\ place > 1

define_variable(name, value, len) ==
    /\ variables' = [find_or_create_variable(name)
                        EXCEPT ![Place(name)].value = value, ![Place(name)].len = len]
    /\ new_variable(name)

define_data(name, data) ==
    /\ variables' = [find_or_create_variable(name)
                        EXCEPT ![Place(name)].len = Len(data), ![Place(name)].data = data]
    /\ new_variable(name)

\* The address of a name seen before is not the constant but where the
\* program stands; equ and equrel set the value as well.
define_constant(name, addr, value) ==
    /\ variables' = [find_or_create_variable(name)
                        EXCEPT ![Place(name)].addr = IF Known(name) THEN ip ELSE addr,
                               ![Place(name)].value = value]
    /\ new_variable(name)

\* Faulty: a label that was used already keeps the address it got then.
define_label_FirstUse(name) ==
    /\ variables' = [find_or_create_variable(name)
                        EXCEPT ![Place(name)].addr = IF Known(name) THEN @ ELSE ip]
    /\ new_variable(name)

define_label(name) ==
    /\ variables' = [find_or_create_variable(name) EXCEPT ![Place(name)].addr = ip]
    /\ new_variable(name)

\* Faulty: the reference is to the instruction, not to its operand.
add_variable_ref_Instruction(name, addr, len) ==
    /\ variables' = [find_or_create_variable(name)
                        EXCEPT ![Place(name)].refs =
                            Append(@, [addr |-> addr - 1, len |-> len])]
    /\ new_variable(name)

add_variable_ref(name, addr, len) ==
    /\ variables' = [find_or_create_variable(name)
                        EXCEPT ![Place(name)].refs =
                            Append(@, [addr |-> addr, len |-> len])]
    /\ new_variable(name)

table == <<variables, variables_sz>>

----------------------------------------------------------------------------
(* Emitting *)

opflags(len) == CASE len = 1 -> 0 [] len = 2 -> 1 [] len = 4 -> 2 [] len = 8 -> 3
Opcode(op, len) == op * 8 + opflags(len)

\* A block of n bytes at ip; behind the end of prog anything may happen.
emit(block, n) ==
    IF ip + n <= CAPACITY
    THEN /\ prog' = Overwrite(prog, ip, block)
         /\ ip' = ip + n
         /\ UNCHANGED status
    ELSE status' = "wild" /\ UNCHANGED <<prog, ip>>

push0(op, len) == emit([i \in {0} |-> Opcode(op, len)], 1)

WithOperand(op, value, len) ==
    [i \in 0 .. len |-> IF i = 0 THEN Opcode(op, len) ELSE LE(value, len)[i - 1]]
push1(op, value, len) == emit(WithOperand(op, value, len), 1 + len)

----------------------------------------------------------------------------
(* The grammar: one action per kind of statement *)

stmt == Head(text)

Reads(kind) ==
    /\ status = "ok" /\ phase = "parse" /\ text # <<>>
    /\ stmt.kind = kind
    /\ text' = Tail(text)
    /\ UNCHANGED <<source, host, phase, prog_len>>

Defines(kind) == Reads(kind) /\ UNCHANGED <<files, status, prog, ip>>

lbl_def == Defines("lbl_def") /\ define_label(stmt.name)

\* Faulty: the file is put before the files that wait already.
include_First ==
    /\ Reads("include")
    /\ files' = <<stmt.name>> \o files
    /\ UNCHANGED <<status, prog, ip, table>>

\* A file is not read where it is included, but after everything before it.
include ==
    /\ Reads("include")
    /\ files' = Append(files, stmt.name)
    /\ UNCHANGED <<status, prog, ip, table>>

\* db x 5, and db x 'c' with a length of one.
data ==
    /\ Defines("data")
    /\ define_variable(stmt.name, stmt.value, stmt.len)

data_str == Defines("data_str") /\ define_data(stmt.name, stmt.text)

equ ==
    /\ Defines("equ")
    /\ define_constant(stmt.name, stmt.value, stmt.value)

\* The length of another name, read through a pointer into the table after
\* define_constant has enlarged the table.
equrel ==
    LET name  == stmt.name
        of    == stmt.of
        stale == Grows(name) /\ host.block = "moves" /\ host.freed # "kept"
    IN /\ Reads("equrel")
       /\ IF Known(of) /\ ~stale
          THEN /\ define_constant(name, 0, variables[find_variable(of)].len)
               /\ UNCHANGED <<files, status, prog, ip>>
          ELSE status' = "wild" /\ UNCHANGED <<files, prog, ip, table>>

res ==
    /\ Defines("res")
    /\ define_data(stmt.name, [i \in 1 .. stmt.count * stmt.len |-> 0])

\* push 5, push byte 5
pusht ==
    /\ Reads("pusht")
    /\ push1(PUSH, stmt.value, stmt.len)
    /\ UNCHANGED <<files, table>>

\* Faulty: the flags of the instruction are taken for the length of its operand.
pushtv_Flags ==
    LET name == stmt.name
    IN /\ Reads("pushtv")
       /\ IF Dirty(Place(name))
          THEN status' = "wild" /\ UNCHANGED <<prog, ip, table>>
          ELSE /\ add_variable_ref(name, ip + 1, opflags(stmt.len))
               /\ push1(PUSH, find_or_create_variable(name)[Place(name)].addr, stmt.len)
       /\ UNCHANGED files

\* push x, push byte x: what is emitted for x is patched by write_data.
pushtv ==
    LET name == stmt.name
    IN /\ Reads("pushtv")
       /\ IF Dirty(Place(name))
          THEN status' = "wild" /\ UNCHANGED <<prog, ip, table>>
          ELSE /\ add_variable_ref(name, ip + 1, stmt.len)
               /\ push1(PUSH, find_or_create_variable(name)[Place(name)].addr, stmt.len)
       /\ UNCHANGED files

\* Faulty: an interrupt call is emitted like an instruction with an operand.
ByteSized_NotInt == {JMP, RET, NOP, HLT}

\* The other instructions take no operand and have the length of a qword,
\* except these, which are emitted with a length of one.
ByteSized == {JMP, RET, NOP, HLT, INT}

op ==
    LET o == stmt.op
    IN /\ Reads("op")
       /\ push0(o, IF o \in ByteSized THEN 1
                   ELSE IF o = CALL THEN QWORD ELSE stmt.len)
       /\ UNCHANGED <<files, table>>

yyerror ==
    /\ Reads("error")
    /\ status' = "exit"
    /\ UNCHANGED <<files, prog, ip, table>>

----------------------------------------------------------------------------
(* The end of a file and of the program *)

\* Faulty: the list is not advanced, and the scanner goes on with the file
\* that has ended.
yywrap_AtEnd ==
    /\ status = "ok" /\ phase = "parse" /\ text = <<>> /\ files # <<>>
    /\ status' = IF Head(files) \in DOMAIN source.text THEN status ELSE "wild"
    /\ UNCHANGED <<source, host, phase, text, files, prog, ip, prog_len, table>>

\* The next file is taken from a list whose first element is freed before
\* its successor is read.  A file that cannot be opened ends the process.
yywrap ==
    /\ status = "ok" /\ phase = "parse" /\ text = <<>> /\ files # <<>>
    /\ LET fn == Head(files)
           lost == host.freed = "cleared"
           wild == fn \notin DOMAIN source.text \/ host.freed = "reused"
       IN /\ text' = IF wild THEN <<>> ELSE source.text[fn]
          /\ files' = IF lost THEN <<>> ELSE Tail(files)
          /\ status' = IF wild THEN "wild" ELSE status
    /\ UNCHANGED <<source, host, phase, prog, ip, prog_len, table>>

yyaccept ==
    /\ status = "ok" /\ phase = "parse" /\ text = <<>> /\ files = <<>>
    /\ phase' = "data"
    /\ UNCHANGED <<source, host, text, files, status, prog, ip, prog_len, table>>

\* The value behind a name: what equ gave it, the initial value of a datum,
\* or else an address.
Value(var) == IF var.value # 0 THEN var.value ELSE var.addr

Contents(var) ==
    IF var.data = NULL THEN LE(var.value, var.len)
    ELSE [i \in 0 .. var.len - 1 |-> var.data[i + 1]]

\* Where the data of the first k names of the table end; they begin at ip.
DataEnd[k \in 0 .. Len(variables)] ==
    IF k = 0 THEN ip ELSE DataEnd[k - 1] + variables[k].len

\* Faulty: the address is taken after the copy.
Placed_AfterCopy ==
    LET end == DataEnd
    IN [i \in DOMAIN variables |->
            IF variables[i].len > 0 THEN [variables[i] EXCEPT !.addr = end[i]]
            ELSE variables[i]]

Placed ==
    LET end == DataEnd
    IN [i \in DOMAIN variables |->
            IF variables[i].len > 0 THEN [variables[i] EXCEPT !.addr = end[i - 1]]
            ELSE variables[i]]

\* The image with the data in it, and then with every reference patched.
WithData ==
    LET end == DataEnd
    IN [a \in DOMAIN prog |->
        LET here == {i \in DOMAIN variables : end[i - 1] <= a /\ a < end[i]}
        IN IF here = {} THEN prog[a]
           ELSE LET i == CHOOSE i \in here : TRUE
                IN Contents(variables[i])[a - end[i - 1]]]

Patched(image, names) ==
    LET Uses == UNION {{<<i, r>> : r \in DOMAIN names[i].refs} : i \in DOMAIN names}
        use(p) == names[p[1]].refs[p[2]]
    IN [a \in DOMAIN image |->
        LET here == {p \in Uses : a - use(p).addr \in 0 .. use(p).len - 1}
        IN IF here = {} THEN image[a]
           ELSE LET p == CHOOSE p \in here : TRUE
                IN LE(Value(names[p[1]]), use(p).len)[a - use(p).addr]]

\* Entries whose memory nobody set are used as they are, and a datum is copied
\* at the length of its last definition.
WriteUndefined ==
    \/ Dirty(Len(variables))
    \/ \E var \in ToSet(variables) : var.data # NULL /\ var.len > Len(var.data)
    \/ DataEnd[Len(variables)] > CAPACITY

write_data ==
    /\ status = "ok" /\ phase = "data"
    /\ IF WriteUndefined
       THEN status' = "wild" /\ UNCHANGED <<phase, prog, ip, prog_len, variables>>
       ELSE /\ variables' = Placed
            /\ prog' = Patched(WithData, Placed)
            /\ ip' = DataEnd[Len(variables)]
            /\ prog_len' = ip'
            /\ phase' = "main"
            /\ UNCHANGED status
    /\ UNCHANGED <<source, host, text, files, variables_sz>>

\* Call _main and halt; a program without _main is not diagnosed.
write_prologue ==
    LET main == find_variable("_main")
        call == WithOperand(PUSH, variables[main].addr, QWORD)
    IN /\ status = "ok" /\ phase = "main"
       /\ IF main = 0 THEN status' = "wild" /\ UNCHANGED <<prog, ip>>
          ELSE /\ prog' = Overwrite(prog, 0,
                             [i \in 0 .. QWORD + 2 |->
                                 IF i <= QWORD THEN call[i]
                                 ELSE IF i = QWORD + 1 THEN Opcode(CALL, QWORD)
                                 ELSE Opcode(HLT, 1)])
               /\ ip' = PROLOGUE
               /\ status' = "done"
       /\ UNCHANGED <<source, host, text, files, phase, prog_len, table>>

----------------------------------------------------------------------------
(* The specification *)

\* The names a program can use without defining them.
Predefined ==
    <<[name |-> "CLK", addr |-> IRQ_CLK], [name |-> "KBD", addr |-> IRQ_KBD],
      [name |-> "TTY", addr |-> IRQ_TTY], [name |-> "MMU", addr |-> IRQ_MMU],
      [name |-> "IO_0", addr |-> IRQ(4)], [name |-> "IO_1", addr |-> IRQ(5)],
      [name |-> "IO_2", addr |-> IRQ(6)], [name |-> "IO_3", addr |-> IRQ(7)],
      [name |-> "IO_0_BUF", addr |-> IRQ_P0_BUF],
      [name |-> "IO_1_BUF", addr |-> IRQ_P0_BUF + DMA_LEN],
      [name |-> "IO_2_BUF", addr |-> IRQ_P0_BUF + 2 * DMA_LEN],
      [name |-> "IO_3_BUF", addr |-> IRQ_P0_BUF + 3 * DMA_LEN]>>

\* TLAPS does not know that a literal is a string.
ASSUME NameAssumption ==
    \A i \in DOMAIN Predefined : Predefined[i].name \in STRING

Init ==
    /\ source \in Sources /\ host \in Hosts
    /\ text = source.text[source.main] /\ files = <<>>
    /\ phase = "parse" /\ status = "ok"
    /\ prog = [a \in 0 .. CAPACITY - 1 |-> 0]
    /\ ip = PROLOGUE /\ prog_len = 0
    /\ variables = [i \in DOMAIN Predefined |->
                       [New(Predefined[i].name) EXCEPT !.addr = Predefined[i].addr]]
    /\ variables_sz = 16    \* 1, doubled as the twelve names came in

stmts ==
    \/ lbl_def \/ include \/ data \/ data_str \/ equ \/ equrel \/ res
    \/ pusht \/ pushtv \/ op \/ yyerror

Next == stmts \/ yywrap \/ yyaccept \/ write_data \/ write_prologue

Spec     == Init /\ [][Next]_vars

----------------------------------------------------------------------------
(* Properties *)

TypeOK ==
    /\ source \in Sources /\ host \in Hosts
    /\ text \in Seq(Statement) /\ files \in Seq(STRING)
    /\ phase \in {"parse", "data", "main"}
    /\ status \in {"ok", "done", "exit", "wild"}
    /\ prog \in [0 .. CAPACITY - 1 -> Byte]
    /\ ip \in Nat /\ prog_len \in Nat /\ variables_sz \in Nat
    /\ variables \in Seq([name : STRING, value : Nat, addr : Nat, len : Nat,
                          data : Seq(Byte) \union {NULL},
                          refs : Seq([addr : Nat, len : Width])])

\* The instruction the machine decodes at an address.
DecodedOp(a) == prog[a] \div 8

\* The references in the table, and the bytes that will be patched for one.
Refs == UNION {{<<i, r>> : r \in DOMAIN variables[i].refs} : i \in DOMAIN variables}
ref(q) == variables[q[1]].refs[q[2]]
Cells(q) == ref(q).addr .. ref(q).addr + ref(q).len - 1

\* Patching a reference touches the operand of one push and nothing else: until
\* write_data patches them, the references recorded are apart from each other,
\* behind the prologue, in code that has been emitted (add_variable_ref,
\* sasm.c:316).
RefsApart ==
    phase # "main" /\ status # "wild" =>
        \A q \in Refs :
           /\ Cells(q) \subseteq PROLOGUE .. ip - 1
           /\ DecodedOp(ref(q).addr - 1) = PUSH
           /\ \A r \in Refs : r # q => Cells(q) \intersect Cells(r) = {}

=============================================================================
