------------------------------ MODULE SasmTrace ------------------------------
(***************************************************************************)
(* The assembler with a history: the statements it has parsed, where the   *)
(* program stood at each, and the files it has begun.  The history guides  *)
(* nothing; with it, what an image has to hold can be said of any source,  *)
(* over the statements in the order they were read.                        *)
(***************************************************************************)
EXTENDS Sasm

VARIABLES
    read,     \* the statements parsed so far, in order
    where,    \* where the program stood when each was parsed
    begun     \* the files begun so far, and how much had been read before each

traceVars == <<vars, read, where, begun>>

\* A statement enters the history as it is parsed.
parse ==
    /\ stmts
    /\ read' = Append(read, stmt)
    /\ where' = Append(where, ip)
    /\ UNCHANGED begun

\* A file enters it as it is taken off the list of those that wait.
Taken == Len(files') < Len(files)
begin ==
    begun' = IF Taken THEN Append(begun, [file |-> Head(files), at |-> Len(read)])
             ELSE begun

TraceInit ==
    /\ Init
    /\ read = <<>> /\ where = <<>>
    /\ begun = <<[file |-> source.main, at |-> 0]>>

TraceNext ==
    \/ parse
    \/ /\ yywrap \/ yyaccept \/ write_data \/ write_prologue
       /\ begin
       /\ UNCHANGED <<read, where>>

TraceSpec     == TraceInit /\ [][TraceNext]_traceVars
FairTraceSpec == TraceSpec /\ WF_traceVars(TraceNext)

----------------------------------------------------------------------------
(* What the statements p of a program mean *)

\* Bytes a statement adds to the code.
Size(s) == CASE s.kind = "op" -> 1
             [] s.kind \in {"pusht", "pushtv"} -> 1 + s.len
             [] OTHER -> 0

IsData(s) == s.kind \in {"data", "data_str", "res"}
IsNumber(s) == s.kind \in {"lbl_def", "equ", "equrel"}
Defining(s) == IsData(s) \/ IsNumber(s)

\* The places where a name is defined, and one of them.
Definitions(p, n) == {d \in DOMAIN p : Defining(p[d]) /\ p[d].name = n}
Definition(p, n) == CHOOSE d \in Definitions(p, n) : TRUE

IsPredefined(n) == \E i \in DOMAIN Predefined : Predefined[i].name = n
PredefinedAddr(n) ==
    Predefined[CHOOSE i \in DOMAIN Predefined : Predefined[i].name = n].addr

\* The bytes of a datum.
DataBytes(s) ==
    CASE s.kind = "data" -> [i \in 1 .. s.len |-> LE(s.value, s.len)[i - 1]]
      [] s.kind = "data_str" -> s.text
      [] s.kind = "res" -> [i \in 1 .. s.count * s.len |-> 0]

\* The number a constant is defined as: a value, or the length of a datum.
Constant(p, s) ==
    IF s.kind = "equ" THEN s.value
    ELSE Len(DataBytes(p[Definition(p, s.of)]))

\* No name is defined twice, data are initially zero, and a length is taken of a
\* datum defined before.
WellFormed(p) ==
    /\ \A i \in DOMAIN p : Defining(p[i]) =>
          ~IsPredefined(p[i].name) /\ \A d \in Definitions(p, p[i].name) : d = i
    /\ \A i \in DOMAIN p : p[i].kind = "data" => p[i].value = 0
    /\ \A i \in DOMAIN p : p[i].kind = "equrel" =>
          \E d \in Definitions(p, p[i].of) : d < i /\ IsData(p[d])

\* Every name that is used has a definition, and _main is a label.
Proper(p) ==
    /\ WellFormed(p)
    /\ \A i \in DOMAIN p : p[i].kind = "pushtv" =>
          IsPredefined(p[i].name) \/ Definitions(p, p[i].name) # {}
    /\ \E d \in Definitions(p, "_main") : p[d].kind = "lbl_def"

StandsForNumber(p, n) == IsPredefined(n) \/ \E d \in Definitions(p, n) : IsNumber(p[d])
StandsForData(p, n) == \E d \in Definitions(p, n) : IsData(p[d])

UsedBefore(p, i) == \E j \in 1 .. i - 1 : p[j].kind = "pushtv" /\ p[j].name = p[i].name

\* The number a label or a constant is, if the statements begin at the places
\* at.  A constant of value zero that is used before it is defined is the place
\* of its definition: the assembler takes its zero for no value (sasm.c:203).
Number(p, at, d) ==
    IF p[d].kind = "lbl_def" \/ (Constant(p, p[d]) = 0 /\ UsedBefore(p, d))
    THEN at[d] ELSE Constant(p, p[d])

\* The number a name stands for.
Meaning(p, at, n) ==
    IF IsPredefined(n) THEN PredefinedAddr(n) ELSE Number(p, at, Definition(p, n))

----------------------------------------------------------------------------
(* Properties *)

\* How many of the first i statements read include a file.
Includes(i) == Cardinality({j \in 1 .. i : read[j].kind = "include"})

IncludesAny == \E i \in DOMAIN read : read[i].kind = "include"

\* The text of the j-th file begun.
Text(j) == source.text[begun[j].file]

\* Where the j-th file begun ends in what has been read, and the places where it
\* includes another.
FileEnd(j) == IF j = Len(begun) THEN Len(read) ELSE begun[j + 1].at
IncludesOf(j) == {i \in begun[j].at + 1 .. FileEnd(j) : read[i].kind = "include"}

\* Every statement that includes a file has its turn, in the order of these.
AllIncluded ==
    /\ Len(begun) = 1 + Includes(Len(read))
    /\ \A i \in DOMAIN read : read[i].kind = "include" =>
          begun[1 + Includes(i)].file = read[i].name

\* Only the first file that a file includes is read after it, and nothing after
\* a file that includes none.
FirstIncluded ==
    \A j \in DOMAIN begun :
        \/ IncludesOf(j) = {} /\ j = Len(begun)
        \/ \E i \in IncludesOf(j) :
              /\ \A k \in IncludesOf(j) : i <= k
              /\ j < Len(begun) /\ begun[j + 1].file = read[i].name

\* What has been read in the end, however files include each other: whole files,
\* the main one first and none begun twice for one statement.  On a heap that
\* keeps what was freed nothing is lost.  Where free clears the block, the list
\* ends with the element that is taken off it, and all files behind it are lost
\* without a word; where the block is used again, a program that includes
\* anything is not assembled at all (include, yywrap, sasm.y:34-37).
ReadsAll ==
    status = "done" =>
        /\ begun[1] = [file |-> source.main, at |-> 0]
        /\ \A j \in DOMAIN begun : Text(j) = SubSeq(read, begun[j].at + 1, FileEnd(j))
        /\ host.freed # "cleared" => AllIncluded
        /\ host.freed = "cleared" => FirstIncluded
        /\ host.freed = "reused" => ~IncludesAny

\* The length and the operand the machine decodes at an address.
DecodedLen(a) == <<1, 2, 4, 8>>[(prog[a] % 8) + 1]
Operand(a)    == Num(Slice(prog, a + 1, DecodedLen(a)), DecodedLen(a))

Pushes(a, value, len) ==
    DecodedOp(a) = PUSH /\ DecodedLen(a) = len /\ Operand(a) = value % RADIX^len

\* Where the code ends.
CodeEnd ==
    IF read = <<>> THEN PROLOGUE ELSE where[Len(where)] + Size(read[Len(read)])

\* What the machine decodes of the image are the program's instructions, one
\* behind the other, with the operands they were written with: numbers cut to
\* their width, and labels, constants and lengths resolved to one value
\* wherever they are used, before or after their definition.  The prologue
\* calls _main (push1, define_label, define_constant, write_data).
CodeInPlace ==
    status = "done" /\ Proper(read) =>
        /\ Pushes(0, Meaning(read, where, "_main"), QWORD)
        /\ DecodedOp(1 + QWORD) = CALL /\ DecodedLen(1 + QWORD) = QWORD
        /\ DecodedOp(2 + QWORD) = HLT
        /\ \A i \in DOMAIN read :
              /\ where[i] = IF i = 1 THEN PROLOGUE
                            ELSE where[i - 1] + Size(read[i - 1])
              /\ read[i].kind = "op" => DecodedOp(where[i]) = read[i].op
              /\ read[i].kind = "pusht" => Pushes(where[i], read[i].value, read[i].len)
              /\ read[i].kind = "pushtv" /\ StandsForNumber(read, read[i].name) =>
                    Pushes(where[i], Meaning(read, where, read[i].name), read[i].len)

\* Wherever a datum is pushed at a width that holds every address, it is the
\* address of its bytes, behind the code and inside the image, and no two data
\* overlap (define_data, write_data).
DataReached ==
    status = "done" /\ Proper(read) =>
        LET Uses == {i \in DOMAIN read :
                        /\ read[i].kind = "pushtv" /\ StandsForData(read, read[i].name)
                        /\ CAPACITY <= RADIX^read[i].len}
            Bytes(i) == DataBytes(read[Definition(read, read[i].name)])
            Area(i) == Operand(where[i]) .. Operand(where[i]) + Len(Bytes(i)) - 1
        IN \A i \in Uses :
              /\ Area(i) \subseteq CodeEnd .. prog_len - 1
              /\ \A k \in DOMAIN Bytes(i) : prog[Operand(where[i]) + k - 1] = Bytes(i)[k]
              /\ \A j \in Uses :
                    read[j].name # read[i].name => Area(i) \intersect Area(j) = {}

\* A crash for which the program or the files are to blame: the image is too
\* small for the code or the data, a file cannot be opened, nothing defines _main.
Blamed ==
    \/ CodeEnd > CAPACITY
    \/ phase = "data" /\ DataEnd[Len(variables)] > CAPACITY
    \/ \E i \in DOMAIN read :
          read[i].kind = "include" /\ read[i].name \notin DOMAIN source.text
    \/ phase = "main" /\ Definitions(read, "_main") = {}

\* A statement of this kind was read last.
JustRead(kind) == read # <<>> /\ read[Len(read)].kind = kind

\* The ways the heap makes it crash: a reference to a name, or the data, where
\* realloc does not clear what it adds to the table; a length taken of another
\* name by a name for which the table is full, where realloc moves the table and
\* the old one does not keep its contents; a list of files whose freed head has
\* been used again.
ByTheHeap ==
    \/ host.realloc = "dirty" /\ (phase = "data" \/ JustRead("pushtv"))
    \/ host.block = "moves" /\ host.freed # "kept" /\ JustRead("equrel")
       /\ Grows(read[Len(read)].name)
    \/ host.freed = "reused" /\ IncludesAny

\* The assembler crashes on a well-formed program for these reasons alone, on
\* every heap: neither the order of definitions and uses, nor a length taken of
\* another name, nor an entry that was used before it was defined makes it read
\* or write what it should not, but where the heap does what the code takes for
\* granted it would not do (equrel, new_variable, yywrap, write_data).
WildExplained == status = "wild" /\ WellFormed(read) => Blamed \/ ByTheHeap

=============================================================================
