------------------------------- MODULE MCSasm -------------------------------
(***************************************************************************)
(* The assembler on every order of the parts of a program, in one file and *)
(* spread over included files, against what its statements mean.           *)
(***************************************************************************)
EXTENDS SasmTrace, MCImages

\* Statements.
Lbl(n)         == [kind |-> "lbl_def", name |-> n]
Include(f)     == [kind |-> "include", name |-> f]
Data(n, v)     == [kind |-> "data", name |-> n, value |-> v, len |-> QWORD]
Str(n, t)      == [kind |-> "data_str", name |-> n, text |-> t]
Equ(n, v)      == [kind |-> "equ", name |-> n, value |-> v]
EquRel(n, m)   == [kind |-> "equrel", name |-> n, of |-> m]
Res(n, c)      == [kind |-> "res", name |-> n, count |-> c, len |-> 1]
PushOf(n)      == [kind |-> "pushtv", name |-> n, len |-> QWORD]
PushByteOf(n)  == [kind |-> "pushtv", name |-> n, len |-> 1]
PushNum(v, w)  == [kind |-> "pusht", value |-> v, len |-> w]
Do(o)          == [kind |-> "op", op |-> o, len |-> QWORD]
DoByte(o)      == [kind |-> "op", op |-> o, len |-> 1]
Error          == [kind |-> "error"]

InOneFile(t) == [main |-> "a", text |-> [f \in {"a"} |-> t]]

\* The parts of a program that uses every kind of name, before or after it is
\* defined as the order of the parts has it.
Parts ==
    <<<<Lbl("_main"), PushOf("x"), DoByte(LOAD), PushOf("l"), Do(CALL), Do(RET)>>,
      <<Data("x", 0), Equ("k", 300)>>,
      <<Lbl("l"), PushByteOf("k"), PushOf("s"), PushOf("n"), Do(SUB), PushOf("TTY"),
        Do(INT), Do(RET)>>,
      <<Str("s", <<104, 105>>), EquRel("n", "s")>>,
      <<Res("r", 3), PushOf("r"), PushNum(300, 1)>>>>

Orders == {p \in [DOMAIN Parts -> DOMAIN Parts] : IsInjective(p)}

WholePrograms == {InOneFile(FlattenSeq([i \in DOMAIN Parts |-> Parts[p[i]]])) : p \in Orders}

\* The parts in four files: a includes b and d, and b includes c.
SplitPrograms ==
    {[main |-> "a",
      text |-> [f \in {"a", "b", "c", "d"} |->
          CASE f = "a" -> <<Include("b"), Include("d")>> \o Parts[p[1]]
            [] f = "b" -> Parts[p[2]] \o <<Include("c")>> \o Parts[p[3]]
            [] f = "c" -> Parts[p[4]]
            [] f = "d" -> Parts[p[5]]]] : p \in Orders}

\* An included file that holds no code.
HeaderProgram ==
    [main |-> "a",
     text |-> [f \in {"a", "b"} |->
         IF f = "a" THEN <<Include("b"), Lbl("_main"), PushByteOf("k"), Do(RET)>>
         ELSE <<Equ("k", 300)>>]]

\* Constants of value zero, defined before they are used and after.
ZeroPrograms ==
    {InOneFile(<<Equ("z", 0), Lbl("_main"), PushOf("z"), Do(RET)>>),
     InOneFile(<<Lbl("_main"), PushOf("z"), PushOf("n"), Do(RET), Equ("z", 0), Do(NOP),
                 Str("s", <<>>), EquRel("n", "s")>>)}

\* data/progs/tests/simple.s
SimpleSource ==
    InOneFile(
        <<Lbl("_main"), PushOf("_kbd_isr"), PushOf("KBD"), Do(INT),
          PushNum(1000, 2), PushOf("_clk_isr"), PushOf("CLK"), Do(INT), Do(RET),
          Lbl("_kbd_isr"), PushOf("TTY"), Do(INT), Do(RET),
          Lbl("_clk_isr"), Do(RET)>>)

\* A jump as in data/progs/tests/io.s.
JumpSource ==
    InOneFile(<<Lbl("_main"), PushOf("_ret"), Do(JMP), Do(NOP), Lbl("_ret"), Do(RET)>>)

\* Programs with something missing or wrong.
BadPrograms ==
    {InOneFile(<<Lbl("start"), Do(HLT)>>),
     InOneFile(<<Lbl("_main"), Error, Do(HLT)>>),
     InOneFile(<<Lbl("_main"), EquRel("n", "s"), Str("s", <<104>>)>>),
     InOneFile(<<Lbl("_main"), Include("b"), Do(RET)>>),
     InOneFile(<<Lbl("_main"), Res("r", 80), PushNum(1, 1)>>),
     InOneFile(<<Lbl("_main")>> \o [i \in 1 .. 80 |-> Do(NOP)])}

AllPrograms ==
    WholePrograms \union SplitPrograms \union ZeroPrograms \union BadPrograms
    \union {HeaderProgram, SimpleSource, JumpSource}

\* The heap the programs rely on, and what else it may do.
Sound == [realloc |-> "zeroed", block |-> "stays", freed |-> "kept"]
AllHosts == {Sound, [Sound EXCEPT !.realloc = "dirty"],
             [Sound EXCEPT !.freed = "reused", !.block = "moves"],
             [Sound EXCEPT !.freed = "cleared", !.block = "moves"]}

----------------------------------------------------------------------------
(* Properties *)

\* The statements in the order they are read.
RECURSIVE Reading(_)
Reading(names) ==
    IF names = <<>> THEN <<>>
    ELSE LET t == source.text[Head(names)]
             included == SelectSeq(t, LAMBDA s : s.kind = "include")
         IN t \o Reading(Tail(names) \o [i \in DOMAIN included |-> included[i].name])

FilesExist ==
    \A f \in DOMAIN source.text : \A s \in ToSet(source.text[f]) :
        s.kind = "include" => s.name \in DOMAIN source.text
Program == Reading(<<source.main>>)

DataSize(s) == IF IsData(s) THEN Len(DataBytes(s)) ELSE 0

\* The whole program is proper, and its image fits.
Assemblable ==
    /\ FilesExist
    /\ LET p == Program
       IN /\ Proper(p) /\ \A s \in ToSet(p) : s.kind # "error"
          /\ PROLOGUE + FoldFunction(+, 0, [i \in DOMAIN p |-> Size(p[i]) + DataSize(p[i])])
                <= CAPACITY

\* Assembling ends, whichever files include others, as long as none includes
\* itself; and a proper program is assembled, on a heap that does what the code
\* relies on: no order of definitions and uses ends in a crash or an error
\* (yywrap, new_variable, write_data).
Finishes ==
    <>(IF Assemblable /\ host = Sound THEN status = "done" ELSE status # "ok")

\* The images the runs start the machine with are what their sources are
\* assembled to (opflags, push0, push1, write_prologue).
ImagesAssembled ==
    \A <<s, image>> \in {<<SimpleSource, SimpleProgram>>, <<JumpSource, JumpProgram>>} :
        status = "done" /\ source = s =>
            /\ prog_len = Len(image)
            /\ \A i \in 1 .. prog_len : prog[i - 1] = image[i]

=============================================================================
