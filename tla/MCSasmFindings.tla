--------------------------- MODULE MCSasmFindings ---------------------------
(***************************************************************************)
(* A test program of the repository that the assembler does not make into  *)
(* what it says: a run that is expected to violate its property.           *)
(***************************************************************************)
EXTENDS MCSasm

\* data/progs/tests/bytes.s: a byte of data, and the code that loads it.
BytesPrograms ==
    {InOneFile(<<[Data("b", v) EXCEPT !.len = 1], Lbl("_main"),
                 PushOf("b"), DoByte(LOAD), Do(RET)>>) : v \in {0, 15}}

SoundHosts == {Sound}

\* bytes.s:18-19 "push b", "load byte": what is pushed is the address of the
\* byte.  A datum that is not initially zero is taken for a constant, and its
\* value is pushed.
PushesAddress ==
    status = "done" => prog[Operand(PROLOGUE)] = source.text["a"][1].value

=============================================================================
