------------------------------ MODULE MCAnyIsr ------------------------------
(***************************************************************************)
(* Interrupt service routines of every shape: all pairs of blocks below as *)
(* the keyboard's, and single ones as the clock's.  Most of them are       *)
(* wrong; the machine has to keep its promises all the same.               *)
(***************************************************************************)
EXTENDS MCPrograms

Sub    == 5 + 7 + 10 + 1     \* a subroutine that only returns
Kbd    == Sub + 1            \* the keyboard ISR

Leak       == PushB(IRQ_KBD)                \* a byte left on the stack
Drain      == InsB(POP)                     \* the key, or what is below it
Return     == InsB(RET)
CallSub    == Push(Sub) \o Ins(CALL)
CallAndRun == Push(Kbd) \o Ins(CALL)        \* runs itself again, one deeper
Forge      == Push(RET_STACK) \o Push(Sub) \o Push(0) \o Ins(STORE)
Rearm      == Push(Kbd) \o Raise(IRQ_KBD)
Again      == Push(1) \o Push(Sub) \o Raise(IRQ_CLK)
Spin       == InsB(HLT)
Unknown    == InsB(30)

Blocks == {Leak, Drain, Return, CallSub, CallAndRun, Forge, Rearm, Again}

Machine(kbd_isr, clk_isr) ==
    Image(Push(Kbd) \o Raise(IRQ_KBD)
          \o Push(1) \o Push(Kbd + Len(kbd_isr)) \o Raise(IRQ_CLK)
          \o InsB(RET)
          \o InsB(RET)             \* Sub
          \o kbd_isr \o clk_isr)

IsrPrograms ==
    {Machine(x \o y \o Return, Return) : x, y \in Blocks}
    \union {Machine(Drain \o Return, x \o Return)
             : x \in (Blocks \union {Spin, Unknown}) \ {Leak, Drain}}

=============================================================================
