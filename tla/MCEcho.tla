------------------------------- MODULE MCEcho -------------------------------
(***************************************************************************)
(* data/progs/tests/simple.s with a user who types while the machine runs, *)
(* and its timer expiring at any time: interrupts, the two stacks and the  *)
(* terminal working together.                                              *)
(***************************************************************************)
EXTENDS MCPrograms

Echoing == program = SimpleProgram

RECURSIVE Echoed(_)
Echoed(keys) ==
    IF keys = <<>> THEN <<>>
    ELSE (IF Head(keys) \in {10, 13} THEN <<13, 10>> ELSE <<Head(keys)>>)
         \o Echoed(Tail(keys))

\* The terminal shows the keys that were read, each once, in the order they
\* were typed, whatever timer interrupts and further keys came in between
\* (handle_kbd, write_tty).
EchoInOrder == Echoing /\ Idle => screen = Echoed(SubSeq(typed, 1, nread))

\* Between interrupts the machine is exactly as the boot left it: both stacks
\* at their base, ip on the HLT of the prologue, the image intact.  An ISR
\* that leaked one byte of stack per key would grow into the return stack.
AtRest ==
    Echoing /\ Idle =>
        /\ ip = 4 /\ sp = STACK /\ rp = RET_STACK
        /\ \A i \in 1 .. Len(program) : mem[i - 1] = program[i]

\* With simple.s the blocking read of the terminal always finds a key (or
\* the end of the file): handle_kbd never stops the machine.
ReadNeverBlocks == Echoing /\ hpc = "read" => Unread

\* The machine keeps serving the clock, whatever is typed.
ClockServed == Echoing /\ IRQ_CLK \in watched ~> []<>(hpc = "clk")

\* A keyboard event with a key behind it is served: a burst of clock events
\* cannot starve it, although handle_io reads one event a call.
KeyEventServed == (Echoing /\ Pending(TTY_MASTER) /\ nread < Len(typed)) ~> (hpc = "kbd")

\* A user who waits until a key is read before typing the next one loses
\* none, not even one typed before the ISR was set (set_kbd_isr).  Of keys
\* typed faster, one is read per event, and EV_CLEAR reports a burst once.
SlowTypingLosesNone ==
    [](~eof /\ Len(typed) <= nread + 1) =>
        \A n \in 1 .. MaxKeys : Echoing /\ Len(typed) >= n ~> nread >= n

=============================================================================
