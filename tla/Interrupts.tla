----------------------------- MODULE Interrupts -----------------------------
(***************************************************************************)
(* What the machine promises of its interrupts, whatever program it runs:  *)
(* the program has the processor until it halts and never again; after     *)
(* that the machine serves events one at a time, each service takes at     *)
(* most one key, keys are taken in the order they were typed, and every    *)
(* interrupt starts from the same depth of the return stack.               *)
(***************************************************************************)
EXTENDS Naturals, Sequences

CONSTANTS Key, NoLevel

VARIABLES
    mode,     \* "program", "idle", "serving", "down"
    level,    \* depth of the return stack interrupts start from
    typed,    \* the keys typed so far
    nread,    \* how many of them were taken
    taken     \* the service under way has taken its key

vars == <<mode, level, typed, nread, taken>>

Init ==
    /\ mode = "program"
    /\ level = NoLevel
    /\ typed = <<>> /\ nread = 0
    /\ taken = FALSE

Halt ==
    /\ mode = "program"
    /\ mode' = "idle"
    /\ UNCHANGED <<level, typed, nread, taken>>

\* The first interrupt finds the level the program left; the others find it
\* again.
SameLevel == level' = level \/ (level = NoLevel /\ level' \in Nat)

Begin ==
    /\ mode = "idle"
    /\ mode' = "serving"
    /\ SameLevel
    /\ UNCHANGED <<typed, nread, taken>>

TakeKey ==
    /\ mode = "serving" /\ ~taken
    /\ nread < Len(typed)
    /\ nread' = nread + 1
    /\ taken' = TRUE
    /\ SameLevel
    /\ UNCHANGED <<mode, typed>>

Done ==
    /\ mode = "serving"
    /\ mode' = "idle"
    /\ taken' = FALSE
    /\ UNCHANGED <<level, typed, nread>>

Fail ==
    /\ mode # "down"
    /\ mode' = "down"
    /\ UNCHANGED <<level, typed, nread, taken>>

TypeKey ==
    /\ mode # "down"
    /\ \E key \in Key : typed' = Append(typed, key)
    /\ UNCHANGED <<mode, level, nread, taken>>

Next == Halt \/ Begin \/ TakeKey \/ Done \/ Fail \/ TypeKey

Spec == Init /\ [][Next]_vars

=============================================================================
