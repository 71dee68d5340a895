----------------------------- MODULE FileTable -----------------------------
(***************************************************************************)
(* What the utility of src/disk.c promises of the disk's file table: a put *)
(* enters its file in the first free place and touches no other, a format  *)
(* removes files, and nothing else happens to the table.  A full table     *)
(* takes no more files.  Nothing is promised once two utilities have       *)
(* changed the table together, or one was killed at it.                    *)
(***************************************************************************)
EXTENDS Naturals

CONSTANTS Places, Files, NoFile

VARIABLES
    files,      \* the file listed at each place
    void        \* the promise has ended

ftVars == <<files, void>>

Init == files = [p \in Places |-> NoFile] /\ void = FALSE

Put(f) ==
    /\ ~void /\ UNCHANGED void
    /\ \E p \in Places :
          /\ files[p] = NoFile /\ \A q \in Places : q < p => files[q] # NoFile
          /\ files' = [files EXCEPT ![p] = f]

Remove ==
    /\ ~void /\ UNCHANGED void
    /\ \E p \in Places : files' = [files EXCEPT ![p] = NoFile]

Disturb == void' = TRUE

Next == (\E f \in Files : Put(f)) \/ Remove \/ Disturb

Spec == Init /\ [][Next]_ftVars
=============================================================================
