----------------------------- MODULE MCPrograms -----------------------------
(***************************************************************************)
(* What the runs of the machine have in common: images of programs, hosts  *)
(* and disks.                                                              *)
(***************************************************************************)
EXTENDS Cpu, MCImages

\* Hosts and disks most runs start from.
SoundHost == {[opmaps |-> "zero", ports |-> "adjacent", kqueue |-> "works"]}
ZeroDisk == {[i \in 0 .. CPU_DISK_SIZE - 1 |-> 0]}

\* The machine waits for an event.
Idle == status = "ok" /\ halted /\ hpc = "program"

=============================================================================
