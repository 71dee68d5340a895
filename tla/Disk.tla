-------------------------------- MODULE Disk --------------------------------
(***************************************************************************)
(* The disk peripheral (src/lib/cpu/hardware/peripheral/disk.c): a file    *)
(* mapped into memory with a current position, driven by the commands a    *)
(* program sends to its port.  A command is one byte and a payload; the    *)
(* data of a write is not in the payload but in the port's DMA buffer.     *)
(***************************************************************************)
EXTENDS Bytes

CONSTANTS
    CPU_DISK_SIZE,   \* bytes of the mapped file
    DMA_LEN,         \* bytes of a port's DMA buffer
    DiskImages       \* what the file may hold when the machine starts

ASSUME DiskAssumption ==
    /\ CPU_DISK_SIZE \in Nat \ {0}
    /\ DMA_LEN \in Nat \ {0}
    /\ DiskImages \subseteq [0 .. CPU_DISK_SIZE - 1 -> Byte]

VARIABLES
    map,      \* the mapped file
    curpos    \* offset of the next write

diskVars == <<map, curpos>>

DISK_STATUS == 0
DISK_SET    == 1
DISK_RD     == 2
DISK_WR     == 3

DiskTypeOK ==
    /\ map \in [0 .. CPU_DISK_SIZE - 1 -> Byte]
    /\ curpos \in Nat

\* Opening the file fixes its size by writing a zero byte at its end,
\* whatever the file held there.
init_disk ==
    /\ \E image \in DiskImages : map = [image EXCEPT ![CPU_DISK_SIZE - 1] = 0]
    /\ curpos = 0

----------------------------------------------------------------------------
\* A command has n bytes of payload after the command byte; n = -1 stands
\* for the SIZE_MAX an empty message ends up with.

\* The commands whose memcpy runs over its 8-byte local, or past the end of
\* the mapping.  A position is not checked when it is set, only used.
DiskUndefined(cmd, n) ==
    \/ cmd \in {DISK_SET, DISK_RD} /\ n \notin 0 .. QWORD
    \/ cmd = DISK_WR /\ curpos + DMA_LEN > CPU_DISK_SIZE

set_disk_position(position) ==
    /\ curpos' = position
    /\ UNCHANGED map

\* Faulty: the position stays; it moves twice.
write_disk_InPlace(data) ==
    /\ map' = Overwrite(map, curpos, data)
    /\ UNCHANGED curpos

write_disk_Twice(data) ==
    /\ map' = Overwrite(map, curpos, data)
    /\ curpos' = curpos + 2 * DMA_LEN

write_disk(data) ==
    /\ map' = Overwrite(map, curpos, data)
    /\ curpos' = curpos + DMA_LEN

\* DISK_RD answers like DISK_STATUS: nothing is read from the mapping.
disk_handler(cmd, payload, n, dma) ==
    \/ cmd = DISK_SET /\ set_disk_position(Num(payload, n))
    \/ cmd = DISK_WR /\ write_disk(dma)
    \/ cmd \notin {DISK_SET, DISK_WR} /\ UNCHANGED diskVars

\* write_client: a known command is answered with one zero byte.
Replies(cmd) == cmd \in {DISK_STATUS, DISK_SET, DISK_RD, DISK_WR}

=============================================================================
