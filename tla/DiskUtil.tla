------------------------------ MODULE DiskUtil ------------------------------
(***************************************************************************)
(* The disk utility of src/disk.c: commands that read and write the file   *)
(* table at the start of a disk.  Every command is a process of its own    *)
(* with the same file mapped shared, so commands see each other's writes   *)
(* as they are made; any of them can be killed.                            *)
(*                                                                         *)
(* A copy to the mapping is done byte by byte: the bytes of one write in   *)
(* any order, one write after the other.  A copy from it is done entry by  *)
(* entry.  heads are always zero and left out, and so is the rest of the   *)
(* disk but for the entry behind the table.                                *)
(***************************************************************************)
EXTENDS Naturals

CONSTANTS
    FAT_LEN,       \* entries of the table: 0x1000 in the code
    NAME_LEN,      \* bytes of a name, and the values of a name_len: 0x100
    BLOCK,         \* bytes cmd_format writes at once: 1024
    Utilities,     \* processes that can run at the same time
    Files,         \* what a put may name
    Length,        \* how long each name is
    NoFile,        \* a zero in a name
    MaxCommands    \* bound: how many commands are started

ASSUME DiskUtilAssumption ==
    /\ FAT_LEN \in Nat \ {0} /\ NAME_LEN \in Nat \ {0} /\ BLOCK \in Nat \ {0}
    /\ Length \in [Files -> Nat] /\ NoFile \notin Files
    /\ MaxCommands \in Nat

VARIABLES
    table,      \* the entries on the disk; the last lies behind the table
    pc,         \* what each process does: "none", "read", "put", "format", "list"
    pos,        \* the entry it comes to next
    file,       \* what it puts
    free,       \* the first free entry cmd_put has found
    left,       \* the bytes it has still to write: each its entry and its offset there
    commands,   \* how many commands were started
    long,       \* history: a name of NAME_LEN or more has been put
    wild,       \* history: an ls has run over the end of a name
    void,       \* history: two writers overlapped, or one was killed
    since       \* history: the places in use ever since its put began

process == <<pc, pos, file, free, left>>
history == <<commands, long, wild, void>>
vars    == <<table, process, history, since>>

Slots   == 0 .. FAT_LEN
Places  == 0 .. FAT_LEN - 1

\* The offsets of an entry's bytes: its name_len at 0, then its name.
Offsets == 0 .. NAME_LEN
Names   == [1 .. NAME_LEN -> Files \union {NoFile}]
Entries == [name_len : 0 .. NAME_LEN - 1, name : Names]
Empty   == [name_len |-> 0, name |-> [i \in 1 .. NAME_LEN |-> NoFile]]

\* The bytes of the entry at s, and the block of the disk a byte lies in.
EntryBytes(s) == {s} \X Offsets
Block(b) == (b[1] * (NAME_LEN + 1) + b[2]) \div BLOCK

\* strncpy cuts a name off at NAME_LEN bytes and fills up with zeros; a byte
\* of a name tells no more than whose name it is.
strncpy(f) == [i \in 1 .. NAME_LEN |-> IF i <= Length[f] THEN f ELSE NoFile]

\* Faults: the length is not cut to a byte; the last byte of a name is not
\* looked at for its end.
Entry_Wide(f) == [name_len |-> Length[f], name |-> strncpy(f)]
Unterminated_Early(name) == \A i \in 1 .. NAME_LEN - 1 : name[i] # NoFile

\* What cmd_put makes of a name: name_len is one byte.
Entry(f) == [name_len |-> Length[f] % NAME_LEN, name |-> strncpy(f)]
Unterminated(name) == \A i \in 1 .. NAME_LEN : name[i] # NoFile

Writing(u) == pc[u] \in {"read", "put", "format"}

\* u has written some of the bytes of the entry at s and not yet all.
HalfBy(u, s) ==
    pc[u] \in {"put", "format"} /\ left[u] \intersect EntryBytes(s) \notin {{}, EntryBytes(s)}

----------------------------------------------------------------------------
\* A process opens the disk and starts a command, at position 0.
Start(u, command, f) ==
    /\ pc[u] = "none" /\ commands < MaxCommands
    /\ commands' = commands + 1
    /\ pc' = [pc EXCEPT ![u] = command]
    /\ pos' = [pos EXCEPT ![u] = 0]
    /\ file' = [file EXCEPT ![u] = f]
    /\ free' = [free EXCEPT ![u] = FAT_LEN]
    /\ left' = [left EXCEPT ![u] = IF command = "format" THEN Slots \X Offsets ELSE {}]
    /\ void' = (void \/ (command # "list" /\ \E v \in Utilities : Writing(v)))
    /\ UNCHANGED <<table, long, wild>>

cmd_list(u)   == Start(u, "list", NoFile)
cmd_format(u) == Start(u, "format", NoFile)
cmd_put(u)    == \E f \in Files : Start(u, "read", f)

\* A process that has ended is as before it began.
Stop(u) ==
    /\ pc' = [pc EXCEPT ![u] = "none"]
    /\ pos' = [pos EXCEPT ![u] = 0]
    /\ file' = [file EXCEPT ![u] = NoFile]
    /\ free' = [free EXCEPT ![u] = FAT_LEN]
    /\ left' = [left EXCEPT ![u] = {}]

\* One entry of an ls: a name without a zero byte is printed beyond its end.
list_entry(u) ==
    /\ pc[u] = "list"
    /\ LET entry == table[pos[u]]
           over  == entry.name_len # 0 /\ Unterminated(entry.name)
       IN /\ wild' = (wild \/ over)
          /\ IF over \/ pos[u] = FAT_LEN - 1
             THEN Stop(u)
             ELSE pos' = [pos EXCEPT ![u] = @ + 1] /\ UNCHANGED <<pc, file, free, left>>
    /\ UNCHANGED <<table, commands, long, void>>

\* Faults: the last entry is not looked at; the last free one is taken.
read_entry_NotLast(u) ==
    /\ pc[u] = "read" /\ pos[u] < FAT_LEN
    /\ free' = [free EXCEPT ![u] =
          IF free[u] = FAT_LEN /\ table[pos[u]].name_len = 0 /\ pos[u] < FAT_LEN - 1
          THEN pos[u] ELSE @]
    /\ pos' = [pos EXCEPT ![u] = @ + 1]
    /\ UNCHANGED <<table, pc, file, left, history>>
read_entry_TakesLast(u) ==
    /\ pc[u] = "read" /\ pos[u] < FAT_LEN
    /\ free' = [free EXCEPT ![u] = IF table[pos[u]].name_len = 0 THEN pos[u] ELSE @]
    /\ pos' = [pos EXCEPT ![u] = @ + 1]
    /\ UNCHANGED <<table, pc, file, left, history>>

\* One entry of the table is copied to cmd_put's buffer, where the first one
\* without a name_len will be taken.
read_entry(u) ==
    /\ pc[u] = "read" /\ pos[u] < FAT_LEN
    /\ free' = [free EXCEPT ![u] =
          IF free[u] = FAT_LEN /\ table[pos[u]].name_len = 0 THEN pos[u] ELSE @]
    /\ pos' = [pos EXCEPT ![u] = @ + 1]
    /\ UNCHANGED <<table, pc, file, left, history>>

\* Fault: with no entry free the last one is taken.
take_entry_Last(u) ==
    /\ pc[u] = "read" /\ pos[u] = FAT_LEN
    /\ LET s == IF free[u] = FAT_LEN THEN FAT_LEN - 1 ELSE free[u]
       IN /\ pos' = [pos EXCEPT ![u] = s]
          /\ left' = [left EXCEPT ![u] = EntryBytes(s)]
    /\ pc' = [pc EXCEPT ![u] = "put"]
    /\ long' = (long \/ Length[file[u]] >= NAME_LEN)
    /\ UNCHANGED <<table, file, free, commands, wild, void>>

\* If none is free the loop leaves with i = FAT_LEN.
take_entry(u) ==
    /\ pc[u] = "read" /\ pos[u] = FAT_LEN
    /\ pc' = [pc EXCEPT ![u] = "put"]
    /\ pos' = [pos EXCEPT ![u] = free[u]]
    /\ left' = [left EXCEPT ![u] = EntryBytes(free[u])]
    /\ long' = (long \/ Length[file[u]] >= NAME_LEN)
    /\ UNCHANGED <<table, file, free, commands, wild, void>>

\* The byte at offset b[2] of the entry at b[1] reaches the disk.
Write(u, b, entry) ==
    /\ table' = IF b[2] = 0
                THEN [table EXCEPT ![b[1]].name_len = entry.name_len]
                ELSE [table EXCEPT ![b[1]].name[b[2]] = entry.name[b[2]]]
    /\ IF left[u] = {b}
       THEN Stop(u)
       ELSE left' = [left EXCEPT ![u] = @ \ {b}] /\ UNCHANGED <<pc, pos, file, free>>
    /\ UNCHANGED history

put_byte(u) ==
    /\ pc[u] = "put"
    /\ \E b \in left[u] : Write(u, b, Entry(file[u]))

\* cmd_format writes blocks of zeros over the whole disk.
format_byte(u) ==
    /\ pc[u] = "format"
    /\ \E b \in left[u] :
          /\ \A c \in left[u] : Block(b) <= Block(c)
          /\ Write(u, b, Empty)

\* A process is killed; what it has written stays.
kill(u) ==
    /\ pc[u] # "none"
    /\ Stop(u)
    /\ void' = (void \/ \E s \in Slots : HalfBy(u, s))
    /\ UNCHANGED <<table, commands, long, wild>>

\* Of every put, the places that have been in use at each moment since it began.
Remember ==
    since' = [u \in Utilities |->
        IF pc'[u] \notin {"read", "put"} THEN {}
        ELSE {s \in Places : table'[s].name_len # 0 /\ (pc[u] = "none" \/ s \in since[u])}]

----------------------------------------------------------------------------
Init ==
    /\ table = [s \in Slots |-> Empty]
    /\ pc = [u \in Utilities |-> "none"]
    /\ pos = [u \in Utilities |-> 0]
    /\ file = [u \in Utilities |-> NoFile]
    /\ free = [u \in Utilities |-> FAT_LEN]
    /\ left = [u \in Utilities |-> {}]
    /\ commands = 0 /\ long = FALSE /\ wild = FALSE /\ void = FALSE
    /\ since = [u \in Utilities |-> {}]

Command(u) ==
    \/ cmd_list(u) \/ cmd_format(u) \/ cmd_put(u)
    \/ list_entry(u) \/ read_entry(u) \/ take_entry(u)
    \/ put_byte(u) \/ format_byte(u)
    \/ kill(u)

Next == (\E u \in Utilities : Command(u)) /\ Remember

Spec == Init /\ [][Next]_vars

----------------------------------------------------------------------------
(* Properties *)

\* The table stays a table of entries, and every process at one of them.
TypeOK ==
    /\ table \in [Slots -> Entries]
    /\ pc \in [Utilities -> {"none", "read", "put", "format", "list"}]
    /\ pos \in [Utilities -> Slots] /\ free \in [Utilities -> Slots]
    /\ file \in [Utilities -> Files \union {NoFile}]
    /\ \A u \in Utilities : pc[u] \in {"read", "put"} => file[u] \in Files
    /\ left \in [Utilities -> SUBSET (Slots \X Offsets)]
    /\ since \in [Utilities -> SUBSET Places]
    /\ commands \in 0 .. MaxCommands
    /\ long \in BOOLEAN /\ wild \in BOOLEAN /\ void \in BOOLEAN

\* As long as only names that fit are put, ls prints no name beyond its end,
\* even of an entry that was half written when its writer was killed or
\* overtaken (disk.c:82-83, 123-124).
ListSafe == wild => long

\* A put writes behind the table only when the table is full, unless another
\* command was writing it at the same time (disk.c:111-127).
SurplusBehind ==
    [][(\E u \in Utilities : pc[u] = "put") /\ ~void /\ table'[FAT_LEN] # table[FAT_LEN]
          => \A s \in Places : table[s].name_len # 0]_vars

\* Whatever else runs or is killed meanwhile, a put never writes to a place
\* that has been in use ever since it began: what two puts can cost is a file
\* that one of them entered while the other was at work (disk.c:110-127).
PutSpares ==
    [][\A u \in Utilities : pc[u] = "put" /\ left'[u] # left[u]
          => \A s \in since[u] : table'[s] = table[s]]_vars

\* The commands keep the promise of FileTable.  An entry that is being
\* written is not listed yet, or no longer.
Half(s) == \E u \in Utilities : HalfBy(u, s)
Listed(s) == IF table[s].name_len = 0 \/ Half(s) THEN NoFile ELSE table[s].name[1]

Promise == INSTANCE FileTable WITH files <- [s \in Places |-> Listed(s)]
TablePromise == Promise!Spec

=============================================================================
