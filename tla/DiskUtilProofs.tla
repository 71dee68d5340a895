--------------------------- MODULE DiskUtilProofs ---------------------------
(***************************************************************************)
(* Theorems about the disk utility, for every length of the table and of   *)
(* names, every number of processes and every set of files.                *)
(***************************************************************************)
EXTENDS DiskUtil, TLAPS

USE DiskUtilAssumption DEF DiskUtilAssumption

LEMMA SlotsType ==
    /\ 0 \in Slots /\ FAT_LEN \in Slots /\ 0 < FAT_LEN
    /\ \A s \in Slots : s < FAT_LEN => s + 1 \in Slots
    /\ \A s \in Slots : s # FAT_LEN - 1 /\ s < FAT_LEN => s + 1 < FAT_LEN
    /\ \A s \in Slots : s # FAT_LEN => s \in 0 .. FAT_LEN - 1
    /\ 0 .. FAT_LEN - 1 \subseteq Slots
BY DEF Slots

LEMMA EntryType == Empty \in Entries /\ \A f \in Files : Entry(f) \in Entries
<1>1. \A f \in Files : Length[f] % NAME_LEN \in 0 .. NAME_LEN - 1
  <2>. TAKE f \in Files
  <2>1. Length[f] \in Nat /\ NAME_LEN \in Nat \ {0}
    OBVIOUS
  <2>. QED  BY <2>1
<1>2. 0 \in 0 .. NAME_LEN - 1
  OBVIOUS
<1>3. \A f \in Files : strncpy(f) \in Names
  BY DEF strncpy, Names
<1>4. [i \in 1 .. NAME_LEN |-> NoFile] \in Names
  BY DEF Names
<1>. QED
  BY <1>1, <1>2, <1>3, <1>4 DEF Empty, Entry, Entries

\* A name whose name_len is not zero has a first byte.
LEMMA EntryName ==
    ASSUME NEW f \in Files, Entry(f).name_len # 0
    PROVE  Entry(f).name[1] = f
<1>1. Length[f] \in Nat /\ 1 \in 1 .. NAME_LEN
  OBVIOUS
<1>2. Length[f] # 0
  <2>1. 0 % NAME_LEN = 0
    BY SMT
  <2>. QED  BY <2>1 DEF Entry
<1>3. 1 <= Length[f]
  BY <1>1, <1>2
<1>. QED
  BY <1>1, <1>3 DEF Entry, strncpy

\* An entry has more than one byte.
LEMMA BytesOf ==
    ASSUME NEW s \in Slots
    PROVE  /\ <<s, 0>> \in EntryBytes(s) /\ <<s, 1>> \in EntryBytes(s) /\ <<s, 0>> # <<s, 1>>
           /\ EntryBytes(s) \subseteq Slots \X Offsets
           /\ \A b \in EntryBytes(s) : b[1] = s /\ b[2] \in Offsets /\ b = <<s, b[2]>>
           /\ \A b \in Slots \X Offsets : b[1] = s => b \in EntryBytes(s)
<1>1. 0 \in Offsets /\ 1 \in Offsets
  BY DEF Offsets
<1>. QED
  BY <1>1 DEF EntryBytes

LEMMA BytesApart ==
    ASSUME NEW s \in Slots, NEW t \in Slots, s # t
    PROVE  EntryBytes(s) \intersect EntryBytes(t) = {}
<1>1. \A b \in EntryBytes(s) : b[1] = s
  BY BytesOf
<1>2. \A b \in EntryBytes(t) : b[1] = t
  BY BytesOf
<1>. QED
  BY <1>1, <1>2

\* What one byte leaves of the table, and of the processes.
LEMMA WriteEffect ==
    ASSUME TypeOK, NEW u \in Utilities, NEW entry \in Entries, NEW b \in left[u],
           Write(u, b, entry)
    PROVE  /\ b[1] \in Slots /\ b[2] \in Offsets /\ b = <<b[1], b[2]>>
           /\ table' \in [Slots -> Entries]
           /\ \A s \in Slots : s # b[1] => table'[s] = table[s]
           /\ table'[b[1]].name_len = IF b[2] = 0 THEN entry.name_len ELSE table[b[1]].name_len
           /\ \A i \in 1 .. NAME_LEN : table'[b[1]].name[i] =
                 IF b[2] = i THEN entry.name[i] ELSE table[b[1]].name[i]
<1>1. /\ table \in [Slots -> Entries] /\ b \in Slots \X Offsets
      /\ table' = IF b[2] = 0 THEN [table EXCEPT ![b[1]].name_len = entry.name_len]
                  ELSE [table EXCEPT ![b[1]].name[b[2]] = entry.name[b[2]]]
  BY DEF TypeOK, Write
<1>. DEFINE s == b[1]
            o == b[2]
<1>2. s \in Slots /\ o \in Offsets /\ b = <<s, o>> /\ table[s] \in Entries
  BY <1>1
<1>3. CASE o = 0
  <2>0. [table[s] EXCEPT !.name_len = entry.name_len]
           = [name_len |-> entry.name_len, name |-> table[s].name]
    BY <1>2 DEF Entries
  <2>1. table' = [table EXCEPT ![s] = [name_len |-> entry.name_len, name |-> table[s].name]]
    BY <1>1, <1>3, <2>0
  <2>2. \A i \in 1 .. NAME_LEN : o # i
    BY <1>3
  <2>. HIDE DEF s, o
  <2>. QED
    BY <2>1, <2>2, <1>1, <1>2, <1>3 DEF Entries, s, o
<1>4. CASE o # 0
  <2>1. o \in 1 .. NAME_LEN
    BY <1>2, <1>4 DEF Offsets
  <2>0. [table[s] EXCEPT !.name[o] = entry.name[o]]
           = [name_len |-> table[s].name_len, name |-> [table[s].name EXCEPT ![o] = entry.name[o]]]
    BY <1>2 DEF Entries
  <2>2. table' = [table EXCEPT ![s] = [name_len |-> table[s].name_len,
                                      name |-> [table[s].name EXCEPT ![o] = entry.name[o]]]]
    BY <1>1, <1>4, <2>0
  <2>3. [table[s].name EXCEPT ![o] = entry.name[o]] \in Names
    BY <1>2, <2>1 DEF Entries, Names
  <2>4. \A i \in 1 .. NAME_LEN : [table[s].name EXCEPT ![o] = entry.name[o]][i] =
              IF o = i THEN entry.name[i] ELSE table[s].name[i]
    BY <1>2 DEF Entries, Names
  <2>. HIDE DEF s, o
  <2>. QED
    BY <2>1, <2>2, <2>3, <2>4, <1>1, <1>2, <1>4 DEF Entries, s, o
<1>. QED
  BY <1>3, <1>4

\* A process that has ended, and the others.
LEMMA StopEffect ==
    ASSUME TypeOK, NEW u \in Utilities, Stop(u)
    PROVE  /\ pc'[u] = "none" /\ pos'[u] = 0 /\ left'[u] = {}
           /\ \A v \in Utilities : v # u =>
                 /\ pc'[v] = pc[v] /\ pos'[v] = pos[v] /\ file'[v] = file[v]
                 /\ free'[v] = free[v] /\ left'[v] = left[v]
           /\ pc' \in [Utilities -> {"none", "read", "put", "format", "list"}]
           /\ pos' \in [Utilities -> Slots] /\ free' \in [Utilities -> Slots]
           /\ file' \in [Utilities -> Files \union {NoFile}]
           /\ left' \in [Utilities -> SUBSET (Slots \X Offsets)]
BY SlotsType DEF Stop, TypeOK

LEMMA ByteEffect ==
    ASSUME TypeOK, NEW u \in Utilities, NEW entry \in Entries, NEW b \in left[u],
           Write(u, b, entry)
    PROVE  /\ left'[u] = left[u] \ {b}
           /\ left[u] = {b} => pc'[u] = "none"
           /\ left[u] # {b} => /\ pc'[u] = pc[u] /\ pos'[u] = pos[u] /\ file'[u] = file[u]
                               /\ free'[u] = free[u]
           /\ \A v \in Utilities : v # u =>
                 /\ pc'[v] = pc[v] /\ pos'[v] = pos[v] /\ file'[v] = file[v]
                 /\ free'[v] = free[v] /\ left'[v] = left[v]
           /\ pc' \in [Utilities -> {"none", "read", "put", "format", "list"}]
           /\ pos' \in [Utilities -> Slots] /\ free' \in [Utilities -> Slots]
           /\ file' \in [Utilities -> Files \union {NoFile}]
           /\ left' \in [Utilities -> SUBSET (Slots \X Offsets)]
<1>1. CASE left[u] = {b}
  BY <1>1, StopEffect DEF Write
<1>2. CASE left[u] # {b}
  BY <1>2 DEF Write, TypeOK
<1>. QED
  BY <1>1, <1>2
----------------------------------------------------------------------------
(* Type correctness *)

\* An ls stops at the last entry.
ListPos == \A u \in Utilities : pc[u] = "list" => pos[u] < FAT_LEN
Typed   == TypeOK /\ ListPos

\* Everything but the history of a put.
Typed0  ==
    /\ table' \in [Slots -> Entries]
    /\ pc' \in [Utilities -> {"none", "read", "put", "format", "list"}]
    /\ pos' \in [Utilities -> Slots] /\ free' \in [Utilities -> Slots]
    /\ file' \in [Utilities -> Files \union {NoFile}]
    /\ \A u \in Utilities : pc'[u] \in {"read", "put"} => file'[u] \in Files
    /\ left' \in [Utilities -> SUBSET (Slots \X Offsets)]
    /\ commands' \in 0 .. MaxCommands
    /\ long' \in BOOLEAN /\ wild' \in BOOLEAN /\ void' \in BOOLEAN
    /\ \A u \in Utilities : pc'[u] = "list" => pos'[u] < FAT_LEN

LEMMA StartType ==
    ASSUME Typed, NEW u \in Utilities, NEW c \in {"list", "format", "read"},
           NEW f \in Files \union {NoFile}, c = "read" => f \in Files, Start(u, c, f)
    PROVE  Typed0
<1>1. /\ pc' = [pc EXCEPT ![u] = c] /\ pos' = [pos EXCEPT ![u] = 0]
      /\ file' = [file EXCEPT ![u] = f] /\ free' = [free EXCEPT ![u] = FAT_LEN]
      /\ left' = [left EXCEPT ![u] = IF c = "format" THEN Slots \X Offsets ELSE {}]
      /\ commands' = commands + 1
      /\ commands < MaxCommands /\ UNCHANGED <<table, long, wild>> /\ void' \in BOOLEAN
  BY DEF Start, Typed, TypeOK
<1>. QED
  BY <1>1, SlotsType DEF Typed, TypeOK, ListPos, Typed0

LEMMA WriteType ==
    ASSUME Typed, NEW u \in Utilities, NEW entry \in Entries, NEW b \in left[u],
           Write(u, b, entry), pc[u] # "list"
    PROVE  Typed0
<1>1. table' \in [Slots -> Entries]
  BY WriteEffect DEF Typed
<1>2. UNCHANGED history
  BY DEF Write
<1>3. \A v \in Utilities : /\ pc'[v] = "none" \/ (pc'[v] = pc[v] /\ file'[v] = file[v])
                           /\ pc'[v] = "list" => pc[v] = "list" /\ pos'[v] = pos[v]
  BY ByteEffect DEF Typed
<1>4. /\ pc' \in [Utilities -> {"none", "read", "put", "format", "list"}]
      /\ pos' \in [Utilities -> Slots] /\ free' \in [Utilities -> Slots]
      /\ file' \in [Utilities -> Files \union {NoFile}]
      /\ left' \in [Utilities -> SUBSET (Slots \X Offsets)]
  BY ByteEffect DEF Typed
<1>. QED
  BY <1>1, <1>2, <1>3, <1>4 DEF Typed, TypeOK, ListPos, history, Typed0

LEMMA TypedStep == ASSUME Typed, [Next]_vars PROVE Typed'
<1>1. ASSUME NEW u \in Utilities, cmd_list(u) \/ cmd_format(u) \/ cmd_put(u)
      PROVE  Typed0
  BY <1>1, StartType DEF cmd_list, cmd_format, cmd_put
<1>2. ASSUME NEW u \in Utilities, list_entry(u) PROVE Typed0
  <2>1. wild' \in BOOLEAN /\ UNCHANGED <<table, commands, long, void>>
    BY <1>2 DEF list_entry, Typed, TypeOK
  <2>2. CASE Stop(u)
    BY <2>1, <2>2, StopEffect DEF Typed, TypeOK, ListPos, Typed0
  <2>3. CASE /\ pos[u] # FAT_LEN - 1 /\ pos' = [pos EXCEPT ![u] = @ + 1]
             /\ UNCHANGED <<pc, file, free, left>>
    BY <1>2, <2>1, <2>3, SlotsType DEF list_entry, Typed, TypeOK, ListPos, Typed0
  <2>. QED  BY <1>2, <2>2, <2>3 DEF list_entry
<1>3. ASSUME NEW u \in Utilities, read_entry(u) PROVE Typed0
  BY <1>3, SlotsType DEF read_entry, Typed, TypeOK, ListPos, Typed0, history
<1>4. ASSUME NEW u \in Utilities, take_entry(u) PROVE Typed0
  <2>1. EntryBytes(free[u]) \subseteq Slots \X Offsets /\ free[u] \in Slots
    BY BytesOf DEF Typed, TypeOK
  <2>. QED
    BY <1>4, <2>1 DEF take_entry, Typed, TypeOK, ListPos, Typed0
<1>5. ASSUME NEW u \in Utilities, put_byte(u) PROVE Typed0
  <2>1. Entry(file[u]) \in Entries
    BY <1>5, EntryType DEF put_byte, Typed, TypeOK
  <2>. QED  BY <1>5, <2>1, WriteType DEF put_byte
<1>6. ASSUME NEW u \in Utilities, format_byte(u) PROVE Typed0
  BY <1>6, WriteType, EntryType DEF format_byte
<1>7. ASSUME NEW u \in Utilities, kill(u) PROVE Typed0
  <2>1. Stop(u) /\ UNCHANGED <<table, commands, long, wild>> /\ void' \in BOOLEAN
    BY <1>7 DEF kill, Typed, TypeOK
  <2>. QED  BY <2>1, StopEffect DEF Typed, TypeOK, ListPos, Typed0
<1>8. CASE Next
  <2>1. Typed0
    BY <1>1, <1>2, <1>3, <1>4, <1>5, <1>6, <1>7, <1>8 DEF Next, Command
  <2>2. since' \in [Utilities -> SUBSET Places]
    BY <1>8 DEF Next, Remember
  <2>. QED  BY <2>1, <2>2 DEF Typed0, Typed, TypeOK, ListPos
<1>9. CASE UNCHANGED vars
  BY <1>9 DEF vars, process, history, Typed, TypeOK, ListPos
<1>. QED
  BY <1>8, <1>9

LEMMA TypedInit == Init => Typed
<1>. SUFFICES ASSUME Init PROVE Typed
  OBVIOUS
<1>1. table \in [Slots -> Entries]
  BY EntryType DEF Init
<1>2. /\ pos \in [Utilities -> Slots] /\ free \in [Utilities -> Slots]
      /\ left \in [Utilities -> SUBSET (Slots \X Offsets)]
      /\ since \in [Utilities -> SUBSET Places]
  BY SlotsType DEF Init
<1>3. /\ pc \in [Utilities -> {"none", "read", "put", "format", "list"}]
      /\ file \in [Utilities -> Files \union {NoFile}]
      /\ \A u \in Utilities : pc[u] = "none"
      /\ commands \in 0 .. MaxCommands
  BY DEF Init
<1>4. long \in BOOLEAN /\ wild \in BOOLEAN /\ void \in BOOLEAN
  BY DEF Init
<1>. QED
  BY <1>1, <1>2, <1>3, <1>4 DEF Typed, TypeOK, ListPos

\* The disk and the processes keep their types: no command gets to an entry
\* that is neither in the table nor right behind it.
THEOREM TypeCorrect == Spec => []TypeOK
<1>1. Typed /\ [Next]_vars => Typed'
  BY TypedStep
<1>2. Typed => TypeOK
  BY DEF Typed
<1>. QED
  BY <1>1, <1>2, TypedInit, PTL DEF Spec

LEMMA AlwaysTyped == Spec => []Typed
<1>1. Typed /\ [Next]_vars => Typed'
  BY TypedStep
<1>. QED
  BY <1>1, TypedInit, PTL DEF Spec

----------------------------------------------------------------------------
(* Names that ls can print *)

\* The names on the disk, and those about to be, end in their entries: their
\* last byte is zero.
Fit == /\ \A s \in Slots : table[s].name[NAME_LEN] = NoFile
       /\ \A u \in Utilities : pc[u] = "put" => Length[file[u]] < NAME_LEN
NamesFit == ~long => ~wild /\ Fit

\* A byte of an entry whose name ends in it leaves every name as it was there.
LEMMA FitWrite ==
    ASSUME Typed, Fit, NEW u \in Utilities, NEW entry \in Entries, NEW b \in left[u],
           Write(u, b, entry), entry.name[NAME_LEN] = NoFile
    PROVE  Fit'
<1>1. NAME_LEN \in 1 .. NAME_LEN
  OBVIOUS
<1>2. /\ \A s \in Slots : s # b[1] => table'[s] = table[s]
      /\ \A i \in 1 .. NAME_LEN : table'[b[1]].name[i] =
            IF b[2] = i THEN entry.name[i] ELSE table[b[1]].name[i]
      /\ b[1] \in Slots
  BY WriteEffect DEF Typed
<1>3. table'[b[1]].name[NAME_LEN] = NoFile
  BY <1>1, <1>2 DEF Fit
<1>4. \A s \in Slots : table'[s].name[NAME_LEN] = NoFile
  BY <1>2, <1>3 DEF Fit
<1>5. \A v \in Utilities : pc'[v] = "put" => pc[v] = "put" /\ file'[v] = file[v]
  BY ByteEffect DEF Typed
<1>. QED
  BY <1>4, <1>5 DEF Fit

LEMMA NamesFitStep == ASSUME Typed, NamesFit, [Next]_vars PROVE NamesFit'
<1>. SUFFICES ASSUME ~long' PROVE ~wild' /\ Fit'
  BY DEF NamesFit
<1>0. ~long /\ ~wild /\ Fit
  <2>1. long => long'
    BY DEF Next, Command, cmd_list, cmd_format, cmd_put, Start, list_entry, read_entry,
           take_entry, put_byte, format_byte, Write, kill, vars, history
  <2>. QED  BY <2>1 DEF NamesFit
<1>1. ASSUME NEW u \in Utilities, cmd_list(u) \/ cmd_format(u) \/ cmd_put(u)
      PROVE  ~wild' /\ Fit'
  BY <1>0, <1>1 DEF cmd_list, cmd_format, cmd_put, Start, Fit, Typed, TypeOK
<1>2. ASSUME NEW u \in Utilities, list_entry(u) PROVE ~wild' /\ Fit'
  <2>1. pos[u] \in Slots /\ NAME_LEN \in 1 .. NAME_LEN
    BY DEF Typed, TypeOK
  <2>2. ~wild'
    BY <1>0, <1>2, <2>1 DEF list_entry, Fit, Unterminated
  <2>3. \A v \in Utilities : pc'[v] = "put" => pc[v] = "put" /\ file'[v] = file[v]
    BY <1>2, StopEffect DEF list_entry, Typed
  <2>. QED  BY <1>0, <1>2, <2>2, <2>3 DEF list_entry, Fit
<1>3. ASSUME NEW u \in Utilities, read_entry(u) PROVE ~wild' /\ Fit'
  BY <1>0, <1>3 DEF read_entry, Fit, history
<1>4. ASSUME NEW u \in Utilities, take_entry(u) PROVE ~wild' /\ Fit'
  <2>1. ~(Length[file[u]] >= NAME_LEN) /\ Length[file[u]] \in Nat
    BY <1>4 DEF take_entry, Typed, TypeOK
  <2>. QED  BY <1>0, <1>4, <2>1 DEF take_entry, Fit, Typed, TypeOK
<1>5. ASSUME NEW u \in Utilities, put_byte(u) PROVE ~wild' /\ Fit'
  <2>1. pc[u] = "put" /\ file[u] \in Files /\ Length[file[u]] < NAME_LEN
    BY <1>0, <1>5 DEF put_byte, Fit, Typed, TypeOK
  <2>2. Entry(file[u]).name[NAME_LEN] = NoFile
    <3>1. ~(NAME_LEN <= Length[file[u]]) /\ NAME_LEN \in 1 .. NAME_LEN
      BY <2>1
    <3>. QED  BY <3>1 DEF Entry, strncpy
  <2>3. PICK b \in left[u] : Write(u, b, Entry(file[u]))
    BY <1>5 DEF put_byte
  <2>4. Entry(file[u]) \in Entries
    BY <2>1, EntryType
  <2>. QED  BY <1>0, <2>2, <2>3, <2>4, FitWrite DEF Write, history
<1>6. ASSUME NEW u \in Utilities, format_byte(u) PROVE ~wild' /\ Fit'
  <2>1. PICK b \in left[u] : Write(u, b, Empty)
    BY <1>6 DEF format_byte
  <2>2. Empty.name[NAME_LEN] = NoFile
    BY DEF Empty
  <2>. QED  BY <1>0, <2>1, <2>2, EntryType, FitWrite DEF Write, history
<1>7. ASSUME NEW u \in Utilities, kill(u) PROVE ~wild' /\ Fit'
  BY <1>0, <1>7, StopEffect DEF kill, Fit, Typed
<1>8. CASE UNCHANGED vars
  BY <1>0, <1>8 DEF vars, process, history, Fit
<1>. QED
  BY <1>1, <1>2, <1>3, <1>4, <1>5, <1>6, <1>7, <1>8 DEF Next, Command

\* While every name that was put fits, ls stays inside the entries it prints
\* (disk.c:82-83, 123-124).
THEOREM ListStaysInside == Spec => []ListSafe
<1>1. Init => NamesFit
  <2>. SUFFICES ASSUME Init PROVE NamesFit
    OBVIOUS
  <2>1. \A s \in Slots : table[s].name[NAME_LEN] = NoFile
    BY DEF Init, Empty
  <2>. QED  BY <2>1 DEF Init, NamesFit, Fit
<1>2. Typed /\ NamesFit /\ [Next]_vars => NamesFit'
  BY NamesFitStep
<1>3. NamesFit => ListSafe
  BY DEF NamesFit, ListSafe
<1>. QED
  BY <1>1, <1>2, <1>3, AlwaysTyped, PTL DEF Spec
----------------------------------------------------------------------------
(* Files a put does not touch *)

\* The entry a put has found, or writes, has not been in use ever since the
\* put began, however many others were at the table meanwhile.
Spared == \A u \in Utilities :
    /\ pc[u] = "read" => free[u] \notin since[u]
    /\ pc[u] = "put" => pos[u] \notin since[u] /\ left[u] \subseteq EntryBytes(pos[u])

LEMMA SinceShrinks ==
    ASSUME Typed, Remember, NEW u \in Utilities
    PROVE  /\ pc[u] # "none" => since'[u] \subseteq since[u]
           /\ FAT_LEN \notin since'[u]
           /\ \A s \in since'[u] : table'[s].name_len # 0
BY DEF Remember, Places

LEMMA SparedStep == ASSUME Typed, Spared, [Next]_vars PROVE Spared'
<1>. USE DEF Spared
<1>1. ASSUME NEW u \in Utilities, Remember, cmd_list(u) \/ cmd_format(u) \/ cmd_put(u)
      PROVE  Spared'
  <2>1. /\ free'[u] = FAT_LEN /\ pc'[u] # "put"
        /\ \A v \in Utilities : v # u => /\ pc'[v] = pc[v] /\ pos'[v] = pos[v]
                                        /\ free'[v] = free[v] /\ left'[v] = left[v]
    BY <1>1 DEF cmd_list, cmd_format, cmd_put, Start, Typed, TypeOK
  <2>. QED  BY <1>1, <2>1, SinceShrinks
<1>2. ASSUME NEW u \in Utilities, Remember, list_entry(u) PROVE Spared'
  <2>1. /\ pc'[u] \notin {"read", "put"}
        /\ \A v \in Utilities : v # u => /\ pc'[v] = pc[v] /\ pos'[v] = pos[v]
                                        /\ free'[v] = free[v] /\ left'[v] = left[v]
    BY <1>2, StopEffect DEF list_entry, Typed, TypeOK
  <2>. QED  BY <1>2, <2>1, SinceShrinks
<1>3. ASSUME NEW u \in Utilities, Remember, read_entry(u) PROVE Spared'
  <2>1. /\ pc' = pc /\ left' = left /\ pc[u] = "read" /\ table' = table
        /\ free'[u] = free[u] \/ (free'[u] = pos[u] /\ table[pos[u]].name_len = 0)
        /\ \A v \in Utilities : v # u => pos'[v] = pos[v] /\ free'[v] = free[v]
    BY <1>3 DEF read_entry, Typed, TypeOK
  <2>. QED  BY <1>3, <2>1, SinceShrinks
<1>4. ASSUME NEW u \in Utilities, Remember, take_entry(u) PROVE Spared'
  <2>1. /\ pc[u] = "read" /\ pc'[u] = "put" /\ pos'[u] = free[u] /\ left'[u] = EntryBytes(free[u])
        /\ free' = free
        /\ \A v \in Utilities : v # u => /\ pc'[v] = pc[v] /\ pos'[v] = pos[v]
                                        /\ left'[v] = left[v]
    BY <1>4 DEF take_entry, Typed, TypeOK
  <2>. QED  BY <1>4, <2>1, SinceShrinks
<1>5. ASSUME NEW u \in Utilities, Remember, put_byte(u) \/ format_byte(u) PROVE Spared'
  <2>1. PICK entry \in Entries, b \in left[u] : Write(u, b, entry) /\ pc[u] \in {"put", "format"}
    BY <1>5, EntryType DEF put_byte, format_byte, Typed, TypeOK
  <2>2. /\ left'[u] \subseteq left[u]
        /\ pc'[u] = "none" \/ (pc'[u] = pc[u] /\ pos'[u] = pos[u])
        /\ \A v \in Utilities : v # u => /\ pc'[v] = pc[v] /\ pos'[v] = pos[v]
                                        /\ free'[v] = free[v] /\ left'[v] = left[v]
    BY <2>1, ByteEffect DEF Typed
  <2>. QED  BY <1>5, <2>1, <2>2, SinceShrinks
<1>6. ASSUME NEW u \in Utilities, Remember, kill(u) PROVE Spared'
  <2>1. /\ pc'[u] = "none"
        /\ \A v \in Utilities : v # u => /\ pc'[v] = pc[v] /\ pos'[v] = pos[v]
                                        /\ free'[v] = free[v] /\ left'[v] = left[v]
    BY <1>6, StopEffect DEF kill, Typed
  <2>. QED  BY <1>6, <2>1, SinceShrinks
<1>7. CASE UNCHANGED vars
  BY <1>7 DEF vars, process
<1>. QED
  BY <1>1, <1>2, <1>3, <1>4, <1>5, <1>6, <1>7 DEF Next, Command

\* A step that changes the table writes one byte that one process had still
\* to write.
LEMMA OnlyWritersChange ==
    ASSUME Typed, [Next]_vars
    PROVE  \/ UNCHANGED table
           \/ \E u \in Utilities : put_byte(u) \/ format_byte(u)
BY DEF Next, Command, cmd_list, cmd_format, cmd_put, Start, list_entry, read_entry,
       take_entry, kill, vars

\* A put never writes to a place that has been in use ever since the put
\* began, whatever else is at the table meanwhile and whoever is killed
\* (disk.c:110-127).
THEOREM PutsSpare == Spec => PutSpares
<1>. DEFINE A == \A u \in Utilities : pc[u] = "put" /\ left'[u] # left[u]
                   => \A s \in since[u] : table'[s] = table[s]
<1>1. Init => Spared
  BY DEF Init, Spared
<1>2. Typed /\ Spared /\ [Next]_vars => Spared'
  BY SparedStep
<1>3. Typed /\ Spared /\ [Next]_vars => [A]_vars
  <2>. SUFFICES ASSUME Typed, Spared, [Next]_vars, NEW u \in Utilities, pc[u] = "put",
                       left'[u] # left[u], NEW s \in since[u]
                PROVE  table'[s] = table[s]
    OBVIOUS
  <2>1. CASE UNCHANGED table
    BY <2>1
  <2>2. ASSUME NEW v \in Utilities, put_byte(v) \/ format_byte(v) PROVE table'[s] = table[s]
    <3>1. PICK entry \in Entries, b \in left[v] : Write(v, b, entry)
      BY <2>2, EntryType DEF put_byte, format_byte, Typed, TypeOK
    <3>2. v = u
      BY <3>1, ByteEffect DEF Typed
    <3>3. pos[u] \in Slots /\ b[1] = pos[u] /\ s # pos[u] /\ s \in Slots
      <4>1. pos[u] \in Slots /\ b \in EntryBytes(pos[u]) /\ pos[u] \notin since[u]
        BY <3>1, <3>2 DEF Spared, Typed, TypeOK
      <4>2. s \in Places
        BY DEF Typed, TypeOK
      <4>3. s \in Slots
        BY <4>2, SlotsType DEF Places
      <4>. QED  BY <4>1, <4>3, BytesOf
    <3>. QED  BY <3>1, <3>2, <3>3, WriteEffect DEF Typed
  <2>. QED  BY <2>1, <2>2, OnlyWritersChange
<1>. QED
  <2>. HIDE DEF A
  <2>1. Spec => [][A]_vars
    BY <1>1, <1>2, <1>3, AlwaysTyped, PTL DEF Spec
  <2>. QED
    BY <2>1 DEF A, PutSpares

----------------------------------------------------------------------------
(* One writer at a time *)

\* The byte of an entry at an offset.
At(entry, o) == IF o = 0 THEN entry.name_len ELSE entry.name[o]

\* Until two writers overlap or one is killed: there is one writer; a put has
\* found the first free entry, or that there is none; the bytes a writer has
\* no longer to write are on the disk; and every entry that is not being
\* written and has a length has a name.
OneWriter == \A u, v \in Utilities : Writing(u) /\ Writing(v) => u = v
Found(u)  == \/ free[u] = FAT_LEN /\ \A s \in Slots : s < pos[u] => table[s].name_len # 0
             \/ /\ free[u] < pos[u] /\ table[free[u]].name_len = 0
                /\ \A s \in Slots : s < free[u] => table[s].name_len # 0
Searched  == \A u \in Utilities :
    /\ pc[u] = "read" => Found(u)
    /\ pc[u] = "put" =>
          /\ \A s \in Slots : s < pos[u] => table[s].name_len # 0
          /\ \/ pos[u] = FAT_LEN \/ left[u] # EntryBytes(pos[u])
             \/ table[pos[u]].name_len = 0
Written   == \A u \in Utilities :
    /\ pc[u] = "put" =>
          /\ left[u] \subseteq EntryBytes(pos[u])
          /\ \A b \in EntryBytes(pos[u]) :
                b \in left[u] \/ At(table[b[1]], b[2]) = At(Entry(file[u]), b[2])
    /\ pc[u] = "format" =>
          \A b \in Slots \X Offsets : b \in left[u] \/ At(table[b[1]], b[2]) = At(Empty, b[2])
Whole     == \A s \in Slots : Half(s) \/ table[s].name_len = 0 \/ table[s].name[1] \in Files
Orderly   == OneWriter /\ Searched /\ Written /\ Whole
Alone     == ~void => Orderly

LEMMA VoidStays == [Next]_vars => (void => void')
BY DEF Next, Command, cmd_list, cmd_format, cmd_put, Start, list_entry, read_entry,
       take_entry, put_byte, format_byte, Write, kill, vars, history

LEMMA OrderlyStart ==
    ASSUME Typed, Orderly, ~void',
           NEW u \in Utilities, NEW c \in {"list", "format", "read"},
           NEW f \in Files \union {NoFile}, Start(u, c, f)
    PROVE  Orderly'
<1>1. /\ pc[u] = "none"
      /\ pc' = [pc EXCEPT ![u] = c] /\ pos' = [pos EXCEPT ![u] = 0]
      /\ file' = [file EXCEPT ![u] = f] /\ free' = [free EXCEPT ![u] = FAT_LEN]
      /\ left' = [left EXCEPT ![u] = IF c = "format" THEN Slots \X Offsets ELSE {}]
      /\ UNCHANGED table
      /\ c # "list" => \A v \in Utilities : ~Writing(v)
  BY DEF Start
<1>2. /\ pc'[u] = c /\ pos'[u] = 0 /\ free'[u] = FAT_LEN
      /\ c = "format" => left'[u] = Slots \X Offsets
      /\ \A v \in Utilities : v # u => /\ pc'[v] = pc[v] /\ pos'[v] = pos[v]
                                      /\ file'[v] = file[v] /\ free'[v] = free[v]
                                      /\ left'[v] = left[v]
  BY <1>1 DEF Typed, TypeOK
<1>. USE DEF Orderly
<1>3. OneWriter'
  BY <1>1, <1>2 DEF OneWriter, Writing
<1>4. Searched'
  <2>1. pc'[u] = "read" => Found(u)'
    BY <1>1, <1>2 DEF Found, Slots
  <2>2. \A v \in Utilities : v # u => Found(v)' = Found(v)
    BY <1>1, <1>2 DEF Found
  <2>. QED  BY <1>1, <1>2, <2>1, <2>2 DEF Searched
<1>5. Written'
  BY <1>1, <1>2 DEF Written
<1>6. Whole'
  <2>1. \A s \in Slots : Half(s) => Half(s)'
    BY <1>1, <1>2 DEF Half, HalfBy
  <2>. QED  BY <2>1, <1>1 DEF Whole
<1>. QED
  BY <1>3, <1>4, <1>5, <1>6

LEMMA OrderlyRead ==
    ASSUME Typed, Orderly, NEW u \in Utilities, read_entry(u)
    PROVE  Orderly'
<1>1. /\ pc[u] = "read" /\ pos[u] \in Slots /\ pos[u] < FAT_LEN /\ free[u] \in Slots
      /\ pc' = pc /\ left' = left /\ file' = file /\ table' = table
      /\ pos'[u] = pos[u] + 1
      /\ free'[u] = IF free[u] = FAT_LEN /\ table[pos[u]].name_len = 0 THEN pos[u]
                    ELSE free[u]
      /\ \A v \in Utilities : v # u => pos'[v] = pos[v] /\ free'[v] = free[v]
  BY DEF read_entry, Typed, TypeOK
<1>2. OneWriter'
  BY <1>1 DEF Orderly, OneWriter, Writing
<1>3. Found(u)'
  <2>1. Found(u)
    BY <1>1 DEF Orderly, Searched
  <2>2. \A s \in Slots : s < pos[u] + 1 => s < pos[u] \/ s = pos[u]
    BY <1>1 DEF Slots
  <2>3. CASE free[u] = FAT_LEN /\ \A s \in Slots : s < pos[u] => table[s].name_len # 0
    BY <2>2, <2>3, <1>1 DEF Found, Slots
  <2>4. CASE /\ free[u] < pos[u] /\ table[free[u]].name_len = 0
             /\ \A s \in Slots : s < free[u] => table[s].name_len # 0
    <3>1. free'[u] = free[u] /\ free[u] < pos'[u]
      BY <1>1, <2>4 DEF Slots
    <3>. QED  BY <3>1, <2>4, <1>1 DEF Found
  <2>. QED  BY <2>1, <2>3, <2>4 DEF Found
<1>4. Searched'
  <2>1. \A v \in Utilities : v # u => Found(v)' = Found(v)
    BY <1>1 DEF Found
  <2>. QED  BY <1>1, <1>3, <2>1 DEF Orderly, Searched
<1>5. Written'
  <2>1. \A v \in Utilities : pc[v] \in {"put", "format"} => v # u
    BY <1>1
  <2>. QED  BY <1>1, <2>1 DEF Orderly, Written
<1>6. Whole'
  <2>1. \A s \in Slots : Half(s) => Half(s)'
    BY <1>1 DEF Half, HalfBy
  <2>. QED  BY <2>1, <1>1 DEF Orderly, Whole
<1>. QED
  BY <1>2, <1>4, <1>5, <1>6 DEF Orderly

LEMMA OrderlyTake ==
    ASSUME Typed, Orderly, NEW u \in Utilities, take_entry(u)
    PROVE  Orderly' /\ UNCHANGED table /\ \A s \in Slots : Half(s)' <=> Half(s)
<1>1. /\ pc[u] = "read" /\ pos[u] = FAT_LEN /\ free[u] \in Slots
      /\ left'[u] = EntryBytes(free[u]) /\ file' = file /\ table' = table /\ free' = free
      /\ pc'[u] = "put" /\ pos'[u] = free[u]
      /\ \A v \in Utilities : v # u => pc'[v] = pc[v] /\ pos'[v] = pos[v] /\ left'[v] = left[v]
  BY DEF take_entry, Typed, TypeOK
<1>2. OneWriter'
  BY <1>1 DEF Orderly, OneWriter, Writing
<1>3. Found(u)
  BY <1>1 DEF Orderly, Searched
<1>4. /\ \A s \in Slots : s < free[u] => table[s].name_len # 0
      /\ free[u] = FAT_LEN \/ table[free[u]].name_len = 0
  BY <1>1, <1>3 DEF Found
<1>5. Searched'
  <2>1. \A v \in Utilities : v # u => Found(v)' = Found(v)
    BY <1>1 DEF Found
  <2>. QED  BY <1>1, <1>4, <2>1 DEF Orderly, Searched
<1>6. Written'
  BY <1>1 DEF Orderly, Written
<1>7. \A s \in Slots : Half(s)' <=> Half(s)
  <2>1. \A s \in Slots : s # free[u] => EntryBytes(free[u]) \intersect EntryBytes(s) = {}
    BY <1>1, BytesApart
  <2>2. \A s \in Slots : ~HalfBy(u, s)'
    BY <1>1, <2>1 DEF HalfBy
  <2>3. \A s \in Slots : ~HalfBy(u, s)
    BY <1>1 DEF HalfBy
  <2>4. \A s \in Slots, v \in Utilities : v # u => (HalfBy(v, s)' <=> HalfBy(v, s))
    BY <1>1 DEF HalfBy
  <2>. QED  BY <2>2, <2>3, <2>4 DEF Half
<1>8. Whole'
  BY <1>1, <1>7 DEF Orderly, Whole
<1>. QED
  BY <1>1, <1>2, <1>5, <1>6, <1>7, <1>8 DEF Orderly

\* What holds of the entries when the only writer has written a byte of the
\* one at s: with the first byte the entry is half written, with the last one
\* it is all there.
Wrote(s, entry) ==
    /\ Orderly' /\ s \in Slots
    /\ \A t \in Slots : t # s => (Half(t)' <=> Half(t)) /\ table'[t] = table[t]
    /\ Half(s)' \/ (Half(s) /\ \A o \in Offsets : At(table'[s], o) = At(entry, o))

LEMMA OrderlyWrite ==
    ASSUME Typed, Orderly, NEW u \in Utilities, NEW entry \in Entries, NEW b \in left[u],
           Write(u, b, entry), pc[u] \in {"put", "format"},
           entry = IF pc[u] = "put" THEN Entry(file[u]) ELSE Empty
    PROVE  Wrote(b[1], entry)
<1>. DEFINE s == b[1]
<1>1. /\ s \in Slots /\ b \in EntryBytes(s)
      /\ \A v \in Utilities : v # u => ~Writing(v)
      /\ pc[u] = "put" => s = pos[u]
  <2>1. b \in Slots \X Offsets
    BY DEF Typed, TypeOK
  <2>2. s \in Slots /\ b \in EntryBytes(s)
    BY <2>1, BytesOf
  <2>3. \A v \in Utilities : v # u => ~Writing(v)
    BY DEF Orderly, OneWriter, Writing
  <2>4. pc[u] = "put" => b \in EntryBytes(pos[u]) /\ pos[u] \in Slots
    BY DEF Orderly, Written, Typed, TypeOK
  <2>. QED  BY <2>2, <2>3, <2>4, BytesOf
<1>2. /\ \A t \in Slots : t # s => table'[t] = table[t]
      /\ \A o \in Offsets : At(table'[s], o) = IF o = b[2] THEN At(entry, o) ELSE At(table[s], o)
  <2>1. \A o \in Offsets : o = 0 \/ o \in 1 .. NAME_LEN
    BY DEF Offsets
  <2>2. /\ \A t \in Slots : t # s => table'[t] = table[t]
        /\ table'[s].name_len = IF b[2] = 0 THEN entry.name_len ELSE table[s].name_len
        /\ \A i \in 1 .. NAME_LEN : table'[s].name[i] =
                 IF b[2] = i THEN entry.name[i] ELSE table[s].name[i]
    BY WriteEffect DEF Typed
  <2>. QED  BY <2>1, <2>2 DEF At
<1>3. /\ left'[u] = left[u] \ {b}
      /\ left[u] = {b} => pc'[u] = "none"
      /\ left[u] # {b} => pc'[u] = pc[u] /\ pos'[u] = pos[u] /\ file'[u] = file[u]
      /\ \A v \in Utilities : v # u => pc'[v] = pc[v] /\ pos'[v] = pos[v]
  BY ByteEffect DEF Typed
<1>4. \A v \in Utilities : v # u => ~Writing(v)'
  BY <1>1, <1>3 DEF Writing
<1>5. \A t \in Slots : (Half(t) <=> HalfBy(u, t)) /\ (Half(t)' <=> HalfBy(u, t)')
  BY <1>1, <1>4 DEF Half, HalfBy, Writing
<1>6. \A t \in Slots : t # s => (HalfBy(u, t)' <=> HalfBy(u, t))
  <2>. SUFFICES ASSUME NEW t \in Slots, t # s PROVE HalfBy(u, t)' <=> HalfBy(u, t)
    OBVIOUS
  <2>1. b \notin EntryBytes(t)
    BY BytesOf
  <2>2. left'[u] \intersect EntryBytes(t) = left[u] \intersect EntryBytes(t)
    BY <2>1, <1>3
  <2>3. left[u] = {b} => left[u] \intersect EntryBytes(t) = {}
    BY <2>1
  <2>. QED  BY <2>2, <2>3, <1>3 DEF HalfBy
<1>7. ASSUME left[u] \intersect EntryBytes(s) # {b} PROVE Half(s)'
  <2>1. left'[u] \intersect EntryBytes(s) \notin {{}, EntryBytes(s)} /\ left[u] # {b}
    BY <1>1, <1>3, <1>7
  <2>2. HalfBy(u, s)'
    BY <2>1, <1>3 DEF HalfBy
  <2>. QED  BY <2>2, <1>1, <1>5
<1>8. ASSUME left[u] \intersect EntryBytes(s) = {b}
      PROVE  Half(s) /\ \A o \in Offsets : At(table'[s], o) = At(entry, o)
  <2>1. EntryBytes(s) # {b}
    BY <1>1, BytesOf
  <2>2. Half(s)
    BY <1>1, <1>8, <2>1 DEF Half, HalfBy
  <2>3. ASSUME NEW o \in Offsets, o # b[2] PROVE At(table[s], o) = At(entry, o)
    <3>1. <<s, o>> \in EntryBytes(s) /\ <<s, o>> # b /\ <<s, o>> \in Slots \X Offsets
      BY <1>1, <2>3 DEF EntryBytes
    <3>2. <<s, o>> \notin left[u]
      BY <3>1, <1>8
    <3>. QED  BY <3>1, <3>2, <1>1 DEF Orderly, Written
  <2>. QED  BY <2>2, <2>3, <1>2
<1>9. OneWriter'
  BY <1>4 DEF OneWriter, Writing
<1>10. Searched'
  <2>1. ASSUME pc'[u] = "put"
        PROVE  /\ \A t \in Slots : t < pos'[u] => table'[t].name_len # 0
               /\ left'[u] # EntryBytes(pos'[u])
    <3>1. pc[u] = "put" /\ pos'[u] = s /\ pos[u] = s
      BY <1>1, <1>3, <2>1
    <3>2. \A t \in Slots : t < s => t # s /\ table[t].name_len # 0
      BY <3>1, <1>1 DEF Orderly, Searched, Slots
    <3>. QED  BY <3>1, <3>2, <1>1, <1>2, <1>3
  <2>2. pc'[u] # "read"
    BY <1>3
  <2>. QED  BY <1>4, <2>1, <2>2 DEF Searched, Writing
<1>11. Written'
  <2>1. \A c \in Slots \X Offsets : c = b \/ At(table'[c[1]], c[2]) = At(table[c[1]], c[2])
    <3>. SUFFICES ASSUME NEW c \in Slots \X Offsets, c # b
                  PROVE  At(table'[c[1]], c[2]) = At(table[c[1]], c[2])
      OBVIOUS
    <3>1. c[1] \in Slots /\ c[2] \in Offsets /\ c = <<c[1], c[2]>>
      OBVIOUS
    <3>2. b = <<s, b[2]>>
      BY <1>1, BytesOf
    <3>3. c[1] # s \/ c[2] # b[2]
      BY <3>1, <3>2
    <3>. QED  BY <3>1, <3>3, <1>2
  <2>2. At(table'[b[1]], b[2]) = At(entry, b[2]) /\ b \in Slots \X Offsets
    BY <1>1, <1>2, BytesOf
  <2>3. ASSUME pc'[u] = "put"
        PROVE  /\ left'[u] \subseteq EntryBytes(pos'[u])
               /\ \A c \in EntryBytes(pos'[u]) :
                    c \in left'[u] \/ At(table'[c[1]], c[2]) = At(Entry(file'[u]), c[2])
    <3>1. pc[u] = "put" /\ pos'[u] = pos[u] /\ file'[u] = file[u] /\ entry = Entry(file[u])
          /\ pos[u] \in Slots
      BY <1>3, <2>3 DEF Typed, TypeOK
    <3>2. EntryBytes(pos[u]) \subseteq Slots \X Offsets
      BY <3>1, BytesOf
    <3>. QED  BY <3>1, <3>2, <2>1, <2>2, <1>3 DEF Orderly, Written
  <2>4. ASSUME pc'[u] = "format"
        PROVE  \A c \in Slots \X Offsets :
                  c \in left'[u] \/ At(table'[c[1]], c[2]) = At(Empty, c[2])
    <3>1. pc[u] = "format" /\ entry = Empty
      BY <1>3, <2>4
    <3>. QED  BY <3>1, <2>1, <2>2, <1>3 DEF Orderly, Written
  <2>. QED  BY <1>4, <2>3, <2>4 DEF Written, Writing
<1>12. \A t \in Slots : t # s => (Half(t)' <=> Half(t))
  BY <1>5, <1>6
<1>13. Whole'
  <2>1. \A t \in Slots : t # s => Half(t)' \/ table'[t].name_len = 0 \/ table'[t].name[1] \in Files
    BY <1>2, <1>12 DEF Orderly, Whole
  <2>2. ASSUME ~Half(s)' PROVE table'[s].name_len = 0 \/ table'[s].name[1] \in Files
    <3>1. 0 \in Offsets /\ 1 \in Offsets
      BY DEF Offsets
    <3>2. table'[s].name_len = entry.name_len /\ table'[s].name[1] = entry.name[1]
      BY <3>1, <1>7, <1>8, <2>2 DEF At
    <3>3. CASE pc[u] = "put"
      BY <3>2, <3>3, EntryName DEF Typed, TypeOK
    <3>4. CASE pc[u] # "put"
      BY <3>2, <3>4 DEF Empty
    <3>. QED  BY <3>3, <3>4
  <2>. QED  BY <2>1, <2>2 DEF Whole
<1>. QED
  BY <1>1, <1>2, <1>7, <1>8, <1>9, <1>10, <1>11, <1>12, <1>13 DEF Wrote, Orderly

LEMMA PutWrote ==
    ASSUME Typed, Orderly, NEW u \in Utilities, NEW b \in left[u], pc[u] = "put",
           Write(u, b, Entry(file[u]))
    PROVE  Wrote(b[1], Entry(file[u])) /\ b[1] = pos[u]
<1>1. Entry(file[u]) \in Entries /\ pos[u] \in Slots /\ b \in EntryBytes(pos[u])
  BY EntryType DEF Typed, TypeOK, Orderly, Written
<1>. QED
  BY <1>1, OrderlyWrite, BytesOf

LEMMA FormatWrote ==
    ASSUME Typed, Orderly, NEW u \in Utilities, NEW b \in left[u], pc[u] = "format",
           Write(u, b, Empty)
    PROVE  Wrote(b[1], Empty)
BY OrderlyWrite, EntryType

\* A killed writer and an ls.
LEMMA OrderlyElsewhere ==
    ASSUME Typed, Orderly, ~void', NEW u \in Utilities, list_entry(u) \/ kill(u)
    PROVE  Orderly' /\ UNCHANGED table /\ \A s \in Slots : Half(s)' <=> Half(s)
<1>1. /\ UNCHANGED table
      /\ \A v \in Utilities : v # u =>
            /\ pc'[v] = pc[v] /\ pos'[v] = pos[v] /\ left'[v] = left[v]
            /\ file'[v] = file[v] /\ free'[v] = free[v]
      /\ pc'[u] \in {"none", "list"}
  BY StopEffect DEF list_entry, kill, Typed, TypeOK
<1>2. \A s \in Slots : ~HalfBy(u, s) /\ ~HalfBy(u, s)'
  BY <1>1 DEF list_entry, kill, HalfBy
<1>3. \A s \in Slots : Half(s)' <=> Half(s)
  <2>1. \A s \in Slots, v \in Utilities : v # u => (HalfBy(v, s)' <=> HalfBy(v, s))
    BY <1>1 DEF HalfBy
  <2>. QED  BY <1>2, <2>1 DEF Half
<1>4. OneWriter'
  BY <1>1 DEF Orderly, OneWriter, Writing
<1>5. Searched'
  <2>1. \A v \in Utilities : v # u => Found(v)' = Found(v)
    BY <1>1 DEF Found
  <2>. QED  BY <2>1, <1>1 DEF Orderly, Searched
<1>6. Written'
  BY <1>1 DEF Orderly, Written
<1>7. Whole'
  BY <1>1, <1>3 DEF Orderly, Whole
<1>. QED
  BY <1>1, <1>3, <1>4, <1>5, <1>6, <1>7 DEF Orderly

LEMMA OrderlyStep == ASSUME Typed, Alone, [Next]_vars PROVE Alone'
<1>. SUFFICES ASSUME ~void' PROVE Orderly'
  BY DEF Alone
<1>0. Orderly
  BY VoidStays DEF Alone
<1>1. ASSUME NEW u \in Utilities, cmd_list(u) \/ cmd_format(u) \/ cmd_put(u)
      PROVE  Orderly'
  BY <1>0, <1>1, OrderlyStart DEF cmd_list, cmd_format, cmd_put
<1>2. ASSUME NEW u \in Utilities, read_entry(u) \/ take_entry(u) PROVE Orderly'
  BY <1>0, <1>2, OrderlyRead, OrderlyTake
<1>3. ASSUME NEW u \in Utilities, put_byte(u) \/ format_byte(u) PROVE Orderly'
  BY <1>0, <1>3, PutWrote, FormatWrote DEF Wrote, put_byte, format_byte
<1>4. ASSUME NEW u \in Utilities, list_entry(u) \/ kill(u) PROVE Orderly'
  BY <1>0, <1>4, OrderlyElsewhere
<1>5. CASE UNCHANGED vars
  BY <1>0, <1>5 DEF vars, process, Orderly, OneWriter, Searched, Found, Written,
                    Whole, Half, HalfBy, Writing
<1>. QED
  BY <1>1, <1>2, <1>3, <1>4, <1>5 DEF Next, Command

LEMMA AloneInit == Init => Alone
<1>. SUFFICES ASSUME Init PROVE Orderly
  BY DEF Alone
<1>1. (\A u \in Utilities : pc[u] = "none") /\ \A s \in Slots : table[s].name_len = 0
  BY DEF Init, Empty
<1>. QED
  BY <1>1 DEF Orderly, OneWriter, Searched, Written, Whole, Writing

LEMMA AlwaysAlone == Spec => []Alone
<1>1. Typed /\ Alone /\ [Next]_vars => Alone'
  BY OrderlyStep
<1>. QED
  BY <1>1, AloneInit, AlwaysTyped, PTL DEF Spec

----------------------------------------------------------------------------
(* The entry behind the table *)

\* A put that is alone at the table uses the entry behind it only when every
\* entry of the table is in use (disk.c:111-127).
THEOREM SurplusWhenFull == Spec => SurplusBehind
<1>. DEFINE A == (\E u \in Utilities : pc[u] = "put") /\ ~void /\ table'[FAT_LEN] # table[FAT_LEN]
                   => \A s \in Places : table[s].name_len # 0
<1>1. Typed /\ Alone /\ [Next]_vars => [A]_vars
  <2>. SUFFICES ASSUME Typed, Alone, [Next]_vars, NEW u \in Utilities, pc[u] = "put", ~void,
                       table'[FAT_LEN] # table[FAT_LEN], NEW s \in Places
                PROVE  table[s].name_len # 0
    OBVIOUS
  <2>1. Orderly
    BY DEF Alone
  <2>2. PICK v \in Utilities : put_byte(v) \/ format_byte(v)
    BY OnlyWritersChange
  <2>3. v = u /\ put_byte(u)
    BY <2>1, <2>2 DEF Orderly, OneWriter, Writing, put_byte, format_byte
  <2>4. pos[u] = FAT_LEN
    <3>1. PICK b \in left[u] : Write(u, b, Entry(file[u]))
      BY <2>3 DEF put_byte
    <3>2. Wrote(b[1], Entry(file[u])) /\ b[1] = pos[u]
      BY <2>1, <3>1, PutWrote
    <3>. QED  BY <3>2, SlotsType DEF Wrote
  <2>5. s \in Slots /\ s < FAT_LEN
    BY SlotsType DEF Places
  <2>. QED
    BY <2>1, <2>4, <2>5 DEF Orderly, Searched
<1>. QED
  <2>. HIDE DEF A
  <2>1. Spec => [][A]_vars
    BY <1>1, AlwaysAlone, AlwaysTyped, PTL DEF Spec
  <2>. QED
    BY <2>1 DEF A, SurplusBehind

----------------------------------------------------------------------------
(* Refinement of FileTable *)

listed == [s \in Places |-> Listed(s)]

LEMMA ListedElsewhere ==
    ASSUME UNCHANGED table, \A s \in Slots : Half(s)' <=> Half(s)
    PROVE  listed' = listed
<1>1. \A s \in Places : Listed(s)' = Listed(s)
  BY SlotsType DEF Listed, Places
<1>. QED
  BY <1>1 DEF listed, Places

LEMMA HalfElsewhere ==
    ASSUME Typed, NEW u \in Utilities, Orderly,
           cmd_list(u) \/ cmd_format(u) \/ cmd_put(u) \/ read_entry(u) \/ take_entry(u)
    PROVE  UNCHANGED table /\ \A s \in Slots : Half(s)' <=> Half(s)
<1>1. CASE cmd_list(u) \/ cmd_format(u) \/ cmd_put(u)
  <2>1. PICK c \in {"list", "format", "read"}, f \in Files \union {NoFile} : Start(u, c, f)
    BY <1>1 DEF cmd_list, cmd_format, cmd_put
  <2>2. /\ UNCHANGED table /\ pc[u] = "none" /\ pc'[u] = c
        /\ c = "format" => left'[u] = Slots \X Offsets
        /\ \A v \in Utilities : v # u => pc'[v] = pc[v] /\ left'[v] = left[v]
    BY <2>1 DEF Start, Typed, TypeOK
  <2>3. \A s \in Slots : (Slots \X Offsets) \intersect EntryBytes(s) = EntryBytes(s)
    BY BytesOf
  <2>4. \A s \in Slots : ~HalfBy(u, s) /\ ~HalfBy(u, s)'
    BY <2>2, <2>3 DEF HalfBy
  <2>5. \A s \in Slots, v \in Utilities : v # u => (HalfBy(v, s)' <=> HalfBy(v, s))
    BY <2>2 DEF HalfBy
  <2>. QED  BY <2>2, <2>4, <2>5 DEF Half
<1>2. CASE read_entry(u)
  BY <1>2 DEF read_entry, Half, HalfBy, Typed, TypeOK
<1>3. CASE take_entry(u)
  BY <1>3, OrderlyTake
<1>. QED
  BY <1>1, <1>2, <1>3

\* An entry is off the list from its first byte on, and what the writer wants
\* it to be with its last.
LEMMA ListedWrite ==
    ASSUME Typed, Orderly, NEW s \in Slots, NEW entry \in Entries, Wrote(s, entry)
    PROVE  /\ \A t \in Places : t # s => Listed(t)' = Listed(t)
           /\ \/ Half(s)' /\ Listed(s)' = NoFile
              \/ /\ Half(s) /\ Listed(s) = NoFile
                 /\ Listed(s)' = IF entry.name_len = 0 THEN NoFile ELSE entry.name[1]
<1>1. \A t \in Places : t # s => Listed(t)' = Listed(t)
  <2>. SUFFICES ASSUME NEW t \in Places, t # s PROVE Listed(t)' = Listed(t)
    OBVIOUS
  <2>1. (Half(t)' <=> Half(t)) /\ table'[t] = table[t]
    BY SlotsType DEF Wrote, Places
  <2>. QED  BY <2>1 DEF Listed
<1>2. CASE Half(s)'
  BY <1>1, <1>2 DEF Listed
<1>3. CASE ~Half(s)'
  <2>1. 0 \in Offsets /\ 1 \in Offsets
    BY DEF Offsets
  <2>2. /\ Half(s)
        /\ table'[s].name[1] = entry.name[1] /\ table'[s].name_len = entry.name_len
    BY <1>3, <2>1 DEF Wrote, At
  <2>. QED  BY <1>1, <1>3, <2>2 DEF Listed
<1>. QED
  BY <1>2, <1>3

LEMMA PutPromise ==
    ASSUME Typed, Orderly, NEW u \in Utilities, put_byte(u), ~void
    PROVE  listed' = listed \/ \E f \in Files : Promise!Put(f)
<1>. DEFINE entry == Entry(file[u])
<1>0. PICK s \in Slots : s = pos[u]
  BY DEF Typed, TypeOK
<1>1. PICK b \in left[u] : Write(u, b, entry)
  BY DEF put_byte
<1>2. /\ entry \in Entries /\ Wrote(s, entry) /\ pc[u] = "put" /\ file[u] \in Files
      /\ s \in Slots /\ void' = void /\ b \in EntryBytes(s)
      /\ entry.name_len # 0 => entry.name[1] = file[u]
  <2>1. pc[u] = "put" /\ file[u] \in Files /\ s \in Slots
    BY DEF put_byte, Typed, TypeOK
  <2>2. entry \in Entries /\ (entry.name_len # 0 => entry.name[1] = file[u])
    BY <2>1, EntryType, EntryName
  <2>3. Wrote(s, entry)
    BY <1>0, <1>1, <2>1, PutWrote
  <2>4. b \in EntryBytes(s)
    BY <1>0, <2>1 DEF Orderly, Written
  <2>5. void' = void
    BY <1>1 DEF Write, history
  <2>. QED  BY <2>1, <2>2, <2>3, <2>4, <2>5
<1>. HIDE DEF entry
<1>3. CASE s \notin Places \/ Listed(s)' = NoFile
  <2>1. s \in Places => Listed(s) = NoFile
    <3>1. CASE Half(s)
      BY <3>1 DEF Listed
    <3>2. CASE ~Half(s) /\ s \in Places
      <4>1. left[u] \intersect EntryBytes(s) = EntryBytes(s) /\ left[u] \subseteq EntryBytes(s)
        BY <1>0, <1>2, <3>2 DEF Half, HalfBy, Orderly, Written
      <4>2. left[u] = EntryBytes(pos[u]) /\ pos[u] # FAT_LEN
        BY <1>0, <4>1, <3>2 DEF Places
      <4>3. table[s].name_len = 0
        BY <1>0, <1>2, <4>2 DEF Orderly, Searched
      <4>. QED  BY <4>3 DEF Listed
    <3>. QED  BY <3>1, <3>2
  <2>2. \A t \in Places : Listed(t)' = Listed(t)
    BY <1>2, <1>3, <2>1, ListedWrite
  <2>. QED  BY <2>2 DEF listed, Places
<1>4. CASE s \in Places /\ Listed(s)' # NoFile
  <2>1. /\ Listed(s) = NoFile /\ entry.name_len # 0 /\ Listed(s)' = entry.name[1]
        /\ \A t \in Places : t # s => Listed(t)' = Listed(t)
    BY <1>2, <1>4, ListedWrite
  <2>2. entry.name[1] = file[u]
    BY <1>2, <2>1
  <2>3. \A t \in Places : t < s => Listed(t) # NoFile
    <3>. SUFFICES ASSUME NEW t \in Places, t < s PROVE Listed(t) # NoFile
      OBVIOUS
    <3>1. t \in Slots /\ t # s /\ table[t].name_len # 0
      BY <1>0, <1>2, SlotsType DEF Orderly, Searched, Places, Slots
    <3>2. EntryBytes(s) \intersect EntryBytes(t) = {}
      BY <3>1, BytesApart
    <3>3. left[u] \intersect EntryBytes(t) = {}
      BY <1>0, <1>2, <3>2 DEF Orderly, Written
    <3>4. ~Half(t)
      BY <1>2, <3>3 DEF Orderly, OneWriter, Writing, Half, HalfBy
    <3>. QED  BY <3>1, <3>4 DEF Orderly, Whole, Listed
  <2>4. listed' = [listed EXCEPT ![s] = file[u]]
    BY <1>4, <2>1, <2>2 DEF listed, Places
  <2>5. /\ listed[s] = NoFile
        /\ \A q \in Places : q < s => listed[q] # NoFile
    BY <1>4, <2>1, <2>3 DEF listed, Places
  <2>6. Promise!Put(file[u])
    BY <1>2, <1>4, <2>4, <2>5 DEF Promise!Put, listed, Places
  <2>. QED  BY <1>2, <2>6
<1>. QED
  BY <1>3, <1>4

LEMMA FormatPromise ==
    ASSUME Typed, Orderly, NEW u \in Utilities, format_byte(u), ~void
    PROVE  listed' = listed \/ Promise!Remove
<1>1. PICK b \in left[u] : Write(u, b, Empty) /\ pc[u] = "format"
  BY DEF format_byte
<1>. DEFINE s == b[1]
<1>2. /\ Empty \in Entries /\ Wrote(s, Empty) /\ s \in Slots /\ void' = void
      /\ Empty.name_len = 0
  BY <1>1, EntryType, FormatWrote DEF Write, history, Empty, Wrote
<1>3. /\ Listed(s)' = NoFile
      /\ \A t \in Places : t # s => Listed(t)' = Listed(t)
  BY <1>2, ListedWrite
<1>4. CASE s \in Places
  <2>1. listed' = [listed EXCEPT ![s] = NoFile]
    BY <1>3, <1>4 DEF listed, Places
  <2>. QED  BY <1>2, <1>4, <2>1 DEF Promise!Remove, listed, Places
<1>5. CASE s \notin Places
  BY <1>3, <1>5 DEF listed, Places
<1>. QED
  BY <1>4, <1>5

LEMMA StepPromise ==
    ASSUME Typed, Alone, [Next]_vars
    PROVE  [Promise!Next]_<<listed, void>>
<1>0. void \in BOOLEAN /\ void' \in BOOLEAN
  BY TypedStep DEF Typed, TypeOK
<1>1. CASE void'
  BY <1>0, <1>1 DEF Promise!Next, Promise!Disturb
<1>2. CASE ~void'
  <2>0. ~void /\ Orderly /\ void' = void
    <3>1. ~void
      BY <1>2, VoidStays
    <3>. QED  BY <3>1, <1>0, <1>2 DEF Alone
  <2>1. ASSUME NEW u \in Utilities,
               cmd_list(u) \/ cmd_format(u) \/ cmd_put(u) \/ read_entry(u) \/ take_entry(u)
        PROVE  listed' = listed
    BY <2>0, <2>1, HalfElsewhere, ListedElsewhere
  <2>2. ASSUME NEW u \in Utilities, list_entry(u) \/ kill(u)
        PROVE  listed' = listed
    BY <1>2, <2>0, <2>2, OrderlyElsewhere, ListedElsewhere
  <2>3. ASSUME NEW u \in Utilities, put_byte(u)
        PROVE  listed' = listed \/ Promise!Next
    BY <2>0, <2>3, PutPromise DEF Promise!Next
  <2>4. ASSUME NEW u \in Utilities, format_byte(u)
        PROVE  listed' = listed \/ Promise!Next
    BY <2>0, <2>4, FormatPromise DEF Promise!Next
  <2>5. ASSUME UNCHANGED vars PROVE listed' = listed
    BY <2>5, ListedElsewhere DEF vars, process, Half, HalfBy
  <2>6. listed' = listed \/ Promise!Next
    BY <2>1, <2>2, <2>3, <2>4, <2>5 DEF Next, Command
  <2>. QED
    BY <2>0, <2>6
<1>. QED
  BY <1>1, <1>2

\* The utility implements the file table it promises: a put enters its file in
\* the first free place, a format removes files, and nothing else happens,
\* until two writers overlap or one is killed while it writes (disk.c:62-134).
THEOREM ImplementsTable == Spec => TablePromise
<1>1. Init => Promise!Init
  <2>. SUFFICES ASSUME Init PROVE Promise!Init
    OBVIOUS
  <2>1. \A s \in Places : Listed(s) = NoFile
    BY SlotsType DEF Init, Listed, Places, Empty
  <2>. QED  BY <2>1 DEF Init, Promise!Init, Places
<1>2. Typed /\ Alone /\ [Next]_vars => [Promise!Next]_(Promise!ftVars)
  BY StepPromise DEF Promise!ftVars, listed, Places
<1>. QED
  BY <1>1, <1>2, AlwaysTyped, AlwaysAlone, PTL DEF Spec, TablePromise, Promise!Spec

=============================================================================
