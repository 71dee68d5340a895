# spacemmo: a verification development

spacemmo is a game in which ships carry programmable computers. Most of its
code is that computer: a stack machine with interrupts, a terminal, ports and a
disk (`src/lib/cpu`), an assembler for it (`src/lib/cpu/sasm`), and programs and
the beginnings of a kernel written in its assembly (`data/progs`). Around it
there is a client with a console, a server, a world of entities, and a utility
for the disks. This directory holds TLA+ modules that model the computer, the TLC
runs that check them, and theorems proved with TLAPS.

Source paths below are relative to the repository's root.

## 1. The system

### Inventory

| component | code | state | operations |
|---|---|---|---|
| virtual machine | `src/lib/cpu/cpu.[ch]` | 16 MB of memory, `ip`, `sp`, `rp`, `ts` (NULL once halted), opmaps | `run_cpu`, `step_cpu`, 22 instruction handlers |
| interrupts, event loop | `cpu.c:133-145, 447-601` | vectors in memory at `IDT`, a kqueue, `ke` | `handle_io`, `handle_irq`, `handle_timer`, `handle_kbd`, `handle_int`, `set_timer_isr`, `set_kbd_isr` |
| driver | `src/cpu.c` | - | `init_cpu`, `init_disk`, `load_cpu`, then `run_cpu` for ever |
| terminal | `hardware/tty.c` | two descriptors, both 0 | `read_tty` (blocking), `write_tty` |
| MMU | `hardware/mmu.c` | none used | `mmu_int` pops operands and prints |
| ports | `hardware/port.c` | a handler, a DMA buffer, a socket pair | `write_port`, `write_client`, `read_port` |
| disk | `hardware/peripheral/disk.c` | a mapped file, a position | status, set, read (a stub), write |
| assembler | `src/lib/cpu/sasm/*`, `src/sasm.c` | program image, tables of labels, variables, constants, references | parse, emit, resolve, write the file |
| disk utility | `src/disk.c` | the mapped file, a table of 4096 file entries in it | `status`, `format`, `ls`, `put` |
| world | `world.c`, `cluster.c`, `system.c`, `entity.c` | arrays of arrays of entities with position, velocity, acceleration, a cpu | add, find, for each, update |
| client, console | `client.c`, `ui.c`, `ui/console.c`, `cl.c` | kqueue with two timers, current entity, `quit` | the main thread's loop; the console's thread with ten commands |
| server | `server.c`, `net.[ch]`, `sv.c` | table of connections, kqueue, world | accept, read, disconnect, tick |
| radar, thruster | `hardware/peripheral/radar.c, thruster.c` | - | not compiled (`LIB_SRCS` in the Makefile) |

### Interaction

The machine is driven by one thread. While the program runs, `run_cpu` executes
one instruction a call and nothing else happens: events wait in the kqueue. Its
first `HLT` frees `ts` for good, and from then on each call of `run_cpu` reads
one event and serves it to its end: `handle_irq` pushes the return address on
the return stack, jumps to the ISR, and executes instructions until `rp` is back
where it was. An ISR talks to the hardware through `INT`: the operands name a
slot of the interrupt table, and the call sets a vector, prints, or sends a port
a message, whose handler (the disk's) runs at once and writes into the machine's
memory or the disk's mapping.

What makes it hard is what happens around these calls: keys and timer
expirations arrive at any time and are coalesced by the kqueue; the read of the
terminal blocks; `cpu->ke` is both the event being served and scratch space of
the calls that set filters; programs control both stacks and the vectors; almost
nothing is bounds-checked; and in the client the same machine is stepped by two
threads.

### What makes each component correct

- instructions: each leaves what its definition says, in every width, and takes
  from the stack exactly its operands;
- interrupts: served one at a time, to the end, at one depth of the return
  stack, whatever program and ISRs do; keys in order, none twice; a vector's ISR
  is entered at the address the vector holds; events that are due are served;
- terminal: what is printed is shown, line ends as CR LF;
- disk: blocks are written in order where the position says, and nothing else
  changes;
- assembler: a label resolves to the place its statement was emitted at, and a
  length counted is the length the machine consumes;
- disk utility: an entry is written to a free slot of the table, never over one
  in use or behind the table;
- client: two threads share the world without a lock: which steps may interleave,
  and that the console is not used after it was freed;
- server: a connection is in the table exactly while its socket is open.

## 2. Modules

| module | what it is |
|---|---|
| `Bytes` | bytes, little-endian numbers, `memcpy` as `Slice` and `Overwrite`, bitwise `And`/`Or` |
| `Disk` | the disk peripheral: `map`, `curpos`, one operator per function of `disk.c` |
| `Isa` | what machine and assembler share: instruction numbers, operand classes, interrupt slots |
| `Cpu` | the machine, terminal, ports, MMU, event loop and the environment; extends `Disk` and `Isa` |
| `Interrupts` | abstract specification: what the machine promises of interrupts to every program |
| `Sasm` | the assembler: one pass over the statements, then data, references and prologue; extends `Isa` |
| `SasmTrace` | the assembler with a history: the statements parsed, where each was emitted, the files begun, and what a program means; extends `Sasm` |
| `World` | entities, their accelerations and what a tick does with them; passive data |
| `Client` | the client's two threads over one world, one machine and one console; extends `World` |
| `FileTable` | abstract specification: what the disk utility promises of the table of files |
| `DiskUtil` | the disk utility: commands as processes on one shared mapping |
| `Server` | the loop of the server program |
| `MCImages` | images of `tests/simple.s` and of a jump, written instruction by instruction |
| `MCPrograms` | what the runs of the machine share; extends `Cpu` and `MCImages` |
| `MCEcho`, `MCOps`, `MCAnyIsr`, `MCFindings` | programs, hosts and properties of the machine's runs |
| `MCDisk`, `MCFaults` | the two large runs: `MCDisk` extends `MCEcho`, `MCFaults` extends `MCOps` and `MCAnyIsr` |
| `MCSasm`, `MCSasmFindings` | sources and properties of the assembler's runs; extend `SasmTrace` and `MCImages` |
| `MCClient`, `MCDiskUtil` | what the runs of client and utility need |
| `BytesProofs`, `CpuProofs`, `CpuTheorems` | lemmas and theorems about the machine |
| `ClientProofs`, `DiskUtilProofs` | lemmas and theorems about client and utility |
| `SasmProofs`, `SasmTraceProofs`, `SasmReading` | lemmas and theorems about the assembler's state, about the images it makes, and about which statements it reads |

### How state and actions correspond

Memory, stacks and registers are those of `cpu_t`, with pointers as offsets into
`mem`; `halted` is `ts == NULL`. `hpc` says where the C program is between two
steps, since `handle_io` and `handle_irq` are on its stack while an ISR runs:
"program" (in `run_cpu`), "clk" and "kbd" (in the loop of `handle_irq`, called
from `handle_timer` and `handle_kbd`), "mid" (between the two tests of
`handle_io`) and "read" (in the blocking `read_tty`). `ret` is the local of
`handle_irq`.

One step is one instruction (`step_cpu`, with everything its handler calls), or
one stage of `handle_io`: the kevent call with the clock test and the entry of
its ISR (`handle_io`), the test for a key (`test_kbd`), the read with the entry
of the keyboard's ISR (`handle_kbd`). The environment - a user who types
(`type_key`) or closes the terminal (`close_tty`), a timer that expires
(`timer_fires`) - can act between any two of them. There is no smaller
interleaving to model: the environment's state is read only by `kevent` and
`read`, once in each step.

`watched` and `events` stand for the kqueue: filters are edge-triggered
(`EV_CLEAR`), so an event that is active already is not queued again; setting a
read filter makes it active at once if there is something to read; setting a
timer again may drop its pending event. `Hosts` says what C leaves open and this
code relies on: whether `malloc` returned zeroed opmaps, whether the four ports
lie side by side in the heap, whether `kevent` works.

An access outside `mem`, an operand longer than the 8-byte local it is copied
to, a division by zero and a call through a garbage opmap entry are undefined in
C. They lead to status "wild", where the model ends and nothing is promised.
What the model counts as inside is the array `mem`, so a stack that runs into
the other stack or into the vectors is an ordinary step, as in the program.
`exit(1)` is status "exit".

The assembler (`Sasm`) is sequential. One step parses one statement (one action for each
kind in the grammar of `sasm.y`) or is one of the stages after it: the next included
file (`yywrap`), the end of the input, `write_data`, `write_prologue`. Its state is
`sasm_t`: the image `prog`, `ip`, the table `variables` with the references of each
name, and the table's size, which decides when `realloc` is called; besides, what is
left of the current file (`text`) and the list of files (`files`). The lexer is left
out: a source is what it yields. `SasmTrace` adds three history variables that guide
nothing: the statements parsed so far (`read`), the value of `ip` at each (`where`), and
the files begun, with how much had been read before each (`begun`). With them what an
image has to hold is said of any source, in the order its statements were read, and of
that order which files it goes through. `sasm->prog` and the table are blocks of the
heap, and `Hosts` says what the heap does where the code depends on it: whether memory
that `realloc` adds is zero, whether the block moves, and what becomes of a block that
is freed and read afterwards. `malloc(0)`, for an empty string or reservation, returns a
pointer that is not NULL, as the C library the code is built with does. Machine and
assembler are joined by images: `ImagesAssembled` says that the images the machine's
runs start from are what the assembler makes of their sources.

The client (`Client`) has two threads and no lock, so a step is as small as what another
thread can see: one load or store of a shared word, or a statement that touches nothing
shared together with the next one that does. `pc` says where each thread is. The main
thread tests `quit`, takes one event, and then either goes through the entities one
component at a time (`update_entity`: a tick reads the three components of an
acceleration in three steps) or executes `step_cpu`. The console's thread reads a line
and carries it out; `cmd_thrust` writes the components one by one. What is shared is
named in the order the code shares it: `acc`, `quit`, `open` (the console is not freed),
`ip` and `ts`. `reg` is the copy of `ip` a thread holds inside `cpu->ip++`. Three
history variables say what overlapped: `overlap`, that the threads have ever been in
`step_cpu` together, `met`, that they have during a thread's current instruction, and
`from`, where it was fetched. Velocities and positions are real numbers that nothing
decides on; the model keeps what a tick added (`applied`). Vectors are numbered per
entity, so a component tells which command it belongs to. A NULL that is dereferenced,
and a block freed twice, is status "crash".

In the disk utility (`DiskUtil`) each command is a process with the same mapping.
`read_entry` copies one entry of the table to the buffer of `cmd_put`, which remembers the
first free one. What is written goes to the disk byte by byte: `left` holds the bytes a
process has still to write, the bytes of one `memcpy` in any order, the blocks of
`cmd_format` (which do not end where entries do) one after the other; and
a process can be killed between any two bytes. An entry is a `name_len` and `NAME_LEN`
bytes, so a name can be torn, with bytes of one file and of another. A byte of a
name tells whose name it is; what matters besides is whether `strncpy` leaves it
terminated and what is left of its length in one byte. `since` is a history: for every
put, the places in use at every moment since it began.

Names ending in `_` and a fault (`handle_hlt_Advances`, ...) stand before the
operator they are variants of. They are not used in `Next`: each breaks one of the
properties, which shows that the property depends on that code.

### Scaling

A qword has `QWORD` bytes: 8 in the code, 2 in the runs, because TLC's integers
have 32 bits. The size flag 1 is then both "word" and "qword", and a size flag
above stands for the operands longer than a qword. The theorems hold for 2 to 8.
The memory, the stacks, the interrupt table, the DMA buffer and the disk have
the code's order and adjacency, scaled down; the runs reach both ends of every
one of them. Only the DMA buffer of port 0 is used.

## 3. Runs

| run | program, environment | shows |
|---|---|---|
| `devices` | `tests/simple.s` and an ISR that logs keys to the disk; three keys of {CR, a}, timer, end of file at any time; a disk with room for two | `EchoInOrder`, `AtRest`, `ReadNeverBlocks`, `LogOnDisk`, `FaultsOnlyWhenFull`; `LoneKeyNoticed`: the only key unread stays reported until it is read; and under fairness `ClockServed`, `KeyEventServed`, `SlowTypingLosesNone` |
| `ops` | 444 programs: 353 with all instructions, two widths, operands at the edges; 72 with pairs of ISR fragments, wrong ones included; 4 that lean on host and stacks, and 15 whose calls are 0 to 14 deep when the clock interrupts them; each on 8 hosts | `ComputesReference`; `ArithmeticWraps`: all arithmetic is that of numbers modulo 256^n; `IrqDiscipline`, `ReturnLevel`, `InterruptPromise`; `ResumesThere`: an interrupt ends where it began; `HltIsForEver`: a HLT in an ISR is never left, and the machine stands still; `FailureExplained`: each way the machine fails has the cause the property names, and no other; `EntersItsIsr`: how deep calls may be for an interrupt to enter its ISR, and where it goes when a return address has taken the vector's place; `TypeOK` |
| `sasm` | every order of the five parts of a program, in one file and in four; the sources of the images; six programs with an error; four heaps | `CodeInPlace`, `DataReached`, `RefsApart`, `WildExplained`: each way a well-formed program crashes the assembler, on each heap; `ReadsAll`: which files are read, on each heap; `ImagesAssembled`, `TypeOK`, and under fairness `Finishes`: assembling ends, and a proper program is assembled |
| `client` | two entities, a machine with the program NOP, HLT; two lines of every kind, timers at any time | `ConsoleLives`, `NoOldComponent`, `HltHolds`, `RaceContained`, `ThrustsOwn`, `TypeOK`, and under fairness `ThrustTakesHold`, `QuitEnds` |
| `diskutil` | two utilities, a table of two entries, four commands of ls, format and put with four names, written byte by byte; any of them killed | `ListSafe`, `SurplusBehind`, `PutSpares`, `TablePromise` (refinement of `FileTable`), `TypeOK` |
| `kbd`, `kern`, `far`, `late`, `jump` | see below | what documentation and programs say and the machine does not do |
| `bytes` | see below | a test program that is not assembled to what it says |
| `sv` | see below | a server that does not serve |

What the runs of client and utility show, next to what holds, is under which condition
it holds. `HltHolds` and `TablePromise` end where two actors overlap: the code has no
lock, and without the condition TLC finds an `ip` that passed a HLT, a `ts` freed twice,
a file entered over another. Two properties go on behind an overlap and say how far the
damage goes. `RaceContained`: however often the two threads step the machine together,
an instruction that had it to itself is carried out whole, at the place it was fetched
from, and `ts` is freed twice only while the other thread is between its own `free` and
the assignment behind it. `PutSpares`: whatever else is at the table and wherever it is
killed, a put never touches an entry that was in use all the time since the put began,
so two puts can cost one of the two files they enter and no other. `NoOldComponent` says
how torn a tick can be: x of one vector with y and z of the next or of the one before,
never of an older one. `ThrustsOwn` names the one way to move an entity that is not
one's own: `become` with an id nobody has, and then `thrust`, which looks up an
uninitialised id. `ListSafe` shows that neither a kill nor an overlap can make `ls` run
over the end of a name, torn names included: the last byte of every name that fits is
zero, whoever wrote it. Only a name of 256 bytes or more can.

The return stack grows towards the interrupt vectors, and nothing compares `rp` with
them. `EntersItsIsr` says what that means for a program whose calls are `n` deep when the
clock interrupts it. With less than a full stack the ISR it set is entered.
With a stack that is just full, the first interrupt enters it too, but writes its own
return address over the vector, so that the next one jumps back to the HLT; and with one
call more it is the program's own return address that is taken for the ISR.

The assembler depends on the heap in three places, and `WildExplained` and `ReadsAll` hold on
every heap because they say where. On one that does not clear what `realloc` adds, a
program can crash at a reference or with the data; on one that moves the table and
does not keep the old one, at a length taken of another name when the table is full. The list of
included files is followed through a freed head: kept, it leads to every file; cleared, the
list ends there, and of the files that one file includes only the first is read,
without a word; used again, no program that includes a file is assembled.

`CHECK_DEADLOCK` is off where a system may stop: a machine that has halted waits
for an event that need not come, and a process that has ended does nothing.

Bounds. `MaxKeys` (0 to 3) keys are typed: two keys in one event and a third behind them
is all the kqueue can tell apart, and three fill the disk. `MaxScreen` is 8, more than
three echoed line ends need; when the screen is full, output is dropped (the runs with a
smaller bound do not look at the screen). Everything else is finite by itself: time is
not modelled, expirations of a timer are one event until it is read.

The assembler's programs use every kind of name (label, datum, string,
reservation, constant, length, predefined) before and after its definition, and
enough of them that the table of 16 entries is enlarged while it is used. The
image has 64 bytes, and two of the programs with an error exceed it. What the
properties call proper (`WellFormed`, `Proper`) leaves out what the code does not
handle: names defined twice or not at all, a length of something that is not
defined yet, and data that are not initially zero (finding `bytes`). A constant of
value zero is not left out: one that is used before it is defined resolves, everywhere,
to the place of its definition instead of zero (`sasm.c:203`). No text of the repository
says otherwise, so it is no finding; `Number` states it, and two sources have such
constants, one of them the length of an empty string, with uses on both sides.

Client: two entities are enough for an entity that is not the player's and for a tick
that is between two of them; the second one is the engine, the only one with a CPU.
`MaxLines` is 2: `become` followed by `thrust`, `thrust` twice for an old vector under a
new one, `thrust` or `cpu_step` followed by `quit` are pairs. `MaxIp` is 2, one past the
HLT. Disk utility: a table of two entries has a first free one, a second one and none;
four commands fill it, find it full, free it and fill it again, while two of them
overlap. `NAME_LEN` is 2, and names have 0, 1, 2 and 3 bytes: none, the longest that
fits with its zero, one that fills the entry and whose length is 0 in what is left of
it, and a longer one, as 0, 255, 256 and 300 are for the code's 256. An entry has 3
bytes then, and `BLOCK` is 4, so that a block of `cmd_format` ends inside an entry. The
two utilities are interchangeable, which the run uses (`SYMMETRY`); it has no liveness
property.

Fairness. The assembler is one process that nothing stops: `WF(Next)`. The
machine: `WF(run_cpu)`: main calls it in an endless loop. A read that blocks is
not enabled, so no key is assumed. `WF(timer_fires)`: a kernel timer that is set
keeps expiring. Nothing is assumed of the user; `SlowTypingLosesNone` is about users
who wait for the echo, and says so. The client: `WF(main)` and `WF(console)`, two
threads that the system schedules, and `WF(timer_fires)` for each of its two
periodic timers; the line the console's thread waits for (`el_gets`) is the
user's, and need not come. The server: its loop and the timer it would have.
The disk utility has no liveness property: a process can be killed at any time.

### Findings

Seven runs check one statement of the repository each, and TLC refutes it:

- `kbd`: `data/progs/kbd.s:10`, "echo the char". `DUP` moves `sp` past its second
  copy without writing it.
- `kern`: `data/progs/dos/sys/kern.s:62`, "store the entry point". `STORE` is
  dispatched as a one-operand instruction and drops its upper operand.
- `far`: a clock ISR above address 255 is entered at the low byte of its
  address (`cpu.c:551` against the log line before it).
- `late`: a clock ISR that sets the keyboard's overwrites `cpu->ke` under
  `handle_io`, which takes the filter for a keyboard event and blocks.
- `jump`: `tests/io.s:49-50`, "push _loop", "jmp". A label is pushed with eight bytes,
  `jmp` is assembled one byte wide (`sasm.y:319`), and the machine jumps to the high
  byte of the address, which is 0.
- `bytes`: `tests/bytes.s:18-19`, "push b", "load byte". A datum whose initial value is
  not zero is taken for a constant, and its value is pushed instead of its address
  (`sasm.c:305`).
- `sv`: the README's "server_loop()", "update_server(dt)" (`README:89-90`). `sv.c`
  goes from `init_server` straight to the loop; `init_server_kqueue` is called
  from nowhere in it, the loop asks descriptor 0 for events, and the world of the
  server never moves.

What is not listed as a finding: a burst of keys leaves some of them unread until the
next one is typed (edge-triggered filter, one read per event); no text of the repository
promises otherwise, and `SlowTypingLosesNone` says what holds instead.

## 4. Proofs

`CpuTheorems` proves nine theorems, for every program, host, disk image, size of
memory and stacks, number of keys, and size of a qword from 2 to 8:

- `TypeCorrect`: `Spec => []TypeOK`;
- `Discipline`: `Spec => []IrqDiscipline`;
- `OneLevel`: `Spec => ReturnLevel`;
- `Implements`: `Spec => InterruptPromise`, that `Cpu` implements `Interrupts`;
- `HltInIsr`: `Spec => HltIsForEver`;
- `ArithmeticIsModular`: `Spec => ArithmeticWraps`;
- `ReturnStack`: `Spec => ReturnsNest` (of which `ResumesThere` is what the run looks at);
- `InterruptsAreTransparent`: `Spec => ResumesThere`;
- `LoneKeys`: `Spec => LoneKeyNoticed`.

`TypeOK` is inductive: every address an instruction uses is covered by
`Defined`, the condition under which the C code stays inside its arrays, and
`Slice`, `Overwrite`, `LE` and `Num` return blocks of bytes or numbers
(`BytesProofs`). `CpuProofs` has one lemma per instruction; the operand lemma
(`OperandType`) shows that a block below `sp` that `Defined` allows lies in memory.

`IrqDiscipline` is inductive with the types. It says three things that hold only
together: before the first `HLT` there was no interrupt; inside `handle_irq`'s
loop `rp` differs from `ret`; outside it `rp` equals the `ret` of the last
interrupt. The loop's exit condition gives the third from the second, and the
next interrupt, which starts at `rp`, the depth of the last one: `ReturnLevel`
follows in one step. `Implements` uses the discipline to know that whenever the C
program is not in "program" the machine has halted. The mapping: `mode` is
"program" before `HLT`, "idle" in `run_cpu` after it, "serving" elsewhere, "down"
when status is not "ok"; `level` is `ret`; a key is `taken` while `hpc = "kbd"`.

`HltInIsr` needs the discipline too: a HLT leaves `rp` where it is, and only because
`rp # ret` inside the loop does the loop go on. No other step of the machine is enabled
then, and the environment does not touch what `HltIsForEver` names. `ArithmeticIsModular`
goes through the bytes: a handler reads two blocks as numbers, and what it writes,
read as a number again, is the result modulo `RADIX^n`. The lemma behind it is
`NumLE`, that `Num(LE(x, n), n) = x % RADIX^n` for every integer `x`, negative ones
included (that is SUB), and every width up to a qword's. `NumBound`, that a block of n
bytes is less than `RADIX^n`, shows that quotient and remainder come back whole, and
`ReadsBack` that a block written at an address is found there while the rest of the memory
is kept. The two properties of the return stack rest on them too.

`ReturnStack` says how a step uses the return stack: a call or an interrupt puts the
address it came from on top and keeps the frames below (`IsFrame`), a return goes to the
one on top, and only another instruction can change a frame in place. What is pushed is
`ip` written as bytes, and it comes back as the number it was only if it is less than
`RADIX^QWORD`. That is half of the invariant `ReturnAddress`; it holds because an
instruction is fetched from inside `mem`, so `ip + 1` is at most `MEMORY_SZ`, and because
everything else that sets `ip` reads at most a qword. The other half makes
`InterruptsAreTransparent` inductive: while an ISR runs, the frame its interrupt pushed
is a whole number of addresses below `rp`. Then no call of the ISR overlaps it, and the
return that ends the loop is the one that reads it, however deep the ISR calls.
`ResumesThere` names the one way out: an instruction of an ISR that writes over this
frame, which a program can do because nothing keeps the stacks apart.

`LoneKeys` needs no invariant beside the types: it shows of every step that a key that is the
only one unread is read, or that its event still waits in the kqueue, or has been taken off it
by a `handle_io` that goes on to read. The hard cases are the clock's ISR, which runs between the
kevent call and the test for a key and may set the filters again, and `cpu->ke`, which it
overwrites. What is left is the test `handle_io` makes of the vector: of its first
byte, not of the whole address.

`ClientProofs` proves six, for every number of entities, every program of
NOPs and HLTs and every number of lines; each has an invariant of its own beside
the types:

- `TypeCorrect`: `Spec => []TypeOK`;
- `ConsoleOutlives`: `Spec => []ConsoleLives`. `Ending`: the main thread frees the
  console only after `quit`, and once `quit` is set the console's thread is
  between two commands or past its loop. `quit` is set by `cmd_quit`, which goes
  back to the test of the loop, and behind the loop: that is why a join is not
  needed;
- `ComponentsFresh`: `Spec => []NoOldComponent`. `Freshness`: a component of an
  acceleration is that of the last vector, or of the one before while it is
  still to be written (`Numbered`); a tick has used nothing newer (`UsedBefore`); what
  it has used in this tick keeps the order (`InTurn`). The first two bound
  what the next read can return;
- `HltStops`: `Spec => []HltHolds`. `Stepping`: without an overlap one thread is
  inside `step_cpu`, what it has read of `ip` and `ts` is still true, and
  no HLT lies behind `ip`;
- `RacesContained`: `Spec => RaceContained`. `Contained`: two threads that are both inside have
  met (`BothMet`); one that has not sees `ip` where it fetched (`Undisturbed`), because the
  other can change it only from inside; and while `ts` points to a freed block, one of the
  two is about to clear it (`Clearing`), which holds whatever they did before, since `ts`
  goes from set to freed to NULL and never back;
- `OwnThrusts`: `Spec => ThrustsOwn`, by `Own`: what is being written belongs to the player,
  who cannot become somebody else in between.

`DiskUtilProofs` proves all five properties of the utility, for every length of the table
and of names, every number of processes and every set of files:

- `TypeCorrect`: `Spec => []TypeOK`;
- `ListStaysInside`: `Spec => []ListSafe`, by `NamesFit`: while no name fills its entry, the
  last byte of every name on the disk is zero, and so is every one that is written;
- `PutsSpare`: `Spec => PutSpares`, by `Spared`: the place a put has found was free when it read
  it, so it is not among those in use ever since, and no later step adds to these;
- `SurplusWhenFull`: `Spec => SurplusBehind`, and
- `ImplementsTable`: `Spec => TablePromise`, that `DiskUtil` implements `FileTable`.
  Both rest on `Alone`: until two writers overlap or one is killed, there is one
  writer (`OneWriter`), its copy of the table is still what the table is
  (`Searched`), the bytes it has no longer to write are those of its file or zero (`Written`),
  and every entry that is not half written has a file or no length (`Whole`). The mapping:
  `files` lists what `ls` would print, without the entry that is half written. Of an entry that
  is put, the last byte maps to `Put` and all others to stutters; of one that is formatted, the
  first maps to `Remove` and all others to stutters.

`SasmProofs`, `SasmTraceProofs` and `SasmReading` prove six facts about the assembler,
for every source, every heap and every size of image and qword. `RefsStayApart` and
`TypeCorrect` rest on `Parsing`: while the statements are read, the types, `ip` behind
the prologue, and, unless the program has crashed, `Apart`.

- `RefsStayApart`: `Spec => []RefsApart`. `Apart` says of every reference that its cells
  are emitted operand bytes of a push (`InCode`), and of every two that they do not
  overlap. It is inductive because the reference of a push begins at `ip + 1`, where
  nothing has been emitted, and its width is that of the operand, so that all
  later ones begin behind it (`AddedApart`); defining a name leaves the references of
  its entry alone (`Redefined`). A push is recorded before it is emitted, so the
  order fails when the image is full: then the program crashes;
- `TypeCorrect`: `Spec => []TypeOK`. What `write_data` copies is inside the entry it
  copies from, and where it copies to is inside the image. `DataEnd` is a recursive function
  over the table; that it is the sum it says, grows, and puts every byte of the data
  into one area only follows from the least place where it would not (`Minimum`, `Sums`,
  `Increasing`), because the library's induction theorems cannot be used here;
- `CodeCorrect`: `TraceSpec => []CodeInPlace`;
- `DataCorrect`: `TraceSpec => []DataReached`;
- `CrashExplained`: `TraceSpec => []WildExplained`;
- `EverythingRead`: `TraceSpec => []ReadsAll`.

`CodeCorrect`, `DataCorrect` and `CrashExplained` share the invariant `Inv`.
`CodeInPlace` and `DataReached` speak of the finished image only, and nothing of them is
true one step earlier, when the operands of names are still unpatched; so `Inv` says
what each stage leaves to the next:

- while the statements are read (`Parsed`): `Code`, the statements' bytes lie one behind the
  other from `PROLOGUE` to `ip` (`Layout`), except the operands of names; `Unique`, a name
  has one entry, which makes the table a function from names to entries (`Look`), and
  each statement a change of one name's entry (`Sets`, `TableSteps`); `Referenced`, the
  references are exactly the operands of the pushes of names; `NamesRead`, no name comes from nowhere; and, for
  a well-formed program, `Bound`: the entry of a name holds what its definition means,
  nothing while there is none yet (`Plain`), and the address of its slot for a
  predefined one. `Bound` is where the order of definitions and uses
  matters, and where each clause of `WellFormed` is used. A constant of value zero whose
  name is in the table already gets the program's position for an address; `NamesRead` says
  that a name without a definition is there because it was used (`UsedBefore`), and a use
  behind the definition changes nothing (`AfterUse`, `SameMeans`);
- when the data have been written (`Resolved`): `Operands`, each operand holds the value of
  its name; `Numbers`, that value is what the name means; `DataLoaded` and `AreasApart`, the
  bytes of each datum are at its address, and two data share no byte. It follows from
  `Parsed` because patching touches the references' cells only
  (`Apart`) and the data lie behind the code;
- at the end also `Calls`, the prologue, which lies before everything else.

`CrashExplained` follows from `Bound` and one thing more, `Included`: a file that waits was
named by a statement. A length is taken of a name that is in the table, data are
not copied beyond their end (`EntriesFit`), `_main` has an entry if it is defined;
what is left are the four reasons of `Blamed` and, on the heaps that do what the code relies on
them not to do, the three of `ByTheHeap`. `CodeDecoded` and `DataDecoded` go from bytes to what
the machine decodes, with `NumLE` and the opcode's two fields.

`EverythingRead` has the invariant `Followed`, in three parts. `InPlace`: the files begun
cover what has been read without gaps, and what is left of the last one is what is still
to be read. `Copied`: each has been read statement by statement. `Queued`: the files
begun and then those that wait are one queue, and the n-th include has the place n + 1 in
it (`CountIs`, `CountKept`). An include adds to the end of the queue, `yywrap` moves its
front, and parsing ends only with both empty. On a heap that clears what was freed `Chained` takes
the place of `Queued`: each file begun was included first by the one before it (`Leads`), and what
waits is only what the last one includes. On one that uses the block again `yywrap` ends
the process at the first file, so that only one was ever begun.

Assumptions: the constants' (`CpuAssumption`, `DiskAssumption`, `QwordAssumption`,
`EntityAssumption`, `ClientAssumption`, `DiskUtilAssumption`, `SasmAssumption`), which
hold of the code's values (memory ends below `RADIX^QWORD`: 16 MB against 2^64; the
names of files are strings); `PowerAssumption`, that `RADIX^0` is 1 and `RADIX^k` is
`RADIX` times `RADIX^(k - 1)` up to the width of a qword, because the prover has no
theory of exponentiation; and `NameAssumption`, that the predefined names are strings,
because it does not know that of a literal. TLC evaluates them in the runs of the
modules that state them.

Only model-checked, and why:

- what holds of particular programs and images: `EchoInOrder`, `AtRest`,
  `ReadNeverBlocks`, `LogOnDisk`, `FaultsOnlyWhenFull`, `FailureExplained`,
  `EntersItsIsr`, `ImagesAssembled`. The theorems are about every program; of one program, a run
  looks at every step;
- what rests on recursive operators: `ComputesReference` (its reference for AND and OR goes
  bit by bit) and what `Finishes` calls a proper program (it is put together by recursion). Of
  what these say, arithmetic is proved for every operand (`ArithmeticIsModular`), the crashes
  for every source (`CrashExplained`), and so is the order of reading (`EverythingRead`);
- liveness, which the prover does not support: `ClockServed`, `KeyEventServed`,
  `SlowTypingLosesNone`, `Finishes`, `ThrustTakesHold`, `QuitEnds`;
- the findings: a counterexample is all that is needed.

## 5. Not modelled

- Log output, cycle counts, the debug flag; the delay of a timer (an expiration may
  come at any time); `msync`, and with it what a crash of the host leaves
  in the file; `write` failing on the terminal.
- Server: connections. No program sets a host and a port and `connect_server` is called
  from nowhere, so `get_socket`, `accept`, `find_client`, the packets of `net.c` and the client's
  branch for them cannot be reached. What can be reached is modelled.
- World: velocities and positions (numbers nothing decides on), the functions that remove
  or send entities (called from nowhere), and how the world is built, which happens before
  there is a second thread.
- Client: the machine is `ip` and `ts`; what else two threads can break in it when
  both step it is not modelled. A line with an unbalanced quote, which the tokenizer
  refuses and the console then uses all the same, and the history.
- Disk utility: `cmd_create`, which is in no table of commands and writes to
  the terminal only. `status` prints. The contents of files: `put` has none
  ("TODO", `disk.c:129`).
- Assembler: the lexer, and the output file, which is opened before the source is parsed.
- `radar.c` and `thruster.c` are not compiled. Terminal: `connect_tty` and
  `wait_tty_slave` are never called. Unit tests: not modelled; what they assert of single
  handlers is part of `ComputesReference`.

The status of every part is in `PROJECT.json`.

## 6. What could follow

1. What the other instructions leave, as theorems like `ArithmeticIsModular`: that a
   conditional jump is taken exactly on its condition, and what LOAD and STORE move.
2. A machine and a utility on one disk: the machine's writes are not bound to the
   file table, so an abstract specification of the disk would have to say which of its
   blocks belong to whom, which no code does yet.
3. The table of the server's connections, once a program opens a socket.
