------------------------------- MODULE Client -------------------------------
(***************************************************************************)
(* The client of src/cl.c: the main thread runs client_loop of             *)
(* src/lib/client.c, which updates the world and steps its machines on two *)
(* timers, while a second thread runs process_input of                     *)
(* src/lib/ui/console.c.  They share the world, the machine, the console   *)
(* and client->quit, and take no lock.                                     *)
(*                                                                         *)
(* A step is a statement, or a load or store of a word two threads use;    *)
(* src/Makefile builds without optimisation.  Of the machine the model     *)
(* keeps ip and ts, and programs of NOP and HLT: what can go wrong when    *)
(* two threads step one machine, not what its programs do (module Cpu).    *)
(* client->server_conn is never set, so no packet arrives.                 *)
(***************************************************************************)
EXTENDS World, Sequences

CONSTANTS
    Halts,         \* the addresses of the machine's program that hold a HLT
    MaxIp,         \* bound: a machine that ran past its program stops here
    MaxLines       \* bound: how many lines the user types

ASSUME ClientAssumption == MaxIp \in Nat /\ Halts \subseteq 0 .. MaxIp /\ MaxLines \in Nat

VARIABLES
    pc,         \* what each thread does next
    status,     \* "ok", "crash" (the process died) or "ended" (main returned)
    quit,       \* client->quit
    open,       \* the console has not been freed
    events,     \* idents of the timers that have fired, oldest first
    started,    \* server->t is set
    me, ma,     \* the component update_entity comes to next
    lines,      \* how many lines were read
    line,       \* the line being carried out
    entity,     \* client->entity
    target, ca, \* what cmd_thrust writes next: entity and axis
    vector,     \* how many vectors were commanded for each entity
    ip, ts,     \* the machine; ts is "set", "freed" or "NULL"
    reg,        \* each thread's copy of ip between load and store
    overlap,    \* history: the threads have been in step_cpu together
    met,        \* history: the other was there during a thread's instruction
    from        \* history: where each thread fetched its instruction

mainVars    == <<events, started, me, ma>>
consoleVars == <<lines, line, entity, target, ca, vector>>
history     == <<overlap, met, from>>
machine     == <<ip, ts, reg, history>>
shared      == <<quit, open, status>>
vars        == <<pc, shared, mainVars, consoleVars, machine, worldVars>>

Threads  == {"main", "console"}
Idents   == {0, 1}      \* the game's timer, and the machines'
InStep   == {"load", "store", "test", "free", "null"}    \* inside step_cpu
TsStates == {"set", "freed", "NULL"}

\* What the user may type: a name, how many arguments follow it, and the
\* number in the first.  lookup takes any word that begins with a command
\* for the command.  "look" is status, scan or a word lookup does not know,
\* which only print; "cpu_look" is cpu_load, cpu_start, cpu_stop or cpu_reset,
\* which get no further than the entity's CPU.
Lines ==
    [name : {"blank", "look", "cpu_look", "cpu_step", "quit"}, args : {0}, id : {0}]
    \union [name : {"become"}, args : {0, 1}, id : 0 .. EntityCount]
    \union [name : {"thrust"}, args : {2, 3}, id : {0}]

NoLine == [name |-> "look", args |-> 0, id |-> 0]

Goto(t, label) == pc' = [pc EXCEPT ![t] = label]
At(t, label)   == status = "ok" /\ pc[t] = label
Crash == status' = "crash" /\ UNCHANGED <<quit, open>>

----------------------------------------------------------------------------
(* step_cpu, on either thread *)

fetch(t) ==
    /\ At(t, "fetch")
    /\ Goto(t, IF ip \in Halts THEN "test" ELSE "load")
    /\ from' = [from EXCEPT ![t] = ip]
    /\ IF \E u \in Threads \ {t} : pc[u] \in InStep
       THEN overlap' = TRUE /\ met' = [u \in Threads |-> TRUE]
       ELSE UNCHANGED <<overlap, met>>
    /\ UNCHANGED <<ip, ts, reg>>

\* The instruction is over, and its history forgotten.
Over(t) ==
    /\ Goto(t, "loop")
    /\ met' = [met EXCEPT ![t] = FALSE] /\ from' = [from EXCEPT ![t] = 0]
    /\ UNCHANGED overlap

\* handle_nop: cpu->ip++.
handle_nop(t) ==
    \/ /\ At(t, "load")
       /\ reg' = [reg EXCEPT ![t] = ip]
       /\ Goto(t, "store")
       /\ UNCHANGED <<ip, ts, history>>
    \/ /\ At(t, "store")
       /\ ip' = IF reg[t] < MaxIp THEN reg[t] + 1 ELSE MaxIp
       /\ reg' = [reg EXCEPT ![t] = 0]
       /\ Over(t)
       /\ UNCHANGED ts

\* A fault: the pointer is left as it is.
handle_hlt_KeepsTs(t) ==
    /\ \/ /\ At(t, "test")
          /\ Goto(t, IF ts = "NULL" THEN "null" ELSE "free")
          /\ UNCHANGED <<ts, history>>
       \/ /\ At(t, "free") /\ ts # "freed"
          /\ Goto(t, "null")
          /\ ts' = IF ts = "set" THEN "freed" ELSE ts
          /\ UNCHANGED history
       \/ At(t, "null") /\ Over(t) /\ UNCHANGED ts
    /\ UNCHANGED <<ip, reg>>

handle_hlt(t) ==
    /\ \/ /\ At(t, "test")
          /\ Goto(t, IF ts = "NULL" THEN "null" ELSE "free")
          /\ UNCHANGED <<ts, history>>
       \/ /\ At(t, "free") /\ ts # "freed"
          /\ Goto(t, "null")
          /\ ts' = IF ts = "set" THEN "freed" ELSE ts
          /\ UNCHANGED history
       \/ At(t, "null") /\ Over(t) /\ ts' = "NULL"
    /\ UNCHANGED <<ip, reg>>

step_cpu(t) ==
    /\ fetch(t) \/ handle_nop(t) \/ handle_hlt(t)
    /\ UNCHANGED <<shared, mainVars, consoleVars, worldVars>>

\* The block that ts points to is freed a second time.
double_free(t) ==
    /\ At(t, "free") /\ ts = "freed"
    /\ Crash
    /\ UNCHANGED <<pc, mainVars, consoleVars, machine, worldVars>>

----------------------------------------------------------------------------
(* The main thread *)

client_loop ==
    /\ At("main", "loop")
    /\ Goto("main", IF quit THEN "shutdown" ELSE "kevent")
    /\ UNCHANGED <<shared, mainVars>>

\* A fault: server->t is not set.
update_server_NotSet ==
    /\ Goto("main", IF started THEN "update" ELSE "loop")
    /\ UNCHANGED <<started, me, ma>>

\* The first update only sets server->t.
update_server ==
    /\ Goto("main", IF started THEN "update" ELSE "loop")
    /\ started' = TRUE /\ me' = 0 /\ ma' = 1

\* Entities without a CPU are passed over.
update_cpus == Goto("main", "fetch") /\ UNCHANGED <<started, me, ma>>

handle_client_events ==
    /\ At("main", "kevent") /\ events # <<>>
    /\ events' = Tail(events)
    /\ IF Head(events) = 0 THEN update_server ELSE update_cpus
    /\ UNCHANGED shared

\* A fault: the loop goes one entity too far.
update_entity_OneMore ==
    /\ At("main", "update")
    /\ update_axis(me, ma)
    /\ IF ma < 3
       THEN ma' = ma + 1 /\ UNCHANGED <<pc, me>>
       ELSE /\ ma' = 1
            /\ IF me <= EntityCount - 1
               THEN me' = me + 1 /\ UNCHANGED pc
               ELSE me' = 0 /\ Goto("main", "loop")
    /\ UNCHANGED <<shared, events, started>>

update_entity ==
    /\ At("main", "update")
    /\ update_axis(me, ma)
    /\ IF ma < 3
       THEN ma' = ma + 1 /\ UNCHANGED <<pc, me>>
       ELSE /\ ma' = 1
            /\ IF me < EntityCount - 1
               THEN me' = me + 1 /\ UNCHANGED pc
               ELSE me' = 0 /\ Goto("main", "loop")
    /\ UNCHANGED <<shared, events, started>>

shutdown_console ==
    /\ At("main", "shutdown")
    /\ open' = FALSE
    /\ Goto("main", "return")
    /\ UNCHANGED <<quit, status, mainVars>>

\* main returns, and the process ends whatever the console's thread does.
exit ==
    /\ At("main", "return")
    /\ status' = "ended"
    /\ UNCHANGED <<pc, quit, open, mainVars>>

main ==
    \/ /\ client_loop \/ handle_client_events \/ shutdown_console \/ exit
       /\ UNCHANGED <<consoleVars, machine, worldVars>>
    \/ update_entity /\ UNCHANGED <<consoleVars, machine>>
    \/ step_cpu("main") \/ double_free("main")

----------------------------------------------------------------------------
(* The console's thread *)

\* A fault: the loop does not look at client->quit.
process_input_NoTest ==
    /\ At("console", "loop")
    /\ Goto("console", "gets")
    /\ UNCHANGED <<shared, consoleVars>>

process_input ==
    /\ At("console", "loop")
    /\ Goto("console", IF quit THEN "leave" ELSE "gets")
    /\ UNCHANGED <<shared, consoleVars>>

\* The user types a line, or closes the input.
el_gets ==
    /\ At("console", "gets")
    /\ \/ /\ lines < MaxLines
          /\ line' \in Lines
          /\ lines' = lines + 1
          /\ Goto("console", "command")
       \/ Goto("console", "leave") /\ UNCHANGED <<lines, line>>
    /\ UNCHANGED <<shared, entity, target, ca, vector>>

\* A fault: the end of the input is not a reason to quit.
leave_NoQuit ==
    /\ At("console", "leave")
    /\ Goto("console", "done")
    /\ UNCHANGED <<shared, consoleVars>>

\* client->quit = true after the loop, and the thread is done.
leave ==
    /\ At("console", "leave")
    /\ quit' = TRUE
    /\ Goto("console", "done")
    /\ UNCHANGED <<open, status, consoleVars>>

\* argv[0] of a blank line is NULL, and so is an argument that was not given;
\* client->entity is NULL after a become that found nothing, and only the
\* engine has a CPU.
Crashes ==
    \/ line.name = "blank"
    \/ line.name = "become" /\ line.args = 0
    \/ line.name = "thrust" /\ line.args < 3
    \/ line.name \in {"cpu_look", "cpu_step"} /\ entity = NULL
    \/ line.name = "cpu_step" /\ entity # Engine

\* A command is carried out from here on; its line is forgotten.
Carry(name) ==
    /\ At("console", "command") /\ line.name = name /\ ~Crashes
    /\ line' = NoLine

crash ==
    /\ At("console", "command") /\ Crashes
    /\ Crash
    /\ UNCHANGED <<pc, consoleVars>>

no_effect ==
    /\ Carry("look") \/ Carry("cpu_look")
    /\ Goto("console", "loop")
    /\ UNCHANGED <<shared, lines, entity, target, ca, vector>>

cmd_quit ==
    /\ Carry("quit")
    /\ quit' = TRUE
    /\ Goto("console", "loop")
    /\ UNCHANGED <<open, status, lines, entity, target, ca, vector>>

cmd_become ==
    /\ Carry("become")
    /\ entity' = find_entity(line.id)
    /\ Goto("console", "loop")
    /\ UNCHANGED <<shared, lines, target, ca, vector>>

cmd_cpu_step ==
    /\ Carry("cpu_step")
    /\ Goto("console", "fetch")
    /\ UNCHANGED <<shared, lines, entity, target, ca, vector>>

\* The ids cmd_thrust may look up: without an entity its local is
\* uninitialised.  A fault: it always is.
Wanted_Unset == 0 .. EntityCount
Wanted == IF entity # NULL THEN {entity} ELSE 0 .. EntityCount

cmd_thrust ==
    /\ Carry("thrust")
    /\ \E id \in Wanted : target' = find_entity(id)
    /\ ca' = 1
    /\ IF target' = NULL
       THEN Goto("console", "loop") /\ UNCHANGED vector
       ELSE Goto("console", "thrust") /\ vector' = [vector EXCEPT ![target'] = @ + 1]
    /\ UNCHANGED <<shared, lines, entity>>

\* entity->acc->x = dax, and so on.
thrust_axis ==
    /\ At("console", "thrust")
    /\ set_acc(target, ca, vector[target])
    /\ IF ca < 3
       THEN ca' = ca + 1 /\ UNCHANGED <<pc, target>>
       ELSE ca' = 1 /\ target' = NULL /\ Goto("console", "loop")
    /\ UNCHANGED <<shared, lines, line, entity, vector>>

console ==
    \/ /\ process_input \/ leave \/ crash \/ no_effect \/ cmd_quit \/ cmd_become
          \/ cmd_cpu_step \/ cmd_thrust
       /\ UNCHANGED <<mainVars, machine, worldVars>>
    \/ thrust_axis /\ UNCHANGED <<mainVars, machine>>
    \/ step_cpu("console") \/ double_free("console")

user == el_gets /\ UNCHANGED <<mainVars, machine, worldVars>>

----------------------------------------------------------------------------
(* The environment and the specification *)

\* A timer that has fired stays in the queue once until it is read.
timer_fires(i) ==
    /\ status = "ok"
    /\ \A k \in 1 .. Len(events) : events[k] # i
    /\ events' = Append(events, i)
    /\ UNCHANGED <<pc, shared, started, me, ma, consoleVars, machine, worldVars>>

\* cl.c up to the start of the threads: the player is the engine.
Init ==
    /\ pc = [t \in Threads |-> "loop"]
    /\ status = "ok" /\ quit = FALSE /\ open = TRUE
    /\ events = <<>> /\ started = FALSE /\ me = 0 /\ ma = 1
    /\ lines = 0 /\ line = NoLine
    /\ entity = find_entity(Engine) /\ target = NULL /\ ca = 1
    /\ vector = [e \in Entities |-> 0]
    /\ ip = 0 /\ ts = "set" /\ reg = [t \in Threads |-> 0] /\ overlap = FALSE
    /\ met = [t \in Threads |-> FALSE] /\ from = [t \in Threads |-> 0]
    /\ init_default_world

Next == main \/ console \/ user \/ \E i \in Idents : timer_fires(i)

Spec == Init /\ [][Next]_vars

\* Both threads are scheduled and both timers are periodic; the user may stop
\* typing for good.
Fairness ==
    /\ WF_vars(main) /\ WF_vars(console)
    /\ \A i \in Idents : WF_vars(timer_fires(i))

FairSpec == Spec /\ Fairness

----------------------------------------------------------------------------
(* Properties *)

MainPcs    == {"loop", "kevent", "update", "shutdown", "return", "fetch"} \union InStep
ConsolePcs == {"loop", "gets", "command", "thrust", "leave", "done", "fetch"} \union InStep

\* Both threads are at a statement of their own, and what they share has its
\* type.
TypeOK ==
    /\ WorldTypeOK
    /\ pc \in [Threads -> MainPcs \union ConsolePcs]
    /\ pc["main"] \in MainPcs /\ pc["console"] \in ConsolePcs
    /\ status \in {"ok", "crash", "ended"} /\ quit \in BOOLEAN /\ open \in BOOLEAN
    /\ events \in Seq(Idents) /\ started \in BOOLEAN
    /\ me \in Entities /\ ma \in Axes
    /\ lines \in 0 .. MaxLines /\ line \in Lines
    /\ entity \in 0 .. EntityCount /\ target \in 0 .. EntityCount /\ ca \in Axes
    /\ vector \in [Entities -> Nat]
    /\ ip \in 0 .. MaxIp /\ ts \in TsStates /\ reg \in [Threads -> 0 .. MaxIp]
    /\ overlap \in BOOLEAN /\ met \in [Threads -> BOOLEAN] /\ from \in [Threads -> 0 .. MaxIp]

\* The console's thread uses the console (el_gets, the history, the
\* tokenizer, and the commands' way to the world) only while it is there:
\* the main thread frees it after the other has seen the end (cl.c:56-57).
UsesConsole  == pc["console"] \in {"gets", "command"}
ConsoleLives == status = "ok" /\ UsesConsole => open

\* A tick that uses the x of one vector uses the y and z of a later one, of
\* the same or of the one commanded just before, however the writes of
\* cmd_thrust and the reads of update_entity interleave.
Ticked(e) == pc["main"] # "update" \/ me # e \/ ma = 1
NoOldComponent ==
    \A e \in Entities : Ticked(e) =>
        \A a, b \in Axes : a < b => applied[e][b] + 1 >= applied[e][a]

\* The machine passes no HLT, and its ts is freed once, as long as the two
\* threads have not stepped it at the same time (client.c:140, console.c:238).
HltHolds ==
    ~overlap =>
        /\ \A h \in Halts : ip <= h
        /\ ts = "NULL" => ip \in Halts
        /\ \A t \in Threads : ~(pc[t] = "free" /\ ts = "freed")

\* However often both threads step the machine at the same time, what goes wrong
\* stays with the instructions that met: one that had the machine to itself takes
\* ip from where it was fetched to the next, or leaves a HLT where it is and ts
\* NULL, and ts is freed twice only while the other thread is between its own
\* free and the assignment behind it (console.c:238, cpu.c:196-198).
Ends(t) == pc[t] \in InStep /\ pc'[t] \notin InStep
RaceContained ==
    [][\A t \in Threads :
        /\ double_free(t) => \E u \in Threads \ {t} : pc[u] = "null"
        /\ Ends(t) /\ ~met[t] =>
            IF from[t] \in Halts
            THEN ip' = from[t] /\ ts' = "NULL"
            ELSE ip' = (IF from[t] < MaxIp THEN from[t] + 1 ELSE MaxIp) /\ ts' = ts]_vars

\* cmd_thrust moves the player's own entity, unless a become that found
\* nothing has left the player without one.
ThrustsOwn ==
    [][\A e \in Entities : acc'[e] # acc[e] => entity \in {e, NULL}]_vars

\* A vector is used by a tick soon after cmd_thrust has written it, although
\* both timers share one queue and one thread, unless the client comes to an
\* end.  (Or a later vector is.)
ThrustTakesHold ==
    \A e \in Entities, n \in 1 .. MaxLines :
        (\A a \in Axes : acc[e][a] >= n)
            ~> (quit \/ status # "ok" \/ \A a \in Axes : applied[e][a] >= n)

\* The client ends when the user quits or the input does.
QuitEnds == pc["console"] = "leave" \/ line.name = "quit" ~> status # "ok"

=============================================================================
