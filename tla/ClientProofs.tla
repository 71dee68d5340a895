---------------------------- MODULE ClientProofs ----------------------------
(***************************************************************************)
(* Theorems about the client's two threads, for every number of entities,  *)
(* every program of the machine and every number of lines.                 *)
(***************************************************************************)
EXTENDS Client, TLAPS

USE EntityAssumption, ClientAssumption DEF EntityAssumption, ClientAssumption

\* Where the values of the world's axes and threads come from.
LEMMA Types ==
    /\ Axes = {1, 2, 3}
    /\ 0 \in Entities /\ Engine \in Entities /\ Engine \in 0 .. EntityCount
    /\ \A e \in Entities : e \in 0 .. EntityCount /\ e # NULL
    /\ \A e \in Entities : e < EntityCount - 1 => e + 1 \in Entities
    /\ NULL \in 0 .. EntityCount
BY DEF Axes, Entities, Engine, NULL

LEMMA LinesType ==
    /\ NoLine \in Lines
    /\ \A l \in Lines : l.id \in 0 .. EntityCount
BY DEF NoLine, Lines

LEMMA FindType == \A id \in 0 .. EntityCount : find_entity(id) \in 0 .. EntityCount
BY DEF find_entity, NULL, Entities

----------------------------------------------------------------------------
(* Type correctness *)

LEMMA InitType == Init => TypeOK
<1>. SUFFICES ASSUME Init PROVE TypeOK
  OBVIOUS
<1>1. WorldTypeOK
  BY DEF Init, init_default_world, WorldTypeOK
<1>2. events \in Seq(Idents)
  BY DEF Init
<1>3. /\ pc \in [Threads -> MainPcs \union ConsolePcs]
      /\ pc["main"] \in MainPcs /\ pc["console"] \in ConsolePcs
  BY DEF Init, Threads, MainPcs, ConsolePcs
<1>4. /\ status \in {"ok", "crash", "ended"} /\ quit \in BOOLEAN /\ open \in BOOLEAN
      /\ started \in BOOLEAN /\ overlap \in BOOLEAN
  BY DEF Init
<1>7. met \in [Threads -> BOOLEAN] /\ from \in [Threads -> 0 .. MaxIp]
  BY Types DEF Init
<1>6. /\ me \in Entities /\ ma \in Axes /\ ca \in Axes
      /\ lines \in 0 .. MaxLines /\ line \in Lines
      /\ ip \in 0 .. MaxIp /\ ts \in TsStates
      /\ vector \in [Entities -> Nat] /\ reg \in [Threads -> 0 .. MaxIp]
  BY Types, LinesType DEF Init, TsStates
<1>5. entity \in 0 .. EntityCount /\ target \in 0 .. EntityCount
  BY Types, FindType DEF Init
<1>. QED
  BY <1>1, <1>2, <1>3, <1>4, <1>5, <1>6, <1>7, Zenon DEF TypeOK

LEMMA StepType ==
    ASSUME TypeOK, NEW t \in Threads, step_cpu(t)
    PROVE  TypeOK'
<1>1. UNCHANGED <<shared, mainVars, consoleVars, worldVars>>
  BY DEF step_cpu
<1>2. WorldTypeOK'
  BY <1>1 DEF TypeOK, WorldTypeOK, worldVars
<1>3. /\ pc' \in [Threads -> MainPcs \union ConsolePcs]
      /\ pc'["main"] \in MainPcs /\ pc'["console"] \in ConsolePcs
  BY DEF step_cpu, fetch, handle_nop, handle_hlt, Over, Goto, TypeOK, Threads, MainPcs,
         ConsolePcs, InStep
<1>4. /\ ip' \in 0 .. MaxIp /\ reg' \in [Threads -> 0 .. MaxIp]
      /\ ts' \in TsStates /\ overlap' \in BOOLEAN
      /\ met' \in [Threads -> BOOLEAN] /\ from' \in [Threads -> 0 .. MaxIp]
  <2>1. /\ ip \in 0 .. MaxIp /\ reg \in [Threads -> 0 .. MaxIp] /\ ts \in TsStates
        /\ overlap \in BOOLEAN /\ met \in [Threads -> BOOLEAN]
        /\ from \in [Threads -> 0 .. MaxIp]
    BY DEF TypeOK
  <2>2. CASE fetch(t)
    BY <2>1, <2>2 DEF fetch
  <2>3. CASE handle_nop(t)
    <3>1. reg[t] < MaxIp => reg[t] + 1 \in 0 .. MaxIp
      BY <2>1
    <3>2. /\ ip' \in 0 .. MaxIp /\ reg' \in [Threads -> 0 .. MaxIp] /\ ts' = ts
      BY <2>1, <2>3, <3>1 DEF handle_nop
    <3>. QED
      BY <2>1, <2>3, <3>2, Types DEF handle_nop, Over, history
  <2>4. CASE handle_hlt(t)
    <3>1. /\ ip' \in 0 .. MaxIp /\ reg' \in [Threads -> 0 .. MaxIp] /\ ts' \in TsStates
      BY <2>1, <2>4 DEF handle_hlt, TsStates
    <3>. QED
      <4>1. CASE UNCHANGED history
        BY <2>1, <3>1, <4>1 DEF history
      <4>2. CASE Over(t)
        BY <2>1, <3>1, <4>2 DEF Over
      <4>. QED  BY <2>4, <4>1, <4>2, Zenon DEF handle_hlt
  <2>. QED
    BY <2>2, <2>3, <2>4 DEF step_cpu
<1>5. /\ UNCHANGED status /\ UNCHANGED quit /\ UNCHANGED open /\ UNCHANGED events
      /\ UNCHANGED started /\ UNCHANGED me /\ UNCHANGED ma /\ UNCHANGED lines
      /\ UNCHANGED line /\ UNCHANGED entity /\ UNCHANGED target /\ UNCHANGED ca
      /\ UNCHANGED vector
  BY <1>1 DEF shared, mainVars, consoleVars
<1>6. /\ status' \in {"ok", "crash", "ended"} /\ quit' \in BOOLEAN /\ open' \in BOOLEAN
      /\ started' \in BOOLEAN
  BY <1>5 DEF TypeOK
<1>7. /\ events' \in Seq(Idents) /\ me' \in Entities /\ ma' \in Axes
      /\ lines' \in 0 .. MaxLines /\ line' \in Lines
      /\ entity' \in 0 .. EntityCount /\ target' \in 0 .. EntityCount /\ ca' \in Axes
      /\ vector' \in [Entities -> Nat]
  BY <1>5 DEF TypeOK
<1>. QED
  BY <1>2, <1>3, <1>4, <1>6, <1>7, Zenon DEF TypeOK

LEMMA FreeType ==
    ASSUME TypeOK, NEW t \in Threads, double_free(t)
    PROVE  TypeOK'
BY DEF double_free, Crash, TypeOK, WorldTypeOK, worldVars, mainVars, consoleVars, machine, history

LEMMA MainType == ASSUME TypeOK, main PROVE TypeOK'
<1>1. CASE client_loop /\ UNCHANGED <<consoleVars, machine, worldVars>>
  BY <1>1 DEF client_loop, Goto, TypeOK, WorldTypeOK, Threads, MainPcs, ConsolePcs,
              shared, mainVars, consoleVars, machine, history, worldVars
<1>2. CASE handle_client_events /\ UNCHANGED <<consoleVars, machine, worldVars>>
  <2>1. events' \in Seq(Idents)
    BY <1>2 DEF handle_client_events, TypeOK
  <2>2. /\ started' \in BOOLEAN /\ me' \in Entities /\ ma' \in Axes
        /\ pc' \in [Threads -> MainPcs \union ConsolePcs]
        /\ pc'["main"] \in MainPcs /\ pc'["console"] \in ConsolePcs
    BY <1>2, Types DEF handle_client_events, update_server, update_cpus, Goto, TypeOK,
                       Threads, MainPcs, ConsolePcs
  <2>. QED
    BY <1>2, <2>1, <2>2 DEF handle_client_events, TypeOK, WorldTypeOK,
                            shared, consoleVars, machine, history, worldVars
<1>3. CASE shutdown_console /\ UNCHANGED <<consoleVars, machine, worldVars>>
  BY <1>3 DEF shutdown_console, Goto, TypeOK, WorldTypeOK, Threads, MainPcs, ConsolePcs,
              mainVars, consoleVars, machine, history, worldVars
<1>4. CASE exit /\ UNCHANGED <<consoleVars, machine, worldVars>>
  BY <1>4 DEF exit, TypeOK, WorldTypeOK, mainVars, consoleVars, machine, history, worldVars
<1>5. CASE update_entity /\ UNCHANGED <<consoleVars, machine>>
  <2>1. WorldTypeOK'
    BY <1>5 DEF update_entity, update_axis, TypeOK, WorldTypeOK
  <2>2. me' \in Entities /\ ma' \in Axes
    BY <1>5, Types DEF update_entity, TypeOK
  <2>3. /\ pc' \in [Threads -> MainPcs \union ConsolePcs]
        /\ pc'["main"] \in MainPcs /\ pc'["console"] \in ConsolePcs
    BY <1>5 DEF update_entity, Goto, TypeOK, Threads, MainPcs, ConsolePcs
  <2>. QED
    BY <1>5, <2>1, <2>2, <2>3 DEF update_entity, TypeOK, shared, consoleVars, machine, history
<1>6. CASE step_cpu("main") \/ double_free("main")
  BY <1>6, StepType, FreeType DEF Threads
<1>. QED
  BY <1>1, <1>2, <1>3, <1>4, <1>5, <1>6 DEF main

LEMMA ConsoleType == ASSUME TypeOK, console \/ user PROVE TypeOK'
<1>. DEFINE PcType == /\ pc' \in [Threads -> MainPcs \union ConsolePcs]
                      /\ pc'["main"] \in MainPcs /\ pc'["console"] \in ConsolePcs
            Else == UNCHANGED <<mainVars, machine, worldVars>>
<1>1. ASSUME process_input \/ leave \/ crash \/ no_effect \/ cmd_quit \/ cmd_cpu_step, Else
      PROVE  TypeOK'
  <2>1. PcType
    BY <1>1 DEF process_input, leave, crash, no_effect, cmd_quit, cmd_cpu_step, Goto,
                TypeOK, Threads, MainPcs, ConsolePcs
  <2>2. status' \in {"ok", "crash", "ended"} /\ quit' \in BOOLEAN /\ open' \in BOOLEAN
    BY <1>1 DEF process_input, leave, crash, no_effect, cmd_quit, cmd_cpu_step, Crash,
                TypeOK, shared
  <2>3. line' \in Lines /\ UNCHANGED <<lines, entity, target, ca, vector>>
    BY <1>1, LinesType
    DEF process_input, leave, crash, no_effect, cmd_quit, cmd_cpu_step, Carry, TypeOK,
        consoleVars
  <2>. QED
    BY <1>1, <2>1, <2>2, <2>3 DEF TypeOK, WorldTypeOK, mainVars, machine, history, worldVars
<1>2. ASSUME cmd_become, Else PROVE TypeOK'
  <2>1. entity' \in 0 .. EntityCount /\ line' \in Lines
    BY <1>2, FindType, LinesType DEF cmd_become, Carry, TypeOK
  <2>2. PcType
    BY <1>2 DEF cmd_become, Goto, TypeOK, Threads, MainPcs, ConsolePcs
  <2>. QED
    BY <1>2, <2>1, <2>2 DEF cmd_become, TypeOK, WorldTypeOK, shared, mainVars, machine, history,
                            worldVars
<1>3. ASSUME cmd_thrust, Else PROVE TypeOK'
  <2>1. target' \in 0 .. EntityCount
    <3>1. Wanted \subseteq 0 .. EntityCount
      BY DEF Wanted, TypeOK
    <3>. QED  BY <1>3, <3>1, FindType DEF cmd_thrust
  <2>2. line' \in Lines /\ ca' \in Axes
    BY <1>3, LinesType, Types DEF cmd_thrust, Carry
  <2>3. vector' \in [Entities -> Nat]
    <3>1. target' # NULL => target' \in Entities
      BY <2>1 DEF NULL, Entities
    <3>2. vector \in [Entities -> Nat]
      BY DEF TypeOK
    <3>3. vector' = vector \/ vector' = [vector EXCEPT ![target'] = vector[target'] + 1]
      BY <1>3 DEF cmd_thrust
    <3>. QED  BY <3>1, <3>2, <3>3
  <2>4. PcType
    BY <1>3 DEF cmd_thrust, Goto, TypeOK, Threads, MainPcs, ConsolePcs
  <2>5. lines' = lines /\ entity' = entity /\ UNCHANGED shared
    BY <1>3 DEF cmd_thrust
  <2>. QED
    BY <1>3, <2>1, <2>2, <2>3, <2>4, <2>5, Zenon DEF TypeOK, WorldTypeOK, shared, mainVars,
                                  machine, history, worldVars
<1>4. ASSUME thrust_axis, UNCHANGED <<mainVars, machine>> PROVE TypeOK'
  <2>1. target' \in 0 .. EntityCount /\ ca' \in Axes
    BY <1>4, Types, SMTT(30) DEF thrust_axis, TypeOK
  <2>2. PcType
    BY <1>4 DEF thrust_axis, Goto, TypeOK, Threads, MainPcs, ConsolePcs
  <2>3. WorldTypeOK'
    BY <1>4 DEF thrust_axis, set_acc, TypeOK, WorldTypeOK
  <2>. QED
    BY <1>4, <2>1, <2>2, <2>3 DEF thrust_axis, TypeOK, shared, mainVars, machine, history
<1>5. CASE step_cpu("console") \/ double_free("console")
  BY <1>5, StepType, FreeType DEF Threads
<1>6. CASE user
  <2>1. PcType
    BY <1>6 DEF user, el_gets, Goto, TypeOK, Threads, MainPcs, ConsolePcs
  <2>2. lines' \in 0 .. MaxLines /\ line' \in Lines
    BY <1>6 DEF user, el_gets, TypeOK
  <2>. QED
    BY <1>6, <2>1, <2>2 DEF user, el_gets, TypeOK, WorldTypeOK, shared, mainVars,
                            machine, history, worldVars
<1>. QED
  BY <1>1, <1>2, <1>3, <1>4, <1>5, <1>6 DEF console

LEMMA TimerType == ASSUME TypeOK, NEW i \in Idents, timer_fires(i) PROVE TypeOK'
<1>1. events' \in Seq(Idents)
  BY DEF timer_fires, TypeOK
<1>. QED
  BY <1>1 DEF timer_fires, TypeOK, WorldTypeOK, shared, consoleVars, machine, history, worldVars

\* Every variable of the client keeps its type.
THEOREM TypeCorrect == Spec => []TypeOK
<1>1. Init => TypeOK
  BY InitType
<1>2. TypeOK /\ [Next]_vars => TypeOK'
  <2>. SUFFICES ASSUME TypeOK, [Next]_vars PROVE TypeOK'
    OBVIOUS
  <2>1. CASE main
    BY <2>1, MainType
  <2>2. CASE console \/ user
    BY <2>2, ConsoleType
  <2>3. CASE \E i \in Idents : timer_fires(i)
    BY <2>3, TimerType
  <2>4. CASE UNCHANGED vars
    BY <2>4 DEF vars, TypeOK, WorldTypeOK, shared, mainVars, consoleVars, machine, history, worldVars
  <2>. QED
    BY <2>1, <2>2, <2>3, <2>4 DEF Next
<1>. QED
  BY <1>1, <1>2, PTL DEF Spec

----------------------------------------------------------------------------
(* The console is there as long as it is used *)

\* The main thread is past its loop only after quit was set, and the console's
\* thread sets it when it has used the console for the last time.
Ending ==
    /\ open \/ pc["main"] = "return"
    /\ pc["main"] \in {"shutdown", "return"} => quit
    /\ quit => pc["console"] \in {"loop", "leave", "done"}

LEMMA EndingStep == ASSUME TypeOK, Ending, [Next]_vars PROVE Ending'
<1>. USE DEF Ending, TypeOK, Threads, Goto, At
<1>1. CASE main
  <2>1. CASE client_loop
    BY <2>1 DEF client_loop, shared
  <2>2. CASE handle_client_events
    BY <2>2 DEF handle_client_events, update_server, update_cpus, shared
  <2>3. CASE shutdown_console \/ exit
    BY <2>3 DEF shutdown_console, exit
  <2>4. CASE update_entity
    BY <2>4 DEF update_entity, shared
  <2>5. CASE step_cpu("main") \/ double_free("main")
    BY <2>5 DEF step_cpu, double_free, fetch, handle_nop, handle_hlt, Over, Crash, shared
  <2>. QED  BY <1>1, <2>1, <2>2, <2>3, <2>4, <2>5 DEF main
<1>2. CASE console
  <2>1. CASE process_input \/ leave
    BY <2>1 DEF process_input, leave, shared
  <2>2. CASE crash \/ no_effect \/ cmd_quit \/ cmd_become \/ cmd_cpu_step
    BY <2>2 DEF crash, no_effect, cmd_quit, cmd_become, cmd_cpu_step, Carry, Crash, shared
  <2>3. CASE cmd_thrust \/ thrust_axis
    BY <2>3 DEF cmd_thrust, thrust_axis, Carry, shared
  <2>4. CASE step_cpu("console") \/ double_free("console")
    BY <2>4 DEF step_cpu, double_free, fetch, handle_nop, handle_hlt, Over, Crash, shared
  <2>. QED  BY <1>2, <2>1, <2>2, <2>3, <2>4 DEF console
<1>3. CASE user
  BY <1>3 DEF user, el_gets, shared
<1>4. CASE \E i \in Idents : timer_fires(i)
  BY <1>4 DEF timer_fires, shared
<1>5. CASE UNCHANGED vars
  BY <1>5 DEF vars, shared
<1>. QED
  BY <1>1, <1>2, <1>3, <1>4, <1>5 DEF Next

\* The console's thread never uses a console that was freed (cl.c:52-57).
THEOREM ConsoleOutlives == Spec => []ConsoleLives
<1>1. Init => Ending
  BY DEF Init, Ending, Threads
<1>2. TypeOK /\ Ending /\ [Next]_vars => Ending'
  BY EndingStep
<1>3. Ending => ConsoleLives
  BY DEF Ending, ConsoleLives, UsesConsole
<1>. QED
  BY <1>1, <1>2, <1>3, TypeCorrect, PTL DEF Spec

----------------------------------------------------------------------------
(* Ticks and thrusts *)

Thrusting(e, a) == pc["console"] = "thrust" /\ target = e /\ a >= ca

\* A component is of the last vector commanded, or of the one before if it is
\* still to be written.  What a tick has used is no newer than the last, and
\* the components it has used already keep to NoOldComponent.
Numbered == \A e \in Entities, a \in Axes :
    acc[e][a] + (IF Thrusting(e, a) THEN 1 ELSE 0) = vector[e]
UsedBefore == \A e \in Entities, a \in Axes : applied[e][a] <= vector[e]
InTurn == \A e \in Entities : \A a, b \in Axes : a < b =>
    \/ pc["main"] = "update" /\ me = e /\ ma > 1 /\ b >= ma
    \/ applied[e][b] + 1 >= applied[e][a]
Freshness == Numbered /\ UsedBefore /\ InTurn

LEMMA ValuesType ==
    ASSUME TypeOK
    PROVE  /\ \A e \in Entities, a \in Axes : acc[e][a] \in Nat /\ applied[e][a] \in Nat
           /\ \A e \in Entities : vector[e] \in Nat
           /\ ma \in {1, 2, 3} /\ ca \in {1, 2, 3}
<1>1. /\ acc \in [Entities -> [Axes -> Nat]] /\ applied \in [Entities -> [Axes -> Nat]]
      /\ vector \in [Entities -> Nat] /\ ma \in Axes /\ ca \in Axes
  BY DEF TypeOK, WorldTypeOK
<1>. QED  BY <1>1, Types

\* Steps that leave both threads where they were as far as Freshness goes.
LEMMA FreshElsewhere ==
    ASSUME TypeOK, Freshness, UNCHANGED <<acc, applied, vector>>,
           (pc["console"] # "thrust" /\ pc'["console"] # "thrust")
             \/ UNCHANGED <<pc["console"], target, ca>>,
           pc["main"] # "update"
             \/ (pc'["main"] = pc["main"] /\ UNCHANGED <<me, ma>>),
           pc'["main"] # "update" \/ pc["main"] = "update" \/ ma' = 1
    PROVE  Freshness'
<1>1. Numbered'
  BY DEF Freshness, Numbered, Thrusting
<1>2. UsedBefore'
  BY DEF Freshness, UsedBefore
<1>3. InTurn'
  BY DEF Freshness, InTurn
<1>. QED
  BY <1>1, <1>2, <1>3 DEF Freshness

LEMMA FreshTick ==
    ASSUME TypeOK, Freshness, update_entity, UNCHANGED <<consoleVars, machine>>
    PROVE  Freshness'
<1>. USE DEF update_entity, At, update_axis
<1>1. /\ me \in Entities /\ ma \in Axes /\ pc \in [Threads -> MainPcs \union ConsolePcs]
      /\ applied \in [Entities -> [Axes -> Nat]]
  BY DEF TypeOK, WorldTypeOK
<1>2. applied' = [applied EXCEPT ![me][ma] = acc[me][ma]] /\ acc' = acc /\ vector' = vector
  BY DEF consoleVars
<1>3. \A e \in Entities, a \in Axes :
         applied'[e][a] = IF e = me /\ a = ma THEN acc[e][a] ELSE applied[e][a]
  BY <1>1, <1>2
<1>4. pc'["console"] = pc["console"]
  BY <1>1 DEF Goto, Threads
<1>5. Numbered'
  BY <1>2, <1>4 DEF Freshness, Numbered, Thrusting, consoleVars
<1>6. \A e \in Entities, a \in Axes : acc[e][a] <= vector[e] /\ acc[e][a] + 1 >= vector[e]
  BY ValuesType DEF Freshness, Numbered
<1>7. UsedBefore'
  BY <1>2, <1>3, <1>6, ValuesType DEF Freshness, UsedBefore
<1>8. InTurn'
  <2>. SUFFICES ASSUME NEW e \in Entities, NEW a \in Axes, NEW b \in Axes, a < b,
                       ~(pc'["main"] = "update" /\ me' = e /\ ma' > 1 /\ b >= ma')
                PROVE  applied'[e][b] + 1 >= applied'[e][a]
    BY DEF InTurn
  <2>1. applied[e][a] <= vector[e]
    BY DEF Freshness, UsedBefore
  <2>2. CASE e # me
    BY <2>2, <1>3 DEF Freshness, InTurn
  <2>3. CASE e = me /\ b = ma
    BY <2>1, <2>3, <1>3, <1>6, ValuesType, Types
  <2>4. CASE e = me /\ b < ma
    BY <2>4, <1>3, <1>1, ValuesType, Types DEF Freshness, InTurn
  <2>5. CASE e = me /\ b > ma
    <3>1. ma \in {1, 2, 3} /\ b \in {1, 2, 3}
      BY ValuesType, Types
    <3>2. ma < 3 /\ ma' = ma + 1 /\ pc' = pc /\ me' = me
      BY <2>5, <3>1
    <3>3. ma' > 1 /\ b >= ma'
      BY <2>5, <3>1, <3>2
    <3>. QED  BY <2>5, <3>2, <3>3
  <2>. QED  BY <2>2, <2>3, <2>4, <2>5, ValuesType, Types
<1>. QED
  BY <1>5, <1>7, <1>8 DEF Freshness

LEMMA FreshThrust ==
    ASSUME TypeOK, Freshness, thrust_axis, UNCHANGED <<mainVars, machine>>
    PROVE  Freshness'
<1>. USE DEF thrust_axis, At, set_acc
<1>1. /\ pc \in [Threads -> MainPcs \union ConsolePcs] /\ ca \in Axes
      /\ acc \in [Entities -> [Axes -> Nat]]
  BY DEF TypeOK, WorldTypeOK
<1>2. acc' = [acc EXCEPT ![target][ca] = vector[target]] /\ applied' = applied
      /\ vector' = vector
  OBVIOUS
<1>3. \A e \in Entities, a \in Axes :
         acc'[e][a] = IF e = target /\ a = ca THEN vector[e] ELSE acc[e][a]
  BY <1>1, <1>2
<1>4. pc'["main"] = pc["main"]
  BY <1>1 DEF Goto, Threads
<1>5. Numbered'
  <2>. SUFFICES ASSUME NEW e \in Entities, NEW a \in Axes
                PROVE  acc'[e][a] + (IF Thrusting(e, a)' THEN 1 ELSE 0) = vector'[e]
    BY DEF Numbered
  <2>1. acc[e][a] + (IF Thrusting(e, a) THEN 1 ELSE 0) = vector[e]
    BY DEF Freshness, Numbered
  <2>2. CASE e # target
    <3>1. ~Thrusting(e, a) /\ ~Thrusting(e, a)'
      <4>1. target' = target \/ pc'["console"] = "loop"
        BY <1>1 DEF Goto, Threads
      <4>. QED  BY <4>1, <2>2 DEF Thrusting
    <3>. QED  BY <2>1, <2>2, <1>2, <1>3, <3>1
  <2>3. CASE e = target /\ ca < 3
    <3>1. ca' = ca + 1 /\ pc' = pc /\ target' = target
      BY <2>3
    <3>2. CASE a = ca
      BY <2>1, <2>3, <3>1, <3>2, <1>2, <1>3, ValuesType DEF Thrusting
    <3>3. CASE a # ca
      BY <2>1, <2>3, <3>1, <3>3, <1>2, <1>3, ValuesType, Types DEF Thrusting
    <3>. QED  BY <3>2, <3>3
  <2>4. CASE e = target /\ ~(ca < 3)
    <3>1. ca = 3 /\ pc'["console"] = "loop"
      BY <2>4, <1>1, Types DEF Goto, Threads
    <3>2. CASE a = 3
      BY <2>1, <2>4, <3>1, <3>2, <1>2, <1>3, ValuesType DEF Thrusting
    <3>3. CASE a # 3
      BY <2>1, <2>4, <3>1, <3>3, <1>2, <1>3, ValuesType, Types DEF Thrusting
    <3>. QED  BY <3>2, <3>3
  <2>. QED  BY <2>2, <2>3, <2>4
<1>6. UsedBefore'
  BY <1>2 DEF Freshness, UsedBefore
<1>7. InTurn'
  BY <1>2, <1>4 DEF Freshness, InTurn, mainVars
<1>. QED
  BY <1>5, <1>6, <1>7 DEF Freshness

LEMMA FreshCommand ==
    ASSUME TypeOK, Freshness, cmd_thrust, UNCHANGED <<mainVars, machine, worldVars>>
    PROVE  Freshness'
<1>. USE DEF cmd_thrust, Carry, At
<1>1. pc \in [Threads -> MainPcs \union ConsolePcs] /\ vector \in [Entities -> Nat]
  BY DEF TypeOK
<1>2. pc'["main"] = pc["main"] /\ UNCHANGED <<acc, applied, me, ma>>
  BY <1>1 DEF Goto, Threads, mainVars, worldVars
<1>3. \A e \in Entities, a \in Axes : acc[e][a] = vector[e]
  BY ValuesType DEF Freshness, Numbered, Thrusting
<1>4. target' \in 0 .. EntityCount
  BY FindType DEF TypeOK, Wanted
<1>5. \A e \in Entities : vector'[e] = IF target' # NULL /\ e = target' THEN vector[e] + 1
                                       ELSE vector[e]
  BY <1>1, <1>4, Types
<1>6. pc'["console"] = IF target' = NULL THEN "loop" ELSE "thrust"
  BY <1>1 DEF Goto, Threads
<1>7. Numbered'
  <2>. SUFFICES ASSUME NEW e \in Entities, NEW a \in Axes
                PROVE  acc'[e][a] + (IF Thrusting(e, a)' THEN 1 ELSE 0) = vector'[e]
    BY DEF Numbered
  <2>1. Thrusting(e, a)' <=> target' # NULL /\ e = target'
    BY <1>6, Types DEF Thrusting
  <2>. QED  BY <1>2, <1>3, <1>5, <2>1, ValuesType
<1>8. UsedBefore'
  BY <1>2, <1>5, ValuesType DEF Freshness, UsedBefore
<1>9. InTurn'
  BY <1>2 DEF Freshness, InTurn
<1>. QED
  BY <1>7, <1>8, <1>9 DEF Freshness

LEMMA FreshStep == ASSUME TypeOK, Freshness, [Next]_vars PROVE Freshness'
<1>. USE DEF TypeOK, Threads, Goto, At
<1>1. CASE main
  <2>1. CASE client_loop /\ UNCHANGED <<consoleVars, machine, worldVars>>
    BY <2>1, FreshElsewhere DEF client_loop, consoleVars, mainVars, worldVars
  <2>2. CASE handle_client_events /\ UNCHANGED <<consoleVars, machine, worldVars>>
    BY <2>2, FreshElsewhere
    DEF handle_client_events, update_server, update_cpus, consoleVars, worldVars
  <2>3. CASE (shutdown_console \/ exit) /\ UNCHANGED <<consoleVars, machine, worldVars>>
    BY <2>3, FreshElsewhere DEF shutdown_console, exit, mainVars, consoleVars, worldVars
  <2>4. CASE update_entity /\ UNCHANGED <<consoleVars, machine>>
    BY <2>4, FreshTick
  <2>5. CASE step_cpu("main") \/ double_free("main")
    BY <2>5, FreshElsewhere
    DEF step_cpu, double_free, fetch, handle_nop, handle_hlt, Over, mainVars, consoleVars,
        worldVars
  <2>. QED  BY <1>1, <2>1, <2>2, <2>3, <2>4, <2>5 DEF main
<1>2. CASE console
  <2>. DEFINE Else == UNCHANGED <<mainVars, machine, worldVars>>
  <2>1. CASE (process_input \/ leave) /\ Else
    BY <2>1, FreshElsewhere DEF process_input, leave, mainVars, consoleVars, worldVars
  <2>2. CASE (crash \/ no_effect \/ cmd_quit \/ cmd_become \/ cmd_cpu_step) /\ Else
    BY <2>2, FreshElsewhere
    DEF crash, no_effect, cmd_quit, cmd_become, cmd_cpu_step, Carry, mainVars,
        consoleVars, worldVars
  <2>3. CASE cmd_thrust /\ Else
    BY <2>3, FreshCommand
  <2>4. CASE thrust_axis /\ UNCHANGED <<mainVars, machine>>
    BY <2>4, FreshThrust
  <2>5. CASE step_cpu("console") \/ double_free("console")
    BY <2>5, FreshElsewhere
    DEF step_cpu, double_free, fetch, handle_nop, handle_hlt, Over, mainVars, consoleVars,
        worldVars
  <2>. QED  BY <1>2, <2>1, <2>2, <2>3, <2>4, <2>5 DEF console
<1>3. CASE user
  BY <1>3, FreshElsewhere DEF user, el_gets, mainVars, worldVars
<1>4. CASE \E i \in Idents : timer_fires(i)
  BY <1>4, FreshElsewhere DEF timer_fires, consoleVars, worldVars
<1>5. CASE UNCHANGED vars
  BY <1>5, FreshElsewhere DEF vars, mainVars, consoleVars, worldVars
<1>. QED
  BY <1>1, <1>2, <1>3, <1>4, <1>5 DEF Next

\* A tick mixes at most a vector with the one commanded before it, with x
\* never ahead of y or z by more than that (entity.c:97-99, console.c:200-202).
THEOREM ComponentsFresh == Spec => []NoOldComponent
<1>1. Init => Freshness
  <2>. SUFFICES ASSUME Init PROVE Freshness
    OBVIOUS
  <2>1. \A e \in Entities, a \in Axes : acc[e][a] = 0 /\ applied[e][a] = 0 /\ vector[e] = 0
    BY DEF Init, init_default_world
  <2>2. pc["console"] = "loop"
    BY DEF Init, Threads
  <2>. QED
    BY <2>1, <2>2 DEF Freshness, Numbered, UsedBefore, InTurn, Thrusting
<1>2. TypeOK /\ Freshness /\ [Next]_vars => Freshness'
  BY FreshStep
<1>3. TypeOK /\ Freshness => NoOldComponent
  <2>. SUFFICES ASSUME TypeOK, InTurn, NEW e \in Entities, Ticked(e),
                       NEW a \in Axes, NEW b \in Axes, a < b
                PROVE  applied[e][b] + 1 >= applied[e][a]
    BY DEF Freshness, NoOldComponent
  <2>1. ma \in {1, 2, 3}
    BY Types DEF TypeOK
  <2>. QED
    BY <2>1 DEF InTurn, Ticked
<1>. QED
  BY <1>1, <1>2, <1>3, TypeCorrect, PTL DEF Spec

----------------------------------------------------------------------------
(* The machine under one thread at a time *)

\* Without an overlap at most one thread is inside step_cpu, and what it has
\* seen of the machine still holds.
OneInside == \A t, u \in Threads : pc[t] \in InStep /\ pc[u] \in InStep => t = u
SeenHolds == \A t \in Threads :
    /\ pc[t] \in {"load", "store"} => ip \notin Halts
    /\ pc[t] = "store" => reg[t] = ip
    /\ pc[t] \in {"test", "free", "null"} => ip \in Halts
    /\ pc[t] = "free" => ts = "set"
AtHlt == /\ \A h \in Halts : ip <= h
         /\ ts = "NULL" => ip \in Halts
         /\ ts = "freed" => \E t \in Threads : pc[t] = "null"
Stepping == ~overlap => OneInside /\ SeenHolds /\ AtHlt

LEMMA SteppingElsewhere ==
    ASSUME Stepping, UNCHANGED machine,
           \A t \in Threads : pc'[t] = pc[t] \/ (pc[t] \notin InStep /\ pc'[t] \notin InStep)
    PROVE  Stepping'
BY DEF Stepping, OneInside, SeenHolds, AtHlt, machine, history, InStep

LEMMA SteppingStep ==
    ASSUME TypeOK, Stepping, NEW t \in Threads, step_cpu(t)
    PROVE  Stepping'
<1>. SUFFICES ASSUME ~overlap' PROVE OneInside' /\ SeenHolds' /\ AtHlt'
  BY DEF Stepping
<1>1. /\ pc \in [Threads -> MainPcs \union ConsolePcs] /\ ip \in 0 .. MaxIp
      /\ reg \in [Threads -> 0 .. MaxIp] /\ ts \in {"set", "freed", "NULL"}
  BY DEF TypeOK, TsStates
<1>2. ~overlap /\ OneInside /\ SeenHolds /\ AtHlt
  <2>1. fetch(t) => (overlap => overlap')
    BY Zenon DEF fetch
  <2>2. handle_nop(t) => overlap' = overlap
    BY DEF handle_nop, Over, history
  <2>3. handle_hlt(t) => overlap' = overlap
    BY DEF handle_hlt, Over, history
  <2>4. fetch(t) \/ handle_nop(t) \/ handle_hlt(t)
    BY Zenon DEF step_cpu
  <2>5. ~overlap
    BY <2>1, <2>2, <2>3, <2>4
  <2>. QED  BY <2>5 DEF Stepping
<1>3. CASE fetch(t)
  <2>1. \A u \in Threads : u # t => pc[u] \notin InStep
    BY <1>3, <1>2 DEF fetch
  <2>2. /\ pc'[t] = IF ip \in Halts THEN "test" ELSE "load"
        /\ \A u \in Threads : u # t => pc'[u] = pc[u]
        /\ ip' = ip /\ ts' = ts /\ reg' = reg /\ pc[t] = "fetch"
    BY <1>1, <1>3 DEF fetch, Goto, At
  <2>3. OneInside'
    BY <2>1, <2>2 DEF OneInside
  <2>4. SeenHolds'
    BY <2>1, <2>2 DEF SeenHolds, InStep
  <2>5. AtHlt'
    BY <1>2, <2>1, <2>2 DEF AtHlt, InStep
  <2>. QED  BY <2>3, <2>4, <2>5
<1>4. ASSUME pc[t] \in InStep PROVE \A u \in Threads : u # t => pc[u] \notin InStep
  BY <1>2, <1>4 DEF OneInside
<1>5. CASE handle_nop(t)
  <2>1. pc[t] \in {"load", "store"} /\ \A u \in Threads : u # t => pc'[u] = pc[u]
    BY <1>1, <1>5 DEF handle_nop, Over, Goto, At
  <2>2. \A u \in Threads : u # t => pc'[u] \notin InStep
    BY <1>4, <2>1 DEF InStep
  <2>3. ip \notin Halts /\ ts = "set"
    BY <1>1, <1>2, <1>4, <2>1 DEF SeenHolds, AtHlt, InStep
  <2>4. CASE pc[t] = "load"
    <3>1. pc'[t] = "store" /\ reg'[t] = ip /\ ip' = ip /\ ts' = ts
      BY <1>1, <1>5, <2>4 DEF handle_nop, Over, Goto, At
    <3>. QED
      BY <1>2, <2>2, <2>3, <3>1 DEF OneInside, SeenHolds, AtHlt, InStep
  <2>5. CASE pc[t] = "store"
    <3>1. pc'[t] = "loop" /\ ts' = ts /\ reg[t] = ip
          /\ ip' = IF reg[t] < MaxIp THEN reg[t] + 1 ELSE MaxIp
      BY <1>1, <1>2, <1>5, <2>5 DEF handle_nop, Over, Goto, At, SeenHolds
    <3>2. \A h \in Halts : ip' <= h
      <4>1. \A h \in Halts : h \in Nat /\ ip <= h /\ ip # h
        BY <1>2, <2>3 DEF AtHlt
      <4>. QED  BY <1>1, <3>1, <4>1
    <3>. QED
      BY <2>2, <2>3, <3>1, <3>2 DEF OneInside, SeenHolds, AtHlt, InStep
  <2>. QED  BY <2>1, <2>4, <2>5
<1>6. CASE handle_hlt(t)
  <2>1. /\ pc[t] \in {"test", "free", "null"} /\ ip' = ip
        /\ \A u \in Threads : u # t => pc'[u] = pc[u]
    BY <1>1, <1>6 DEF handle_hlt, Over, Goto, At
  <2>2. \A u \in Threads : u # t => pc'[u] \notin InStep
    BY <1>4, <2>1 DEF InStep
  <2>3. ip \in Halts
    BY <1>2, <2>1 DEF SeenHolds
  <2>4. ts = "freed" => pc[t] = "null"
    BY <1>2, <1>4, <2>1 DEF AtHlt, InStep
  <2>5. CASE pc[t] = "test"
    <3>1. ts' = ts /\ pc'[t] = IF ts = "NULL" THEN "null" ELSE "free"
      BY <1>1, <1>6, <2>5 DEF handle_hlt, Over, Goto, At
    <3>. QED
      BY <1>1, <1>2, <2>1, <2>2, <2>3, <2>4, <2>5, <3>1
      DEF OneInside, SeenHolds, AtHlt, InStep
  <2>6. CASE pc[t] = "free"
    <3>1. pc'[t] = "null" /\ ts' = "freed"
      BY <1>1, <1>2, <1>6, <2>6 DEF handle_hlt, Over, Goto, At, SeenHolds
    <3>. QED
      BY <1>2, <2>1, <2>2, <2>3, <3>1 DEF OneInside, SeenHolds, AtHlt, InStep
  <2>7. CASE pc[t] = "null"
    <3>1. pc'[t] = "loop" /\ ts' = "NULL"
      BY <1>1, <1>6, <2>7 DEF handle_hlt, Over, Goto, At
    <3>. QED
      BY <1>2, <2>1, <2>2, <2>3, <3>1 DEF OneInside, SeenHolds, AtHlt, InStep
  <2>. QED  BY <2>1, <2>5, <2>6, <2>7
<1>. QED
  BY <1>3, <1>5, <1>6 DEF step_cpu

LEMMA SteppingNext == ASSUME TypeOK, Stepping, [Next]_vars PROVE Stepping'
<1>. USE DEF TypeOK, Threads, Goto, At, InStep
<1>. DEFINE Outside == UNCHANGED machine /\ \A t \in Threads :
                 pc'[t] = pc[t] \/ (pc[t] \notin InStep /\ pc'[t] \notin InStep)
<1>1. CASE main
  <2>1. CASE client_loop /\ UNCHANGED <<consoleVars, machine, worldVars>>
    BY <2>1, SteppingElsewhere DEF client_loop
  <2>2. CASE handle_client_events /\ UNCHANGED <<consoleVars, machine, worldVars>>
    BY <2>2, SteppingElsewhere DEF handle_client_events, update_server, update_cpus
  <2>3. CASE (shutdown_console \/ exit) /\ UNCHANGED <<consoleVars, machine, worldVars>>
    BY <2>3, SteppingElsewhere DEF shutdown_console, exit
  <2>4. CASE update_entity /\ UNCHANGED <<consoleVars, machine>>
    BY <2>4, SteppingElsewhere DEF update_entity
  <2>5. CASE step_cpu("main")
    BY <2>5, SteppingStep
  <2>6. CASE double_free("main")
    BY <2>6, SteppingElsewhere DEF double_free
  <2>. QED  BY <1>1, <2>1, <2>2, <2>3, <2>4, <2>5, <2>6 DEF main
<1>2. CASE console
  <2>. DEFINE Else == UNCHANGED <<mainVars, machine, worldVars>>
  <2>1. CASE (process_input \/ leave) /\ Else
    BY <2>1, SteppingElsewhere DEF process_input, leave
  <2>2. CASE (crash \/ no_effect \/ cmd_quit \/ cmd_become \/ cmd_cpu_step) /\ Else
    BY <2>2, SteppingElsewhere
    DEF crash, no_effect, cmd_quit, cmd_become, cmd_cpu_step, Carry
  <2>3. CASE cmd_thrust /\ Else
    BY <2>3, SteppingElsewhere DEF cmd_thrust, Carry
  <2>4. CASE thrust_axis /\ UNCHANGED <<mainVars, machine>>
    BY <2>4, SteppingElsewhere DEF thrust_axis
  <2>5. CASE step_cpu("console")
    BY <2>5, SteppingStep
  <2>6. CASE double_free("console")
    BY <2>6, SteppingElsewhere DEF double_free
  <2>. QED  BY <1>2, <2>1, <2>2, <2>3, <2>4, <2>5, <2>6 DEF console
<1>3. CASE user
  BY <1>3, SteppingElsewhere DEF user, el_gets
<1>4. CASE \E i \in Idents : timer_fires(i)
  BY <1>4, SteppingElsewhere DEF timer_fires
<1>5. CASE UNCHANGED vars
  BY <1>5, SteppingElsewhere DEF vars
<1>. QED
  BY <1>1, <1>2, <1>3, <1>4, <1>5 DEF Next

\* The machine stays on its HLT, and frees ts once, until both threads step it
\* at the same time (client.c:140, console.c:238, cpu.c:193-200).
THEOREM HltStops == Spec => []HltHolds
<1>1. Init => Stepping
  <2>. SUFFICES ASSUME Init PROVE Stepping
    OBVIOUS
  <2>1. \A t \in Threads : pc[t] = "loop"
    BY DEF Init
  <2>2. ip = 0 /\ ts = "set" /\ \A h \in Halts : h \in Nat
    BY DEF Init
  <2>. QED
    BY <2>1, <2>2 DEF Stepping, OneInside, SeenHolds, AtHlt, InStep
<1>2. TypeOK /\ Stepping /\ [Next]_vars => Stepping'
  BY SteppingNext
<1>3. Stepping => HltHolds
  BY DEF Stepping, SeenHolds, AtHlt, HltHolds
<1>. QED
  BY <1>1, <1>2, <1>3, TypeCorrect, PTL DEF Spec

----------------------------------------------------------------------------
(* The machine under both threads at once *)

\* Two threads that are inside have met.  One that has not sees the machine as it
\* was when it fetched.  While ts points to a freed block one thread is about to
\* clear it, whatever the two have done before.
BothMet == \A t, u \in Threads : pc[t] \in InStep /\ pc[u] \in InStep /\ t # u => met[t]
Undisturbed == \A t \in Threads : ~met[t] =>
    /\ pc[t] \in InStep => ip = from[t]
    /\ pc[t] \in {"load", "store"} => from[t] \notin Halts
    /\ pc[t] = "store" => reg[t] = from[t]
    /\ pc[t] \in {"test", "free", "null"} => from[t] \in Halts
Clearing == ts = "freed" => \E t \in Threads : pc[t] = "null"
Contained == BothMet /\ Undisturbed /\ Clearing

LEMMA ContainedElsewhere ==
    ASSUME Contained, UNCHANGED machine,
           \A t \in Threads : pc'[t] = pc[t] \/ (pc[t] \notin InStep /\ pc'[t] \notin InStep)
    PROVE  Contained'
BY DEF Contained, BothMet, Undisturbed, Clearing, machine, history, InStep

LEMMA ContainedStep ==
    ASSUME TypeOK, Contained, NEW t \in Threads, step_cpu(t)
    PROVE  Contained'
<1>1. /\ pc \in [Threads -> MainPcs \union ConsolePcs] /\ met \in [Threads -> BOOLEAN]
      /\ reg \in [Threads -> 0 .. MaxIp] /\ from \in [Threads -> 0 .. MaxIp]
      /\ ts \in {"set", "freed", "NULL"}
  BY DEF TypeOK, TsStates
<1>2. BothMet /\ Undisturbed /\ Clearing
  BY DEF Contained
<1>3. CASE fetch(t)
  <2>1. /\ pc[t] = "fetch" /\ pc'[t] = IF ip \in Halts THEN "test" ELSE "load"
        /\ \A u \in Threads : u # t => pc'[u] = pc[u] /\ from'[u] = from[u]
        /\ from'[t] = ip /\ ip' = ip /\ ts' = ts /\ reg' = reg
    BY <1>1, <1>3 DEF fetch, Goto, At
  <2>2. CASE \E u \in Threads \ {t} : pc[u] \in InStep
    <3>1. \A u \in Threads : met'[u]
      BY <1>3, <2>2 DEF fetch
    <3>. QED
      BY <1>2, <2>1, <3>1 DEF Contained, BothMet, Undisturbed, Clearing
  <2>3. CASE \A u \in Threads \ {t} : pc[u] \notin InStep
    <3>1. met' = met
      BY <1>3, <2>3 DEF fetch
    <3>. QED
      BY <1>2, <2>1, <2>3, <3>1 DEF Contained, BothMet, Undisturbed, Clearing, InStep
  <2>. QED  BY <2>2, <2>3
<1>4. ASSUME pc[t] \in InStep, NEW u \in Threads, u # t, ~met[u] PROVE pc[u] \notin InStep
  BY <1>2, <1>4 DEF BothMet
<1>5. CASE At(t, "load") /\ handle_nop(t)
  <2>1. /\ pc[t] = "load" /\ pc'[t] = "store" /\ \A u \in Threads : u # t => pc'[u] = pc[u]
        /\ reg'[t] = ip /\ \A u \in Threads : u # t => reg'[u] = reg[u]
        /\ ip' = ip /\ ts' = ts /\ met' = met /\ from' = from
    BY <1>1, <1>5 DEF handle_nop, Goto, At, history
  <2>. QED
    BY <1>2, <2>1 DEF Contained, BothMet, Undisturbed, Clearing, InStep
<1>6. CASE handle_hlt(t) /\ ~Over(t)
  <2>1. /\ pc[t] \in {"test", "free"} /\ pc'[t] \in {"free", "null"}
        /\ \A u \in Threads : u # t => pc'[u] = pc[u]
        /\ ip' = ip /\ reg' = reg /\ met' = met /\ from' = from
        /\ ts' = "freed" => ts = "freed" \/ pc'[t] = "null"
    BY <1>1, <1>6 DEF handle_hlt, Goto, At, Over, history
  <2>. QED
    BY <1>2, <2>1 DEF Contained, BothMet, Undisturbed, Clearing, InStep
<1>7. CASE Over(t) /\ (handle_nop(t) \/ handle_hlt(t))
  <2>1. /\ pc[t] \in InStep /\ pc'[t] = "loop" /\ \A u \in Threads : u # t => pc'[u] = pc[u]
        /\ ~met'[t] /\ \A u \in Threads : u # t => met'[u] = met[u] /\ from'[u] = from[u]
        /\ \A u \in Threads : u # t => reg'[u] = reg[u]
        /\ ts' = "freed" => ts = "freed" /\ pc[t] # "null"
    BY <1>1, <1>7 DEF handle_nop, handle_hlt, Over, Goto, At, InStep
  <2>2. BothMet'
    BY <1>2, <2>1 DEF BothMet, InStep
  <2>3. Undisturbed'
    BY <1>2, <1>4, <2>1 DEF Undisturbed, InStep
  <2>4. Clearing'
    BY <1>2, <2>1 DEF Clearing
  <2>. QED  BY <2>2, <2>3, <2>4 DEF Contained
<1>. QED
  BY <1>3, <1>5, <1>6, <1>7 DEF step_cpu, handle_nop, handle_hlt

LEMMA ContainedNext == ASSUME TypeOK, Contained, [Next]_vars PROVE Contained'
<1>. USE DEF TypeOK, Threads, Goto, At, InStep
<1>1. CASE main
  <2>1. CASE client_loop /\ UNCHANGED <<consoleVars, machine, worldVars>>
    BY <2>1, ContainedElsewhere DEF client_loop
  <2>2. CASE handle_client_events /\ UNCHANGED <<consoleVars, machine, worldVars>>
    BY <2>2, ContainedElsewhere DEF handle_client_events, update_server, update_cpus
  <2>3. CASE (shutdown_console \/ exit) /\ UNCHANGED <<consoleVars, machine, worldVars>>
    BY <2>3, ContainedElsewhere DEF shutdown_console, exit
  <2>4. CASE update_entity /\ UNCHANGED <<consoleVars, machine>>
    BY <2>4, ContainedElsewhere DEF update_entity
  <2>5. CASE step_cpu("main")
    BY <2>5, ContainedStep
  <2>6. CASE double_free("main")
    BY <2>6, ContainedElsewhere DEF double_free
  <2>. QED  BY <1>1, <2>1, <2>2, <2>3, <2>4, <2>5, <2>6 DEF main
<1>2. CASE console
  <2>. DEFINE Else == UNCHANGED <<mainVars, machine, worldVars>>
  <2>1. CASE (process_input \/ leave) /\ Else
    BY <2>1, ContainedElsewhere DEF process_input, leave
  <2>2. CASE (crash \/ no_effect \/ cmd_quit \/ cmd_become \/ cmd_cpu_step) /\ Else
    BY <2>2, ContainedElsewhere
    DEF crash, no_effect, cmd_quit, cmd_become, cmd_cpu_step, Carry
  <2>3. CASE cmd_thrust /\ Else
    BY <2>3, ContainedElsewhere DEF cmd_thrust, Carry
  <2>4. CASE thrust_axis /\ UNCHANGED <<mainVars, machine>>
    BY <2>4, ContainedElsewhere DEF thrust_axis
  <2>5. CASE step_cpu("console")
    BY <2>5, ContainedStep
  <2>6. CASE double_free("console")
    BY <2>6, ContainedElsewhere DEF double_free
  <2>. QED  BY <1>2, <2>1, <2>2, <2>3, <2>4, <2>5, <2>6 DEF console
<1>3. CASE user
  BY <1>3, ContainedElsewhere DEF user, el_gets
<1>4. CASE \E i \in Idents : timer_fires(i)
  BY <1>4, ContainedElsewhere DEF timer_fires
<1>5. CASE UNCHANGED vars
  BY <1>5, ContainedElsewhere DEF vars
<1>. QED
  BY <1>1, <1>2, <1>3, <1>4, <1>5 DEF Next

\* Only the last statement of an instruction ends it.
LEMMA EndsInStep ==
    ASSUME TypeOK, [Next]_vars, NEW t \in Threads, Ends(t)
    PROVE  (handle_nop(t) /\ At(t, "store")) \/ (handle_hlt(t) /\ At(t, "null"))
<1>. USE DEF TypeOK, Threads, Goto, At, InStep, Ends
<1>1. CASE main
  BY <1>1 DEF main, client_loop, handle_client_events, update_server, update_cpus,
              shutdown_console, exit, update_entity, double_free, step_cpu, fetch,
              handle_nop, handle_hlt, Over
<1>2. CASE console
  BY <1>2 DEF console, process_input, leave, crash, no_effect, cmd_quit, cmd_become,
              cmd_cpu_step, cmd_thrust, thrust_axis, Carry, double_free, step_cpu, fetch,
              handle_nop, handle_hlt, Over
<1>3. CASE user
  BY <1>3 DEF user, el_gets
<1>4. CASE \E i \in Idents : timer_fires(i)
  BY <1>4 DEF timer_fires
<1>5. CASE UNCHANGED vars
  BY <1>5 DEF vars
<1>. QED
  BY <1>1, <1>2, <1>3, <1>4, <1>5 DEF Next

\* What two threads on one machine do wrong ends with the instructions that met,
\* and ts is freed twice only inside the other's handle_hlt, for every program and
\* every interleaving (console.c:238, client.c:140, cpu.c:186-200).
THEOREM RacesContained == Spec => RaceContained
<1>. DEFINE A == \A t \in Threads :
        /\ double_free(t) => \E u \in Threads \ {t} : pc[u] = "null"
        /\ Ends(t) /\ ~met[t] =>
            IF from[t] \in Halts
            THEN ip' = from[t] /\ ts' = "NULL"
            ELSE ip' = (IF from[t] < MaxIp THEN from[t] + 1 ELSE MaxIp) /\ ts' = ts
<1>1. Init => Contained
  <2>. SUFFICES ASSUME Init PROVE Contained
    OBVIOUS
  <2>1. \A t \in Threads : pc[t] = "loop"
    BY DEF Init
  <2>2. ts = "set"
    BY DEF Init
  <2>. QED
    BY <2>1, <2>2 DEF Contained, BothMet, Undisturbed, Clearing, InStep
<1>2. TypeOK /\ Contained /\ [Next]_vars => Contained'
  BY ContainedNext
<1>3. TypeOK /\ Contained /\ [Next]_vars => [A]_vars
  <2>. SUFFICES ASSUME TypeOK, Contained, [Next]_vars, NEW t \in Threads
                PROVE  /\ double_free(t) => \E u \in Threads \ {t} : pc[u] = "null"
                       /\ Ends(t) /\ ~met[t] =>
                           IF from[t] \in Halts
                           THEN ip' = from[t] /\ ts' = "NULL"
                           ELSE /\ ip' = IF from[t] < MaxIp THEN from[t] + 1 ELSE MaxIp
                                /\ ts' = ts
    OBVIOUS
  <2>1. ASSUME double_free(t) PROVE \E u \in Threads \ {t} : pc[u] = "null"
    BY <2>1 DEF double_free, At, Contained, Clearing
  <2>2. ASSUME Ends(t), ~met[t], handle_nop(t), At(t, "store")
        PROVE  /\ from[t] \notin Halts /\ ts' = ts
               /\ ip' = IF from[t] < MaxIp THEN from[t] + 1 ELSE MaxIp
    BY <2>2 DEF handle_nop, At, Contained, Undisturbed
  <2>3. ASSUME Ends(t), ~met[t], handle_hlt(t), At(t, "null")
        PROVE  from[t] \in Halts /\ ip' = from[t] /\ ts' = "NULL"
    BY <2>3 DEF handle_hlt, At, Contained, Undisturbed, InStep
  <2>. QED
    BY <2>1, <2>2, <2>3, EndsInStep
<1>. QED
  <2>. HIDE DEF A
  <2>1. Spec => [][A]_vars
    BY <1>1, <1>2, <1>3, TypeCorrect, PTL DEF Spec
  <2>. QED
    BY <2>1 DEF A, RaceContained

----------------------------------------------------------------------------
(* Whose entity a thrust moves *)

\* What cmd_thrust is about to write belongs to the player, who cannot become
\* another entity before it is written.
Own == pc["console"] = "thrust" => target \in Entities /\ entity \in {target, NULL}

LEMMA OwnStep == ASSUME TypeOK, Own, [Next]_vars PROVE Own'
<1>. USE DEF Own, TypeOK, Threads, Goto, At
<1>1. CASE main
  <2>1. CASE client_loop \/ shutdown_console \/ exit
    BY <1>1, <2>1 DEF main, client_loop, shutdown_console, exit, update_entity, step_cpu,
                      double_free, consoleVars
  <2>2. CASE handle_client_events /\ UNCHANGED consoleVars
    BY <2>2 DEF handle_client_events, update_server, update_cpus, consoleVars
  <2>3. CASE update_entity /\ UNCHANGED consoleVars
    BY <2>3 DEF update_entity, consoleVars
  <2>4. CASE step_cpu("main") \/ double_free("main")
    BY <2>4 DEF step_cpu, double_free, fetch, handle_nop, handle_hlt, Over, consoleVars
  <2>. QED  BY <1>1, <2>1, <2>2, <2>3, <2>4 DEF main
<1>2. CASE console
  <2>1. CASE process_input \/ leave
    BY <2>1 DEF process_input, leave, consoleVars
  <2>2. CASE crash \/ no_effect \/ cmd_quit \/ cmd_become \/ cmd_cpu_step
    BY <2>2 DEF crash, no_effect, cmd_quit, cmd_become, cmd_cpu_step, Carry, consoleVars
  <2>3. CASE cmd_thrust
    <3>1. SUFFICES ASSUME target' # NULL PROVE target' \in Entities /\ entity' \in {target', NULL}
      BY <2>3 DEF cmd_thrust, Carry
    <3>2. entity' = entity /\ \E id \in Wanted : target' = find_entity(id)
      BY <2>3 DEF cmd_thrust
    <3>. QED  BY <3>1, <3>2 DEF Wanted, find_entity
  <2>4. CASE thrust_axis
    BY <2>4 DEF thrust_axis
  <2>5. CASE step_cpu("console") \/ double_free("console")
    BY <2>5 DEF step_cpu, double_free, fetch, handle_nop, handle_hlt, Over, consoleVars
  <2>. QED  BY <1>2, <2>1, <2>2, <2>3, <2>4, <2>5 DEF console
<1>3. CASE user
  BY <1>3 DEF user, el_gets
<1>4. CASE \E i \in Idents : timer_fires(i)
  BY <1>4 DEF timer_fires, consoleVars
<1>5. CASE UNCHANGED vars
  BY <1>5 DEF vars, consoleVars
<1>. QED
  BY <1>1, <1>2, <1>3, <1>4, <1>5 DEF Next

LEMMA OnlyThrustsMove ==
    ASSUME [Next]_vars
    PROVE  UNCHANGED acc \/ thrust_axis
<1>1. CASE main
  BY <1>1 DEF main, update_entity, update_axis, step_cpu, double_free, worldVars
<1>2. CASE console
  BY <1>2 DEF console, step_cpu, double_free, worldVars
<1>3. CASE user \/ \E i \in Idents : timer_fires(i)
  BY <1>3 DEF user, timer_fires, worldVars
<1>4. CASE UNCHANGED vars
  BY <1>4 DEF vars, worldVars
<1>. QED
  BY <1>1, <1>2, <1>3, <1>4 DEF Next

\* An acceleration changes only by a thrust of the player whose entity it is,
\* or of one without an entity (console.c:182-202).
THEOREM OwnThrusts == Spec => ThrustsOwn
<1>. DEFINE A == \A e \in Entities : acc'[e] # acc[e] => entity \in {e, NULL}
<1>1. Init => Own
  BY DEF Init, Own, Threads
<1>2. TypeOK /\ Own /\ [Next]_vars => Own'
  BY OwnStep
<1>3. TypeOK /\ Own /\ [Next]_vars => [A]_vars
  <2>. SUFFICES ASSUME TypeOK, Own, [Next]_vars, NEW e \in Entities, acc'[e] # acc[e]
                PROVE  entity \in {e, NULL}
    OBVIOUS
  <2>1. thrust_axis
    BY OnlyThrustsMove
  <2>2. acc' = [acc EXCEPT ![target][ca] = vector[target]] /\ pc["console"] = "thrust"
    BY <2>1 DEF thrust_axis, set_acc, At
  <2>3. e = target
    BY <2>2 DEF TypeOK, WorldTypeOK
  <2>. QED
    BY <2>2, <2>3 DEF Own
<1>. QED
  <2>. HIDE DEF A
  <2>1. Spec => [][A]_vars
    BY <1>1, <1>2, <1>3, TypeCorrect, PTL DEF Spec
  <2>. QED
    BY <2>1 DEF A, ThrustsOwn

=============================================================================
