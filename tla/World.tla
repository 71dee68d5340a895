------------------------------- MODULE World -------------------------------
(***************************************************************************)
(* The world of src/lib/world.c, cluster.c, system.c and entity.c, as      *)
(* init_default_world leaves it: one system of entities, numbered in the   *)
(* order they were added, which no built program enlarges.  The clusters   *)
(* and systems the loops go through on the way are left out.               *)
(*                                                                         *)
(* Of an entity's motion the model keeps which acceleration each tick      *)
(* adds to the velocity.  Vectors are numbered: the n-th one commanded for *)
(* an entity has components n, so that a component tells its command.      *)
(***************************************************************************)
EXTENDS Naturals

CONSTANT EntityCount

ASSUME EntityAssumption == EntityCount \in Nat \ {0}

Entities == 0 .. EntityCount - 1
NULL     == EntityCount             \* no entity
Engine   == EntityCount - 1         \* the last one added, the only one with a CPU
Axes     == 1 .. 3                  \* x, y, z

VARIABLES
    acc,        \* entity->acc, component by component
    applied     \* the acceleration the latest tick added to each velocity

worldVars == <<acc, applied>>

WorldTypeOK ==
    /\ acc \in [Entities -> [Axes -> Nat]]
    /\ applied \in [Entities -> [Axes -> Nat]]

\* calloc leaves every vector zero.
init_default_world ==
    /\ acc = [e \in Entities |-> [a \in Axes |-> 0]]
    /\ applied = acc

find_entity(id) == IF id \in Entities THEN id ELSE NULL

\* A fault: the last component is left out.
set_acc_NoZ(e, a, n) ==
    /\ acc' = IF a = 3 THEN acc ELSE [acc EXCEPT ![e][a] = n]
    /\ UNCHANGED applied

\* One component of entity->acc is written, by another thread than the one
\* that updates the world.
set_acc(e, a, n) ==
    /\ acc' = [acc EXCEPT ![e][a] = n]
    /\ UNCHANGED applied

\* One statement of update_entity: vel->x += acc->x * dt.
update_axis(e, a) ==
    /\ applied' = [applied EXCEPT ![e][a] = acc[e][a]]
    /\ UNCHANGED acc

=============================================================================
