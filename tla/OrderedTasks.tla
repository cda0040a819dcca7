----------------------------- MODULE OrderedTasks -----------------------------
(***************************************************************************)
(* What sata_manager.c promises for each direction of transfer: at most    *)
(* Window tasks are accepted and not released, tasks finish in any order,  *)
(* and they are released to the host in the order they were accepted, each *)
(* as soon as it and all tasks before it have finished.                    *)
(***************************************************************************)
EXTENDS Integers

CONSTANT Window

VARIABLES accepted, done, released

taskVars == <<accepted, done, released>>

TasksInit == accepted = 0 /\ done = {} /\ released = 0

AcceptTask ==
    /\ accepted - released < Window
    /\ accepted' = accepted + 1
    /\ UNCHANGED <<done, released>>

FinishTask(id) ==
    /\ id \in (released .. accepted - 1) \ done
    /\ done' = done \cup {id}
    /\ released' \in released .. accepted
    /\ 0 .. released' - 1 \subseteq done'
    /\ released' \notin done'
    /\ UNCHANGED accepted

TasksNext == AcceptTask \/ \E id \in released .. accepted : FinishTask(id)

TasksSpec == TasksInit /\ [][TasksNext]_taskVars
=============================================================================
