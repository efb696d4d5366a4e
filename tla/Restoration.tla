---------------------------- MODULE Restoration ----------------------------
(***************************************************************************)
(* What `cf backup-restore` promises of the entities it never deletes      *)
(* (organisations and spaces; see the README, "Scope of the restore"):     *)
(* whatever fails and however often the command is interrupted and run     *)
(* again, entities of the backup only ever appear in the target, an entity *)
(* after the one that contains it, and a run that ends without a failure   *)
(* leaves all of them there.                                               *)
(***************************************************************************)
EXTENDS FiniteSets

CONSTANTS
    Entities,   \* the entities of the backup
    Tops,       \* those that no other entity contains
    Parent      \* the entity that contains each of the others, a function

VARIABLES
    present,    \* the entities of the backup that are in the target
    state,      \* of the command
    whole       \* nothing has failed in this run

vars == <<present, state, whole>>

Admissible(e) == e \in Tops \/ Parent[e] \in present

Init ==
    /\ present \subseteq Entities
    /\ \A e \in present : Admissible(e)
    /\ state = "running"
    /\ whole \in BOOLEAN

\* One entity is created, or a request fails, or both: it may take effect
\* although its answer is lost.
Progress ==
    /\ state = "running"
    /\ \/ UNCHANGED present
       \/ \E e \in Entities \ present : Admissible(e) /\ present' = present \cup {e}
    /\ whole' \in {whole, FALSE}
    /\ UNCHANGED state

Finish ==
    /\ state = "running"
    /\ whole => present = Entities
    /\ state' = "done"
    /\ UNCHANGED <<present, whole>>

Stop ==
    /\ state = "running"
    /\ state' = "stopped"
    /\ UNCHANGED <<present, whole>>

Rerun ==
    /\ state # "running"
    /\ state' = "running"
    /\ whole' \in BOOLEAN
    /\ UNCHANGED present

Next == Progress \/ Finish \/ Stop \/ Rerun

Spec == Init /\ [][Next]_vars

=============================================================================
