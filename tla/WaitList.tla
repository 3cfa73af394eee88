------------------------------ MODULE WaitList ------------------------------
(***************************************************************************)
(* userver engine: WaitList, the list of tasks asleep in one object.  It   *)
(* is a sequence here; Append and Head/Tail are push_back and pop_front.   *)
(***************************************************************************)
EXTENDS Naturals, Sequences

\* WaitList::Remove: a task that is not in the list stays out of it.
Unlink(list, task) ==
    IF \E i \in DOMAIN list : list[i] = task
       THEN LET at == CHOOSE i \in DOMAIN list : list[i] = task
            IN [i \in 1..(Len(list) - 1) |-> IF i < at THEN list[i] ELSE list[i + 1]]
       ELSE list
=============================================================================
