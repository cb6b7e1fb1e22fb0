------------------------- MODULE CountingSemaphore -------------------------
(***************************************************************************)
(* What a semaphore with one waiter promises: a wait takes one of the      *)
(* signals given, and comes back without one only when there is none.      *)
(***************************************************************************)
EXTENDS Naturals

VARIABLES
    value,      \* signals given and not taken
    waiting     \* the waiter is inside a wait

vars == <<value, waiting>>

Init == value = 0 /\ waiting = FALSE

Give ==
    /\ value' \in Nat
    /\ value' > value
    /\ UNCHANGED waiting

Enter ==
    /\ ~ waiting
    /\ waiting' = TRUE
    /\ UNCHANGED value

Take ==
    /\ waiting
    /\ value > 0
    /\ value' = value - 1
    /\ waiting' = FALSE

GiveUp ==
    /\ waiting
    /\ value = 0
    /\ waiting' = FALSE
    /\ UNCHANGED value

Next == Give \/ Enter \/ Take \/ GiveUp

Safety == Init /\ [][Next]_vars

\* Nobody goes on waiting while there is a signal.
Spec == Safety /\ WF_vars(Take)
=============================================================================
