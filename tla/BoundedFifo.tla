---------------------------- MODULE BoundedFifo ----------------------------
(***************************************************************************)
(* What ProducerConsumerQueue promises to its one writer and its one       *)
(* reader: a first-in first-out queue of at most Capacity values that      *)
(* refuses a value if and only if it is full.  The writer offers the       *)
(* values 1..N in order.                                                   *)
(***************************************************************************)
EXTENDS Naturals, Sequences

CONSTANTS Capacity, N

VARIABLES
    offer,      \* the value the writer offers next
    open,       \* the queue exists
    items,      \* the values in the queue
    received,   \* what the reader has taken out
    refused     \* the values write() has returned false for

vars == <<offer, open, items, received, refused>>

Init ==
    /\ offer = 1
    /\ open = TRUE
    /\ items = << >>
    /\ received = << >>
    /\ refused = {}

Put ==
    /\ open /\ offer <= N
    /\ Len(items) < Capacity
    /\ items' = Append(items, offer)
    /\ offer' = offer + 1
    /\ UNCHANGED <<open, received, refused>>

Refuse ==
    /\ open /\ offer <= N
    /\ Len(items) = Capacity
    /\ refused' = refused \cup {offer}
    /\ offer' = offer + 1
    /\ UNCHANGED <<open, items, received>>

Take ==
    /\ items # << >>
    /\ received' = Append(received, Head(items))
    /\ items' = Tail(items)
    /\ UNCHANGED <<offer, open, refused>>

\* The destructor drops what is left.
Drop ==
    /\ open
    /\ open' = FALSE
    /\ items' = << >>
    /\ UNCHANGED <<offer, received, refused>>

Next == Put \/ Refuse \/ Take \/ Drop

Safety == Init /\ [][Next]_vars

\* Neither side waits for the other: the writer runs through its values whatever
\* the reader does, and the values in the queue are taken while it exists.
Spec == Safety /\ WF_vars(Put \/ Refuse) /\ WF_vars(Take)
=============================================================================
