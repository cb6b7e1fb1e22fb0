--------------------------- MODULE UnboundedFifo ---------------------------
(***************************************************************************)
(* What ReaderWriterQueue promises to its one writer and its one reader: a *)
(* first-in first-out queue that takes Reserved elements without asking    *)
(* for memory, and in which a reader finds what was there when it asked.   *)
(* The writer offers the values 1..N in order.                             *)
(***************************************************************************)
EXTENDS Naturals, Sequences

CONSTANTS Reserved, N

VARIABLES
    offer,      \* the value the writer offers next
    open,       \* the queue exists
    items,      \* the values in the queue
    room,       \* there was room when the writer called, or it is not inside a call
    data,       \* there was a value when the reader called, or it is not inside a call
    result      \* the value the reader took last

vars == <<offer, open, items, room, data, result>>

Init ==
    /\ offer = 1
    /\ open = TRUE
    /\ items = << >>
    /\ room = TRUE
    /\ data = TRUE
    /\ result = 0

CallPut ==
    /\ open /\ offer <= N
    /\ room' = (Len(items) < Reserved)
    /\ UNCHANGED <<offer, open, items, data, result>>

Put ==
    /\ open /\ offer <= N
    /\ items' = Append(items, offer)
    /\ offer' = offer + 1
    /\ room' = TRUE
    /\ UNCHANGED <<open, data, result>>

Refuse ==
    /\ ~ room
    /\ offer' = offer + 1
    /\ room' = TRUE
    /\ UNCHANGED <<open, items, data, result>>

CallTake ==
    /\ open
    /\ data' = (items # << >>)
    /\ UNCHANGED <<offer, open, items, room, result>>

Take ==
    /\ items # << >>
    /\ result' = Head(items)
    /\ items' = Tail(items)
    /\ data' = TRUE
    /\ UNCHANGED <<offer, open, room>>

\* try_dequeue returns false, peek a null pointer.
Miss ==
    /\ ~ data
    /\ data' = TRUE
    /\ UNCHANGED <<offer, open, items, room, result>>

\* peek returns a pointer.
Look ==
    /\ items # << >>
    /\ data' = TRUE
    /\ UNCHANGED <<offer, open, items, room, result>>

Drop ==
    /\ open
    /\ open' = FALSE
    /\ items' = << >>
    /\ UNCHANGED <<offer, room, data, result>>

Next == CallPut \/ Put \/ Refuse \/ CallTake \/ Take \/ Miss \/ Look \/ Drop

Safety == Init /\ [][Next]_vars

\* The writer runs through its values whatever the reader does.
Spec == Safety /\ WF_offer(Put \/ Refuse)
=============================================================================
