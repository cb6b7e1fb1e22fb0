---------------------------- MODULE LinkPromise ----------------------------
(***************************************************************************)
(* What the connection of a client of qro/ to its worker process promises, *)
(* whatever timers, replies and segments of shared memory it is built      *)
(* from: the frames come back in the order they were sent in, each at most *)
(* once, and as long as the worker lives none is lost.                     *)
(***************************************************************************)
EXTENDS Naturals, Sequences

CONSTANT N

VARIABLES
    sent,       \* the frames the client has called processFrame with
    received,   \* the frames receiveProcessedFrame has handed on
    way,        \* the frames between the two
    broken      \* the worker is gone

vars == <<sent, received, way, broken>>

Init ==
    /\ sent = << >> /\ received = << >> /\ way = << >>
    /\ broken = FALSE

Ask(id) ==
    /\ \A i \in DOMAIN sent : sent[i] < id
    /\ sent' = Append(sent, id)
    /\ way' = IF broken THEN way ELSE Append(way, id)
    /\ UNCHANGED <<received, broken>>

\* Mutant: the latest frame comes back first.
AnswerLast ==
    /\ way # << >>
    /\ received' = Append(received, way[Len(way)])
    /\ way' = SubSeq(way, 1, Len(way) - 1)
    /\ UNCHANGED <<sent, broken>>

Answer ==
    /\ way # << >>
    /\ received' = Append(received, Head(way))
    /\ way' = Tail(way)
    /\ UNCHANGED <<sent, broken>>

\* The worker dies or is ended: the answers it has not sent yet are gone.
Cut ==
    /\ \E n \in 0 .. Len(way) : way' = SubSeq(way, 1, n)
    /\ broken' = TRUE
    /\ UNCHANGED <<sent, received>>

Next == (\E id \in 1 .. N : Ask(id)) \/ Answer \/ Cut

Safety == Init /\ [][Next]_vars
=============================================================================
