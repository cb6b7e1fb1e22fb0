--------------------------- MODULE StreamPromise ---------------------------
(***************************************************************************)
(* What a stream class promises to each of its subscriptions, whatever     *)
(* queue, lock or semaphore it is built from: next() hands out the frames  *)
(* pushed to the subscription in the order of their ids, each once, and    *)
(* once the stream is terminated it hands out what is left and then        *)
(* answers std::nullopt.  If Lossy, a push may leave frames out (the       *)
(* bounded queue of lfq/ drops when it is full); otherwise the ids are     *)
(* consecutive from the first frame the subscription sees.                 *)
(***************************************************************************)
EXTENDS Naturals, Sequences

CONSTANTS Consumers, N, Lossy

VARIABLES
    queue,      \* queue[c]: pushed and not yet handed out
    got,        \* got[c]: the frames next() has handed out
    ended,      \* ended[c]: the subscription was told of the termination
    closed      \* closed[c]: next() has answered nullopt

vars == <<queue, got, ended, closed>>

Last(s) == s[Len(s)]

\* The frames a push may add to what subscription c has been given so far.
Acceptable(c) ==
    LET seen == got[c] \o queue[c]
    IN  IF seen = << >> THEN 1..N
        ELSE IF Lossy   THEN (Last(seen) + 1)..N
        ELSE {f \in 1..N : f = Last(seen) + 1}

Init ==
    /\ queue  = [c \in Consumers |-> << >>]
    /\ got    = [c \in Consumers |-> << >>]
    /\ ended  = [c \in Consumers |-> FALSE]
    /\ closed = [c \in Consumers |-> FALSE]

Publish(c) ==
    /\ ~ ended[c]
    /\ \E f \in Acceptable(c) : queue' = [queue EXCEPT ![c] = Append(@, f)]
    /\ UNCHANGED <<got, ended, closed>>

Deliver(c) ==
    /\ queue[c] # << >>
    /\ ~ closed[c]
    /\ got'   = [got EXCEPT ![c] = Append(@, Head(queue[c]))]
    /\ queue' = [queue EXCEPT ![c] = Tail(@)]
    /\ UNCHANGED <<ended, closed>>

Terminate(c) ==
    /\ ended' = [ended EXCEPT ![c] = TRUE]
    /\ UNCHANGED <<queue, got, closed>>

Close(c) ==
    /\ ended[c]
    /\ queue[c] = << >>
    /\ ~ closed[c]
    /\ closed' = [closed EXCEPT ![c] = TRUE]
    /\ UNCHANGED <<queue, got, ended>>

\* next() comes back.
Answer(c) == Deliver(c) \/ Close(c)

Next == \E c \in Consumers : Publish(c) \/ Terminate(c) \/ Answer(c)

Safety == Init /\ [][Next]_vars

\* A subscription that has frames hands them out, and one that has ended
\* and is empty says so: no reader sleeps on data or on the end.
Fairness == \A c \in Consumers : WF_vars(Answer(c))

Spec == Safety /\ Fairness
=============================================================================
