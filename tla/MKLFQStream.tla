---------------------------- MODULE MKLFQStream ----------------------------
(***************************************************************************)
(* mklfq/: a run of the program over streams whose subscriptions are       *)
(* blocking queues of optionals.  The end of a stream is told twice: by    *)
(* the flag m_terminated and by an empty optional behind the last frame.   *)
(* A barrier starts the threads together.                                  *)
(*                                                                         *)
(* The moodycamel queue is taken for what mklfqstream.h relies on: an      *)
(* element is in the queue before the semaphore is signalled for it, and   *)
(* enqueue() fails, without a trace, only when its blocks are full and no  *)
(* further one can be allocated.  push() ignores that result.              *)
(***************************************************************************)
EXTENDS Topology, Sequences, FiniteSets

CONSTANT Capacity   \* elements the first block of a queue holds: 511 for the 256 asked for

ASSUME CapacityAssumption == Capacity \in Nat \ {0}
ASSUME FiniteThreads == IsFiniteSet(Threads)

VARIABLES
    main,        \* main thread: "join", "exit"
    pc,          \* pc[t]: where thread t is
    waiting,     \* Barrier: BarrierData::count
    count,       \* count[t]: id of the frame feeder t pushes next
    todo,        \* todo[t]: what is left of the feeder's walk over m_subs
    subs,        \* subs[s]: MKLFQStream::m_subs
    sMutex,      \* sMutex[s]: MKLFQStream::m_mutex is locked
    queue,       \* queue[c]: MKLFQStreamSubscription::m_queue, frames by id or NullOpt
    signals,     \* signals[c]: its semaphore, signals no wait has taken
    terminated,  \* terminated[c]: m_terminated
    got,         \* got[c]: history of the frames next() returned to consumer c
    refused      \* refused[c]: history of the frames enqueue() did not take

shared == <<subs, sMutex, queue, signals, terminated>>
history == <<got, refused>>
vars == <<main, pc, waiting, count, todo, shared, history>>

\* std::nullopt as an element of a queue; the ids of frames begin with 1.
NullOpt == 0

\* c is in the m_subs of its stream.
Subscribed(c) == \E i \in DOMAIN subs[In[c]] : subs[In[c]][i] = c

Goto(t, l) == pc' = [pc EXCEPT ![t] = l]

\* Behind the loop over next().
AfterLoop(t) == IF t \in Feeders THEN "term" ELSE "done"

\* Mutant: the barrier is one thread short.
GoalShort == Cardinality(Threads) - 1

\* The number each program hands to its barrier is that of its threads.
Goal == Cardinality(Threads)

Init ==
    /\ main       = "join"
    /\ pc         = [t \in Threads |-> IF t = Producer THEN "barrier" ELSE "start"]
    /\ waiting    = Goal
    /\ count      = [t \in Feeders |-> 1]
    /\ todo       = [t \in Feeders |-> << >>]
    /\ subs       = [s \in Streams |-> << >>]
    /\ sMutex     = [s \in Streams |-> FALSE]
    /\ queue      = [c \in Consumers |-> << >>]
    /\ signals    = [c \in Consumers |-> 0]
    /\ terminated = [c \in Consumers |-> FALSE]
    /\ got        = [c \in Consumers |-> << >>]
    /\ refused    = [c \in Consumers |-> {}]
-----------------------------------------------------------------------------
\* The joins are over; the destructors of the streams terminate them once more.
MainReturn ==
    LET left == {c \in Consumers : Subscribed(c)}
    IN  /\ main = "join"
        /\ \A t \in Threads : pc[t] = "done"
        /\ main' = "exit"
        /\ terminated' = [c \in Consumers |-> terminated[c] \/ c \in left]
        /\ queue' = [c \in Consumers |->
                        IF c \in left THEN Append(queue[c], NullOpt) ELSE queue[c]]
        /\ signals' = [c \in Consumers |-> IF c \in left THEN signals[c] + 1 ELSE signals[c]]
        /\ subs' = [s \in Streams |-> << >>]
        /\ UNCHANGED <<pc, waiting, count, todo, sMutex, history>>
-----------------------------------------------------------------------------
(* Barrier::wait, called once by each thread.                              *)

Behind(t) == IF t = Producer THEN "push" ELSE "next"

\* The QMutex is held from the decrement to the wait, and to the end of
\* wakeAll(), so that the call is one step until the thread is parked.  A
\* QWaitCondition has no spurious wakeups.
BarrierWait(t) ==
    /\ pc[t] = "barrier"
    /\ waiting' = waiting - 1
    /\ pc' = IF waiting > 1
             THEN [pc EXCEPT ![t] = "parked"]
             ELSE [u \in Threads |-> IF u = t \/ pc[u] = "parked" THEN Behind(u) ELSE pc[u]]
    /\ UNCHANGED <<main, count, todo, shared, history>>
-----------------------------------------------------------------------------
(* MKLFQStream::subscribe and MKLFQStreamSubscription::next, called by the *)
(* consumers.                                                              *)

Subscribe(c) ==
    /\ pc[c] = "start"
    /\ ~ sMutex[In[c]]
    /\ subs' = [subs EXCEPT ![In[c]] = Append(@, c)]
    /\ Goto(c, "barrier")
    /\ UNCHANGED <<main, waiting, count, todo, sMutex, queue, signals, terminated, history>>

\* next() reads m_terminated.
NextCheck(c) ==
    /\ pc[c] = "next"
    /\ Goto(c, IF terminated[c] THEN "peek" ELSE "wait")
    /\ UNCHANGED <<main, waiting, count, todo, shared, history>>

\* Mutant: next() does not look for what is left in a terminated queue.
PeekForgotten(c) ==
    /\ pc[c] = "peek"
    /\ Goto(c, AfterLoop(c))
    /\ UNCHANGED <<main, waiting, count, todo, shared, history>>

\* An element is visible here before the semaphore is signalled for it.
Peek(c) ==
    /\ pc[c] = "peek"
    /\ Goto(c, IF queue[c] = << >> THEN AfterLoop(c) ELSE "wait")
    /\ UNCHANGED <<main, waiting, count, todo, shared, history>>

\* Mutant: a wait leaves the count of the semaphore as it is.
WaitSignalKept(c) ==
    /\ pc[c] = "wait"
    /\ signals[c] > 0
    /\ Goto(c, "dequeue")
    /\ UNCHANGED <<main, waiting, count, todo, shared, history>>

\* wait_dequeue: sema->wait().
WaitSignal(c) ==
    /\ pc[c] = "wait"
    /\ signals[c] > 0
    /\ signals' = [signals EXCEPT ![c] = @ - 1]
    /\ Goto(c, "dequeue")
    /\ UNCHANGED <<main, waiting, count, todo, subs, sMutex, queue, terminated, history>>

\* wait_dequeue: inner.try_dequeue(), whose success is asserted.  The empty optional ends the caller's loop.
Dequeue(c) ==
    /\ pc[c] = "dequeue"
    /\ queue[c] # << >>
    /\ queue' = [queue EXCEPT ![c] = Tail(@)]
    /\ IF Head(queue[c]) = NullOpt
       THEN /\ Goto(c, AfterLoop(c))
            /\ UNCHANGED got
       ELSE /\ got' = [got EXCEPT ![c] = Append(@, Head(queue[c]))]
            /\ Goto(c, IF c \in Feeders THEN "push" ELSE "next")
    /\ UNCHANGED <<main, waiting, count, todo, subs, sMutex, signals, terminated, refused>>

Consume(c) ==
    \/ Subscribe(c)
    \/ NextCheck(c) \/ Peek(c) \/ WaitSignal(c) \/ Dequeue(c)
-----------------------------------------------------------------------------
(* MKLFQStream::push and MKLFQStream::terminate, called by the feeders.    *)

PushLock(t) ==
    /\ pc[t] = "push"
    /\ ~ sMutex[Out[t]]
    /\ sMutex' = [sMutex EXCEPT ![Out[t]] = TRUE]
    /\ todo' = [todo EXCEPT ![t] = subs[Out[t]]]
    /\ Goto(t, "visit")
    /\ UNCHANGED <<main, waiting, count, subs, queue, signals, terminated, history>>

Full(c) == Len(queue[c]) >= Capacity

\* Mutant: enqueue() puts the element into the last place once more instead.
PushEnqueueOver(t) ==
    /\ pc[t] = "visit"
    /\ todo[t] # << >>
    /\ LET c == Head(todo[t])
       IN  queue' = [queue EXCEPT ![c] = IF Full(c) THEN [@ EXCEPT ![Len(@)] = count[t]]
                                                    ELSE Append(@, count[t])]
    /\ Goto(t, "signal")
    /\ UNCHANGED <<main, waiting, count, todo, subs, sMutex, signals, terminated, history>>

PushEnqueue(t) ==
    /\ pc[t] = "visit"
    /\ todo[t] # << >>
    /\ queue' = [queue EXCEPT ![Head(todo[t])] = Append(@, count[t])]
    /\ Goto(t, "signal")
    /\ UNCHANGED <<main, waiting, count, todo, subs, sMutex, signals, terminated, history>>

\* enqueue() returns false: the frame is gone.
PushRefused(t) ==
    /\ pc[t] = "visit"
    /\ todo[t] # << >>
    /\ Full(Head(todo[t]))
    /\ refused' = [refused EXCEPT ![Head(todo[t])] = @ \cup {count[t]}]
    /\ todo' = [todo EXCEPT ![t] = Tail(@)]
    /\ UNCHANGED <<main, pc, waiting, count, shared, got>>

PushSignal(t) ==
    /\ pc[t] = "signal"
    /\ signals' = [signals EXCEPT ![Head(todo[t])] = @ + 1]
    /\ todo' = [todo EXCEPT ![t] = Tail(@)]
    /\ Goto(t, "visit")
    /\ UNCHANGED <<main, waiting, count, subs, sMutex, queue, terminated, history>>

\* Back in the loop: the producer counts to N, a transformer asks for more.
PushUnlock(t) ==
    /\ pc[t] = "visit"
    /\ todo[t] = << >>
    /\ sMutex' = [sMutex EXCEPT ![Out[t]] = FALSE]
    /\ count' = [count EXCEPT ![t] = @ + 1]
    /\ Goto(t, IF t # Producer THEN "next"
               ELSE IF count[t] = N THEN "term" ELSE "push")
    /\ UNCHANGED <<main, waiting, todo, subs, queue, signals, terminated, history>>

TermLock(t) ==
    /\ pc[t] = "term"
    /\ ~ sMutex[Out[t]]
    /\ sMutex' = [sMutex EXCEPT ![Out[t]] = TRUE]
    /\ todo' = [todo EXCEPT ![t] = subs[Out[t]]]
    /\ Goto(t, "flag")
    /\ UNCHANGED <<main, waiting, count, subs, queue, signals, terminated, history>>

\* Mutant: terminate() relies on the empty optional alone.
TermFlagForgotten(t) ==
    /\ pc[t] = "flag"
    /\ todo[t] # << >>
    /\ Goto(t, "mark")
    /\ UNCHANGED <<main, waiting, count, todo, shared, history>>

TermFlag(t) ==
    /\ pc[t] = "flag"
    /\ todo[t] # << >>
    /\ terminated' = [terminated EXCEPT ![Head(todo[t])] = TRUE]
    /\ Goto(t, "mark")
    /\ UNCHANGED <<main, waiting, count, todo, subs, sMutex, queue, signals, history>>

TermEnqueue(t) ==
    /\ pc[t] = "mark"
    /\ queue' = [queue EXCEPT ![Head(todo[t])] = Append(@, NullOpt)]
    /\ Goto(t, "sigmark")
    /\ UNCHANGED <<main, waiting, count, todo, subs, sMutex, signals, terminated, history>>

TermRefused(t) ==
    /\ pc[t] = "mark"
    /\ Full(Head(todo[t]))
    /\ todo' = [todo EXCEPT ![t] = Tail(@)]
    /\ Goto(t, "flag")
    /\ UNCHANGED <<main, waiting, count, shared, history>>

TermSignal(t) ==
    /\ pc[t] = "sigmark"
    /\ signals' = [signals EXCEPT ![Head(todo[t])] = @ + 1]
    /\ todo' = [todo EXCEPT ![t] = Tail(@)]
    /\ Goto(t, "flag")
    /\ UNCHANGED <<main, waiting, count, subs, sMutex, queue, terminated, history>>

TermClear(t) ==
    /\ pc[t] = "flag"
    /\ todo[t] = << >>
    /\ subs' = [subs EXCEPT ![Out[t]] = << >>]
    /\ sMutex' = [sMutex EXCEPT ![Out[t]] = FALSE]
    /\ Goto(t, "done")
    /\ UNCHANGED <<main, waiting, count, todo, queue, signals, terminated, history>>

Feed(t) ==
    \/ PushLock(t) \/ PushEnqueue(t) \/ PushRefused(t) \/ PushSignal(t) \/ PushUnlock(t)
    \/ TermLock(t) \/ TermFlag(t) \/ TermEnqueue(t) \/ TermRefused(t) \/ TermSignal(t)
    \/ TermClear(t)
-----------------------------------------------------------------------------
Step(t) == \/ BarrierWait(t)
           \/ t \in Consumers /\ Consume(t)
           \/ t \in Feeders /\ Feed(t)

Next == MainReturn \/ \E t \in Threads : Step(t)

Safety == Init /\ [][Next]_vars

\* The operating system runs every thread that can go on.
Fairness == WF_vars(MainReturn) /\ \A t \in Threads : WF_vars(Step(t))

Spec == Safety /\ Fairness
-----------------------------------------------------------------------------
(* Properties.                                                             *)

Places ==
    {"start", "barrier", "parked", "next", "peek", "wait", "dequeue", "push", "visit",
     "signal", "term", "flag", "mark", "sigmark", "done"}

\* Type invariant.
TypeOK ==
    /\ main \in {"join", "exit"}
    /\ pc \in [Threads -> Places]
    /\ waiting \in Nat
    /\ count \in [Feeders -> Nat \ {0}]
    /\ count[Producer] <= N + 1
    /\ todo \in [Feeders -> Seq(Consumers)]
    /\ subs \in [Streams -> Seq(Consumers)]
    /\ sMutex \in [Streams -> BOOLEAN]
    /\ queue \in [Consumers -> Seq(Nat)]
    /\ signals \in [Consumers -> Nat]
    /\ terminated \in [Consumers -> BOOLEAN]
    /\ got \in [Consumers -> Seq(Nat)]
    /\ refused \in [Consumers -> SUBSET Nat]

\* next() has answered nullopt.
Ended(c) == pc[c] \in {"term", "flag", "mark", "sigmark", "done"}

\* The frames in a queue: all of it but for the empty optional at the end.
Frames(q) == IF q # << >> /\ q[Len(q)] = NullOpt THEN SubSeq(q, 1, Len(q) - 1) ELSE q

\* Feeder t is at the subscription c, at place l of its walk.
At(t, l, c) == pc[t] = l /\ todo[t] # << >> /\ Head(todo[t]) = c

\* assert(success) in wait_dequeue: whoever has taken a signal finds an element, and
\* the semaphore never holds more signals than there are elements for.
DequeueSucceeds ==
    \A c \in Consumers :
        Len(queue[c]) >= signals[c] + (IF pc[c] = "dequeue" THEN 1 ELSE 0)

\* Nobody is behind the barrier before everybody has come to it: no frame is pushed
\* before every consumer of either stream has subscribed.
StartsTogether ==
    (\E t \in Threads : pc[t] \notin {"start", "barrier", "parked"}) =>
        \A c \in Consumers : pc[c] \notin {"start", "barrier"}

\* The id of the frame that was offered to c last.
LastOffered(c) ==
    LET f == Feeder(In[c])
        offered == /\ pc[f] \in {"visit", "signal"}
                   /\ \/ At(f, "signal", c)
                      \/ \A i \in DOMAIN todo[f] : todo[f][i] # c
    IN  IF offered THEN count[f] ELSE count[f] - 1

\* Each frame of its stream, from the first one, has been handed to a consumer once,
\* is in its queue, or was refused for want of memory; no other frame is there, and
\* all are in order.
EveryFrameAccounted ==
    \A c \in Consumers :
        LET seen == got[c] \o Frames(queue[c])
            ids  == {seen[i] : i \in DOMAIN seen}
        IN  /\ \A i, j \in DOMAIN seen : i < j => seen[i] < seen[j]
            /\ ids \cap refused[c] = {}
            /\ ids \cup refused[c] = 1 .. LastOffered(c)

One(b) == IF b THEN 1 ELSE 0

Early == {t \in Threads : pc[t] \in {"start", "barrier"}}

\* The inductive invariant, part 1: the barrier counts those who have not come to it;
\* who is parked there is released with the last of them.
BarrierInv ==
    /\ waiting = Cardinality(Early)
    /\ \/ \A t \in Threads : pc[t] \in {"start", "barrier", "parked"}
       \/ \A t \in Threads : pc[t] \notin {"start", "barrier", "parked"}
    /\ pc[Producer] # "start"

\* Part 2: a feeder's walk comes to each subscription of its stream once, and it leaves
\* m_subs empty.
WalksAreOwn ==
    /\ \A s \in Streams : \A i \in DOMAIN subs[s] :
          /\ In[subs[s][i]] = s /\ pc[subs[s][i]] # "start"
          /\ \A j \in DOMAIN subs[s] : subs[s][i] = subs[s][j] => i = j
    /\ \A f \in Feeders : \A i \in DOMAIN todo[f] :
          /\ In[todo[f][i]] = Out[f]
          /\ \A j \in DOMAIN todo[f] : todo[f][i] = todo[f][j] => i = j
    /\ \A f \in Feeders : pc[f] \in {"signal", "mark", "sigmark"} => todo[f] # << >>
    /\ \A f \in Feeders : pc[f] = "done" => subs[Out[f]] = << >>

\* Part 3: inside its loop the producer has a frame left to push.
ProducerInLoop ==
    pc[Producer] \in {"barrier", "parked", "push", "visit", "signal"} => count[Producer] <= N

\* Part 4, for each subscription: every signal, sent, taken or about to be sent, has its
\* element; the empty optional comes behind the last frame, at the feeder's last visit;
\* and until the feeder is done, the subscription stays in m_subs.
SubscriptionInv(c) ==
    LET f     == Feeder(In[c])
        giving == At(f, "signal", c) \/ At(f, "sigmark", c)
        told  == \E i \in DOMAIN queue[c] : queue[c][i] = NullOpt
    IN  /\ Len(queue[c]) >= signals[c] + One(pc[c] = "dequeue") + One(giving)
        /\ \A i \in DOMAIN queue[c] : queue[c][i] = NullOpt => i = Len(queue[c])
        /\ told => /\ pc[f] \in {"flag", "mark", "sigmark", "done"}
                   /\ \/ At(f, "sigmark", c)
                      \/ \A i \in DOMAIN todo[f] : todo[f][i] # c
        /\ pc[c] # "start" /\ pc[f] # "done" => Subscribed(c)

\* Each part holds in every reachable state, and every step preserves them together.
Inv ==
    /\ TypeOK
    /\ BarrierInv
    /\ WalksAreOwn
    /\ ProducerInLoop
    /\ \A c \in Consumers : SubscriptionInv(c)

Promise == INSTANCE StreamPromise WITH
    Lossy  <- TRUE,
    queue  <- [c \in Consumers |-> Frames(queue[c])],
    ended  <- terminated,
    closed <- [c \in Consumers |-> Ended(c)]

\* The blocking queue with its two signs of the end keeps the promise of a stream,
\* frames refused for want of memory aside: order, the end behind the data, and no
\* consumer left asleep on either, even if the empty optional itself is refused.
KeepsPromise == Promise!Spec

\* Every run comes to the end of its joins, whatever is refused.
RunEnds == <>(main = "exit")
=============================================================================
