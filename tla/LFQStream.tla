----------------------------- MODULE LFQStream -----------------------------
(***************************************************************************)
(* lfq/: a run of the program over streams whose subscriptions are         *)
(* lock-free rings.  A consumer that finds its ring empty sleeps on a      *)
(* condition variable; the feeder notifies it after each write, without    *)
(* holding the mutex the consumer waits with.                              *)
(*                                                                         *)
(* A ring is the bounded queue that ProducerConsumerQueue is shown to      *)
(* implement: a write appends or is refused, a read takes the head, and    *)
(* the reader's isEmpty() compares with the index the writer has stored.   *)
(* m_mtxNodata has no variable: only the consumer of the subscription ever *)
(* locks it.                                                               *)
(***************************************************************************)
EXTENDS Topology, Sequences

CONSTANT Capacity       \* values a ring holds; 4096 - 1 in lfqstream.h

ASSUME CapacityAssumption == Capacity \in Nat \ {0}

VARIABLES
    main,        \* main thread: "launch", "join" (producer_running), "exit", "crash"
    pc,          \* pc[t]: where thread t is
    count,       \* count[t]: id of the frame feeder t pushes next
    todo,        \* todo[t]: what is left of the feeder's walk over m_subs
    subs,        \* subs[s]: LFQStream::m_subs
    sMutex,      \* sMutex[s]: LFQStream::m_mutex is locked
    queue,       \* queue[c]: LFQStreamSubscription::m_queue, frames by id
    terminated,  \* terminated[c]: m_terminated
    got,         \* got[c]: history of what next() returned to consumer c
    refused,     \* refused[c]: history of the frames write() did not take
    joined       \* joined[c]: history, the frame its feeder was to push next when c subscribed

shared == <<subs, sMutex, queue, terminated>>
history == <<got, refused, joined>>
vars == <<main, pc, count, todo, shared, history>>

\* c is in the m_subs of its stream.
Subscribed(c) == \E i \in DOMAIN subs[In[c]] : subs[In[c]][i] = c

Goto(t, l) == pc' = [pc EXCEPT ![t] = l]

Running == main \in {"launch", "join"}

\* Behind the loop over next().
AfterLoop(t) == IF t \in Feeders THEN "term" ELSE "done"

Init ==
    /\ main       = "launch"
    /\ pc         = [t \in Threads |-> "start"]
    /\ count      = [t \in Feeders |-> 1]
    /\ todo       = [t \in Feeders |-> << >>]
    /\ subs       = [s \in Streams |-> << >>]
    /\ sMutex     = [s \in Streams |-> FALSE]
    /\ queue      = [c \in Consumers |-> << >>]
    /\ terminated = [c \in Consumers |-> FALSE]
    /\ got        = [c \in Consumers |-> << >>]
    /\ refused    = [c \in Consumers |-> {}]
    /\ joined     = [c \in Consumers |-> 0]
-----------------------------------------------------------------------------
(* The main thread.                                                        *)

StartProducing ==
    /\ main = "launch"
    /\ main' = "join"
    /\ UNCHANGED <<pc, count, todo, shared, history>>

\* The joins are over; the destructors of the streams terminate them.
MainReturn ==
    /\ main = "join"
    /\ \A t \in Threads : pc[t] = "done"
    /\ main' = "exit"
    /\ terminated' = [c \in Consumers |-> terminated[c] \/ Subscribed(c)]
    /\ subs' = [s \in Streams |-> << >>]
    /\ UNCHANGED <<pc, count, todo, sMutex, queue, history>>
-----------------------------------------------------------------------------
(* LFQStream::subscribe and LFQStreamSubscription::next.                   *)

\* terminate() walks over m_subs and clears it without m_mutex.
Unguarded(s) == pc[Feeder(s)] \in {"flag", "wakeup"}

\* A push_back under that walk is a data race on the vector: it may go unnoticed,
\* or move the elements away from under the walk, which ends the process.
Subscribe(c) ==
    /\ pc[c] = "start"
    /\ ~ sMutex[In[c]]
    /\ \/ /\ subs' = [subs EXCEPT ![In[c]] = Append(@, c)]
          /\ joined' = [joined EXCEPT ![c] = count[Feeder(In[c])]]
          /\ Goto(c, "next")
          /\ UNCHANGED main
       \/ /\ Unguarded(In[c])
          /\ main' = "crash"
          /\ UNCHANGED <<pc, subs, joined>>
    /\ UNCHANGED <<count, todo, sMutex, queue, terminated, got, refused>>

\* The isEmpty() outside and inside of the waiting loop.
NextCheck(c) ==
    /\ pc[c] = "next"
    /\ Goto(c, IF queue[c] # << >> THEN "recheck" ELSE "loop")
    /\ UNCHANGED <<main, count, todo, shared, history>>

LoopCheck(c) ==
    /\ pc[c] = "loop"
    /\ Goto(c, IF queue[c] # << >> THEN "recheck" ELSE "looptest")
    /\ UNCHANGED <<main, count, todo, shared, history>>

\* The !m_terminated of the loop's condition.
LoopTest(c) ==
    /\ pc[c] = "looptest"
    /\ Goto(c, IF terminated[c] THEN "recheck" ELSE "towait")
    /\ UNCHANGED <<main, count, todo, shared, history>>

\* m_waitrd.wait(lock): from here on a notification reaches the consumer.
Wait(c) ==
    /\ pc[c] = "towait"
    /\ Goto(c, "wait")
    /\ UNCHANGED <<main, count, todo, shared, history>>

\* Mutant: an if in the place of the while around the wait.
SpuriousIf(c) ==
    /\ pc[c] = "wait"
    /\ Goto(c, "recheck")
    /\ UNCHANGED <<main, count, todo, shared, history>>

\* A condition variable may wake up by itself.
Spurious(c) ==
    /\ pc[c] = "wait"
    /\ Goto(c, "loop")
    /\ UNCHANGED <<main, count, todo, shared, history>>

\* Mutant: the second test looks at m_terminated only.
RecheckFlag(c) ==
    /\ pc[c] = "recheck"
    /\ Goto(c, IF terminated[c] THEN AfterLoop(c) ELSE "read")
    /\ UNCHANGED <<main, count, todo, shared, history>>

\* isEmpty() && m_terminated; m_terminated is read when the queue was empty, and
\* then it does not change any more.
Recheck(c) ==
    /\ pc[c] = "recheck"
    /\ Goto(c, IF queue[c] = << >> /\ terminated[c] THEN AfterLoop(c) ELSE "read")
    /\ UNCHANGED <<main, count, todo, shared, history>>

\* The result of read() is not looked at: without data next() would return a
\* default-constructed frame, here the id 0.
Read(c) ==
    /\ pc[c] = "read"
    /\ IF queue[c] # << >>
       THEN /\ got' = [got EXCEPT ![c] = Append(@, Head(queue[c]))]
            /\ queue' = [queue EXCEPT ![c] = Tail(@)]
       ELSE /\ got' = [got EXCEPT ![c] = Append(@, 0)]
            /\ UNCHANGED queue
    /\ Goto(c, IF c \in Feeders THEN "push" ELSE "next")
    /\ UNCHANGED <<main, count, todo, subs, sMutex, terminated, refused, joined>>

Consume(c) ==
    \/ Subscribe(c)
    \/ NextCheck(c) \/ LoopCheck(c) \/ LoopTest(c) \/ Wait(c)
    \/ Recheck(c) \/ Read(c)
-----------------------------------------------------------------------------
(* LFQStream::push and LFQStream::terminate.                               *)

\* notify_all: the consumer returns from its wait, if it is waiting.
Notify(t, l) ==
    LET c == Head(todo[t])
    IN  pc' = [pc EXCEPT ![t] = l,
                         ![c] = IF @ = "wait" THEN "loop" ELSE @]

\* while (!producer_running) {}
BeginProducing(t) ==
    /\ t = Producer
    /\ pc[t] = "start"
    /\ main = "join"
    /\ Goto(t, "push")
    /\ UNCHANGED <<main, count, todo, shared, history>>

PushLock(t) ==
    /\ pc[t] = "push"
    /\ ~ sMutex[Out[t]]
    /\ sMutex' = [sMutex EXCEPT ![Out[t]] = TRUE]
    /\ todo' = [todo EXCEPT ![t] = subs[Out[t]]]
    /\ Goto(t, "visit")
    /\ UNCHANGED <<main, count, subs, queue, terminated, history>>

\* Mutant: a full ring overwrites its oldest frame.
PushWriteOver(t) ==
    LET c == Head(todo[t])
    IN  /\ pc[t] = "visit"
        /\ todo[t] # << >>
        /\ queue' = [queue EXCEPT ![c] =
                        Append(IF Len(@) < Capacity THEN @ ELSE Tail(@), count[t])]
        /\ Goto(t, "notify")
        /\ UNCHANGED <<main, count, todo, subs, sMutex, terminated, history>>

\* Mutant: write() keeps one slot more free than it has to.
PushWriteEarly(t) ==
    LET c == Head(todo[t])
    IN  /\ pc[t] = "visit"
        /\ todo[t] # << >>
        /\ IF Len(queue[c]) + 1 < Capacity
           THEN /\ queue' = [queue EXCEPT ![c] = Append(@, count[t])]
                /\ UNCHANGED refused
           ELSE /\ refused' = [refused EXCEPT ![c] = @ \cup {count[t]}]
                /\ UNCHANGED queue
        /\ Goto(t, "notify")
        /\ UNCHANGED <<main, count, todo, subs, sMutex, terminated, got, joined>>

\* m_queue.write(data), whose result is not looked at: a full queue drops data.
PushWrite(t) ==
    LET c == Head(todo[t])
    IN  /\ pc[t] = "visit"
        /\ todo[t] # << >>
        /\ IF Len(queue[c]) < Capacity
           THEN /\ queue' = [queue EXCEPT ![c] = Append(@, count[t])]
                /\ UNCHANGED refused
           ELSE /\ refused' = [refused EXCEPT ![c] = @ \cup {count[t]}]
                /\ UNCHANGED queue
        /\ Goto(t, "notify")
        /\ UNCHANGED <<main, count, todo, subs, sMutex, terminated, got, joined>>

\* Mutant: the walk over m_subs does not move on.
PushNotifyTwice(t) ==
    /\ pc[t] = "notify"
    /\ Notify(t, "visit")
    /\ UNCHANGED <<main, count, todo, shared, history>>

PushNotify(t) ==
    /\ pc[t] = "notify"
    /\ todo' = [todo EXCEPT ![t] = Tail(@)]
    /\ Notify(t, "visit")
    /\ UNCHANGED <<main, count, shared, history>>

\* Mutant: push() leaves m_mutex locked.
PushUnlockForgotten(t) ==
    /\ pc[t] = "visit"
    /\ todo[t] = << >>
    /\ count' = [count EXCEPT ![t] = @ + 1]
    /\ Goto(t, IF t # Producer THEN "next"
               ELSE IF count[t] = N THEN "term" ELSE "push")
    /\ UNCHANGED <<main, todo, shared, history>>

\* Back in the loop: the producer counts to N, a transformer asks for more.
PushUnlock(t) ==
    /\ pc[t] = "visit"
    /\ todo[t] = << >>
    /\ sMutex' = [sMutex EXCEPT ![Out[t]] = FALSE]
    /\ count' = [count EXCEPT ![t] = @ + 1]
    /\ Goto(t, IF t # Producer THEN "next"
               ELSE IF count[t] = N THEN "term" ELSE "push")
    /\ UNCHANGED <<main, todo, subs, queue, terminated, history>>

\* terminate() does not take m_mutex.
TermBegin(t) ==
    /\ pc[t] = "term"
    /\ todo' = [todo EXCEPT ![t] = subs[Out[t]]]
    /\ Goto(t, "flag")
    /\ UNCHANGED <<main, count, shared, history>>

TermFlag(t) ==
    /\ pc[t] = "flag"
    /\ todo[t] # << >>
    /\ terminated' = [terminated EXCEPT ![Head(todo[t])] = TRUE]
    /\ Goto(t, "wakeup")
    /\ UNCHANGED <<main, count, todo, subs, sMutex, queue, history>>

\* Mutant: terminate() notifies nobody.
TermNotifyNobody(t) ==
    /\ pc[t] = "wakeup"
    /\ todo' = [todo EXCEPT ![t] = Tail(@)]
    /\ Goto(t, "flag")
    /\ UNCHANGED <<main, count, shared, history>>

TermNotify(t) ==
    /\ pc[t] = "wakeup"
    /\ todo' = [todo EXCEPT ![t] = Tail(@)]
    /\ Notify(t, "flag")
    /\ UNCHANGED <<main, count, shared, history>>

TermClear(t) ==
    /\ pc[t] = "flag"
    /\ todo[t] = << >>
    /\ subs' = [subs EXCEPT ![Out[t]] = << >>]
    /\ Goto(t, "done")
    /\ UNCHANGED <<main, count, todo, sMutex, queue, terminated, history>>

Feed(t) ==
    \/ BeginProducing(t)
    \/ PushLock(t) \/ PushWrite(t) \/ PushNotify(t) \/ PushUnlock(t)
    \/ TermBegin(t) \/ TermFlag(t) \/ TermNotify(t) \/ TermClear(t)
-----------------------------------------------------------------------------
Main == StartProducing \/ MainReturn

Step(t) == /\ Running
           /\ \/ t \in Consumers /\ Consume(t)
              \/ t \in Feeders /\ Feed(t)

WakeUp(c) == Running /\ Spurious(c)

Next == \/ Main
        \/ \E t \in Threads : Step(t)
        \/ \E c \in Consumers : WakeUp(c)

Safety == Init /\ [][Next]_vars

\* The operating system runs every thread; nothing makes a condition variable
\* wake up by itself.
Fairness == WF_vars(Main) /\ \A t \in Threads : WF_vars(Step(t))

Spec == Safety /\ Fairness
-----------------------------------------------------------------------------
(* Properties.                                                             *)

Places ==
    {"start", "next", "loop", "looptest", "towait", "wait", "recheck", "read", "push",
     "visit", "notify", "term", "flag", "wakeup", "done"}

\* Type invariant.
TypeOK ==
    /\ main \in {"launch", "join", "exit", "crash"}
    /\ pc \in [Threads -> Places]
    /\ count \in [Feeders -> Nat \ {0}]
    /\ count[Producer] <= N + 1
    /\ todo \in [Feeders -> Seq(Consumers)]
    /\ subs \in [Streams -> Seq(Consumers)]
    /\ sMutex \in [Streams -> BOOLEAN]
    /\ queue \in [Consumers -> Seq(Nat)]
    /\ terminated \in [Consumers -> BOOLEAN]
    /\ got \in [Consumers -> Seq(Nat)]
    /\ refused \in [Consumers -> SUBSET Nat]
    /\ joined \in [Consumers -> Nat]

Ended(c) == pc[c] \in {"term", "flag", "wakeup", "done"}

\* next() reads only from a queue that has data, so that the result of read(),
\* which it ignores, is always true: after a spurious wakeup as well.
ReadNeverFails == \A c \in Consumers : pc[c] = "read" => queue[c] # << >>

\* next() answers nullopt only when the stream was terminated and the queue has
\* been emptied: m_terminated overtakes no frame.
EndsDrained == \A c \in Consumers : Ended(c) => terminated[c] /\ queue[c] = << >>

\* A full queue drops frames silently, but the first Capacity frames of a stream
\* always fit: with 2000 frames and 4095 places nothing is ever dropped.
FirstFramesFit == \A c \in Consumers : \A f \in refused[c] : f > Capacity

\* Feeder t is at the subscription c, at place l of its walk.
At(t, l, c) == pc[t] = l /\ todo[t] # << >> /\ Head(todo[t]) = c

\* The frame the feeder of c is pushing has been offered to c already.
Offered(c) ==
    LET f == Feeder(In[c])
    IN  /\ pc[f] \in {"visit", "notify"}
        /\ \/ At(f, "notify", c)
           \/ \A i \in DOMAIN todo[f] : todo[f][i] # c

\* The id of the frame that was offered to c last, if c was subscribed.
LastOffered(c) ==
    LET f == Feeder(In[c])
    IN  IF Offered(c) THEN count[f] ELSE count[f] - 1

\* Each frame pushed since c subscribed was handed out once, is in the queue, or was
\* refused by a full queue; no other frame is there, and all are in order.
EveryFrameAccounted ==
    \A c \in Consumers :
        LET seen == got[c] \o queue[c]
            ids  == {seen[i] : i \in DOMAIN seen}
        IN  /\ \A i, j \in DOMAIN seen : i < j => seen[i] < seen[j]
            /\ ids \cap refused[c] = {}
            /\ ids \cup refused[c] =
                  IF pc[c] = "start" THEN {} ELSE joined[c] .. LastOffered(c)

\* The inductive invariant, part 1: m_subs has each subscription of its stream once,
\* so that a feeder's walk comes to each one once.
WalksAreOwn ==
    /\ \A s \in Streams : \A i \in DOMAIN subs[s] :
          /\ In[subs[s][i]] = s /\ pc[subs[s][i]] # "start"
          /\ \A j \in DOMAIN subs[s] : subs[s][i] = subs[s][j] => i = j
    /\ \A f \in Feeders : \A i \in DOMAIN todo[f] :
          /\ In[todo[f][i]] = Out[f]
          /\ \A j \in DOMAIN todo[f] : todo[f][i] = todo[f][j] => i = j
    /\ \A f \in Feeders : pc[f] \in {"notify", "wakeup"} => todo[f] # << >>

\* Part 2: inside its loop the producer has a frame left to push.
ProducerInLoop ==
    pc[Producer] \in {"start", "push", "visit", "notify"} => count[Producer] <= N

\* Part 3, for each subscription: a consumer that leaves the wait does so for data or
\* for the end, its feeder tells it of the end only after the last push, and the
\* queue has no more frames than have been offered.
SubscriptionInv(c) ==
    /\ pc[c] = "recheck" => queue[c] # << >> \/ terminated[c]
    /\ pc[c] = "read" => queue[c] # << >>
    /\ Ended(c) => terminated[c] /\ queue[c] = << >>
    /\ terminated[c] => pc[Feeder(In[c])] \in {"flag", "wakeup", "done"}
    /\ Len(queue[c]) <= LastOffered(c)
    /\ \A f \in refused[c] : f > Capacity

\* Each part holds in every reachable state, and every step preserves them
\* together.
Inv ==
    /\ TypeOK
    /\ WalksAreOwn
    /\ ProducerInLoop
    /\ \A c \in Consumers : SubscriptionInv(c)

Promise == INSTANCE StreamPromise WITH
    Lossy  <- TRUE,
    ended  <- terminated,
    closed <- [c \in Consumers |-> Ended(c)]

\* The ring with its condition variable keeps the safe part of a stream's
\* promise: order, no repetition, nothing after the end.
KeepsOrder == Promise!Safety

\* c has subscribed and its feeder is through without having told it of the end:
\* it subscribed too late, or during the unguarded walk of terminate().
Orphan(c) == pc[c] # "start" /\ pc[Feeder(In[c])] = "done" /\ ~ terminated[c]

\* c fell asleep when the last notification of its feeder was gone already.
Forgotten(c) == pc[c] = "wait" /\ pc[Feeder(In[c])] = "done" /\ terminated[c]

\* Whoever sleeps before its stream is terminated is woken up, by a push or by the
\* termination, if its feeder is not asleep for ever itself.
SleepersAreWoken ==
    \A c \in Consumers :
        pc[c] = "wait" /\ ~ terminated[c] ~>
            \/ pc[c] # "wait" \/ Orphan(c) \/ main = "crash"
            \/ /\ Feeder(In[c]) \in Consumers
               /\ Orphan(Feeder(In[c])) \/ Forgotten(Feeder(In[c]))

\* A run that does not come to the end of its joins has crashed in the race of
\* subscribe() with terminate(), or it has an orphaned or forgotten consumer.
RunEnds ==
    <>(main \in {"exit", "crash"} \/ \E c \in Consumers : Orphan(c) \/ Forgotten(c))

\* main.cpp: "break; // subscription has been terminated": a consumer whose
\* subscription has been terminated comes to the end of its loop.
TerminationIsNoticed ==
    \A c \in Consumers : terminated[c] ~> (Ended(c) \/ main = "crash")
=============================================================================
