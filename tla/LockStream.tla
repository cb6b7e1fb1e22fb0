----------------------------- MODULE LockStream -----------------------------
(***************************************************************************)
(* lockbuf/: a run of the program over streams that are guarded by         *)
(* mutexes only.  Every subscription owns a queue, a mutex around it and a *)
(* second mutex, m_mtxNodata, that is used as a binary semaphore: it is    *)
(* locked while the queue is empty, and the feeder unlocks it.             *)
(*                                                                         *)
(* Unlocking a std::mutex from a thread that does not own it, or while it  *)
(* is unlocked, is undefined by the standard; a normal pthread mutex of    *)
(* glibc stores "unlocked" in both cases, and that is what nodata does     *)
(* here.                                                                   *)
(***************************************************************************)
EXTENDS Topology, Sequences

VARIABLES
    main,        \* main thread: "launch", "join" (producer_running), "exit", "exit9"
    pc,          \* pc[t]: where thread t is
    count,       \* count[t]: id of the frame feeder t pushes next
    todo,        \* todo[t]: what is left of the feeder's walk over m_subs
    subs,        \* subs[s]: LockStream::m_subs
    sMutex,      \* sMutex[s]: LockStream::m_mutex is locked
    buffer,      \* buffer[c]: LockStreamSubscription::m_buffer, frames by id
    nodata,      \* nodata[c]: m_mtxNodata is locked
    mutex,       \* mutex[c]: LockStreamSubscription::m_mutex is locked
    terminated,  \* terminated[c]: m_terminated
    got,         \* got[c]: history of what next() returned to consumer c
    joined       \* joined[c]: history, the frame its feeder was to push next when c subscribed

shared == <<subs, sMutex, buffer, nodata, mutex, terminated>>
vars == <<main, pc, count, todo, got, joined, shared>>

\* c is in the m_subs of its stream.
Subscribed(c) == \E i \in DOMAIN subs[In[c]] : subs[In[c]][i] = c

Goto(t, l) == pc' = [pc EXCEPT ![t] = l]

\* exit(9) ends the process: no thread runs after it.
Running == main \in {"launch", "join"}

\* Behind the loop over next(): a consumer returns, a transformer
\* terminates its own stream first.
AfterLoop(t) == IF t \in Feeders THEN "term" ELSE "done"

Init ==
    /\ main       = "launch"
    /\ pc         = [t \in Threads |-> "start"]
    /\ count      = [t \in Feeders |-> 1]
    /\ todo       = [t \in Feeders |-> << >>]
    /\ subs       = [s \in Streams |-> << >>]
    /\ sMutex     = [s \in Streams |-> FALSE]
    /\ buffer     = [c \in Consumers |-> << >>]
    /\ nodata     = [c \in Consumers |-> TRUE]
    /\ mutex      = [c \in Consumers |-> FALSE]
    /\ terminated = [c \in Consumers |-> FALSE]
    /\ got        = [c \in Consumers |-> << >>]
    /\ joined     = [c \in Consumers |-> 0]
-----------------------------------------------------------------------------
(* The main thread.                                                        *)

\* All threads exist: producer_running = true, then join.
StartProducing ==
    /\ main = "launch"
    /\ main' = "join"
    /\ UNCHANGED <<pc, count, todo, got, joined, shared>>

\* The joins are over; the destructors of the streams terminate them.
MainReturn ==
    LET left == {c \in Consumers : Subscribed(c)}
    IN  /\ main = "join"
        /\ \A t \in Threads : pc[t] = "done"
        /\ main' = "exit"
        /\ terminated' = [c \in Consumers |-> terminated[c] \/ c \in left]
        /\ nodata' = [c \in Consumers |-> nodata[c] /\ c \notin left]
        /\ subs' = [s \in Streams |-> << >>]
        /\ UNCHANGED <<pc, count, todo, got, joined, sMutex, buffer, mutex>>
-----------------------------------------------------------------------------
(* LockStream::subscribe and LockStreamSubscription::next, called by the   *)
(* consumers.                                                              *)

\* Mutant: subscribe() forgets to lock m_mutex.
SubscribeUnlocked(c) ==
    /\ pc[c] = "start"
    /\ subs' = [subs EXCEPT ![In[c]] = Append(@, c)]
    /\ joined' = [joined EXCEPT ![c] = count[Feeder(In[c])]]
    /\ Goto(c, "next")
    /\ UNCHANGED <<main, count, todo, got, sMutex, buffer, nodata, mutex, terminated>>

Subscribe(c) ==
    /\ pc[c] = "start"
    /\ ~ sMutex[In[c]]
    /\ subs' = [subs EXCEPT ![In[c]] = Append(@, c)]
    /\ joined' = [joined EXCEPT ![c] = count[Feeder(In[c])]]
    /\ Goto(c, "next")
    /\ UNCHANGED <<main, count, todo, got, sMutex, buffer, nodata, mutex, terminated>>

\* next() reads m_terminated to choose between try_lock and lock.
NextCheck(c) ==
    /\ pc[c] = "next"
    /\ Goto(c, IF terminated[c] THEN "trydata" ELSE "waitdata")
    /\ UNCHANGED <<main, count, todo, got, joined, shared>>

TryData(c) ==
    /\ pc[c] = "trydata"
    /\ nodata' = [nodata EXCEPT ![c] = TRUE]
    /\ Goto(c, IF nodata[c] THEN AfterLoop(c) ELSE "lockbuf")
    /\ UNCHANGED <<main, count, todo, got, joined, subs, sMutex, buffer, mutex, terminated>>

WaitData(c) ==
    /\ pc[c] = "waitdata"
    /\ ~ nodata[c]
    /\ nodata' = [nodata EXCEPT ![c] = TRUE]
    /\ Goto(c, "lockbuf")
    /\ UNCHANGED <<main, count, todo, got, joined, subs, sMutex, buffer, mutex, terminated>>

\* Mutant: next() does not wait for m_mutex.
LockBufFree(c) ==
    /\ pc[c] = "lockbuf"
    /\ mutex' = [mutex EXCEPT ![c] = TRUE]
    /\ Goto(c, "inbuf")
    /\ UNCHANGED <<main, count, todo, got, joined, subs, sMutex, buffer, nodata, terminated>>

LockBuf(c) ==
    /\ pc[c] = "lockbuf"
    /\ ~ mutex[c]
    /\ mutex' = [mutex EXCEPT ![c] = TRUE]
    /\ Goto(c, "inbuf")
    /\ UNCHANGED <<main, count, todo, got, joined, subs, sMutex, buffer, nodata, terminated>>

\* Woken without data: the end of the stream, or the error the code exits on.
EmptyBuf(c) ==
    /\ pc[c] = "inbuf"
    /\ buffer[c] = << >>
    /\ IF terminated[c]
       THEN /\ nodata' = [nodata EXCEPT ![c] = TRUE]
            /\ mutex' = [mutex EXCEPT ![c] = FALSE]
            /\ Goto(c, AfterLoop(c))
            /\ UNCHANGED main
       ELSE /\ main' = "exit9"
            /\ UNCHANGED <<pc, nodata, mutex>>
    /\ UNCHANGED <<count, todo, got, joined, subs, sMutex, buffer, terminated>>

PopFront(c) ==
    /\ pc[c] = "inbuf"
    /\ buffer[c] # << >>
    /\ got' = [got EXCEPT ![c] = Append(@, Head(buffer[c]))]
    /\ buffer' = [buffer EXCEPT ![c] = Tail(@)]
    /\ Goto(c, "rearm")
    /\ UNCHANGED <<main, count, todo, joined, subs, sMutex, nodata, mutex, terminated>>

\* Mutant: next() never unlocks m_mtxNodata again.
RearmKeepsLocked(c) ==
    /\ pc[c] = "rearm"
    /\ mutex' = [mutex EXCEPT ![c] = FALSE]
    /\ Goto(c, IF c \in Feeders THEN "push" ELSE "next")
    /\ UNCHANGED <<main, count, todo, got, joined, subs, sMutex, buffer, nodata, terminated>>

\* "stay locked if no data is available in the buffer"; the lock_guard
\* releases m_mutex, and a transformer goes on to push what it made.
Rearm(c) ==
    /\ pc[c] = "rearm"
    /\ nodata' = [nodata EXCEPT ![c] = @ /\ buffer[c] = << >>]
    /\ mutex' = [mutex EXCEPT ![c] = FALSE]
    /\ Goto(c, IF c \in Feeders THEN "push" ELSE "next")
    /\ UNCHANGED <<main, count, todo, got, joined, subs, sMutex, buffer, terminated>>

Consume(c) ==
    \/ Subscribe(c)
    \/ NextCheck(c) \/ TryData(c) \/ WaitData(c) \/ LockBuf(c)
    \/ EmptyBuf(c) \/ PopFront(c) \/ Rearm(c)
-----------------------------------------------------------------------------
(* LockStream::push and LockStream::terminate, called by the feeders.      *)

\* while (!producer_running) {}
BeginProducing(t) ==
    /\ t = Producer
    /\ pc[t] = "start"
    /\ main = "join"
    /\ Goto(t, "push")
    /\ UNCHANGED <<main, count, todo, got, joined, shared>>

PushLock(t) ==
    /\ pc[t] = "push"
    /\ ~ sMutex[Out[t]]
    /\ sMutex' = [sMutex EXCEPT ![Out[t]] = TRUE]
    /\ todo' = [todo EXCEPT ![t] = subs[Out[t]]]
    /\ Goto(t, "visit")
    /\ UNCHANGED <<main, count, got, joined, subs, buffer, nodata, mutex, terminated>>

\* Mutant: push() does not wait for the subscription's m_mutex.
PushBufLockFree(t) ==
    /\ pc[t] = "visit"
    /\ todo[t] # << >>
    /\ mutex' = [mutex EXCEPT ![Head(todo[t])] = TRUE]
    /\ Goto(t, "append")
    /\ UNCHANGED <<main, count, todo, got, joined, subs, sMutex, buffer, nodata, terminated>>

PushBufLock(t) ==
    /\ pc[t] = "visit"
    /\ todo[t] # << >>
    /\ ~ mutex[Head(todo[t])]
    /\ mutex' = [mutex EXCEPT ![Head(todo[t])] = TRUE]
    /\ Goto(t, "append")
    /\ UNCHANGED <<main, count, todo, got, joined, subs, sMutex, buffer, nodata, terminated>>

\* Mutant: the circular buffer of the commented-out line, of capacity one.
PushAppendCircular(t) ==
    /\ pc[t] = "append"
    /\ buffer' = [buffer EXCEPT ![Head(todo[t])] = <<count[t]>>]
    /\ Goto(t, "signal")
    /\ UNCHANGED <<main, count, todo, got, joined, subs, sMutex, nodata, mutex, terminated>>

PushAppend(t) ==
    /\ pc[t] = "append"
    /\ buffer' = [buffer EXCEPT ![Head(todo[t])] = Append(@, count[t])]
    /\ Goto(t, "signal")
    /\ UNCHANGED <<main, count, todo, got, joined, subs, sMutex, nodata, mutex, terminated>>

PushSignal(t) ==
    /\ pc[t] = "signal"
    /\ nodata' = [nodata EXCEPT ![Head(todo[t])] = FALSE]
    /\ mutex' = [mutex EXCEPT ![Head(todo[t])] = FALSE]
    /\ todo' = [todo EXCEPT ![t] = Tail(@)]
    /\ Goto(t, "visit")
    /\ UNCHANGED <<main, count, got, joined, subs, sMutex, buffer, terminated>>

\* Back in the loop: the producer counts to N, a transformer asks for more.
PushUnlock(t) ==
    /\ pc[t] = "visit"
    /\ todo[t] = << >>
    /\ sMutex' = [sMutex EXCEPT ![Out[t]] = FALSE]
    /\ count' = [count EXCEPT ![t] = @ + 1]
    /\ Goto(t, IF t # Producer THEN "next"
               ELSE IF count[t] = N THEN "term" ELSE "push")
    /\ UNCHANGED <<main, todo, got, joined, subs, buffer, nodata, mutex, terminated>>

TermLock(t) ==
    /\ pc[t] = "term"
    /\ ~ sMutex[Out[t]]
    /\ sMutex' = [sMutex EXCEPT ![Out[t]] = TRUE]
    /\ todo' = [todo EXCEPT ![t] = subs[Out[t]]]
    /\ Goto(t, "flag")
    /\ UNCHANGED <<main, count, got, joined, subs, buffer, nodata, mutex, terminated>>

TermFlag(t) ==
    /\ pc[t] = "flag"
    /\ todo[t] # << >>
    /\ terminated' = [terminated EXCEPT ![Head(todo[t])] = TRUE]
    /\ Goto(t, "wake")
    /\ UNCHANGED <<main, count, todo, got, joined, subs, sMutex, buffer, nodata, mutex>>

\* Mutant: terminate() does not unlock m_mtxNodata.
TermWakeForgotten(t) ==
    /\ pc[t] = "wake"
    /\ todo' = [todo EXCEPT ![t] = Tail(@)]
    /\ Goto(t, "flag")
    /\ UNCHANGED <<main, count, got, joined, subs, sMutex, buffer, nodata, mutex, terminated>>

TermWake(t) ==
    /\ pc[t] = "wake"
    /\ nodata' = [nodata EXCEPT ![Head(todo[t])] = FALSE]
    /\ todo' = [todo EXCEPT ![t] = Tail(@)]
    /\ Goto(t, "flag")
    /\ UNCHANGED <<main, count, got, joined, subs, sMutex, buffer, mutex, terminated>>

\* m_streamTerminated is set here too; nothing reads it.
TermClear(t) ==
    /\ pc[t] = "flag"
    /\ todo[t] = << >>
    /\ subs' = [subs EXCEPT ![Out[t]] = << >>]
    /\ sMutex' = [sMutex EXCEPT ![Out[t]] = FALSE]
    /\ Goto(t, "done")
    /\ UNCHANGED <<main, count, todo, got, joined, buffer, nodata, mutex, terminated>>

Feed(t) ==
    \/ BeginProducing(t)
    \/ PushLock(t) \/ PushBufLock(t) \/ PushAppend(t) \/ PushSignal(t) \/ PushUnlock(t)
    \/ TermLock(t) \/ TermFlag(t) \/ TermWake(t) \/ TermClear(t)
-----------------------------------------------------------------------------
Main == StartProducing \/ MainReturn

Step(t) == /\ Running
           /\ \/ t \in Consumers /\ Consume(t)
              \/ t \in Feeders /\ Feed(t)

Next == Main \/ \E t \in Threads : Step(t)

Safety == Init /\ [][Next]_vars

\* The operating system runs every thread.  That a thread waiting for a mutex
\* gets it is not assumed: a run has finitely many steps, so in the end no
\* other thread competes for the mutex.
Fairness == WF_vars(Main) /\ \A t \in Threads : WF_vars(Step(t))

Spec == Safety /\ Fairness
-----------------------------------------------------------------------------
(* Properties.                                                             *)

Places ==
    {"start", "next", "trydata", "waitdata", "lockbuf", "inbuf", "rearm", "push",
     "visit", "append", "signal", "term", "flag", "wake", "done"}

\* Type invariant.
TypeOK ==
    /\ main \in {"launch", "join", "exit", "exit9"}
    /\ pc \in [Threads -> Places]
    /\ count \in [Feeders -> Nat \ {0}]
    /\ count[Producer] <= N + 1
    /\ todo \in [Feeders -> Seq(Consumers)]
    /\ subs \in [Streams -> Seq(Consumers)]
    /\ sMutex \in [Streams -> BOOLEAN]
    /\ buffer \in [Consumers -> Seq(Nat)]
    /\ nodata \in [Consumers -> BOOLEAN]
    /\ mutex \in [Consumers -> BOOLEAN]
    /\ terminated \in [Consumers -> BOOLEAN]
    /\ got \in [Consumers -> Seq(Nat)]
    /\ joined \in [Consumers -> Nat]

\* The code of next() behind its two mutexes: a consumer that stands there
\* holds m_mtxNodata.
Inside == {"lockbuf", "inbuf", "rearm"}

\* Feeder t is at the subscription c, at place l of its walk.
At(t, l, c) == pc[t] = l /\ todo[t] # << >> /\ Head(todo[t]) = c

\* The consumer's next() has answered nullopt.
Ended(c) == pc[c] \in {"term", "flag", "wake", "done"}

\* next() never finds its buffer empty before the stream is terminated: the
\* exit(9) of lockstream.h is dead code, whatever the feeder and the consumer
\* do to the token m_mtxNodata between them.
NoUnexpectedEmpty == main # "exit9"

\* No consumer can sleep on data it has: with frames in the buffer the
\* m_mtxNodata is only locked while the consumer itself is inside next() or the
\* feeder is about to unlock it.
TokenMatchesData ==
    \A c \in Consumers :
        buffer[c] # << >> /\ nodata[c] =>
            pc[c] \in Inside \/ At(Feeder(In[c]), "signal", c)

\* next() answers nullopt only when the stream was terminated and every frame of
\* it has been handed out: termination overtakes nothing that was pushed before.
EndsDrained ==
    \A c \in Consumers : Ended(c) => terminated[c] /\ buffer[c] = << >>

\* The inductive invariant, part 1: m_subs has each subscription of its stream once,
\* so that a feeder's walk comes to each one once; it walks under m_mutex.
WalksAreOwn ==
    /\ \A s \in Streams : \A i \in DOMAIN subs[s] :
          /\ In[subs[s][i]] = s /\ pc[subs[s][i]] # "start"
          /\ \A j \in DOMAIN subs[s] : subs[s][i] = subs[s][j] => i = j
    /\ \A f \in Feeders : \A i \in DOMAIN todo[f] :
          /\ In[todo[f][i]] = Out[f] /\ pc[todo[f][i]] # "start"
          /\ \A j \in DOMAIN todo[f] : todo[f][i] = todo[f][j] => i = j
    /\ \A f \in Feeders : pc[f] \in {"append", "signal", "wake"} => todo[f] # << >>
    /\ \A f \in Feeders :
          pc[f] \in {"visit", "append", "signal", "flag", "wake"} => sMutex[Out[f]]

\* Part 2: inside its loop the producer has a frame left to push.
ProducerInLoop ==
    pc[Producer] \in {"start", "push", "visit", "append", "signal"} => count[Producer] <= N

One(b) == IF b THEN 1 ELSE 0

\* Part 3, for each subscription: its m_mutex has one holder; its feeder tells it
\* of the end only after the last push; until then each token m_mtxNodata that
\* is free or in the consumer's hand stands for a frame in the buffer, not
\* counting the one the feeder is about to signal.
SubscriptionInv(c) ==
    LET f       == Feeder(In[c])
        reading == pc[c] \in {"inbuf", "rearm"}
        feeding == At(f, "append", c) \/ At(f, "signal", c)
    IN  /\ mutex[c] <=> (reading \/ feeding)
        /\ ~ (reading /\ feeding)
        /\ terminated[c] => pc[f] \in {"flag", "wake", "done"}
        /\ At(f, "wake", c) => terminated[c]
        /\ ~ terminated[c] =>
              /\ pc[c] # "trydata"
              /\ Len(buffer[c]) >= One(~ nodata[c]) + One(pc[c] \in {"lockbuf", "inbuf"})
                                    + One(At(f, "signal", c))
        /\ buffer[c] # << >> /\ nodata[c] => pc[c] \in Inside \/ At(f, "signal", c)
        /\ Ended(c) => terminated[c] /\ buffer[c] = << >>

\* The id of the frame of Feeder(In[c]) that reached c last, if c was subscribed.
LastPushed(c) ==
    LET f == Feeder(In[c])
        given == /\ pc[f] \in {"visit", "append", "signal"}
                 /\ \/ At(f, "signal", c)
                    \/ \A i \in DOMAIN todo[f] : todo[f][i] # c
    IN  IF given THEN count[f] ELSE count[f] - 1

\* The frames a .. b.
Frames(a, b) == [i \in 1 .. b + 1 - a |-> a + i - 1]

\* A consumer is handed every frame pushed since it subscribed, each once, in order,
\* and no other: what it has got and what is queued are at any moment the frames
\* from the one its feeder was at then, up to the feeder's latest.
DeliversAllSinceSubscribe ==
    \A c \in Consumers :
        got[c] \o buffer[c] =
            IF pc[c] = "start" THEN << >> ELSE Frames(joined[c], LastPushed(c))

\* Part 4: until its feeder is done, a consumer that has subscribed is in m_subs.
StaysSubscribed ==
    \A c \in Consumers :
        pc[c] # "start" =>
            /\ joined[c] <= LastPushed(c) + 1
            /\ pc[Feeder(In[c])] # "done" => Subscribed(c)

\* Each part holds in every reachable state, and every step preserves them
\* together.
Inv ==
    /\ TypeOK
    /\ NoUnexpectedEmpty
    /\ WalksAreOwn
    /\ ProducerInLoop
    /\ \A c \in Consumers : SubscriptionInv(c)
    /\ StaysSubscribed
    /\ DeliversAllSinceSubscribe

Promise == INSTANCE StreamPromise WITH
    Lossy  <- FALSE,
    queue  <- buffer,
    ended  <- terminated,
    closed <- [c \in Consumers |-> Ended(c)]

\* The two-mutex subscription implements the promise of a stream: order, no
\* loss, the end after the data, and no consumer left asleep on either.
KeepsPromise == Promise!Spec

\* c subscribed when its stream had already been terminated and cleared.
TooLate(c) ==
    /\ pc[Feeder(In[c])] = "done"
    /\ Subscribed(c)
    /\ ~ terminated[c]

\* Every run comes to the end of its joins, unless a thread subscribed to a
\* stream only after its feeder had terminated it: nothing else can make a
\* thread of the program wait for ever.
RunEnds == <>(main = "exit" \/ \E c \in Consumers : TooLate(c))

\* main.cpp: "launch production of elements, now that all threads have been set
\* up": when the producer has pushed a frame, every consumer has subscribed.
SetUpBeforeProduction ==
    count[Producer] > 1 => \A c \in Consumers : pc[c] # "start"
=============================================================================
