----------------------------- MODULE QROStream -----------------------------
(***************************************************************************)
(* qro/: a run of the program.  The streams are those of mklfq/, but that  *)
(* terminate() takes no lock.  The transformer does not make its frames    *)
(* itself: it sends each frame to its worker process, and pushes the       *)
(* answers when they come in, while it is in the event loop.               *)
(*                                                                         *)
(* The connection to the worker is what LinkPromise says; WorkerLink is    *)
(* how the code keeps it.  A plain consumer has a worker too, whose        *)
(* answers go nowhere, so that of its loop only next() is left, and the    *)
(* end of the process for want of shared memory.                           *)
(***************************************************************************)
EXTENDS MKLFQStream

CONSTANT Transformer

ASSUME TransformerAssumption ==
    Transformer \in Consumers /\ Feeders = {Producer, Transformer}

VARIABLES
    sent, received, way, broken,   \* the transformer's link: see LinkPromise
    back                           \* where receiveProcessedFrame returns to: "events" or "reply"

Link == INSTANCE LinkPromise

link == <<sent, received, way, broken, back>>
qroVars == <<vars, link>>

QROInit == Init /\ Link!Init /\ back = "events"

QROMainReturn == MainReturn /\ UNCHANGED link
-----------------------------------------------------------------------------
(* The consumers' side: subscribe(), the barrier and next().               *)

\* connectAndRun is between the two; it only takes time.
Begin(t) ==
    /\ \/ BarrierWait(t)
       \/ t \in Consumers /\ Subscribe(t)
    /\ UNCHANGED link

AwaitFrame(c) == (NextCheck(c) \/ Peek(c) \/ WaitSignal(c)) /\ UNCHANGED link

Consumed(c) == c # Transformer /\ Dequeue(c) /\ UNCHANGED link

\* exit(EXIT_FAILURE) in cvmat_to_shm or shm_to_cvmat, for a frame c has in hand.
Abort(c) ==
    /\ got[c] # << >>
    /\ pc[c] \in {"next", "events", "reply"}
    /\ main' = "abort"
    /\ UNCHANGED <<pc, waiting, count, todo, shared, history, link>>
-----------------------------------------------------------------------------
(* transformer_fast.                                                       *)

\* wait_dequeue has a frame, or the empty optional that ends the loop.
TakeFrame(t) ==
    /\ pc[t] = "dequeue"
    /\ queue[t] # << >>
    /\ queue' = [queue EXCEPT ![t] = Tail(@)]
    /\ IF Head(queue[t]) = NullOpt
       THEN Goto(t, "term") /\ UNCHANGED got
       ELSE Goto(t, "events") /\ got' = [got EXCEPT ![t] = Append(@, Head(queue[t]))]
    /\ UNCHANGED <<main, waiting, count, todo, subs, sMutex, signals, terminated, refused, link>>

\* Mutant: the frames of the second stream are numbered anew, as in mklfq/.
ReceiveCounted(t) ==
    /\ pc[t] \in {"events", "reply"}
    /\ Link!Answer
    /\ count' = [count EXCEPT ![t] = Len(received) + 1]
    /\ back' = pc[t]
    /\ Goto(t, "push")
    /\ UNCHANGED <<main, waiting, todo, shared, history>>

\* An event loop, that of processEvents or of waitForFinished, calls
\* receiveProcessedFrame, which is to push what has come back.
Receive(t) ==
    /\ pc[t] \in {"events", "reply"}
    /\ Link!Answer
    /\ count' = [count EXCEPT ![t] = Head(way)]
    /\ back' = pc[t]
    /\ Goto(t, "push")
    /\ UNCHANGED <<main, waiting, todo, shared, history>>

\* sendProcessFrame, for the frame in hand.
Call(t) ==
    /\ pc[t] = "events"
    /\ Link!Ask(got[t][Len(got[t])])
    /\ Goto(t, "reply")
    /\ UNCHANGED <<main, waiting, count, todo, shared, history, back>>

\* Without a source there is no call.
CallFails(t) ==
    /\ pc[t] = "events"
    /\ Goto(t, "next")
    /\ UNCHANGED <<main, waiting, count, todo, shared, history, link>>

\* The reply, or the end of the ten seconds.
WaitDone(t) ==
    /\ pc[t] = "reply"
    /\ Goto(t, "next")
    /\ UNCHANGED <<main, waiting, count, todo, shared, history, link>>

Transform(t) ==
    \/ TakeFrame(t) \/ Receive(t) \/ Call(t) \/ CallFails(t) \/ WaitDone(t)

\* The worker dies.
WorkerDies == ~ broken /\ Link!Cut /\ UNCHANGED <<vars, back>>

\* Mutant: ~WorkerConnector waits for the worker to end by itself.
CloseWaits(t) ==
    /\ pc[t] = "close"
    /\ broken
    /\ Goto(t, "done")
    /\ UNCHANGED <<main, waiting, count, todo, shared, history, link>>

\* ~WorkerConnector ends the worker; nothing is received any more.
Close(t) ==
    /\ pc[t] = "close"
    /\ Link!Cut /\ way' = << >>
    /\ Goto(t, "done")
    /\ UNCHANGED <<main, waiting, count, todo, shared, history, back>>
-----------------------------------------------------------------------------
(* QROStream::push and QROStream::terminate, called by the feeders.        *)

PushFrame(t) ==
    /\ PushLock(t) \/ PushEnqueue(t) \/ PushRefused(t) \/ PushSignal(t)
    /\ UNCHANGED link

PushDone(t) == t = Producer /\ PushUnlock(t) /\ UNCHANGED link

\* The transformer is back in the event loop it was called from.
AnswerDone(t) ==
    /\ t = Transformer
    /\ pc[t] = "visit"
    /\ todo[t] = << >>
    /\ sMutex' = [sMutex EXCEPT ![Out[t]] = FALSE]
    /\ Goto(t, back)
    /\ UNCHANGED <<main, waiting, count, todo, subs, queue, signals, terminated, history, link>>

\* No lock here: what keeps subscribe() out of m_subs is the barrier.
TermBegin(t) ==
    /\ pc[t] = "term"
    /\ todo' = [todo EXCEPT ![t] = subs[Out[t]]]
    /\ Goto(t, "flag")
    /\ UNCHANGED <<main, waiting, count, shared, history, link>>

TermVisit(t) ==
    /\ TermFlag(t) \/ TermEnqueue(t) \/ TermRefused(t) \/ TermSignal(t)
    /\ UNCHANGED link

TermEnd(t) ==
    /\ pc[t] = "flag"
    /\ todo[t] = << >>
    /\ subs' = [subs EXCEPT ![Out[t]] = << >>]
    /\ Goto(t, IF t = Transformer THEN "close" ELSE "done")
    /\ UNCHANGED <<main, waiting, count, todo, sMutex, queue, signals, terminated, history, link>>

QROFeed(t) ==
    \/ PushFrame(t) \/ PushDone(t) \/ AnswerDone(t)
    \/ TermBegin(t) \/ TermVisit(t) \/ TermEnd(t)
-----------------------------------------------------------------------------
QROStep(t) ==
    /\ main = "join"
    /\ \/ Begin(t)
       \/ t \in Consumers /\ (AwaitFrame(t) \/ Consumed(t) \/ Abort(t))
       \/ t = Transformer /\ (Transform(t) \/ Close(t))
       \/ t \in Feeders /\ QROFeed(t)

QRONext == QROMainReturn \/ WorkerDies \/ \E t \in Threads : QROStep(t)

QROSafety == QROInit /\ [][QRONext]_qroVars

\* The threads go on; nothing is asked of the worker.
QROSpec ==
    /\ QROSafety
    /\ WF_qroVars(QROMainReturn)
    /\ \A t \in Threads : WF_qroVars(QROStep(t))
-----------------------------------------------------------------------------
(* Properties.                                                             *)

\* The place of the call to receiveProcessedFrame that the transformer is in has
\* not offered its frame to c yet.
ToOffer(c) ==
    \/ pc[Transformer] = "push"
    \/ /\ pc[Transformer] = "visit"
       /\ \E i \in DOMAIN todo[Transformer] : todo[Transformer][i] = c
    \/ /\ pc[Transformer] = "signal"
       /\ \E i \in DOMAIN Tail(todo[Transformer]) : Tail(todo[Transformer])[i] = c

Members(s) == {s[i] : i \in DOMAIN s}

\* A consumer of the second stream is given the answers of the worker, all and only
\* those, in the order of the frames, however the event loops, the worker's end and
\* the two streams interleave; each is a frame the transformer has taken from the
\* first stream.  What does not arrive was refused for want of memory, or had not
\* come back from the worker when the transformer saw the end of the first stream.
AnswersReachConsumers ==
    /\ Members(received) \subseteq Members(got[Transformer])
    /\ \A c \in Consumers :
          In[c] = Out[Transformer] =>
              LET seen  == got[c] \o Frames(queue[c])
                  given == IF ToOffer(c) THEN SubSeq(received, 1, Len(received) - 1) ELSE received
              IN  /\ \A i, j \in DOMAIN seen : i < j => seen[i] < seen[j]
                  /\ Members(seen) \cap refused[c] = {}
                  /\ Members(seen) \cup refused[c] = Members(given)

\* While a feeder is in terminate(), which takes no lock, nobody can be in subscribe(),
\* nor does a push walk over the same m_subs.
AloneInTerminate ==
    \A t \in Feeders :
        pc[t] \in {"flag", "mark", "sigmark"} =>
            /\ ~ sMutex[Out[t]]
            /\ \A c \in Consumers : In[c] = Out[t] => pc[c] # "start"

QROPromise == INSTANCE StreamPromise WITH
    Lossy  <- TRUE,
    queue  <- [c \in Consumers |-> Frames(queue[c])],
    ended  <- terminated,
    closed <- [c \in Consumers |-> Ended(c) \/ pc[c] = "close"]

\* Answers pushed from an event loop do not upset the order of a stream, and none
\* comes behind its end.
KeepsOrder == QROPromise!Safety

\* Every run comes to the end of its joins or to an exit(EXIT_FAILURE), whatever the
\* worker does or fails to do.
QRORunEnds == <>(main \in {"exit", "abort"})
=============================================================================
