---------------------------- MODULE EPLFQStream ----------------------------
(***************************************************************************)
(* epolllfq/: the stream of lockbuf/ with an eventfd for each subscription *)
(* and a wait in epoll in front of next().  What lockbuf does is taken     *)
(* over action by action; this module adds what happens around it.         *)
(*                                                                         *)
(* The constructor of a subscription stores its epoll instance in m_efd,   *)
(* where the eventfd overwrites it: the instance stays open without a      *)
(* name, and m_epfd is never set.  Reading it is undefined.  What it holds *)
(* may name no epoll instance, so that epoll_ctl fails, or one of those    *)
(* left open, so that subscriptions may come to share one.                 *)
(*                                                                         *)
(* main.cpp is that of lockbuf/, but that run_overcapacity connects every  *)
(* plain consumer to the first stream.                                     *)
(***************************************************************************)
EXTENDS LockStream

CONSTANT NoFd    \* what m_epfd is before its subscription exists

ASSUME NoFdAssumption == NoFd \notin Consumers

VARIABLES
    failed,   \* epoll_ctl has failed: exit(9)
    epfd,     \* epfd[c]: m_epfd, an epoll instance by the consumer that opened it
    efd,      \* efd[c]: the counter of the eventfd m_efd
    ready,    \* ready[c]: m_efd is on the ready list of its epoll instance
    poll,     \* poll[c]: how far next() is with its event: "wait", "event", "through"
    event,    \* event[c]: the subscription whose eventfd epoll_wait has reported to c
    merged    \* merged[c]: history, how many writes a read has taken along with another

epoll == <<failed, epfd, efd, ready, poll, event, merged>>

EplInit ==
    /\ Init
    /\ failed = FALSE
    /\ epfd  = [c \in Consumers |-> NoFd]
    /\ efd   = [c \in Consumers |-> 0]
    /\ ready = [c \in Consumers |-> FALSE]
    /\ poll  = [c \in Consumers |-> "wait"]
    /\ event = [c \in Consumers |-> c]
    /\ merged = [c \in Consumers |-> 0]

EplMain == Main /\ ~ failed /\ UNCHANGED epoll
-----------------------------------------------------------------------------
(* EPLFQStream::subscribe and EPLFQStreamSubscription::next.               *)

\* The instances open when c subscribes: its own, and one for each subscription so far.
Instances(c) == {c} \cup {d \in Consumers : pc[d] # "start"}

EplSubscribe(c) ==
    /\ Subscribe(c)
    /\ epfd' \in {[epfd EXCEPT ![c] = e] : e \in Instances(c)}
    /\ UNCHANGED <<failed, efd, ready, poll, event, merged>>

SubscribeFails(c) ==
    /\ pc[c] = "start"
    /\ ~ sMutex[In[c]]
    /\ failed' = TRUE
    /\ UNCHANGED <<vars, epfd, efd, ready, poll, event, merged>>

\* The consumer or m_subs still holds d's subscription: its destructor closes m_efd, which
\* takes it out of its epoll instance.
Open(d) == pc[d] \notin {"start", "done"} \/ Subscribed(d)

\* d's eventfd is on the ready list and can still be read.
Pending(d) == ready[d] /\ efd[d] > 0 /\ Open(d)

\* Mutant: a timeout of 0 in the place of -1.
EpollWaitNoBlock(c) ==
    /\ pc[c] = "next" /\ poll[c] = "wait"
    /\ event' = [event EXCEPT ![c] = c]
    /\ ready' = [ready EXCEPT ![c] = FALSE]
    /\ poll' = [poll EXCEPT ![c] = "event"]
    /\ UNCHANGED <<vars, failed, epfd, efd, merged>>

\* epoll_wait reports an event once (EPOLLET), to whoever waits on the instance, and
\* looks again whether the eventfd can be read.
EpollWait(c) ==
    /\ pc[c] = "next" /\ poll[c] = "wait"
    /\ \E d \in Consumers :
          /\ epfd[d] = epfd[c] /\ Pending(d)
          /\ ready' = [ready EXCEPT ![d] = FALSE]
          /\ event' = [event EXCEPT ![c] = d]
    /\ poll' = [poll EXCEPT ![c] = "event"]
    /\ UNCHANGED <<vars, failed, epfd, efd, merged>>

\* One read empties the counter, whatever number of writes it stands for; next() goes
\* on as well if there is nothing to read any more.
ReadEvent(c) ==
    /\ pc[c] = "next" /\ poll[c] = "event"
    /\ efd' = [efd EXCEPT ![event[c]] = 0]
    /\ merged' = [merged EXCEPT ![event[c]] = @ + (IF efd[event[c]] > 1 THEN efd[event[c]] - 1 ELSE 0)]
    /\ poll' = [poll EXCEPT ![c] = "through"]
    /\ UNCHANGED <<vars, failed, epfd, ready, event>>

EplNextCheck(c) ==
    /\ poll[c] = "through"
    /\ NextCheck(c)
    /\ poll' = [poll EXCEPT ![c] = "wait"]
    /\ UNCHANGED <<failed, epfd, efd, ready, event, merged>>

\* The rest of next() is that of lockbuf/: the token, then the buffer.
TakeToken(c) == (TryData(c) \/ WaitData(c)) /\ UNCHANGED epoll
TakeFrame(c) == (LockBuf(c) \/ EmptyBuf(c) \/ PopFront(c) \/ Rearm(c)) /\ UNCHANGED epoll

EplConsume(c) ==
    \/ EplSubscribe(c) \/ SubscribeFails(c)
    \/ EpollWait(c) \/ ReadEvent(c) \/ EplNextCheck(c)
    \/ TakeToken(c) \/ TakeFrame(c)
-----------------------------------------------------------------------------
(* EPLFQStream::push and EPLFQStream::terminate.                           *)

\* Mutant: the eventfd is written for the first frame of the buffer only.
PushEventFirst(t) ==
    /\ PushSignal(t)
    /\ IF Len(buffer[Head(todo[t])]) = 1
       THEN /\ efd' = [efd EXCEPT ![Head(todo[t])] = @ + 1]
            /\ ready' = [ready EXCEPT ![Head(todo[t])] = TRUE]
       ELSE UNCHANGED <<efd, ready>>
    /\ UNCHANGED <<failed, epfd, poll, event, merged>>

\* The token is unlocked, then the eventfd written, all under m_mutex.  Whoever takes the
\* token in between stops at m_mutex, so that the write is the place of the step.
PushEvent(t) ==
    /\ PushSignal(t)
    /\ efd' = [efd EXCEPT ![Head(todo[t])] = @ + 1]
    /\ ready' = [ready EXCEPT ![Head(todo[t])] = TRUE]
    /\ UNCHANGED <<failed, epfd, poll, event, merged>>

Produce(t) == BeginProducing(t) /\ UNCHANGED epoll

PushBuffer(t) == (PushBufLock(t) \/ PushAppend(t)) /\ UNCHANGED epoll

PushStream(t) == (PushLock(t) \/ PushUnlock(t)) /\ UNCHANGED epoll

\* terminate() unlocks the token and writes no eventfd.
TermSubscription(t) == (TermFlag(t) \/ TermWake(t)) /\ UNCHANGED epoll

TermStream(t) == (TermLock(t) \/ TermClear(t)) /\ UNCHANGED epoll

EplFeed(t) ==
    \/ Produce(t) \/ PushStream(t) \/ PushBuffer(t) \/ PushEvent(t)
    \/ TermStream(t) \/ TermSubscription(t)
-----------------------------------------------------------------------------
EplStep(t) == /\ Running /\ ~ failed
              /\ \/ t \in Consumers /\ EplConsume(t)
                 \/ t \in Feeders /\ EplFeed(t)

EplNext == EplMain \/ \E t \in Threads : EplStep(t)

EplVars == <<vars, epoll>>

EplSafety == EplInit /\ [][EplNext]_EplVars

\* The operating system runs every thread, as for lockbuf/.
EplFairness == WF_EplVars(EplMain) /\ \A t \in Threads : WF_EplVars(EplStep(t))

EplSpec == EplSafety /\ EplFairness
-----------------------------------------------------------------------------
(* Properties.                                                             *)

\* Type invariant.
EplTypeOK ==
    /\ failed \in BOOLEAN
    /\ epfd  \in [Consumers -> Consumers \cup {NoFd}]
    /\ efd   \in [Consumers -> Nat]
    /\ ready \in [Consumers -> BOOLEAN]
    /\ poll  \in [Consumers -> {"wait", "event", "through"}]
    /\ event \in [Consumers -> Consumers]
    /\ merged \in [Consumers -> Nat]

\* The epoll instance of c is its own.
Private(c) == epfd[c] # NoFd /\ \A d \in Consumers \ {c} : epfd[d] # epfd[c]

\* c sleeps in epoll_wait.
Asleep(c) ==
    /\ pc[c] = "next" /\ poll[c] = "wait"
    /\ \A d \in Consumers : epfd[d] = epfd[c] => ~ Pending(d)

\* next() comes back once for an event, and one event may stand for several frames, which
\* then stay in the buffer.  A consumer with an instance of its own that sleeps has left
\* behind those and no other: no event is lost between epoll_wait, read and write.
MergedStayBehind ==
    \A c \in Consumers :
        Private(c) /\ Asleep(c) =>
            Len(buffer[c]) = merged[c] + One(At(Feeder(In[c]), "signal", c))

\* c has read an event and has not handed out a frame for it yet.
Paid(c) == poll[c] = "through" \/ pc[c] \in {"trydata", "waitdata", "lockbuf", "inbuf"}

\* The account of a private instance: each frame in the buffer is one whose event has not
\* been read, one that was merged, the one next() is working for, or the one about to be
\* signalled.  There is no event for the termination.
EventsAreFrames(c) ==
    Private(c) =>
        /\ Len(buffer[c]) = efd[c] + merged[c] + One(Paid(c)) + One(At(Feeder(In[c]), "signal", c))
        /\ IF poll[c] = "event" THEN event[c] = c /\ efd[c] > 0
                                ELSE efd[c] > 0 => ready[c]

\* So next() returns at most once for each push, and a consumer with an instance of its
\* own never comes to the nullopt behind the last frame.
NeverEnds == \A c \in Consumers : Private(c) => ~ Ended(c)

\* The inductive invariant, next to that of lockbuf/.
EplInv ==
    /\ EplTypeOK
    /\ \A c \in Consumers :
          /\ epfd[c] = NoFd <=> pc[c] = "start"
          /\ pc[c] = "start" => efd[c] = 0 /\ merged[c] = 0
          /\ poll[c] # "wait" => pc[c] = "next"
          /\ poll[c] = "event" => epfd[event[c]] = epfd[c]
          /\ EventsAreFrames(c)
    /\ NeverEnds

\* c sleeps in epoll_wait for an event nobody will write any more.
Stranded(c) == Asleep(c) /\ pc[Feeder(In[c])] = "done"

\* Shared instances do not help: unless it fails at once, every run comes to a state
\* with a consumer asleep for good, and never to the end of its joins.
RunStrands == <>(failed \/ \E c \in Consumers : Stranded(c))
=============================================================================
