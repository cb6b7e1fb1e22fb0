------------------------- MODULE MKLFQStreamProofs -------------------------
(***************************************************************************)
(* Proofs about MKLFQStream for every wiring that TopologyAssumption       *)
(* allows, every number of frames and whatever enqueue() refuses.          *)
(***************************************************************************)
EXTENDS MKLFQStream, FiniteSetTheorems, SequenceTheorems, TLAPS

\* What the walks of the feeders rest on.
LEMMA HeadAndTail ==
    ASSUME NEW S, NEW s \in Seq(S), s # << >>
    PROVE  /\ Head(s) \in S
           /\ Tail(s) \in Seq(S)
           /\ 1 \in DOMAIN s
           /\ Head(s) = s[1]
           /\ \A i \in DOMAIN Tail(s) : i + 1 \in DOMAIN s /\ Tail(s)[i] = s[i + 1]
  OBVIOUS

\* Every stream has one feeder.
LEMMA FeederOfStream ==
    /\ \A s \in Streams : Feeder(s) \in Feeders /\ Out[Feeder(s)] = s
    /\ \A f \in Feeders : Out[f] \in Streams /\ Feeder(Out[f]) = f
  <1>1. ASSUME NEW s \in Streams
        PROVE  Feeder(s) \in Feeders /\ Out[Feeder(s)] = s
    <2>1. \E t \in Threads : Out[t] = s
      BY TopologyAssumption
    <2>2. Feeder(s) \in Threads /\ Out[Feeder(s)] = s
      BY <2>1 DEF Feeder
    <2>3. s # NoStream
      BY TopologyAssumption
    <2> QED BY <2>2, <2>3 DEF Feeders
  <1>2. ASSUME NEW f \in Feeders
        PROVE  Out[f] \in Streams /\ Feeder(Out[f]) = f
    <2>1. Out[f] \in Streams
      BY TopologyAssumption DEF Feeders
    <2>2. Feeder(Out[f]) \in Feeders /\ Out[Feeder(Out[f])] = Out[f]
      BY <1>1, <2>1
    <2> QED BY <2>1, <2>2, TopologyAssumption
  <1> QED BY <1>1, <1>2

\* The producer feeds a stream; consumers are threads, and so are feeders.
LEMMA WhoIsWho ==
    /\ Producer \in Feeders
    /\ Producer \notin Consumers
    /\ Consumers \subseteq Threads
    /\ Feeders \subseteq Threads
    /\ \A c \in Consumers : In[c] \in Streams
    /\ \A c \in Consumers : Feeder(In[c]) \in Feeders /\ Out[Feeder(In[c])] = In[c]
    /\ \A c \in Consumers : Feeder(In[c]) # c
    /\ N \in Nat \ {0}
  <1>1. /\ Producer \in Feeders
        /\ Producer \notin Consumers
        /\ Consumers \subseteq Threads
        /\ Feeders \subseteq Threads
        /\ \A c \in Consumers : In[c] \in Streams
        /\ N \in Nat \ {0}
    BY TopologyAssumption DEF Feeders, Threads
  <1>2. \A c \in Consumers : Feeder(In[c]) \in Feeders /\ Out[Feeder(In[c])] = In[c]
    BY <1>1, FeederOfStream
  <1>3. \A c \in Consumers : Feeder(In[c]) # c
    BY <1>1, <1>2, TopologyAssumption
  <1> QED BY <1>1, <1>2, <1>3

(***************************************************************************)
(* What a step does, and what it leaves alone.                             *)
(***************************************************************************)
LEMMA VisitedIsOwn ==
    ASSUME Inv, NEW t \in Feeders, todo[t] # << >>
    PROVE  /\ Head(todo[t]) \in Consumers
           /\ In[Head(todo[t])] = Out[t]
           /\ Feeder(In[Head(todo[t])]) = t
  <1>1. todo[t] \in Seq(Consumers) /\ \A i \in DOMAIN todo[t] : In[todo[t][i]] = Out[t]
    BY DEF Inv, TypeOK, WalksAreOwn
  <1> QED BY <1>1, HeadAndTail, FeederOfStream

LEMMA ConsumeFrame ==
    ASSUME Inv, NEW c \in Consumers, Consume(c)
    PROVE  /\ todo' = todo /\ count' = count /\ terminated' = terminated
           /\ waiting' = waiting /\ refused' = refused
           /\ \A t \in Threads : t # c => pc'[t] = pc[t]
           /\ \A d \in Consumers : d # c =>
                 queue'[d] = queue[d] /\ signals'[d] = signals[d] /\ got'[d] = got[d]
           /\ subs' # subs => pc[c] = "start"
           /\ pc[c] \in {"start", "next", "peek", "wait", "dequeue"}
           /\ pc'[c] \in {"barrier", "next", "peek", "wait", "dequeue", "push", "term", "done"}
           /\ pc'[c] = "barrier" <=> pc[c] = "start"
           /\ c \in Feeders => pc'[c] # "done"
  <1>0. /\ pc \in [Threads -> Places] /\ c \in Threads
        /\ queue \in [Consumers -> Seq(Nat)]
        /\ signals \in [Consumers -> Nat]
        /\ got \in [Consumers -> Seq(Nat)]
    BY WhoIsWho DEF Inv, TypeOK
  <1> USE <1>0 DEF Goto, shared, history
  <1>1. CASE Subscribe(c)
    BY <1>1 DEF Subscribe
  <1>2. CASE NextCheck(c)
    BY <1>2 DEF NextCheck
  <1>3. CASE Peek(c)
    BY <1>3 DEF Peek, AfterLoop
  <1>4. CASE WaitSignal(c)
    BY <1>4 DEF WaitSignal
  <1>5. CASE Dequeue(c)
    BY <1>5 DEF Dequeue, AfterLoop
  <1> QED BY <1>1, <1>2, <1>3, <1>4, <1>5 DEF Consume

LEMMA FeedFrame ==
    ASSUME Inv, NEW t \in Feeders, Feed(t)
    PROVE  /\ got' = got /\ waiting' = waiting
           /\ \A u \in Threads : u # t => pc'[u] = pc[u]
           /\ \A u \in Feeders : u # t => todo'[u] = todo[u] /\ count'[u] = count[u]
           /\ \A d \in Consumers : Feeder(In[d]) # t =>
                 queue'[d] = queue[d] /\ signals'[d] = signals[d] /\ refused'[d] = refused[d]
           /\ \A s \in Streams : s # Out[t] => subs'[s] = subs[s]
           /\ pc'[t] = "done" \/ subs' = subs
           /\ pc'[t] = "done" => subs'[Out[t]] = << >>
           /\ pc[t] \in {"push", "visit", "signal", "term", "flag", "mark", "sigmark"}
           /\ pc'[t] \in {"next", "push", "visit", "signal", "term", "flag", "mark", "sigmark",
                          "done"}
  <1>0. /\ pc \in [Threads -> Places] /\ t \in Threads /\ Out[t] \in Streams
        /\ todo \in [Feeders -> Seq(Consumers)]
        /\ count \in [Feeders -> Nat \ {0}]
        /\ subs \in [Streams -> Seq(Consumers)]
        /\ queue \in [Consumers -> Seq(Nat)]
        /\ signals \in [Consumers -> Nat]
        /\ refused \in [Consumers -> SUBSET Nat]
        /\ pc[t] \in {"signal", "mark", "sigmark"} => todo[t] # << >>
    BY WhoIsWho, FeederOfStream DEF Inv, TypeOK, WalksAreOwn
  <1>00. todo[t] # << >> => Feeder(In[Head(todo[t])]) = t /\ Head(todo[t]) \in Consumers
    BY VisitedIsOwn
  <1> USE <1>0, <1>00 DEF Goto, shared, history
  <1>1. CASE PushLock(t)
    BY <1>1 DEF PushLock
  <1>2. CASE PushEnqueue(t)
    BY <1>2 DEF PushEnqueue
  <1>3. CASE PushRefused(t)
    BY <1>3 DEF PushRefused
  <1>4. CASE PushSignal(t)
    BY <1>4 DEF PushSignal
  <1>5. CASE PushUnlock(t)
    BY <1>5 DEF PushUnlock
  <1>6. CASE TermLock(t)
    BY <1>6 DEF TermLock
  <1>7. CASE TermFlag(t)
    BY <1>7 DEF TermFlag
  <1>8. CASE TermEnqueue(t)
    BY <1>8 DEF TermEnqueue
  <1>9. CASE TermRefused(t)
    BY <1>9 DEF TermRefused
  <1>10. CASE TermSignal(t)
    BY <1>10 DEF TermSignal
  <1>11. CASE TermClear(t)
    BY <1>11 DEF TermClear
  <1> QED BY <1>1, <1>2, <1>3, <1>4, <1>5, <1>6, <1>7, <1>8, <1>9, <1>10, <1>11 DEF Feed

\* The barrier moves threads on and does nothing else.
LEMMA BarrierFrame ==
    ASSUME Inv, NEW t \in Threads, BarrierWait(t)
    PROVE  /\ UNCHANGED <<main, count, todo, subs, sMutex, queue, signals, terminated, got, refused>>
           /\ pc' \in [Threads -> Places]
           /\ pc[t] = "barrier"
           /\ \A u \in Threads :
                 \/ pc'[u] = pc[u]
                 \/ pc[u] \in {"barrier", "parked"} /\ pc'[u] \in {"parked", "push", "next"}
  <1>0. pc \in [Threads -> Places]
    BY DEF Inv, TypeOK
  <1>1. CASE waiting > 1
    BY <1>0, <1>1 DEF BarrierWait, Behind, shared, history, Places
  <1>2. CASE ~ (waiting > 1)
    BY <1>0, <1>2 DEF BarrierWait, Behind, shared, history, Places
  <1> QED BY <1>1, <1>2

(***************************************************************************)
(* The barrier.                                                            *)
(***************************************************************************)
LEMMA BarrierKeeps ==
    ASSUME BarrierInv, NEW S, pc \in [Threads -> S], NEW t \in Threads, BarrierWait(t)
    PROVE  BarrierInv' /\ waiting' \in Nat
  <1>1. /\ pc[t] = "barrier" /\ t \in Early
        /\ waiting = Cardinality(Early)
        /\ \A u \in Threads : pc[u] \in {"start", "barrier", "parked"}
        /\ Producer \in Threads /\ pc[Producer] # "start"
    BY WhoIsWho DEF BarrierInv, BarrierWait, Early
  <1>2. IsFiniteSet(Early)
    <2>1. Early \subseteq Threads
      BY DEF Early
    <2> QED BY <2>1, FiniteThreads, FS_Subset
  <1>3. /\ Cardinality(Early) \in Nat
        /\ IsFiniteSet(Early \ {t})
        /\ Cardinality(Early \ {t}) = Cardinality(Early) - 1
        /\ Cardinality(Early \ {t}) \in Nat
    BY <1>1, <1>2, FS_RemoveElement, FS_CardinalityType
  <1>4. waiting' = waiting - 1
    BY DEF BarrierWait
  <1>5. CASE waiting > 1
    <2>1. pc' = [pc EXCEPT ![t] = "parked"]
      BY <1>5 DEF BarrierWait
    <2>2. Early' = Early \ {t}
      BY <1>1, <2>1 DEF Early
    <2>3. \A u \in Threads : pc'[u] \in {"start", "barrier", "parked"}
      BY <1>1, <2>1
    <2>4. pc'[Producer] # "start"
      BY <1>1, <2>1
    <2> QED BY <1>1, <1>3, <1>4, <2>2, <2>3, <2>4 DEF BarrierInv
  <1>6. CASE ~ (waiting > 1)
    <2>1. Cardinality(Early \ {t}) = 0
      BY <1>1, <1>3, <1>6
    <2>2. Early \ {t} = {}
      BY <1>3, <2>1, FS_EmptySet
    <2>3. \A u \in Threads : u = t \/ pc[u] = "parked"
      BY <1>1, <2>2 DEF Early
    <2>4. \A u \in Threads : pc'[u] = Behind(u)
      BY <1>6, <2>3 DEF BarrierWait
    <2>5. \A u \in Threads : pc'[u] \notin {"start", "barrier", "parked"}
      BY <2>4 DEF Behind
    <2>6. Early' = {}
      BY <2>5 DEF Early
    <2>7. Cardinality(Early') = 0
      BY <2>6, FS_EmptySet
    <2>8. waiting' = 0
      BY <1>1, <1>3, <1>4, <2>1
    <2> QED BY <1>1, <2>5, <2>7, <2>8 DEF BarrierInv
  <1> QED BY <1>5, <1>6

\* Whoever feeds is behind the barrier, and so is everybody then; whoever subscribes is
\* in front of it.
LEMMA BarrierApart ==
    ASSUME Inv
    PROVE  /\ \A t \in Threads : pc[t] \notin {"start", "barrier", "parked"} =>
                 \A u \in Threads : pc[u] \notin {"start", "barrier", "parked"}
           /\ pc[Producer] # "start"
  BY DEF Inv, BarrierInv

LEMMA ConsumeBarrier ==
    ASSUME Inv, NEW c \in Consumers, Consume(c)
    PROVE  BarrierInv'
  <1>1. /\ pc \in [Threads -> Places] /\ c \in Threads /\ BarrierInv
        /\ Producer \in Threads /\ Producer # c
    BY WhoIsWho DEF Inv, TypeOK
  <1>2. /\ waiting' = waiting
        /\ \A u \in Threads : u # c => pc'[u] = pc[u]
        /\ pc'[c] = "barrier" <=> pc[c] = "start"
        /\ pc[c] \in {"start", "next", "peek", "wait", "dequeue"}
        /\ pc'[c] \in {"barrier", "next", "peek", "wait", "dequeue", "push", "term", "done"}
    BY ConsumeFrame
  <1>3. Early' = Early
    BY <1>1, <1>2 DEF Early
  <1>4. CASE pc[c] = "start"
    BY <1>1, <1>2, <1>3, <1>4 DEF BarrierInv
  <1>5. CASE pc[c] # "start"
    BY <1>1, <1>2, <1>3, <1>5 DEF BarrierInv
  <1> QED BY <1>4, <1>5

LEMMA FeedBarrier ==
    ASSUME Inv, NEW t \in Feeders, Feed(t)
    PROVE  BarrierInv'
  <1>1. /\ pc \in [Threads -> Places] /\ t \in Threads /\ BarrierInv /\ Producer \in Threads
    BY WhoIsWho DEF Inv, TypeOK
  <1>2. /\ waiting' = waiting
        /\ \A u \in Threads : u # t => pc'[u] = pc[u]
        /\ pc[t] \in {"push", "visit", "signal", "term", "flag", "mark", "sigmark"}
        /\ pc'[t] \in {"next", "push", "visit", "signal", "term", "flag", "mark", "sigmark", "done"}
    BY FeedFrame
  <1>3. Early' = Early
    BY <1>1, <1>2 DEF Early
  <1> QED BY <1>1, <1>2, <1>3 DEF BarrierInv

(***************************************************************************)
(* The first states.                                                       *)
(***************************************************************************)
LEMMA InitInv == Init => Inv
  <1> SUFFICES ASSUME Init PROVE Inv
    OBVIOUS
  <1> USE WhoIsWho
  <1>1. Cardinality(Threads) \in Nat
    BY FiniteThreads, FS_CardinalityType
  <1>2. TypeOK
    BY <1>1 DEF Init, TypeOK, Places, Goal
  <1>3. BarrierInv
    <2>1. \A t \in Threads : pc[t] \in {"start", "barrier"}
      BY DEF Init
    <2>2. Early = Threads
      BY <2>1 DEF Early
    <2>3. Producer \in Threads /\ pc[Producer] = "barrier" /\ waiting = Cardinality(Threads)
      BY DEF Init, Goal
    <2> QED BY <2>1, <2>2, <2>3 DEF BarrierInv
  <1>4. WalksAreOwn
    BY DEF Init, WalksAreOwn
  <1>5. ProducerInLoop
    BY DEF Init, ProducerInLoop
  <1>6. ASSUME NEW c \in Consumers PROVE SubscriptionInv(c)
    <2>1. /\ pc[c] = "start" /\ queue[c] = << >> /\ signals[c] = 0
          /\ todo[Feeder(In[c])] = << >>
      BY DEF Init
    <2> QED BY <2>1 DEF SubscriptionInv, One, At
  <1> QED BY <1>2, <1>3, <1>4, <1>5, <1>6 DEF Inv

(***************************************************************************)
(* The type invariant.                                                     *)
(***************************************************************************)
LEMMA ConsumeTypes ==
    ASSUME Inv, NEW c \in Consumers, Consume(c)
    PROVE  TypeOK'
  <1> USE WhoIsWho DEF Inv, TypeOK, Goto, Places, shared, history
  <1>1. CASE Subscribe(c)
    <2>1. pc' = [pc EXCEPT ![c] = "barrier"] /\ c \in Threads
          /\ subs' = [subs EXCEPT ![In[c]] = Append(subs[In[c]], c)]
          /\ UNCHANGED <<main, waiting, count, todo, sMutex, queue, signals, terminated, got, refused>>
      BY <1>1 DEF Subscribe
    <2>2. In[c] \in Streams /\ Append(subs[In[c]], c) \in Seq(Consumers)
      OBVIOUS
    <2>3. subs' \in [Streams -> Seq(Consumers)]
      BY <2>1, <2>2
    <2> QED BY <2>1, <2>3
  <1>2. CASE NextCheck(c)
    BY <1>2 DEF NextCheck
  <1>3. CASE Peek(c)
    BY <1>3 DEF Peek, AfterLoop
  <1>4. CASE WaitSignal(c)
    <2>1. signals[c] \in Nat /\ signals[c] > 0
      BY <1>4 DEF WaitSignal
    <2>2. signals' \in [Consumers -> Nat]
      BY <1>4, <2>1 DEF WaitSignal
    <2> QED BY <1>4, <2>2 DEF WaitSignal
  <1>5. CASE Dequeue(c)
    <2>1. Head(queue[c]) \in Nat /\ Tail(queue[c]) \in Seq(Nat)
      BY <1>5, HeadAndTail DEF Dequeue
    <2>2. queue' \in [Consumers -> Seq(Nat)]
      BY <1>5, <2>1 DEF Dequeue
    <2>3. got' \in [Consumers -> Seq(Nat)]
      <3>1. Append(got[c], Head(queue[c])) \in Seq(Nat)
        BY <2>1
      <3>2. got' = got \/ got' = [got EXCEPT ![c] = Append(got[c], Head(queue[c]))]
        BY <1>5 DEF Dequeue
      <3> QED BY <3>1, <3>2
    <2>4. pc' \in [Threads -> Places]
      BY <1>5 DEF Dequeue, AfterLoop
    <2> QED BY <1>5, <2>2, <2>3, <2>4 DEF Dequeue
  <1> QED BY <1>1, <1>2, <1>3, <1>4, <1>5 DEF Consume

LEMMA FeedTypes ==
    ASSUME Inv, NEW t \in Feeders, Feed(t)
    PROVE  TypeOK'
  <1>1. /\ todo[t] # << >> => Head(todo[t]) \in Consumers /\ Tail(todo[t]) \in Seq(Consumers)
        /\ pc[t] \in {"signal", "mark", "sigmark"} => todo[t] # << >>
        /\ t \in Threads /\ Out[t] \in Streams /\ count[t] \in Nat \ {0} /\ NullOpt \in Nat
        /\ Producer \in Feeders /\ N \in Nat
        /\ ProducerInLoop /\ TypeOK
    BY WhoIsWho, FeederOfStream, HeadAndTail DEF Inv, TypeOK, WalksAreOwn, NullOpt
  <1>2. /\ main' = main /\ waiting' = waiting /\ got' = got
    BY DEF Feed, PushLock, PushEnqueue, PushRefused, PushSignal, PushUnlock, TermLock,
           TermFlag, TermEnqueue, TermRefused, TermSignal, TermClear, history
  <1>3. pc' \in [Threads -> Places]
    <2>1. pc' = pc \/ \E p \in Places : Goto(t, p)
      <3>1. CASE PushLock(t) \/ PushEnqueue(t) \/ PushRefused(t) \/ PushSignal(t)
        <4>1. pc' = pc \/ Goto(t, "visit") \/ Goto(t, "signal")
          BY <3>1 DEF PushLock, PushEnqueue, PushRefused, PushSignal
        <4> QED BY <4>1 DEF Places
      <3>2. CASE PushUnlock(t)
        BY <3>2 DEF Places, PushUnlock, Goto
      <3>3. CASE TermLock(t) \/ TermFlag(t) \/ TermEnqueue(t) \/ TermRefused(t) \/ TermSignal(t)
                 \/ TermClear(t)
        <4>1. Goto(t, "flag") \/ Goto(t, "mark") \/ Goto(t, "sigmark") \/ Goto(t, "done")
          BY <3>3 DEF TermLock, TermFlag, TermEnqueue, TermRefused, TermSignal, TermClear
        <4> QED BY <4>1 DEF Places
      <3> QED BY <3>1, <3>2, <3>3 DEF Feed
    <2> QED BY <1>1, <2>1 DEF TypeOK, Goto
  <1>4. count' \in [Feeders -> Nat \ {0}] /\ count'[Producer] <= N + 1
    <2>1. \/ count' = count
          \/ pc[t] = "visit" /\ count' = [count EXCEPT ![t] = count[t] + 1]
      BY <1>1 DEF Feed, PushLock, PushEnqueue, PushRefused, PushSignal, PushUnlock,
                  TermLock, TermFlag, TermEnqueue, TermRefused, TermSignal, TermClear
    <2>2. pc[Producer] = "visit" => count[Producer] <= N
      BY <1>1 DEF ProducerInLoop
    <2>3. /\ count \in [Feeders -> Nat \ {0}] /\ count[Producer] <= N + 1
          /\ count[t] + 1 \in Nat \ {0}
      BY <1>1 DEF TypeOK
    <2>4. count' \in [Feeders -> Nat \ {0}]
      BY <2>1, <2>3
    <2>5. CASE t = Producer
      BY <1>1, <2>1, <2>2, <2>3, <2>5
    <2>6. CASE t # Producer
      BY <1>1, <2>1, <2>3, <2>6
    <2> QED BY <2>4, <2>5, <2>6
  <1>5. todo' \in [Feeders -> Seq(Consumers)]
    BY <1>1 DEF TypeOK, Feed, PushLock, PushEnqueue, PushRefused, PushSignal, PushUnlock,
                TermLock, TermFlag, TermEnqueue, TermRefused, TermSignal, TermClear
  <1>6. /\ subs' \in [Streams -> Seq(Consumers)]
        /\ sMutex' \in [Streams -> BOOLEAN]
        /\ terminated' \in [Consumers -> BOOLEAN]
    BY <1>1 DEF TypeOK, Feed, PushLock, PushEnqueue, PushRefused, PushSignal, PushUnlock,
                TermLock, TermFlag, TermEnqueue, TermRefused, TermSignal, TermClear, shared
  <1>7. signals' \in [Consumers -> Nat]
    <2>1. \A c \in Consumers : signals[c] + 1 \in Nat
      BY <1>1 DEF TypeOK
    <2> QED BY <1>1, <2>1 DEF TypeOK, Feed, PushLock, PushEnqueue, PushRefused, PushSignal, PushUnlock,
                TermLock, TermFlag, TermEnqueue, TermRefused, TermSignal, TermClear, shared
  <1>8. refused' \in [Consumers -> SUBSET Nat]
    <2>1. \A c \in Consumers : refused[c] \cup {count[t]} \in SUBSET Nat
      BY <1>1 DEF TypeOK
    <2>2. \/ refused' = refused
          \/ \E c \in Consumers :
                refused' = [refused EXCEPT ![c] = refused[c] \cup {count[t]}]
      BY <1>1 DEF Feed, PushLock, PushEnqueue, PushRefused, PushSignal, PushUnlock,
                  TermLock, TermFlag, TermEnqueue, TermRefused, TermSignal, TermClear, history
    <2>3. refused \in [Consumers -> SUBSET Nat]
      BY <1>1 DEF TypeOK
    <2> QED BY <2>1, <2>2, <2>3
  <1>9. queue' \in [Consumers -> Seq(Nat)]
    <2>1. \A c \in Consumers :
             Append(queue[c], count[t]) \in Seq(Nat) /\ Append(queue[c], NullOpt) \in Seq(Nat)
      BY <1>1 DEF TypeOK
    <2>2. \/ queue' = queue
          \/ \E c \in Consumers : \/ queue' = [queue EXCEPT ![c] = Append(queue[c], count[t])]
                                  \/ queue' = [queue EXCEPT ![c] = Append(queue[c], NullOpt)]
      BY <1>1 DEF Feed, PushLock, PushEnqueue, PushRefused, PushSignal, PushUnlock,
                  TermLock, TermFlag, TermEnqueue, TermRefused, TermSignal, TermClear, shared
    <2> QED BY <1>1, <2>1, <2>2 DEF TypeOK
  <1> QED BY <1>1, <1>2, <1>3, <1>4, <1>5, <1>6, <1>7, <1>8, <1>9 DEF TypeOK

LEMMA BarrierTypes ==
    ASSUME Inv, NEW t \in Threads, BarrierWait(t)
    PROVE  TypeOK'
  <1>1. waiting' \in Nat
    BY BarrierKeeps DEF Inv, TypeOK
  <1> QED BY <1>1, BarrierFrame DEF Inv, TypeOK

\* When every thread is done, no stream has a subscriber, and the destructors find
\* nobody to tell.
LEMMA MainFrame ==
    ASSUME Inv, MainReturn
    PROVE  /\ UNCHANGED <<pc, waiting, count, todo, subs, sMutex, queue, signals, terminated, got,
                          refused>>
           /\ main' = "exit"
  <1>1. /\ \A t \in Threads : pc[t] = "done"
        /\ subs \in [Streams -> Seq(Consumers)]
        /\ queue \in [Consumers -> Seq(Nat)]
        /\ signals \in [Consumers -> Nat]
        /\ terminated \in [Consumers -> BOOLEAN]
    BY DEF Inv, TypeOK, MainReturn
  <1>2. \A s \in Streams : subs[s] = << >>
    <2>1. ASSUME NEW s \in Streams PROVE subs[s] = << >>
      <3>1. Feeder(s) \in Feeders /\ Feeder(s) \in Threads /\ Out[Feeder(s)] = s
        BY FeederOfStream, WhoIsWho
      <3>2. pc[Feeder(s)] = "done"
        BY <1>1, <3>1
      <3> QED BY <3>1, <3>2 DEF Inv, WalksAreOwn
    <2> QED BY <2>1
  <1>3. \A c \in Consumers : ~ Subscribed(c)
    <2>1. \A c \in Consumers : subs[In[c]] \in Seq(Consumers) /\ Len(subs[In[c]]) = 0
      BY <1>1, <1>2, WhoIsWho
    <2> QED BY <2>1 DEF Subscribed
  <1>4. {c \in Consumers : Subscribed(c)} = {}
    BY <1>3
  <1>5. /\ terminated' = [c \in Consumers |-> terminated[c] \/ FALSE]
        /\ queue' = [c \in Consumers |-> queue[c]]
        /\ signals' = [c \in Consumers |-> signals[c]]
        /\ subs' = [s \in Streams |-> << >>]
    BY <1>4 DEF MainReturn
  <1>6. terminated' = terminated
    BY <1>1, <1>5
  <1>7. queue' = queue /\ signals' = signals
    BY <1>1, <1>5
  <1>8. subs' = subs
    BY <1>1, <1>2, <1>5
  <1> QED BY <1>6, <1>7, <1>8 DEF MainReturn, history

(***************************************************************************)
(* The walks and the producer's counter.                                   *)
(***************************************************************************)
LEMMA ConsumeWalks ==
    ASSUME Inv, NEW c \in Consumers, Consume(c)
    PROVE  WalksAreOwn'
  <1>1. /\ subs \in [Streams -> Seq(Consumers)] /\ c \in Threads
        /\ In[c] \in Streams /\ subs[In[c]] \in Seq(Consumers)
        /\ Feeders \subseteq Threads
        /\ Consumers \subseteq Threads
        /\ pc \in [Threads -> Places]
        /\ WalksAreOwn
    BY WhoIsWho DEF Inv, TypeOK
  <1>2. \A d \in Consumers : pc[d] # "start" => pc'[d] # "start"
    BY <1>1, ConsumeFrame
  <1>3. /\ \A f \in Feeders : pc'[f] \in {"signal", "mark", "sigmark", "done"} => pc'[f] = pc[f]
        /\ todo' = todo
    BY <1>1, ConsumeFrame
  <1>4. CASE subs' = subs
    <2>1. \A s \in Streams : \A i \in DOMAIN subs[s] : subs[s][i] \in Consumers
      BY <1>1
    <2> QED BY <1>1, <1>2, <1>3, <1>4, <2>1 DEF WalksAreOwn
  <1>5. CASE subs' # subs
    <2>1. /\ subs' = [subs EXCEPT ![In[c]] = Append(subs[In[c]], c)]
          /\ pc[c] = "start" /\ pc'[c] = "barrier"
      BY <1>1, <1>5 DEF Consume, Subscribe, NextCheck, Peek, WaitSignal, Dequeue, Goto, shared
    <2>2. ASSUME NEW s \in Streams, NEW i \in DOMAIN subs'[s]
          PROVE  /\ In[subs'[s][i]] = s /\ pc'[subs'[s][i]] # "start"
                 /\ \A j \in DOMAIN subs'[s] : subs'[s][i] = subs'[s][j] => i = j
      <3>1. \A j \in DOMAIN subs[s] : subs[s][j] \in Consumers
        BY <1>1
      <3>2. CASE s # In[c]
        <4>1. subs'[s] = subs[s]
          BY <1>1, <2>1, <3>2
        <4> QED BY <1>1, <1>2, <2>2, <3>1, <4>1 DEF WalksAreOwn
      <3>3. CASE s = In[c]
        <4>1. subs'[s] = Append(subs[s], c) /\ subs[s] \in Seq(Consumers)
          BY <1>1, <2>1, <3>3
        <4>2. \A j \in DOMAIN subs[s] :
                 /\ In[subs[s][j]] = s /\ pc[subs[s][j]] # "start" /\ pc'[subs[s][j]] # "start"
                 /\ subs[s][j] # c
          BY <1>1, <1>2, <2>1, <3>1 DEF WalksAreOwn
        <4>3. DOMAIN subs'[s] = 1 .. Len(subs[s]) + 1 /\ DOMAIN subs[s] = 1 .. Len(subs[s])
          BY <4>1
        <4>4. /\ \A j \in DOMAIN subs[s] : subs'[s][j] = subs[s][j]
              /\ subs'[s][Len(subs[s]) + 1] = c
              /\ Len(subs[s]) \in Nat
          BY <4>1
        <4>5. \A j \in DOMAIN subs'[s] : j \in DOMAIN subs[s] \/ j = Len(subs[s]) + 1
          BY <4>3, <4>4
        <4>6. \A j, k \in DOMAIN subs[s] : subs[s][j] = subs[s][k] => j = k
          BY <1>1 DEF WalksAreOwn
        <4> QED BY <2>1, <2>2, <3>3, <4>2, <4>4, <4>5, <4>6
      <3> QED BY <3>2, <3>3
    <2>3. \A f \in Feeders : pc'[f] = "done" => subs'[Out[f]] = << >>
      <3>1. \A u \in Threads : pc[u] \in {"start", "barrier", "parked"}
        BY <1>1, <2>1, BarrierApart
      <3> QED BY <1>1, <1>3, <3>1
    <2> QED BY <1>1, <1>3, <2>2, <2>3 DEF WalksAreOwn
  <1> QED BY <1>4, <1>5

\* A walk of feeder f over the sequence w of subscriptions.
Walk(f, w) ==
    \A i \in DOMAIN w : /\ In[w[i]] = Out[f]
                        /\ \A j \in DOMAIN w : w[i] = w[j] => i = j

LEMMA FeedWalks ==
    ASSUME Inv, NEW t \in Feeders, Feed(t)
    PROVE  WalksAreOwn'
  <1>1. /\ subs \in [Streams -> Seq(Consumers)]
        /\ todo \in [Feeders -> Seq(Consumers)] /\ todo[t] \in Seq(Consumers)
        /\ pc \in [Threads -> Places] /\ t \in Threads
        /\ Out[t] \in Streams
        /\ Feeders \subseteq Threads
        /\ Consumers \subseteq Threads
        /\ WalksAreOwn
    BY WhoIsWho, FeederOfStream DEF Inv, TypeOK
  <1>2. \A s \in Streams : subs'[s] = subs[s] \/ subs'[s] = << >>
    BY <1>1, FeedFrame
  <1>3. \A d \in Consumers : pc[d] # "start" => pc'[d] # "start"
    BY <1>1, FeedFrame
  <1>4. ASSUME NEW s \in Streams, NEW i \in DOMAIN subs'[s]
        PROVE  /\ In[subs'[s][i]] = s /\ pc'[subs'[s][i]] # "start"
               /\ \A j \in DOMAIN subs'[s] : subs'[s][i] = subs'[s][j] => i = j
    <2>1. CASE subs'[s] = << >>
      BY <1>4, <2>1
    <2>2. CASE subs'[s] = subs[s]
      <3>1. subs[s][i] \in Consumers
        BY <1>1, <1>4, <2>2
      <3> QED BY <1>1, <1>3, <1>4, <2>2, <3>1 DEF WalksAreOwn
    <2> QED BY <1>2, <2>1, <2>2
  <1>5. \/ todo'[t] = todo[t]
        \/ todo'[t] = subs[Out[t]]
        \/ todo[t] # << >> /\ todo'[t] = Tail(todo[t])
    <2>1. CASE PushLock(t) \/ TermLock(t)
      BY <1>1, <2>1 DEF PushLock, TermLock
    <2>2. CASE PushEnqueue(t) \/ PushUnlock(t) \/ TermFlag(t) \/ TermEnqueue(t) \/ TermClear(t)
      BY <2>2 DEF PushEnqueue, PushUnlock, TermFlag, TermEnqueue, TermClear
    <2>3. CASE PushRefused(t) \/ TermRefused(t) \/ PushSignal(t) \/ TermSignal(t)
      <3>1. pc[t] \in {"visit", "signal", "mark", "sigmark"}
        BY <2>3 DEF PushRefused, TermRefused, PushSignal, TermSignal
      <3>2. todo[t] # << >>
        <4>1. CASE PushRefused(t)
          BY <4>1 DEF PushRefused
        <4>2. CASE pc[t] # "visit"
          BY <1>1, <3>1, <4>2 DEF WalksAreOwn
        <4>3. PushRefused(t) \/ pc[t] # "visit"
          BY <2>3 DEF TermRefused, PushSignal, TermSignal
        <4> QED BY <4>1, <4>2, <4>3
      <3> QED BY <1>1, <2>3, <3>2 DEF PushRefused, TermRefused, PushSignal, TermSignal
    <2> QED BY <2>1, <2>2, <2>3 DEF Feed
  <1>6. Walk(t, todo'[t])
    <2>1. Walk(t, todo[t]) /\ Walk(t, subs[Out[t]])
      BY <1>1 DEF WalksAreOwn, Walk
    <2>2. CASE todo[t] # << >> /\ todo'[t] = Tail(todo[t])
      <3>1. \A i \in DOMAIN Tail(todo[t]) :
               /\ i + 1 \in DOMAIN todo[t] /\ Tail(todo[t])[i] = todo[t][i + 1] /\ i \in Nat
        BY <1>1, <2>2, HeadAndTail
      <3>2. \A i, j \in Nat : i + 1 = j + 1 => i = j
        OBVIOUS
      <3> QED BY <2>1, <2>2, <3>1, <3>2 DEF Walk
    <2> QED BY <1>5, <2>1, <2>2
  <1>7. pc'[t] \in {"signal", "mark", "sigmark"} => todo'[t] # << >>
    <2>1. CASE PushEnqueue(t) \/ TermFlag(t) \/ TermEnqueue(t)
      BY <1>1, <2>1 DEF PushEnqueue, TermFlag, TermEnqueue, WalksAreOwn
    <2>2. CASE PushLock(t) \/ PushUnlock(t) \/ TermLock(t) \/ TermClear(t)
      BY <1>1, <2>2 DEF PushLock, PushUnlock, TermLock, TermClear, Goto
    <2>3. CASE PushRefused(t) \/ PushSignal(t) \/ TermRefused(t) \/ TermSignal(t)
      BY <1>1, <2>3 DEF PushRefused, PushSignal, TermRefused, TermSignal, Goto
    <2> QED BY <2>1, <2>2, <2>3 DEF Feed
  <1>8. \A f \in Feeders : f # t => todo'[f] = todo[f] /\ pc'[f] = pc[f] /\ Out[f] # Out[t]
    BY <1>1, FeedFrame, FeederOfStream
  <1>9. ASSUME NEW f \in Feeders
        PROVE  /\ Walk(f, todo'[f])
               /\ pc'[f] \in {"signal", "mark", "sigmark"} => todo'[f] # << >>
               /\ pc'[f] = "done" => subs'[Out[f]] = << >>
    <2>1. CASE f = t
      BY <1>6, <1>7, <2>1, FeedFrame
    <2>2. CASE f # t
      <3>1. todo'[f] = todo[f] /\ pc'[f] = pc[f]
        BY <1>8, <2>2
      <3>2. Walk(f, todo[f])
        BY <1>1 DEF WalksAreOwn, Walk
      <3>3. subs'[Out[f]] = subs[Out[f]]
        BY <1>8, <2>2, FeedFrame, FeederOfStream
      <3> QED BY <1>1, <3>1, <3>2, <3>3 DEF WalksAreOwn
    <2> QED BY <2>1, <2>2
  <1> QED BY <1>4, <1>9 DEF WalksAreOwn, Walk

LEMMA BarrierWalks ==
    ASSUME Inv, NEW t \in Threads, BarrierWait(t)
    PROVE  WalksAreOwn'
  <1>1. /\ WalksAreOwn /\ subs \in [Streams -> Seq(Consumers)]
        /\ \A s \in Streams : \A i \in DOMAIN subs[s] : subs[s][i] \in Threads
    BY WhoIsWho DEF Inv, TypeOK
  <1>2. /\ subs' = subs /\ todo' = todo
        /\ \A u \in Threads :
              pc'[u] \in {"start", "signal", "mark", "sigmark", "done"} => pc'[u] = pc[u]
    BY BarrierFrame
  <1> QED BY <1>1, <1>2, WhoIsWho DEF WalksAreOwn

LEMMA StepProducer ==
    ASSUME Inv, Next
    PROVE  ProducerInLoop'
  <1>1. /\ pc \in [Threads -> Places] /\ Producer \in Threads /\ Producer \in Feeders
        /\ count \in [Feeders -> Nat \ {0}] /\ N \in Nat
        /\ ProducerInLoop
    BY WhoIsWho DEF Inv, TypeOK
  <1>2. ASSUME NEW c \in Consumers, Consume(c)
        PROVE  ProducerInLoop'
    BY <1>1, <1>2, WhoIsWho, ConsumeFrame DEF ProducerInLoop
  <1>3. ASSUME NEW t \in Feeders, Feed(t)
        PROVE  ProducerInLoop'
    <2>1. CASE t # Producer
      BY <1>1, <1>3, <2>1, FeedFrame DEF ProducerInLoop
    <2>2. CASE t = Producer
      <3>1. CASE PushUnlock(t)
        BY <1>1, <2>2, <3>1 DEF ProducerInLoop, PushUnlock, Goto
      <3>2. CASE PushLock(t) \/ PushEnqueue(t) \/ PushRefused(t) \/ PushSignal(t)
        BY <1>1, <2>2, <3>2 DEF ProducerInLoop, PushLock, PushEnqueue, PushRefused, PushSignal, Goto
      <3>3. CASE \/ TermLock(t) \/ TermFlag(t) \/ TermEnqueue(t) \/ TermRefused(t)
                 \/ TermSignal(t) \/ TermClear(t)
        <4>1. pc'[t] \in {"flag", "mark", "sigmark", "done"}
          <5>1. CASE TermLock(t) \/ TermFlag(t) \/ TermEnqueue(t)
            BY <1>1, <2>2, <5>1 DEF TermLock, TermFlag, TermEnqueue, Goto
          <5>2. CASE TermRefused(t) \/ TermSignal(t) \/ TermClear(t)
            BY <1>1, <2>2, <5>2 DEF TermRefused, TermSignal, TermClear, Goto
          <5> QED BY <3>3, <5>1, <5>2
        <4> QED BY <2>2, <4>1 DEF ProducerInLoop
      <3> QED BY <1>3, <3>1, <3>2, <3>3 DEF Feed
    <2> QED BY <2>1, <2>2
  <1>4. ASSUME NEW t \in Threads, BarrierWait(t)
        PROVE  ProducerInLoop'
    BY <1>1, <1>4, BarrierFrame DEF ProducerInLoop
  <1>5. CASE MainReturn
    BY <1>1, <1>5, MainFrame DEF ProducerInLoop
  <1> QED BY <1>2, <1>3, <1>4, <1>5 DEF Next, Step

(***************************************************************************)
(* The invariant of each subscription.                                     *)
(***************************************************************************)
LEMMA AppendKeeps ==
    ASSUME NEW S, NEW s \in Seq(S), NEW e \in S
    PROVE  /\ \A i \in DOMAIN s : i \in DOMAIN Append(s, e) /\ Append(s, e)[i] = s[i]
           /\ \A i \in DOMAIN Append(s, e) :
                 i = Len(s) + 1 \/ (i \in DOMAIN s /\ Append(s, e)[i] = s[i])
           /\ Len(s) + 1 \in DOMAIN Append(s, e)
           /\ Append(s, e)[Len(s) + 1] = e
           /\ Len(Append(s, e)) = Len(s) + 1
           /\ Len(s) \in Nat
  OBVIOUS

\* The parts of SubscriptionInv, for the proofs.
Signalled(c) ==
    LET f == Feeder(In[c])
        giving == At(f, "signal", c) \/ At(f, "sigmark", c)
    IN  Len(queue[c]) >= signals[c] + One(pc[c] = "dequeue") + One(giving)
MarkLast(q) == \A i \in DOMAIN q : q[i] = NullOpt => i = Len(q)
Marked(q) == \E i \in DOMAIN q : q[i] = NullOpt
LastVisit(c) ==
    LET f == Feeder(In[c])
    IN  /\ pc[f] \in {"flag", "mark", "sigmark", "done"}
        /\ \/ At(f, "sigmark", c)
           \/ \A i \in DOMAIN todo[f] : todo[f][i] # c
Stays(c) == pc[c] # "start" /\ pc[Feeder(In[c])] # "done" => Subscribed(c)

\* As long as neither the queue, its signals, nor the places of the two threads change.
LEMMA NobodyNear ==
    ASSUME Inv, NEW d \in Consumers,
           queue'[d] = queue[d], signals'[d] = signals[d],
           todo'[Feeder(In[d])] = todo[Feeder(In[d])],
           pc'[d] = "start" <=> pc[d] = "start",
           pc'[d] = "dequeue" <=> pc[d] = "dequeue",
           \A l \in {"signal", "flag", "mark", "sigmark", "done"} :
              pc'[Feeder(In[d])] = l <=> pc[Feeder(In[d])] = l,
           Subscribed(d) => Subscribed(d)'
    PROVE  SubscriptionInv(d)'
  <1> DEFINE f == Feeder(In[d])
  <1>1. Signalled(d) /\ MarkLast(queue[d]) /\ (Marked(queue[d]) => LastVisit(d)) /\ Stays(d)
    BY DEF Inv, SubscriptionInv, Signalled, MarkLast, Marked, LastVisit, Stays
  <1>2. /\ At(f, "signal", d)' <=> At(f, "signal", d)
        /\ At(f, "sigmark", d)' <=> At(f, "sigmark", d)
    BY DEF At
  <1> HIDE DEF f
  <1>3. Signalled(d)'
    <2>1. /\ One(pc'[d] = "dequeue") = One(pc[d] = "dequeue")
          /\ One(At(f, "signal", d) \/ At(f, "sigmark", d))'
               = One(At(f, "signal", d) \/ At(f, "sigmark", d))
      BY <1>2 DEF One
    <2> QED BY <1>1, <2>1 DEF Signalled, f
  <1>4. LastVisit(d) => LastVisit(d)'
    BY <1>2 DEF LastVisit, At, f
  <1>5. Stays(d)'
    BY <1>1 DEF Stays
  <1> QED BY <1>1, <1>3, <1>4, <1>5
           DEF SubscriptionInv, Signalled, MarkLast, Marked, LastVisit, Stays, At, One

LEMMA ConsumeSubscribed ==
    ASSUME Inv, NEW c \in Consumers, Consume(c), NEW d \in Consumers
    PROVE  Subscribed(d) => Subscribed(d)'
  <1>1. /\ c \in Consumers /\ In[c] \in Streams /\ In[d] \in Streams
        /\ subs \in [Streams -> Seq(Consumers)] /\ subs[In[d]] \in Seq(Consumers)
    BY WhoIsWho DEF Inv, TypeOK
  <1>2. CASE subs'[In[d]] = subs[In[d]]
    BY <1>2 DEF Subscribed
  <1>3. CASE subs'[In[d]] # subs[In[d]]
    <2>1. subs'[In[d]] = Append(subs[In[d]], c)
      BY <1>1, <1>3 DEF Consume, Subscribe, NextCheck, Peek, WaitSignal, Dequeue, shared
    <2>2. \A i \in DOMAIN subs[In[d]] :
             i \in DOMAIN subs'[In[d]] /\ subs'[In[d]][i] = subs[In[d]][i]
      BY <1>1, <2>1, AppendKeeps
    <2> QED BY <2>2 DEF Subscribed
  <1> QED BY <1>2, <1>3

LEMMA ConsumeOther ==
    ASSUME Inv, NEW c \in Consumers, Consume(c), NEW d \in Consumers, d # c
    PROVE  SubscriptionInv(d)'
  <1>1. /\ Feeder(In[d]) \in Threads /\ Feeder(In[d]) \in Feeders /\ d \in Threads /\ c \in Threads
        /\ pc \in [Threads -> Places]
    BY WhoIsWho DEF Inv, TypeOK
  <1>2. /\ pc'[d] = pc[d] /\ queue'[d] = queue[d] /\ signals'[d] = signals[d] /\ todo' = todo
        /\ \A l \in {"signal", "flag", "mark", "sigmark", "done"} :
              pc'[Feeder(In[d])] = l <=> pc[Feeder(In[d])] = l
    BY <1>1, ConsumeFrame
  <1> QED BY <1>2, ConsumeSubscribed, NobodyNear

LEMMA ConsumeOwn ==
    ASSUME Inv, NEW c \in Consumers, Consume(c)
    PROVE  SubscriptionInv(c)'
  <1> DEFINE f == Feeder(In[c])
  <1>1. /\ f \in Threads /\ f \in Feeders /\ c \in Threads /\ f # c
        /\ In[c] \in Streams
        /\ pc \in [Threads -> Places]
        /\ queue \in [Consumers -> Seq(Nat)] /\ queue[c] \in Seq(Nat)
        /\ signals \in [Consumers -> Nat] /\ signals[c] \in Nat
        /\ subs \in [Streams -> Seq(Consumers)] /\ subs[In[c]] \in Seq(Consumers)
    BY WhoIsWho DEF Inv, TypeOK
  <1>2. /\ pc'[f] = pc[f] /\ todo' = todo
        /\ \A l \in {"signal", "sigmark"} : At(f, l, c)' <=> At(f, l, c)
        /\ LastVisit(c)' <=> LastVisit(c)
    <2>1. pc'[f] = pc[f] /\ todo' = todo
      BY <1>1, ConsumeFrame
    <2> HIDE DEF f
    <2> QED BY <2>1 DEF At, LastVisit, f
  <1>3. Signalled(c) /\ MarkLast(queue[c]) /\ (Marked(queue[c]) => LastVisit(c)) /\ Stays(c)
    BY DEF Inv, SubscriptionInv, Signalled, MarkLast, Marked, LastVisit, Stays
  <1>4. Stays(c)'
    <2>1. CASE Subscribe(c)
      <3>1. subs'[In[c]] = Append(subs[In[c]], c)
        BY <1>1, <2>1 DEF Subscribe
      <3>2. /\ Len(subs[In[c]]) + 1 \in DOMAIN subs'[In[c]]
            /\ subs'[In[c]][Len(subs[In[c]]) + 1] = c
        BY <1>1, <3>1, AppendKeeps
      <3> QED BY <3>2 DEF Stays, Subscribed
    <2>2. CASE pc[c] # "start"
      BY <1>2, <1>3, <2>2, ConsumeSubscribed DEF Stays
    <2> QED BY <2>1, <2>2 DEF Consume, NextCheck, Peek, WaitSignal, Dequeue
  <1> HIDE DEF f
  <1>5. CASE Subscribe(c) \/ NextCheck(c) \/ Peek(c)
    <2>1. queue' = queue /\ signals' = signals /\ pc'[c] # "dequeue" /\ pc[c] # "dequeue"
      BY <1>1, <1>5 DEF Subscribe, NextCheck, Peek, Goto, AfterLoop, shared
    <2>2. Signalled(c)'
      BY <1>2, <1>3, <2>1 DEF Signalled, At, One, f
    <2> QED BY <1>2, <1>3, <1>4, <2>1, <2>2
           DEF SubscriptionInv, Signalled, MarkLast, Marked, LastVisit, Stays, At, One
  <1>6. CASE WaitSignal(c)
    <2>1. /\ queue' = queue /\ signals'[c] = signals[c] - 1 /\ pc'[c] = "dequeue"
          /\ pc[c] # "dequeue"
      BY <1>1, <1>6 DEF WaitSignal, Goto
    <2>2. Signalled(c)'
      BY <1>1, <1>2, <1>3, <2>1 DEF Signalled, At, One, f
    <2> QED BY <1>2, <1>3, <1>4, <2>1, <2>2
           DEF SubscriptionInv, Signalled, MarkLast, Marked, LastVisit, Stays, At, One
  <1>7. CASE Dequeue(c)
    <2>1. /\ queue'[c] = Tail(queue[c]) /\ queue[c] # << >> /\ signals'[c] = signals[c]
          /\ pc[c] = "dequeue" /\ pc'[c] # "dequeue"
      BY <1>1, <1>7 DEF Dequeue, Goto, AfterLoop
    <2>2. /\ Len(queue'[c]) = Len(queue[c]) - 1 /\ Len(queue[c]) \in Nat
          /\ \A i \in DOMAIN queue'[c] :
                /\ i \in Nat /\ i + 1 \in DOMAIN queue[c]
                /\ queue'[c][i] = queue[c][i + 1]
      BY <1>1, <2>1
    <2>3. Signalled(c)'
      BY <1>1, <1>2, <1>3, <2>1, <2>2 DEF Signalled, At, One, f
    <2>4. MarkLast(queue'[c])
      BY <1>3, <2>2 DEF MarkLast
    <2>5. Marked(queue'[c]) => Marked(queue[c])
      BY <2>2 DEF Marked
    <2> QED BY <1>2, <1>3, <1>4, <2>3, <2>4, <2>5
           DEF SubscriptionInv, Signalled, MarkLast, Marked, LastVisit, Stays, At, One
  <1> QED BY <1>5, <1>6, <1>7 DEF Consume

LEMMA FeedOther ==
    ASSUME Inv, NEW t \in Feeders, Feed(t), NEW d \in Consumers, Feeder(In[d]) # t
    PROVE  SubscriptionInv(d)'
  <1>1. /\ Feeder(In[d]) \in Threads /\ Feeder(In[d]) \in Feeders /\ d \in Threads /\ t \in Threads
        /\ In[d] \in Streams /\ Out[Feeder(In[d])] = In[d]
        /\ In[d] # Out[t]
        /\ pc \in [Threads -> Places]
    BY WhoIsWho, FeederOfStream DEF Inv, TypeOK
  <1>2. /\ queue'[d] = queue[d] /\ signals'[d] = signals[d]
        /\ todo'[Feeder(In[d])] = todo[Feeder(In[d])]
        /\ pc'[Feeder(In[d])] = pc[Feeder(In[d])]
    BY <1>1, FeedFrame
  <1>3. /\ pc'[d] = "start" <=> pc[d] = "start"
        /\ pc'[d] = "dequeue" <=> pc[d] = "dequeue"
    <2>1. CASE d = t
      BY <2>1, FeedFrame
    <2>2. CASE d # t
      BY <1>1, <2>2, FeedFrame
    <2> QED BY <2>1, <2>2
  <1>4. Subscribed(d) => Subscribed(d)'
    <2>1. subs'[In[d]] = subs[In[d]]
      BY <1>1, FeedFrame
    <2> QED BY <2>1 DEF Subscribed
  <1> QED BY <1>2, <1>3, <1>4, NobodyNear

LEMMA BarrierSub ==
    ASSUME Inv, NEW t \in Threads, BarrierWait(t), NEW d \in Consumers
    PROVE  SubscriptionInv(d)'
  <1>1. Feeder(In[d]) \in Threads /\ d \in Threads
    BY WhoIsWho
  <1>2. /\ queue' = queue /\ signals' = signals /\ todo' = todo /\ subs' = subs
        /\ \A u \in Threads : \A l \in {"start", "dequeue", "signal", "flag", "mark", "sigmark", "done"} :
              pc'[u] = l <=> pc[u] = l
    BY BarrierFrame
  <1>3. Subscribed(d) => Subscribed(d)'
    BY <1>2 DEF Subscribed
  <1> QED BY <1>1, <1>2, <1>3, NobodyNear

LEMMA MainSub ==
    ASSUME Inv, MainReturn, NEW d \in Consumers
    PROVE  SubscriptionInv(d)'
  <1>1. queue' = queue /\ signals' = signals /\ todo' = todo /\ subs' = subs /\ pc' = pc
    BY MainFrame
  <1>2. Subscribed(d) => Subscribed(d)'
    BY <1>1 DEF Subscribed
  <1> QED BY <1>1, <1>2, NobodyNear

\* A feeder's step and a subscription of its own stream.
LEMMA FeedOwn ==
    ASSUME Inv, NEW t \in Feeders, Feed(t), NEW d \in Consumers, Feeder(In[d]) = t
    PROVE  SubscriptionInv(d)'
  <1>1. /\ t \in Threads /\ d \in Threads /\ d # t
        /\ Out[t] = In[d] /\ In[d] \in Streams
        /\ pc \in [Threads -> Places]
        /\ todo \in [Feeders -> Seq(Consumers)] /\ todo[t] \in Seq(Consumers)
        /\ queue \in [Consumers -> Seq(Nat)] /\ queue[d] \in Seq(Nat)
        /\ signals \in [Consumers -> Nat] /\ signals[d] \in Nat
        /\ count[t] \in Nat \ {0}
        /\ NullOpt = 0
    BY WhoIsWho DEF Inv, TypeOK, NullOpt
  <1>2. /\ pc'[d] = pc[d]
        /\ pc'[t] = "done" \/ subs' = subs
        /\ pc[t] # "done"
    BY <1>1, FeedFrame
  <1>3. Signalled(d) /\ MarkLast(queue[d]) /\ (Marked(queue[d]) => LastVisit(d)) /\ Stays(d)
    BY DEF Inv, SubscriptionInv, Signalled, MarkLast, Marked, LastVisit, Stays
  <1>4. /\ pc[t] \in {"signal", "mark", "sigmark"} => todo[t] # << >>
        /\ \A i, j \in DOMAIN todo[t] : todo[t][i] = todo[t][j] => i = j
    BY DEF Inv, WalksAreOwn
  <1>5. Stays(d)'
    BY <1>2, <1>3 DEF Stays, Subscribed
  <1>6. todo[t] # << >> => /\ Head(todo[t]) \in Consumers
                           /\ 1 \in DOMAIN todo[t] /\ Head(todo[t]) = todo[t][1]
                           /\ \A i \in DOMAIN Tail(todo[t]) :
                                 /\ i + 1 \in DOMAIN todo[t] /\ i + 1 # 1
                                 /\ Tail(todo[t])[i] = todo[t][i + 1]
    <2>1. ASSUME todo[t] # << >>, NEW i \in DOMAIN Tail(todo[t])
          PROVE  i + 1 # 1
      BY <1>1, <2>1
    <2> QED BY <1>1, <2>1, HeadAndTail
  \* The queue does not change: the places and signals decide.
  <1>7. ASSUME queue'[d] = queue[d], Signalled(d)', LastVisit(d) => LastVisit(d)'
        PROVE  SubscriptionInv(d)'
    BY <1>3, <1>5, <1>7
       DEF SubscriptionInv, Signalled, MarkLast, Marked, LastVisit, Stays
  <1>8. CASE PushLock(t) \/ TermLock(t)
    <2>1. /\ queue' = queue /\ signals' = signals
          /\ pc[t] \in {"push", "term"} /\ pc'[t] \in {"visit", "flag"}
      BY <1>1, <1>8 DEF PushLock, TermLock, Goto
    <2>2. Signalled(d)'
      BY <1>1, <1>2, <1>3, <2>1 DEF Signalled, At, One
    <2>3. ~ LastVisit(d)
      BY <2>1 DEF LastVisit
    <2> QED BY <1>7, <2>1, <2>2, <2>3
  <1>9. CASE PushRefused(t) \/ TermRefused(t)
    <2>1. /\ queue' = queue /\ signals' = signals /\ todo[t] # << >> /\ todo'[t] = Tail(todo[t])
          /\ pc[t] \in {"visit", "mark"} /\ pc'[t] \in {"visit", "flag"}
          /\ pc[t] = "mark" => pc'[t] = "flag"
      BY <1>1, <1>4, <1>9 DEF PushRefused, TermRefused, Goto, shared
    <2>2. Signalled(d)'
      BY <1>1, <1>2, <1>3, <2>1 DEF Signalled, At, One
    <2>3. LastVisit(d) => LastVisit(d)'
      BY <1>6, <2>1 DEF LastVisit, At
    <2> QED BY <1>7, <2>1, <2>2, <2>3
  <1>10. CASE PushSignal(t) \/ TermSignal(t)
    <2>1. /\ queue' = queue /\ todo[t] # << >> /\ todo'[t] = Tail(todo[t])
          /\ pc[t] \in {"signal", "sigmark"} /\ pc'[t] \in {"visit", "flag"}
          /\ pc[t] = "sigmark" => pc'[t] = "flag"
      BY <1>1, <1>4, <1>10 DEF PushSignal, TermSignal, Goto
    <2>2. signals'[d] = IF Head(todo[t]) = d THEN signals[d] + 1 ELSE signals[d]
      BY <1>1, <1>10 DEF PushSignal, TermSignal
    <2>3. Signalled(d)'
      <3>1. CASE Head(todo[t]) = d
        <4>1. At(t, "signal", d) \/ At(t, "sigmark", d)
          BY <2>1, <3>1 DEF At
        <4>2. ~ (At(t, "signal", d)' \/ At(t, "sigmark", d)')
          BY <2>1 DEF At
        <4>3. Len(queue[d]) >= signals[d] + One(pc[d] = "dequeue") + 1
          BY <1>3, <4>1 DEF Signalled, One
        <4> QED BY <1>1, <1>2, <2>1, <2>2, <3>1, <4>2, <4>3 DEF Signalled, One
      <3>2. CASE Head(todo[t]) # d
        BY <1>1, <1>2, <1>3, <2>1, <2>2, <3>2 DEF Signalled, At, One
      <3> QED BY <3>1, <3>2
    <2>4. LastVisit(d) => LastVisit(d)'
      <3>1. \A i \in DOMAIN Tail(todo[t]) : Head(todo[t]) = d => Tail(todo[t])[i] # d
        BY <1>4, <1>6, <2>1
      <3>2. CASE Head(todo[t]) = d
        BY <2>1, <3>1, <3>2 DEF LastVisit, At
      <3>3. CASE Head(todo[t]) # d
        BY <1>6, <2>1, <3>3 DEF LastVisit, At
      <3> QED BY <3>2, <3>3
    <2> QED BY <1>7, <2>1, <2>3, <2>4
  <1>11. CASE PushUnlock(t)
    <2>1. /\ queue' = queue /\ signals' = signals
          /\ pc[t] = "visit" /\ pc'[t] \in {"next", "term", "push"}
      BY <1>1, <1>11 DEF PushUnlock, Goto
    <2>2. Signalled(d)'
      BY <1>1, <1>2, <1>3, <2>1 DEF Signalled, At, One
    <2>3. ~ LastVisit(d)
      BY <2>1 DEF LastVisit
    <2> QED BY <1>7, <2>1, <2>2, <2>3
  <1>12. CASE TermFlag(t) \/ TermClear(t)
    <2>1. /\ queue' = queue /\ signals' = signals /\ todo' = todo
          /\ pc[t] = "flag" /\ pc'[t] \in {"mark", "done"}
      BY <1>1, <1>12 DEF TermFlag, TermClear, Goto
    <2>2. Signalled(d)'
      BY <1>1, <1>2, <1>3, <2>1 DEF Signalled, At, One
    <2>3. LastVisit(d) => LastVisit(d)'
      BY <2>1 DEF LastVisit, At
    <2> QED BY <1>7, <2>1, <2>2, <2>3
  <1>13. CASE PushEnqueue(t) \/ TermEnqueue(t)
    <2>1. /\ signals' = signals /\ todo' = todo /\ todo[t] # << >>
          /\ \/ pc[t] = "visit" /\ pc'[t] = "signal"
             \/ pc[t] = "mark" /\ pc'[t] = "sigmark"
      BY <1>1, <1>4, <1>13 DEF PushEnqueue, TermEnqueue, Goto
    <2>2. CASE Head(todo[t]) # d
      <3>1. queue'[d] = queue[d]
        BY <1>1, <1>13, <2>2 DEF PushEnqueue, TermEnqueue
      <3>2. Signalled(d)'
        BY <1>1, <1>2, <1>3, <2>1, <2>2, <3>1 DEF Signalled, At, One
      <3>3. LastVisit(d) => LastVisit(d)'
        BY <2>1 DEF LastVisit, At
      <3> QED BY <1>7, <3>1, <3>2, <3>3
    <2>3. CASE Head(todo[t]) = d
      <3>1. ~ Marked(queue[d])
        BY <1>3, <1>6, <2>1, <2>3 DEF LastVisit, At
      <3>2. PICK e \in Nat : /\ queue'[d] = Append(queue[d], e)
                             /\ e = NullOpt => pc[t] = "mark"
        <4>1. CASE PushEnqueue(t)
          <5>1. queue'[d] = Append(queue[d], count[t])
            BY <1>1, <2>3, <4>1 DEF PushEnqueue
          <5>2. count[t] \in Nat /\ count[t] # NullOpt
            BY <1>1
          <5> QED BY <5>1, <5>2
        <4>2. CASE TermEnqueue(t)
          <5>1. queue'[d] = Append(queue[d], NullOpt) /\ pc[t] = "mark"
            BY <1>1, <2>3, <4>2 DEF TermEnqueue
          <5> QED BY <1>1, <5>1
        <4> QED BY <1>13, <4>1, <4>2
      <3>3. /\ Len(queue'[d]) = Len(queue[d]) + 1 /\ Len(queue[d]) \in Nat
            /\ \A i \in DOMAIN queue'[d] :
                  \/ i = Len(queue[d]) + 1 /\ queue'[d][i] = e
                  \/ i \in DOMAIN queue[d] /\ queue'[d][i] = queue[d][i]
        <4>1. queue[d] \in Seq(Nat)
          BY <1>1
        <4> QED BY <3>2, <4>1, AppendKeeps
      <3>4. Signalled(d)'
        <4>1. ~ (At(t, "signal", d) \/ At(t, "sigmark", d))
          BY <2>1 DEF At
        <4>2. Len(queue[d]) >= signals[d] + One(pc[d] = "dequeue")
          BY <1>1, <1>3, <4>1 DEF Signalled, One
        <4>3. One(pc[d] = "dequeue") \in Nat /\ One(pc'[d] = "dequeue") = One(pc[d] = "dequeue")
          BY <1>2 DEF One
        <4>4. Len(queue'[d]) >= signals'[d] + One(pc'[d] = "dequeue") + 1
          BY <1>1, <2>1, <3>3, <4>2, <4>3
        <4> QED BY <1>1, <4>3, <4>4, <2>1 DEF Signalled, One
      <3>5. MarkLast(queue'[d])
        BY <3>1, <3>3 DEF MarkLast, Marked
      <3>6. Marked(queue'[d]) => LastVisit(d)'
        <4>1. Marked(queue'[d]) => e = NullOpt
          BY <3>1, <3>3 DEF Marked
        <4> QED BY <2>1, <2>3, <3>2, <4>1 DEF LastVisit, At
      <3> QED BY <1>5, <3>4, <3>5, <3>6
              DEF SubscriptionInv, Signalled, MarkLast, Marked, LastVisit, Stays
    <2> QED BY <2>2, <2>3
  <1> QED BY <1>8, <1>9, <1>10, <1>11, <1>12, <1>13 DEF Feed

(***************************************************************************)
(* The theorems.                                                           *)
(***************************************************************************)
LEMMA StepInv == Inv /\ [Next]_vars => Inv'
  <1> SUFFICES ASSUME Inv, [Next]_vars PROVE Inv'
    OBVIOUS
  <1>1. Next => ProducerInLoop'
    BY StepProducer
  <1>2. ASSUME NEW c \in Consumers, Consume(c), Next PROVE Inv'
    <2>1. \A d \in Consumers : SubscriptionInv(d)'
      BY <1>2, ConsumeOwn, ConsumeOther
    <2> QED BY <1>1, <1>2, <2>1, ConsumeTypes, ConsumeBarrier, ConsumeWalks DEF Inv
  <1>3. ASSUME NEW t \in Feeders, Feed(t), Next PROVE Inv'
    <2>1. \A d \in Consumers : SubscriptionInv(d)'
      BY <1>3, FeedOwn, FeedOther
    <2> QED BY <1>1, <1>3, <2>1, FeedTypes, FeedBarrier, FeedWalks DEF Inv
  <1>4. ASSUME NEW t \in Threads, BarrierWait(t), Next PROVE Inv'
    <2>1. \A d \in Consumers : SubscriptionInv(d)'
      BY <1>4, BarrierSub
    <2>2. BarrierInv'
      BY <1>1, <1>4, BarrierKeeps DEF Inv, TypeOK
    <2> QED BY <1>1, <1>4, <2>1, <2>2, BarrierTypes, BarrierWalks DEF Inv
  <1>5. ASSUME MainReturn, Next PROVE Inv'
    <2>1. \A d \in Consumers : SubscriptionInv(d)'
      BY <1>5, MainSub
    <2>2. TypeOK' /\ BarrierInv' /\ WalksAreOwn'
      <3>1. TypeOK'
        BY <1>5, MainFrame DEF Inv, TypeOK
      <3>2. BarrierInv'
        <4>1. pc' = pc /\ waiting' = waiting /\ BarrierInv
          BY <1>5, MainFrame DEF Inv
        <4>2. Early' = Early
          BY <4>1 DEF Early
        <4> QED BY <4>1, <4>2 DEF BarrierInv
      <3>3. WalksAreOwn'
        BY <1>5, MainFrame DEF Inv, WalksAreOwn
      <3> QED BY <3>1, <3>2, <3>3
    <2> QED BY <1>1, <1>5, <2>1, <2>2 DEF Inv
  <1>6. CASE UNCHANGED vars
    <2>1. TypeOK' /\ BarrierInv' /\ WalksAreOwn' /\ ProducerInLoop'
      BY <1>6 DEF vars, shared, history, Inv, TypeOK, BarrierInv, Early, WalksAreOwn, ProducerInLoop
    <2>2. \A d \in Consumers : SubscriptionInv(d)'
      <3>1. /\ queue' = queue /\ signals' = signals /\ todo' = todo /\ subs' = subs /\ pc' = pc
        BY <1>6 DEF vars, shared, history
      <3> SUFFICES ASSUME NEW d \in Consumers PROVE SubscriptionInv(d)'
        OBVIOUS
      <3>2. Subscribed(d) => Subscribed(d)'
        BY <3>1 DEF Subscribed
      <3> QED BY <3>1, <3>2, NobodyNear
    <2> QED BY <2>1, <2>2 DEF Inv
  <1> QED BY <1>2, <1>3, <1>4, <1>5, <1>6 DEF Next, Step

\* The inductive invariant holds in every run: the types, the account of the barrier, the
\* walks of the feeders, and for each subscription the elements its signals stand for.
THEOREM Invariance == Safety => []Inv
  BY InitInv, StepInv, PTL DEF Safety

\* The assert(success) of wait_dequeue holds for every wiring, every capacity and
\* whatever enqueue() refuses.
THEOREM AssertHolds == Safety => []DequeueSucceeds
  <1>1. Inv => DequeueSucceeds
    <2> SUFFICES ASSUME Inv, NEW c \in Consumers
                 PROVE  Len(queue[c]) >= signals[c] + (IF pc[c] = "dequeue" THEN 1 ELSE 0)
      BY DEF DequeueSucceeds
    <2>1. queue[c] \in Seq(Nat) /\ signals[c] \in Nat /\ Signalled(c)
      BY DEF Inv, TypeOK, SubscriptionInv, Signalled
    <2> QED BY <2>1 DEF Signalled, One
  <1> QED BY <1>1, Invariance, PTL

\* Whatever the number of threads: nobody passes the barrier before all have come to it,
\* so that no frame is pushed before every consumer has subscribed.
THEOREM BarrierHolds == Safety => []StartsTogether
  <1>1. Inv => StartsTogether
    BY WhoIsWho DEF Inv, BarrierInv, StartsTogether
  <1> QED BY <1>1, Invariance, PTL

(***************************************************************************)
(* The account of the frames.                                              *)
(***************************************************************************)
\* What EveryFrameAccounted says of one subscription.
Account(seen, ref, last) ==
    /\ \A i, j \in DOMAIN seen : i < j => seen[i] < seen[j]
    /\ {seen[i] : i \in DOMAIN seen} \cap ref = {}
    /\ {seen[i] : i \in DOMAIN seen} \cup ref = 1 .. last

\* The frames that are out of the feeder's hands, in the order of the consumer.
Seen(c) == got[c] \o Frames(queue[c])

\* One more frame has gone into the queue.
LEMMA AccountGrows ==
    ASSUME NEW seen \in Seq(Nat), NEW ref, NEW e \in Nat \ {0}, Account(seen, ref, e - 1)
    PROVE  Account(Append(seen, e), ref, e)
  <1> DEFINE more == Append(seen, e)
             ids  == {seen[i] : i \in DOMAIN seen}
  <1>1. /\ \A i \in DOMAIN more :
              \/ i = Len(seen) + 1 /\ more[i] = e
              \/ i \in DOMAIN seen /\ more[i] = seen[i] /\ i < Len(seen) + 1
        /\ \A i \in DOMAIN seen : i \in DOMAIN more /\ more[i] = seen[i]
        /\ Len(seen) + 1 \in DOMAIN more /\ more[Len(seen) + 1] = e
        /\ Len(seen) \in Nat
    <2>1. \A i \in DOMAIN seen : i < Len(seen) + 1
      OBVIOUS
    <2> QED BY <2>1, AppendKeeps
  <1>2. ids \cap ref = {} /\ ids \cup ref = 1 .. e - 1
    BY DEF Account
  <1> HIDE DEF more
  <1>3. \A i \in DOMAIN seen : seen[i] \in 1 .. e - 1
    BY <1>2
  <1>4. {more[i] : i \in DOMAIN more} = ids \cup {e}
    BY <1>1
  <1>5. e \notin ref /\ 1 .. e = (1 .. e - 1) \cup {e}
    <2>1. e \notin 1 .. e - 1 /\ 1 .. e = (1 .. e - 1) \cup {e}
      OBVIOUS
    <2> QED BY <1>2, <2>1
  <1>6. ASSUME NEW i \in DOMAIN more, NEW j \in DOMAIN more, i < j
        PROVE  more[i] < more[j]
    <2>1. i \in DOMAIN seen /\ more[i] = seen[i]
      <3>1. i \in DOMAIN seen => i \in Nat
        OBVIOUS
      <3>2. j \in DOMAIN seen => j \in Nat
        OBVIOUS
      <3> QED BY <1>1, <1>6, <3>1, <3>2
    <2>2. CASE j \in DOMAIN seen /\ more[j] = seen[j]
      BY <1>6, <2>1, <2>2 DEF Account
    <2>3. CASE more[j] = e
      BY <1>3, <2>1, <2>3
    <2> QED BY <1>1, <2>2, <2>3
  <1>7. {more[i] : i \in DOMAIN more} \cap ref = {}
    BY <1>2, <1>4, <1>5
  <1>8. {more[i] : i \in DOMAIN more} \cup ref = 1 .. e
    BY <1>2, <1>4, <1>5
  <1> QED BY <1>6, <1>7, <1>8 DEF Account, more

\* One more frame has been refused.
LEMMA AccountRefused ==
    ASSUME NEW seen \in Seq(Nat), NEW ref, NEW e \in Nat \ {0}, Account(seen, ref, e - 1)
    PROVE  Account(seen, ref \cup {e}, e)
  <1> DEFINE ids == {seen[i] : i \in DOMAIN seen}
  <1>1. ids \cap ref = {} /\ ids \cup ref = 1 .. e - 1
    BY DEF Account
  <1>2. e \notin 1 .. e - 1 /\ 1 .. e = (1 .. e - 1) \cup {e}
    OBVIOUS
  <1> HIDE DEF ids
  <1>3. ids \cap (ref \cup {e}) = {} /\ ids \cup (ref \cup {e}) = 1 .. e
    BY <1>1, <1>2
  <1> QED BY <1>3 DEF Account, ids

LEMMA FramesUnmarked ==
    ASSUME NEW q \in Seq(Nat), ~ Marked(q)
    PROVE  /\ Frames(q) = q
           /\ Frames(Append(q, NullOpt)) = q
           /\ \A e \in Nat \ {0} : Frames(Append(q, e)) = Append(q, e)
  <1>1. q # << >> => q[Len(q)] # NullOpt
    BY DEF Marked
  <1>2. ASSUME NEW e \in Nat
        PROVE  /\ Append(q, e) # << >> /\ Len(Append(q, e)) = Len(q) + 1
               /\ Append(q, e)[Len(q) + 1] = e
               /\ SubSeq(Append(q, e), 1, (Len(q) + 1) - 1) = q
    OBVIOUS
  <1>3. Frames(q) = q
    BY <1>1 DEF Frames
  <1>4. Frames(Append(q, NullOpt)) = q
    BY <1>2 DEF Frames, NullOpt
  <1>5. ASSUME NEW e \in Nat \ {0} PROVE Frames(Append(q, e)) = Append(q, e)
    BY <1>2 DEF Frames, NullOpt
  <1> QED BY <1>3, <1>4, <1>5

LEMMA FramesType ==
    ASSUME NEW q \in Seq(Nat)
    PROVE  Frames(q) \in Seq(Nat)
  BY DEF Frames

LEMMA AppendBehind ==
    \A r, s \in Seq(Nat) : \A e \in Nat : r \o Append(s, e) = Append(r \o s, e)
  OBVIOUS

LEMMA MoveHead ==
    ASSUME NEW S, NEW s \in Seq(S), NEW t \in Seq(S), t # << >>
    PROVE  Append(s, Head(t)) \o Tail(t) = s \o t
  OBVIOUS

LEMMA NotEmpty ==
    ASSUME NEW s, Len(s) > 0
    PROVE  s # << >>
  <1>1. Len(<< >>) = 0
    BY EmptySeq
  <1>2. SUFFICES ASSUME s = << >> PROVE FALSE
    OBVIOUS
  <1>3. Len(s) = 0
    BY <1>1, <1>2, Zenon
  <1> QED BY <1>3

LEMMA SeqOfOne ==
    ASSUME NEW S, NEW q \in Seq(S), Len(q) = 1
    PROVE  Tail(q) = << >> /\ SubSeq(q, 1, Len(q) - 1) = << >>
  <1>1. q # << >>
    BY EmptySeq
  <1>2. Tail(q) \in Seq(S) /\ Len(Tail(q)) = 0
    BY <1>1, HeadTailProperties
  <1>3. Tail(q) = << >>
    BY <1>2, EmptySeq
  <1>4. SubSeq(q, 1, Len(q) - 1) = << >>
    BY SubSeqEmpty
  <1> QED BY <1>3, <1>4

LEMMA Shorter ==
    ASSUME NEW S, NEW q \in Seq(S), Len(q) > 1
    PROVE  /\ SubSeq(q, 1, Len(q) - 1) \in Seq(S)
           /\ SubSeq(q, 1, Len(q) - 1) # << >>
           /\ Head(SubSeq(q, 1, Len(q) - 1)) = Head(q)
           /\ Tail(SubSeq(q, 1, Len(q) - 1)) = SubSeq(Tail(q), 1, Len(q) - 2)
           /\ Tail(q) # << >> /\ Len(Tail(q)) = Len(q) - 1
           /\ Tail(q)[Len(q) - 1] = q[Len(q)]
  <1>1. /\ SubSeq(q, 1, Len(q) - 1) \in Seq(S) /\ Len(SubSeq(q, 1, Len(q) - 1)) = Len(q) - 1
        /\ \A i \in 1 .. Len(q) - 1 : SubSeq(q, 1, Len(q) - 1)[i] = q[i]
        /\ Len(q) \in Nat
    OBVIOUS
  <1>2. /\ Tail(q) \in Seq(S) /\ Len(Tail(q)) = Len(q) - 1
        /\ \A i \in 1 .. Len(q) - 1 : Tail(q)[i] = q[i + 1]
    OBVIOUS
  <1>3. /\ SubSeq(Tail(q), 1, Len(q) - 2) \in Seq(S)
        /\ Len(SubSeq(Tail(q), 1, Len(q) - 2)) = Len(q) - 2
        /\ \A i \in 1 .. Len(q) - 2 : SubSeq(Tail(q), 1, Len(q) - 2)[i] = q[i + 1]
    BY <1>1, <1>2
  <1>4. /\ SubSeq(q, 1, Len(q) - 1) # << >>
        /\ Head(SubSeq(q, 1, Len(q) - 1)) = Head(q)
    <2>1. SubSeq(q, 1, Len(q) - 1) # << >>
      <3>1. Len(SubSeq(q, 1, Len(q) - 1)) > 0
        BY <1>1
      <3> QED BY <3>1, NotEmpty
    <2>2. 1 \in 1 .. Len(q) /\ Len(q) - 1 \in 1 .. Len(q)
      BY <1>1
    <2>3. Head(SubSeq(q, 1, Len(q) - 1)) = q[1]
      BY <2>2, HeadTailOfSubSeq
    <2>4. q # << >>
      BY EmptySeq
    <2>5. Head(q) = q[1]
      BY <2>4
    <2> QED BY <2>1, <2>3, <2>5
  <1>5. Tail(SubSeq(q, 1, Len(q) - 1)) = SubSeq(Tail(q), 1, Len(q) - 2)
    <2> DEFINE s == SubSeq(q, 1, Len(q) - 1)
               r == SubSeq(Tail(q), 1, Len(q) - 2)
    <2>1. /\ s \in Seq(S) /\ Len(s) = Len(q) - 1 /\ s # << >>
          /\ \A i \in 1 .. Len(s) : s[i] = q[i]
      BY <1>1, <1>4
    <2>2. r \in Seq(S) /\ Len(r) = Len(s) - 1 /\ \A i \in 1 .. Len(r) : r[i] = s[i + 1]
      BY <1>1, <1>3, <2>1
    <2> HIDE DEF s, r
    <2>3. Tail(s) \in Seq(S) /\ Len(Tail(s)) = Len(s) - 1 /\ \A i \in 1 .. Len(s) - 1 : Tail(s)[i] = s[i + 1]
      BY <2>1
    <2>4. Tail(s) = r
      BY <2>2, <2>3
    <2> QED BY <2>4 DEF s, r
  <1>6. Tail(q) # << >> /\ Tail(q)[Len(q) - 1] = q[Len(q)]
    <2>1. Tail(q) # << >>
      <3>1. Len(Tail(q)) > 0
        BY <1>1, <1>2
      <3> QED BY <3>1, NotEmpty
    <2>2. Len(q) - 1 \in 1 .. Len(q) - 1 /\ (Len(q) - 1) + 1 = Len(q)
      BY <1>1
    <2> QED BY <1>2, <2>1, <2>2
  <1> QED BY <1>1, <1>2, <1>4, <1>5, <1>6

\* A frame goes from the head of the queue to the end of what the consumer has got.
LEMMA FramesMove ==
    ASSUME NEW g \in Seq(Nat), NEW q \in Seq(Nat), q # << >>, MarkLast(q)
    PROVE  IF Head(q) = NullOpt
           THEN g \o Frames(Tail(q)) = g \o Frames(q)
           ELSE Append(g, Head(q)) \o Frames(Tail(q)) = g \o Frames(q)
  <1>1. /\ Head(q) = q[1] /\ 1 \in DOMAIN q /\ Len(q) \in Nat /\ Len(q) >= 1
        /\ Tail(q) \in Seq(Nat) /\ Len(Tail(q)) = Len(q) - 1 /\ Head(q) \in Nat
        /\ \A i \in 1 .. Len(q) - 1 : Tail(q)[i] = q[i + 1]
    OBVIOUS
  <1>2. CASE Head(q) = NullOpt
    <2>1. Len(q) = 1
      BY <1>1, <1>2 DEF MarkLast
    <2>2. Tail(q) = << >> /\ SubSeq(q, 1, Len(q) - 1) = << >>
      BY <2>1, SeqOfOne
    <2>3. Frames(Tail(q)) = << >> /\ Frames(q) = << >>
      BY <1>1, <1>2, <2>1, <2>2 DEF Frames
    <2> QED BY <1>2, <2>3
  <1>3. CASE Head(q) # NullOpt /\ q[Len(q)] = NullOpt
    <2>1. Len(q) > 1
      BY <1>1, <1>3
    <2>2. Tail(q) # << >> /\ Tail(q)[Len(Tail(q))] = NullOpt
      BY <1>1, <1>3, <2>1, Shorter
    <2>3. /\ Frames(q) = SubSeq(q, 1, Len(q) - 1)
          /\ Frames(Tail(q)) = SubSeq(Tail(q), 1, Len(q) - 2)
      BY <1>1, <1>3, <2>2 DEF Frames
    <2>4. Append(g, Head(q)) \o SubSeq(Tail(q), 1, Len(q) - 2) = g \o SubSeq(q, 1, Len(q) - 1)
      <3> DEFINE r == SubSeq(q, 1, Len(q) - 1)
      <3>1. /\ r \in Seq(Nat) /\ r # << >> /\ Head(r) = Head(q)
            /\ Tail(r) = SubSeq(Tail(q), 1, Len(q) - 2)
        BY <2>1, Shorter
      <3>2. r \in Seq(Nat) /\ r # << >> => Append(g, Head(r)) \o Tail(r) = g \o r
        <4> HIDE DEF r
        <4> QED BY MoveHead
      <3> QED BY <3>1, <3>2
    <2> QED BY <1>3, <2>3, <2>4
  <1>4. CASE Head(q) # NullOpt /\ q[Len(q)] # NullOpt
    <2>1. Frames(q) = q
      BY <1>4 DEF Frames
    <2>2. Frames(Tail(q)) = Tail(q)
      <3>1. CASE Tail(q) = << >>
        BY <3>1 DEF Frames
      <3>2. CASE Tail(q) # << >>
        <4>1. Tail(q)[Len(Tail(q))] = q[Len(q)]
          BY <3>2
        <4> QED BY <1>4, <4>1 DEF Frames
      <3> QED BY <3>1, <3>2
    <2>3. Append(g, Head(q)) \o Tail(q) = g \o q
      BY MoveHead
    <2> QED BY <1>4, <2>1, <2>2, <2>3
  <1> QED BY <1>2, <1>3, <1>4

\* The account of c, for one state and for the next.
AccountOf(c) == Account(Seen(c), refused[c], LastOffered(c))
AccountNext(c) ==
    Account(got'[c] \o Frames(queue'[c]), refused'[c],
            LET f == Feeder(In[c])
                offered == /\ pc'[f] \in {"visit", "signal"}
                           /\ \/ pc'[f] = "signal" /\ todo'[f] # << >> /\ Head(todo'[f]) = c
                              \/ \A i \in DOMAIN todo'[f] : todo'[f][i] # c
            IN  IF offered THEN count'[f] ELSE count'[f] - 1)

\* Nothing of the account changes.
LEMMA AccountStands ==
    ASSUME Inv, NEW d \in Consumers, AccountOf(d),
           got'[d] \o Frames(queue'[d]) = got[d] \o Frames(queue[d]), refused'[d] = refused[d],
           LastOffered(d)' = LastOffered(d)
    PROVE  AccountNext(d)
  <1> HIDE DEF Account, Frames
  <1> QED BY DEF AccountOf, AccountNext, Seen, LastOffered, At

LEMMA ConsumeAccount ==
    ASSUME Inv, NEW c \in Consumers, Consume(c), NEW d \in Consumers, AccountOf(d)
    PROVE  AccountNext(d)
  <1> DEFINE f == Feeder(In[d])
  <1>1. /\ f \in Threads /\ f \in Feeders /\ c \in Threads /\ d \in Threads
        /\ pc \in [Threads -> Places]
        /\ queue \in [Consumers -> Seq(Nat)] /\ got \in [Consumers -> Seq(Nat)]
    BY WhoIsWho DEF Inv, TypeOK
  <1>2. /\ todo' = todo /\ count' = count /\ refused' = refused
        /\ \A l \in {"visit", "signal"} : pc'[f] = l <=> pc[f] = l
    BY <1>1, ConsumeFrame
  <1>3. LastOffered(d)' = LastOffered(d)
    BY <1>2 DEF LastOffered, At
  <1>4. got'[d] \o Frames(queue'[d]) = got[d] \o Frames(queue[d])
    <2>1. CASE d # c
      BY <2>1, ConsumeFrame
    <2>2. CASE d = c /\ Dequeue(c)
      <3>1. /\ queue[d] # << >> /\ queue'[d] = Tail(queue[d])
            /\ Head(queue[d]) = NullOpt => got'[d] = got[d]
            /\ Head(queue[d]) # NullOpt => got'[d] = Append(got[d], Head(queue[d]))
        BY <1>1, <2>2 DEF Dequeue
      <3>2. MarkLast(queue[d])
        BY DEF Inv, SubscriptionInv, MarkLast
      <3>3. queue[d] \in Seq(Nat) /\ got[d] \in Seq(Nat)
        BY <1>1
      <3> QED BY <3>1, <3>2, <3>3, FramesMove
    <2>3. CASE d = c /\ ~ Dequeue(c)
      BY <2>3 DEF Consume, Subscribe, NextCheck, Peek, WaitSignal, shared, history
    <2> QED BY <2>1, <2>2, <2>3
  <1> QED BY <1>2, <1>3, <1>4, AccountStands

LEMMA FeedAccountOther ==
    ASSUME Inv, NEW t \in Feeders, Feed(t), NEW d \in Consumers, Feeder(In[d]) # t, AccountOf(d)
    PROVE  AccountNext(d)
  <1> DEFINE f == Feeder(In[d])
  <1>1. f \in Threads /\ f \in Feeders /\ t \in Threads
    BY WhoIsWho
  <1>2. /\ queue'[d] = queue[d] /\ got' = got /\ refused'[d] = refused[d]
        /\ todo'[f] = todo[f] /\ count'[f] = count[f] /\ pc'[f] = pc[f]
    BY <1>1, FeedFrame
  <1>3. LastOffered(d)' = LastOffered(d)
    BY <1>2 DEF LastOffered, At
  <1> QED BY <1>2, <1>3, AccountStands

LEMMA BarrierAccount ==
    ASSUME Inv, NEW t \in Threads, BarrierWait(t), NEW d \in Consumers, AccountOf(d)
    PROVE  AccountNext(d)
  <1>1. Feeder(In[d]) \in Threads
    BY WhoIsWho
  <1>2. /\ todo' = todo /\ count' = count /\ queue' = queue /\ got' = got /\ refused' = refused
        /\ \A l \in {"visit", "signal"} : pc'[Feeder(In[d])] = l <=> pc[Feeder(In[d])] = l
    BY <1>1, BarrierFrame
  <1>3. LastOffered(d)' = LastOffered(d)
    BY <1>2 DEF LastOffered, At
  <1> QED BY <1>2, <1>3, AccountStands

LEMMA MainAccount ==
    ASSUME Inv, MainReturn \/ UNCHANGED vars, NEW d \in Consumers, AccountOf(d)
    PROVE  AccountNext(d)
  <1>1. /\ todo' = todo /\ count' = count /\ queue' = queue /\ got' = got /\ refused' = refused
        /\ pc' = pc
    BY MainFrame DEF vars, shared, history
  <1>2. LastOffered(d)' = LastOffered(d)
    BY <1>1 DEF LastOffered, At
  <1> QED BY <1>1, <1>2, AccountStands

\* The feeder has been at d in this walk of push(), or has not.
Past(d) == \A i \in DOMAIN todo[Feeder(In[d])] : todo[Feeder(In[d])][i] # d

LEMMA FeedAccountOwn ==
    ASSUME Inv, NEW t \in Feeders, Feed(t), NEW d \in Consumers, Feeder(In[d]) = t, AccountOf(d)
    PROVE  AccountNext(d)
  <1>1. /\ t \in Threads /\ d \in Threads /\ d # t
        /\ Out[t] = In[d] /\ In[d] \in Streams
        /\ pc \in [Threads -> Places]
        /\ todo \in [Feeders -> Seq(Consumers)] /\ todo[t] \in Seq(Consumers)
        /\ subs \in [Streams -> Seq(Consumers)]
        /\ count \in [Feeders -> Nat \ {0}] /\ count[t] \in Nat \ {0}
        /\ queue \in [Consumers -> Seq(Nat)] /\ queue[d] \in Seq(Nat)
        /\ got[d] \in Seq(Nat)
        /\ refused \in [Consumers -> SUBSET Nat]
    BY WhoIsWho DEF Inv, TypeOK
  <1>2. got' = got
    BY FeedFrame
  <1>3. /\ pc[t] \in {"signal", "mark", "sigmark"} => todo[t] # << >>
        /\ \A i, j \in DOMAIN todo[t] : todo[t][i] = todo[t][j] => i = j
    BY DEF Inv, WalksAreOwn
  <1>4. Marked(queue[d]) => LastVisit(d)
    BY DEF Inv, SubscriptionInv, Marked, LastVisit
  <1>5. todo[t] # << >> => /\ Head(todo[t]) \in Consumers
                           /\ 1 \in DOMAIN todo[t] /\ Head(todo[t]) = todo[t][1]
                           /\ \A i \in DOMAIN Tail(todo[t]) :
                                 /\ i + 1 \in DOMAIN todo[t] /\ i + 1 # 1
                                 /\ Tail(todo[t])[i] = todo[t][i + 1]
                           /\ \A i \in DOMAIN todo[t] :
                                 i = 1 \/ (i - 1 \in DOMAIN Tail(todo[t])
                                           /\ Tail(todo[t])[i - 1] = todo[t][i])
    <2>1. ASSUME todo[t] # << >>, NEW i \in DOMAIN Tail(todo[t])
          PROVE  i + 1 # 1
      BY <1>1, <2>1
    <2>2. ASSUME todo[t] # << >>, NEW i \in DOMAIN todo[t], i # 1
          PROVE  i - 1 \in DOMAIN Tail(todo[t]) /\ Tail(todo[t])[i - 1] = todo[t][i]
      <3>1. /\ Len(Tail(todo[t])) = Len(todo[t]) - 1 /\ Len(todo[t]) \in Nat
            /\ DOMAIN todo[t] = 1 .. Len(todo[t])
            /\ DOMAIN Tail(todo[t]) = 1 .. Len(todo[t]) - 1
            /\ \A j \in 1 .. Len(todo[t]) - 1 : Tail(todo[t])[j] = todo[t][j + 1]
        BY <1>1, <2>2
      <3> QED BY <2>2, <3>1
    <2> QED BY <1>1, <2>1, <2>2, HeadAndTail
  \* Behind the head, the walk does not come to d again, and the tail is past d unless
  \* the walk is not.
  <1>6. todo[t] # << >> =>
           IF Head(todo[t]) = d
           THEN ~ Past(d) /\ \A i \in DOMAIN Tail(todo[t]) : Tail(todo[t])[i] # d
           ELSE Past(d) <=> \A i \in DOMAIN Tail(todo[t]) : Tail(todo[t])[i] # d
    <2>1. CASE todo[t] # << >> /\ Head(todo[t]) = d
      BY <1>3, <1>5, <2>1 DEF Past
    <2>2. CASE todo[t] # << >> /\ Head(todo[t]) # d
      BY <1>5, <2>2 DEF Past
    <2> QED BY <2>1, <2>2
  <1>7. /\ pc[t] = "visit" => LastOffered(d) = IF Past(d) THEN count[t] ELSE count[t] - 1
        /\ pc[t] \notin {"visit", "signal"} => LastOffered(d) = count[t] - 1
        /\ pc'[t] = "visit" => LastOffered(d)' = IF Past(d)' THEN count'[t] ELSE count'[t] - 1
        /\ pc'[t] \notin {"visit", "signal"} => LastOffered(d)' = count'[t] - 1
    BY DEF LastOffered, Past, At
  <1>8. CASE PushLock(t)
    <2>1. /\ pc[t] = "push" /\ pc'[t] = "visit" /\ todo'[t] = subs[In[d]] /\ count' = count
          /\ queue' = queue /\ refused' = refused
      BY <1>1, <1>8 DEF PushLock, Goto, shared, history
    <2>2. Subscribed(d)
      <3>1. pc[d] # "start" /\ pc[t] # "done"
        BY <1>1, <2>1, BarrierApart
      <3> QED BY <3>1 DEF Inv, SubscriptionInv
    <2>3. ~ Past(d)'
      BY <2>1, <2>2 DEF Past, Subscribed
    <2>4. LastOffered(d)' = LastOffered(d)
      BY <1>7, <2>1, <2>3
    <2> QED BY <1>2, <2>1, <2>4, AccountStands
  <1>9. CASE PushEnqueue(t)
    <2>1. /\ pc[t] = "visit" /\ pc'[t] = "signal" /\ todo' = todo /\ count' = count
          /\ todo[t] # << >> /\ refused' = refused
      BY <1>1, <1>9 DEF PushEnqueue, Goto, history
    <2>2. CASE Head(todo[t]) # d
      <3>1. queue'[d] = queue[d]
        BY <1>1, <1>9, <2>2 DEF PushEnqueue
      <3>2. LastOffered(d)' = LastOffered(d)
        BY <2>1, <2>2 DEF LastOffered, At
      <3> QED BY <1>2, <2>1, <3>1, <3>2, AccountStands
    <2>3. CASE Head(todo[t]) = d
      <3>1. ~ Marked(queue[d])
        BY <1>4, <2>1 DEF LastVisit
      <3>2. queue'[d] = Append(queue[d], count[t])
        BY <1>1, <1>9, <2>3 DEF PushEnqueue
      <3>3. Frames(queue[d]) = queue[d] /\ Frames(queue'[d]) = Append(queue[d], count[t])
        BY <1>1, <3>1, <3>2, FramesUnmarked
      <3>4. got[d] \o Append(queue[d], count[t]) = Append(got[d] \o queue[d], count[t])
        <4>1. got[d] \in Seq(Nat) /\ queue[d] \in Seq(Nat) /\ count[t] \in Nat
          BY <1>1
        <4> QED BY <4>1, AppendBehind, Zenon
      <3>5. LastOffered(d) = count[t] - 1
        BY <1>6, <1>7, <2>1, <2>3
      <3>6. got[d] \o queue[d] \in Seq(Nat)
        BY <1>1
      <3>7. Account(got[d] \o queue[d], refused[d], count[t] - 1)
        BY <3>3, <3>5 DEF AccountOf, Seen
      <3>8. Account(Append(got[d] \o queue[d], count[t]), refused[d], count[t])
        BY <1>1, <3>6, <3>7, AccountGrows
      <3>9. Account(got'[d] \o Frames(queue'[d]), refused'[d], count'[t])
        BY <1>2, <2>1, <3>3, <3>4, <3>8
      <3> HIDE DEF Account
      <3> QED BY <2>1, <2>3, <3>9 DEF AccountNext
    <2> QED BY <2>2, <2>3
  <1>10. CASE PushRefused(t)
    <2>1. /\ pc[t] = "visit" /\ pc'[t] = "visit" /\ todo'[t] = Tail(todo[t]) /\ count' = count
          /\ todo[t] # << >> /\ queue' = queue
      BY <1>1, <1>10 DEF PushRefused, shared
    <2>2. CASE Head(todo[t]) # d
      <3>1. refused'[d] = refused[d]
        BY <1>1, <1>10, <2>2 DEF PushRefused
      <3>2. Past(d)' <=> Past(d)
        BY <1>6, <2>1, <2>2 DEF Past
      <3>3. LastOffered(d)' = LastOffered(d)
        BY <1>7, <2>1, <3>2
      <3> QED BY <1>2, <2>1, <3>1, <3>3, AccountStands
    <2>3. CASE Head(todo[t]) = d
      <3>1. refused'[d] = refused[d] \cup {count[t]}
        BY <1>1, <1>10, <2>3 DEF PushRefused
      <3>2. LastOffered(d) = count[t] - 1
        BY <1>6, <1>7, <2>1, <2>3
      <3>3. Account(Seen(d), refused[d], count[t] - 1)
        BY <3>2 DEF AccountOf
      <3>4. Seen(d) \in Seq(Nat)
        BY <1>1, FramesType DEF Seen
      <3>5. Account(Seen(d), refused'[d], count[t])
        <4>1. count[t] \in Nat \ {0}
          BY <1>1
        <4>2. Account(Seen(d), refused[d] \cup {count[t]}, count[t])
          BY <3>3, <3>4, <4>1, AccountRefused, Zenon
        <4> QED BY <3>1, <4>2
      <3>6. \A i \in DOMAIN todo'[t] : todo'[t][i] # d
        BY <1>6, <2>1, <2>3
      <3> HIDE DEF Account
      <3> QED BY <1>2, <2>1, <3>5, <3>6 DEF AccountNext, Seen
    <2> QED BY <2>2, <2>3
  <1>11. CASE PushSignal(t)
    <2>1. /\ pc[t] = "signal" /\ pc'[t] = "visit" /\ todo'[t] = Tail(todo[t]) /\ count' = count
          /\ todo[t] # << >> /\ queue' = queue /\ refused' = refused
      BY <1>1, <1>3, <1>11 DEF PushSignal, Goto, history
    <2>2. LastOffered(d) = IF Head(todo[t]) = d \/ Past(d) THEN count[t] ELSE count[t] - 1
      BY <2>1 DEF LastOffered, At, Past
    <2>3. Past(d)' <=> (Head(todo[t]) = d \/ Past(d))
      BY <1>6, <2>1 DEF Past
    <2>4. LastOffered(d)' = LastOffered(d)
      BY <1>7, <2>1, <2>2, <2>3
    <2> QED BY <1>2, <2>1, <2>4, AccountStands
  <1>12. CASE PushUnlock(t)
    <2>1. /\ pc[t] = "visit" /\ pc'[t] \notin {"visit", "signal"} /\ count'[t] = count[t] + 1
          /\ todo[t] = << >> /\ queue' = queue /\ refused' = refused
      BY <1>1, <1>12 DEF PushUnlock, Goto, history
    <2>2. Past(d)
      BY <1>1, <2>1 DEF Past
    <2>3. LastOffered(d)' = LastOffered(d)
      BY <1>1, <1>7, <2>1, <2>2
    <2> QED BY <1>2, <2>1, <2>3, AccountStands
  <1>13. CASE TermEnqueue(t)
    <2>1. /\ pc[t] = "mark" /\ pc'[t] = "sigmark" /\ count' = count /\ todo' = todo
          /\ todo[t] # << >> /\ refused' = refused
      BY <1>1, <1>3, <1>13 DEF TermEnqueue, Goto, history
    <2>2. LastOffered(d)' = LastOffered(d)
      BY <1>7, <2>1
    <2>3. Frames(queue'[d]) = Frames(queue[d])
      <3>1. CASE Head(todo[t]) = d
        <4>1. queue'[d] = Append(queue[d], NullOpt)
          BY <1>1, <1>13, <3>1 DEF TermEnqueue
        <4>2. ~ Marked(queue[d])
          BY <1>4, <1>5, <2>1, <3>1 DEF LastVisit, At
        <4> QED BY <1>1, <4>1, <4>2, FramesUnmarked
      <3>2. CASE Head(todo[t]) # d
        BY <1>1, <1>13, <3>2 DEF TermEnqueue
      <3> QED BY <3>1, <3>2
    <2> QED BY <1>2, <2>1, <2>2, <2>3, AccountStands
  <1>14. CASE TermLock(t) \/ TermFlag(t) \/ TermRefused(t) \/ TermSignal(t) \/ TermClear(t)
    <2>1. /\ pc[t] \notin {"visit", "signal"} /\ pc'[t] \notin {"visit", "signal"}
          /\ count' = count /\ queue' = queue /\ refused' = refused
      BY <1>1, <1>14 DEF TermLock, TermFlag, TermRefused, TermSignal, TermClear, Goto, shared, history
    <2>2. LastOffered(d)' = LastOffered(d)
      BY <1>7, <2>1
    <2> QED BY <1>2, <2>1, <2>2, AccountStands
  <1> QED BY <1>8, <1>9, <1>10, <1>11, <1>12, <1>13, <1>14 DEF Feed

LEMMA StepAccount ==
    ASSUME Inv, [Next]_vars, EveryFrameAccounted
    PROVE  EveryFrameAccounted'
  <1>1. \A d \in Consumers : AccountOf(d)
    BY DEF EveryFrameAccounted, AccountOf, Account, Seen
  <1>2. SUFFICES \A d \in Consumers : AccountNext(d)
    BY DEF EveryFrameAccounted, AccountNext, Account, LastOffered, At
  <1>3. SUFFICES ASSUME NEW d \in Consumers PROVE AccountNext(d)
    OBVIOUS
  <1>4. ASSUME NEW t \in Feeders, Feed(t) PROVE AccountNext(d)
    BY <1>1, <1>4, FeedAccountOwn, FeedAccountOther
  <1> QED BY <1>1, <1>4, ConsumeAccount, BarrierAccount, MainAccount DEF Next, Step

\* Whatever enqueue() refuses: each frame of a stream, from the first one, reaches each
\* of its consumers once, in order, waits in its queue, or is one of those refused.
THEOREM NothingElseIsLost == Safety => []EveryFrameAccounted
  <1>1. Init => EveryFrameAccounted
    <2> SUFFICES ASSUME Init, NEW c \in Consumers
                 PROVE  Account(Seen(c), refused[c], LastOffered(c))
      BY DEF EveryFrameAccounted, Account, Seen
    <2>1. /\ got[c] = << >> /\ queue[c] = << >> /\ refused[c] = {}
          /\ count[Feeder(In[c])] = 1 /\ pc[Feeder(In[c])] \in {"start", "barrier"}
      BY WhoIsWho DEF Init
    <2>2. Seen(c) = << >>
      <3>1. Frames(<< >>) = << >> /\ << >> \o << >> = << >>
        BY DEF Frames
      <3> QED BY <2>1, <3>1 DEF Seen
    <2>3. LastOffered(c) = 0
      BY <2>1 DEF LastOffered
    <2>4. Account(<< >>, {}, 0)
      BY DEF Account
    <2> QED BY <2>1, <2>2, <2>3, <2>4
  <1> QED BY <1>1, Invariance, StepAccount, PTL DEF Safety

(***************************************************************************)
(* The stream's promise.                                                   *)
(***************************************************************************)
InPush == {"push", "visit", "signal"}

\* The ids stay within 1 .. N: the producer counts to N, and a transformer numbers no
\* faster than the frames it is given are numbered.
InRange(f) == count[f] <= IF pc[f] \in InPush THEN N ELSE N + 1
Follows(f) ==
    f \in Consumers =>
        \/ got[f] = << >> /\ count[f] = 1 /\ pc[f] \notin InPush
        \/ /\ got[f] # << >>
           /\ count[f] <= IF pc[f] \in InPush THEN got[f][Len(got[f])] ELSE got[f][Len(got[f])] + 1

\* Both signs of the end come from the feeder, the flag before the empty optional, and
\* only behind its last push; whoever has seen one of them has been told by the flag.
EndInv(c) ==
    LET f == Feeder(In[c])
    IN  /\ terminated[c] => pc[f] \in {"flag", "mark", "sigmark", "done"}
        /\ At(f, "mark", c) \/ At(f, "sigmark", c) => terminated[c]
        /\ Marked(queue[c]) => terminated[c]
        /\ pc[c] = "peek" \/ Ended(c) => terminated[c]

PromiseInv ==
    /\ Inv
    /\ EveryFrameAccounted
    /\ \A f \in Feeders : InRange(f) /\ Follows(f)
    /\ \A c \in Consumers : EndInv(c)

LEMMA LastOfSeen ==
    ASSUME NEW g \in Seq(Nat), NEW q \in Seq(Nat)
    PROVE  /\ Len(g) \in Nat
           /\ g # << >> => /\ Len(g) \in DOMAIN g /\ g[Len(g)] \in Nat
                           /\ Len(g) \in DOMAIN (g \o q) /\ (g \o q)[Len(g)] = g[Len(g)]
           /\ q # << >> => /\ Head(q) \in Nat
                           /\ Len(g) + 1 \in DOMAIN (g \o q) /\ (g \o q)[Len(g) + 1] = Head(q)
                           /\ Append(g, Head(q)) # << >>
                           /\ Append(g, Head(q))[Len(Append(g, Head(q)))] = Head(q)
  <1>1. Len(g) \in Nat
    OBVIOUS
  <1>2. ASSUME g # << >>
        PROVE  /\ Len(g) \in DOMAIN g /\ g[Len(g)] \in Nat
               /\ Len(g) \in DOMAIN (g \o q) /\ (g \o q)[Len(g)] = g[Len(g)]
    <2>1. Len(g) \in 1 .. Len(g)
      BY <1>2
    <2>2. Len(g) \in DOMAIN g /\ g[Len(g)] \in Nat
      BY <2>1
    <2>3. Len(g) \in DOMAIN (g \o q) /\ (g \o q)[Len(g)] = g[Len(g)]
      BY <2>1
    <2> QED BY <2>2, <2>3
  <1>3. ASSUME q # << >>
        PROVE  /\ Head(q) \in Nat
               /\ Len(g) + 1 \in DOMAIN (g \o q) /\ (g \o q)[Len(g) + 1] = Head(q)
               /\ Append(g, Head(q)) # << >>
               /\ Append(g, Head(q))[Len(Append(g, Head(q)))] = Head(q)
    <2>1. Head(q) \in Nat /\ 1 \in DOMAIN q /\ Head(q) = q[1]
      BY <1>3, HeadAndTail
    <2>2. Len(g) + 1 \in DOMAIN (g \o q) /\ (g \o q)[Len(g) + 1] = q[1]
      BY <2>1
    <2>3. Append(g, Head(q)) # << >>
      BY <2>1, AppendKeeps, EmptySeq
    <2>4. Append(g, Head(q))[Len(Append(g, Head(q)))] = Head(q)
      BY <2>1
    <2> QED BY <2>1, <2>2, <2>3, <2>4
  <1> QED BY <1>1, <1>2, <1>3

\* A frame at the head of the queue is at the head of its frames.
LEMMA FramesHead ==
    ASSUME NEW q \in Seq(Nat), q # << >>, MarkLast(q), Head(q) # NullOpt
    PROVE  /\ Frames(q) # << >> /\ Head(Frames(q)) = Head(q)
           /\ Tail(Frames(q)) = Frames(Tail(q))
  <1>1. /\ Head(q) = q[1] /\ 1 \in DOMAIN q /\ Len(q) \in Nat /\ Len(q) >= 1
        /\ Tail(q) \in Seq(Nat) /\ Len(Tail(q)) = Len(q) - 1
    OBVIOUS
  <1>2. CASE q[Len(q)] = NullOpt
    <2>1. Len(q) > 1
      BY <1>1, <1>2
    <2>2. Tail(q) # << >> /\ Tail(q)[Len(Tail(q))] = NullOpt
      BY <1>1, <1>2, <2>1, Shorter
    <2>3. /\ Frames(q) = SubSeq(q, 1, Len(q) - 1)
          /\ Frames(Tail(q)) = SubSeq(Tail(q), 1, Len(q) - 2)
      BY <1>1, <1>2, <2>2 DEF Frames
    <2>4. /\ SubSeq(q, 1, Len(q) - 1) # << >> /\ Head(SubSeq(q, 1, Len(q) - 1)) = Head(q)
          /\ Tail(SubSeq(q, 1, Len(q) - 1)) = SubSeq(Tail(q), 1, Len(q) - 2)
      BY <2>1, Shorter
    <2> QED BY <2>3, <2>4
  <1>3. CASE q[Len(q)] # NullOpt
    <2>1. Frames(q) = q
      BY <1>3 DEF Frames
    <2>2. Frames(Tail(q)) = Tail(q)
      <3>1. CASE Tail(q) = << >>
        BY <3>1 DEF Frames
      <3>2. CASE Tail(q) # << >>
        <4>1. Tail(q)[Len(Tail(q))] = q[Len(q)]
          BY <3>2
        <4> QED BY <1>3, <4>1 DEF Frames
      <3> QED BY <3>1, <3>2
    <2> QED BY <2>1, <2>2
  <1> QED BY <1>2, <1>3

\* Nothing is in front of an empty optional at the head.
LEMMA FramesOver ==
    ASSUME NEW q \in Seq(Nat), q # << >>, MarkLast(q), Head(q) = NullOpt
    PROVE  Frames(q) = << >> /\ Frames(Tail(q)) = << >>
  <1>1. /\ Head(q) = q[1] /\ 1 \in DOMAIN q
    OBVIOUS
  <1>2. Len(q) = 1
    BY <1>1 DEF MarkLast
  <1>3. Tail(q) = << >> /\ SubSeq(q, 1, Len(q) - 1) = << >>
    BY <1>2, SeqOfOne
  <1> QED BY <1>1, <1>2, <1>3 DEF Frames

\* What c has seen is in 1 .. N.
LEMMA SeenFits ==
    ASSUME PromiseInv, NEW c \in Consumers, NEW i \in DOMAIN Seen(c)
    PROVE  /\ Seen(c)[i] \in 1 .. N
           /\ Seen(c)[i] <= LastOffered(c)
           /\ \A j \in DOMAIN Seen(c) : i < j => Seen(c)[i] < Seen(c)[j]
  <1> DEFINE f == Feeder(In[c])
  <1>1. /\ f \in Feeders /\ count[f] \in Nat \ {0} /\ N \in Nat
        /\ InRange(f)
        /\ Account(Seen(c), refused[c], LastOffered(c))
    BY WhoIsWho DEF PromiseInv, Inv, TypeOK, EveryFrameAccounted, Account, Seen
  <1>2. LastOffered(c) \in Nat /\ LastOffered(c) <= N
    BY <1>1 DEF LastOffered, InRange, InPush
  <1>3. Seen(c)[i] \in 1 .. LastOffered(c)
    BY <1>1 DEF Account
  <1>4. \A b \in Nat : \A x \in 1 .. b : b <= N => x \in 1 .. N /\ x <= b
    BY <1>1
  <1> QED BY <1>1, <1>2, <1>3, <1>4 DEF Account

(***************************************************************************)
(* What the promise rests on.                                              *)
(***************************************************************************)
LEMMA ConsumeNumbers ==
    ASSUME PromiseInv, NEW c \in Consumers, Consume(c), NEW f \in Feeders
    PROVE  InRange(f)' /\ Follows(f)'
  <1>1. /\ Inv /\ c \in Threads /\ f \in Threads /\ pc \in [Threads -> Places]
        /\ queue \in [Consumers -> Seq(Nat)] /\ got \in [Consumers -> Seq(Nat)]
        /\ got[c] \in Seq(Nat) /\ queue[c] \in Seq(Nat)
        /\ count[f] \in Nat \ {0} /\ N \in Nat \ {0}
        /\ InRange(f) /\ Follows(f)
    BY WhoIsWho DEF PromiseInv, Inv, TypeOK
  <1>2. /\ count' = count
        /\ \A t \in Threads : t # c => pc'[t] = pc[t]
        /\ \A d \in Consumers : d # c => got'[d] = got[d]
        /\ pc[c] \notin InPush
    BY <1>1, ConsumeFrame DEF InPush
  <1>3. CASE f # c
    BY <1>1, <1>2, <1>3 DEF InRange, Follows
  <1>4. CASE f = c /\ Dequeue(c) /\ Head(queue[c]) # NullOpt
    <2> DEFINE x == Head(queue[c])
               q == Frames(queue[c])
               n == Len(got[c])
    <2>1. /\ queue[c] # << >> /\ pc'[c] = "push" /\ got'[c] = Append(got[c], x)
      BY <1>1, <1>4 DEF Dequeue, Goto
    <2>2. q \in Seq(Nat) /\ q # << >> /\ Head(q) = x
      <3>1. MarkLast(queue[c])
        BY <1>1 DEF Inv, SubscriptionInv, MarkLast
      <3> QED BY <1>1, <1>4, <2>1, <3>1, FramesHead, FramesType
    <2>3. Seen(c) = got[c] \o q
      BY DEF Seen
    <2> HIDE DEF q
    <2>4. /\ x \in Nat /\ n \in Nat /\ n + 1 \in DOMAIN Seen(c) /\ Seen(c)[n + 1] = x
          /\ got'[c] # << >> /\ got'[c][Len(got'[c])] = x
          /\ got[c] # << >> => n \in DOMAIN Seen(c) /\ Seen(c)[n] = got[c][n] /\ got[c][n] \in Nat
      <3> DEFINE g == got[c]
      <3>1. g \in Seq(Nat)
        BY <1>1
      <3> HIDE DEF g
      <3>2. /\ Len(g) \in Nat
            /\ g # << >> => /\ g[Len(g)] \in Nat
                            /\ Len(g) \in DOMAIN (g \o q) /\ (g \o q)[Len(g)] = g[Len(g)]
            /\ Head(q) \in Nat
            /\ Len(g) + 1 \in DOMAIN (g \o q) /\ (g \o q)[Len(g) + 1] = Head(q)
            /\ Append(g, Head(q)) # << >>
            /\ Append(g, Head(q))[Len(Append(g, Head(q)))] = Head(q)
        BY <2>2, <3>1, LastOfSeen
      <3> HIDE DEF x
      <3> QED BY <2>1, <2>2, <2>3, <3>2 DEF g
    <2>5. x \in 1 .. N
      BY <2>4, SeenFits
    <2>6. got[c] # << >> => got[c][n] < x
      <3>1. n < n + 1
        BY <2>4
      <3> HIDE DEF n
      <3> QED BY <2>4, <3>1, SeenFits
    <2> HIDE DEF x, n
    <2>7. count[c] <= x
      <3>1. CASE got[c] = << >>
        BY <1>1, <1>4, <2>5, <3>1 DEF Follows
      <3>2. CASE got[c] # << >>
        <4>1. count[c] <= got[c][n] + 1
          BY <1>1, <1>2, <1>4, <3>2 DEF Follows, n
        <4>2. \A a, b, e \in Nat : a <= b + 1 /\ b < e => a <= e
          OBVIOUS
        <4>3. count[c] \in Nat /\ got[c][n] \in Nat /\ x \in Nat
          BY <1>1, <1>4, <2>4, <3>2
        <4> QED BY <2>6, <3>2, <4>1, <4>2, <4>3
      <3> QED BY <3>1, <3>2
    <2>8. pc'[c] \in InPush /\ count'[c] <= x /\ x <= N
      BY <1>2, <2>1, <2>5, <2>7 DEF InPush
    <2>9. InRange(c)'
      BY <1>1, <1>2, <1>4, <2>4, <2>8 DEF InRange
    <2>10. Follows(c)'
      BY <2>4, <2>8 DEF Follows
    <2> QED BY <1>4, <2>9, <2>10
  <1>5. CASE f = c /\ ~ (Dequeue(c) /\ Head(queue[c]) # NullOpt)
    <2>1. got' = got /\ pc'[c] \notin InPush
      BY <1>1, <1>5 DEF Consume, Subscribe, NextCheck, Peek, WaitSignal, Dequeue, history, AfterLoop,
                        Goto, InPush
    <2> QED BY <1>1, <1>2, <1>5, <2>1 DEF InRange, Follows
  <1> QED BY <1>3, <1>4, <1>5

LEMMA FeedNumbers ==
    ASSUME PromiseInv, NEW t \in Feeders, Feed(t), NEW f \in Feeders
    PROVE  InRange(f)' /\ Follows(f)'
  <1>1. /\ Inv /\ t \in Threads /\ f \in Threads /\ pc \in [Threads -> Places]
        /\ count \in [Feeders -> Nat \ {0}] /\ count[f] \in Nat \ {0} /\ N \in Nat \ {0}
        /\ got \in [Consumers -> Seq(Nat)]
        /\ InRange(f) /\ Follows(f) /\ ProducerInLoop
    BY WhoIsWho DEF PromiseInv, Inv, TypeOK
  <1>2. /\ got' = got
        /\ \A u \in Threads : u # t => pc'[u] = pc[u]
        /\ \A u \in Feeders : u # t => count'[u] = count[u]
    BY <1>1, FeedFrame
  <1>3. CASE f # t
    BY <1>1, <1>2, <1>3 DEF InRange, Follows
  <1>4. CASE f = t
    <2>1. \/ pc[t] \in InPush /\ pc'[t] \in InPush /\ count'[t] = count[t]
          \/ /\ pc[t] = "visit" /\ count'[t] = count[t] + 1
             /\ IF t # Producer THEN pc'[t] = "next"
                                ELSE pc'[t] = IF count[t] = N THEN "term" ELSE "push"
          \/ pc[t] \notin InPush /\ pc'[t] \notin InPush /\ count'[t] = count[t]
      BY <1>1 DEF Feed, PushLock, PushEnqueue, PushRefused, PushSignal, PushUnlock, TermLock,
                  TermFlag, TermEnqueue, TermRefused, TermSignal, TermClear, Goto, InPush
    <2>2. InRange(t)'
      BY <1>1, <1>4, <2>1 DEF InRange, InPush, ProducerInLoop
    <2>3. Follows(t)'
      <3>1. t \in Consumers => t # Producer /\ got[t] \in Seq(Nat)
        BY <1>1, WhoIsWho
      <3>2. ASSUME t \in Consumers, got[t] # << >>
            PROVE  got[t][Len(got[t])] \in Nat
        BY <3>1, <3>2
      <3> QED BY <1>1, <1>2, <1>4, <2>1, <3>1, <3>2 DEF Follows, InPush
    <2> QED BY <1>4, <2>2, <2>3
  <1> QED BY <1>3, <1>4

LEMMA BarrierNumbers ==
    ASSUME PromiseInv, NEW t \in Threads, BarrierWait(t), NEW f \in Feeders
    PROVE  InRange(f)' /\ Follows(f)'
  <1>1. /\ Inv /\ f \in Threads /\ count[f] \in Nat \ {0} /\ N \in Nat \ {0}
        /\ InRange(f) /\ Follows(f) /\ ProducerInLoop /\ Producer \notin Consumers
    BY WhoIsWho DEF PromiseInv, Inv, TypeOK
  <1>2. count' = count /\ got' = got
    BY <1>1, BarrierFrame
  <1>3. \/ pc'[f] = pc[f]
        \/ /\ pc[f] \in {"barrier", "parked"}
           /\ pc'[f] = "parked" \/ pc'[f] = Behind(f)
    BY <1>1 DEF BarrierWait, Inv, TypeOK
  <1>4. CASE f = Producer
    BY <1>1, <1>2, <1>3, <1>4 DEF InRange, Follows, InPush, ProducerInLoop, Behind
  <1>5. CASE f # Producer
    BY <1>1, <1>2, <1>3, <1>5 DEF InRange, Follows, InPush, Behind
  <1> QED BY <1>4, <1>5

\* c's end: nothing but c's own steps and those of its feeder changes it.
LEMMA EndStands ==
    ASSUME NEW c \in Consumers, EndInv(c),
           queue'[c] = queue[c], terminated'[c] = terminated[c],
           todo'[Feeder(In[c])] = todo[Feeder(In[c])],
           \A l \in {"flag", "mark", "sigmark", "done"} :
              pc'[Feeder(In[c])] = l <=> pc[Feeder(In[c])] = l,
           pc'[c] = "peek" <=> pc[c] = "peek", Ended(c)' <=> Ended(c)
    PROVE  EndInv(c)'
  <1> DEFINE f == Feeder(In[c])
  <1>1. /\ At(f, "mark", c)' <=> At(f, "mark", c)
        /\ At(f, "sigmark", c)' <=> At(f, "sigmark", c)
    BY DEF At
  <1>2. terminated'[c] => pc'[f] \in {"flag", "mark", "sigmark", "done"}
    BY DEF EndInv
  <1> QED BY <1>1, <1>2 DEF EndInv, Marked

LEMMA ConsumeEnd ==
    ASSUME PromiseInv, NEW c \in Consumers, Consume(c), NEW d \in Consumers
    PROVE  EndInv(d)'
  <1> DEFINE f == Feeder(In[d])
  <1>1. /\ Inv /\ c \in Threads /\ d \in Threads /\ f \in Threads /\ f \in Feeders /\ f # d
        /\ pc \in [Threads -> Places]
        /\ queue \in [Consumers -> Seq(Nat)] /\ queue[d] \in Seq(Nat)
        /\ EndInv(d)
    BY WhoIsWho DEF PromiseInv, Inv, TypeOK
  <1>2. /\ todo' = todo /\ terminated' = terminated
        /\ \A t \in Threads : t # c => pc'[t] = pc[t]
        /\ \A l \in {"flag", "mark", "sigmark", "done"} : pc'[f] = l <=> pc[f] = l
    BY <1>1, ConsumeFrame
  <1>3. CASE d # c
    <2>1. queue'[d] = queue[d] /\ pc'[d] = pc[d]
      BY <1>1, <1>2, <1>3, ConsumeFrame
    <2> QED BY <1>1, <1>2, <2>1, EndStands DEF Ended
  <1>4. CASE d = c
    <2>1. pc'[f] = pc[f]
      BY <1>1, <1>2, <1>4
    <2> HIDE DEF f
    <2>2. /\ terminated'[c] => pc'[f] \in {"flag", "mark", "sigmark", "done"}
          /\ At(f, "mark", c)' \/ At(f, "sigmark", c)' => terminated'[c]
      BY <1>1, <1>2, <1>4, <2>1 DEF EndInv, At, f
    <2>3. Marked(queue'[c]) => Marked(queue[c])
      <3>1. CASE Dequeue(c)
        <4>1. queue[c] # << >> /\ queue'[c] = Tail(queue[c])
          BY <1>1, <3>1 DEF Dequeue
        <4> QED BY <1>1, <1>4, <4>1, HeadAndTail DEF Marked
      <3>2. CASE ~ Dequeue(c)
        BY <3>2 DEF Consume, Subscribe, NextCheck, Peek, WaitSignal, shared
      <3> QED BY <3>1, <3>2
    <2>4. pc'[c] = "peek" \/ Ended(c)' => terminated[c]
      <3>1. CASE Dequeue(c)
        <4>1. /\ queue[c] # << >>
              /\ pc'[c] = "peek" \/ Ended(c)' => Head(queue[c]) = NullOpt
          BY <1>1, <3>1 DEF Dequeue, Goto, Ended
        <4>2. Head(queue[c]) = NullOpt => Marked(queue[c])
          BY <1>1, <1>4, <4>1, HeadAndTail DEF Marked
        <4> QED BY <1>1, <1>4, <4>1, <4>2 DEF EndInv
      <3>2. CASE ~ Dequeue(c)
        BY <1>1, <1>4, <3>2 DEF Consume, Subscribe, NextCheck, Peek, WaitSignal, Goto, Ended, EndInv
      <3> QED BY <3>1, <3>2
    <2>5. Marked(queue'[c]) => terminated[c]
      BY <1>1, <1>4, <2>3 DEF EndInv
    <2> QED BY <1>2, <1>4, <2>2, <2>4, <2>5 DEF EndInv, Marked, f
  <1> QED BY <1>3, <1>4

LEMMA FeedEnd ==
    ASSUME PromiseInv, NEW t \in Feeders, Feed(t), NEW d \in Consumers
    PROVE  EndInv(d)'
  <1> DEFINE f == Feeder(In[d])
  <1>1. /\ Inv /\ t \in Threads /\ d \in Threads /\ f \in Threads /\ f \in Feeders
        /\ f # d /\ d # Producer
        /\ pc \in [Threads -> Places]
        /\ todo \in [Feeders -> Seq(Consumers)]
        /\ queue \in [Consumers -> Seq(Nat)] /\ queue[d] \in Seq(Nat)
        /\ terminated \in [Consumers -> BOOLEAN] /\ count[t] \in Nat \ {0}
        /\ EndInv(d)
    BY WhoIsWho DEF PromiseInv, Inv, TypeOK
  <1>2. /\ \A u \in Threads : u # t => pc'[u] = pc[u]
        /\ pc[t] \in {"signal", "mark", "sigmark"} => todo[t] # << >>
        /\ todo[t] # << >> => Head(todo[t]) \in Consumers /\ Feeder(In[Head(todo[t])]) = t
    BY <1>1, FeedFrame, VisitedIsOwn DEF Inv, WalksAreOwn
  <1>3. pc'[d] = "peek" \/ Ended(d)' => terminated[d]
    <2>1. CASE d # t
      BY <1>1, <1>2, <2>1 DEF EndInv, Ended
    <2>2. CASE d = t
      <3>1. pc'[t] = "peek" \/ Ended(t)' => Ended(t)
        BY <1>1, <2>2 DEF Feed, PushLock, PushEnqueue, PushRefused, PushSignal, PushUnlock, TermLock,
                          TermFlag, TermEnqueue, TermRefused, TermSignal, TermClear, Goto, Ended
      <3> QED BY <1>1, <2>2, <3>1 DEF EndInv
    <2> QED BY <2>1, <2>2
  <1>4. CASE f # t
    <2>1. /\ pc'[f] = pc[f] /\ todo'[f] = todo[f] /\ queue'[d] = queue[d]
      BY <1>1, <1>4, FeedFrame
    <2>2. terminated'[d] = terminated[d]
      BY <1>1, <1>2, <1>4 DEF Feed, PushLock, PushEnqueue, PushRefused, PushSignal, PushUnlock,
                  TermLock, TermFlag, TermEnqueue, TermRefused, TermSignal, TermClear, shared
    <2> HIDE DEF f
    <2>3. /\ At(f, "mark", d)' <=> At(f, "mark", d)
          /\ At(f, "sigmark", d)' <=> At(f, "sigmark", d)
      BY <2>1 DEF At
    <2> QED BY <1>1, <1>3, <2>1, <2>2, <2>3 DEF EndInv, Marked, f
  <1>5. CASE f = t
    <2>1. /\ terminated[d] => pc[t] \in {"flag", "mark", "sigmark", "done"}
          /\ At(t, "mark", d) => terminated[d]
          /\ At(t, "sigmark", d) => terminated[d]
          /\ Marked(queue[d]) => terminated[d]
      BY <1>1, <1>5 DEF EndInv
    <2>2. SUFFICES /\ terminated'[d] => pc'[t] \in {"flag", "mark", "sigmark", "done"}
                   /\ At(t, "mark", d)' => terminated'[d]
                   /\ At(t, "sigmark", d)' => terminated'[d]
                   /\ Marked(queue'[d]) => terminated'[d]
                   /\ terminated[d] => terminated'[d]
      BY <1>1, <1>3, <1>5 DEF EndInv, Marked
    <2>3. CASE TermFlag(t)
      <3>1. /\ pc[t] = "flag" /\ pc'[t] = "mark" /\ todo' = todo /\ queue' = queue /\ todo[t] # << >>
            /\ terminated' = [terminated EXCEPT ![Head(todo[t])] = TRUE]
        BY <1>1, <2>3 DEF TermFlag, Goto
      <3>2. terminated'[Head(todo[t])] = TRUE /\ (terminated[d] => terminated'[d])
        BY <1>1, <1>2, <3>1
      <3> QED BY <2>1, <3>1, <3>2 DEF At
    <2>4. CASE TermEnqueue(t)
      <3>1. /\ pc[t] = "mark" /\ pc'[t] = "sigmark" /\ todo' = todo /\ terminated' = terminated
            /\ queue' = [queue EXCEPT ![Head(todo[t])] = Append(@, NullOpt)]
        BY <1>1, <2>4 DEF TermEnqueue, Goto
      <3>2. CASE Head(todo[t]) = d
        <4>1. terminated[d]
          BY <1>2, <2>1, <3>1, <3>2 DEF At
        <4> QED BY <3>1, <4>1
      <3>3. CASE Head(todo[t]) # d
        <4>1. queue'[d] = queue[d]
          BY <1>1, <3>1, <3>3
        <4> QED BY <2>1, <3>1, <3>3, <4>1 DEF At
      <3> QED BY <3>2, <3>3
    <2>5. CASE PushEnqueue(t)
      <3>1. /\ pc[t] = "visit" /\ pc'[t] = "signal" /\ terminated' = terminated
            /\ queue' = [queue EXCEPT ![Head(todo[t])] = Append(@, count[t])]
        BY <1>1, <2>5 DEF PushEnqueue, Goto
      <3>2. ~ Marked(queue[d]) /\ ~ terminated[d]
        BY <2>1, <3>1
      <3>3. ~ Marked(queue'[d])
        <4>1. queue'[d] = queue[d] \/ queue'[d] = Append(queue[d], count[t])
          BY <1>1, <3>1
        <4>2. count[t] # NullOpt
          BY <1>1 DEF NullOpt
        <4>3. \A i \in DOMAIN Append(queue[d], count[t]) :
                 \/ Append(queue[d], count[t])[i] = count[t]
                 \/ i \in DOMAIN queue[d] /\ Append(queue[d], count[t])[i] = queue[d][i]
          <5>1. queue[d] \in Seq(Nat) /\ count[t] \in Nat
            BY <1>1
          <5> QED BY <5>1, AppendKeeps
        <4> QED BY <3>2, <4>1, <4>2, <4>3 DEF Marked
      <3> QED BY <3>1, <3>2, <3>3 DEF At
    <2>6. CASE PushLock(t) \/ PushRefused(t) \/ PushSignal(t) \/ PushUnlock(t) \/ TermLock(t)
      <3>1. /\ pc[t] \in {"push", "visit", "signal", "term"} /\ pc'[t] \notin {"mark", "sigmark"}
            /\ terminated' = terminated /\ queue' = queue
        BY <1>1, <2>6 DEF PushLock, PushRefused, PushSignal, PushUnlock, TermLock, Goto, shared
      <3> QED BY <2>1, <3>1 DEF At
    <2>7. CASE TermRefused(t) \/ TermSignal(t) \/ TermClear(t)
      <3>1. pc'[t] \in {"flag", "done"} /\ terminated' = terminated /\ queue' = queue
        BY <1>1, <2>7 DEF TermRefused, TermSignal, TermClear, Goto, shared
      <3> QED BY <2>1, <3>1 DEF At
    <2> QED BY <2>3, <2>4, <2>5, <2>6, <2>7 DEF Feed
  <1> QED BY <1>4, <1>5

LEMMA BarrierEnd ==
    ASSUME PromiseInv, NEW t \in Threads, BarrierWait(t), NEW d \in Consumers
    PROVE  EndInv(d)'
  <1>1. /\ Inv /\ d \in Threads /\ Feeder(In[d]) \in Threads /\ EndInv(d)
    BY WhoIsWho DEF PromiseInv
  <1>2. /\ UNCHANGED <<todo, queue, terminated>>
        /\ \A u \in Threads :
              \/ pc'[u] = pc[u]
              \/ pc[u] \in {"barrier", "parked"} /\ pc'[u] \in {"parked", "push", "next"}
    BY <1>1, BarrierFrame
  <1>3. /\ \A l \in {"flag", "mark", "sigmark", "done"} :
              pc'[Feeder(In[d])] = l <=> pc[Feeder(In[d])] = l
        /\ pc'[d] = "peek" <=> pc[d] = "peek"
        /\ Ended(d)' <=> Ended(d)
    BY <1>1, <1>2 DEF Ended
  <1> QED BY <1>1, <1>2, <1>3, EndStands

\* At the end of the joins nothing of the streams changes.
LEMMA MainEnd ==
    ASSUME PromiseInv, MainReturn \/ UNCHANGED vars
    PROVE  UNCHANGED <<pc, count, todo, queue, terminated, got>>
  BY MainFrame DEF PromiseInv, vars, shared, history

LEMMA StepPromise ==
    ASSUME PromiseInv, [Next]_vars
    PROVE  PromiseInv'
  <1>1. Inv' /\ EveryFrameAccounted'
    BY StepInv, StepAccount DEF PromiseInv
  <1>2. CASE MainReturn \/ UNCHANGED vars
    <2>1. /\ UNCHANGED <<pc, count, todo, queue, terminated, got>>
          /\ \A f \in Feeders : InRange(f) /\ Follows(f)
          /\ \A c \in Consumers : EndInv(c)
      BY <1>2, MainEnd DEF PromiseInv
    <2>2. \A f \in Feeders : InRange(f)' /\ Follows(f)'
      BY <2>1 DEF InRange, Follows
    <2>3. \A c \in Consumers : EndInv(c)'
      BY <2>1 DEF EndInv, At, Marked, Ended
    <2> QED BY <1>1, <2>2, <2>3 DEF PromiseInv
  <1>3. ASSUME NEW t \in Threads, Step(t)
        PROVE  /\ \A f \in Feeders : InRange(f)' /\ Follows(f)'
               /\ \A c \in Consumers : EndInv(c)'
    BY <1>3, BarrierNumbers, BarrierEnd, ConsumeNumbers, ConsumeEnd, FeedNumbers, FeedEnd DEF Step
  <1> QED BY <1>1, <1>2, <1>3 DEF Next, PromiseInv

LEMMA PromiseInvariance == Safety => []PromiseInv
  <1>1. Init => (\A f \in Feeders : InRange(f) /\ Follows(f)) /\ \A c \in Consumers : EndInv(c)
    <2> SUFFICES ASSUME Init
                 PROVE  /\ \A f \in Feeders : InRange(f) /\ Follows(f)
                        /\ \A c \in Consumers : EndInv(c)
      OBVIOUS
    <2>1. /\ Consumers \subseteq Threads /\ Feeders \subseteq Threads /\ N \in Nat \ {0}
          /\ pc = [t \in Threads |-> IF t = Producer THEN "barrier" ELSE "start"]
          /\ count = [t \in Feeders |-> 1]
          /\ got = [c \in Consumers |-> << >>] /\ queue = [c \in Consumers |-> << >>]
          /\ terminated = [c \in Consumers |-> FALSE]
      BY WhoIsWho DEF Init
    <2>2. \A f \in Feeders : InRange(f) /\ Follows(f)
      BY <2>1 DEF InRange, Follows, InPush
    <2>3. ASSUME NEW c \in Consumers PROVE EndInv(c)
      <3>1. /\ pc[c] \in {"barrier", "start"} /\ pc[Feeder(In[c])] \in {"barrier", "start"}
            /\ queue[c] = << >> /\ ~ terminated[c]
        BY <2>1, WhoIsWho
      <3> QED BY <3>1 DEF EndInv, At, Marked, Ended
    <2> QED BY <2>2, <2>3
  <1>2. PromiseInv /\ [Next]_vars => PromiseInv'
    BY StepPromise
  <1>3. Init /\ EveryFrameAccounted => PromiseInv
    BY <1>1, InitInv DEF PromiseInv
  <1> QED BY <1>2, <1>3, NothingElseIsLost, PTL DEF Safety

(***************************************************************************)
(* The steps of the promise.                                               *)
(***************************************************************************)
\* A step that leaves the frames, what was handed out, and the ends alone.
LEMMA PromiseStutters ==
    ASSUME got' = got, terminated' = terminated,
           \A c \in Consumers : Frames(queue'[c]) = Frames(queue[c]),
           \A c \in Consumers : Ended(c)' <=> Ended(c)
    PROVE  UNCHANGED Promise!vars
  <1>1. [c \in Consumers |-> Ended(c)'] = [c \in Consumers |-> Ended(c)]
    BY DEF Ended
  <1> HIDE DEF Frames
  <1>2. [c \in Consumers |-> Frames(queue'[c])] = [c \in Consumers |-> Frames(queue[c])]
    OBVIOUS
  <1>3. [c \in Consumers |-> Frames(queue[c])'] = [c \in Consumers |-> Frames(queue'[c])]
    BY DEF Frames
  <1> QED BY <1>1, <1>2, <1>3 DEF Promise!vars

\* One queue changes.
LEMMA OneQueue ==
    ASSUME NEW c \in Consumers, NEW q, Frames(queue'[c]) = q,
           \A d \in Consumers : d # c => queue'[d] = queue[d]
    PROVE  [d \in Consumers |-> Frames(queue'[d])]
               = [[d \in Consumers |-> Frames(queue[d])] EXCEPT ![c] = q]
  <1> HIDE DEF Frames
  <1> DEFINE new == [d \in Consumers |-> Frames(queue'[d])]
             old == [[d \in Consumers |-> Frames(queue[d])] EXCEPT ![c] = q]
  <1>1. \A d \in Consumers : new[d] = old[d]
    OBVIOUS
  <1>2. new = [d \in Consumers |-> new[d]] /\ old = [d \in Consumers |-> old[d]]
    OBVIOUS
  <1> QED BY <1>1, <1>2

\* A step with which c comes to the end of its loop.
LEMMA OneMoreEnded ==
    ASSUME NEW c \in Consumers, Ended(c)',
           \A d \in Consumers : d # c => (Ended(d)' <=> Ended(d))
    PROVE  [d \in Consumers |-> Ended(d)'] = [[d \in Consumers |-> Ended(d)] EXCEPT ![c] = TRUE]
  <1> DEFINE old == [[d \in Consumers |-> Ended(d)] EXCEPT ![c] = TRUE]
             new == [d \in Consumers |-> Ended(d)']
  <1>1. Ended(c)' = TRUE
    BY DEF Ended
  <1>2. \A d \in Consumers : d # c => Ended(d)' = Ended(d)
    BY DEF Ended
  <1>3. \A d \in Consumers : new[d] = old[d]
    BY <1>1, <1>2
  <1>4. new = [d \in Consumers |-> new[d]] /\ old = [d \in Consumers |-> old[d]]
    OBVIOUS
  <1> QED BY <1>3, <1>4

\* Dequeuing a frame is Deliver; dequeuing the empty optional, or finding the queue of
\* a terminated subscription empty, is Close.
LEMMA ConsumePromise ==
    ASSUME PromiseInv, NEW c \in Consumers, Consume(c)
    PROVE  [Promise!Next]_(Promise!vars)
  <1>1. /\ Inv /\ EndInv(c)
        /\ c \in Threads /\ Consumers \subseteq Threads /\ pc \in [Threads -> Places]
        /\ queue \in [Consumers -> Seq(Nat)] /\ queue[c] \in Seq(Nat) /\ MarkLast(queue[c])
        /\ got \in [Consumers -> Seq(Nat)]
    BY WhoIsWho DEF PromiseInv, Inv, TypeOK, SubscriptionInv, MarkLast
  <1>2. /\ \A t \in Threads : t # c => pc'[t] = pc[t]
        /\ \A d \in Consumers : d # c => queue'[d] = queue[d]
        /\ terminated' = terminated
        /\ ~ Ended(c)
    BY <1>1, ConsumeFrame DEF Ended
  <1>3. \A d \in Consumers : d # c => (Ended(d)' <=> Ended(d))
    BY <1>1, <1>2 DEF Ended
  <1>4. CASE Dequeue(c) /\ Head(queue[c]) # NullOpt
    <2>1. /\ queue[c] # << >> /\ ~ Ended(c)'
          /\ got' = [got EXCEPT ![c] = Append(@, Head(queue[c]))]
          /\ queue'[c] = Tail(queue[c])
      BY <1>1, <1>4 DEF Dequeue, Goto, Ended
    <2>2. [d \in Consumers |-> Ended(d)'] = [d \in Consumers |-> Ended(d)]
      <3>1. \A d \in Consumers : Ended(d)' <=> Ended(d)
        BY <1>2, <1>3, <2>1
      <3> QED BY <3>1 DEF Ended
    <2>3. /\ Frames(queue[c]) # << >> /\ Head(Frames(queue[c])) = Head(queue[c])
          /\ Frames(queue'[c]) = Tail(Frames(queue[c]))
      BY <1>1, <1>4, <2>1, FramesHead
    <2>4. [d \in Consumers |-> Frames(queue'[d])]
              = [[d \in Consumers |-> Frames(queue[d])] EXCEPT ![c] = Tail(Frames(queue[c]))]
      BY <1>2, <2>3, OneQueue
    <2>5. [d \in Consumers |-> Frames(queue[d])'] = [d \in Consumers |-> Frames(queue'[d])]
      BY DEF Frames
    <2> HIDE DEF Frames
    <2>6. Promise!Deliver(c)
      BY <1>1, <1>2, <2>1, <2>2, <2>3, <2>4, <2>5 DEF Promise!Deliver
    <2> QED BY <2>6 DEF Promise!Next, Promise!Answer
  <1>5. ~ (Dequeue(c) /\ Head(queue[c]) # NullOpt) =>
           got' = got /\ Frames(queue'[c]) = Frames(queue[c])
    <2>1. CASE Dequeue(c) /\ Head(queue[c]) = NullOpt
      <3>1. queue[c] # << >> /\ queue'[c] = Tail(queue[c]) /\ got' = got
        BY <1>1, <2>1 DEF Dequeue
      <3> QED BY <1>1, <2>1, <3>1, FramesOver
    <2>2. CASE ~ Dequeue(c)
      BY <2>2 DEF Consume, Subscribe, NextCheck, Peek, WaitSignal, shared, history
    <2> QED BY <2>1, <2>2
  <1>6. CASE ~ (Dequeue(c) /\ Head(queue[c]) # NullOpt) /\ Ended(c)'
    <2>1. terminated[c] /\ Frames(queue[c]) = << >>
      <3>1. CASE Dequeue(c)
        <4>1. queue[c] # << >> /\ Head(queue[c]) = NullOpt
          BY <1>6, <3>1 DEF Dequeue
        <4>2. Marked(queue[c])
          BY <1>1, <4>1, HeadAndTail DEF Marked
        <4> QED BY <1>1, <4>1, <4>2, FramesOver DEF EndInv
      <3>2. CASE ~ Dequeue(c)
        <4>1. pc[c] = "peek" /\ queue[c] = << >>
          BY <1>1, <1>6, <3>2 DEF Consume, Subscribe, NextCheck, Peek, WaitSignal, Goto, Ended
        <4> QED BY <1>1, <4>1 DEF EndInv, Frames
      <3> QED BY <3>1, <3>2
    <2>2. [d \in Consumers |-> Ended(d)'] = [[d \in Consumers |-> Ended(d)] EXCEPT ![c] = TRUE]
      BY <1>3, <1>6, OneMoreEnded
    <2>3. [d \in Consumers |-> Frames(queue[d])'] = [d \in Consumers |-> Frames(queue[d])]
      BY <1>2, <1>5, <1>6 DEF Frames
    <2> HIDE DEF Frames
    <2>4. Promise!Close(c)
      BY <1>2, <1>5, <1>6, <2>1, <2>2, <2>3 DEF Promise!Close
    <2> QED BY <2>4 DEF Promise!Next, Promise!Answer
  <1>7. CASE ~ (Dequeue(c) /\ Head(queue[c]) # NullOpt) /\ ~ Ended(c)'
    <2>1. \A d \in Consumers : Ended(d)' <=> Ended(d)
      BY <1>2, <1>3, <1>7
    <2>2. \A d \in Consumers : Frames(queue'[d]) = Frames(queue[d])
      BY <1>2, <1>5, <1>7
    <2> QED BY <1>2, <1>5, <1>7, <2>1, <2>2, PromiseStutters
  <1> QED BY <1>4, <1>6, <1>7

\* An element that is queued is Publish, setting m_terminated is Terminate; the empty
\* optional is no frame.
LEMMA FeedPromise ==
    ASSUME PromiseInv, NEW t \in Feeders, Feed(t)
    PROVE  [Promise!Next]_(Promise!vars)
  <1> DEFINE c == Head(todo[t])
  <1>1. /\ Inv /\ t \in Threads /\ Consumers \subseteq Threads /\ pc \in [Threads -> Places]
        /\ todo \in [Feeders -> Seq(Consumers)] /\ todo[t] \in Seq(Consumers)
        /\ queue \in [Consumers -> Seq(Nat)] /\ got \in [Consumers -> Seq(Nat)]
        /\ count \in [Feeders -> Nat \ {0}] /\ count[t] \in Nat \ {0} /\ N \in Nat
        /\ Producer \notin Consumers
    BY WhoIsWho DEF PromiseInv, Inv, TypeOK
  <1>2. /\ got' = got
        /\ \A u \in Threads : u # t => pc'[u] = pc[u]
        /\ pc[t] \in {"signal", "mark", "sigmark"} => todo[t] # << >>
        /\ todo[t] # << >> => c \in Consumers /\ Feeder(In[c]) = t /\ EndInv(c)
    BY <1>1, FeedFrame, VisitedIsOwn DEF PromiseInv, Inv, WalksAreOwn
  <1>3. t # Producer => (Ended(t)' <=> Ended(t))
    BY <1>1 DEF Feed, PushLock, PushEnqueue, PushRefused, PushSignal, PushUnlock, TermLock,
                TermFlag, TermEnqueue, TermRefused, TermSignal, TermClear, Goto, Ended
  <1>4. \A d \in Consumers : Ended(d)' <=> Ended(d)
    BY <1>1, <1>2, <1>3 DEF Ended
  <1>5. [d \in Consumers |-> Ended(d)'] = [d \in Consumers |-> Ended(d)]
    BY <1>4 DEF Ended
  <1>6. [d \in Consumers |-> Frames(queue[d])'] = [d \in Consumers |-> Frames(queue'[d])]
    BY DEF Frames
  <1>7. CASE PushEnqueue(t)
    <2>1. /\ pc[t] = "visit" /\ todo[t] # << >> /\ terminated' = terminated
          /\ queue' = [queue EXCEPT ![c] = Append(@, count[t])]
      BY <1>7 DEF PushEnqueue
    <2>2. c \in Consumers /\ Feeder(In[c]) = t /\ todo[t][1] = c /\ 1 \in DOMAIN todo[t]
      BY <1>1, <1>2, <2>1, HeadAndTail
    <2> HIDE DEF c
    <2>3. ~ terminated[c] /\ ~ Marked(queue[c]) /\ LastOffered(c) = count[t] - 1
      <3>1. ~ terminated[c] /\ ~ Marked(queue[c])
        BY <1>2, <2>1, <2>2 DEF EndInv, c
      <3>2. LastOffered(c) = count[t] - 1
        BY <2>1, <2>2 DEF LastOffered, At
      <3> QED BY <3>1, <3>2
    <2>4. queue[c] \in Seq(Nat) /\ queue'[c] = Append(queue[c], count[t])
      BY <1>1, <2>1, <2>2
    <2>5. Frames(queue[c]) = queue[c] /\ Frames(queue'[c]) = Append(queue[c], count[t])
      BY <1>1, <2>3, <2>4, FramesUnmarked
    <2>6. count[t] \in 1 .. N
      <3>1. InRange(t)
        BY DEF PromiseInv
      <3> QED BY <1>1, <2>1, <3>1 DEF InRange, InPush
    <2>7. Seen(c) = got[c] \o queue[c] /\ Seen(c) \in Seq(Nat)
      BY <1>1, <2>2, <2>4, <2>5 DEF Seen
    <2>8. Seen(c) # << >> => count[t] \in (Seen(c)[Len(Seen(c))] + 1) .. N
      <3> SUFFICES ASSUME Seen(c) # << >>
                   PROVE  count[t] \in (Seen(c)[Len(Seen(c))] + 1) .. N
        OBVIOUS
      <3>1. Len(Seen(c)) \in DOMAIN Seen(c)
        BY <2>7, LastOfSeen
      <3>2. Seen(c)[Len(Seen(c))] \in 1 .. N /\ Seen(c)[Len(Seen(c))] <= count[t] - 1
        BY <2>2, <2>3, <3>1, SeenFits
      <3>3. \A x \in 1 .. N : x <= count[t] - 1 => count[t] \in x + 1 .. N
        BY <1>1, <2>6
      <3> QED BY <3>2, <3>3
    <2>9. count[t] \in Promise!Acceptable(c)
      BY <2>2, <2>5, <2>6, <2>7, <2>8 DEF Promise!Acceptable, Promise!Last
    <2>10. [d \in Consumers |-> Frames(queue'[d])]
               = [[d \in Consumers |-> Frames(queue[d])] EXCEPT ![c] = Append(@, count[t])]
      <3>1. \A d \in Consumers : d # c => queue'[d] = queue[d]
        BY <1>1, <2>1
      <3>2. [d \in Consumers |-> Frames(queue'[d])]
               = [[d \in Consumers |-> Frames(queue[d])] EXCEPT ![c] = Append(queue[c], count[t])]
        BY <2>2, <2>5, <3>1, OneQueue
      <3> HIDE DEF Frames
      <3> QED BY <2>2, <2>5, <3>2
    <2> HIDE DEF Frames
    <2>11. Promise!Publish(c)
      BY <1>2, <1>5, <1>6, <2>1, <2>2, <2>3, <2>9, <2>10 DEF Promise!Publish
    <2> QED BY <2>2, <2>11 DEF Promise!Next
  <1>8. CASE TermFlag(t)
    <2>1. /\ todo[t] # << >> /\ queue' = queue
          /\ terminated' = [terminated EXCEPT ![c] = TRUE]
      BY <1>8 DEF TermFlag
    <2>2. c \in Consumers
      BY <1>2, <2>1
    <2>3. Promise!Terminate(c)
      BY <1>2, <1>5, <1>6, <2>1 DEF Promise!Terminate
    <2> QED BY <2>2, <2>3 DEF Promise!Next
  <1>9. CASE TermEnqueue(t)
    <2>1. /\ pc[t] = "mark" /\ todo[t] # << >> /\ terminated' = terminated
          /\ queue' = [queue EXCEPT ![c] = Append(@, NullOpt)]
      BY <1>2, <1>9 DEF TermEnqueue
    <2>2. c \in Consumers /\ Feeder(In[c]) = t /\ queue[c] \in Seq(Nat) /\ 1 \in DOMAIN todo[t]
          /\ todo[t][1] = c
      BY <1>1, <1>2, <2>1, HeadAndTail
    <2> HIDE DEF c
    <2>3. ~ Marked(queue[c])
      BY <2>1, <2>2 DEF PromiseInv, Inv, SubscriptionInv, Marked, At
    <2>4. Frames(queue'[c]) = Frames(queue[c])
      <3>1. queue'[c] = Append(queue[c], NullOpt)
        BY <1>1, <2>1, <2>2
      <3> QED BY <2>2, <2>3, <3>1, FramesUnmarked
    <2>5. \A d \in Consumers : Frames(queue'[d]) = Frames(queue[d])
      <3>1. \A d \in Consumers : d # c => queue'[d] = queue[d]
        BY <1>1, <2>1
      <3> QED BY <2>4, <3>1
    <2> QED BY <1>2, <1>4, <2>1, <2>5, PromiseStutters
  <1>10. CASE \/ PushLock(t) \/ PushRefused(t) \/ PushSignal(t) \/ PushUnlock(t)
              \/ TermLock(t) \/ TermRefused(t) \/ TermSignal(t) \/ TermClear(t)
    <2>1. UNCHANGED <<queue, terminated>>
      BY <1>10 DEF PushLock, PushRefused, PushSignal, PushUnlock, TermLock, TermRefused, TermSignal,
                   TermClear, shared
    <2> QED BY <1>2, <1>4, <2>1, PromiseStutters
  <1> QED BY <1>7, <1>8, <1>9, <1>10 DEF Feed

\* The blocking queues with their two signs of the end implement the safe part of the
\* stream's promise, whatever enqueue() refuses: each subscription gets ids in order and
\* once, and nothing after the end.
THEOREM IsLossyStream == Safety => Promise!Safety
  <1>1. Init => Promise!Init
    <2> SUFFICES ASSUME Init PROVE Promise!Init
      OBVIOUS
    <2>1. \A c \in Consumers : Ended(c) = FALSE /\ Frames(queue[c]) = << >>
      BY WhoIsWho DEF Init, Ended, Frames
    <2>2. /\ [c \in Consumers |-> Ended(c)] = [c \in Consumers |-> FALSE]
          /\ [c \in Consumers |-> Frames(queue[c])] = [c \in Consumers |-> << >>]
      BY <2>1
    <2> QED BY <2>2 DEF Init, Promise!Init
  <1>2. PromiseInv /\ [Next]_vars => [Promise!Next]_(Promise!vars)
    <2> SUFFICES ASSUME PromiseInv, [Next]_vars
                 PROVE  [Promise!Next]_(Promise!vars)
      OBVIOUS
    <2>1. CASE MainReturn \/ UNCHANGED vars
      BY <2>1, MainEnd, PromiseStutters DEF Ended
    <2>2. ASSUME NEW t \in Threads, BarrierWait(t)
          PROVE  UNCHANGED Promise!vars
      <3>1. UNCHANGED <<queue, terminated, got>>
        BY <2>2, BarrierFrame DEF PromiseInv
      <3>2. \A c \in Consumers : Ended(c)' <=> Ended(c)
        BY <2>2, BarrierFrame, WhoIsWho DEF PromiseInv, Ended
      <3> QED BY <3>1, <3>2, PromiseStutters
    <2> QED BY <2>1, <2>2, ConsumePromise, FeedPromise DEF Next, Step
  <1> QED BY <1>1, <1>2, PromiseInvariance, PTL DEF Safety, Promise!Safety
=============================================================================
