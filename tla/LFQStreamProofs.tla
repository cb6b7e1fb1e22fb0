-------------------------- MODULE LFQStreamProofs --------------------------
(***************************************************************************)
(* Proofs about LFQStream for every wiring that TopologyAssumption allows, *)
(* every number of frames and every capacity of the queues.                *)
(***************************************************************************)
EXTENDS LFQStream, TLAPS

\* What the walks of the feeders rest on.
LEMMA HeadAndTail ==
    ASSUME NEW S, NEW s \in Seq(S), s # << >>
    PROVE  /\ Head(s) \in S
           /\ Tail(s) \in Seq(S)
           /\ 1 \in DOMAIN s
           /\ Head(s) = s[1]
           /\ \A i \in DOMAIN Tail(s) : i + 1 \in DOMAIN s /\ Tail(s)[i] = s[i + 1]
  OBVIOUS

LEMMA AppendNotEmpty ==
    ASSUME NEW S, NEW s \in Seq(S), NEW e \in S
    PROVE  Append(s, e) # << >>
  <1>1. Append(s, e)[Len(s) + 1] = e /\ Len(s) + 1 \in DOMAIN Append(s, e)
    OBVIOUS
  <1>2. DOMAIN << >> = {}
    OBVIOUS
  <1> QED BY <1>1, <1>2

LEMMA Update ==
    ASSUME NEW D, NEW V, NEW f \in [D -> V], NEW d, NEW v \in V
    PROVE  [f EXCEPT ![d] = v] \in [D -> V]
  OBVIOUS

\* Every stream has one feeder.
LEMMA FeederOfStream ==
    /\ \A s \in Streams : Feeder(s) \in Feeders /\ Out[Feeder(s)] = s
    /\ \A f \in Feeders : Out[f] \in Streams /\ Feeder(Out[f]) = f
  <1>1. ASSUME NEW s \in Streams
        PROVE  Feeder(s) \in Feeders /\ Out[Feeder(s)] = s
    <2>1. \E t \in Threads : Out[t] = s
      BY TopologyAssumption
    <2>2. Feeder(s) \in Threads /\ Out[Feeder(s)] = s
      BY <2>1 DEF Feeder
    <2>3. s # NoStream
      BY TopologyAssumption
    <2> QED BY <2>2, <2>3 DEF Feeders
  <1>2. ASSUME NEW f \in Feeders
        PROVE  Out[f] \in Streams /\ Feeder(Out[f]) = f
    <2>1. Out[f] \in Streams
      BY TopologyAssumption DEF Feeders
    <2>2. Feeder(Out[f]) \in Feeders /\ Out[Feeder(Out[f])] = Out[f]
      BY <1>1, <2>1
    <2> QED BY <2>1, <2>2, TopologyAssumption
  <1> QED BY <1>1, <1>2

\* The producer feeds a stream; consumers are threads, and so are feeders.
LEMMA WhoIsWho ==
    /\ Producer \in Feeders
    /\ Producer \notin Consumers
    /\ Consumers \subseteq Threads
    /\ Feeders \subseteq Threads
    /\ \A c \in Consumers : In[c] \in Streams
    /\ \A c \in Consumers : Feeder(In[c]) \in Feeders /\ Out[Feeder(In[c])] = In[c]
    /\ \A c \in Consumers : Feeder(In[c]) # c
    /\ N \in Nat \ {0}
  <1>1. /\ Producer \in Feeders
        /\ Producer \notin Consumers
        /\ Consumers \subseteq Threads
        /\ Feeders \subseteq Threads
        /\ \A c \in Consumers : In[c] \in Streams
        /\ N \in Nat \ {0}
    BY TopologyAssumption DEF Feeders, Threads
  <1>2. \A c \in Consumers : Feeder(In[c]) \in Feeders /\ Out[Feeder(In[c])] = In[c]
    BY <1>1, FeederOfStream
  <1>3. \A c \in Consumers : Feeder(In[c]) # c
    BY <1>1, <1>2, TopologyAssumption
  <1> QED BY <1>1, <1>2, <1>3

LEMMA InitInv == Init => Inv
  <1> SUFFICES ASSUME Init PROVE Inv
    OBVIOUS
  <1> USE WhoIsWho
  <1>1. TypeOK
    BY DEF Init, TypeOK, Places
  <1>2. ProducerInLoop
    BY DEF Init, ProducerInLoop
  <1>3. WalksAreOwn
    BY DEF Init, WalksAreOwn
  <1>4. ASSUME NEW c \in Consumers PROVE SubscriptionInv(c)
    BY DEF Init, SubscriptionInv, Offered, LastOffered, At, Ended
  <1> QED BY <1>1, <1>2, <1>3, <1>4 DEF Inv

(***************************************************************************)
(* The type invariant.                                                     *)
(***************************************************************************)
LEMMA ConsumeTypes ==
    ASSUME Inv, NEW c \in Consumers, Consume(c) \/ Spurious(c)
    PROVE  TypeOK'
  <1> USE WhoIsWho DEF Inv, TypeOK, Goto, Places, shared, history
  <1>1. CASE Subscribe(c)
    <2>1. count[Feeder(In[c])] \in Nat
      OBVIOUS
    <2>2. Append(subs[In[c]], c) \in Seq(Consumers)
      OBVIOUS
    <2>3. CASE main' = "crash" /\ UNCHANGED <<pc, subs, joined>>
      BY <1>1, <2>3 DEF Subscribe
    <2>4. CASE main' # "crash" \/ ~ UNCHANGED <<pc, subs, joined>>
      <3>1. /\ subs' = [subs EXCEPT ![In[c]] = Append(subs[In[c]], c)]
            /\ joined' = [joined EXCEPT ![c] = count[Feeder(In[c])]]
            /\ pc' = [pc EXCEPT ![c] = "next"]
            /\ main' = main
        BY <1>1, <2>4 DEF Subscribe
      <3>2. subs' \in [Streams -> Seq(Consumers)] /\ joined' \in [Consumers -> Nat]
        BY <2>1, <2>2, <3>1, Update
      <3> QED BY <1>1, <3>1, <3>2 DEF Subscribe
    <2> QED BY <2>3, <2>4
  <1>2. CASE NextCheck(c) \/ LoopCheck(c) \/ LoopTest(c)
    <2>1. CASE NextCheck(c)
      BY <2>1 DEF NextCheck
    <2>2. CASE LoopCheck(c)
      BY <2>2 DEF LoopCheck
    <2>3. CASE LoopTest(c)
      BY <2>3 DEF LoopTest
    <2> QED BY <1>2, <2>1, <2>2, <2>3
  <1>3. CASE Wait(c) \/ Spurious(c)
    BY <1>3 DEF Wait, Spurious
  <1>4. CASE Recheck(c)
    BY <1>4 DEF Recheck, AfterLoop
  <1>5. CASE Read(c)
    <2>1. CASE queue[c] = << >>
      <3>1. /\ got' = [got EXCEPT ![c] = Append(got[c], 0)]
            /\ Append(got[c], 0) \in Seq(Nat)
            /\ queue' = queue
        BY <1>5, <2>1 DEF Read
      <3>2. got' \in [Consumers -> Seq(Nat)]
        BY <3>1, Update
      <3> QED BY <1>5, <3>1, <3>2 DEF Read
    <2>2. CASE queue[c] # << >>
      <3>1. Head(queue[c]) \in Nat /\ Tail(queue[c]) \in Seq(Nat)
        BY <2>2, HeadAndTail
      <3>2. /\ got' = [got EXCEPT ![c] = Append(got[c], Head(queue[c]))]
            /\ queue' = [queue EXCEPT ![c] = Tail(queue[c])]
        BY <1>5, <2>2 DEF Read
      <3>3. Append(got[c], Head(queue[c])) \in Seq(Nat)
        BY <3>1
      <3>4. got' \in [Consumers -> Seq(Nat)] /\ queue' \in [Consumers -> Seq(Nat)]
        BY <3>1, <3>2, <3>3, Update
      <3> QED BY <1>5, <3>4 DEF Read
    <2> QED BY <2>1, <2>2
  <1> QED BY <1>1, <1>2, <1>3, <1>4, <1>5 DEF Consume

LEMMA FeedTypes ==
    ASSUME Inv, NEW t \in Feeders, Feed(t)
    PROVE  TypeOK'
  <1> USE WhoIsWho, FeederOfStream DEF Inv, TypeOK, Goto, Places, shared, history
  <1>1. CASE BeginProducing(t)
    BY <1>1 DEF BeginProducing
  <1>2. CASE PushLock(t)
    BY <1>2 DEF PushLock
  <1>3. CASE PushWrite(t)
    <2>1. Head(todo[t]) \in Consumers /\ count[t] \in Nat
      BY <1>3, HeadAndTail DEF PushWrite
    <2> DEFINE c == Head(todo[t])
    <2>2. Append(queue[c], count[t]) \in Seq(Nat) /\ refused[c] \cup {count[t]} \in SUBSET Nat
      <3>1. queue[c] \in Seq(Nat) /\ refused[c] \in SUBSET Nat
        BY <2>1
      <3> HIDE DEF c
      <3> QED BY ONLY <2>1, <3>1
    <2>3. /\ queue' = queue \/ queue' = [queue EXCEPT ![c] = Append(queue[c], count[t])]
          /\ refused' = refused \/ refused' = [refused EXCEPT ![c] = refused[c] \cup {count[t]}]
      BY <1>3 DEF PushWrite
    <2>4. queue' \in [Consumers -> Seq(Nat)] /\ refused' \in [Consumers -> SUBSET Nat]
      BY <2>2, <2>3, Update
    <2> QED BY <1>3, <2>4 DEF PushWrite
  <1>4. CASE PushNotify(t) \/ TermNotify(t)
    <2>1. todo[t] # << >>
      BY <1>4 DEF PushNotify, TermNotify, WalksAreOwn
    <2>2. Tail(todo[t]) \in Seq(Consumers)
      BY <2>1, HeadAndTail
    <2>3. todo' \in [Feeders -> Seq(Consumers)]
      <3>1. todo' = [todo EXCEPT ![t] = Tail(todo[t])]
        BY <1>4 DEF PushNotify, TermNotify
      <3> QED BY <2>2, <3>1
    <2>4. pc' \in [Threads -> Places]
      <3>1. PICK l \in {"visit", "flag"} : Notify(t, l)
        BY <1>4 DEF PushNotify, TermNotify
      <3>2. \A u \in Threads : pc'[u] \in Places
        BY <3>1 DEF Notify
      <3>3. pc' = [u \in Threads |-> pc'[u]]
        BY <3>1 DEF Notify
      <3> QED BY <3>2, <3>3
    <2>5. UNCHANGED <<main, count, shared, history>>
      BY <1>4 DEF PushNotify, TermNotify
    <2> QED BY <2>3, <2>4, <2>5
  <1>5. CASE PushUnlock(t)
    <2>1. /\ UNCHANGED <<main, todo, subs, queue, terminated, history>>
          /\ sMutex' = [sMutex EXCEPT ![Out[t]] = FALSE]
          /\ count' = [count EXCEPT ![t] = @ + 1]
      BY <1>5 DEF PushUnlock
    <2>2. pc' \in [Threads -> Places]
      <3>1. \E l \in {"next", "term", "push"} : pc' = [pc EXCEPT ![t] = l]
        BY <1>5 DEF PushUnlock, Goto
      <3> QED BY <3>1 DEF Places
    <2>3. count' \in [Feeders -> Nat \ {0}]
      BY <2>1
    <2>4. count'[Producer] <= N + 1
      BY <1>5, <2>1 DEF PushUnlock, ProducerInLoop
    <2> QED BY <2>1, <2>2, <2>3, <2>4
  <1>6. CASE TermBegin(t)
    BY <1>6 DEF TermBegin
  <1>7. CASE TermFlag(t)
    BY <1>7, HeadAndTail DEF TermFlag
  <1>8. CASE TermClear(t)
    BY <1>8 DEF TermClear
  <1> QED BY <1>1, <1>2, <1>3, <1>4, <1>5, <1>6, <1>7, <1>8 DEF Feed

LEMMA MainTypes ==
    ASSUME Inv, Main
    PROVE  TypeOK'
  <1> USE DEF Inv, TypeOK, shared, history
  <1>1. CASE StartProducing
    BY <1>1 DEF StartProducing
  <1>2. CASE MainReturn
    BY <1>2 DEF MainReturn
  <1> QED BY <1>1, <1>2 DEF Main

(***************************************************************************)
(* What a step leaves alone.                                               *)
(***************************************************************************)
\* The subscription a feeder stands at is one of its own stream.
LEMMA VisitedIsOwn ==
    ASSUME Inv, NEW t \in Feeders, todo[t] # << >>
    PROVE  /\ Head(todo[t]) \in Consumers
           /\ In[Head(todo[t])] = Out[t]
           /\ Feeder(In[Head(todo[t])]) = t
  <1>1. todo[t] \in Seq(Consumers) /\ \A i \in DOMAIN todo[t] : In[todo[t][i]] = Out[t]
    BY DEF Inv, TypeOK, WalksAreOwn
  <1> QED BY <1>1, HeadAndTail, FeederOfStream

LEMMA ConsumeFrame ==
    ASSUME Inv, NEW c \in Consumers, Consume(c) \/ Spurious(c)
    PROVE  /\ todo' = todo /\ count' = count /\ terminated' = terminated
           /\ refused' = refused
           /\ \A t \in Threads : t # c => pc'[t] = pc[t]
           /\ \A d \in Consumers : d # c => queue'[d] = queue[d]
           /\ pc[c] \in {"start", "next", "loop", "looptest", "towait", "wait", "recheck", "read"}
           /\ pc'[c] \in {"start", "next", "loop", "looptest", "towait", "wait", "recheck", "read",
                          "push", "term", "done"}
           /\ pc'[c] = "start" => subs' = subs
           /\ main' = main \/ main' = "crash"
  <1>0. pc \in [Threads -> Places] /\ c \in Threads /\ queue \in [Consumers -> Seq(Nat)]
    BY WhoIsWho DEF Inv, TypeOK
  <1> USE <1>0 DEF Goto, shared, history
  <1>1. CASE Subscribe(c)
    BY <1>1 DEF Subscribe
  <1>2. CASE NextCheck(c) \/ LoopCheck(c) \/ LoopTest(c)
    BY <1>2 DEF NextCheck, LoopCheck, LoopTest
  <1>3. CASE Wait(c) \/ Spurious(c)
    BY <1>3 DEF Wait, Spurious
  <1>4. CASE Recheck(c)
    BY <1>4 DEF Recheck, AfterLoop
  <1>5. CASE Read(c)
    BY <1>5 DEF Read
  <1> QED BY <1>1, <1>2, <1>3, <1>4, <1>5 DEF Consume

LEMMA FeedFrame ==
    ASSUME Inv, NEW t \in Feeders, Feed(t)
    PROVE  /\ got' = got
           /\ \A u \in Threads : u # t =>
                 pc'[u] = pc[u] \/ (pc[u] = "wait" /\ pc'[u] = "loop")
           /\ \A u \in Feeders : u # t => todo'[u] = todo[u] /\ count'[u] = count[u]
           /\ \A d \in Consumers : Feeder(In[d]) # t =>
                 /\ queue'[d] = queue[d] /\ refused'[d] = refused[d]
                 /\ terminated'[d] = terminated[d]
           /\ pc[t] \notin {"next", "loop", "looptest", "towait", "wait", "recheck", "read", "done"}
           /\ pc'[t] \notin {"start", "loop", "looptest", "towait", "wait", "recheck", "read"}
           /\ t # Producer => (Ended(t)' <=> Ended(t))
  <1>0. /\ pc \in [Threads -> Places] /\ t \in Threads
        /\ todo \in [Feeders -> Seq(Consumers)]
        /\ count \in [Feeders -> Nat \ {0}]
        /\ queue \in [Consumers -> Seq(Nat)]
        /\ refused \in [Consumers -> SUBSET Nat]
        /\ terminated \in [Consumers -> BOOLEAN]
        /\ pc[t] \in {"notify", "wakeup"} => todo[t] # << >>
        /\ Consumers \subseteq Threads
    BY WhoIsWho DEF Inv, TypeOK, WalksAreOwn
  <1>00. todo[t] # << >> =>
           /\ Feeder(In[Head(todo[t])]) = t
           /\ Head(todo[t]) \in Consumers /\ Head(todo[t]) # t
    BY VisitedIsOwn, WhoIsWho
  <1> USE <1>0, <1>00 DEF Goto, shared, history, Ended
  <1>1. CASE BeginProducing(t)
    BY <1>1 DEF BeginProducing
  <1>2. CASE PushLock(t)
    BY <1>2 DEF PushLock
  <1>3. CASE PushWrite(t)
    BY <1>3 DEF PushWrite
  <1>4. CASE PushNotify(t)
    BY <1>4 DEF PushNotify, Notify
  <1>5. CASE PushUnlock(t)
    BY <1>5 DEF PushUnlock
  <1>6. CASE TermBegin(t)
    BY <1>6 DEF TermBegin
  <1>7. CASE TermFlag(t)
    BY <1>7 DEF TermFlag
  <1>8. CASE TermNotify(t)
    BY <1>8 DEF TermNotify, Notify
  <1>9. CASE TermClear(t)
    BY <1>9 DEF TermClear
  <1> QED BY <1>1, <1>2, <1>3, <1>4, <1>5, <1>6, <1>7, <1>8, <1>9 DEF Feed

(***************************************************************************)
(* A consumer's step and the invariant of each subscription.               *)
(***************************************************************************)
\* No step of a consumer changes what has been offered to whom.
LEMMA ConsumeOffered ==
    ASSUME Inv, NEW c \in Consumers, Consume(c) \/ Spurious(c), NEW d \in Consumers
    PROVE  LastOffered(d)' = LastOffered(d)
  <1> DEFINE f == Feeder(In[d])
  <1>1. f \in Threads
    BY WhoIsWho
  <1>2. todo' = todo /\ count' = count
    BY ConsumeFrame
  <1>3. \A l \in {"visit", "notify"} : pc'[f] = l <=> pc[f] = l
    BY <1>1, ConsumeFrame
  <1> HIDE DEF f
  <1>4. Offered(d)' <=> Offered(d)
    BY <1>2, <1>3 DEF Offered, At, f
  <1> QED BY <1>2, <1>4 DEF LastOffered

LEMMA ConsumeOther ==
    ASSUME Inv, NEW c \in Consumers, Consume(c) \/ Spurious(c), NEW d \in Consumers, d # c
    PROVE  SubscriptionInv(d)'
  <1> DEFINE f == Feeder(In[d])
  <1>1. f \in Threads /\ d \in Threads
    BY WhoIsWho
  <1>2. /\ pc'[d] = pc[d] /\ queue'[d] = queue[d] /\ terminated'[d] = terminated[d]
        /\ refused'[d] = refused[d]
    BY <1>1, ConsumeFrame
  <1>3. pc[f] \in {"flag", "wakeup", "done"} => pc'[f] \in {"flag", "wakeup", "done"}
    BY <1>1, ConsumeFrame
  <1>4. SubscriptionInv(d) /\ LastOffered(d)' = LastOffered(d)
    BY ConsumeOffered DEF Inv
  <1> HIDE DEF f
  <1> QED BY <1>2, <1>3, <1>4 DEF SubscriptionInv, Ended, f

LEMMA ConsumeOwn ==
    ASSUME Inv, NEW c \in Consumers, Consume(c) \/ Spurious(c)
    PROVE  SubscriptionInv(c)'
  <1> DEFINE f == Feeder(In[c])
             last == LastOffered(c)
  <1>1. f \in Threads /\ f \in Feeders /\ c \in Threads /\ f # c
    BY WhoIsWho
  <1>2. /\ pc \in [Threads -> Places]
        /\ queue \in [Consumers -> Seq(Nat)] /\ queue[c] \in Seq(Nat)
    BY DEF Inv, TypeOK
  <1>3. pc'[f] = pc[f] /\ terminated' = terminated /\ refused' = refused
    BY <1>1, ConsumeFrame
  <1>4. SubscriptionInv(c) /\ LastOffered(c)' = last /\ last \in Nat
    <2>1. count[f] \in Nat \ {0}
      BY <1>1 DEF Inv, TypeOK
    <2> QED BY <2>1, ConsumeOffered DEF Inv, LastOffered
  <1> HIDE DEF f, last
  <1>5. Len(queue'[c]) <= Len(queue[c])
    <2>1. CASE Read(c)
      <3>1. CASE queue[c] = << >>
        BY <2>1, <3>1, <1>2 DEF Read
      <3>2. CASE queue[c] # << >>
        BY <2>1, <3>2, <1>2 DEF Read
      <3> QED BY <3>1, <3>2
    <2>2. CASE ~ Read(c)
      BY <2>2, <1>2 DEF Consume, Subscribe, NextCheck, LoopCheck, LoopTest, Wait, Spurious, Recheck, shared
    <2> QED BY <2>1, <2>2
  <1>6. Len(queue'[c]) <= last
    <2>1. queue'[c] \in Seq(Nat)
      BY ConsumeTypes DEF TypeOK
    <2> QED BY <1>2, <1>4, <1>5, <2>1 DEF SubscriptionInv, last
  <1>7. /\ pc'[c] = "recheck" => queue'[c] # << >> \/ terminated[c]
        /\ pc'[c] = "read" => queue'[c] # << >>
        /\ Ended(c)' => terminated[c] /\ queue'[c] = << >>
    <2> USE <1>1, <1>2, <1>4 DEF Goto, shared, SubscriptionInv, Ended
    <2>1. CASE Subscribe(c)
      BY <2>1 DEF Subscribe
    <2>2. CASE NextCheck(c) \/ LoopCheck(c) \/ LoopTest(c)
      BY <2>2 DEF NextCheck, LoopCheck, LoopTest
    <2>3. CASE Wait(c) \/ Spurious(c)
      BY <2>3 DEF Wait, Spurious
    <2>4. CASE Recheck(c)
      BY <2>4 DEF Recheck, AfterLoop
    <2>5. CASE Read(c)
      BY <2>5 DEF Read
    <2> QED BY <2>1, <2>2, <2>3, <2>4, <2>5 DEF Consume
  <1> QED BY <1>3, <1>4, <1>6, <1>7 DEF SubscriptionInv, f, last

(***************************************************************************)
(* A feeder's step and the invariant of each subscription.                 *)
(***************************************************************************)
LEMMA FeedOther ==
    ASSUME Inv, NEW t \in Feeders, Feed(t), NEW d \in Consumers, Feeder(In[d]) # t
    PROVE  SubscriptionInv(d)'
  <1> DEFINE f == Feeder(In[d])
  <1>1. f \in Threads /\ f \in Feeders /\ d \in Threads /\ d # Producer
    BY WhoIsWho
  <1>2. /\ queue'[d] = queue[d] /\ refused'[d] = refused[d] /\ terminated'[d] = terminated[d]
        /\ todo'[f] = todo[f] /\ count'[f] = count[f]
        /\ pc'[f] = pc[f] \/ (pc[f] = "wait" /\ pc'[f] = "loop")
    BY <1>1, FeedFrame
  <1>3. /\ \A l \in {"recheck", "read"} : pc'[d] = l <=> pc[d] = l
        /\ Ended(d)' <=> Ended(d)
    <2>1. CASE d = t
      BY <1>1, <2>1, FeedFrame
    <2>2. CASE d # t
      BY <1>1, <2>2, FeedFrame DEF Ended
    <2> QED BY <2>1, <2>2
  <1>4. SubscriptionInv(d)
    BY DEF Inv
  <1> HIDE DEF f
  <1>5. Offered(d)' <=> Offered(d)
    BY <1>2 DEF Offered, At, f
  <1> QED BY <1>2, <1>3, <1>4, <1>5 DEF SubscriptionInv, LastOffered, f

\* A step of the feeder keeps the queue within what it has offered, and a frame is
\* refused only when more than Capacity frames have been offered.
LEMMA FeedOffered ==
    ASSUME Inv, NEW t \in Feeders, Feed(t), NEW d \in Consumers, Feeder(In[d]) = t
    PROVE  /\ Len(queue'[d]) <= LastOffered(d)'
           /\ \A r \in refused'[d] : r > Capacity
  <1>1. /\ t \in Threads
        /\ pc \in [Threads -> Places]
        /\ todo \in [Feeders -> Seq(Consumers)] /\ todo[t] \in Seq(Consumers)
        /\ queue \in [Consumers -> Seq(Nat)] /\ queue[d] \in Seq(Nat) /\ Len(queue[d]) \in Nat
        /\ refused \in [Consumers -> SUBSET Nat]
        /\ count \in [Feeders -> Nat \ {0}] /\ count[t] \in Nat \ {0}
        /\ Capacity \in Nat
    BY WhoIsWho, CapacityAssumption DEF Inv, TypeOK
  <1>0. pc[t] \in {"notify", "wakeup"} => todo[t] # << >>
    BY DEF Inv, WalksAreOwn
  <1>2. Len(queue[d]) <= LastOffered(d) /\ \A r \in refused[d] : r > Capacity
    BY DEF Inv, SubscriptionInv
  <1>3. \A i, j \in DOMAIN todo[t] : todo[t][i] = todo[t][j] => i = j
    BY DEF Inv, WalksAreOwn
  <1>4. todo[t] # << >> => Head(todo[t]) \in Consumers /\ Head(todo[t]) # t
    BY VisitedIsOwn, WhoIsWho
  <1> USE DEF Goto, shared, history
  <1>5. CASE PushWrite(t)
    <2> DEFINE h == Head(todo[t])
    <2>1. pc[t] = "visit" /\ pc'[t] = "notify" /\ todo' = todo /\ count' = count /\ todo[t] # << >>
      BY <1>0, <1>1, <1>5 DEF PushWrite
    <2>2. h = todo[t][1] /\ 1 \in DOMAIN todo[t] /\ h \in Consumers
      BY <1>0, <1>1, <2>1, HeadAndTail
    <2>3. CASE d = h
      <3>1. ~ Offered(d)
        BY <2>1, <2>2, <2>3 DEF Offered, At
      <3>2. Offered(d)'
        BY <2>1, <2>3 DEF Offered, At
      <3>3. Len(queue[d]) <= count[t] - 1 /\ LastOffered(d)' = count[t]
        BY <1>2, <2>1, <3>1, <3>2 DEF LastOffered
      <3>4. CASE Len(queue[d]) < Capacity
        <4>1. queue'[d] = Append(queue[d], count[t]) /\ refused' = refused
          BY <1>0, <1>1, <1>5, <2>3, <3>4 DEF PushWrite
        <4>2. Len(queue'[d]) = Len(queue[d]) + 1
          BY <1>0, <1>1, <4>1
        <4> QED BY <1>0, <1>1, <1>2, <3>3, <4>1, <4>2
      <3>5. CASE ~ Len(queue[d]) < Capacity
        <4>1. queue' = queue /\ refused'[d] = refused[d] \cup {count[t]}
          BY <1>0, <1>1, <1>5, <2>3, <3>5 DEF PushWrite
        <4>2. count[t] > Capacity
          BY <1>0, <1>1, <3>3, <3>5
        <4> QED BY <1>0, <1>1, <1>2, <3>3, <4>1, <4>2
      <3> QED BY <3>4, <3>5
    <2>4. CASE d # h
      <3>1. queue'[d] = queue[d] /\ refused'[d] = refused[d]
        BY <1>0, <1>1, <1>5, <2>2, <2>4 DEF PushWrite
      <3>2. Offered(d)' <=> Offered(d)
        BY <2>1, <2>4 DEF Offered, At
      <3> QED BY <1>2, <2>1, <3>1, <3>2 DEF LastOffered
    <2> QED BY <2>3, <2>4
  <1>6. CASE PushNotify(t)
    <2> DEFINE h == Head(todo[t])
    <2>1. pc[t] = "notify" /\ count' = count /\ queue' = queue /\ refused' = refused /\ todo[t] # << >>
      BY <1>0, <1>1, <1>6 DEF PushNotify
    <2>2. pc'[t] = "visit" /\ todo'[t] = Tail(todo[t])
      BY <1>0, <1>1, <1>4, <1>6, <2>1 DEF PushNotify, Notify
    <2>3. Offered(d) => \A i \in DOMAIN Tail(todo[t]) : Tail(todo[t])[i] # d
      <3>1. CASE d = h
        <4>1. h = todo[t][1] /\ 1 \in DOMAIN todo[t]
          BY <1>0, <1>1, <2>1, HeadAndTail
        <4>2. \A i \in DOMAIN Tail(todo[t]) :
                 i + 1 \in DOMAIN todo[t] /\ i + 1 # 1 /\ Tail(todo[t])[i] = todo[t][i + 1]
          BY <1>0, <1>1, <2>1, HeadAndTail
        <4> QED BY <1>3, <3>1, <4>1, <4>2
      <3>2. CASE d # h
        <4>1. Offered(d) => \A i \in DOMAIN todo[t] : todo[t][i] # d
          BY <3>2 DEF Offered, At
        <4> QED BY <1>0, <1>1, <2>1, <4>1, HeadAndTail
      <3> QED BY <3>1, <3>2
    <2>4. Offered(d) => Offered(d)'
      BY <2>2, <2>3 DEF Offered
    <2> QED BY <1>0, <1>1, <1>2, <2>1, <2>4 DEF LastOffered
  <1>7. CASE PushUnlock(t)
    <2>1. /\ todo[t] = << >> /\ todo' = todo /\ queue' = queue /\ refused' = refused
          /\ pc'[t] \notin {"visit", "notify"}
          /\ count'[t] = count[t] + 1
      BY <1>0, <1>1, <1>7 DEF PushUnlock
    <2>2. LastOffered(d)' = count[t]
      BY <1>0, <1>1, <2>1 DEF LastOffered, Offered
    <2>3. LastOffered(d) <= count[t]
      BY <1>0, <1>1 DEF LastOffered
    <2> QED BY <1>0, <1>1, <1>2, <2>1, <2>2, <2>3 DEF LastOffered
  <1>8. CASE ~ (PushWrite(t) \/ PushNotify(t) \/ PushUnlock(t))
    <2>1. queue' = queue /\ refused' = refused /\ count' = count /\ pc[t] \notin {"visit", "notify"}
      BY <1>0, <1>1, <1>8 DEF Feed, BeginProducing, PushLock, TermBegin, TermFlag, TermNotify, TermClear
    <2>2. LastOffered(d) = count[t] - 1
      BY <2>1 DEF LastOffered, Offered
    <2>3. LastOffered(d)' \in {count[t] - 1, count[t]}
      BY <2>1 DEF LastOffered
    <2> QED BY <1>0, <1>1, <1>2, <2>1, <2>2, <2>3
  <1> QED BY <1>5, <1>6, <1>7, <1>8

LEMMA FeedOwn ==
    ASSUME Inv, NEW t \in Feeders, Feed(t), NEW d \in Consumers, Feeder(In[d]) = t
    PROVE  SubscriptionInv(d)'
  <1>1. t \in Threads /\ d \in Threads /\ d # t
    BY WhoIsWho
  <1>2. /\ pc \in [Threads -> Places]
        /\ queue \in [Consumers -> Seq(Nat)] /\ queue[d] \in Seq(Nat)
        /\ terminated \in [Consumers -> BOOLEAN]
    BY DEF Inv, TypeOK
  <1>3. /\ \A l \in {"recheck", "read"} : pc'[d] = l <=> pc[d] = l
        /\ Ended(d)' <=> Ended(d)
    BY <1>1, FeedFrame DEF Ended
  <1>4. SubscriptionInv(d)
    BY DEF Inv
  <1>5. /\ terminated[d] => terminated'[d] /\ queue'[d] = queue[d]
        /\ queue[d] # << >> => queue'[d] # << >>
        /\ terminated'[d] => pc'[t] \in {"flag", "wakeup", "done"}
    <2>1. todo[t] # << >> => Head(todo[t]) \in Consumers /\ Head(todo[t]) # t
      BY VisitedIsOwn, WhoIsWho
    <2>2. pc[t] \in {"notify", "wakeup"} => todo[t] # << >>
      BY DEF Inv, WalksAreOwn
    <2>3. terminated[d] => pc[t] \in {"flag", "wakeup", "done"}
      BY <1>4 DEF SubscriptionInv
    <2> USE <1>1, <1>2, <2>1, <2>2, <2>3 DEF Goto, shared, history
    <2>4. CASE BeginProducing(t) \/ PushLock(t) \/ PushUnlock(t)
      BY <2>4 DEF BeginProducing, PushLock, PushUnlock
    <2>5. CASE PushWrite(t)
      <3>1. ~ terminated[d] /\ terminated' = terminated
        BY <2>5 DEF PushWrite
      <3>2. queue'[d] = queue[d] \/ queue'[d] = Append(queue[d], count[t])
        BY <2>5 DEF PushWrite
      <3>3. count[t] \in Nat
        BY DEF Inv, TypeOK
      <3>4. Append(queue[d], count[t]) # << >>
        BY <3>3, AppendNotEmpty
      <3> QED BY <3>1, <3>2, <3>4
    <2>6. CASE PushNotify(t)
      BY <2>6 DEF PushNotify
    <2>7. CASE TermBegin(t) \/ TermFlag(t) \/ TermClear(t)
      BY <2>7 DEF TermBegin, TermFlag, TermClear
    <2>8. CASE TermNotify(t)
      BY <2>8 DEF TermNotify, Notify
    <2> QED BY <2>4, <2>5, <2>6, <2>7, <2>8 DEF Feed
  <1> QED BY <1>3, <1>4, <1>5, FeedOffered DEF SubscriptionInv

LEMMA MainSub ==
    ASSUME Inv, Main, NEW d \in Consumers
    PROVE  SubscriptionInv(d)'
  <1>1. SubscriptionInv(d) /\ Feeder(In[d]) \in Threads /\ d \in Threads
    BY WhoIsWho DEF Inv
  <1>2. pc' = pc /\ count' = count /\ todo' = todo /\ queue' = queue /\ refused' = refused
    BY DEF Main, StartProducing, MainReturn, shared, history
  <1>3. LastOffered(d)' = LastOffered(d)
    BY <1>2 DEF LastOffered, Offered, At
  <1>4. /\ terminated[d] => terminated'[d]
        /\ terminated'[d] => terminated[d] \/ pc[Feeder(In[d])] = "done"
    BY <1>1 DEF Main, StartProducing, MainReturn, shared
  <1> QED BY <1>1, <1>2, <1>3, <1>4 DEF SubscriptionInv, Ended

(***************************************************************************)
(* The walks and the producer's counter.                                   *)
(***************************************************************************)
LEMMA ConsumeWalks ==
    ASSUME Inv, NEW c \in Consumers, Consume(c) \/ Spurious(c)
    PROVE  WalksAreOwn'
  <1>1. /\ subs \in [Streams -> Seq(Consumers)] /\ c \in Threads
        /\ In[c] \in Streams /\ subs[In[c]] \in Seq(Consumers)
        /\ \A f \in Feeders : f \in Threads
        /\ Consumers \subseteq Threads
        /\ pc \in [Threads -> Places]
        /\ WalksAreOwn
    BY WhoIsWho DEF Inv, TypeOK
  <1>2. \A d \in Consumers : pc[d] # "start" => pc'[d] # "start"
    <2>1. pc[c] # "start" => pc'[c] # "start"
      BY <1>1 DEF Consume, Subscribe, NextCheck, LoopCheck, LoopTest, Wait, Spurious, Recheck, Read,
                  AfterLoop, Goto
    <2> QED BY <1>1, <2>1, ConsumeFrame
  <1>3. CASE subs' = subs
    <2>1. \A s \in Streams : \A i \in DOMAIN subs[s] : subs[s][i] \in Consumers
      BY <1>1
    <2>2. /\ \A f \in Feeders : pc'[f] \in {"notify", "wakeup"} => pc'[f] = pc[f]
          /\ todo' = todo
      BY <1>1, ConsumeFrame
    <2> QED BY <1>1, <1>2, <1>3, <2>1, <2>2 DEF WalksAreOwn
  <1>4. CASE subs' # subs
    <2>1. /\ subs' = [subs EXCEPT ![In[c]] = Append(subs[In[c]], c)]
          /\ pc[c] = "start" /\ pc'[c] = "next"
      BY <1>1, <1>4 DEF Consume, Subscribe, NextCheck, LoopCheck, LoopTest, Wait, Spurious, Recheck,
                        Read, Goto, shared
    <2>2. ASSUME NEW s \in Streams, NEW i \in DOMAIN subs'[s]
          PROVE  /\ In[subs'[s][i]] = s /\ pc'[subs'[s][i]] # "start"
                 /\ \A j \in DOMAIN subs'[s] : subs'[s][i] = subs'[s][j] => i = j
      <3>1. \A j \in DOMAIN subs[s] : subs[s][j] \in Consumers
        BY <1>1
      <3>2. CASE s # In[c]
        <4>1. subs'[s] = subs[s]
          BY <1>1, <2>1, <3>2
        <4> QED BY <1>1, <1>2, <2>2, <3>1, <4>1 DEF WalksAreOwn
      <3>3. CASE s = In[c]
        <4>1. subs'[s] = Append(subs[s], c) /\ subs[s] \in Seq(Consumers)
          BY <1>1, <2>1, <3>3
        <4>2. \A j \in DOMAIN subs[s] :
                 /\ In[subs[s][j]] = s /\ pc[subs[s][j]] # "start" /\ pc'[subs[s][j]] # "start"
                 /\ subs[s][j] # c
          BY <1>1, <1>2, <2>1, <3>1 DEF WalksAreOwn
        <4>3. DOMAIN subs'[s] = 1 .. Len(subs[s]) + 1 /\ DOMAIN subs[s] = 1 .. Len(subs[s])
          BY <4>1
        <4>4. /\ \A j \in DOMAIN subs[s] : subs'[s][j] = subs[s][j]
              /\ subs'[s][Len(subs[s]) + 1] = c
              /\ Len(subs[s]) \in Nat
          BY <4>1
        <4>5. \A j \in DOMAIN subs'[s] : j \in DOMAIN subs[s] \/ j = Len(subs[s]) + 1
          BY <4>3, <4>4
        <4>6. \A j, k \in DOMAIN subs[s] : subs[s][j] = subs[s][k] => j = k
          BY <1>1 DEF WalksAreOwn
        <4> QED BY <2>1, <2>2, <3>3, <4>2, <4>4, <4>5, <4>6
      <3> QED BY <3>2, <3>3
    <2>3. /\ \A f \in Feeders : pc'[f] \in {"notify", "wakeup"} => pc'[f] = pc[f]
          /\ todo' = todo
      BY <1>1, ConsumeFrame
    <2> QED BY <1>1, <2>2, <2>3 DEF WalksAreOwn
  <1> QED BY <1>3, <1>4

\* A walk of feeder f over the sequence w of subscriptions.
Walk(f, w) ==
    \A i \in DOMAIN w : /\ In[w[i]] = Out[f]
                        /\ \A j \in DOMAIN w : w[i] = w[j] => i = j

LEMMA FeedWalks ==
    ASSUME Inv, NEW t \in Feeders, Feed(t)
    PROVE  WalksAreOwn'
  <1>1. /\ subs \in [Streams -> Seq(Consumers)]
        /\ todo \in [Feeders -> Seq(Consumers)] /\ todo[t] \in Seq(Consumers)
        /\ pc \in [Threads -> Places] /\ t \in Threads
        /\ Out[t] \in Streams
        /\ \A f \in Feeders : f \in Threads
        /\ Consumers \subseteq Threads
        /\ WalksAreOwn
    BY WhoIsWho, FeederOfStream DEF Inv, TypeOK
  <1>2. \A s \in Streams : subs'[s] = subs[s] \/ subs'[s] = << >>
    BY <1>1 DEF Feed, BeginProducing, PushLock, PushWrite, PushNotify, PushUnlock,
                TermBegin, TermFlag, TermNotify, TermClear, shared
  <1>3. \A d \in Consumers : pc[d] # "start" => pc'[d] # "start"
    BY <1>1, FeedFrame
  <1>4. ASSUME NEW s \in Streams, NEW i \in DOMAIN subs'[s]
        PROVE  /\ In[subs'[s][i]] = s /\ pc'[subs'[s][i]] # "start"
               /\ \A j \in DOMAIN subs'[s] : subs'[s][i] = subs'[s][j] => i = j
    <2>1. CASE subs'[s] = << >>
      BY <1>4, <2>1
    <2>2. CASE subs'[s] = subs[s]
      <3>1. subs[s][i] \in Consumers
        BY <1>1, <1>4, <2>2
      <3> QED BY <1>1, <1>3, <1>4, <2>2, <3>1 DEF WalksAreOwn
    <2> QED BY <1>2, <2>1, <2>2
  <1>5. \/ todo'[t] = todo[t]
        \/ todo'[t] = subs[Out[t]]
        \/ todo[t] # << >> /\ todo'[t] = Tail(todo[t])
    BY <1>1 DEF Feed, BeginProducing, PushLock, PushWrite, PushNotify, PushUnlock,
                TermBegin, TermFlag, TermNotify, TermClear, shared, WalksAreOwn
  <1>6. Walk(t, todo'[t])
    <2>1. Walk(t, todo[t]) /\ Walk(t, subs[Out[t]])
      BY <1>1 DEF WalksAreOwn, Walk
    <2>2. CASE todo[t] # << >> /\ todo'[t] = Tail(todo[t])
      <3>1. \A i \in DOMAIN Tail(todo[t]) :
               /\ i + 1 \in DOMAIN todo[t] /\ Tail(todo[t])[i] = todo[t][i + 1] /\ i \in Nat
        BY <1>1, <2>2, HeadAndTail
      <3>2. \A i, j \in Nat : i + 1 = j + 1 => i = j
        OBVIOUS
      <3> QED BY <2>1, <2>2, <3>1, <3>2 DEF Walk
    <2> QED BY <1>5, <2>1, <2>2
  <1>7. pc'[t] \in {"notify", "wakeup"} => todo[t] # << >> /\ todo'[t] = todo[t]
    <2>1. todo[t] # << >> => Head(todo[t]) # t
      BY VisitedIsOwn, WhoIsWho
    <2>2. pc[t] \in {"notify", "wakeup"} => todo[t] # << >>
      BY <1>1 DEF WalksAreOwn
    <2> QED BY <1>1, <2>1, <2>2 DEF Feed, BeginProducing, PushLock, PushWrite, PushNotify, PushUnlock,
                TermBegin, TermFlag, TermNotify, TermClear, shared, Goto, Notify
  <1>8. \A f \in Feeders : f # t => todo'[f] = todo[f] /\ (pc'[f] = pc[f] \/ pc'[f] = "loop")
    BY <1>1, FeedFrame
  <1>9. ASSUME NEW f \in Feeders
        PROVE  /\ Walk(f, todo'[f])
               /\ pc'[f] \in {"notify", "wakeup"} => todo'[f] # << >>
    <2>1. CASE f = t
      BY <1>6, <1>7, <2>1
    <2>2. CASE f # t
      <3>1. todo'[f] = todo[f] /\ (pc'[f] \in {"notify", "wakeup"} => pc'[f] = pc[f])
        BY <1>8, <2>2
      <3>2. Walk(f, todo[f])
        BY <1>1 DEF WalksAreOwn, Walk
      <3>3. pc[f] \in {"notify", "wakeup"} => todo[f] # << >>
        BY <1>1 DEF WalksAreOwn
      <3> QED BY <3>1, <3>2, <3>3
    <2> QED BY <2>1, <2>2
  <1> QED BY <1>4, <1>9 DEF WalksAreOwn, Walk

LEMMA MainWalks ==
    ASSUME Inv, Main
    PROVE  WalksAreOwn'
  BY DEF Main, StartProducing, MainReturn, Inv, WalksAreOwn, shared, history

LEMMA StepProducer ==
    ASSUME Inv, [Next]_vars
    PROVE  ProducerInLoop'
  <1>1. /\ pc \in [Threads -> Places] /\ Producer \in Threads /\ Producer \in Feeders
        /\ count \in [Feeders -> Nat \ {0}] /\ N \in Nat
        /\ ProducerInLoop
    BY WhoIsWho DEF Inv, TypeOK
  <1>2. ASSUME NEW c \in Consumers, Consume(c) \/ Spurious(c)
        PROVE  ProducerInLoop'
    BY <1>1, <1>2, WhoIsWho, ConsumeFrame DEF ProducerInLoop
  <1>3. ASSUME NEW t \in Feeders, Feed(t)
        PROVE  ProducerInLoop'
    <2>1. CASE t # Producer
      BY <1>1, <1>3, <2>1, FeedFrame DEF ProducerInLoop
    <2>2. CASE t = Producer
      <3>1. todo[t] # << >> => Head(todo[t]) # t
        BY <2>2, VisitedIsOwn, WhoIsWho
      <3>2. pc[t] \in {"notify", "wakeup"} => todo[t] # << >>
        BY DEF Inv, WalksAreOwn
      <3> QED BY <1>1, <1>3, <2>2, <3>1, <3>2 DEF ProducerInLoop, Feed, BeginProducing, PushLock,
           PushWrite, PushNotify, PushUnlock, TermBegin, TermFlag, TermNotify, TermClear,
           shared, Goto, Notify
    <2> QED BY <2>1, <2>2
  <1>4. CASE Main
    BY <1>1, <1>4 DEF Main, StartProducing, MainReturn, ProducerInLoop
  <1>5. CASE UNCHANGED vars
    BY <1>1, <1>5 DEF ProducerInLoop, vars
  <1> QED BY <1>2, <1>3, <1>4, <1>5 DEF Next, Step, WakeUp

(***************************************************************************)
(* The theorems.                                                           *)
(***************************************************************************)
LEMMA StepInv == Inv /\ [Next]_vars => Inv'
  <1> SUFFICES ASSUME Inv, [Next]_vars PROVE Inv'
    OBVIOUS
  <1>1. ProducerInLoop'
    BY StepProducer
  <1>2. ASSUME NEW c \in Consumers, Consume(c) \/ Spurious(c) PROVE Inv'
    <2>1. \A d \in Consumers : SubscriptionInv(d)'
      BY <1>2, ConsumeOwn, ConsumeOther
    <2> QED BY <1>1, <1>2, <2>1, ConsumeTypes, ConsumeWalks DEF Inv
  <1>3. ASSUME NEW t \in Feeders, Feed(t) PROVE Inv'
    <2>1. \A d \in Consumers : SubscriptionInv(d)'
      BY <1>3, FeedOwn, FeedOther
    <2> QED BY <1>1, <1>3, <2>1, FeedTypes, FeedWalks DEF Inv
  <1>4. CASE Main
    BY <1>1, <1>4, MainTypes, MainWalks, MainSub DEF Inv
  <1>5. CASE UNCHANGED vars
    <2>1. TypeOK' /\ WalksAreOwn'
      BY <1>5 DEF vars, shared, history, Inv, TypeOK, WalksAreOwn
    <2>2. \A d \in Consumers : SubscriptionInv(d)'
      BY <1>5 DEF vars, shared, history, Inv, SubscriptionInv, At, Ended, Offered, LastOffered
    <2> QED BY <1>1, <2>1, <2>2 DEF Inv
  <1> QED BY <1>2, <1>3, <1>4, <1>5 DEF Next, Step, WakeUp

\* The inductive invariant holds in every run: the types, the walks of the feeders,
\* and what each subscription's queue may hold at which place of its consumer.
THEOREM Invariance == Safety => []Inv
  BY InitInv, StepInv, PTL DEF Safety

\* TypeOK for every wiring and capacity.
THEOREM TypeCorrect == Safety => []TypeOK
  <1>1. Inv => TypeOK
    BY DEF Inv
  <1> QED BY <1>1, Invariance, PTL

\* The read() of lfqstream.h:42, whose result is ignored, always succeeds.
THEOREM ReadSucceeds == Safety => []ReadNeverFails
  <1>1. Inv => ReadNeverFails
    BY DEF Inv, SubscriptionInv, ReadNeverFails
  <1> QED BY <1>1, Invariance, PTL

\* nullopt comes after the termination and after the last frame in the queue.
THEOREM DrainedBeforeEnd == Safety => []EndsDrained
  <1>1. Inv => EndsDrained
    BY DEF Inv, SubscriptionInv, EndsDrained
  <1> QED BY <1>1, Invariance, PTL

\* The ignored result of write() drops none of the first Capacity frames of a stream.
THEOREM NoEarlyDrop == Safety => []FirstFramesFit
  <1>1. Inv => FirstFramesFit
    BY DEF Inv, SubscriptionInv, FirstFramesFit
  <1> QED BY <1>1, Invariance, PTL

(***************************************************************************)
(* The account of the frames.                                              *)
(***************************************************************************)
\* What EveryFrameAccounted says of one subscription.
Account(seen, ref, first, last) ==
    /\ \A i, j \in DOMAIN seen : i < j => seen[i] < seen[j]
    /\ {seen[i] : i \in DOMAIN seen} \cap ref = {}
    /\ {seen[i] : i \in DOMAIN seen} \cup ref = first .. last

\* The feeder of d has been at d in its walk, or d is not part of the walk.
Past(d) == \A i \in DOMAIN todo[Feeder(In[d])] : todo[Feeder(In[d])][i] # d

\* The account of c with what keeps it: c stays in m_subs until its feeder is done, no
\* walk comes to it before it has subscribed, and it subscribes between two walks.
AccountOf(c) ==
    /\ pc[c] # "start" /\ pc[Feeder(In[c])] # "done" => Subscribed(c)
    /\ pc[c] = "start" => got[c] = << >> /\ queue[c] = << >> /\ refused[c] = {} /\ Past(c)
    /\ pc[c] # "start" => /\ Account(got[c] \o queue[c], refused[c], joined[c], LastOffered(c))
                          /\ joined[c] <= LastOffered(c) + 1
    /\ pc[Feeder(In[c])] \in {"visit", "notify"} => sMutex[In[c]]

LEMMA AppendKeeps ==
    ASSUME NEW S, NEW s \in Seq(S), NEW e \in S
    PROVE  /\ \A i \in DOMAIN s : i \in DOMAIN Append(s, e) /\ Append(s, e)[i] = s[i]
           /\ Len(s) + 1 \in DOMAIN Append(s, e) /\ Append(s, e)[Len(s) + 1] = e
           /\ \A i \in DOMAIN Append(s, e) : i \in DOMAIN s \/ i = Len(s) + 1
  OBVIOUS

LEMMA AppendBehind ==
    \A r, s \in Seq(Nat) : \A e \in Nat : r \o Append(s, e) = Append(r \o s, e)
  OBVIOUS

LEMMA MoveHead ==
    ASSUME NEW S, NEW s \in Seq(S), NEW t \in Seq(S), t # << >>
    PROVE  Append(s, Head(t)) \o Tail(t) = s \o t
  OBVIOUS

\* One more frame has gone into the queue.
LEMMA AccountGrows ==
    ASSUME NEW seen \in Seq(Nat), NEW ref, NEW e \in Nat, NEW a \in Nat, a <= e,
           Account(seen, ref, a, e - 1)
    PROVE  Account(Append(seen, e), ref, a, e)
  <1> DEFINE more == Append(seen, e)
             ids  == {seen[i] : i \in DOMAIN seen}
  <1>1. /\ \A i \in DOMAIN more :
              \/ i = Len(seen) + 1 /\ more[i] = e
              \/ i \in DOMAIN seen /\ more[i] = seen[i] /\ i < Len(seen) + 1
        /\ \A i \in DOMAIN seen : i \in DOMAIN more /\ more[i] = seen[i]
        /\ Len(seen) + 1 \in DOMAIN more /\ more[Len(seen) + 1] = e
        /\ Len(seen) \in Nat
    <2>1. \A i \in DOMAIN seen : i < Len(seen) + 1
      OBVIOUS
    <2> QED BY <2>1, AppendKeeps
  <1>2. ids \cap ref = {} /\ ids \cup ref = a .. e - 1
    BY DEF Account
  <1> HIDE DEF more
  <1>3. \A i \in DOMAIN seen : seen[i] \in a .. e - 1
    BY <1>2
  <1>4. {more[i] : i \in DOMAIN more} = ids \cup {e}
    BY <1>1
  <1>5. e \notin ref /\ a .. e = (a .. e - 1) \cup {e}
    <2>1. e \notin a .. e - 1 /\ a .. e = (a .. e - 1) \cup {e}
      OBVIOUS
    <2> QED BY <1>2, <2>1
  <1>6. ASSUME NEW i \in DOMAIN more, NEW j \in DOMAIN more, i < j
        PROVE  more[i] < more[j]
    <2>1. i \in DOMAIN seen /\ more[i] = seen[i]
      <3>1. i \in DOMAIN seen => i \in Nat
        OBVIOUS
      <3>2. j \in DOMAIN seen => j \in Nat
        OBVIOUS
      <3> QED BY <1>1, <1>6, <3>1, <3>2
    <2>2. CASE j \in DOMAIN seen /\ more[j] = seen[j]
      BY <1>6, <2>1, <2>2 DEF Account
    <2>3. CASE more[j] = e
      BY <1>3, <2>1, <2>3
    <2> QED BY <1>1, <2>2, <2>3
  <1>7. {more[i] : i \in DOMAIN more} \cap ref = {}
    BY <1>2, <1>4, <1>5
  <1>8. {more[i] : i \in DOMAIN more} \cup ref = a .. e
    BY <1>2, <1>4, <1>5
  <1> QED BY <1>6, <1>7, <1>8 DEF Account, more

\* One more frame has been refused.
LEMMA AccountRefused ==
    ASSUME NEW seen \in Seq(Nat), NEW ref, NEW e \in Nat, NEW a \in Nat, a <= e,
           Account(seen, ref, a, e - 1)
    PROVE  Account(seen, ref \cup {e}, a, e)
  <1> DEFINE ids == {seen[i] : i \in DOMAIN seen}
  <1>1. ids \cap ref = {} /\ ids \cup ref = a .. e - 1
    BY DEF Account
  <1>2. e \notin a .. e - 1 /\ a .. e = (a .. e - 1) \cup {e}
    OBVIOUS
  <1> HIDE DEF ids
  <1>3. ids \cap (ref \cup {e}) = {} /\ ids \cup (ref \cup {e}) = a .. e
    BY <1>1, <1>2
  <1> QED BY <1>3 DEF Account, ids

\* A consumer that joins between two frames has an account of nothing.
LEMMA AccountOpens ==
    ASSUME NEW e \in Nat
    PROVE  Account(<< >> \o << >>, {}, e, e - 1)
  <1>1. << >> \o << >> = << >> /\ e .. e - 1 = {}
    OBVIOUS
  <1> QED BY <1>1 DEF Account

\* Nothing of the account changes.
LEMMA AccountStands ==
    ASSUME NEW d \in Consumers, AccountOf(d),
           pc[d] = "start" <=> pc'[d] = "start",
           pc'[Feeder(In[d])] = "done" \/ ~ Subscribed(d) \/ Subscribed(d)',
           pc[Feeder(In[d])] = "done" => pc'[Feeder(In[d])] = "done",
           pc'[d] = "start" => Past(d)',
           pc'[Feeder(In[d])] \in {"visit", "notify"} => sMutex'[In[d]],
           \/ got'[d] = got[d] /\ queue'[d] = queue[d]
           \/ pc[d] # "start" /\ got'[d] \o queue'[d] = got[d] \o queue[d],
           refused'[d] = refused[d], joined'[d] = joined[d],
           LastOffered(d)' = LastOffered(d)
    PROVE  AccountOf(d)'
  <1>1. got'[d] \o queue'[d] = got[d] \o queue[d]
    OBVIOUS
  <1>2. pc'[d] # "start" /\ pc'[Feeder(In[d])] # "done" => Subscribed(d)'
    BY DEF AccountOf
  <1>3. pc'[d] = "start" =>
           got'[d] = << >> /\ queue'[d] = << >> /\ refused'[d] = {} /\ Past(d)'
    BY DEF AccountOf
  <1>4. pc'[d] # "start" =>
           /\ Account(got'[d] \o queue'[d], refused'[d], joined'[d], LastOffered(d)')
           /\ joined'[d] <= LastOffered(d)' + 1
    BY <1>1 DEF AccountOf
  <1> QED BY <1>2, <1>3, <1>4 DEF AccountOf

LEMMA ConsumeAccount ==
    ASSUME Inv, NEW c \in Consumers, Consume(c) \/ Spurious(c), NEW d \in Consumers, AccountOf(d)
    PROVE  AccountOf(d)'
  <1> DEFINE f == Feeder(In[d])
  <1>1. /\ f \in Threads /\ f \in Feeders /\ c \in Threads /\ d \in Threads /\ f # d
        /\ In[c] \in Streams /\ In[d] \in Streams
        /\ pc \in [Threads -> Places]
        /\ subs \in [Streams -> Seq(Consumers)] /\ subs[In[d]] \in Seq(Consumers)
        /\ queue \in [Consumers -> Seq(Nat)] /\ got \in [Consumers -> Seq(Nat)]
        /\ joined \in [Consumers -> Nat]
        /\ count \in [Feeders -> Nat \ {0}] /\ count[f] \in Nat
    BY WhoIsWho DEF Inv, TypeOK
  <1>2. /\ todo' = todo /\ count' = count /\ refused' = refused
        /\ \A l \in {"visit", "notify", "done"} : pc[f] = l => pc'[f] = l
        /\ \A l \in {"visit", "notify"} : pc'[f] = l => pc[f] = l
        /\ LastOffered(d)' = LastOffered(d)
    BY <1>1, ConsumeFrame, ConsumeOffered
  <1>3. sMutex' = sMutex
    BY DEF Consume, Subscribe, NextCheck, LoopCheck, LoopTest, Wait, Spurious, Recheck, Read, shared
  <1>4. Past(d)' <=> Past(d)
    BY <1>2 DEF Past
  <1>5. Subscribed(d) => Subscribed(d)'
    <2>1. CASE subs'[In[d]] = subs[In[d]]
      BY <2>1 DEF Subscribed
    <2>2. CASE subs'[In[d]] # subs[In[d]]
      <3>1. subs'[In[d]] = Append(subs[In[d]], c)
        BY <1>1, <2>2 DEF Consume, Subscribe, NextCheck, LoopCheck, LoopTest, Wait, Spurious,
                          Recheck, Read, shared
      <3>2. \A i \in DOMAIN subs[In[d]] :
               i \in DOMAIN subs'[In[d]] /\ subs'[In[d]][i] = subs[In[d]][i]
        BY <1>1, <3>1, AppendKeeps
      <3> QED BY <3>2 DEF Subscribed
    <2> QED BY <2>1, <2>2
  <1>6. pc'[f] \in {"visit", "notify"} => sMutex'[In[d]]
    BY <1>2, <1>3 DEF AccountOf
  <1>7. CASE d # c
    <2>1. pc'[d] = pc[d] /\ queue'[d] = queue[d]
      BY <1>1, <1>7, ConsumeFrame
    <2>2. got'[d] = got[d] /\ joined'[d] = joined[d]
      BY <1>1, <1>7 DEF Consume, Subscribe, NextCheck, LoopCheck, LoopTest, Wait, Spurious,
                        Recheck, Read, shared, history
    <2>3. pc'[d] = "start" => Past(d)'
      BY <1>4, <2>1 DEF AccountOf
    <2> HIDE DEF f
    <2> QED BY <1>2, <1>5, <1>6, <2>1, <2>2, <2>3, AccountStands DEF f
  <1>8. CASE d = c /\ Subscribe(c) /\ pc' # pc
    <2>1. /\ pc[d] = "start" /\ pc'[d] = "next" /\ ~ sMutex[In[d]]
          /\ subs'[In[d]] = Append(subs[In[d]], d)
          /\ joined'[d] = count[f]
          /\ got'[d] = << >> /\ queue'[d] = << >> /\ refused'[d] = {}
      BY <1>1, <1>8 DEF Subscribe, Goto, AccountOf
    <2>2. Subscribed(d)'
      <3>1. Len(subs[In[d]]) + 1 \in DOMAIN subs'[In[d]] /\ subs'[In[d]][Len(subs[In[d]]) + 1] = d
        BY <1>1, <2>1, AppendKeeps
      <3> QED BY <3>1 DEF Subscribed
    <2>3. LastOffered(d) = count[f] - 1
      <3>1. pc[f] \notin {"visit", "notify"}
        BY <2>1 DEF AccountOf
      <3> QED BY <3>1 DEF LastOffered, Offered
    <2>4. Account(got'[d] \o queue'[d], refused'[d], joined'[d], LastOffered(d)')
      BY <1>1, <1>2, <2>1, <2>3, AccountOpens
    <2>5. joined'[d] <= LastOffered(d)' + 1
      BY <1>1, <1>2, <2>1, <2>3
    <2> HIDE DEF f
    <2> QED BY <1>6, <2>1, <2>2, <2>4, <2>5 DEF AccountOf, f
  <1>9. CASE d = c /\ ~ (Subscribe(c) /\ pc' # pc)
    <2>1. /\ pc[d] = "start" <=> pc'[d] = "start"
          /\ joined'[d] = joined[d]
      BY <1>1, <1>9 DEF Consume, Subscribe, NextCheck, LoopCheck, LoopTest, Wait, Spurious, Recheck,
                        Read, Goto, AfterLoop, shared, history
    <2>2. pc'[d] = "start" => Past(d)'
      BY <1>4, <2>1 DEF AccountOf
    <2>3. \/ got'[d] = got[d] /\ queue'[d] = queue[d]
          \/ pc[d] # "start" /\ got'[d] \o queue'[d] = got[d] \o queue[d]
      <3>1. CASE Read(c)
        <4>1. queue[d] # << >>
          BY <1>9, <3>1 DEF Read, Inv, SubscriptionInv
        <4>2. /\ pc[d] # "start"
              /\ got'[d] = Append(got[d], Head(queue[d])) /\ queue'[d] = Tail(queue[d])
          BY <1>1, <1>9, <3>1, <4>1 DEF Read
        <4>3. got[d] \in Seq(Nat) /\ queue[d] \in Seq(Nat)
          BY <1>1
        <4> QED BY <4>1, <4>2, <4>3, MoveHead
      <3>2. CASE ~ Read(c)
        BY <1>9, <3>2 DEF Consume, Subscribe, NextCheck, LoopCheck, LoopTest, Wait, Spurious,
                          Recheck, shared, history
      <3> QED BY <3>1, <3>2
    <2> HIDE DEF f
    <2> QED BY <1>2, <1>5, <1>6, <2>1, <2>2, <2>3, AccountStands DEF f
  <1> QED BY <1>7, <1>8, <1>9

LEMMA FeedAccountOther ==
    ASSUME Inv, NEW t \in Feeders, Feed(t), NEW d \in Consumers, Feeder(In[d]) # t, AccountOf(d)
    PROVE  AccountOf(d)'
  <1> DEFINE f == Feeder(In[d])
  <1>1. /\ f \in Threads /\ f \in Feeders /\ t \in Threads /\ d \in Threads
        /\ In[d] \in Streams /\ Out[t] \in Streams /\ Out[t] # In[d]
        /\ subs \in [Streams -> Seq(Consumers)] /\ sMutex \in [Streams -> BOOLEAN]
    BY WhoIsWho, FeederOfStream DEF Inv, TypeOK
  <1>2. /\ queue'[d] = queue[d] /\ got' = got /\ refused'[d] = refused[d]
        /\ todo'[f] = todo[f] /\ count'[f] = count[f]
        /\ pc'[f] = pc[f] \/ (pc[f] = "wait" /\ pc'[f] = "loop")
    BY <1>1, FeedFrame
  <1>3. pc[d] = "start" <=> pc'[d] = "start"
    <2>1. CASE d # t
      BY <1>1, <2>1, FeedFrame
    <2>2. CASE d = t
      <3>1. d # Producer
        BY WhoIsWho
      <3>2. todo[t] # << >> => Head(todo[t]) # t
        BY VisitedIsOwn, WhoIsWho
      <3>3. pc[t] \in {"notify", "wakeup"} => todo[t] # << >>
        BY DEF Inv, WalksAreOwn
      <3>4. pc[t] # "start"
        BY <2>2, <3>1, <3>3 DEF Feed, BeginProducing, PushLock, PushWrite, PushNotify, PushUnlock,
                           TermBegin, TermFlag, TermNotify, TermClear
      <3> QED BY <1>1, <2>2, <3>4, FeedFrame
    <2> QED BY <2>1, <2>2
  <1>4. subs'[In[d]] = subs[In[d]] /\ sMutex'[In[d]] = sMutex[In[d]] /\ joined' = joined
    BY <1>1 DEF Feed, BeginProducing, PushLock, PushWrite, PushNotify, PushUnlock,
                TermBegin, TermFlag, TermNotify, TermClear, shared, history
  <1> HIDE DEF f
  <1>5. LastOffered(d)' = LastOffered(d)
    <2>1. Offered(d)' <=> Offered(d)
      BY <1>2 DEF Offered, At, f
    <2> QED BY <1>2, <2>1 DEF LastOffered, f
  <1>6. /\ Past(d)' <=> Past(d)
        /\ Subscribed(d)' <=> Subscribed(d)
    BY <1>2, <1>4 DEF Past, Subscribed, f
  <1>7. pc'[d] = "start" => Past(d)'
    BY <1>3, <1>6 DEF AccountOf
  <1>8. pc'[f] \in {"visit", "notify"} => sMutex'[In[d]]
    BY <1>2, <1>4 DEF AccountOf, f
  <1> QED BY <1>2, <1>3, <1>4, <1>5, <1>6, <1>7, <1>8, AccountStands DEF f

LEMMA MainAccount ==
    ASSUME Inv, Main \/ UNCHANGED vars, NEW d \in Consumers, AccountOf(d)
    PROVE  AccountOf(d)'
  <1>1. /\ pc' = pc /\ count' = count /\ todo' = todo /\ queue' = queue /\ got' = got
        /\ refused' = refused /\ joined' = joined /\ sMutex' = sMutex
        /\ subs' = subs \/ \A t \in Threads : pc[t] = "done"
    BY DEF Main, StartProducing, MainReturn, vars, shared, history
  <1>2. LastOffered(d)' = LastOffered(d)
    BY <1>1 DEF LastOffered, Offered, At
  <1>3. /\ Past(d)' <=> Past(d)
        /\ Subscribed(d) => Subscribed(d)' \/ pc'[Feeder(In[d])] = "done"
    BY <1>1, WhoIsWho DEF Past, Subscribed
  <1>4. /\ pc'[d] = "start" => Past(d)'
        /\ pc'[Feeder(In[d])] \in {"visit", "notify"} => sMutex'[In[d]]
    BY <1>1, <1>3 DEF AccountOf
  <1> QED BY <1>1, <1>2, <1>3, <1>4, AccountStands

LEMMA FeedAccountOwn ==
    ASSUME Inv, NEW t \in Feeders, Feed(t), NEW d \in Consumers, Feeder(In[d]) = t, AccountOf(d)
    PROVE  AccountOf(d)'
  <1>1. /\ t \in Threads /\ d \in Threads /\ d # t
        /\ Out[t] = In[d] /\ In[d] \in Streams
        /\ pc \in [Threads -> Places]
        /\ todo \in [Feeders -> Seq(Consumers)] /\ todo[t] \in Seq(Consumers)
        /\ subs \in [Streams -> Seq(Consumers)]
        /\ sMutex \in [Streams -> BOOLEAN]
        /\ count \in [Feeders -> Nat \ {0}] /\ count[t] \in Nat \ {0}
        /\ queue \in [Consumers -> Seq(Nat)] /\ queue[d] \in Seq(Nat)
        /\ got[d] \in Seq(Nat) /\ joined[d] \in Nat
        /\ refused \in [Consumers -> SUBSET Nat]
    BY WhoIsWho DEF Inv, TypeOK
  <1>2. got' = got /\ joined' = joined
    BY DEF Feed, BeginProducing, PushLock, PushWrite, PushNotify, PushUnlock,
           TermBegin, TermFlag, TermNotify, TermClear, history
  <1>3. /\ pc[t] \in {"notify", "wakeup"} => todo[t] # << >>
        /\ \A i, j \in DOMAIN todo[t] : todo[t][i] = todo[t][j] => i = j
    BY DEF Inv, WalksAreOwn
  <1>4. pc[d] = "start" <=> pc'[d] = "start"
    BY <1>1, FeedFrame
  <1>5. todo[t] # << >> => /\ Head(todo[t]) \in Consumers /\ Head(todo[t]) # t
                           /\ 1 \in DOMAIN todo[t] /\ Head(todo[t]) = todo[t][1]
                           /\ \A i \in DOMAIN Tail(todo[t]) :
                                 /\ i + 1 \in DOMAIN todo[t] /\ i + 1 # 1
                                 /\ Tail(todo[t])[i] = todo[t][i + 1]
                           /\ \A i \in DOMAIN todo[t] :
                                 i = 1 \/ (i - 1 \in DOMAIN Tail(todo[t])
                                           /\ Tail(todo[t])[i - 1] = todo[t][i])
    <2>1. ASSUME todo[t] # << >>, NEW i \in DOMAIN Tail(todo[t])
          PROVE  i + 1 # 1
      BY <1>1, <2>1
    <2>2. ASSUME todo[t] # << >>, NEW i \in DOMAIN todo[t], i # 1
          PROVE  i - 1 \in DOMAIN Tail(todo[t]) /\ Tail(todo[t])[i - 1] = todo[t][i]
      <3>1. /\ Len(Tail(todo[t])) = Len(todo[t]) - 1 /\ Len(todo[t]) \in Nat
            /\ DOMAIN todo[t] = 1 .. Len(todo[t])
            /\ DOMAIN Tail(todo[t]) = 1 .. Len(todo[t]) - 1
            /\ \A j \in 1 .. Len(todo[t]) - 1 : Tail(todo[t])[j] = todo[t][j + 1]
        BY <1>1, <2>2
      <3> QED BY <2>2, <3>1
    <2>3. todo[t] # << >> => Head(todo[t]) # t
      BY VisitedIsOwn, WhoIsWho
    <2> QED BY <1>1, <2>1, <2>2, <2>3, HeadAndTail
  \* Behind the head, the walk does not come to d again, and the tail is past d unless
  \* the walk is not.
  <1>6. todo[t] # << >> =>
           IF Head(todo[t]) = d
           THEN ~ Past(d) /\ \A i \in DOMAIN Tail(todo[t]) : Tail(todo[t])[i] # d
           ELSE Past(d) <=> \A i \in DOMAIN Tail(todo[t]) : Tail(todo[t])[i] # d
    <2>1. CASE todo[t] # << >> /\ Head(todo[t]) = d
      BY <1>3, <1>5, <2>1 DEF Past
    <2>2. CASE todo[t] # << >> /\ Head(todo[t]) # d
      BY <1>5, <2>2 DEF Past
    <2> QED BY <2>1, <2>2
  <1>7. /\ pc[t] = "visit" => LastOffered(d) = IF Past(d) THEN count[t] ELSE count[t] - 1
        /\ pc[t] \notin {"visit", "notify"} => LastOffered(d) = count[t] - 1
        /\ pc'[t] = "visit" => LastOffered(d)' = IF Past(d)' THEN count'[t] ELSE count'[t] - 1
        /\ pc'[t] \notin {"visit", "notify"} => LastOffered(d)' = count'[t] - 1
    BY DEF LastOffered, Offered, Past, At
  \* A consumer that has not subscribed is not in m_subs, and so in no walk.
  <1>8. /\ pc[d] = "start" => \A i \in DOMAIN subs[In[d]] : subs[In[d]][i] # d
        /\ todo'[t] \in {todo[t], subs[In[d]]} \/ (todo[t] # << >> /\ todo'[t] = Tail(todo[t]))
    <2>1. pc[d] = "start" => \A i \in DOMAIN subs[In[d]] : subs[In[d]][i] # d
      BY <1>1 DEF Inv, WalksAreOwn
    <2>2. todo'[t] \in {todo[t], subs[In[d]]} \/ (todo[t] # << >> /\ todo'[t] = Tail(todo[t]))
      BY <1>1, <1>3 DEF Feed, BeginProducing, PushLock, PushWrite, PushNotify, PushUnlock,
                        TermBegin, TermFlag, TermNotify, TermClear, shared
    <2> QED BY <2>1, <2>2
  <1>9. pc'[d] = "start" => Past(d)'
    <2>1. pc'[d] = "start" => Past(d)
      BY <1>4 DEF AccountOf
    <2>2. CASE todo'[t] = todo[t]
      BY <2>1, <2>2 DEF Past
    <2>3. CASE todo'[t] = subs[In[d]]
      BY <1>4, <1>8, <2>3 DEF Past
    <2>4. CASE todo[t] # << >> /\ todo'[t] = Tail(todo[t])
      BY <1>6, <2>1, <2>4 DEF Past
    <2> QED BY <1>8, <2>2, <2>3, <2>4
  <1>10. /\ pc'[t] = "done" \/ ~ Subscribed(d) \/ Subscribed(d)'
         /\ pc[t] # "done"
         /\ pc'[t] \in {"visit", "notify"} => sMutex'[In[d]]
    <2>1. pc[t] \in {"visit", "notify"} => sMutex[In[d]]
      BY DEF AccountOf
    <2>2. pc'[t] = "done" \/ subs' = subs
      BY <1>1 DEF Feed, BeginProducing, PushLock, PushWrite, PushNotify, PushUnlock,
                  TermBegin, TermFlag, TermNotify, TermClear, Goto, shared
    <2>3. pc'[t] \in {"visit", "notify"} => sMutex'[In[d]]
      BY <1>1, <1>3, <1>5, <2>1
         DEF Feed, BeginProducing, PushLock, PushWrite, PushNotify, PushUnlock,
             TermBegin, TermFlag, TermNotify, TermClear, Goto, Notify, shared
    <2>4. pc[t] # "done"
      BY FeedFrame
    <2> QED BY <2>2, <2>3, <2>4 DEF Subscribed
  \* With these, nothing changes but for a frame that is written or refused.
  <1>11. ASSUME queue'[d] = queue[d], refused'[d] = refused[d], LastOffered(d)' = LastOffered(d)
         PROVE  AccountOf(d)'
    BY <1>2, <1>4, <1>9, <1>10, <1>11, AccountStands
  <1>12. CASE PushLock(t)
    <2>1. /\ pc[t] = "push" /\ pc'[t] = "visit" /\ todo'[t] = subs[In[d]] /\ count' = count
          /\ queue' = queue /\ refused' = refused /\ got' = got /\ joined' = joined
      BY <1>1, <1>2, <1>12 DEF PushLock, Goto, shared, history
    <2>2. CASE pc[d] = "start"
      <3>1. got'[d] = << >> /\ queue'[d] = << >> /\ refused'[d] = {}
        BY <2>1, <2>2 DEF AccountOf
      <3> QED BY <1>1, <1>4, <1>9, <1>10, <2>2, <3>1 DEF AccountOf
    <2>3. CASE pc[d] # "start"
      <3>1. Subscribed(d)
        BY <2>1, <2>3 DEF AccountOf
      <3>2. ~ Past(d)'
        BY <2>1, <3>1 DEF Past, Subscribed
      <3>3. LastOffered(d)' = LastOffered(d)
        BY <1>7, <2>1, <3>2
      <3> QED BY <1>11, <2>1, <3>3
    <2> QED BY <2>2, <2>3
  <1>13. CASE PushWrite(t)
    <2>1. /\ pc[t] = "visit" /\ pc'[t] = "notify" /\ todo' = todo /\ count' = count
          /\ todo[t] # << >>
      BY <1>1, <1>13 DEF PushWrite, Goto
    <2>2. CASE Head(todo[t]) # d
      <3>1. queue'[d] = queue[d] /\ refused'[d] = refused[d]
        BY <1>1, <1>5, <1>13, <2>2 DEF PushWrite
      <3>2. LastOffered(d)' = LastOffered(d)
        BY <2>1, <2>2 DEF LastOffered, Offered, At
      <3> QED BY <1>11, <3>1, <3>2
    <2>3. CASE Head(todo[t]) = d
      <3> DEFINE e == count[t]
                 seen == got[d] \o queue[d]
      <3>1. pc[d] # "start" /\ LastOffered(d) = e - 1 /\ LastOffered(d)' = e
        <4>1. ~ Past(d)
          BY <1>6, <2>1, <2>3
        <4>2. Offered(d)'
          BY <2>1, <2>3 DEF Offered, At
        <4> QED BY <1>7, <2>1, <4>1, <4>2 DEF AccountOf, LastOffered
      <3>2. seen \in Seq(Nat) /\ e \in Nat /\ joined[d] \in Nat
        BY <1>1
      <3>3. Account(seen, refused[d], joined[d], e - 1) /\ joined[d] <= e
        BY <1>1, <3>1 DEF AccountOf
      <3>4. Account(got'[d] \o queue'[d], refused'[d], joined'[d], e)
        <4>1. CASE Len(queue[d]) < Capacity
          <5>1. queue'[d] = Append(queue[d], e) /\ refused' = refused
            BY <1>1, <1>13, <2>3, <4>1 DEF PushWrite
          <5>2. got[d] \o Append(queue[d], e) = Append(seen, e)
            <6>1. got[d] \in Seq(Nat) /\ queue[d] \in Seq(Nat) /\ e \in Nat
              BY <1>1
            <6> QED BY <6>1, AppendBehind, Zenon
          <5>3. Account(Append(seen, e), refused[d], joined[d], e)
            <6> HIDE DEF e, seen
            <6> QED BY <3>2, <3>3, AccountGrows
          <5> HIDE DEF Account
          <5> QED BY <1>2, <5>1, <5>2, <5>3
        <4>2. CASE ~ Len(queue[d]) < Capacity
          <5>1. queue' = queue /\ refused'[d] = refused[d] \cup {e}
            BY <1>1, <1>13, <2>3, <4>2 DEF PushWrite
          <5>2. Account(seen, refused[d] \cup {e}, joined[d], e)
            <6> HIDE DEF e, seen
            <6> QED BY <3>2, <3>3, AccountRefused
          <5> HIDE DEF Account
          <5> QED BY <1>2, <5>1, <5>2
        <4> QED BY <4>1, <4>2
      <3>5. joined'[d] <= LastOffered(d)' + 1
        BY <1>1, <1>2, <3>1, <3>3
      <3>6. pc'[d] # "start" /\ (pc'[t] # "done" => Subscribed(d)')
        BY <1>4, <1>10, <2>1, <3>1 DEF AccountOf
      <3> HIDE DEF seen, e
      <3>7. Account(got'[d] \o queue'[d], refused'[d], joined'[d], LastOffered(d)')
        BY <3>1, <3>4
      <3> QED BY <1>10, <3>5, <3>6, <3>7 DEF AccountOf
    <2> QED BY <2>2, <2>3
  <1>14. CASE PushNotify(t)
    <2>1. /\ pc[t] = "notify" /\ pc'[t] = "visit" /\ todo'[t] = Tail(todo[t]) /\ count' = count
          /\ todo[t] # << >> /\ queue' = queue /\ refused' = refused
      BY <1>1, <1>3, <1>5, <1>14 DEF PushNotify, Notify, shared, history
    <2>2. LastOffered(d) = IF Head(todo[t]) = d \/ Past(d) THEN count[t] ELSE count[t] - 1
      BY <2>1 DEF LastOffered, Offered, At, Past
    <2>3. Past(d)' <=> (Head(todo[t]) = d \/ Past(d))
      BY <1>6, <2>1 DEF Past
    <2>4. LastOffered(d)' = LastOffered(d)
      BY <1>7, <2>1, <2>2, <2>3
    <2> QED BY <1>11, <2>1, <2>4
  <1>15. CASE PushUnlock(t)
    <2>1. /\ pc[t] = "visit" /\ pc'[t] \notin {"visit", "notify"} /\ count'[t] = count[t] + 1
          /\ todo[t] = << >> /\ queue' = queue /\ refused' = refused
      BY <1>1, <1>15 DEF PushUnlock, Goto, history
    <2>2. Past(d)
      BY <1>1, <2>1 DEF Past
    <2>3. LastOffered(d)' = LastOffered(d)
      BY <1>1, <1>7, <2>1, <2>2
    <2> QED BY <1>11, <2>1, <2>3
  <1>16. CASE BeginProducing(t) \/ TermBegin(t) \/ TermFlag(t) \/ TermNotify(t) \/ TermClear(t)
    <2>1. /\ pc[t] \notin {"visit", "notify"} /\ pc'[t] \notin {"visit", "notify"}
          /\ count' = count /\ queue' = queue /\ refused' = refused
      BY <1>1, <1>3, <1>5, <1>16 DEF BeginProducing, TermBegin, TermFlag, TermNotify, TermClear,
                                     Goto, Notify, shared, history
    <2>2. LastOffered(d)' = LastOffered(d)
      BY <1>7, <2>1
    <2> QED BY <1>11, <2>1, <2>2
  <1> QED BY <1>12, <1>13, <1>14, <1>15, <1>16 DEF Feed

AccountInv == Inv /\ \A d \in Consumers : AccountOf(d)

LEMMA AccountInvariance == Safety => []AccountInv
  <1>1. Init => AccountInv
    <2> SUFFICES ASSUME Init, NEW d \in Consumers PROVE AccountOf(d)
      BY InitInv DEF AccountInv
    <2>1. /\ got[d] = << >> /\ queue[d] = << >> /\ refused[d] = {}
          /\ pc[d] = "start" /\ pc[Feeder(In[d])] = "start"
          /\ todo[Feeder(In[d])] = << >>
      BY WhoIsWho DEF Init
    <2> QED BY <2>1 DEF AccountOf, Past
  <1>2. AccountInv /\ [Next]_vars => AccountInv'
    <2> SUFFICES ASSUME AccountInv, [Next]_vars, NEW d \in Consumers PROVE AccountOf(d)'
      BY StepInv DEF AccountInv
    <2>1. Inv /\ AccountOf(d)
      BY DEF AccountInv
    <2>2. ASSUME NEW t \in Feeders, Feed(t) PROVE AccountOf(d)'
      BY <2>1, <2>2, FeedAccountOwn, FeedAccountOther
    <2> QED BY <2>1, <2>2, ConsumeAccount, MainAccount DEF Next, Step, WakeUp
  <1> QED BY <1>1, <1>2, PTL DEF Safety

\* Whatever a full ring drops: each frame pushed since a consumer subscribed is handed
\* out once and in order, waits in its ring, or is one of those write() refused.
THEOREM NothingElseIsLost == Safety => []EveryFrameAccounted
  <1>1. AccountInv => EveryFrameAccounted
    <2> SUFFICES ASSUME AccountInv, NEW d \in Consumers
                 PROVE  \E a, z \in Nat :
                           /\ Account(got[d] \o queue[d], refused[d], a, z)
                           /\ a .. z = IF pc[d] = "start" THEN {} ELSE joined[d] .. LastOffered(d)
      BY DEF EveryFrameAccounted, Account
    <2>1. AccountOf(d) /\ joined[d] \in Nat /\ count[Feeder(In[d])] \in Nat \ {0}
      BY WhoIsWho DEF AccountInv, Inv, TypeOK
    <2>2. CASE pc[d] = "start"
      <3>1. got[d] = << >> /\ queue[d] = << >> /\ refused[d] = {}
        BY <2>1, <2>2 DEF AccountOf
      <3>2. Account(<< >> \o << >>, {}, 1, 1 - 1) /\ 1 .. 1 - 1 = {} /\ 1 - 1 \in Nat
        BY AccountOpens
      <3> HIDE DEF Account
      <3> QED BY <2>2, <3>1, <3>2
    <2>3. CASE pc[d] # "start"
      <3>1. LastOffered(d) \in Nat
        BY <2>1 DEF LastOffered
      <3> HIDE DEF Account
      <3> QED BY <2>1, <2>3, <3>1 DEF AccountOf
    <2> QED BY <2>2, <2>3
  <1> QED BY <1>1, AccountInvariance, PTL


(***************************************************************************)
(* The stream's promise.                                                   *)
(***************************************************************************)
InPush == {"push", "visit", "notify"}

\* The ids stay within 1 .. N: the producer counts to N, and a transformer numbers no
\* faster than the frames it is given are numbered.
InRange(f) == count[f] <= IF pc[f] \in InPush THEN N ELSE N + 1
Follows(f) ==
    f \in Consumers =>
        \/ got[f] = << >> /\ count[f] = 1 /\ pc[f] \notin InPush
        \/ /\ got[f] # << >>
           /\ count[f] <= IF pc[f] \in InPush THEN got[f][Len(got[f])] ELSE got[f][Len(got[f])] + 1
NumbersFit ==
    /\ \A f \in Feeders : InRange(f) /\ Follows(f)
    /\ \A c \in Consumers : pc[c] # "start" => joined[c] # 0

LEMMA LastOfSeen ==
    ASSUME NEW g \in Seq(Nat), NEW q \in Seq(Nat)
    PROVE  /\ Len(g) \in Nat
           /\ g # << >> => /\ Len(g) \in DOMAIN g /\ g[Len(g)] \in Nat
                           /\ Len(g) \in DOMAIN (g \o q) /\ (g \o q)[Len(g)] = g[Len(g)]
           /\ q # << >> => /\ Head(q) \in Nat
                           /\ Len(g) + 1 \in DOMAIN (g \o q) /\ (g \o q)[Len(g) + 1] = Head(q)
                           /\ Append(g, Head(q)) # << >>
                           /\ Append(g, Head(q))[Len(Append(g, Head(q)))] = Head(q)
  <1>1. Len(g) \in Nat
    OBVIOUS
  <1>2. ASSUME g # << >>
        PROVE  /\ Len(g) \in DOMAIN g /\ g[Len(g)] \in Nat
               /\ Len(g) \in DOMAIN (g \o q) /\ (g \o q)[Len(g)] = g[Len(g)]
    <2>1. Len(g) \in 1 .. Len(g)
      BY <1>2
    <2>2. Len(g) \in DOMAIN g /\ g[Len(g)] \in Nat
      BY <2>1
    <2>3. Len(g) \in DOMAIN (g \o q) /\ (g \o q)[Len(g)] = g[Len(g)]
      BY <2>1
    <2> QED BY <2>2, <2>3
  <1>3. ASSUME q # << >>
        PROVE  /\ Head(q) \in Nat
               /\ Len(g) + 1 \in DOMAIN (g \o q) /\ (g \o q)[Len(g) + 1] = Head(q)
               /\ Append(g, Head(q)) # << >>
               /\ Append(g, Head(q))[Len(Append(g, Head(q)))] = Head(q)
    <2>1. Head(q) \in Nat /\ 1 \in DOMAIN q /\ Head(q) = q[1]
      BY <1>3, HeadAndTail
    <2>2. Len(g) + 1 \in DOMAIN (g \o q) /\ (g \o q)[Len(g) + 1] = q[1]
      BY <2>1
    <2>3. Append(g, Head(q)) # << >>
      BY <2>1, AppendNotEmpty
    <2>4. Append(g, Head(q))[Len(Append(g, Head(q)))] = Head(q)
      BY <2>1
    <2> QED BY <2>1, <2>2, <2>3, <2>4
  <1> QED BY <1>1, <1>2, <1>3

\* What c has seen is in 1 .. N.
LEMMA SeenFits ==
    ASSUME AccountInv, NumbersFit, NEW c \in Consumers, pc[c] # "start",
           NEW i \in DOMAIN (got[c] \o queue[c])
    PROVE  /\ (got[c] \o queue[c])[i] \in 1 .. N
           /\ (got[c] \o queue[c])[i] <= LastOffered(c)
  <1> DEFINE f == Feeder(In[c])
             seen == got[c] \o queue[c]
  <1>1. /\ f \in Feeders /\ count[f] \in Nat \ {0} /\ joined[c] \in Nat /\ N \in Nat
        /\ InRange(f) /\ joined[c] # 0
        /\ Account(seen, refused[c], joined[c], LastOffered(c))
    BY WhoIsWho DEF AccountInv, AccountOf, Inv, TypeOK, NumbersFit
  <1>2. LastOffered(c) \in Nat /\ LastOffered(c) <= N
    BY <1>1 DEF LastOffered, Offered, InRange, InPush
  <1> HIDE DEF seen
  <1>3. seen[i] \in joined[c] .. LastOffered(c)
    <2>1. i \in DOMAIN seen
      BY DEF seen
    <2> QED BY <1>1, <2>1 DEF Account
  <1>4. \A a, b \in Nat : \A x \in a .. b : a # 0 /\ b <= N => x \in 1 .. N /\ x <= b
    BY <1>1
  <1>5. seen[i] \in 1 .. N /\ seen[i] <= LastOffered(c)
    BY <1>1, <1>2, <1>3, <1>4
  <1> QED BY <1>5 DEF seen

LEMMA NumbersConsume ==
    ASSUME AccountInv, NumbersFit, NEW c \in Consumers, Consume(c) \/ Spurious(c)
    PROVE  NumbersFit'
  <1>1. /\ Inv /\ c \in Threads /\ pc \in [Threads -> Places]
        /\ Feeders \subseteq Threads /\ Consumers \subseteq Threads
        /\ queue \in [Consumers -> Seq(Nat)] /\ got \in [Consumers -> Seq(Nat)]
        /\ got[c] \in Seq(Nat) /\ queue[c] \in Seq(Nat)
        /\ joined \in [Consumers -> Nat] /\ count \in [Feeders -> Nat \ {0}] /\ N \in Nat \ {0}
    BY WhoIsWho DEF AccountInv, Inv, TypeOK
  <1>2. /\ count' = count
        /\ \A t \in Threads : t # c => pc'[t] = pc[t]
        /\ pc[c] \notin InPush
    BY <1>1, ConsumeFrame DEF InPush
  <1>3. \A d \in Consumers : d # c => got'[d] = got[d] /\ joined'[d] = joined[d]
    BY <1>1 DEF Consume, Subscribe, NextCheck, LoopCheck, LoopTest, Wait, Recheck, Read, Spurious, history
  <1>4. pc'[c] # "start" => joined'[c] # 0
    <2>1. CASE Subscribe(c)
      BY <1>1, <2>1, WhoIsWho DEF Subscribe, Goto
    <2>2. CASE ~ Subscribe(c)
      <3>1. pc[c] # "start" /\ joined' = joined
        BY <2>2 DEF Consume, NextCheck, LoopCheck, LoopTest, Wait, Recheck, Read, Spurious, history
      <3> QED BY <3>1 DEF NumbersFit
    <2> QED BY <2>1, <2>2
  <1>5. ASSUME c \in Feeders
        PROVE  InRange(c)' /\ Follows(c)'
    <2>1. InRange(c) /\ Follows(c) /\ count[c] \in Nat \ {0}
      BY <1>1, <1>5 DEF NumbersFit
    <2>2. CASE Read(c)
      <3>1. /\ queue[c] # << >> /\ pc[c] = "read"
            /\ got'[c] = Append(got[c], Head(queue[c])) /\ pc'[c] = "push"
        BY <1>1, <1>5, <2>2 DEF Read, Goto, AccountInv, Inv, SubscriptionInv
      <3> DEFINE seen == got[c] \o queue[c]
                 n == Len(got[c])
                 x == Head(queue[c])
      <3>2. /\ x \in Nat /\ n + 1 \in DOMAIN seen /\ seen[n + 1] = x
            /\ got'[c] # << >> /\ got'[c][Len(got'[c])] = x
        BY <1>1, <3>1, LastOfSeen
      <3>3. x \in 1 .. N
        <4>1. pc[c] # "start"
          BY <3>1
        <4> QED BY <3>2, <4>1, SeenFits
      <3>4. got[c] # << >> => got[c][n] < x
        <4>1. \A i, j \in DOMAIN seen : i < j => seen[i] < seen[j]
          BY <3>1 DEF AccountInv, AccountOf, Account
        <4>2. n \in Nat /\ (got[c] # << >> => n \in DOMAIN seen /\ seen[n] = got[c][n])
          BY <1>1, LastOfSeen
        <4>3. n < n + 1
          BY <4>2
        <4> HIDE DEF seen, n
        <4>4. got[c] # << >> => seen[n] < seen[n + 1]
          BY <3>2, <4>1, <4>2, <4>3
        <4> QED BY <3>2, <4>2, <4>4
      <3>5. count[c] <= x
        <4>1. CASE got[c] = << >>
          BY <2>1, <3>3, <4>1 DEF Follows
        <4>2. CASE got[c] # << >>
          <5>1. got[c][n] \in Nat
            BY <1>1, <4>2, LastOfSeen
          <5>2. count[c] <= got[c][n] + 1
            BY <1>2, <2>1, <4>2 DEF Follows
          <5> QED BY <2>1, <3>2, <3>4, <4>2, <5>1, <5>2
        <4> QED BY <4>1, <4>2
      <3>6. pc'[c] \in InPush /\ count'[c] <= x /\ x <= N /\ x \in Nat
        BY <1>2, <3>1, <3>2, <3>3, <3>5 DEF InPush
      <3>7. InRange(c)'
        BY <1>1, <1>2, <2>1, <3>6 DEF InRange
      <3> HIDE DEF x, seen, n
      <3>8. Follows(c)'
        BY <3>2, <3>6 DEF Follows
      <3> QED BY <3>7, <3>8
    <2>3. CASE ~ Read(c)
      <3>1. got' = got /\ pc'[c] \notin InPush
        BY <1>1, <2>3 DEF Consume, Subscribe, NextCheck, LoopCheck, LoopTest, Wait, Recheck, Spurious,
                          history, AfterLoop, Goto, InPush
      <3> QED BY <1>2, <2>1, <3>1 DEF InRange, Follows
    <2> QED BY <2>2, <2>3
  <1>6. \A f \in Feeders : f # c => InRange(f)' /\ Follows(f)'
    BY <1>1, <1>2, <1>3 DEF NumbersFit, InRange, Follows
  <1>7. \A d \in Consumers : pc'[d] # "start" => joined'[d] # 0
    BY <1>1, <1>2, <1>3, <1>4 DEF NumbersFit
  <1> QED BY <1>5, <1>6, <1>7 DEF NumbersFit

LEMMA NumbersFeed ==
    ASSUME AccountInv, NumbersFit, NEW t \in Feeders, Feed(t)
    PROVE  NumbersFit'
  <1>1. /\ Inv /\ t \in Threads /\ pc \in [Threads -> Places]
        /\ Feeders \subseteq Threads /\ Consumers \subseteq Threads
        /\ todo \in [Feeders -> Seq(Consumers)]
        /\ count \in [Feeders -> Nat \ {0}] /\ count[t] \in Nat \ {0} /\ N \in Nat \ {0}
        /\ (pc[t] \in {"notify", "wakeup"} => todo[t] # << >>)
    <2>1. Inv /\ TypeOK /\ WalksAreOwn
      BY DEF AccountInv, Inv
    <2> QED BY <2>1, WhoIsWho DEF TypeOK, WalksAreOwn
  <1>2. /\ got' = got /\ joined' = joined
        /\ \A u \in Threads : u # t => pc'[u] = pc[u] \/ (pc[u] = "wait" /\ pc'[u] = "loop")
        /\ \A u \in Feeders : u # t => count'[u] = count[u]
        /\ pc'[t] # "start"
    BY <1>1, FeedFrame DEF Feed, BeginProducing, PushLock, PushWrite, PushNotify, PushUnlock,
                           TermBegin, TermFlag, TermNotify, TermClear, history
  <1>3. todo[t] # << >> => Head(todo[t]) # t
    BY <1>1, VisitedIsOwn, WhoIsWho
  <1>4. \/ t = Producer /\ pc[t] = "start" /\ pc'[t] = "push" /\ count'[t] = count[t]
        \/ pc[t] \in InPush /\ pc'[t] \in InPush /\ count'[t] = count[t]
        \/ /\ pc[t] = "visit" /\ count'[t] = count[t] + 1
           /\ IF t # Producer THEN pc'[t] = "next"
                              ELSE pc'[t] = IF count[t] = N THEN "term" ELSE "push"
        \/ pc[t] \notin InPush /\ pc'[t] \notin InPush /\ count'[t] = count[t]
    BY <1>1, <1>3 DEF Feed, BeginProducing, PushLock, PushWrite, PushNotify, PushUnlock, TermBegin,
                      TermFlag, TermNotify, TermClear, Goto, Notify, InPush
  <1>5. InRange(t) /\ Follows(t) /\ ProducerInLoop
    BY <1>1 DEF NumbersFit, Inv
  <1>6. InRange(t)'
    BY <1>1, <1>4, <1>5 DEF InRange, InPush, ProducerInLoop
  <1>7. Follows(t)'
    <2>1. t \in Consumers => t # Producer /\ got[t] \in Seq(Nat)
      BY <1>1, WhoIsWho DEF Inv, TypeOK
    <2>2. ASSUME t \in Consumers, got[t] # << >>
          PROVE  got[t][Len(got[t])] \in Nat
      BY <2>1, <2>2
    <2> QED BY <1>1, <1>2, <1>4, <1>5, <2>1, <2>2 DEF Follows, InPush
  <1>8. \A f \in Feeders : f # t => InRange(f)' /\ Follows(f)'
    <2> SUFFICES ASSUME NEW f \in Feeders, f # t PROVE InRange(f)' /\ Follows(f)'
      OBVIOUS
    <2>1. (pc'[f] \in InPush <=> pc[f] \in InPush) /\ count'[f] = count[f]
      BY <1>1, <1>2 DEF InPush
    <2> QED BY <1>2, <2>1 DEF NumbersFit, InRange, Follows
  <1>9. \A d \in Consumers : pc'[d] # "start" => joined'[d] # 0
    <2> SUFFICES ASSUME NEW d \in Consumers, pc'[d] # "start" PROVE joined[d] # 0
      BY <1>2
    <2>1. pc[d] # "start"
      <3>1. CASE d = t
        <4>1. d # Producer
          BY WhoIsWho
        <4> QED BY <1>4, <3>1, <4>1 DEF InPush, Feed, BeginProducing, PushLock, PushWrite, PushNotify, PushUnlock,
                           TermBegin, TermFlag, TermNotify, TermClear
      <3>2. CASE d # t
        BY <1>1, <1>2, <3>2
      <3> QED BY <3>1, <3>2
    <2> QED BY <2>1 DEF NumbersFit
  <1> QED BY <1>6, <1>7, <1>8, <1>9 DEF NumbersFit

LEMMA StepNumbers ==
    ASSUME AccountInv, NumbersFit, [Next]_vars
    PROVE  NumbersFit'
  <1>1. CASE Main \/ UNCHANGED vars
    <2>1. UNCHANGED <<pc, count, got, joined>>
      BY <1>1 DEF Main, StartProducing, MainReturn, vars, shared, history
    <2> QED BY <2>1 DEF NumbersFit, InRange, Follows
  <1> QED BY <1>1, NumbersConsume, NumbersFeed DEF Next, Step, WakeUp

LEMMA NumbersInvariance == Safety => [](AccountInv /\ NumbersFit)
  <1>1. Init => NumbersFit
    <2> SUFFICES ASSUME Init PROVE NumbersFit
      OBVIOUS
    <2>1. /\ Consumers \subseteq Threads /\ Feeders \subseteq Threads /\ N \in Nat \ {0}
          /\ pc = [t \in Threads |-> "start"] /\ count = [t \in Feeders |-> 1]
          /\ got = [c \in Consumers |-> << >>]
      BY WhoIsWho DEF Init
    <2> QED BY <2>1 DEF NumbersFit, InRange, Follows, InPush
  <1>2. (AccountInv /\ NumbersFit) /\ [Next]_vars => NumbersFit'
    BY StepNumbers
  <1> QED BY <1>1, <1>2, AccountInvariance, PTL DEF Safety

\* A step that leaves the queues, what was handed out, and the ends alone.
LEMMA PromiseStutters ==
    ASSUME UNCHANGED <<queue, got, terminated>>, \A c \in Consumers : Ended(c)' <=> Ended(c)
    PROVE  UNCHANGED Promise!vars
  <1>1. [c \in Consumers |-> Ended(c)'] = [c \in Consumers |-> Ended(c)]
    BY DEF Ended
  <1> QED BY <1>1 DEF Promise!vars

LEMMA NoneEnded ==
    ASSUME \A c \in Consumers : pc[c] = "start"
    PROVE  [c \in Consumers |-> Ended(c)] = [c \in Consumers |-> FALSE]
  <1>1. \A c \in Consumers : Ended(c) = FALSE
    BY DEF Ended
  <1> QED BY <1>1

\* A step with which c comes to the end of its loop.
LEMMA OneMoreEnded ==
    ASSUME NEW c \in Consumers, Ended(c)',
           \A d \in Consumers : d # c => (Ended(d)' <=> Ended(d))
    PROVE  [d \in Consumers |-> Ended(d)'] = [[d \in Consumers |-> Ended(d)] EXCEPT ![c] = TRUE]
  <1> DEFINE old == [[d \in Consumers |-> Ended(d)] EXCEPT ![c] = TRUE]
             new == [d \in Consumers |-> Ended(d)']
  <1>1. Ended(c)' = TRUE
    BY DEF Ended
  <1>2. \A d \in Consumers : d # c => Ended(d)' = Ended(d)
    BY DEF Ended
  <1>3. \A d \in Consumers : new[d] = old[d]
    BY <1>1, <1>2
  <1>4. new = [d \in Consumers |-> new[d]] /\ old = [d \in Consumers |-> old[d]]
    OBVIOUS
  <1> QED BY <1>3, <1>4

\* Reading is Deliver, leaving the loop over next() is Close.
LEMMA ConsumePromise ==
    ASSUME AccountInv, NumbersFit, NEW c \in Consumers, Consume(c) \/ Spurious(c)
    PROVE  [Promise!Next]_(Promise!vars)
  <1>1. /\ Inv /\ SubscriptionInv(c)
        /\ c \in Threads /\ Consumers \subseteq Threads /\ pc \in [Threads -> Places]
        /\ queue \in [Consumers -> Seq(Nat)]
        /\ \A t \in Threads : t # c => pc'[t] = pc[t]
        /\ terminated' = terminated
        /\ ~ Ended(c)
    BY WhoIsWho, ConsumeFrame DEF AccountInv, Inv, TypeOK, Ended
  <1>2. \A d \in Consumers : d # c => (Ended(d)' <=> Ended(d))
    BY <1>1 DEF Ended
  <1>3. CASE Read(c)
    <2>1. /\ queue[c] # << >>
          /\ got' = [got EXCEPT ![c] = Append(@, Head(queue[c]))]
          /\ queue' = [queue EXCEPT ![c] = Tail(@)]
          /\ ~ Ended(c)'
      BY <1>1, <1>3 DEF Read, SubscriptionInv, Goto, Ended
    <2>2. [d \in Consumers |-> Ended(d)'] = [d \in Consumers |-> Ended(d)]
      <3>1. \A d \in Consumers : Ended(d)' <=> Ended(d)
        BY <1>1, <1>2, <2>1
      <3> QED BY <3>1 DEF Ended
    <2>3. Promise!Deliver(c)
      BY <1>1, <2>1, <2>2 DEF Promise!Deliver
    <2> QED BY <2>3 DEF Promise!Next, Promise!Answer
  <1>4. CASE Recheck(c) /\ queue[c] = << >> /\ terminated[c]
    <2>1. UNCHANGED <<queue, got, terminated>> /\ Ended(c)'
      BY <1>1, <1>4 DEF Recheck, AfterLoop, Goto, Ended, shared, history
    <2>2. [d \in Consumers |-> Ended(d)']
              = [[d \in Consumers |-> Ended(d)] EXCEPT ![c] = TRUE]
      BY <1>2, <2>1, OneMoreEnded
    <2>3. Promise!Close(c)
      BY <1>1, <1>4, <2>1, <2>2 DEF Promise!Close
    <2> QED BY <2>3 DEF Promise!Next, Promise!Answer
  <1>5. CASE ~ Read(c) /\ ~ (queue[c] = << >> /\ terminated[c] /\ Recheck(c))
    <2>1. UNCHANGED <<queue, got, terminated>> /\ ~ Ended(c)'
      BY <1>1, <1>5 DEF Consume, Spurious, Subscribe, NextCheck, LoopCheck, LoopTest, Wait,
                        Recheck, Goto, Ended, shared, history
    <2>2. \A d \in Consumers : Ended(d)' <=> Ended(d)
      BY <1>1, <1>2, <2>1
    <2> QED BY <2>1, <2>2, PromiseStutters
  <1> QED BY <1>3, <1>4, <1>5

\* A write that is not refused is Publish, setting m_terminated is Terminate.
LEMMA FeedPromise ==
    ASSUME AccountInv, NumbersFit, NEW t \in Feeders, Feed(t)
    PROVE  [Promise!Next]_(Promise!vars)
  <1> DEFINE c == Head(todo[t])
  <1>1. /\ Inv /\ t \in Threads /\ Consumers \subseteq Threads /\ pc \in [Threads -> Places]
        /\ queue \in [Consumers -> Seq(Nat)] /\ got \in [Consumers -> Seq(Nat)]
        /\ count \in [Feeders -> Nat \ {0}] /\ N \in Nat
        /\ got' = got
        /\ t # Producer => (Ended(t)' <=> Ended(t))
        /\ Producer \notin Consumers
    BY WhoIsWho, FeedFrame DEF AccountInv, Inv, TypeOK
  <1>2. \A d \in Consumers : Ended(d)' <=> Ended(d)
    <2> SUFFICES ASSUME NEW d \in Consumers PROVE Ended(d)' <=> Ended(d)
      OBVIOUS
    <2>1. CASE d = t
      BY <1>1, <2>1
    <2>2. CASE d # t
      <3>1. pc'[d] = pc[d] \/ (pc[d] = "wait" /\ pc'[d] = "loop")
        BY <1>1, <2>2, FeedFrame
      <3> QED BY <3>1 DEF Ended
    <2> QED BY <2>1, <2>2
  <1>3. [d \in Consumers |-> Ended(d)'] = [d \in Consumers |-> Ended(d)]
    BY <1>2 DEF Ended
  <1>4. CASE PushWrite(t) /\ Len(queue[c]) < Capacity
    <2>1. /\ pc[t] = "visit" /\ todo[t] # << >> /\ terminated' = terminated
          /\ queue' = [queue EXCEPT ![c] = Append(@, count[t])]
      BY <1>4 DEF PushWrite
    <2>2. c \in Consumers /\ Feeder(In[c]) = t
      BY <1>1, <2>1, VisitedIsOwn
    <2>3. 1 \in DOMAIN todo[t] /\ todo[t][1] = c
      <3>1. todo[t] \in Seq(Consumers)
        BY <1>1 DEF Inv, TypeOK
      <3> QED BY <2>1, <3>1, HeadAndTail
    <2> HIDE DEF c
    <2>4. ~ terminated[c] /\ pc[c] # "start" /\ LastOffered(c) = count[t] - 1
      <3>1. SubscriptionInv(c) /\ AccountOf(c)
        BY <2>2 DEF AccountInv, Inv
      <3>2. ~ terminated[c]
        BY <2>1, <2>2, <3>1 DEF SubscriptionInv
      <3>3. pc[c] # "start"
        BY <2>2, <2>3, <3>1 DEF AccountOf, Past
      <3>4. ~ Offered(c)
        BY <2>1, <2>2, <2>3 DEF Offered, At
      <3> QED BY <2>2, <3>2, <3>3, <3>4 DEF LastOffered
    <2> DEFINE seen == got[c] \o queue[c]
    <2>5. count[t] \in 1 .. N
      <3>1. InRange(t) /\ count[t] \in Nat \ {0}
        BY <1>1 DEF NumbersFit
      <3> QED BY <1>1, <2>1, <3>1 DEF InRange, InPush
    <2>6. seen # << >> => count[t] \in (seen[Len(seen)] + 1) .. N
      <3> SUFFICES ASSUME seen # << >> PROVE count[t] \in (seen[Len(seen)] + 1) .. N
        OBVIOUS
      <3>1. seen \in Seq(Nat)
        BY <1>1, <2>2
      <3>2. Len(seen) \in DOMAIN seen
        <4> HIDE DEF seen
        <4> QED BY <3>1, LastOfSeen
      <3>3. seen[Len(seen)] \in 1 .. N /\ seen[Len(seen)] <= count[t] - 1
        BY <2>2, <2>4, <3>2, SeenFits
      <3> HIDE DEF seen
      <3>4. count[t] \in Nat /\ count[t] <= N /\ N \in Nat /\ seen[Len(seen)] \in Nat
        BY <1>1, <2>5, <3>3
      <3>5. seen[Len(seen)] + 1 <= count[t]
        BY <3>3, <3>4
      <3> QED BY <3>4, <3>5
    <2>7. count[t] \in Promise!Acceptable(c)
      BY <2>5, <2>6 DEF Promise!Acceptable, Promise!Last
    <2>8. Promise!Publish(c)
      BY <1>1, <1>3, <2>1, <2>4, <2>7 DEF Promise!Publish
    <2> QED BY <2>2, <2>8 DEF Promise!Next
  <1>5. CASE TermFlag(t)
    <2>1. /\ todo[t] # << >> /\ queue' = queue
          /\ terminated' = [terminated EXCEPT ![c] = TRUE]
      BY <1>5 DEF TermFlag
    <2>2. c \in Consumers
      BY <1>1, <2>1, VisitedIsOwn
    <2>3. Promise!Terminate(c)
      BY <1>1, <1>3, <2>1 DEF Promise!Terminate
    <2> QED BY <2>2, <2>3 DEF Promise!Next
  <1>6. CASE ~ TermFlag(t) /\ ~ (PushWrite(t) /\ Len(queue[c]) < Capacity)
    <2>1. UNCHANGED <<queue, terminated>>
      BY <1>6 DEF Feed, BeginProducing, PushLock, PushWrite, PushNotify, PushUnlock, TermBegin,
                  TermNotify, TermClear, shared
    <2> QED BY <1>1, <1>2, <2>1, PromiseStutters
  <1> QED BY <1>4, <1>5, <1>6

\* When main() returns every thread is through, and whoever is through has been told
\* of the end: the destructors set no flag that is not set.
LEMMA MainPromise ==
    ASSUME AccountInv, Main
    PROVE  UNCHANGED Promise!vars
  <1>1. UNCHANGED <<pc, queue, got>>
    BY DEF Main, StartProducing, MainReturn, shared, history
  <1>2. terminated' = terminated
    <2>1. CASE StartProducing
      BY <2>1 DEF StartProducing, shared
    <2>2. CASE MainReturn
      <3>1. /\ terminated \in [Consumers -> BOOLEAN]
            /\ \A c \in Consumers : SubscriptionInv(c) /\ pc[c] = "done"
        BY <2>2, WhoIsWho DEF AccountInv, Inv, TypeOK, MainReturn
      <3>2. \A c \in Consumers : terminated[c]
        BY <3>1 DEF SubscriptionInv, Ended
      <3>3. terminated' = [c \in Consumers |-> terminated[c] \/ Subscribed(c)]
        BY <2>2 DEF MainReturn
      <3>4. \A c \in Consumers : terminated'[c] = terminated[c]
        BY <3>1, <3>2, <3>3
      <3> QED BY <3>1, <3>3, <3>4
    <2> QED BY <2>1, <2>2 DEF Main
  <1>3. \A c \in Consumers : Ended(c)' <=> Ended(c)
    BY <1>1 DEF Ended
  <1> QED BY <1>1, <1>2, <1>3, PromiseStutters

\* The rings with their condition variables implement the safe part of the stream's
\* promise: each subscription gets ids in order and once, and nothing after the end.
THEOREM IsLossyStream == Safety => KeepsOrder
  <1>1. Init => Promise!Init
    <2> SUFFICES ASSUME Init PROVE Promise!Init
      OBVIOUS
    <2>1. \A c \in Consumers : pc[c] = "start"
      BY WhoIsWho DEF Init
    <2>2. [c \in Consumers |-> Ended(c)] = [c \in Consumers |-> FALSE]
      BY <2>1, NoneEnded
    <2> QED BY <2>2 DEF Init, Promise!Init
  <1>2. AccountInv /\ NumbersFit /\ [Next]_vars => [Promise!Next]_(Promise!vars)
    <2> SUFFICES ASSUME AccountInv, NumbersFit, [Next]_vars
                 PROVE  [Promise!Next]_(Promise!vars)
      OBVIOUS
    <2>1. CASE UNCHANGED vars
      BY <2>1, PromiseStutters DEF vars, shared, history, Ended
    <2> QED BY <2>1, MainPromise, ConsumePromise, FeedPromise DEF Next, Step, WakeUp
  <1> QED BY <1>1, <1>2, NumbersInvariance, PTL DEF Safety, KeepsOrder, Promise!Safety
=============================================================================
