-------------------------- MODULE LockStreamProofs --------------------------
(***************************************************************************)
(* Proofs about LockStream, and EPLFQStream which rests on it, for every   *)
(* wiring of producers, consumers and transformers that TopologyAssumption *)
(* allows, and every number of frames.                                     *)
(***************************************************************************)
EXTENDS EPLFQStream, TLAPS

\* What the walks of the feeders rest on.
LEMMA HeadAndTail ==
    ASSUME NEW S, NEW s \in Seq(S), s # << >>
    PROVE  /\ Head(s) \in S
           /\ Tail(s) \in Seq(S)
           /\ 1 \in DOMAIN s
           /\ Head(s) = s[1]
           /\ \A i \in DOMAIN Tail(s) : i + 1 \in DOMAIN s /\ Tail(s)[i] = s[i + 1]
  OBVIOUS

\* Every stream has one feeder.
LEMMA FeederOfStream ==
    /\ \A s \in Streams : Feeder(s) \in Feeders /\ Out[Feeder(s)] = s
    /\ \A f \in Feeders : Out[f] \in Streams /\ Feeder(Out[f]) = f
  <1>1. ASSUME NEW s \in Streams
        PROVE  Feeder(s) \in Feeders /\ Out[Feeder(s)] = s
    <2>1. \E t \in Threads : Out[t] = s
      BY TopologyAssumption
    <2>2. Feeder(s) \in Threads /\ Out[Feeder(s)] = s
      BY <2>1 DEF Feeder
    <2>3. s # NoStream
      BY TopologyAssumption
    <2> QED BY <2>2, <2>3 DEF Feeders
  <1>2. ASSUME NEW f \in Feeders
        PROVE  Out[f] \in Streams /\ Feeder(Out[f]) = f
    <2>1. Out[f] \in Streams
      BY TopologyAssumption DEF Feeders
    <2>2. Feeder(Out[f]) \in Feeders /\ Out[Feeder(Out[f])] = Out[f]
      BY <1>1, <2>1
    <2> QED BY <2>1, <2>2, TopologyAssumption
  <1> QED BY <1>1, <1>2

\* The producer feeds a stream; consumers are threads, and so are feeders.
LEMMA WhoIsWho ==
    /\ Producer \in Feeders
    /\ Producer \notin Consumers
    /\ Consumers \subseteq Threads
    /\ Feeders \subseteq Threads
    /\ \A c \in Consumers : In[c] \in Streams
    /\ \A c \in Consumers : Feeder(In[c]) \in Feeders /\ Out[Feeder(In[c])] = In[c]
    /\ \A c \in Consumers : Feeder(In[c]) # c
    /\ N \in Nat \ {0}
  <1>1. /\ Producer \in Feeders
        /\ Producer \notin Consumers
        /\ Consumers \subseteq Threads
        /\ Feeders \subseteq Threads
        /\ \A c \in Consumers : In[c] \in Streams
        /\ N \in Nat \ {0}
    BY TopologyAssumption DEF Feeders, Threads
  <1>2. \A c \in Consumers : Feeder(In[c]) \in Feeders /\ Out[Feeder(In[c])] = In[c]
    BY <1>1, FeederOfStream
  <1>3. \A c \in Consumers : Feeder(In[c]) # c
    BY <1>1, <1>2, TopologyAssumption
  <1> QED BY <1>1, <1>2, <1>3

LEMMA InitInv == Init => Inv
  <1> SUFFICES ASSUME Init PROVE Inv
    OBVIOUS
  <1> USE WhoIsWho
  <1>1. TypeOK
    BY DEF Init, TypeOK, Places
  <1>2. NoUnexpectedEmpty /\ ProducerInLoop
    BY DEF Init, NoUnexpectedEmpty, ProducerInLoop
  <1>3. WalksAreOwn
    BY DEF Init, WalksAreOwn
  <1>4. ASSUME NEW c \in Consumers PROVE SubscriptionInv(c)
    BY DEF Init, SubscriptionInv, One, At, Ended, Inside
  <1>5. StaysSubscribed
    BY DEF Init, StaysSubscribed
  <1>6. DeliversAllSinceSubscribe
    <2>1. << >> \o << >> = << >>
      OBVIOUS
    <2> QED BY <2>1 DEF Init, DeliversAllSinceSubscribe
  <1> QED BY <1>1, <1>2, <1>3, <1>4, <1>5, <1>6 DEF Inv

(***************************************************************************)
(* The type invariant.                                                     *)
(***************************************************************************)
LEMMA ConsumeTypes ==
    ASSUME Inv, NEW c \in Consumers, Consume(c)
    PROVE  TypeOK'
  <1> USE WhoIsWho DEF Inv, TypeOK, Goto, Places, shared
  <1>1. CASE Subscribe(c)
    <2>1. count[Feeder(In[c])] \in Nat
      OBVIOUS
    <2>2. subs' \in [Streams -> Seq(Consumers)]
      BY <1>1 DEF Subscribe
    <2>3. joined' \in [Consumers -> Nat]
      BY <1>1, <2>1 DEF Subscribe
    <2> QED BY <1>1, <2>2, <2>3 DEF Subscribe
  <1>2. CASE NextCheck(c)
    BY <1>2 DEF NextCheck
  <1>3. CASE TryData(c)
    BY <1>3 DEF TryData, AfterLoop
  <1>4. CASE WaitData(c)
    BY <1>4 DEF WaitData
  <1>5. CASE LockBuf(c)
    BY <1>5 DEF LockBuf
  <1>6. CASE EmptyBuf(c)
    BY <1>6 DEF EmptyBuf, AfterLoop
  <1>7. CASE PopFront(c)
    <2>1. Head(buffer[c]) \in Nat /\ Tail(buffer[c]) \in Seq(Nat)
      BY <1>7, HeadAndTail DEF PopFront
    <2>2. got' \in [Consumers -> Seq(Nat)] /\ buffer' \in [Consumers -> Seq(Nat)]
      BY <1>7, <2>1 DEF PopFront
    <2> QED BY <1>7, <2>2 DEF PopFront
  <1>8. CASE Rearm(c)
    BY <1>8 DEF Rearm
  <1> QED BY <1>1, <1>2, <1>3, <1>4, <1>5, <1>6, <1>7, <1>8 DEF Consume

LEMMA FeedTypes ==
    ASSUME Inv, NEW t \in Feeders, Feed(t)
    PROVE  TypeOK'
  <1> USE WhoIsWho, FeederOfStream DEF Inv, TypeOK, Goto, Places, shared
  <1>1. CASE BeginProducing(t)
    BY <1>1 DEF BeginProducing
  <1>2. CASE PushLock(t)
    BY <1>2 DEF PushLock
  <1>3. CASE PushBufLock(t)
    BY <1>3, HeadAndTail DEF PushBufLock
  <1>4. CASE PushAppend(t)
    <2>1. Head(todo[t]) \in Consumers
      BY <1>4, HeadAndTail DEF PushAppend, WalksAreOwn
    <2>2. \A c \in Consumers : buffer'[c] \in Seq(Nat)
      BY <1>4, <2>1 DEF PushAppend
    <2>3. buffer' \in [Consumers -> Seq(Nat)]
      BY <1>4, <2>2 DEF PushAppend
    <2> QED BY <1>4, <2>3 DEF PushAppend
  <1>5. CASE PushSignal(t)
    BY <1>5, HeadAndTail DEF PushSignal, WalksAreOwn
  <1>6. CASE PushUnlock(t)
    BY <1>6 DEF PushUnlock, ProducerInLoop
  <1>7. CASE TermLock(t)
    BY <1>7 DEF TermLock
  <1>8. CASE TermFlag(t)
    BY <1>8, HeadAndTail DEF TermFlag
  <1>9. CASE TermWake(t)
    BY <1>9, HeadAndTail DEF TermWake, WalksAreOwn
  <1>10. CASE TermClear(t)
    BY <1>10 DEF TermClear
  <1> QED BY <1>1, <1>2, <1>3, <1>4, <1>5, <1>6, <1>7, <1>8, <1>9, <1>10 DEF Feed

LEMMA MainTypes ==
    ASSUME Inv, Main
    PROVE  TypeOK'
  <1> USE DEF Inv, TypeOK, shared
  <1>1. CASE StartProducing
    BY <1>1 DEF StartProducing
  <1>2. CASE MainReturn
    BY <1>2 DEF MainReturn
  <1> QED BY <1>1, <1>2 DEF Main

(***************************************************************************)
(* What a step leaves alone.                                               *)
(***************************************************************************)
\* The subscription a feeder stands at is one of its own stream.
LEMMA VisitedIsOwn ==
    ASSUME Inv, NEW t \in Feeders, todo[t] # << >>
    PROVE  /\ Head(todo[t]) \in Consumers
           /\ In[Head(todo[t])] = Out[t]
           /\ Feeder(In[Head(todo[t])]) = t
  <1>1. todo[t] \in Seq(Consumers) /\ \A i \in DOMAIN todo[t] : In[todo[t][i]] = Out[t]
    BY DEF Inv, TypeOK, WalksAreOwn
  <1> QED BY <1>1, HeadAndTail, FeederOfStream

LEMMA ConsumeFrame ==
    ASSUME Inv, NEW c \in Consumers, Consume(c)
    PROVE  /\ todo' = todo /\ count' = count /\ terminated' = terminated
           /\ \A t \in Threads : t # c => pc'[t] = pc[t]
           /\ sMutex' = sMutex
           /\ \A d \in Consumers : d # c =>
                 /\ buffer'[d] = buffer[d] /\ nodata'[d] = nodata[d] /\ mutex'[d] = mutex[d]
                 /\ got'[d] = got[d] /\ joined'[d] = joined[d]
           /\ pc[c] \in {"start", "next", "trydata", "waitdata", "lockbuf", "inbuf", "rearm"}
           /\ pc'[c] \in {"next", "trydata", "waitdata", "lockbuf", "inbuf", "rearm",
                          "push", "term", "done"}
  <1>0. /\ pc \in [Threads -> Places] /\ c \in Threads
        /\ buffer \in [Consumers -> Seq(Nat)]
        /\ nodata \in [Consumers -> BOOLEAN]
        /\ mutex \in [Consumers -> BOOLEAN]
        /\ got \in [Consumers -> Seq(Nat)]
        /\ joined \in [Consumers -> Nat]
    BY WhoIsWho DEF Inv, TypeOK
  <1> USE <1>0 DEF Goto, shared
  <1>1. CASE Subscribe(c)
    BY <1>1 DEF Subscribe
  <1>2. CASE NextCheck(c)
    BY <1>2 DEF NextCheck
  <1>3. CASE TryData(c)
    BY <1>3 DEF TryData, AfterLoop
  <1>4. CASE WaitData(c)
    BY <1>4 DEF WaitData
  <1>5. CASE LockBuf(c)
    BY <1>5 DEF LockBuf
  <1>6. CASE EmptyBuf(c)
    BY <1>6 DEF EmptyBuf, AfterLoop
  <1>7. CASE PopFront(c)
    BY <1>7 DEF PopFront
  <1>8. CASE Rearm(c)
    BY <1>8 DEF Rearm
  <1> QED BY <1>1, <1>2, <1>3, <1>4, <1>5, <1>6, <1>7, <1>8 DEF Consume

LEMMA FeedFrame ==
    ASSUME Inv, NEW t \in Feeders, Feed(t)
    PROVE  /\ got' = got /\ joined' = joined
           /\ \A u \in Threads : u # t => pc'[u] = pc[u]
           /\ \A u \in Feeders : u # t => todo'[u] = todo[u] /\ count'[u] = count[u]
           /\ \A d \in Consumers : Feeder(In[d]) # t =>
                 /\ buffer'[d] = buffer[d] /\ nodata'[d] = nodata[d]
                 /\ mutex'[d] = mutex[d] /\ terminated'[d] = terminated[d]
           /\ pc[t] \notin {"next", "trydata", "waitdata", "lockbuf", "inbuf", "rearm", "done"}
           /\ pc'[t] \notin {"start", "trydata", "waitdata", "lockbuf", "inbuf", "rearm"}
           /\ t # Producer => (Ended(t)' <=> Ended(t))
  <1>0. /\ pc \in [Threads -> Places] /\ t \in Threads
        /\ todo \in [Feeders -> Seq(Consumers)]
        /\ count \in [Feeders -> Nat \ {0}]
        /\ buffer \in [Consumers -> Seq(Nat)]
        /\ nodata \in [Consumers -> BOOLEAN]
        /\ mutex \in [Consumers -> BOOLEAN]
        /\ terminated \in [Consumers -> BOOLEAN]
        /\ pc[t] \in {"append", "signal", "wake"} => todo[t] # << >>
    BY WhoIsWho DEF Inv, TypeOK, WalksAreOwn
  <1>00. todo[t] # << >> => Feeder(In[Head(todo[t])]) = t /\ Head(todo[t]) \in Consumers
    BY VisitedIsOwn
  <1> USE <1>0, <1>00 DEF Goto, shared, Ended
  <1>1. CASE BeginProducing(t)
    BY <1>1 DEF BeginProducing
  <1>2. CASE PushLock(t)
    BY <1>2 DEF PushLock
  <1>3. CASE PushBufLock(t)
    BY <1>3 DEF PushBufLock
  <1>4. CASE PushAppend(t)
    BY <1>4 DEF PushAppend
  <1>5. CASE PushSignal(t)
    BY <1>5 DEF PushSignal
  <1>6. CASE PushUnlock(t)
    BY <1>6 DEF PushUnlock
  <1>7. CASE TermLock(t)
    BY <1>7 DEF TermLock
  <1>8. CASE TermFlag(t)
    BY <1>8 DEF TermFlag
  <1>9. CASE TermWake(t)
    BY <1>9 DEF TermWake
  <1>10. CASE TermClear(t)
    BY <1>10 DEF TermClear
  <1> QED BY <1>1, <1>2, <1>3, <1>4, <1>5, <1>6, <1>7, <1>8, <1>9, <1>10 DEF Feed

(***************************************************************************)
(* A consumer's step and the invariant of each subscription.               *)
(***************************************************************************)
LEMMA ConsumeOther ==
    ASSUME Inv, NEW c \in Consumers, Consume(c), NEW d \in Consumers, d # c
    PROVE  SubscriptionInv(d)'
  <1> DEFINE f == Feeder(In[d])
  <1>1. f \in Threads /\ d \in Threads
    BY WhoIsWho
  <1>2. /\ pc'[d] = pc[d] /\ buffer'[d] = buffer[d] /\ nodata'[d] = nodata[d]
        /\ mutex'[d] = mutex[d] /\ terminated'[d] = terminated[d] /\ todo' = todo
    BY <1>1, ConsumeFrame
  <1>3. \A l \in {"append", "signal", "flag", "wake"} : pc'[f] = l <=> pc[f] = l
    BY <1>1, ConsumeFrame
  <1>4. pc[f] = "done" => pc'[f] = "done"
    BY <1>1, ConsumeFrame
  <1>5. SubscriptionInv(d)
    BY DEF Inv
  <1> HIDE DEF f
  <1> QED BY <1>2, <1>3, <1>4, <1>5 DEF SubscriptionInv, At, Ended, Inside, One, f

LEMMA ConsumeOwn ==
    ASSUME Inv, NEW c \in Consumers, Consume(c)
    PROVE  SubscriptionInv(c)'
  <1> DEFINE f == Feeder(In[c])
  <1>1. f \in Threads /\ f \in Feeders /\ c \in Threads /\ f # c
    BY WhoIsWho
  <1>2. /\ pc \in [Threads -> Places]
        /\ buffer \in [Consumers -> Seq(Nat)] /\ buffer[c] \in Seq(Nat)
        /\ nodata \in [Consumers -> BOOLEAN]
        /\ mutex \in [Consumers -> BOOLEAN]
    BY DEF Inv, TypeOK
  <1>3. pc'[f] = pc[f] /\ todo' = todo /\ terminated' = terminated
    BY <1>1, ConsumeFrame
  <1>4. SubscriptionInv(c)
    BY DEF Inv
  <1> HIDE DEF f
  <1> USE <1>1, <1>2, <1>3, <1>4 DEF Goto, shared, SubscriptionInv, At, Ended, Inside, One, f
  <1>11. CASE Subscribe(c)
    BY <1>11 DEF Subscribe
  <1>12. CASE NextCheck(c)
    BY <1>12 DEF NextCheck
  <1>13. CASE TryData(c)
    BY <1>13 DEF TryData, AfterLoop
  <1>14. CASE WaitData(c)
    BY <1>14 DEF WaitData
  <1>15. CASE LockBuf(c)
    BY <1>15 DEF LockBuf
  <1>16. CASE EmptyBuf(c)
    BY <1>16 DEF EmptyBuf, AfterLoop
  <1>17. CASE PopFront(c)
    BY <1>17 DEF PopFront
  <1>18. CASE Rearm(c)
    <2>1. ~ mutex'[c] /\ buffer' = buffer /\ pc'[c] \in {"push", "next"}
      BY <1>18 DEF Rearm
    <2>2. nodata'[c] = (nodata[c] /\ buffer[c] = << >>)
      BY <1>18 DEF Rearm
    <2>3. buffer[c] # << >> => Len(buffer[c]) >= 1
      OBVIOUS
    <2>4. pc[c] = "rearm"
      BY <1>18 DEF Rearm
    <2>5. buffer[c] = << >> => nodata'[c] = nodata[c]
      BY <2>2
    <2>6. buffer[c] # << >> => nodata'[c] = FALSE
      BY <2>2
    <2>7. ~ At(f, "append", c) /\ ~ At(f, "signal", c)
      BY <2>4
    <2> QED BY <2>1, <2>3, <2>4, <2>5, <2>6, <2>7
  <1> QED BY <1>11, <1>12, <1>13, <1>14, <1>15, <1>16, <1>17, <1>18 DEF Consume

(***************************************************************************)
(* A feeder's step and the invariant of each subscription.                 *)
(***************************************************************************)
LEMMA FeedOther ==
    ASSUME Inv, NEW t \in Feeders, Feed(t), NEW d \in Consumers, Feeder(In[d]) # t
    PROVE  SubscriptionInv(d)'
  <1> DEFINE f == Feeder(In[d])
  <1>1. f \in Threads /\ f \in Feeders /\ d \in Threads /\ d # Producer
    BY WhoIsWho
  <1>2. /\ buffer'[d] = buffer[d] /\ nodata'[d] = nodata[d]
        /\ mutex'[d] = mutex[d] /\ terminated'[d] = terminated[d]
        /\ pc'[f] = pc[f] /\ todo'[f] = todo[f]
    BY <1>1, FeedFrame
  <1>3. /\ \A l \in {"trydata", "lockbuf", "inbuf", "rearm"} : pc'[d] = l <=> pc[d] = l
        /\ Ended(d)' <=> Ended(d)
    <2>1. CASE d = t
      BY <1>1, <2>1, FeedFrame
    <2>2. CASE d # t
      BY <1>1, <2>2, FeedFrame DEF Ended
    <2> QED BY <2>1, <2>2
  <1>4. SubscriptionInv(d)
    BY DEF Inv
  <1> HIDE DEF f
  <1> QED BY <1>2, <1>3, <1>4 DEF SubscriptionInv, At, Inside, One, f

LEMMA FeedOwn ==
    ASSUME Inv, NEW t \in Feeders, Feed(t), NEW d \in Consumers, Feeder(In[d]) = t
    PROVE  SubscriptionInv(d)'
  <1>1. t \in Threads /\ d \in Threads /\ d # t
    BY WhoIsWho
  <1>2. /\ pc \in [Threads -> Places]
        /\ todo \in [Feeders -> Seq(Consumers)]
        /\ buffer \in [Consumers -> Seq(Nat)] /\ buffer[d] \in Seq(Nat)
        /\ count[t] \in Nat
        /\ nodata \in [Consumers -> BOOLEAN]
        /\ mutex \in [Consumers -> BOOLEAN]
        /\ terminated \in [Consumers -> BOOLEAN]
        /\ pc[t] \in {"append", "signal", "wake"} => todo[t] # << >>
    BY WhoIsWho DEF Inv, TypeOK, WalksAreOwn
  <1>3. pc'[d] = pc[d]
    BY <1>1, FeedFrame
  <1>4. SubscriptionInv(d)
    BY DEF Inv
  <1>5. todo[t] # << >> => Head(todo[t]) \in Consumers
    BY VisitedIsOwn
  <1> USE <1>1, <1>2, <1>3, <1>4, <1>5
      DEF Goto, shared, SubscriptionInv, At, Ended, Inside, One
  <1>11. CASE BeginProducing(t)
    BY <1>11 DEF BeginProducing
  <1>12. CASE PushLock(t)
    BY <1>12 DEF PushLock
  <1>13. CASE PushBufLock(t)
    BY <1>13 DEF PushBufLock
  <1>14. CASE PushAppend(t)
    BY <1>14 DEF PushAppend
  <1>15. CASE PushSignal(t)
    BY <1>15 DEF PushSignal
  <1>16. CASE PushUnlock(t)
    BY <1>16 DEF PushUnlock
  <1>17. CASE TermLock(t)
    BY <1>17 DEF TermLock
  <1>18. CASE TermFlag(t)
    BY <1>18 DEF TermFlag
  <1>19. CASE TermWake(t)
    BY <1>19 DEF TermWake
  <1>20. CASE TermClear(t)
    BY <1>20 DEF TermClear
  <1> QED BY <1>11, <1>12, <1>13, <1>14, <1>15, <1>16, <1>17, <1>18, <1>19, <1>20 DEF Feed

LEMMA MainSub ==
    ASSUME Inv, Main, NEW d \in Consumers
    PROVE  SubscriptionInv(d)'
  <1>1. SubscriptionInv(d) /\ Feeder(In[d]) \in Threads /\ d \in Threads
    BY WhoIsWho DEF Inv
  <1>2. CASE StartProducing
    BY <1>1, <1>2 DEF StartProducing, SubscriptionInv, At, Ended, Inside, One, shared
  <1>3. CASE MainReturn
    BY <1>1, <1>3 DEF MainReturn, SubscriptionInv, At, Ended, Inside, One
  <1> QED BY <1>2, <1>3 DEF Main

(***************************************************************************)
(* The walks and the producer's counter.                                   *)
(***************************************************************************)
LEMMA ConsumeWalks ==
    ASSUME Inv, NEW c \in Consumers, Consume(c)
    PROVE  WalksAreOwn'
  <1>1. /\ subs \in [Streams -> Seq(Consumers)] /\ c \in Threads
        /\ todo \in [Feeders -> Seq(Consumers)]
        /\ In[c] \in Streams /\ subs[In[c]] \in Seq(Consumers)
        /\ \A f \in Feeders : f \in Threads
        /\ Consumers \subseteq Threads
        /\ pc \in [Threads -> Places]
        /\ WalksAreOwn
    BY WhoIsWho DEF Inv, TypeOK
  <1>2. \A d \in Consumers : pc[d] # "start" => pc'[d] # "start"
    BY <1>1, ConsumeFrame
  <1>3. \A s \in Streams : \A i \in DOMAIN subs[s] : subs[s][i] \in Consumers
    BY <1>1
  <1>4. ASSUME NEW s \in Streams, NEW i \in DOMAIN subs'[s]
        PROVE  /\ In[subs'[s][i]] = s /\ pc'[subs'[s][i]] # "start"
               /\ \A j \in DOMAIN subs'[s] : subs'[s][i] = subs'[s][j] => i = j
    <2>1. CASE subs'[s] = subs[s]
      BY <1>1, <1>2, <1>3, <1>4, <2>1 DEF WalksAreOwn
    <2>2. CASE subs'[s] # subs[s]
      <3>0. Subscribe(c)
        BY <2>2 DEF Consume, NextCheck, TryData, WaitData, LockBuf, EmptyBuf, PopFront, Rearm, shared
      <3>1. /\ s = In[c] /\ subs'[s] = Append(subs[s], c) /\ subs[s] \in Seq(Consumers)
            /\ pc[c] = "start" /\ pc'[c] # "start"
        BY <1>1, <2>2, <3>0 DEF Subscribe, Goto
      <3>2. \A j \in DOMAIN subs[s] :
               /\ In[subs[s][j]] = s /\ pc[subs[s][j]] # "start" /\ pc'[subs[s][j]] # "start"
               /\ subs[s][j] # c
        BY <1>1, <1>2, <1>3, <3>1 DEF WalksAreOwn
      <3>3. /\ \A j \in DOMAIN subs[s] : subs'[s][j] = subs[s][j]
            /\ subs'[s][Len(subs[s]) + 1] = c
            /\ \A j \in DOMAIN subs'[s] : j \in DOMAIN subs[s] \/ j = Len(subs[s]) + 1
        BY <3>1
      <3>4. \A j, k \in DOMAIN subs[s] : subs[s][j] = subs[s][k] => j = k
        BY <1>1 DEF WalksAreOwn
      <3> QED BY <1>4, <3>1, <3>2, <3>3, <3>4
    <2> QED BY <2>1, <2>2
  <1>5. /\ \A f \in Feeders : pc'[f] \in {"visit", "append", "signal", "flag", "wake"} => pc'[f] = pc[f]
        /\ todo' = todo /\ sMutex' = sMutex
    BY <1>1, ConsumeFrame
  <1>6. \A f \in Feeders : \A i \in DOMAIN todo[f] : todo[f][i] \in Consumers
    BY <1>1
  <1> QED BY <1>1, <1>2, <1>4, <1>5, <1>6 DEF WalksAreOwn

\* A walk of feeder f over the sequence w of subscriptions.
Walk(f, w) ==
    \A i \in DOMAIN w : /\ In[w[i]] = Out[f] /\ pc[w[i]] # "start"
                        /\ \A j \in DOMAIN w : w[i] = w[j] => i = j

LEMMA FeedWalks ==
    ASSUME Inv, NEW t \in Feeders, Feed(t)
    PROVE  WalksAreOwn'
  <1>1. /\ subs \in [Streams -> Seq(Consumers)]
        /\ todo \in [Feeders -> Seq(Consumers)] /\ todo[t] \in Seq(Consumers)
        /\ sMutex \in [Streams -> BOOLEAN]
        /\ pc \in [Threads -> Places] /\ t \in Threads
        /\ Out[t] \in Streams
        /\ \A f \in Feeders : f \in Threads
        /\ Consumers \subseteq Threads
        /\ WalksAreOwn
    BY WhoIsWho, FeederOfStream DEF Inv, TypeOK
  <1>2. \A s \in Streams : subs'[s] = subs[s] \/ subs'[s] = << >>
    BY <1>1 DEF Feed, BeginProducing, PushLock, PushBufLock, PushAppend, PushSignal, PushUnlock,
                TermLock, TermFlag, TermWake, TermClear, shared
  <1>3. \A d \in Consumers : pc[d] # "start" => pc'[d] # "start"
    BY <1>1, FeedFrame
  <1>4. ASSUME NEW s \in Streams, NEW i \in DOMAIN subs'[s]
        PROVE  /\ In[subs'[s][i]] = s /\ pc'[subs'[s][i]] # "start"
               /\ \A j \in DOMAIN subs'[s] : subs'[s][i] = subs'[s][j] => i = j
    <2>1. CASE subs'[s] = << >>
      BY <1>4, <2>1
    <2>2. CASE subs'[s] = subs[s]
      <3>1. subs[s][i] \in Consumers
        BY <1>1, <1>4, <2>2
      <3> QED BY <1>1, <1>3, <1>4, <2>2, <3>1 DEF WalksAreOwn
    <2> QED BY <1>2, <2>1, <2>2
  <1>5. \/ todo'[t] = todo[t]
        \/ todo'[t] = subs[Out[t]]
        \/ todo[t] # << >> /\ todo'[t] = Tail(todo[t])
    BY <1>1 DEF Feed, BeginProducing, PushLock, PushBufLock, PushAppend, PushSignal, PushUnlock,
                TermLock, TermFlag, TermWake, TermClear, shared, WalksAreOwn
  <1>6. Walk(t, todo'[t])
    <2>1. Walk(t, todo[t]) /\ Walk(t, subs[Out[t]])
      BY <1>1 DEF WalksAreOwn, Walk
    <2>2. CASE todo[t] # << >> /\ todo'[t] = Tail(todo[t])
      <3>1. \A i \in DOMAIN Tail(todo[t]) :
               /\ i + 1 \in DOMAIN todo[t] /\ Tail(todo[t])[i] = todo[t][i + 1] /\ i \in Nat
        BY <1>1, <2>2, HeadAndTail
      <3>2. \A i, j \in Nat : i + 1 = j + 1 => i = j
        OBVIOUS
      <3> QED BY <2>1, <2>2, <3>1, <3>2 DEF Walk
    <2> QED BY <1>5, <2>1, <2>2
  <1>7. pc'[t] \in {"append", "signal", "wake"} => todo[t] # << >> /\ todo'[t] = todo[t]
    BY <1>1 DEF Feed, BeginProducing, PushLock, PushBufLock, PushAppend, PushSignal, PushUnlock,
                TermLock, TermFlag, TermWake, TermClear, shared, WalksAreOwn, Goto
  <1>8. /\ pc'[t] \in {"visit", "append", "signal", "flag", "wake"} => sMutex'[Out[t]]
        /\ \A s \in Streams : s # Out[t] => sMutex'[s] = sMutex[s]
    BY <1>1 DEF Feed, BeginProducing, PushLock, PushBufLock, PushAppend, PushSignal, PushUnlock,
                TermLock, TermFlag, TermWake, TermClear, shared, WalksAreOwn, Goto
  <1>9. ASSUME NEW f \in Feeders
        PROVE  /\ Walk(f, todo'[f])
               /\ pc'[f] \in {"append", "signal", "wake"} => todo'[f] # << >>
               /\ pc'[f] \in {"visit", "append", "signal", "flag", "wake"} => sMutex'[Out[f]]
    <2>1. CASE f = t
      BY <1>6, <1>7, <1>8, <2>1
    <2>2. CASE f # t
      <3>1. todo'[f] = todo[f] /\ pc'[f] = pc[f]
        BY <1>1, <2>2, FeedFrame
      <3>2. Out[f] \in Streams /\ Out[f] # Out[t]
        BY <2>2, FeederOfStream
      <3>3. Walk(f, todo[f])
        BY <1>1 DEF WalksAreOwn, Walk
      <3> QED BY <1>1, <1>8, <3>1, <3>2, <3>3 DEF WalksAreOwn
    <2> QED BY <2>1, <2>2
  <1>10. todo'[t] \in Seq(Consumers) /\ \A f \in Feeders : todo'[f] \in Seq(Consumers)
    BY FeedTypes DEF TypeOK
  <1>11. \A f \in Feeders : \A i \in DOMAIN todo'[f] : todo'[f][i] \in Consumers
    BY <1>10
  <1> QED BY <1>3, <1>4, <1>9, <1>11 DEF WalksAreOwn, Walk

LEMMA MainWalks ==
    ASSUME Inv, Main
    PROVE  WalksAreOwn'
  BY DEF Main, StartProducing, MainReturn, Inv, WalksAreOwn, shared

LEMMA StepProducer ==
    ASSUME Inv, [Next]_vars
    PROVE  ProducerInLoop'
  <1>1. /\ pc \in [Threads -> Places] /\ Producer \in Threads /\ Producer \in Feeders
        /\ count \in [Feeders -> Nat \ {0}] /\ N \in Nat
        /\ ProducerInLoop
    BY WhoIsWho DEF Inv, TypeOK
  <1>2. ASSUME NEW c \in Consumers, Consume(c)
        PROVE  ProducerInLoop'
    BY <1>1, <1>2, WhoIsWho, ConsumeFrame DEF ProducerInLoop
  <1>3. ASSUME NEW t \in Feeders, Feed(t)
        PROVE  ProducerInLoop'
    <2>1. CASE t # Producer
      BY <1>1, <1>3, <2>1, FeedFrame DEF ProducerInLoop
    <2>2. CASE t = Producer
      BY <1>1, <1>3, <2>2 DEF ProducerInLoop, Feed, BeginProducing, PushLock, PushBufLock,
           PushAppend, PushSignal, PushUnlock, TermLock, TermFlag, TermWake, TermClear,
           shared, Goto
    <2> QED BY <2>1, <2>2
  <1>4. CASE Main
    BY <1>1, <1>4 DEF Main, StartProducing, MainReturn, ProducerInLoop
  <1>5. CASE UNCHANGED vars
    BY <1>1, <1>5 DEF ProducerInLoop, vars
  <1> QED BY <1>2, <1>3, <1>4, <1>5 DEF Next, Step

\* exit(9) is never reached: a consumer behind its m_mutex holds a token, and with
\* an empty buffer only the end of the stream can have given it one.
LEMMA StepNotEmpty ==
    ASSUME Inv, [Next]_vars
    PROVE  NoUnexpectedEmpty'
  <1>1. NoUnexpectedEmpty
    BY DEF Inv
  <1>2. ASSUME NEW c \in Consumers, Consume(c)
        PROVE  main' = main
    <2>1. CASE EmptyBuf(c)
      <3>1. buffer[c] = << >> /\ pc[c] = "inbuf"
        BY <2>1 DEF EmptyBuf
      <3>2. ~ terminated[c] => Len(buffer[c]) >= 1
        BY <3>1, WhoIsWho DEF Inv, SubscriptionInv, One
      <3>3. terminated[c]
        BY <3>1, <3>2
      <3> QED BY <2>1, <3>3 DEF EmptyBuf
    <2> QED BY <1>2, <2>1 DEF Consume, Subscribe, NextCheck, TryData, WaitData, LockBuf,
                              PopFront, Rearm
  <1>3. ASSUME NEW t \in Feeders, Feed(t)
        PROVE  main' = main
    BY <1>3 DEF Feed, BeginProducing, PushLock, PushBufLock, PushAppend, PushSignal, PushUnlock,
                TermLock, TermFlag, TermWake, TermClear
  <1>4. Main => main' # "exit9"
    BY DEF Main, StartProducing, MainReturn
  <1>5. UNCHANGED vars => main' = main
    BY DEF vars
  <1> QED BY <1>1, <1>2, <1>3, <1>4, <1>5 DEF Next, Step, NoUnexpectedEmpty

(***************************************************************************)
(* What is handed out.                                                     *)
(***************************************************************************)
LEMMA AppendBehind ==
    \A r, s \in Seq(Nat) : \A e \in Nat : r \o Append(s, e) = Append(r \o s, e)
  OBVIOUS

LEMMA AppendKeeps ==
    ASSUME NEW S, NEW s \in Seq(S), NEW e \in S
    PROVE  \A i \in DOMAIN s : i \in DOMAIN Append(s, e) /\ Append(s, e)[i] = s[i]
  OBVIOUS

LEMMA BehindHead ==
    ASSUME NEW S, NEW s \in Seq(S), s # << >>
    PROVE  \A i \in DOMAIN s :
              i = 1 \/ (i - 1 \in DOMAIN Tail(s) /\ Tail(s)[i - 1] = s[i])
  <1>1. Len(s) \in Nat /\ DOMAIN s = 1 .. Len(s)
    OBVIOUS
  <1>2. /\ DOMAIN Tail(s) = 1 .. Len(s) - 1
        /\ \A i \in 1 .. Len(s) - 1 : Tail(s)[i] = s[i + 1]
    OBVIOUS
  <1> QED BY <1>1, <1>2

LEMMA MoveHead ==
    ASSUME NEW S, NEW s \in Seq(S), NEW t \in Seq(S), t # << >>
    PROVE  Append(s, Head(t)) \o Tail(t) = s \o t
  OBVIOUS

LEMMA FramesGrow ==
    ASSUME NEW a \in Nat, NEW b \in Nat, a <= b + 1
    PROVE  Append(Frames(a, b), b + 1) = Frames(a, b + 1)
  BY DEF Frames

LEMMA FramesNone ==
    ASSUME NEW a \in Nat \ {0}
    PROVE  Frames(a, a - 1) = << >>
  BY DEF Frames

\* Both of the last two parts of Inv for the subscription c.
Delivery(c) ==
    /\ pc[c] # "start" =>
          /\ joined[c] <= LastPushed(c) + 1
          /\ pc[Feeder(In[c])] # "done" => Subscribed(c)
    /\ got[c] \o buffer[c] =
          IF pc[c] = "start" THEN << >> ELSE Frames(joined[c], LastPushed(c))

LEMMA ConsumeDelivery ==
    ASSUME Inv, NEW c \in Consumers, Consume(c), NEW d \in Consumers
    PROVE  Delivery(d)'
  <1> DEFINE f == Feeder(In[d])
             last == LastPushed(d)
  <1>1. /\ f \in Threads /\ f \in Feeders /\ c \in Threads /\ d \in Threads
        /\ pc \in [Threads -> Places]
        /\ count[f] \in Nat \ {0}
        /\ In[c] \in Streams /\ In[d] \in Streams /\ Out[f] = In[d]
        /\ subs \in [Streams -> Seq(Consumers)] /\ subs[In[d]] \in Seq(Consumers)
        /\ got \in [Consumers -> Seq(Nat)] /\ got[d] \in Seq(Nat)
        /\ buffer \in [Consumers -> Seq(Nat)] /\ buffer[d] \in Seq(Nat)
        /\ joined \in [Consumers -> Nat]
    BY WhoIsWho DEF Inv, TypeOK
  <1>2. Delivery(d)
    BY DEF Inv, StaysSubscribed, DeliversAllSinceSubscribe, Delivery
  <1>3. /\ todo' = todo /\ count' = count
        /\ \A l \in {"visit", "append", "signal"} : pc'[f] = l <=> pc[f] = l
        /\ pc[f] = "done" => pc'[f] = "done"
    BY <1>1, ConsumeFrame
  <1>4. LastPushed(d)' = last
    BY <1>3 DEF LastPushed, At
  <1>5. Subscribed(d) => Subscribed(d)'
    <2>1. CASE subs'[In[d]] = subs[In[d]]
      BY <2>1 DEF Subscribed
    <2>2. CASE subs'[In[d]] # subs[In[d]]
      <3>1. subs'[In[d]] = Append(subs[In[d]], c)
        BY <1>1, <2>2 DEF Consume, Subscribe, NextCheck, TryData, WaitData, LockBuf,
                          EmptyBuf, PopFront, Rearm, shared
      <3>2. \A i \in DOMAIN subs[In[d]] :
               i \in DOMAIN subs'[In[d]] /\ subs'[In[d]][i] = subs[In[d]][i]
        BY <1>1, <3>1, AppendKeeps
      <3> QED BY <3>2 DEF Subscribed
    <2> QED BY <2>1, <2>2
  <1>6. CASE d # c
    <2>1. pc'[d] = pc[d] /\ got'[d] = got[d] /\ buffer'[d] = buffer[d] /\ joined'[d] = joined[d]
      BY <1>1, <1>6, ConsumeFrame
    <2>2. pc'[f] # "done" => pc[f] # "done"
      BY <1>3
    <2> HIDE DEF f, last
    <2> QED BY <1>2, <1>4, <1>5, <2>1, <2>2 DEF Delivery, f, last
  <1>7. CASE d = c /\ Subscribe(c)
    <2>1. /\ pc[c] = "start" /\ pc'[c] # "start" /\ ~ sMutex[In[c]]
          /\ joined'[c] = count[f]
          /\ got'[c] = got[c] /\ buffer'[c] = buffer[c]
          /\ subs'[In[c]] = Append(subs[In[c]], c)
      BY <1>1, <1>7 DEF Subscribe, Goto
    <2>2. pc[f] \notin {"visit", "append", "signal"}
      BY <1>1, <1>7, <2>1 DEF Inv, WalksAreOwn
    <2>3. last = count[f] - 1
      BY <2>2 DEF LastPushed
    <2>4. Subscribed(d)'
      <3>1. /\ Len(subs[In[c]]) + 1 \in DOMAIN subs'[In[c]]
            /\ subs'[In[c]][Len(subs[In[c]]) + 1] = c
        BY <1>1, <1>7, <2>1
      <3> QED BY <1>7, <3>1 DEF Subscribed
    <2>5. got[d] \o buffer[d] = << >>
      BY <1>2, <1>7, <2>1 DEF Delivery
    <2>6. Frames(joined'[d], last) = << >>
      BY <1>1, <1>7, <2>1, <2>3, FramesNone
    <2>7. joined'[d] <= last + 1
      BY <1>1, <1>7, <2>1, <2>3
    <2> HIDE DEF f, last
    <2> QED BY <1>4, <1>7, <2>1, <2>4, <2>5, <2>6, <2>7 DEF Delivery
  <1>8. CASE d = c /\ ~ Subscribe(c)
    <2>1. pc[c] # "start" /\ pc'[c] # "start" /\ joined' = joined
      BY <1>1, <1>8 DEF Consume, Subscribe, NextCheck, TryData, WaitData, LockBuf,
                        EmptyBuf, PopFront, Rearm, Goto, AfterLoop
    <2>2. got'[c] \o buffer'[c] = got[c] \o buffer[c]
      <3>1. CASE PopFront(c)
        <4>1. /\ got'[c] = Append(got[c], Head(buffer[c]))
              /\ buffer'[c] = Tail(buffer[c])
              /\ buffer[c] # << >>
          BY <1>1, <1>8, <3>1 DEF PopFront
        <4>2. got[c] \in Seq(Nat) /\ buffer[c] \in Seq(Nat)
          BY <1>1, <1>8
        <4>3. Append(got[c], Head(buffer[c])) \o Tail(buffer[c]) = got[c] \o buffer[c]
          BY <4>1, <4>2, MoveHead
        <4> QED BY <4>1, <4>3
      <3>2. CASE ~ PopFront(c)
        <4>1. got' = got /\ buffer' = buffer
          BY <1>8, <3>2 DEF Consume, NextCheck, TryData, WaitData, LockBuf, EmptyBuf, Rearm, shared
        <4> QED BY <4>1
      <3> QED BY <3>1, <3>2
    <2>3. pc'[f] # "done" => pc[f] # "done"
      BY <1>3
    <2> HIDE DEF f, last
    <2> QED BY <1>2, <1>4, <1>5, <1>8, <2>1, <2>2, <2>3 DEF Delivery, f, last
  <1> QED BY <1>6, <1>7, <1>8

LEMMA FeedDeliveryOther ==
    ASSUME Inv, NEW t \in Feeders, Feed(t), NEW d \in Consumers, Feeder(In[d]) # t
    PROVE  Delivery(d)'
  <1> DEFINE f == Feeder(In[d])
  <1>1. /\ f \in Threads /\ f \in Feeders /\ d \in Threads /\ d # Producer /\ t \in Threads
        /\ In[d] \in Streams /\ Out[t] \in Streams /\ Out[t] # In[d]
        /\ subs \in [Streams -> Seq(Consumers)]
        /\ pc \in [Threads -> Places]
    BY WhoIsWho, FeederOfStream DEF Inv, TypeOK
  <1>2. Delivery(d)
    BY DEF Inv, StaysSubscribed, DeliversAllSinceSubscribe, Delivery
  <1>3. /\ buffer'[d] = buffer[d] /\ got' = got /\ joined' = joined
        /\ pc'[f] = pc[f] /\ todo'[f] = todo[f] /\ count'[f] = count[f]
    BY <1>1, FeedFrame
  <1>4. pc'[d] = "start" <=> pc[d] = "start"
    <2>1. CASE d = t
      BY <1>1, <2>1 DEF Feed, BeginProducing, PushLock, PushBufLock, PushAppend, PushSignal, PushUnlock,
                        TermLock, TermFlag, TermWake, TermClear, Goto
    <2>2. CASE d # t
      BY <1>1, <2>2, FeedFrame
    <2> QED BY <2>1, <2>2
  <1>5. subs'[In[d]] = subs[In[d]]
    BY <1>1 DEF Feed, BeginProducing, PushLock, PushBufLock, PushAppend, PushSignal, PushUnlock,
                TermLock, TermFlag, TermWake, TermClear, shared
  <1>6. LastPushed(d)' = LastPushed(d) /\ (Subscribed(d)' <=> Subscribed(d))
    BY <1>3, <1>5 DEF LastPushed, Subscribed, At
  <1> HIDE DEF f
  <1> QED BY <1>2, <1>3, <1>4, <1>6 DEF Delivery, f

\* A feeder appends to each subscription of its walk, and to no other, the frame that
\* follows the last one it got.
LEMMA FeedDeliveryOwn ==
    ASSUME Inv, NEW t \in Feeders, Feed(t), NEW d \in Consumers, Feeder(In[d]) = t
    PROVE  Delivery(d)'
  <1>1. /\ t \in Threads /\ d \in Threads /\ d # t
        /\ Out[t] = In[d] /\ In[d] \in Streams
        /\ pc \in [Threads -> Places]
        /\ todo \in [Feeders -> Seq(Consumers)] /\ todo[t] \in Seq(Consumers)
        /\ subs \in [Streams -> Seq(Consumers)]
        /\ count \in [Feeders -> Nat \ {0}] /\ count[t] \in Nat \ {0}
        /\ got \in [Consumers -> Seq(Nat)] /\ got[d] \in Seq(Nat)
        /\ buffer \in [Consumers -> Seq(Nat)] /\ buffer[d] \in Seq(Nat)
        /\ joined \in [Consumers -> Nat] /\ joined[d] \in Nat
        /\ pc[t] \in {"append", "signal", "wake"} => todo[t] # << >>
    BY WhoIsWho DEF Inv, TypeOK, WalksAreOwn
  <1>2. Delivery(d)
    BY DEF Inv, StaysSubscribed, DeliversAllSinceSubscribe, Delivery
  <1>3. pc'[d] = pc[d] /\ got' = got /\ joined' = joined
    BY <1>1, FeedFrame
  <1>4. \A i \in DOMAIN todo[t] :
           /\ pc[todo[t][i]] # "start"
           /\ \A j \in DOMAIN todo[t] : todo[t][i] = todo[t][j] => i = j
    BY DEF Inv, WalksAreOwn
  <1>5. todo[t] # << >> => Head(todo[t]) = todo[t][1] /\ 1 \in DOMAIN todo[t]
    BY <1>1, HeadAndTail
  <1>6. pc'[t] # "done" => pc[t] # "done" /\ subs' = subs
    BY <1>1 DEF Feed, BeginProducing, PushLock, PushBufLock, PushAppend, PushSignal, PushUnlock,
                TermLock, TermFlag, TermWake, TermClear, shared, Goto
  <1>7. CASE PushAppend(t) /\ Head(todo[t]) = d
    <2>1. /\ pc[t] = "append" /\ pc'[t] = "signal" /\ todo' = todo /\ count' = count
          /\ todo[t] # << >>
          /\ buffer'[d] = Append(buffer[d], count[t])
      BY <1>1, <1>7 DEF PushAppend, Goto
    <2>2. pc[d] # "start" /\ \E i \in DOMAIN todo[t] : todo[t][i] = d
      BY <1>4, <1>5, <1>7, <2>1
    <2>3. LastPushed(d) = count[t] - 1
      BY <2>1, <2>2 DEF LastPushed, At
    <2>4. LastPushed(d)' = count[t]
      BY <1>7, <2>1 DEF LastPushed, At
    <2>5. /\ joined[d] <= count[t]
          /\ got[d] \o buffer[d] = Frames(joined[d], count[t] - 1)
      BY <1>1, <1>2, <2>2, <2>3 DEF Delivery
    <2>6. got[d] \o buffer'[d] = Append(got[d] \o buffer[d], count[t])
      <3>1. got[d] \in Seq(Nat) /\ buffer[d] \in Seq(Nat) /\ count[t] \in Nat
        BY <1>1
      <3>2. got[d] \o Append(buffer[d], count[t]) = Append(got[d] \o buffer[d], count[t])
        BY <3>1, AppendBehind, Zenon
      <3> QED BY <2>1, <3>2
    <2>7. Append(Frames(joined[d], count[t] - 1), count[t]) = Frames(joined[d], count[t])
      <3>1. count[t] - 1 \in Nat /\ (count[t] - 1) + 1 = count[t]
        BY <1>1
      <3> HIDE DEF Frames
      <3> QED BY <1>1, <2>5, <3>1, FramesGrow
    <2>8. joined[d] <= count[t] + 1
      BY <1>1, <2>5
    <2>9. pc[t] # "done" /\ subs' = subs
      BY <1>6, <2>1
    <2> QED BY <1>2, <1>3, <2>2, <2>4, <2>5, <2>6, <2>7, <2>8, <2>9 DEF Delivery, Subscribed
  <1>8. CASE ~ (PushAppend(t) /\ Head(todo[t]) = d)
    <2>1. buffer'[d] = buffer[d]
      BY <1>1, <1>8 DEF Feed, BeginProducing, PushLock, PushBufLock, PushAppend, PushSignal, PushUnlock,
                  TermLock, TermFlag, TermWake, TermClear, shared
    <2>2. CASE pc[d] = "start"
      BY <1>2, <1>3, <2>1, <2>2 DEF Delivery
    <2>3. CASE pc[d] # "start"
      <3>1. LastPushed(d)' = LastPushed(d)
        <4>1. CASE PushLock(t)
          <5>1. Subscribed(d)
            BY <1>2, <2>3, <4>1 DEF Delivery, PushLock
          <5>2. pc[t] = "push" /\ pc'[t] = "visit" /\ todo'[t] = subs[In[d]] /\ count' = count
            BY <1>1, <4>1 DEF PushLock, Goto
          <5> QED BY <5>1, <5>2 DEF LastPushed, Subscribed, At
        <4>2. CASE PushBufLock(t)
          BY <1>1, <4>2 DEF PushBufLock, Goto, LastPushed, At
        <4>3. CASE PushAppend(t)
          <5>1. pc[t] = "append" /\ pc'[t] = "signal" /\ todo' = todo /\ count' = count
            BY <1>1, <4>3 DEF PushAppend, Goto
          <5> QED BY <1>8, <4>3, <5>1 DEF LastPushed, At
        <4>4. CASE PushSignal(t)
          <5>1. /\ pc[t] = "signal" /\ pc'[t] = "visit" /\ count' = count
                /\ todo'[t] = Tail(todo[t]) /\ todo[t] # << >>
            BY <1>1, <4>4 DEF PushSignal, Goto
          <5>2. \A i \in DOMAIN Tail(todo[t]) :
                   i + 1 \in DOMAIN todo[t] /\ i + 1 # 1 /\ Tail(todo[t])[i] = todo[t][i + 1]
            BY <1>1, <5>1, HeadAndTail
          <5>3. CASE Head(todo[t]) = d
            <6>1. \A i \in DOMAIN Tail(todo[t]) : Tail(todo[t])[i] # d
              BY <1>4, <1>5, <5>1, <5>2, <5>3
            <6> QED BY <5>1, <5>3, <6>1 DEF LastPushed, At
          <5>4. CASE Head(todo[t]) # d
            <6>1. (\A i \in DOMAIN Tail(todo[t]) : Tail(todo[t])[i] # d)
                    <=> (\A i \in DOMAIN todo[t] : todo[t][i] # d)
              <7>1. \A i \in DOMAIN todo[t] :
                       i = 1 \/ (i - 1 \in DOMAIN Tail(todo[t]) /\ Tail(todo[t])[i - 1] = todo[t][i])
                BY <1>1, <5>1, BehindHead
              <7> QED BY <1>5, <5>1, <5>2, <5>4, <7>1
            <6> QED BY <5>1, <5>4, <6>1 DEF LastPushed, At
          <5> QED BY <5>3, <5>4
        <4>5. CASE PushUnlock(t)
          <5>1. /\ pc[t] = "visit" /\ pc'[t] \notin {"visit", "append", "signal"}
                /\ todo[t] = << >> /\ count'[t] = count[t] + 1
            BY <1>1, <4>5 DEF PushUnlock, Goto
          <5>2. LastPushed(d) = count[t]
            BY <5>1 DEF LastPushed
          <5>3. LastPushed(d)' = count'[t] - 1
            BY <5>1 DEF LastPushed
          <5> QED BY <1>1, <5>1, <5>2, <5>3
        <4>6. CASE BeginProducing(t) \/ TermLock(t) \/ TermFlag(t) \/ TermWake(t) \/ TermClear(t)
          <5>1. /\ pc[t] \notin {"visit", "append", "signal"}
                /\ pc'[t] \notin {"visit", "append", "signal"}
                /\ count' = count
            BY <1>1, <4>6 DEF BeginProducing, TermLock, TermFlag, TermWake, TermClear, Goto
          <5> QED BY <5>1 DEF LastPushed
        <4> QED BY <4>1, <4>2, <4>3, <4>4, <4>5, <4>6 DEF Feed
      <3> QED BY <1>2, <1>3, <1>6, <2>1, <2>3, <3>1 DEF Delivery, Subscribed
    <2> QED BY <2>2, <2>3
  <1> QED BY <1>7, <1>8

LEMMA MainDelivery ==
    ASSUME Inv, Main, NEW d \in Consumers
    PROVE  Delivery(d)'
  <1>1. Delivery(d) /\ Feeder(In[d]) \in Threads
    BY WhoIsWho DEF Inv, StaysSubscribed, DeliversAllSinceSubscribe, Delivery
  <1>2. /\ pc' = pc /\ count' = count /\ todo' = todo /\ got' = got /\ joined' = joined
        /\ buffer' = buffer
    BY DEF Main, StartProducing, MainReturn, shared
  <1>3. LastPushed(d)' = LastPushed(d)
    BY <1>2 DEF LastPushed, At
  <1>4. pc[Feeder(In[d])] # "done" => subs' = subs
    BY <1>1 DEF Main, StartProducing, MainReturn, shared
  <1> QED BY <1>1, <1>2, <1>3, <1>4 DEF Delivery, Subscribed

(***************************************************************************)
(* The theorems.                                                           *)
(***************************************************************************)
LEMMA StepInv == Inv /\ [Next]_vars => Inv'
  <1> SUFFICES ASSUME Inv, [Next]_vars PROVE Inv'
    OBVIOUS
  <1>1. NoUnexpectedEmpty' /\ ProducerInLoop'
    BY StepNotEmpty, StepProducer
  <1>2. ASSUME NEW c \in Consumers, Consume(c) PROVE Inv'
    <2>1. \A d \in Consumers : SubscriptionInv(d)'
      BY <1>2, ConsumeOwn, ConsumeOther
    <2>2. \A d \in Consumers : Delivery(d)'
      BY <1>2, ConsumeDelivery
    <2>3. StaysSubscribed' /\ DeliversAllSinceSubscribe'
      BY <2>2 DEF Delivery, StaysSubscribed, DeliversAllSinceSubscribe
    <2> QED BY <1>1, <1>2, <2>1, <2>3, ConsumeTypes, ConsumeWalks DEF Inv
  <1>3. ASSUME NEW t \in Feeders, Feed(t) PROVE Inv'
    <2>1. \A d \in Consumers : SubscriptionInv(d)'
      BY <1>3, FeedOwn, FeedOther
    <2>2. \A d \in Consumers : Delivery(d)'
      BY <1>3, FeedDeliveryOwn, FeedDeliveryOther
    <2>3. StaysSubscribed' /\ DeliversAllSinceSubscribe'
      BY <2>2 DEF Delivery, StaysSubscribed, DeliversAllSinceSubscribe
    <2> QED BY <1>1, <1>3, <2>1, <2>3, FeedTypes, FeedWalks DEF Inv
  <1>4. CASE Main
    <2>1. StaysSubscribed' /\ DeliversAllSinceSubscribe'
      BY <1>4, MainDelivery DEF Delivery, StaysSubscribed, DeliversAllSinceSubscribe
    <2> QED BY <1>1, <1>4, <2>1, MainTypes, MainWalks, MainSub DEF Inv
  <1>5. CASE UNCHANGED vars
    <2>1. TypeOK' /\ WalksAreOwn'
      BY <1>5 DEF vars, shared, Inv, TypeOK, WalksAreOwn
    <2>2. \A d \in Consumers : SubscriptionInv(d)'
      BY <1>5 DEF vars, shared, Inv, SubscriptionInv, At, Ended
    <2>3. StaysSubscribed' /\ DeliversAllSinceSubscribe'
      BY <1>5 DEF vars, shared, Inv, StaysSubscribed, DeliversAllSinceSubscribe, LastPushed,
                  Subscribed, At
    <2> QED BY <1>1, <2>1, <2>2, <2>3 DEF Inv
  <1> QED BY <1>2, <1>3, <1>4, <1>5 DEF Next, Step

\* The inductive invariant holds in every run: the types, the exclusion by
\* m_mutex, the account of the tokens, the walks of the feeders.
THEOREM Invariance == Safety => []Inv
  BY InitInv, StepInv, PTL DEF Safety

\* TypeOK for every wiring: in particular the producer never counts past N + 1.
THEOREM TypeCorrect == Safety => []TypeOK
  <1>1. Inv => TypeOK
    BY DEF Inv
  <1> QED BY <1>1, Invariance, PTL

\* The exit(9) of lockstream.h:42 is unreachable.
THEOREM NoExit == Safety => []NoUnexpectedEmpty
  <1>1. Inv => NoUnexpectedEmpty
    BY DEF Inv
  <1> QED BY <1>1, Invariance, PTL

\* No consumer is locked out of frames that are in its buffer.
THEOREM NoSleepOnData == Safety => []TokenMatchesData
  <1>1. Inv => TokenMatchesData
    BY DEF Inv, SubscriptionInv, TokenMatchesData
  <1> QED BY <1>1, Invariance, PTL

\* nullopt comes after the termination and after the last frame.
THEOREM DrainedBeforeEnd == Safety => []EndsDrained
  <1>1. Inv => EndsDrained
    BY DEF Inv, SubscriptionInv, EndsDrained
  <1> QED BY <1>1, Invariance, PTL

\* For every wiring and number of frames: what a consumer has got and what is queued
\* for it are exactly the frames pushed since it subscribed, in order.
THEOREM NothingIsLost == Safety => []DeliversAllSinceSubscribe
  <1>1. Inv => DeliversAllSinceSubscribe
    BY DEF Inv
  <1> QED BY <1>1, Invariance, PTL

(***************************************************************************)
(* The stream's promise.                                                   *)
(***************************************************************************)
\* From the frame a feeder has been given to the end of its push.
InPush == {"rearm", "push", "visit", "append", "signal"}

\* The ids stay within 1 .. N: the producer counts to N, and a transformer numbers no
\* faster than the frames it is given are numbered.
InRange(f) == count[f] <= IF pc[f] \in InPush THEN N ELSE N + 1
Follows(f) ==
    f \in Consumers =>
        \/ got[f] = << >> /\ count[f] = 1 /\ pc[f] \notin InPush
        \/ /\ got[f] # << >>
           /\ count[f] <= IF pc[f] \in InPush THEN got[f][Len(got[f])] ELSE got[f][Len(got[f])] + 1
NumbersFit ==
    /\ \A f \in Feeders : InRange(f) /\ Follows(f)
    /\ \A c \in Consumers : pc[c] # "start" => joined[c] # 0

LEMMA LastOfSeen ==
    ASSUME NEW g \in Seq(Nat), NEW q \in Seq(Nat)
    PROVE  /\ Len(g) \in Nat
           /\ g # << >> => /\ Len(g) \in DOMAIN g /\ g[Len(g)] \in Nat
                           /\ Len(g) \in DOMAIN (g \o q) /\ (g \o q)[Len(g)] = g[Len(g)]
           /\ q # << >> => /\ Head(q) \in Nat
                           /\ Len(g) + 1 \in DOMAIN (g \o q) /\ (g \o q)[Len(g) + 1] = Head(q)
                           /\ Append(g, Head(q)) # << >>
                           /\ Append(g, Head(q))[Len(Append(g, Head(q)))] = Head(q)
  <1>1. Len(g) \in Nat
    OBVIOUS
  <1>2. ASSUME g # << >>
        PROVE  /\ Len(g) \in DOMAIN g /\ g[Len(g)] \in Nat
               /\ Len(g) \in DOMAIN (g \o q) /\ (g \o q)[Len(g)] = g[Len(g)]
    <2>1. Len(g) \in 1 .. Len(g)
      BY <1>2
    <2>2. Len(g) \in DOMAIN g /\ g[Len(g)] \in Nat
      BY <2>1
    <2>3. Len(g) \in DOMAIN (g \o q) /\ (g \o q)[Len(g)] = g[Len(g)]
      BY <2>1
    <2> QED BY <2>2, <2>3
  <1>3. ASSUME q # << >>
        PROVE  /\ Head(q) \in Nat
               /\ Len(g) + 1 \in DOMAIN (g \o q) /\ (g \o q)[Len(g) + 1] = Head(q)
               /\ Append(g, Head(q)) # << >>
               /\ Append(g, Head(q))[Len(Append(g, Head(q)))] = Head(q)
    <2>1. Head(q) \in Nat /\ 1 \in DOMAIN q /\ Head(q) = q[1]
      BY <1>3, HeadAndTail
    <2>2. Len(g) + 1 \in DOMAIN (g \o q) /\ (g \o q)[Len(g) + 1] = q[1]
      BY <2>1
    <2>3. /\ Len(g) + 1 \in DOMAIN Append(g, Head(q))
          /\ Append(g, Head(q))[Len(g) + 1] = Head(q)
      BY <2>1
    <2>4. Append(g, Head(q)) # << >>
      <3>1. DOMAIN << >> = {}
        OBVIOUS
      <3> QED BY <2>3, <3>1
    <2>5. Append(g, Head(q))[Len(Append(g, Head(q)))] = Head(q)
      BY <2>1
    <2> QED BY <2>1, <2>2, <2>4, <2>5
  <1> QED BY <1>1, <1>2, <1>3

\* What c has seen is counted from joined[c], and it is in 1 .. N.
LEMMA SeenFits ==
    ASSUME Inv, NumbersFit, NEW c \in Consumers, pc[c] # "start",
           NEW i \in DOMAIN (got[c] \o buffer[c])
    PROVE  /\ (got[c] \o buffer[c])[i] = joined[c] + i - 1
           /\ (got[c] \o buffer[c])[i] \in 1 .. N
  <1> DEFINE last == LastPushed(c)
  <1>1. /\ count[Feeder(In[c])] \in Nat \ {0} /\ joined[c] \in Nat /\ N \in Nat
        /\ InRange(Feeder(In[c])) /\ joined[c] # 0
    BY WhoIsWho DEF Inv, TypeOK, NumbersFit
  <1>2. last \in Nat /\ last <= N
    BY <1>1 DEF LastPushed, InRange, InPush
  <1>3. got[c] \o buffer[c] = Frames(joined[c], last)
    BY DEF Inv, DeliversAllSinceSubscribe
  <1> HIDE DEF last
  <1>4. /\ i \in 1 .. last + 1 - joined[c]
        /\ (got[c] \o buffer[c])[i] = joined[c] + i - 1
    BY <1>3 DEF Frames
  <1>5. \A a, b \in Nat : \A k \in 1 .. b + 1 - a : a # 0 /\ b <= N => a + k - 1 \in 1 .. N
    BY <1>1
  <1>6. joined[c] + i - 1 \in 1 .. N
    BY <1>1, <1>2, <1>4, <1>5
  <1> QED BY <1>4, <1>6

LEMMA NumbersConsume ==
    ASSUME Inv, NumbersFit, NEW c \in Consumers, Consume(c)
    PROVE  NumbersFit'
  <1>1. /\ c \in Threads /\ pc \in [Threads -> Places]
        /\ Feeders \subseteq Threads /\ Consumers \subseteq Threads
        /\ buffer \in [Consumers -> Seq(Nat)] /\ got \in [Consumers -> Seq(Nat)]
        /\ got[c] \in Seq(Nat) /\ buffer[c] \in Seq(Nat)
        /\ joined \in [Consumers -> Nat] /\ count \in [Feeders -> Nat \ {0}] /\ N \in Nat \ {0}
    BY WhoIsWho DEF Inv, TypeOK
  <1>2. /\ count' = count
        /\ \A t \in Threads : t # c => pc'[t] = pc[t]
        /\ \A d \in Consumers : d # c => got'[d] = got[d] /\ joined'[d] = joined[d]
    BY <1>1, ConsumeFrame
  <1>3. pc'[c] # "start" => joined'[c] # 0
    <2>1. CASE Subscribe(c)
      BY <1>1, <2>1, WhoIsWho DEF Subscribe, Goto
    <2>2. CASE ~ Subscribe(c)
      <3>1. pc[c] # "start" /\ joined' = joined
        BY <2>2 DEF Consume, NextCheck, TryData, WaitData, LockBuf, EmptyBuf, PopFront, Rearm
      <3> QED BY <3>1 DEF NumbersFit
    <2> QED BY <2>1, <2>2
  <1>4. ASSUME c \in Feeders
        PROVE  InRange(c)' /\ Follows(c)'
    <2>1. InRange(c) /\ Follows(c) /\ count[c] \in Nat \ {0}
      BY <1>1, <1>4 DEF NumbersFit
    <2>2. CASE PopFront(c)
      <3>1. /\ buffer[c] # << >> /\ pc[c] = "inbuf"
            /\ got'[c] = Append(got[c], Head(buffer[c])) /\ pc'[c] = "rearm"
        BY <1>1, <2>2 DEF PopFront, Goto
      <3> DEFINE seen == got[c] \o buffer[c]
                 n == Len(got[c])
                 x == Head(buffer[c])
      <3>2. /\ x \in Nat /\ n + 1 \in DOMAIN seen /\ seen[n + 1] = x
            /\ got'[c] # << >> /\ got'[c][Len(got'[c])] = x /\ n \in Nat
            /\ (got[c] # << >> => n \in DOMAIN seen /\ seen[n] = got[c][n])
        BY <1>1, <3>1, LastOfSeen
      <3>3. x \in 1 .. N /\ x = joined[c] + (n + 1) - 1 /\ joined[c] \in Nat
        BY <1>1, <3>1, <3>2, SeenFits
      <3>4. got[c] # << >> => got[c][n] = joined[c] + n - 1
        BY <1>1, <3>1, <3>2, SeenFits
      <3>5. count[c] <= x
        <4>1. CASE got[c] = << >>
          BY <2>1, <3>3, <4>1 DEF Follows
        <4>2. CASE got[c] # << >>
          <5>1. count[c] <= got[c][n] + 1
            BY <2>1, <3>1, <4>2 DEF Follows, InPush
          <5>2. got[c][n] = joined[c] + n - 1 /\ n \in Nat
            BY <3>2, <3>4, <4>2
          <5>3. \A a, b, k \in Nat : k <= (a + b - 1) + 1 => k <= a + (b + 1) - 1
            OBVIOUS
          <5> HIDE DEF n, x
          <5> QED BY <2>1, <3>3, <5>1, <5>2, <5>3
        <4> QED BY <4>1, <4>2
      <3>6. pc'[c] \in InPush /\ count'[c] <= x /\ x <= N /\ x \in Nat
        BY <1>2, <3>1, <3>2, <3>3, <3>5 DEF InPush
      <3>7. InRange(c)'
        BY <1>1, <1>2, <2>1, <3>6 DEF InRange
      <3> HIDE DEF x, seen, n
      <3>8. Follows(c)'
        BY <3>2, <3>6 DEF Follows
      <3> QED BY <3>7, <3>8
    <2>3. CASE Rearm(c)
      <3>1. pc[c] \in InPush /\ pc'[c] \in InPush /\ got' = got
        BY <1>1, <1>4, <2>3 DEF Rearm, Goto, InPush
      <3> QED BY <1>2, <2>1, <3>1 DEF InRange, Follows
    <2>4. CASE ~ PopFront(c) /\ ~ Rearm(c)
      <3>1. got' = got /\ pc[c] \notin InPush /\ pc'[c] \notin InPush
        BY <1>1, <2>4 DEF Consume, Subscribe, NextCheck, TryData, WaitData, LockBuf, EmptyBuf,
                          AfterLoop, Goto, InPush
      <3> QED BY <1>2, <2>1, <3>1 DEF InRange, Follows
    <2> QED BY <2>2, <2>3, <2>4
  <1>5. \A f \in Feeders : f # c => InRange(f)' /\ Follows(f)'
    BY <1>1, <1>2 DEF NumbersFit, InRange, Follows
  <1>6. \A d \in Consumers : pc'[d] # "start" => joined'[d] # 0
    BY <1>1, <1>2, <1>3 DEF NumbersFit
  <1> QED BY <1>4, <1>5, <1>6 DEF NumbersFit

LEMMA NumbersFeed ==
    ASSUME Inv, NumbersFit, NEW t \in Feeders, Feed(t)
    PROVE  NumbersFit'
  <1>1. /\ t \in Threads /\ pc \in [Threads -> Places]
        /\ Feeders \subseteq Threads /\ Consumers \subseteq Threads /\ Producer \notin Consumers
        /\ count \in [Feeders -> Nat \ {0}] /\ count[t] \in Nat \ {0} /\ N \in Nat \ {0}
        /\ got \in [Consumers -> Seq(Nat)] /\ Producer \in Feeders
    BY WhoIsWho DEF Inv, TypeOK
  <1>2. /\ got' = got /\ joined' = joined
        /\ \A u \in Threads : u # t => pc'[u] = pc[u]
        /\ \A u \in Feeders : u # t => count'[u] = count[u]
        /\ pc'[t] # "start"
    BY <1>1, FeedFrame
  <1>3. \/ t = Producer /\ pc[t] = "start" /\ pc'[t] = "push" /\ count'[t] = count[t]
        \/ pc[t] \in InPush /\ pc'[t] \in InPush /\ count'[t] = count[t]
        \/ /\ pc[t] = "visit" /\ count'[t] = count[t] + 1
           /\ IF t # Producer THEN pc'[t] = "next"
                              ELSE pc'[t] = IF count[t] = N THEN "term" ELSE "push"
        \/ pc[t] \notin InPush \cup {"start"} /\ pc'[t] \notin InPush /\ count'[t] = count[t]
    BY <1>1 DEF Feed, BeginProducing, PushLock, PushBufLock, PushAppend, PushSignal, PushUnlock,
                TermLock, TermFlag, TermWake, TermClear, Goto, InPush
  <1>4. InRange(t) /\ Follows(t) /\ ProducerInLoop
    BY <1>1 DEF NumbersFit, Inv
  <1>5. InRange(t)'
    BY <1>1, <1>3, <1>4 DEF InRange, InPush, ProducerInLoop
  <1>6. Follows(t)'
    <2> SUFFICES ASSUME t \in Consumers PROVE Follows(t)'
      BY DEF Follows
    <2>1. t # Producer /\ got[t] \in Seq(Nat)
      BY <1>1
    <2>2. got[t] # << >> => got[t][Len(got[t])] \in Nat
      <3>1. got[t] # << >> => Len(got[t]) \in 1 .. Len(got[t])
        BY <2>1
      <3> QED BY <2>1, <3>1
    <2> QED BY <1>1, <1>2, <1>3, <1>4, <2>1, <2>2 DEF Follows, InPush
  <1>7. \A f \in Feeders : f # t => InRange(f)' /\ Follows(f)'
    BY <1>1, <1>2 DEF NumbersFit, InRange, Follows
  <1>8. \A d \in Consumers : pc'[d] # "start" => joined'[d] # 0
    <2> SUFFICES ASSUME NEW d \in Consumers, pc'[d] # "start" PROVE pc[d] # "start"
      BY <1>2 DEF NumbersFit
    <2>1. CASE d = t
      BY <1>1, <1>3, <2>1 DEF InPush
    <2>2. CASE d # t
      BY <1>1, <1>2, <2>2
    <2> QED BY <2>1, <2>2
  <1> QED BY <1>5, <1>6, <1>7, <1>8 DEF NumbersFit

LEMMA StepNumbers ==
    ASSUME Inv, NumbersFit, [Next]_vars
    PROVE  NumbersFit'
  <1>1. CASE Main \/ UNCHANGED vars
    <2>1. UNCHANGED <<pc, count, got, joined>>
      BY <1>1 DEF Main, StartProducing, MainReturn, vars, shared
    <2> QED BY <2>1 DEF NumbersFit, InRange, Follows
  <1> QED BY <1>1, NumbersConsume, NumbersFeed DEF Next, Step

LEMMA NumbersInvariance == Safety => [](Inv /\ NumbersFit)
  <1>1. Init => NumbersFit
    <2> SUFFICES ASSUME Init PROVE NumbersFit
      OBVIOUS
    <2>1. /\ Consumers \subseteq Threads /\ Feeders \subseteq Threads /\ N \in Nat \ {0}
          /\ pc = [t \in Threads |-> "start"] /\ count = [t \in Feeders |-> 1]
          /\ got = [c \in Consumers |-> << >>]
      BY WhoIsWho DEF Init
    <2> QED BY <2>1 DEF NumbersFit, InRange, Follows, InPush
  <1>2. (Inv /\ NumbersFit) /\ [Next]_vars => NumbersFit'
    BY StepNumbers
  <1> QED BY <1>1, <1>2, Invariance, PTL DEF Safety

\* A step that leaves the buffers, what was handed out, and the ends alone.
LEMMA PromiseStutters ==
    ASSUME UNCHANGED <<buffer, got, terminated>>, \A c \in Consumers : Ended(c)' <=> Ended(c)
    PROVE  UNCHANGED Promise!vars
  <1>1. [c \in Consumers |-> Ended(c)'] = [c \in Consumers |-> Ended(c)]
    BY DEF Ended
  <1> QED BY <1>1 DEF Promise!vars

LEMMA NoneEnded ==
    ASSUME \A c \in Consumers : pc[c] = "start"
    PROVE  [c \in Consumers |-> Ended(c)] = [c \in Consumers |-> FALSE]
  <1>1. \A c \in Consumers : Ended(c) = FALSE
    BY DEF Ended
  <1> QED BY <1>1

\* A step with which c comes to the end of its loop.
LEMMA OneMoreEnded ==
    ASSUME NEW c \in Consumers, Ended(c)',
           \A d \in Consumers : d # c => (Ended(d)' <=> Ended(d))
    PROVE  [d \in Consumers |-> Ended(d)'] = [[d \in Consumers |-> Ended(d)] EXCEPT ![c] = TRUE]
  <1> DEFINE old == [[d \in Consumers |-> Ended(d)] EXCEPT ![c] = TRUE]
             new == [d \in Consumers |-> Ended(d)']
  <1>1. Ended(c)' = TRUE
    BY DEF Ended
  <1>2. \A d \in Consumers : d # c => Ended(d)' = Ended(d)
    BY DEF Ended
  <1>3. \A d \in Consumers : new[d] = old[d]
    BY <1>1, <1>2
  <1>4. new = [d \in Consumers |-> new[d]] /\ old = [d \in Consumers |-> old[d]]
    OBVIOUS
  <1> QED BY <1>3, <1>4

\* pop_front is Deliver, leaving the loop over next() is Close.
LEMMA ConsumePromise ==
    ASSUME Inv, NumbersFit, NEW c \in Consumers, Consume(c)
    PROVE  [Promise!Next]_(Promise!vars)
  <1>1. /\ c \in Threads /\ Consumers \subseteq Threads /\ pc \in [Threads -> Places]
        /\ buffer \in [Consumers -> Seq(Nat)]
        /\ \A t \in Threads : t # c => pc'[t] = pc[t]
        /\ terminated' = terminated
        /\ ~ Ended(c)
    BY WhoIsWho, ConsumeFrame DEF Inv, TypeOK, Ended
  <1>2. \A d \in Consumers : d # c => (Ended(d)' <=> Ended(d))
    BY <1>1 DEF Ended
  <1>3. CASE PopFront(c)
    <2>1. /\ buffer[c] # << >>
          /\ got' = [got EXCEPT ![c] = Append(@, Head(buffer[c]))]
          /\ buffer' = [buffer EXCEPT ![c] = Tail(@)]
          /\ ~ Ended(c)'
      BY <1>1, <1>3 DEF PopFront, Goto, Ended
    <2>2. [d \in Consumers |-> Ended(d)'] = [d \in Consumers |-> Ended(d)]
      <3>1. \A d \in Consumers : Ended(d)' <=> Ended(d)
        BY <1>1, <1>2, <2>1
      <3> QED BY <3>1 DEF Ended
    <2>3. Promise!Deliver(c)
      BY <1>1, <2>1, <2>2 DEF Promise!Deliver
    <2> QED BY <2>3 DEF Promise!Next, Promise!Answer
  <1>4. ~ PopFront(c) => UNCHANGED <<buffer, got>>
    BY DEF Consume, Subscribe, NextCheck, TryData, WaitData, LockBuf, EmptyBuf, Rearm, shared
  <1>5. CASE ~ PopFront(c) /\ Ended(c)'
    <2>1. terminated[c] /\ buffer[c] = << >>
      <3>1. SubscriptionInv(c)'
        BY ConsumeOwn
      <3> QED BY <1>1, <1>4, <1>5, <3>1 DEF SubscriptionInv
    <2>2. [d \in Consumers |-> Ended(d)']
              = [[d \in Consumers |-> Ended(d)] EXCEPT ![c] = TRUE]
      BY <1>2, <1>5, OneMoreEnded
    <2>3. Promise!Close(c)
      BY <1>1, <1>4, <1>5, <2>1, <2>2 DEF Promise!Close
    <2> QED BY <2>3 DEF Promise!Next, Promise!Answer
  <1>6. CASE ~ PopFront(c) /\ ~ Ended(c)'
    <2>1. \A d \in Consumers : Ended(d)' <=> Ended(d)
      BY <1>1, <1>2, <1>6
    <2> QED BY <1>1, <1>4, <1>6, <2>1, PromiseStutters
  <1> QED BY <1>3, <1>5, <1>6

\* push_back is Publish with the id that follows, setting m_terminated is Terminate.
LEMMA FeedPromise ==
    ASSUME Inv, NumbersFit, NEW t \in Feeders, Feed(t)
    PROVE  [Promise!Next]_(Promise!vars)
  <1> DEFINE c == Head(todo[t])
  <1>1. /\ t \in Threads /\ Consumers \subseteq Threads /\ pc \in [Threads -> Places]
        /\ buffer \in [Consumers -> Seq(Nat)] /\ got \in [Consumers -> Seq(Nat)]
        /\ count \in [Feeders -> Nat \ {0}] /\ joined \in [Consumers -> Nat] /\ N \in Nat
        /\ got' = got
        /\ t # Producer => (Ended(t)' <=> Ended(t))
        /\ Producer \notin Consumers
    BY WhoIsWho, FeedFrame DEF Inv, TypeOK
  <1>2. \A d \in Consumers : Ended(d)' <=> Ended(d)
    <2> SUFFICES ASSUME NEW d \in Consumers PROVE Ended(d)' <=> Ended(d)
      OBVIOUS
    <2>1. CASE d = t
      BY <1>1, <2>1
    <2>2. CASE d # t
      <3>1. pc'[d] = pc[d]
        BY <1>1, <2>2, FeedFrame
      <3> QED BY <3>1 DEF Ended
    <2> QED BY <2>1, <2>2
  <1>3. [d \in Consumers |-> Ended(d)'] = [d \in Consumers |-> Ended(d)]
    BY <1>2 DEF Ended
  <1>4. CASE PushAppend(t)
    <2>1. /\ pc[t] = "append" /\ todo[t] # << >> /\ terminated' = terminated
          /\ buffer' = [buffer EXCEPT ![c] = Append(@, count[t])]
      BY <1>4 DEF PushAppend, Inv, WalksAreOwn
    <2>2. c \in Consumers /\ Feeder(In[c]) = t
      BY <2>1, VisitedIsOwn
    <2>3. 1 \in DOMAIN todo[t] /\ todo[t][1] = c
      <3>1. todo[t] \in Seq(Consumers)
        BY DEF Inv, TypeOK
      <3> QED BY <2>1, <3>1, HeadAndTail
    <2> HIDE DEF c
    <2>4. ~ terminated[c] /\ pc[c] # "start" /\ LastPushed(c) = count[t] - 1
      <3>1. SubscriptionInv(c) /\ WalksAreOwn
        BY <2>2 DEF Inv
      <3>2. ~ terminated[c]
        BY <2>1, <2>2, <3>1 DEF SubscriptionInv
      <3>3. pc[c] # "start"
        BY <2>2, <2>3, <3>1 DEF WalksAreOwn
      <3> QED BY <2>1, <2>2, <2>3, <3>2, <3>3 DEF LastPushed, At
    <2> DEFINE seen == got[c] \o buffer[c]
    <2>5. count[t] \in 1 .. N
      <3>1. InRange(t) /\ count[t] \in Nat \ {0}
        BY <1>1 DEF NumbersFit
      <3> QED BY <1>1, <2>1, <3>1 DEF InRange, InPush
    <2>6. seen # << >> => count[t] = seen[Len(seen)] + 1
      <3> SUFFICES ASSUME seen # << >> PROVE count[t] = seen[Len(seen)] + 1
        OBVIOUS
      <3>1. seen \in Seq(Nat) /\ seen = Frames(joined[c], count[t] - 1)
        BY <1>1, <2>2, <2>4 DEF Inv, DeliversAllSinceSubscribe
      <3> HIDE DEF seen
      <3>2. Len(seen) \in DOMAIN seen
        BY <3>1, LastOfSeen
      <3>3. DOMAIN seen = 1 .. count[t] - joined[c]
        BY <1>1, <2>2, <2>5, <3>1 DEF Frames
      <3>4. DOMAIN seen = 1 .. Len(seen) /\ Len(seen) \in Nat
        BY <3>1
      <3>5. Len(seen) = count[t] - joined[c]
        <4>1. \A n, a, b \in Nat : n \in 1 .. a - b /\ 1 .. a - b = 1 .. n => n = a - b
          <5> SUFFICES ASSUME NEW n \in Nat, NEW a \in Nat, NEW b \in Nat,
                              n \in 1 .. a - b, 1 .. a - b = 1 .. n
                       PROVE  n = a - b
            OBVIOUS
          <5>1. a - b \in 1 .. a - b
            OBVIOUS
          <5> QED BY <5>1
        <4> QED BY <1>1, <2>2, <2>5, <3>2, <3>3, <3>4, <4>1
      <3>6. seen[Len(seen)] = joined[c] + Len(seen) - 1
        BY <3>1, <3>2, <3>3, <3>5 DEF Frames
      <3> QED BY <1>1, <2>2, <2>5, <3>4, <3>5, <3>6
    <2>7. count[t] \in Promise!Acceptable(c)
      BY <2>5, <2>6 DEF Promise!Acceptable, Promise!Last
    <2>8. Promise!Publish(c)
      BY <1>1, <1>3, <2>1, <2>4, <2>7 DEF Promise!Publish
    <2> QED BY <2>2, <2>8 DEF Promise!Next
  <1>5. CASE TermFlag(t)
    <2>1. /\ todo[t] # << >> /\ buffer' = buffer
          /\ terminated' = [terminated EXCEPT ![c] = TRUE]
      BY <1>5 DEF TermFlag
    <2>2. c \in Consumers
      BY <2>1, VisitedIsOwn
    <2>3. Promise!Terminate(c)
      BY <1>1, <1>3, <2>1 DEF Promise!Terminate
    <2> QED BY <2>2, <2>3 DEF Promise!Next
  <1>6. CASE ~ TermFlag(t) /\ ~ PushAppend(t)
    <2>1. UNCHANGED <<buffer, terminated>>
      BY <1>6 DEF Feed, BeginProducing, PushLock, PushBufLock, PushSignal, PushUnlock, TermLock,
                  TermWake, TermClear, shared
    <2> QED BY <1>1, <1>2, <2>1, PromiseStutters
  <1> QED BY <1>4, <1>5, <1>6

\* When main() returns every thread is through, and whoever is through has been told
\* of the end: the destructors set no flag that is not set.
LEMMA MainPromise ==
    ASSUME Inv, Main
    PROVE  UNCHANGED Promise!vars
  <1>1. UNCHANGED <<pc, buffer, got>>
    BY DEF Main, StartProducing, MainReturn, shared
  <1>2. terminated' = terminated
    <2>1. CASE StartProducing
      BY <2>1 DEF StartProducing, shared
    <2>2. CASE MainReturn
      <3>1. /\ terminated \in [Consumers -> BOOLEAN]
            /\ \A c \in Consumers : SubscriptionInv(c) /\ pc[c] = "done"
        BY <2>2, WhoIsWho DEF Inv, TypeOK, MainReturn
      <3>2. \A c \in Consumers : terminated[c]
        BY <3>1 DEF SubscriptionInv, Ended
      <3>3. terminated' = [c \in Consumers |-> terminated[c] \/ c \in {d \in Consumers : Subscribed(d)}]
        BY <2>2 DEF MainReturn
      <3>4. \A c \in Consumers : terminated'[c] = terminated[c]
        BY <3>1, <3>2, <3>3
      <3> QED BY <3>1, <3>3, <3>4
    <2> QED BY <2>1, <2>2 DEF Main
  <1>3. \A c \in Consumers : Ended(c)' <=> Ended(c)
    BY <1>1 DEF Ended
  <1> QED BY <1>1, <1>2, <1>3, PromiseStutters

\* The subscriptions with their two mutexes implement the safe part of the promise of a
\* stream that drops nothing: consecutive ids, each once, and nothing after the end.
THEOREM IsLosslessStream == Safety => Promise!Safety
  <1>1. Init => Promise!Init
    <2> SUFFICES ASSUME Init PROVE Promise!Init
      OBVIOUS
    <2>1. \A c \in Consumers : pc[c] = "start"
      BY WhoIsWho DEF Init
    <2>2. [c \in Consumers |-> Ended(c)] = [c \in Consumers |-> FALSE]
      BY <2>1, NoneEnded
    <2> QED BY <2>2 DEF Init, Promise!Init
  <1>2. Inv /\ NumbersFit /\ [Next]_vars => [Promise!Next]_(Promise!vars)
    <2> SUFFICES ASSUME Inv, NumbersFit, [Next]_vars
                 PROVE  [Promise!Next]_(Promise!vars)
      OBVIOUS
    <2>1. CASE UNCHANGED vars
      BY <2>1, PromiseStutters DEF vars, shared, Ended
    <2> QED BY <2>1, MainPromise, ConsumePromise, FeedPromise DEF Next, Step
  <1> QED BY <1>1, <1>2, NumbersInvariance, PTL DEF Safety, Promise!Safety
-----------------------------------------------------------------------------
(* EPLFQStream: what the events of epoll stand for.                            *)

(***************************************************************************)
(* The tokens and buffers are those of lockbuf/.                           *)
(***************************************************************************)
LEMMA EplStepIsStep == [EplNext]_EplVars => [Next]_vars
  <1> SUFFICES ASSUME [EplNext]_EplVars PROVE Next \/ UNCHANGED vars
    BY DEF EplVars
  <1>1. CASE EplMain
    BY <1>1 DEF EplMain, Next
  <1>2. ASSUME NEW t \in Threads, EplStep(t) PROVE Next \/ UNCHANGED vars
    <2>1. CASE t \in Consumers /\ EplConsume(t)
      <3>1. EplConsume(t) => Consume(t) \/ UNCHANGED vars
        BY DEF EplConsume, Consume, EplSubscribe, SubscribeFails, EpollWait, ReadEvent,
               EplNextCheck, TakeToken, TakeFrame
      <3> QED BY <1>2, <2>1, <3>1 DEF EplStep, Step, Next
    <2>2. CASE t \in Feeders /\ EplFeed(t)
      <3>1. EplFeed(t) => Feed(t)
        BY DEF EplFeed, Feed, Produce, PushStream, PushBuffer, PushEvent, TermStream,
               TermSubscription
      <3> QED BY <1>2, <2>2, <3>1 DEF EplStep, Step, Next
    <2> QED BY <1>2, <2>1, <2>2 DEF EplStep
  <1>3. CASE UNCHANGED EplVars
    BY <1>3 DEF EplVars
  <1> QED BY <1>1, <1>2, <1>3 DEF EplNext

LEMMA EplIsSafe == EplSafety => Safety
  <1>1. EplInit => Init
    BY DEF EplInit
  <1> QED BY <1>1, EplStepIsStep, PTL DEF EplSafety, Safety

(***************************************************************************)
(* The events.                                                             *)
(***************************************************************************)
LEMMA EplInitInv == EplInit => EplInv
  <1> SUFFICES ASSUME EplInit PROVE EplInv
    OBVIOUS
  <1> USE WhoIsWho DEF EplInit, Init
  <1>1. EplTypeOK
    BY DEF EplTypeOK
  <1>2. ASSUME NEW c \in Consumers PROVE ~ Private(c)
    BY DEF Private
  <1>3. ASSUME NEW c \in Consumers
        PROVE  /\ epfd[c] = NoFd /\ pc[c] = "start" /\ poll[c] = "wait"
               /\ efd[c] = 0 /\ merged[c] = 0
    OBVIOUS
  <1> QED BY <1>1, <1>2, <1>3 DEF EplInv, EventsAreFrames, NeverEnds

\* What the steps of a consumer other than c leave alone.
LEMMA EplOthers ==
    ASSUME Inv, EplInv, NEW t \in Consumers, EplConsume(t), NEW c \in Consumers, c # t
    PROVE  /\ pc'[c] = pc[c] /\ buffer'[c] = buffer[c]
           /\ epfd'[c] = epfd[c] /\ poll'[c] = poll[c] /\ event'[c] = event[c]
           /\ \A d \in Consumers : epfd[d] # NoFd => epfd'[d] = epfd[d]
           /\ Private(c)' => /\ Private(c)
                             /\ ready'[c] = ready[c] /\ efd'[c] = efd[c]
                             /\ merged'[c] = merged[c]
           /\ efd[c] = 0 => efd'[c] = 0 /\ merged'[c] = merged[c]
           /\ At(Feeder(In[c]), "signal", c)' <=> At(Feeder(In[c]), "signal", c)
  <1>1. /\ c \in Threads /\ Feeder(In[c]) \in Threads /\ t \in Threads
        /\ epfd \in [Consumers -> Consumers \cup {NoFd}]
        /\ efd \in [Consumers -> Nat] /\ ready \in [Consumers -> BOOLEAN]
        /\ poll \in [Consumers -> {"wait", "event", "through"}]
        /\ event \in [Consumers -> Consumers] /\ merged \in [Consumers -> Nat]
        /\ epfd[t] = NoFd <=> pc[t] = "start"
        /\ poll[t] = "event" => epfd[event[t]] = epfd[t]
    BY WhoIsWho DEF EplInv, EplTypeOK
  <1>2. Consume(t) \/ UNCHANGED vars
    BY DEF EplConsume, Consume, EplSubscribe, SubscribeFails, EpollWait, ReadEvent,
           EplNextCheck, TakeToken, TakeFrame
  <1>3. /\ pc'[c] = pc[c] /\ buffer'[c] = buffer[c]
        /\ At(Feeder(In[c]), "signal", c)' <=> At(Feeder(In[c]), "signal", c)
    <2>1. CASE Consume(t)
      <3>1. todo' = todo /\ pc'[c] = pc[c] /\ buffer'[c] = buffer[c]
        BY <1>1, <2>1, ConsumeFrame
      <3>2. pc'[Feeder(In[c])] = "signal" <=> pc[Feeder(In[c])] = "signal"
        BY <1>1, <2>1, ConsumeFrame
      <3> QED BY <3>1, <3>2 DEF At
    <2>2. CASE UNCHANGED vars
      BY <2>2 DEF vars, shared, At
    <2> QED BY <1>2, <2>1, <2>2
  <1>4. poll'[c] = poll[c] /\ event'[c] = event[c]
    BY <1>1 DEF EplConsume, EplSubscribe, SubscribeFails, EpollWait, ReadEvent,
                EplNextCheck, TakeToken, TakeFrame, epoll
  <1>5. CASE EpollWait(t)
    <2>1. PICK d \in Consumers :
             /\ epfd[d] = epfd[t] /\ ready' = [ready EXCEPT ![d] = FALSE]
      BY <1>5 DEF EpollWait
    <2>2. epfd' = epfd /\ efd' = efd /\ merged' = merged
      BY <1>5 DEF EpollWait
    <2>3. Private(c) => ready'[c] = ready[c]
      BY <1>1, <2>1 DEF Private
    <2> QED BY <1>3, <1>4, <2>2, <2>3 DEF Private
  <1>6. CASE ReadEvent(t)
    <2>1. /\ epfd' = epfd /\ ready' = ready /\ poll[t] = "event" /\ event[t] \in Consumers
          /\ event[t] # c => efd'[c] = efd[c] /\ merged'[c] = merged[c]
          /\ efd[c] = 0 => efd'[c] = 0 /\ merged'[c] = merged[c]
      BY <1>1, <1>6 DEF ReadEvent
    <2>2. Private(c) => event[t] # c
      BY <1>1, <2>1 DEF Private
    <2> QED BY <1>3, <1>4, <2>1, <2>2 DEF Private
  <1>7. CASE EplSubscribe(t)
    <2>1. PICK e : epfd' = [epfd EXCEPT ![t] = e]
      BY <1>7 DEF EplSubscribe
    <2>2. epfd[t] = NoFd /\ efd' = efd /\ ready' = ready /\ merged' = merged
      BY <1>1, <1>7 DEF EplSubscribe, Subscribe
    <2>3. \A d \in Consumers \ {t} : epfd'[d] = epfd[d]
      BY <1>1, <2>1
    <2> QED BY <1>3, <1>4, <2>2, <2>3 DEF Private
  <1>8. CASE SubscribeFails(t) \/ EplNextCheck(t) \/ TakeToken(t) \/ TakeFrame(t)
    <2>1. epfd' = epfd /\ efd' = efd /\ ready' = ready /\ merged' = merged
      BY <1>8 DEF SubscribeFails, EplNextCheck, TakeToken, TakeFrame, epoll
    <2> QED BY <1>3, <1>4, <2>1 DEF Private
  <1> QED BY <1>5, <1>6, <1>7, <1>8 DEF EplConsume

LEMMA EplTypes ==
    ASSUME Inv, EplInv, [EplNext]_EplVars
    PROVE  EplTypeOK'
  <1> USE DEF EplInv, EplTypeOK
  <1>1. CASE EplMain
    BY <1>1 DEF EplMain, epoll
  <1>2. ASSUME NEW t \in Consumers, EplConsume(t) PROVE EplTypeOK'
    <2>1. CASE EplSubscribe(t)
      BY <2>1 DEF EplSubscribe, Instances
    <2>2. CASE SubscribeFails(t)
      BY <2>2 DEF SubscribeFails
    <2>3. CASE EpollWait(t)
      BY <2>3 DEF EpollWait
    <2>4. CASE ReadEvent(t)
      <3>1. /\ efd' \in [Consumers -> Nat] /\ merged' \in [Consumers -> Nat]
        <4>1. event[t] \in Consumers /\ efd[event[t]] \in Nat /\ merged[event[t]] \in Nat
          OBVIOUS
        <4>2. (IF efd[event[t]] > 1 THEN efd[event[t]] - 1 ELSE 0) \in Nat
          BY <4>1
        <4> QED BY <2>4, <4>1, <4>2 DEF ReadEvent
      <3> QED BY <2>4, <3>1 DEF ReadEvent
    <2>5. CASE EplNextCheck(t)
      BY <2>5 DEF EplNextCheck
    <2>6. CASE TakeToken(t) \/ TakeFrame(t)
      BY <2>6 DEF TakeToken, TakeFrame, epoll
    <2> QED BY <1>2, <2>1, <2>2, <2>3, <2>4, <2>5, <2>6 DEF EplConsume
  <1>3. ASSUME NEW t \in Feeders, EplFeed(t) PROVE EplTypeOK'
    <2>1. CASE PushEvent(t)
      <3>1. todo[t] # << >>
        BY <2>1 DEF PushEvent, PushSignal, Inv, WalksAreOwn
      <3>2. Head(todo[t]) \in Consumers
        BY <3>1, VisitedIsOwn
      <3>3. efd[Head(todo[t])] + 1 \in Nat
        BY <3>2
      <3>4. efd' \in [Consumers -> Nat] /\ ready' \in [Consumers -> BOOLEAN]
        BY <2>1, <3>2, <3>3 DEF PushEvent
      <3> QED BY <2>1, <3>4 DEF PushEvent
    <2>2. CASE ~ PushEvent(t)
      BY <1>3, <2>2 DEF EplFeed, Produce, PushStream, PushBuffer, TermStream,
                        TermSubscription, epoll
    <2> QED BY <2>1, <2>2
  <1>4. CASE UNCHANGED EplVars
    BY <1>4 DEF EplVars, epoll
  <1> QED BY <1>1, <1>2, <1>3, <1>4 DEF EplNext, EplStep

\* What EplInv says of one subscription.
EventInv(c) ==
    /\ epfd[c] = NoFd <=> pc[c] = "start"
    /\ pc[c] = "start" => efd[c] = 0 /\ merged[c] = 0
    /\ poll[c] # "wait" => pc[c] = "next"
    /\ poll[c] = "event" => epfd[event[c]] = epfd[c]
    /\ EventsAreFrames(c)
    /\ Private(c) => ~ Ended(c)

LEMMA EplOthersInv ==
    ASSUME Inv, EplInv, NEW t \in Consumers, EplConsume(t), NEW c \in Consumers, c # t
    PROVE  EventInv(c)'
  <1>1. EventInv(c) /\ event[c] \in Consumers
    BY DEF EplInv, EplTypeOK, NeverEnds, EventInv
  <1>2. Private(c)' => EventsAreFrames(c)'
    BY <1>1, EplOthers DEF EventInv, EventsAreFrames, One, Paid
  <1>3. poll'[c] = "event" => epfd'[event'[c]] = epfd'[c]
    BY <1>1, EplOthers DEF EventInv
  <1>4. /\ epfd'[c] = NoFd <=> pc'[c] = "start"
        /\ pc'[c] = "start" => efd'[c] = 0 /\ merged'[c] = 0
        /\ poll'[c] # "wait" => pc'[c] = "next"
        /\ Private(c)' => ~ Ended(c)'
    BY <1>1, EplOthers DEF EventInv, Ended
  <1> QED BY <1>2, <1>3, <1>4 DEF EventInv, EventsAreFrames

\* An account of frames that keeps the events and the feeder's place.
LEMMA EplAccount ==
    ASSUME EplTypeOK, NEW c \in Consumers, EventsAreFrames(c),
           Private(c)' => Private(c), efd'[c] = efd[c], merged'[c] = merged[c],
           ready'[c] = ready[c], poll[c] # "event", poll'[c] # "event",
           Private(c) => Len(buffer'[c]) = Len(buffer[c]) - One(Paid(c)) + One(Paid(c)'),
           At(Feeder(In[c]), "signal", c)' <=> At(Feeder(In[c]), "signal", c)
    PROVE  EventsAreFrames(c)'
  <1> DEFINE S == At(Feeder(In[c]), "signal", c)
  <1>1. /\ efd[c] \in Nat /\ merged[c] \in Nat
        /\ One(Paid(c)) \in {0, 1} /\ One(Paid(c)') \in {0, 1} /\ One(S) \in {0, 1}
    BY DEF EplTypeOK, One
  <1>2. S' <=> S
    OBVIOUS
  <1>3. One(S)' = One(S) /\ One(Paid(c))' = One(Paid(c)')
    BY <1>2 DEF One
  <1>4. CASE Private(c)'
    <2>1. /\ Len(buffer[c]) = efd[c] + merged[c] + One(Paid(c)) + One(S)
          /\ efd[c] > 0 => ready[c]
      BY <1>4 DEF EventsAreFrames
    <2>2. Len(buffer'[c]) = efd'[c] + merged'[c] + One(Paid(c))' + One(S)'
      BY <1>1, <1>3, <1>4, <2>1
    <2> QED BY <2>1, <2>2 DEF EventsAreFrames
  <1>5. CASE ~ Private(c)'
    BY <1>5 DEF EventsAreFrames
  <1> QED BY <1>4, <1>5

\* A consumer's own steps: it is paid for with the event it takes, and gives it back
\* with the frame; a token it tries to take is there.
LEMMA EplOwnInv ==
    ASSUME Inv, EplInv, NEW c \in Consumers, EplConsume(c)
    PROVE  EventInv(c)'
  <1> DEFINE f == Feeder(In[c])
             S == At(f, "signal", c)
  <1>1. /\ f \in Threads /\ c \in Threads /\ f # c /\ NoFd \notin Consumers
        /\ pc \in [Threads -> Places]
        /\ buffer \in [Consumers -> Seq(Nat)] /\ buffer[c] \in Seq(Nat)
        /\ nodata \in [Consumers -> BOOLEAN]
        /\ epfd \in [Consumers -> Consumers \cup {NoFd}]
        /\ efd \in [Consumers -> Nat] /\ ready \in [Consumers -> BOOLEAN]
        /\ poll \in [Consumers -> {"wait", "event", "through"}]
        /\ event \in [Consumers -> Consumers] /\ merged \in [Consumers -> Nat]
    BY WhoIsWho, NoFdAssumption DEF Inv, TypeOK, EplInv, EplTypeOK
  <1>2. EventInv(c) /\ SubscriptionInv(c) /\ EplTypeOK
    BY DEF EplInv, NeverEnds, EventInv, Inv
  <1>3. One(S) \in {0, 1} /\ One(Paid(c)) \in {0, 1} /\ Len(buffer[c]) \in Nat
    BY <1>1 DEF One
  <1>4. Consume(c) => (S' <=> S)
    <2>1. Consume(c) => pc'[f] = pc[f] /\ todo' = todo
      BY <1>1, ConsumeFrame
    <2> QED BY <2>1 DEF At
  <1>5. Private(c) /\ Paid(c) => Len(buffer[c]) >= 1
    BY <1>1, <1>2, <1>3 DEF EventInv, EventsAreFrames, One
  <1> HIDE DEF S, f
  <1>6. CASE EplSubscribe(c)
    <2>1. /\ Consume(c) /\ pc[c] = "start" /\ pc'[c] = "next" /\ buffer' = buffer
          /\ poll' = poll /\ ready' = ready /\ efd' = efd /\ merged' = merged
          /\ poll[c] = "wait" /\ efd[c] = 0 /\ merged[c] = 0
      BY <1>1, <1>2, <1>6 DEF EplSubscribe, Subscribe, Consume, Goto, EventInv
    <2>2. ~ S'
      <3>1. ~ At(f, "signal", c)
        BY <2>1, WhoIsWho, HeadAndTail DEF At, Inv, WalksAreOwn, TypeOK, f
      <3> QED BY <1>4, <2>1, <3>1 DEF S
    <2>3. epfd'[c] \in Consumers
      BY <1>1, <1>6 DEF EplSubscribe, Instances
    <2>4. Len(buffer[c]) = 0
      <3>1. got[c] \o buffer[c] = << >> /\ got[c] \in Seq(Nat)
        BY <2>1 DEF Inv, TypeOK, DeliversAllSinceSubscribe
      <3>2. Len(got[c] \o buffer[c]) = Len(got[c]) + Len(buffer[c]) /\ Len(got[c]) \in Nat
        BY <1>1, <3>1
      <3>3. Len(got[c] \o buffer[c]) = 0
        BY <3>1
      <3>4. \A m, n \in Nat : m + n = 0 => n = 0
        OBVIOUS
      <3> QED BY <1>3, <3>2, <3>3, <3>4, Zenon
    <2>5. EventsAreFrames(c)'
      BY <2>1, <2>2, <2>4 DEF EventsAreFrames, Paid, One, S, f
    <2> QED BY <1>1, <2>1, <2>3, <2>5 DEF EventInv, Ended
  <1>7. CASE SubscribeFails(c)
    <2>1. UNCHANGED vars /\ UNCHANGED <<epfd, efd, ready, poll, event, merged>>
      BY <1>7 DEF SubscribeFails
    <2> QED BY <1>2, <2>1 DEF EventInv, EventsAreFrames, Private, Paid, Ended, At, vars, shared
  <1>8. CASE EpollWait(c)
    <2>1. PICK d \in Consumers :
             /\ epfd[d] = epfd[c] /\ efd[d] > 0
             /\ event' = [event EXCEPT ![c] = d]
      BY <1>8 DEF EpollWait, Pending
    <2>2. /\ UNCHANGED vars /\ epfd' = epfd /\ efd' = efd /\ merged' = merged
          /\ pc[c] = "next" /\ poll[c] = "wait" /\ poll'[c] = "event" /\ event'[c] = d
      BY <1>1, <1>8, <2>1 DEF EpollWait
    <2>3. /\ pc' = pc /\ buffer' = buffer /\ (S' <=> S)
      BY <2>2 DEF vars, shared, S, At
    <2>4. ~ Paid(c) /\ ~ Paid(c)'
      BY <2>2, <2>3 DEF Paid
    <2>5. EventsAreFrames(c)'
      <3>1. Private(c) => d = c
        BY <2>1 DEF Private
      <3>2. Private(c)' <=> Private(c)
        BY <2>2 DEF Private
      <3> QED BY <1>2, <2>1, <2>2, <2>3, <2>4, <3>1, <3>2 DEF EventInv, EventsAreFrames, One, S, f
    <2> QED BY <1>2, <2>1, <2>2, <2>3, <2>5 DEF EventInv, Ended, Private
  <1>9. CASE ReadEvent(c)
    <2>1. /\ UNCHANGED vars /\ epfd' = epfd /\ ready' = ready
          /\ pc[c] = "next" /\ poll[c] = "event" /\ poll'[c] = "through"
      BY <1>1, <1>9 DEF ReadEvent
    <2>2. /\ pc' = pc /\ buffer' = buffer /\ (S' <=> S)
      BY <2>1 DEF vars, shared, S, At
    <2>3. ~ Paid(c) /\ Paid(c)'
      BY <2>1 DEF Paid
    <2>4. Private(c)' <=> Private(c)
      BY <2>1 DEF Private
    <2>5. Private(c) => efd[c] > 0 /\ efd'[c] = 0 /\ merged'[c] = merged[c] + (efd[c] - 1)
      <3>1. Private(c) => event[c] = c /\ efd[c] > 0
        BY <1>2, <2>1 DEF EventInv, EventsAreFrames
      <3>2. event[c] = c => efd'[c] = 0 /\ merged'[c] = merged[c] + (IF efd[c] > 1 THEN efd[c] - 1 ELSE 0)
        BY <1>1, <1>9 DEF ReadEvent
      <3> QED BY <1>1, <3>1, <3>2
    <2>6. EventsAreFrames(c)'
      <3>1. CASE Private(c)
        <4>1. Len(buffer[c]) = efd[c] + merged[c] + One(S)
          BY <1>1, <1>2, <1>3, <2>3, <3>1 DEF EventInv, EventsAreFrames, One, S, f
        <4>2. One(S)' = One(S) /\ One(Paid(c))' = 1
          BY <2>2, <2>3 DEF One
        <4>3. Len(buffer'[c]) = efd'[c] + merged'[c] + One(Paid(c))' + One(S)'
          BY <1>1, <1>3, <2>2, <2>5, <3>1, <4>1, <4>2
        <4> QED BY <2>1, <2>5, <3>1, <4>3 DEF EventsAreFrames, S, f
      <3>2. CASE ~ Private(c)
        BY <2>4, <3>2 DEF EventsAreFrames
      <3> QED BY <3>1, <3>2
    <2> QED BY <1>2, <2>1, <2>2, <2>4, <2>6 DEF EventInv, Ended
  <1>10. CASE EplNextCheck(c)
    <2>1. /\ Consume(c) /\ epfd' = epfd /\ ready' = ready /\ efd' = efd /\ buffer' = buffer
          /\ merged' = merged /\ pc[c] = "next" /\ poll[c] = "through" /\ poll'[c] = "wait"
          /\ pc'[c] \in {"trydata", "waitdata"}
      BY <1>1, <1>10 DEF EplNextCheck, NextCheck, Consume, Goto, shared
    <2>2. EventsAreFrames(c)'
      <3>1. Paid(c) /\ Paid(c)'
        BY <2>1 DEF Paid
      <3>2. Len(buffer'[c]) = Len(buffer[c]) - One(Paid(c)) + One(Paid(c)')
        BY <1>3, <2>1, <3>1 DEF One
      <3> QED BY <1>2, <1>4, <2>1, <3>2, EplAccount DEF EventInv, Private, S, f
    <2> QED BY <1>1, <1>2, <2>1, <2>2 DEF EventInv, Ended
  <1>11. CASE TakeToken(c)
    <2>1. /\ Consume(c) /\ UNCHANGED epoll /\ buffer' = buffer
          /\ pc[c] \in {"trydata", "waitdata"}
      BY <1>11 DEF TakeToken, Consume, TryData, WaitData
    <2>2. /\ epfd' = epfd /\ ready' = ready /\ efd' = efd /\ poll' = poll /\ merged' = merged
          /\ poll[c] = "wait"
      BY <1>2, <2>1 DEF epoll, EventInv
    <2>3. Private(c) => pc'[c] = "lockbuf"
      <3>1. CASE TryData(c) /\ Private(c)
        <4>1. pc[c] = "trydata" /\ pc'[c] = (IF nodata[c] THEN AfterLoop(c) ELSE "lockbuf")
          BY <1>1, <3>1 DEF TryData, Goto
        <4>2. buffer[c] # << >>
          <5>1. Len(buffer[c]) >= 1
            BY <1>5, <3>1, <4>1 DEF Paid
          <5> QED BY <1>1, <5>1
        <4>3. ~ nodata[c]
          BY <1>2, <4>1, <4>2 DEF SubscriptionInv, Inside, At, f
        <4> QED BY <4>1, <4>3
      <3>2. CASE WaitData(c)
        BY <1>1, <3>2 DEF WaitData, Goto
      <3> QED BY <1>11, <3>1, <3>2 DEF TakeToken
    <2>4. pc'[c] # "start" /\ pc[c] # "start"
      BY <1>1, <1>11, <2>1 DEF TakeToken, TryData, WaitData, AfterLoop, Goto
    <2>5. EventsAreFrames(c)'
      <3>1. Private(c) => Paid(c) /\ Paid(c)'
        BY <2>1, <2>3 DEF Paid
      <3>2. Private(c) => Len(buffer'[c]) = Len(buffer[c]) - One(Paid(c)) + One(Paid(c)')
        BY <1>3, <2>1, <3>1 DEF One
      <3> QED BY <1>2, <1>4, <2>1, <2>2, <3>2, EplAccount DEF EventInv, Private, S, f
    <2> QED BY <1>1, <1>2, <2>2, <2>3, <2>4, <2>5 DEF EventInv, Private, Ended
  <1>12. CASE TakeFrame(c)
    <2>1. /\ Consume(c) /\ UNCHANGED epoll
          /\ pc[c] \in {"lockbuf", "inbuf", "rearm"}
      BY <1>12 DEF TakeFrame, Consume, LockBuf, EmptyBuf, PopFront, Rearm
    <2>2. /\ epfd' = epfd /\ ready' = ready /\ efd' = efd /\ poll' = poll /\ merged' = merged
          /\ poll[c] = "wait"
      BY <1>1, <1>2, <2>1 DEF epoll, EventInv
    <2>3. pc'[c] # "start"
      BY <1>1, <1>12 DEF TakeFrame, LockBuf, EmptyBuf, PopFront, Rearm, Goto, AfterLoop
    <2>4. CASE EmptyBuf(c)
      <3>1. pc[c] = "inbuf" /\ buffer[c] = << >>
        BY <2>4 DEF EmptyBuf
      <3>2. ~ Private(c)
        BY <1>5, <3>1 DEF Paid
      <3>3. ~ Private(c)'
        BY <2>2, <3>2 DEF Private
      <3> QED BY <1>2, <2>1, <2>2, <2>3, <3>3 DEF EventInv, EventsAreFrames
    <2>5. CASE LockBuf(c) \/ PopFront(c) \/ Rearm(c)
      <3>1. ~ Ended(c)'
        BY <1>1, <2>5 DEF LockBuf, PopFront, Rearm, Goto, Ended
      <3>2. Len(buffer'[c]) = Len(buffer[c]) - One(Paid(c)) + One(Paid(c)')
        <4>1. CASE LockBuf(c)
          <5>1. pc[c] = "lockbuf" /\ pc'[c] = "inbuf" /\ buffer' = buffer
            BY <1>1, <4>1 DEF LockBuf, Goto
          <5>2. Paid(c) /\ Paid(c)'
            BY <5>1 DEF Paid
          <5> QED BY <1>3, <5>1, <5>2 DEF One
        <4>2. CASE PopFront(c)
          <5>1. /\ pc[c] = "inbuf" /\ pc'[c] = "rearm" /\ buffer[c] # << >>
                /\ buffer'[c] = Tail(buffer[c])
            BY <1>1, <4>2 DEF PopFront, Goto
          <5>2. Len(buffer'[c]) = Len(buffer[c]) - 1
            BY <1>1, <5>1
          <5>3. Paid(c) /\ ~ Paid(c)'
            BY <2>2, <5>1 DEF Paid
          <5> QED BY <1>3, <5>2, <5>3 DEF One
        <4>3. CASE Rearm(c)
          <5>1. pc[c] = "rearm" /\ pc'[c] \in {"push", "next"} /\ buffer' = buffer
            BY <1>1, <4>3 DEF Rearm, Goto
          <5>2. ~ Paid(c) /\ ~ Paid(c)'
            BY <2>2, <5>1 DEF Paid
          <5> QED BY <1>3, <5>1, <5>2 DEF One
        <4> QED BY <2>5, <4>1, <4>2, <4>3
      <3>3. EventsAreFrames(c)'
        BY <1>2, <1>4, <2>1, <2>2, <3>2, EplAccount DEF EventInv, Private, S, f
      <3> QED BY <1>1, <1>2, <2>1, <2>2, <2>3, <3>1, <3>3 DEF EventInv
    <2> QED BY <1>12, <2>4, <2>5 DEF TakeFrame
  <1> QED BY <1>6, <1>7, <1>8, <1>9, <1>10, <1>11, <1>12 DEF EplConsume


\* What a feeder's step does to the account of c: nothing, one frame more, or one event
\* more for the frame before.
LEMMA EplFeedFrame ==
    ASSUME Inv, EplInv, NEW t \in Feeders, EplFeed(t), NEW c \in Consumers
    PROVE  LET S == At(Feeder(In[c]), "signal", c) IN
           \/ /\ buffer'[c] = buffer[c] /\ efd'[c] = efd[c] /\ ready'[c] = ready[c]
              /\ S' <=> S
           \/ /\ Len(buffer'[c]) = Len(buffer[c]) + 1
              /\ efd'[c] = efd[c] /\ ready'[c] = ready[c] /\ ~ S /\ S'
           \/ /\ buffer'[c] = buffer[c] /\ efd'[c] = efd[c] + 1 /\ ready'[c] /\ S /\ ~ S'
              /\ pc[c] # "start"
  <1> DEFINE f == Feeder(In[c])
             S == At(f, "signal", c)
  <1>1. /\ f \in Threads /\ f \in Feeders /\ t \in Threads
        /\ pc \in [Threads -> Places]
        /\ buffer \in [Consumers -> Seq(Nat)] /\ buffer[c] \in Seq(Nat)
        /\ efd \in [Consumers -> Nat] /\ ready \in [Consumers -> BOOLEAN]
        /\ todo \in [Feeders -> Seq(Consumers)] /\ count[t] \in Nat
    BY WhoIsWho DEF Inv, TypeOK, EplInv, EplTypeOK
  <1>2. Feed(t)
    BY DEF EplFeed, Feed, Produce, PushStream, PushBuffer, PushEvent, TermStream,
           TermSubscription
  <1>3. CASE PushEvent(t)
    <2>1. /\ buffer' = buffer /\ pc[t] = "signal" /\ pc'[t] = "visit"
          /\ efd' = [efd EXCEPT ![Head(todo[t])] = @ + 1]
          /\ ready' = [ready EXCEPT ![Head(todo[t])] = TRUE]
      BY <1>1, <1>3 DEF PushEvent, PushSignal, Goto
    <2>2. todo[t] # << >>
      BY <2>1 DEF Inv, WalksAreOwn
    <2>3. CASE Head(todo[t]) = c
      <3>1. f = t
        BY <2>2, <2>3, VisitedIsOwn
      <3>2. S /\ ~ S'
        BY <2>1, <2>2, <2>3, <3>1 DEF At
      <3>3. pc[c] # "start"
        BY <1>1, <2>2, <2>3, HeadAndTail DEF Inv, WalksAreOwn
      <3> QED BY <1>1, <2>1, <2>3, <3>2, <3>3
    <2>4. CASE Head(todo[t]) # c
      <3>1. efd'[c] = efd[c] /\ ready'[c] = ready[c]
        BY <1>1, <2>1, <2>4
      <3>2. S' <=> S
        <4>1. CASE f = t
          BY <2>1, <2>4, <4>1 DEF At
        <4>2. CASE f # t
          BY <1>1, <1>2, <4>2, FeedFrame DEF At
        <4> QED BY <4>1, <4>2
      <3> QED BY <2>1, <3>1, <3>2
    <2> QED BY <2>3, <2>4
  <1>4. CASE ~ PushEvent(t)
    <2>1. efd' = efd /\ ready' = ready
      BY <1>4 DEF EplFeed, Produce, PushStream, PushBuffer, TermStream, TermSubscription, epoll
    <2>2. CASE PushAppend(t) /\ Head(todo[t]) = c
      <3>1. /\ pc[t] = "append" /\ pc'[t] = "signal" /\ todo' = todo
            /\ buffer'[c] = Append(buffer[c], count[t])
        BY <1>1, <2>2 DEF PushAppend, Goto
      <3>2. todo[t] # << >>
        BY <3>1 DEF Inv, WalksAreOwn
      <3>3. f = t
        BY <2>2, <3>2, VisitedIsOwn
      <3>4. ~ S /\ S'
        BY <2>2, <3>1, <3>2, <3>3 DEF At
      <3>5. Len(buffer'[c]) = Len(buffer[c]) + 1
        BY <1>1, <3>1
      <3> QED BY <2>1, <3>4, <3>5
    <2>3. CASE ~ (PushAppend(t) /\ Head(todo[t]) = c)
      <3>1. buffer'[c] = buffer[c]
        BY <1>1, <1>2, <2>3 DEF Feed, BeginProducing, PushLock, PushBufLock, PushAppend, PushSignal,
                                PushUnlock, TermLock, TermFlag, TermWake, TermClear, shared
      <3>2. S' <=> S
        <4>1. CASE f = t
          <5>1. CASE PushAppend(t)
            <6>1. pc[t] = "append" /\ todo' = todo /\ Head(todo[t]) # c
              BY <2>3, <5>1 DEF PushAppend
            <6> QED BY <4>1, <6>1 DEF At
          <5>2. CASE ~ PushAppend(t)
            <6>1. ~ PushSignal(t)
              BY <1>4 DEF EplFeed, Produce, PushStream, PushBuffer, PushEvent, TermStream,
                          TermSubscription, BeginProducing, PushLock, PushBufLock, PushAppend,
                          PushSignal, PushUnlock, TermLock, TermFlag, TermWake, TermClear
            <6>2. pc[t] # "signal" /\ pc'[t] # "signal"
              BY <1>1, <1>2, <5>2, <6>1
                 DEF Feed, BeginProducing, PushLock, PushBufLock, PushUnlock, TermLock, TermFlag,
                     TermWake, TermClear, Goto
            <6> QED BY <4>1, <6>2 DEF At
          <5> QED BY <5>1, <5>2
        <4>2. CASE f # t
          BY <1>1, <1>2, <4>2, FeedFrame DEF At
        <4> QED BY <4>1, <4>2
      <3> QED BY <2>1, <3>1, <3>2
    <2> QED BY <2>2, <2>3
  <1> QED BY <1>3, <1>4

\* A feeder pays with each frame for the event it writes; the termination pays nothing.
LEMMA EplFeedInv ==
    ASSUME Inv, EplInv, NEW t \in Feeders, EplFeed(t), NEW c \in Consumers
    PROVE  EventInv(c)'
  <1> DEFINE S == At(Feeder(In[c]), "signal", c)
  <1>1. /\ c \in Threads /\ t \in Threads /\ c # Producer
        /\ efd[c] \in Nat /\ merged[c] \in Nat /\ Len(buffer[c]) \in Nat
        /\ One(S) \in {0, 1} /\ One(Paid(c)) \in {0, 1}
    BY WhoIsWho DEF Inv, TypeOK, EplInv, EplTypeOK, One
  <1>2. EventInv(c)
    BY DEF EplInv, NeverEnds, EventInv
  <1>3. Feed(t)
    BY DEF EplFeed, Feed, Produce, PushStream, PushBuffer, PushEvent, TermStream,
           TermSubscription
  <1>4. poll' = poll /\ epfd' = epfd /\ event' = event /\ merged' = merged
    BY DEF EplFeed, Produce, PushStream, PushBuffer, PushEvent, TermStream,
           TermSubscription, epoll
  <1>5. /\ Paid(c)' <=> Paid(c)
        /\ Ended(c)' <=> Ended(c)
        /\ pc'[c] = "start" <=> pc[c] = "start"
        /\ poll[c] # "wait" => pc'[c] = "next"
    <2>1. CASE c = t
      <3>1. /\ pc[c] \notin {"next", "trydata", "waitdata", "lockbuf", "inbuf", "rearm"}
            /\ pc'[c] \notin {"start", "trydata", "waitdata", "lockbuf", "inbuf", "rearm"}
            /\ Ended(c)' <=> Ended(c)
        BY <1>1, <1>3, <2>1, FeedFrame
      <3>2. pc[c] # "start"
        BY <1>1, <1>3, <2>1 DEF Feed, BeginProducing, PushLock, PushBufLock, PushAppend, PushSignal,
                                PushUnlock, TermLock, TermFlag, TermWake, TermClear
      <3> QED BY <1>2, <1>4, <3>1, <3>2 DEF Paid, EventInv
    <2>2. CASE c # t
      <3>1. pc'[c] = pc[c]
        BY <1>1, <1>3, <2>2, FeedFrame
      <3> QED BY <1>2, <1>4, <3>1 DEF Paid, EventInv, Ended
    <2> QED BY <2>1, <2>2
  <1>6. Private(c)' <=> Private(c)
    BY <1>4 DEF Private
  <1>7. One(Paid(c))' = One(Paid(c))
    BY <1>5 DEF One
  <1>8. \/ /\ buffer'[c] = buffer[c] /\ efd'[c] = efd[c] /\ ready'[c] = ready[c]
           /\ S' <=> S
        \/ /\ Len(buffer'[c]) = Len(buffer[c]) + 1
           /\ efd'[c] = efd[c] /\ ready'[c] = ready[c] /\ ~ S /\ S'
        \/ /\ buffer'[c] = buffer[c] /\ efd'[c] = efd[c] + 1 /\ ready'[c] /\ S /\ ~ S'
           /\ pc[c] # "start"
    BY EplFeedFrame
  <1> HIDE DEF S
  <1>9. ASSUME Private(c)
        PROVE  /\ Len(buffer'[c]) = efd'[c] + merged'[c] + One(Paid(c))' + One(S)'
               /\ IF poll'[c] = "event" THEN event'[c] = c /\ efd'[c] > 0
                                        ELSE efd'[c] > 0 => ready'[c]
    <2>1. /\ Len(buffer[c]) = efd[c] + merged[c] + One(Paid(c)) + One(S)
          /\ IF poll[c] = "event" THEN event[c] = c /\ efd[c] > 0
                                  ELSE efd[c] > 0 => ready[c]
      BY <1>2, <1>9 DEF EventInv, EventsAreFrames, S
    <2>2. CASE /\ buffer'[c] = buffer[c] /\ efd'[c] = efd[c] /\ ready'[c] = ready[c]
               /\ S' <=> S
      <3>1. One(S)' = One(S)
        BY <2>2 DEF One
      <3> QED BY <1>4, <1>7, <2>1, <2>2, <3>1
    <2>3. CASE /\ Len(buffer'[c]) = Len(buffer[c]) + 1
               /\ efd'[c] = efd[c] /\ ready'[c] = ready[c] /\ ~ S /\ S'
      <3>1. One(S) = 0 /\ One(S)' = 1
        BY <2>3 DEF One
      <3>2. Len(buffer[c]) = efd[c] + merged[c] + One(Paid(c)) + One(S)
        BY <2>1
      <3>3. Len(buffer'[c]) = efd'[c] + merged'[c] + One(Paid(c))' + One(S)'
        <4> DEFINE old == Len(buffer[c])
                   new == Len(buffer'[c])
        <4>1. old \in Nat /\ new = old + 1 /\ old = efd[c] + merged[c] + One(Paid(c)) + One(S)
          BY <1>1, <2>3, <3>2
        <4>2. efd'[c] = efd[c] /\ merged'[c] = merged[c]
          BY <1>4, <2>3
        <4> HIDE DEF old, new
        <4>3. new = efd'[c] + merged'[c] + One(Paid(c))' + One(S)'
          BY <1>1, <1>7, <3>1, <4>1, <4>2
        <4> QED BY <4>3 DEF new
      <3>4. efd'[c] \in Nat /\ (efd'[c] > 0 => ready'[c] \/ efd[c] > 0) /\ efd'[c] >= efd[c]
        BY <1>1, <2>3
      <3> QED BY <1>1, <1>4, <2>1, <2>3, <3>3, <3>4
    <2>4. CASE buffer'[c] = buffer[c] /\ efd'[c] = efd[c] + 1 /\ ready'[c] /\ S /\ ~ S'
      <3>1. One(S) = 1 /\ One(S)' = 0
        BY <2>4 DEF One
      <3>2. Len(buffer[c]) = efd[c] + merged[c] + One(Paid(c)) + One(S)
        BY <2>1
      <3>3. Len(buffer'[c]) = efd'[c] + merged'[c] + One(Paid(c))' + One(S)'
        BY <1>1, <1>4, <1>7, <2>4, <3>1, <3>2
      <3>4. efd'[c] \in Nat /\ (efd'[c] > 0 => ready'[c] \/ efd[c] > 0) /\ efd'[c] >= efd[c]
        BY <1>1, <2>4
      <3> QED BY <1>1, <1>4, <2>1, <2>4, <3>3, <3>4
    <2> QED BY <1>8, <2>2, <2>3, <2>4
  <1>10. EventsAreFrames(c)'
    BY <1>6, <1>9 DEF EventsAreFrames, S
  <1>11. pc[c] = "start" => efd'[c] = efd[c]
    BY <1>8
  <1> QED BY <1>2, <1>4, <1>5, <1>6, <1>10, <1>11 DEF EventInv

LEMMA EplStepInv == Inv /\ EplInv /\ [EplNext]_EplVars => EplInv'
  <1> SUFFICES ASSUME Inv, EplInv, [EplNext]_EplVars PROVE EplInv'
    OBVIOUS
  <1>1. ASSUME NEW c \in Consumers PROVE EventInv(c)'
    <2>1. CASE UNCHANGED <<pc, buffer, todo>> /\ UNCHANGED epoll
      <3>1. EventInv(c)
        BY DEF EplInv, NeverEnds, EventInv
      <3> QED BY <2>1, <3>1 DEF EventInv, EventsAreFrames, Private, Paid, Ended, At, epoll
    <2>2. ASSUME NEW t \in Consumers, EplConsume(t) PROVE EventInv(c)'
      BY <2>2, EplOthersInv, EplOwnInv
    <2>3. ASSUME NEW t \in Feeders, EplFeed(t) PROVE EventInv(c)'
      BY <2>3, EplFeedInv
    <2>4. CASE EplMain
      BY <2>1, <2>4 DEF EplMain, Main, StartProducing, MainReturn, shared
    <2>5. CASE UNCHANGED EplVars
      BY <2>1, <2>5 DEF EplVars, vars, shared
    <2> QED BY <2>2, <2>3, <2>4, <2>5 DEF EplNext, EplStep
  <1> QED BY <1>1, EplTypes DEF EplInv, NeverEnds, EventInv

\* The account of the events holds in every run, next to the invariant of lockbuf/.
THEOREM EplInvariance == EplSafety => [](Inv /\ EplInv)
  <1> QED BY EplIsSafe, EplInitInv, EplStepInv, Invariance, PTL DEF EplSafety

\* Whoever has an epoll instance to itself never gets to the nullopt of next(), for any
\* wiring and any number of frames.
THEOREM PrivateNeverEnds == EplSafety => []NeverEnds
  <1>1. EplInv => NeverEnds
    BY DEF EplInv
  <1> QED BY <1>1, EplInvariance, PTL

\* Whoever has an epoll instance to itself and sleeps in epoll_wait has read an event for
\* every frame pushed so far: what is left in its buffer came with one that stood for
\* several, or has its event still to come.
THEOREM OnlyMergedStay == EplSafety => []MergedStayBehind
  <1>1. Inv /\ EplInv => MergedStayBehind
    <2> SUFFICES ASSUME Inv, EplInv, NEW c \in Consumers, Private(c), Asleep(c)
                 PROVE  Len(buffer[c]) = merged[c] + One(At(Feeder(In[c]), "signal", c))
      BY DEF MergedStayBehind
    <2> DEFINE S == At(Feeder(In[c]), "signal", c)
    <2>1. /\ efd[c] \in Nat /\ merged[c] \in Nat /\ Len(buffer[c]) \in Nat
          /\ One(S) \in {0, 1}
      BY DEF Inv, TypeOK, EplInv, EplTypeOK, One
    <2>2. pc[c] = "next" /\ poll[c] = "wait" /\ ~ Pending(c)
      BY DEF Asleep
    <2>3. /\ Len(buffer[c]) = efd[c] + merged[c] + One(Paid(c)) + One(S)
          /\ efd[c] > 0 => ready[c]
      BY <2>2 DEF EplInv, EventsAreFrames
    <2>4. efd[c] = 0
      BY <2>1, <2>2, <2>3 DEF Pending, Open
    <2>5. One(Paid(c)) = 0
      BY <2>2 DEF Paid, One
    <2> HIDE DEF S
    <2> QED BY <2>1, <2>3, <2>4, <2>5 DEF S
  <1> QED BY <1>1, EplInvariance, PTL
=============================================================================
