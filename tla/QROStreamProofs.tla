--------------------------- MODULE QROStreamProofs ---------------------------
(***************************************************************************)
(* Proofs about QROStream for every wiring with one transformer, every     *)
(* number of frames and whatever the worker does.                          *)
(***************************************************************************)
EXTENDS QROStream, MKLFQStreamProofs

QROPlaces == Places \cup {"events", "reply", "close"}

\* A push holds its stream's mutex from the first visit to the last, and nobody else
\* holds one from one step to the next.
HeldByPush == \A t \in Feeders : sMutex[Out[t]] => pc[t] \in {"visit", "signal"}

\* What terminate() without a lock rests on: the barrier of mklfq/ and the one feeder.
QuietInv ==
    /\ pc \in [Threads -> QROPlaces]
    /\ sMutex \in [Streams -> BOOLEAN]
    /\ back \in {"events", "reply"}
    /\ BarrierInv
    /\ HeldByPush

LEMMA TransformerIs ==
    /\ Transformer \in Consumers /\ Transformer \in Threads /\ Transformer \in Feeders
    /\ Transformer # Producer
    /\ \A t \in Feeders : t # Producer => t = Transformer
  BY WhoIsWho, TransformerAssumption

LEMMA QuietInit == QROInit => QuietInv
  <1> SUFFICES ASSUME QROInit PROVE QuietInv
    OBVIOUS
  <1>1. Inv /\ back = "events" /\ sMutex = [s \in Streams |-> FALSE]
    BY InitInv DEF QROInit, Init
  <1>2. HeldByPush
    BY <1>1, FeederOfStream DEF HeldByPush
  <1> QED BY <1>1, <1>2 DEF QuietInv, Inv, TypeOK, QROPlaces

\* A step of one thread behind the barrier, that gives no mutex to another.
LEMMA QuietMove ==
    ASSUME QuietInv, NEW t \in Threads, NEW l \in QROPlaces \ {"start", "barrier", "parked"},
           pc[t] \notin {"start", "barrier", "parked"},
           pc' = [pc EXCEPT ![t] = l], waiting' = waiting, sMutex' = sMutex,
           back' \in {"events", "reply"},
           pc[t] \in {"visit", "signal"} => l \in {"visit", "signal"}
    PROVE  QuietInv'
  <1>1. /\ \A u \in Threads : u # t => pc'[u] = pc[u]
        /\ pc'[t] = l /\ pc' \in [Threads -> QROPlaces]
    BY DEF QuietInv
  <1>2. Early' = Early
    BY <1>1 DEF Early
  <1>3. BarrierInv'
    BY <1>1, <1>2, WhoIsWho DEF QuietInv, BarrierInv
  <1>4. HeldByPush'
    BY <1>1, WhoIsWho DEF QuietInv, HeldByPush
  <1> QED BY <1>1, <1>3, <1>4 DEF QuietInv

\* A feeder that takes or gives back the mutex of its stream.
LEMMA QuietMutex ==
    ASSUME QuietInv, NEW t \in Feeders, NEW l \in QROPlaces \ {"start", "barrier", "parked"},
           NEW b \in BOOLEAN, b => l = "visit",
           pc[t] \notin {"start", "barrier", "parked"},
           pc' = [pc EXCEPT ![t] = l], waiting' = waiting,
           sMutex' = [sMutex EXCEPT ![Out[t]] = b],
           back' = back
    PROVE  QuietInv'
  <1>1. /\ \A u \in Threads : u # t => pc'[u] = pc[u]
        /\ pc'[t] = l /\ pc' \in [Threads -> QROPlaces]
        /\ Out[t] \in Streams
        /\ t \in Threads
    BY WhoIsWho, FeederOfStream DEF QuietInv
  <1>2. Early' = Early
    BY <1>1 DEF Early
  <1>3. BarrierInv'
    BY <1>1, <1>2, WhoIsWho DEF QuietInv, BarrierInv
  <1>4. /\ sMutex' \in [Streams -> BOOLEAN] /\ sMutex'[Out[t]] = b
        /\ \A u \in Feeders : u # t => sMutex'[Out[u]] = sMutex[Out[u]]
    BY <1>1, FeederOfStream DEF QuietInv
  <1>5. HeldByPush'
    BY <1>1, <1>4, WhoIsWho DEF QuietInv, HeldByPush
  <1> QED BY <1>1, <1>3, <1>4, <1>5 DEF QuietInv

LEMMA QuietBegin ==
    ASSUME QuietInv, NEW t \in Threads, Begin(t)
    PROVE  QuietInv'
  <1>1. CASE BarrierWait(t)
    <2>1. BarrierInv'
      BY <1>1, BarrierKeeps DEF QuietInv
    <2>2. /\ pc[t] = "barrier" /\ sMutex' = sMutex
          /\ \A u \in Threads :
                \/ pc'[u] = pc[u]
                \/ pc[u] \in {"barrier", "parked"} /\ pc'[u] \in {"parked", "push", "next"}
          /\ pc' \in [Threads -> QROPlaces]
      <3>1. CASE waiting > 1
        BY <1>1, <3>1 DEF BarrierWait, Behind, shared, Places, QROPlaces, QuietInv
      <3>2. CASE ~ (waiting > 1)
        BY <1>1, <3>2 DEF BarrierWait, Behind, shared, Places, QROPlaces, QuietInv
      <3> QED BY <3>1, <3>2
    <2>3. HeldByPush'
      BY <2>2, WhoIsWho DEF HeldByPush, QuietInv
    <2> QED BY <2>1, <2>2, <2>3 DEF QuietInv, Begin, link
  <1>2. CASE t \in Consumers /\ Subscribe(t)
    <2>1. /\ pc[t] = "start" /\ pc' = [pc EXCEPT ![t] = "barrier"]
          /\ waiting' = waiting /\ sMutex' = sMutex /\ back' = back
      BY <1>2 DEF Begin, Subscribe, Goto, link
    <2>2. /\ \A u \in Threads : u # t => pc'[u] = pc[u]
          /\ pc'[t] = "barrier" /\ pc' \in [Threads -> QROPlaces]
      BY <2>1 DEF QuietInv, QROPlaces, Places
    <2>3. Early' = Early
      BY <2>1, <2>2 DEF Early
    <2>4. BarrierInv'
      BY <2>1, <2>2, <2>3, WhoIsWho DEF QuietInv, BarrierInv
    <2>5. HeldByPush'
      BY <2>1, <2>2, WhoIsWho DEF QuietInv, HeldByPush
    <2> QED BY <2>1, <2>2, <2>4, <2>5 DEF QuietInv
  <1> QED BY <1>1, <1>2 DEF Begin

LEMMA QuietConsume ==
    ASSUME QuietInv, NEW c \in Consumers, AwaitFrame(c) \/ Consumed(c) \/ Abort(c)
    PROVE  QuietInv'
  <1>1. CASE Abort(c)
    BY <1>1 DEF Abort, QuietInv, HeldByPush, BarrierInv, Early, shared, link
  <1>2. CASE AwaitFrame(c) \/ Consumed(c)
    <2>1. /\ pc[c] \in {"next", "peek", "wait", "dequeue"}
          /\ \E l \in QROPlaces \ {"start", "barrier", "parked"} : pc' = [pc EXCEPT ![c] = l]
          /\ waiting' = waiting /\ sMutex' = sMutex /\ back' = back
      BY <1>2 DEF AwaitFrame, Consumed, NextCheck, Peek, WaitSignal, Dequeue, AfterLoop, Goto,
                  QROPlaces, Places, shared, link
    <2> QED BY <2>1, WhoIsWho, QuietMove DEF QuietInv
  <1> QED BY <1>1, <1>2

LEMMA QuietTransform ==
    ASSUME QuietInv, Transform(Transformer) \/ Close(Transformer)
    PROVE  QuietInv'
  <1> DEFINE Onward == QROPlaces \ {"start", "barrier", "parked"}
             Moves(from, l) == pc[Transformer] = from /\ pc' = [pc EXCEPT ![Transformer] = l]
  <1>1. waiting' = waiting /\ sMutex' = sMutex
    BY DEF Transform, TakeFrame, Receive, Call, CallFails, WaitDone, Close, shared
  <1>2. /\ \E from \in {"dequeue", "events", "reply", "close"} : \E l \in Onward : Moves(from, l)
        /\ back' \in {"events", "reply"}
    <2>1. "term" \in Onward /\ "events" \in Onward /\ "push" \in Onward /\ "reply" \in Onward
          /\ "next" \in Onward /\ "done" \in Onward
      BY DEF QROPlaces, Places
    <2> HIDE DEF Onward
    <2>2. CASE TakeFrame(Transformer)
      BY <2>1, <2>2 DEF TakeFrame, Goto, QuietInv, link
    <2>3. CASE Receive(Transformer)
      BY <2>1, <2>3 DEF Receive, Goto
    <2>4. CASE Call(Transformer)
      BY <2>1, <2>4 DEF Call, Goto, QuietInv
    <2>5. CASE CallFails(Transformer)
      BY <2>1, <2>5 DEF CallFails, Goto, QuietInv, link
    <2>6. CASE WaitDone(Transformer)
      BY <2>1, <2>6 DEF WaitDone, Goto, QuietInv, link
    <2>7. CASE Close(Transformer)
      BY <2>1, <2>7 DEF Close, Goto, QuietInv
    <2> QED BY <2>2, <2>3, <2>4, <2>5, <2>6, <2>7 DEF Transform
  <1> QED BY <1>1, <1>2, TransformerIs, QuietMove

LEMMA QuietFeed ==
    ASSUME QuietInv, NEW t \in Feeders, QROFeed(t)
    PROVE  QuietInv'
  <1>1. CASE PushLock(t) /\ UNCHANGED link
    <2>1. /\ pc[t] = "push" /\ pc' = [pc EXCEPT ![t] = "visit"] /\ waiting' = waiting
          /\ sMutex' = [sMutex EXCEPT ![Out[t]] = TRUE] /\ back' = back
      BY <1>1 DEF PushLock, Goto, link
    <2> QED BY <2>1, QuietMutex DEF QROPlaces, Places
  <1>2. CASE PushDone(t)
    <2>1. /\ pc[t] = "visit" /\ waiting' = waiting
          /\ \E l \in {"next", "term", "push"} : pc' = [pc EXCEPT ![t] = l]
          /\ sMutex' = [sMutex EXCEPT ![Out[t]] = FALSE] /\ back' = back
      BY <1>2 DEF PushDone, PushUnlock, Goto, link
    <2> QED BY <2>1, QuietMutex DEF QROPlaces, Places
  <1>3. CASE AnswerDone(t)
    <2>1. /\ pc[t] = "visit" /\ waiting' = waiting
          /\ pc' = [pc EXCEPT ![t] = back] /\ back' = back
          /\ sMutex' = [sMutex EXCEPT ![Out[t]] = FALSE]
      BY <1>3 DEF AnswerDone, Goto, link
    <2>2. back \in QROPlaces \ {"start", "barrier", "parked"}
      BY DEF QuietInv, QROPlaces
    <2> QED BY <2>1, <2>2, QuietMutex
  <1>4. CASE PushRefused(t) /\ UNCHANGED link
    BY <1>4 DEF PushRefused, QuietInv, HeldByPush, BarrierInv, Early, shared, link
  <1>5. CASE (PushEnqueue(t) \/ PushSignal(t)) /\ UNCHANGED link
    <2>1. /\ pc[t] \in {"visit", "signal"} /\ waiting' = waiting
          /\ \E l \in {"visit", "signal"} : pc' = [pc EXCEPT ![t] = l]
          /\ sMutex' = sMutex /\ back' = back
      BY <1>5 DEF PushEnqueue, PushSignal, Goto, link
    <2> QED BY <2>1, WhoIsWho, QuietMove DEF QuietInv, QROPlaces, Places
  <1>6. CASE TermBegin(t) \/ TermVisit(t) \/ TermEnd(t)
    <2>1. /\ pc[t] \in {"term", "flag", "mark", "sigmark"} /\ waiting' = waiting
          /\ \E l \in {"flag", "mark", "sigmark", "close", "done"} : pc' = [pc EXCEPT ![t] = l]
          /\ sMutex' = sMutex /\ back' = back
      BY <1>6 DEF TermBegin, TermVisit, TermEnd, TermFlag, TermEnqueue, TermRefused, TermSignal,
                  Goto, shared, link
    <2> QED BY <2>1, WhoIsWho, QuietMove DEF QuietInv, QROPlaces, Places
  <1> QED BY <1>1, <1>2, <1>3, <1>4, <1>5, <1>6 DEF QROFeed, PushFrame

\* Mutexes and the barrier of every run of the program.
THEOREM QuietInvariance == QROSafety => []QuietInv
  <1>1. QuietInv /\ [QRONext]_qroVars => QuietInv'
    <2> SUFFICES ASSUME QuietInv, [QRONext]_qroVars PROVE QuietInv'
      OBVIOUS
    <2>1. CASE UNCHANGED qroVars
      BY <2>1 DEF QuietInv, HeldByPush, BarrierInv, Early, qroVars, vars, shared, link
    <2>2. CASE QROMainReturn
      BY <2>2 DEF QROMainReturn, MainReturn, QuietInv, HeldByPush, BarrierInv, Early, link
    <2>3. CASE WorkerDies
      BY <2>3 DEF WorkerDies, QuietInv, HeldByPush, BarrierInv, Early, vars, shared
    <2>4. ASSUME NEW t \in Threads, QROStep(t) PROVE QuietInv'
      <3>1. \/ Begin(t)
            \/ t \in Consumers /\ (AwaitFrame(t) \/ Consumed(t) \/ Abort(t))
            \/ t = Transformer /\ (Transform(t) \/ Close(t))
            \/ t \in Feeders /\ QROFeed(t)
        BY <2>4 DEF QROStep
      <3> QED BY <3>1, QuietBegin, QuietConsume, QuietTransform, QuietFeed
    <2> QED BY <2>1, <2>2, <2>3, <2>4 DEF QRONext
  <1> QED BY <1>1, QuietInit, PTL DEF QROSafety

\* No thread is in subscribe() or in a push to the same stream while terminate(), which
\* takes no lock, is under way, for any number of threads and whatever the worker does.
THEOREM TerminateIsAlone == QROSafety => []AloneInTerminate
  <1>1. QuietInv => AloneInTerminate
    BY WhoIsWho DEF QuietInv, HeldByPush, BarrierInv, AloneInTerminate
  <1> QED BY <1>1, QuietInvariance, PTL

(***************************************************************************)
(* Sequences of frames.                                                    *)
(***************************************************************************)
Sorted(s) == \A i, j \in DOMAIN s : i < j => s[i] < s[j]

LEMMA MembersAppend ==
    ASSUME NEW S, NEW s \in Seq(S), NEW e \in S
    PROVE  /\ Append(s, e) \in Seq(S) /\ Append(s, e) # << >>
           /\ Append(s, e)[Len(Append(s, e))] = e
           /\ Members(Append(s, e)) = Members(s) \cup {e}
  <1>1. /\ \A i \in DOMAIN s : i \in DOMAIN Append(s, e) /\ Append(s, e)[i] = s[i]
        /\ \A i \in DOMAIN Append(s, e) :
              i = Len(s) + 1 \/ (i \in DOMAIN s /\ Append(s, e)[i] = s[i])
        /\ Len(s) + 1 \in DOMAIN Append(s, e)
        /\ Append(s, e)[Len(s) + 1] = e
    BY AppendKeeps
  <1>2. Members(Append(s, e)) = Members(s) \cup {e}
    BY <1>1 DEF Members
  <1>3. /\ Append(s, e) \in Seq(S) /\ Append(s, e) # << >>
        /\ Append(s, e)[Len(Append(s, e))] = e
    OBVIOUS
  <1> QED BY <1>2, <1>3

LEMMA MembersHead ==
    ASSUME NEW S, NEW s \in Seq(S), s # << >>
    PROVE  /\ Head(s) \in S /\ Tail(s) \in Seq(S)
           /\ Head(s) \in Members(s)
           /\ Members(s) = Members(Tail(s)) \cup {Head(s)}
  <1>1. /\ Head(s) \in S /\ Tail(s) \in Seq(S)
        /\ 1 \in DOMAIN s /\ Head(s) = s[1]
        /\ \A i \in DOMAIN Tail(s) : i + 1 \in DOMAIN s /\ Tail(s)[i] = s[i + 1]
    BY HeadAndTail
  <1>2. \A i \in DOMAIN s : i = 1 \/ (i - 1 \in DOMAIN Tail(s) /\ Tail(s)[i - 1] = s[i])
    <2>1. /\ Len(Tail(s)) = Len(s) - 1 /\ Len(s) \in Nat
          /\ DOMAIN s = 1 .. Len(s) /\ DOMAIN Tail(s) = 1 .. Len(s) - 1
          /\ \A j \in 1 .. Len(s) - 1 : Tail(s)[j] = s[j + 1]
      OBVIOUS
    <2> QED BY <2>1
  <1>3. Members(s) \subseteq Members(Tail(s)) \cup {Head(s)}
    BY <1>1, <1>2 DEF Members
  <1>4. Members(Tail(s)) \cup {Head(s)} \subseteq Members(s)
    BY <1>1 DEF Members
  <1> QED BY <1>1, <1>3, <1>4

LEMMA SortedAppend ==
    ASSUME NEW s \in Seq(Nat), NEW e \in Nat, Sorted(s), \A x \in Members(s) : x < e
    PROVE  Sorted(Append(s, e))
  <1>1. /\ \A i \in DOMAIN Append(s, e) :
              i = Len(s) + 1 \/ (i \in DOMAIN s /\ Append(s, e)[i] = s[i])
        /\ Append(s, e)[Len(s) + 1] = e
    BY AppendKeeps
  <1>2. \A i \in DOMAIN s : i \in Nat /\ i < Len(s) + 1
    OBVIOUS
  <1>3. ASSUME NEW i \in DOMAIN Append(s, e), NEW j \in DOMAIN Append(s, e), i < j
        PROVE  Append(s, e)[i] < Append(s, e)[j]
    <2>1. i \in DOMAIN s /\ Append(s, e)[i] = s[i]
      BY <1>1, <1>2, <1>3
    <2>2. CASE j \in DOMAIN s /\ Append(s, e)[j] = s[j]
      BY <1>3, <2>1, <2>2 DEF Sorted
    <2>3. CASE Append(s, e)[j] = e
      BY <2>1, <2>3 DEF Members
    <2> QED BY <1>1, <2>2, <2>3
  <1> QED BY <1>3 DEF Sorted

LEMMA SortedTail ==
    ASSUME NEW s \in Seq(Nat), s # << >>, Sorted(s)
    PROVE  /\ Sorted(Tail(s))
           /\ \A x \in Members(Tail(s)) : Head(s) < x
  <1>1. /\ 1 \in DOMAIN s /\ Head(s) = s[1]
        /\ \A i \in DOMAIN Tail(s) : i + 1 \in DOMAIN s /\ Tail(s)[i] = s[i + 1]
    BY HeadAndTail
  <1>2. \A i \in DOMAIN Tail(s) : 1 < i + 1 /\ i \in Nat
    OBVIOUS
  <1>3. Sorted(Tail(s))
    <2>1. \A i, j \in Nat : i < j => i + 1 < j + 1
      OBVIOUS
    <2> QED BY <1>1, <1>2, <2>1 DEF Sorted
  <1> QED BY <1>1, <1>2, <1>3 DEF Sorted, Members

\* What is left of the way after a cut.
LEMMA SortedCut ==
    ASSUME NEW s \in Seq(Nat \ {0}), Sorted(s), NEW n \in 0 .. Len(s)
    PROVE  /\ SubSeq(s, 1, n) \in Seq(Nat \ {0})
           /\ Sorted(SubSeq(s, 1, n))
           /\ Members(SubSeq(s, 1, n)) \subseteq Members(s)
  <1>1. /\ SubSeq(s, 1, n) \in Seq(Nat \ {0})
        /\ DOMAIN SubSeq(s, 1, n) = 1 .. n
        /\ \A i \in 1 .. n : i \in DOMAIN s /\ SubSeq(s, 1, n)[i] = s[i]
    OBVIOUS
  <1> QED BY <1>1 DEF Sorted, Members

(***************************************************************************)
(* The types, and the walks of the feeders.                                *)
(***************************************************************************)
FrameIds == Nat \ {0}

DataTypes ==
    /\ todo \in [Feeders -> Seq(Consumers)]
    /\ subs \in [Streams -> Seq(Consumers)]
    /\ queue \in [Consumers -> Seq(Nat)]
    /\ count \in [Feeders -> FrameIds]
    /\ got \in [Consumers -> Seq(FrameIds)]
    /\ refused \in [Consumers -> SUBSET Nat]

\* As in mklfq/, but that the transformer has its worker to end behind terminate().
Walks ==
    /\ \A s \in Streams : \A i \in DOMAIN subs[s] :
          /\ In[subs[s][i]] = s /\ pc[subs[s][i]] # "start"
          /\ \A j \in DOMAIN subs[s] : subs[s][i] = subs[s][j] => i = j
    /\ \A f \in Feeders : Walk(f, todo[f])
    /\ \A f \in Feeders : pc[f] \in {"signal", "mark", "sigmark"} => todo[f] # << >>
    /\ \A f \in Feeders : pc[f] \in {"close", "done"} => subs[Out[f]] = << >>

Base == QuietInv /\ DataTypes /\ Walks

\* The frames come back in the order they were sent in, and were taken from the first
\* stream; while an answer is pushed, it is the latest.
LinkInv ==
    /\ sent \in Seq(FrameIds) /\ received \in Seq(FrameIds) /\ way \in Seq(FrameIds)
    /\ Sorted(received) /\ Sorted(way)
    /\ \A x \in Members(received), y \in Members(way) : x < y
    /\ Members(received) \cup Members(way) \subseteq Members(sent)
    /\ Members(sent) \subseteq Members(got[Transformer])
    /\ pc[Transformer] \in {"events", "reply", "push", "visit", "signal"} => got[Transformer] # << >>
    /\ pc[Transformer] \in {"push", "visit", "signal"} =>
          received # << >> /\ count[Transformer] = received[Len(received)]

LEMMA BaseInit == QROInit => Base
  <1> SUFFICES ASSUME QROInit PROVE Base
    OBVIOUS
  <1>1. /\ QuietInv
        /\ Init
    BY QuietInit DEF QROInit
  <1>2. DataTypes
    BY <1>1 DEF Init, DataTypes, FrameIds
  <1>3. \A f \in Feeders : todo[f] = << >> /\ pc[f] \in {"start", "barrier"}
    BY <1>1, WhoIsWho DEF Init
  <1>4. Walks
    BY <1>1, <1>3 DEF Init, Walks, Walk
  <1> QED BY <1>1, <1>2, <1>4 DEF Base

\* What thread t does to the walks when it is past subscribe().
LEMMA WalksGo ==
    ASSUME Base, NEW t \in Threads,
           \A u \in Threads : u # t => pc'[u] = pc[u],
           pc'[t] # "start",
           \/ subs' = subs
           \/ t \in Feeders /\ subs' = [subs EXCEPT ![Out[t]] = << >>],
           \A f \in Feeders : f # t => todo'[f] = todo[f],
           t \in Feeders =>
              /\ \/ todo'[t] = todo[t]
                 \/ todo'[t] = subs[Out[t]]
                 \/ todo[t] # << >> /\ todo'[t] = Tail(todo[t])
              /\ pc'[t] \in {"signal", "mark", "sigmark"} => todo'[t] # << >>
              /\ pc'[t] \in {"close", "done"} => subs'[Out[t]] = << >>
    PROVE  Walks'
  <1>1. /\ subs \in [Streams -> Seq(Consumers)]
        /\ Feeders \subseteq Threads /\ Consumers \subseteq Threads
        /\ Walks
        /\ \A f \in Feeders : Out[f] \in Streams
        /\ \A f \in Feeders : f # t /\ t \in Feeders => Out[f] # Out[t]
    BY WhoIsWho, FeederOfStream DEF Base, DataTypes
  <1>2. \A s \in Streams : subs'[s] = subs[s] \/ subs'[s] = << >>
    BY <1>1
  <1>3. \A d \in Consumers : pc[d] # "start" => pc'[d] # "start"
    BY <1>1
  <1>4. ASSUME NEW s \in Streams, NEW i \in DOMAIN subs'[s]
        PROVE  /\ In[subs'[s][i]] = s /\ pc'[subs'[s][i]] # "start"
               /\ \A j \in DOMAIN subs'[s] : subs'[s][i] = subs'[s][j] => i = j
    <2>1. CASE subs'[s] = << >>
      BY <1>4, <2>1
    <2>2. CASE subs'[s] = subs[s]
      <3>1. subs[s][i] \in Consumers
        BY <1>1, <1>4, <2>2
      <3> QED BY <1>1, <1>3, <1>4, <2>2, <3>1 DEF Walks
    <2> QED BY <1>2, <2>1, <2>2
  <1>5. ASSUME t \in Feeders
        PROVE  Walk(t, todo'[t])
    <2>1. Walk(t, todo[t]) /\ Walk(t, subs[Out[t]]) /\ todo[t] \in Seq(Consumers)
      BY <1>1, <1>5 DEF Walks, Walk, Base, DataTypes
    <2>2. CASE todo[t] # << >> /\ todo'[t] = Tail(todo[t])
      <3>1. \A i \in DOMAIN Tail(todo[t]) :
               /\ i + 1 \in DOMAIN todo[t] /\ Tail(todo[t])[i] = todo[t][i + 1] /\ i \in Nat
        BY <2>1, <2>2, HeadAndTail
      <3>2. \A i, j \in Nat : i + 1 = j + 1 => i = j
        OBVIOUS
      <3> QED BY <2>1, <2>2, <3>1, <3>2 DEF Walk
    <2> QED BY <1>5, <2>1, <2>2
  <1>6. ASSUME NEW f \in Feeders
        PROVE  /\ Walk(f, todo'[f])
               /\ pc'[f] \in {"signal", "mark", "sigmark"} => todo'[f] # << >>
               /\ pc'[f] \in {"close", "done"} => subs'[Out[f]] = << >>
    <2>1. CASE f = t
      BY <1>5, <2>1
    <2>2. CASE f # t
      <3>1. todo'[f] = todo[f] /\ pc'[f] = pc[f]
        BY <1>1, <2>2
      <3>2. subs'[Out[f]] = subs[Out[f]]
        BY <1>1, <2>2
      <3> QED BY <1>1, <3>1, <3>2 DEF Walks
    <2> QED BY <2>1, <2>2
  <1> QED BY <1>4, <1>6 DEF Walks

LEMMA BaseBegin ==
    ASSUME Base, NEW t \in Threads, Begin(t)
    PROVE  Base'
  <1>1. QuietInv'
    BY QuietBegin DEF Base
  <1>2. CASE BarrierWait(t)
    <2>1. DataTypes'
      BY <1>2 DEF Base, DataTypes, Begin, BarrierWait, Subscribe, shared, history, link
    <2>2. \A u \in Threads :
             \/ pc'[u] = pc[u]
             \/ pc[u] \in {"barrier", "parked"} /\ pc'[u] \in {"parked", "push", "next"}
      <3>1. CASE waiting > 1
        BY <1>2, <3>1 DEF BarrierWait, Base, QuietInv
      <3>2. CASE ~ (waiting > 1)
        BY <1>2, <3>2 DEF BarrierWait, Behind, Base, QuietInv
      <3> QED BY <3>1, <3>2
    <2>3. /\ subs' = subs /\ todo' = todo
          /\ \A s \in Streams : \A i \in DOMAIN subs[s] : subs[s][i] \in Threads
      BY <1>2, WhoIsWho DEF BarrierWait, shared, Base, DataTypes
    <2>4. Walks'
      BY <2>2, <2>3, WhoIsWho DEF Base, Walks, Walk
    <2> QED BY <1>1, <2>1, <2>4 DEF Base
  <1>3. CASE t \in Consumers /\ Subscribe(t)
    <2>1. /\ pc[t] = "start" /\ pc' = [pc EXCEPT ![t] = "barrier"]
          /\ subs' = [subs EXCEPT ![In[t]] = Append(subs[In[t]], t)]
          /\ todo' = todo /\ t \in Consumers /\ In[t] \in Streams
          /\ UNCHANGED <<queue, count, got, refused>>
      BY <1>3, WhoIsWho DEF Begin, Subscribe, Goto, history, link
    <2>2. /\ subs \in [Streams -> Seq(Consumers)] /\ pc \in [Threads -> QROPlaces]
          /\ Append(subs[In[t]], t) \in Seq(Consumers)
      <3>1. subs \in [Streams -> Seq(Consumers)] /\ pc \in [Threads -> QROPlaces]
        BY DEF Base, DataTypes, QuietInv
      <3> QED BY <2>1, <3>1
    <2>3. DataTypes'
      BY <2>1, <2>2 DEF Base, DataTypes
    <2>4. /\ \A u \in Threads : u # t => pc'[u] = pc[u]
          /\ pc'[t] = "barrier"
      BY <2>2, <2>1
    <2>5. ASSUME NEW s \in Streams, NEW i \in DOMAIN subs'[s]
          PROVE  /\ In[subs'[s][i]] = s /\ pc'[subs'[s][i]] # "start"
                 /\ \A j \in DOMAIN subs'[s] : subs'[s][i] = subs'[s][j] => i = j
      <3>1. \A j \in DOMAIN subs[s] : subs[s][j] \in Threads
        BY <2>2, WhoIsWho
      <3>2. CASE s # In[t]
        <4>1. subs'[s] = subs[s]
          BY <2>1, <2>2, <3>2
        <4> QED BY <2>4, <2>5, <3>1, <4>1 DEF Base, Walks
      <3>3. CASE s = In[t]
        <4>1. subs'[s] = Append(subs[s], t) /\ subs[s] \in Seq(Consumers)
          BY <2>1, <2>2, <3>3
        <4>2. \A j \in DOMAIN subs[s] :
                 In[subs[s][j]] = s /\ pc'[subs[s][j]] # "start" /\ subs[s][j] # t
          BY <2>1, <2>4, <3>1 DEF Base, Walks
        <4>3. /\ \A j \in DOMAIN subs[s] : subs'[s][j] = subs[s][j]
              /\ subs'[s][Len(subs[s]) + 1] = t
              /\ \A j \in DOMAIN subs'[s] : j \in DOMAIN subs[s] \/ j = Len(subs[s]) + 1
          <5>1. /\ DOMAIN subs[s] = 1 .. Len(subs[s]) /\ Len(subs[s]) \in Nat
                /\ DOMAIN Append(subs[s], t) = 1 .. Len(subs[s]) + 1
                /\ \A j \in 1 .. Len(subs[s]) : Append(subs[s], t)[j] = subs[s][j]
                /\ Append(subs[s], t)[Len(subs[s]) + 1] = t
            BY <4>1
          <5> QED BY <4>1, <5>1
        <4>4. \A j, k \in DOMAIN subs[s] : subs[s][j] = subs[s][k] => j = k
          BY DEF Base, Walks
        <4> QED BY <2>1, <2>4, <2>5, <3>3, <4>2, <4>3, <4>4
      <3> QED BY <3>2, <3>3
    <2>6. \A u \in Threads : pc[u] \in {"start", "barrier", "parked"}
      BY <2>1 DEF Base, QuietInv, BarrierInv
    <2>7. \A u \in Threads : pc'[u] \in {"start", "barrier", "parked"}
      BY <2>4, <2>6
    <2>8. \A f \in Feeders : Walk(f, todo'[f])
      BY <2>1 DEF Base, Walks
    <2>9. Walks'
      BY <2>5, <2>7, <2>8, WhoIsWho DEF Walks, Walk
    <2> QED BY <1>1, <2>3, <2>9 DEF Base
  <1> QED BY <1>2, <1>3 DEF Begin

LEMMA BaseConsume ==
    ASSUME Base, NEW c \in Consumers, AwaitFrame(c) \/ Consumed(c) \/ Abort(c)
    PROVE  Base'
  <1>1. QuietInv'
    BY QuietConsume DEF Base
  <1>2. /\ subs' = subs /\ todo' = todo /\ count' = count /\ refused' = refused
    BY DEF AwaitFrame, Consumed, Abort, NextCheck, Peek, WaitSignal, Dequeue, shared, history, link
  <1>3. /\ \A u \in Threads : u # c => pc'[u] = pc[u]
        /\ pc'[c] \notin {"start", "signal", "mark", "sigmark"}
        /\ c \in Feeders => pc'[c] \notin {"close", "done"}
    <2>1. CASE Abort(c)
      BY <2>1 DEF Abort
    <2>2. CASE AwaitFrame(c) \/ Consumed(c)
      BY <2>2, WhoIsWho DEF AwaitFrame, Consumed, NextCheck, Peek, WaitSignal, Dequeue, AfterLoop,
                  Goto, Base, QuietInv
    <2> QED BY <2>1, <2>2
  <1>4. c \in Threads
    BY WhoIsWho
  <1>5. Walks'
    BY <1>2, <1>3, <1>4, WalksGo
  <1>6. queue' \in [Consumers -> Seq(Nat)] /\ got' \in [Consumers -> Seq(FrameIds)]
    <2>1. queue \in [Consumers -> Seq(Nat)] /\ got \in [Consumers -> Seq(FrameIds)]
      BY DEF Base, DataTypes
    <2>2. CASE Dequeue(c)
      <3>1. /\ queue[c] # << >> /\ queue' = [queue EXCEPT ![c] = Tail(queue[c])]
            /\ \/ got' = got
               \/ Head(queue[c]) # NullOpt /\ got' = [got EXCEPT ![c] = Append(got[c], Head(queue[c]))]
        BY <2>2 DEF Dequeue
      <3>2. Tail(queue[c]) \in Seq(Nat) /\ Head(queue[c]) \in Nat
        BY <2>1, <3>1, HeadAndTail
      <3>3. Head(queue[c]) # NullOpt => Append(got[c], Head(queue[c])) \in Seq(FrameIds)
        BY <2>1, <3>2 DEF NullOpt, FrameIds
      <3> QED BY <2>1, <3>1, <3>2, <3>3
    <2>3. CASE AwaitFrame(c) \/ Abort(c)
      BY <2>1, <2>3 DEF AwaitFrame, Abort, NextCheck, Peek, WaitSignal, shared, history
    <2> QED BY <2>2, <2>3 DEF Consumed
  <1>7. DataTypes'
    BY <1>2, <1>6 DEF Base, DataTypes
  <1> QED BY <1>1, <1>5, <1>7 DEF Base

LEMMA BaseTransform ==
    ASSUME Base, LinkInv, Transform(Transformer) \/ Close(Transformer)
    PROVE  Base'
  <1>1. QuietInv'
    BY QuietTransform DEF Base
  <1>2. /\ Transformer \in Threads /\ Transformer \in Consumers /\ Transformer \in Feeders
        /\ queue \in [Consumers -> Seq(Nat)] /\ got \in [Consumers -> Seq(FrameIds)]
        /\ count \in [Feeders -> FrameIds] /\ pc \in [Threads -> QROPlaces]
        /\ way \in Seq(FrameIds)
    BY TransformerIs DEF Base, DataTypes, QuietInv, LinkInv
  <1>3. /\ subs' = subs /\ todo' = todo /\ refused' = refused
        /\ \A u \in Threads : u # Transformer => pc'[u] = pc[u]
        /\ pc'[Transformer] \notin {"start", "signal", "mark", "sigmark", "close"}
        /\ pc'[Transformer] = "done" => pc[Transformer] = "close"
    <2>1. CASE TakeFrame(Transformer) \/ Receive(Transformer) \/ Call(Transformer)
      BY <1>2, <2>1 DEF TakeFrame, Receive, Call, Goto, shared, history
    <2>2. CASE CallFails(Transformer) \/ WaitDone(Transformer) \/ Close(Transformer)
      BY <1>2, <2>2 DEF CallFails, WaitDone, Close, Goto, shared, history
    <2> QED BY <2>1, <2>2 DEF Transform
  <1>4. pc[Transformer] = "close" => subs[Out[Transformer]] = << >>
    BY <1>2 DEF Base, Walks
  <1>5. Walks'
    BY <1>2, <1>3, <1>4, WalksGo
  <1>6. /\ queue' \in [Consumers -> Seq(Nat)] /\ got' \in [Consumers -> Seq(FrameIds)]
        /\ count' \in [Feeders -> FrameIds]
    <2>1. CASE TakeFrame(Transformer)
      <3>1. /\ queue[Transformer] # << >>
            /\ queue' = [queue EXCEPT ![Transformer] = Tail(queue[Transformer])]
            /\ \/ got' = got
               \/ /\ Head(queue[Transformer]) # NullOpt
                  /\ got' = [got EXCEPT ![Transformer] =
                                Append(got[Transformer], Head(queue[Transformer]))]
            /\ count' = count
        BY <2>1 DEF TakeFrame
      <3>2. Tail(queue[Transformer]) \in Seq(Nat) /\ Head(queue[Transformer]) \in Nat
        BY <1>2, <3>1, HeadAndTail
      <3>3. Head(queue[Transformer]) # NullOpt =>
               Append(got[Transformer], Head(queue[Transformer])) \in Seq(FrameIds)
        BY <1>2, <3>2 DEF NullOpt, FrameIds
      <3> QED BY <1>2, <3>1, <3>2, <3>3
    <2>2. CASE Receive(Transformer)
      <3>1. Head(way) \in FrameIds
        BY <1>2, <2>2, MembersHead DEF Receive, Link!Answer
      <3> QED BY <1>2, <2>2, <3>1 DEF Receive, shared, history
    <2>3. CASE Call(Transformer) \/ CallFails(Transformer) \/ WaitDone(Transformer) \/ Close(Transformer)
      BY <1>2, <2>3 DEF Call, CallFails, WaitDone, Close, shared, history
    <2> QED BY <2>1, <2>2, <2>3 DEF Transform
  <1>7. DataTypes'
    BY <1>3, <1>6 DEF Base, DataTypes
  <1> QED BY <1>1, <1>5, <1>7 DEF Base

LEMMA BaseFeed ==
    ASSUME Base, NEW t \in Feeders, QROFeed(t)
    PROVE  Base'
  <1>1. QuietInv'
    BY QuietFeed DEF Base
  <1>2. /\ t \in Threads /\ Out[t] \in Streams
        /\ pc \in [Threads -> QROPlaces] /\ back \in {"events", "reply"}
        /\ todo \in [Feeders -> Seq(Consumers)] /\ todo[t] \in Seq(Consumers)
        /\ subs \in [Streams -> Seq(Consumers)]
        /\ queue \in [Consumers -> Seq(Nat)] /\ count \in [Feeders -> FrameIds]
        /\ got \in [Consumers -> Seq(FrameIds)] /\ refused \in [Consumers -> SUBSET Nat]
        /\ pc[t] \in {"signal", "mark", "sigmark"} => todo[t] # << >>
    BY WhoIsWho, FeederOfStream DEF Base, DataTypes, QuietInv, Walks
  <1>3. todo[t] # << >> => Head(todo[t]) \in Consumers /\ Tail(todo[t]) \in Seq(Consumers)
    BY <1>2, HeadAndTail
  <1> DEFINE Goes == /\ \A u \in Threads : u # t => pc'[u] = pc[u]
                     /\ pc'[t] # "start"
                     /\ \/ subs' = subs /\ pc'[t] \notin {"close", "done"}
                        \/ subs' = [subs EXCEPT ![Out[t]] = << >>]
                     /\ \A f \in Feeders : f # t => todo'[f] = todo[f]
                     /\ todo' \in [Feeders -> Seq(Consumers)]
                     /\ \/ todo'[t] = todo[t]
                        \/ todo'[t] = subs[Out[t]]
                        \/ todo[t] # << >> /\ todo'[t] = Tail(todo[t])
                     /\ pc'[t] \in {"signal", "mark", "sigmark"} => todo'[t] # << >>
             Data == /\ queue' \in [Consumers -> Seq(Nat)] /\ count' \in [Feeders -> FrameIds]
                     /\ got' = got /\ refused' \in [Consumers -> SUBSET Nat]
  <1>4. ASSUME PushLock(t) \/ TermBegin(t)
        PROVE  Goes /\ Data
    <2>1. /\ todo' = [todo EXCEPT ![t] = subs[Out[t]]] /\ subs[Out[t]] \in Seq(Consumers)
          /\ subs' = subs
          /\ UNCHANGED <<queue, count, got, refused>>
          /\ pc' = [pc EXCEPT ![t] = "visit"] \/ pc' = [pc EXCEPT ![t] = "flag"]
      BY <1>2, <1>4 DEF PushLock, TermBegin, Goto, shared, history
    <2> QED BY <1>2, <2>1
  <1>5. ASSUME PushEnqueue(t) \/ TermEnqueue(t)
        PROVE  Goes /\ Data
    <2>1. PICK e \in Nat : queue' = [queue EXCEPT ![Head(todo[t])] = Append(queue[Head(todo[t])], e)]
      <3>1. NullOpt \in Nat /\ count[t] \in Nat
        BY <1>2 DEF NullOpt, FrameIds
      <3>2. CASE PushEnqueue(t)
        BY <3>1, <3>2 DEF PushEnqueue
      <3>3. CASE TermEnqueue(t)
        BY <3>1, <3>3 DEF TermEnqueue
      <3> QED BY <1>5, <3>2, <3>3
    <2>2. Append(queue[Head(todo[t])], e) \in Seq(Nat)
      <3>1. todo[t] # << >>
        BY <1>2, <1>5 DEF PushEnqueue, TermEnqueue
      <3> QED BY <1>2, <1>3, <3>1
    <2>3. queue' \in [Consumers -> Seq(Nat)]
      BY <1>2, <2>1, <2>2
    <2>4. Goes
      BY <1>2, <1>5 DEF PushEnqueue, TermEnqueue, Goto
    <2>5. Data
      BY <1>2, <1>5, <2>3 DEF PushEnqueue, TermEnqueue, history
    <2> QED BY <2>4, <2>5
  <1>6. ASSUME PushRefused(t) \/ PushSignal(t) \/ TermRefused(t) \/ TermSignal(t)
        PROVE  Goes /\ Data
    <2>1. todo[t] # << >>
      BY <1>2, <1>6 DEF PushRefused, PushSignal, TermRefused, TermSignal
    <2>2. todo' = [todo EXCEPT ![t] = Tail(todo[t])] /\ Tail(todo[t]) \in Seq(Consumers)
      BY <1>3, <1>6, <2>1 DEF PushRefused, PushSignal, TermRefused, TermSignal
    <2>3. /\ \/ pc' = pc /\ pc[t] = "visit"
             \/ pc' = [pc EXCEPT ![t] = "visit"]
             \/ pc' = [pc EXCEPT ![t] = "flag"]
          /\ subs' = subs
      BY <1>6 DEF PushRefused, PushSignal, TermRefused, TermSignal, Goto, shared
    <2>4. Goes
      BY <1>2, <2>1, <2>2, <2>3
    <2>5. Data
      <3>1. UNCHANGED <<queue, count, got>>
        BY <1>6 DEF PushRefused, PushSignal, TermRefused, TermSignal, shared, history
      <3>2. \/ refused' = refused
            \/ refused' = [refused EXCEPT ![Head(todo[t])] = refused[Head(todo[t])] \cup {count[t]}]
        BY <1>6 DEF PushRefused, PushSignal, TermRefused, TermSignal, shared, history
      <3>3. count[t] \in Nat
        BY <1>2 DEF FrameIds
      <3> QED BY <1>2, <3>1, <3>2, <3>3
    <2> QED BY <2>4, <2>5
  <1>7. ASSUME TermFlag(t) \/ AnswerDone(t)
        PROVE  Goes /\ Data
    <2>1. /\ \/ pc' = [pc EXCEPT ![t] = "mark"] /\ todo[t] # << >>
             \/ pc' = [pc EXCEPT ![t] = back]
          /\ UNCHANGED <<subs, todo, queue, count, got, refused>>
      BY <1>7 DEF TermFlag, AnswerDone, Goto, shared, history
    <2> QED BY <1>2, <2>1
  <1>8. ASSUME PushDone(t)
        PROVE  Goes /\ Data
    <2>1. /\ \E l \in {"next", "term", "push"} : pc' = [pc EXCEPT ![t] = l]
          /\ count' = [count EXCEPT ![t] = count[t] + 1]
          /\ UNCHANGED <<subs, todo, queue, got, refused>>
      BY <1>8 DEF PushDone, PushUnlock, Goto, shared, history
    <2>2. count[t] + 1 \in FrameIds
      BY <1>2 DEF FrameIds
    <2>3. count' \in [Feeders -> FrameIds]
      BY <1>2, <2>1, <2>2
    <2> QED BY <1>2, <2>1, <2>3
  <1>9. ASSUME TermEnd(t)
        PROVE  Goes /\ Data
    <2>1. /\ \E l \in {"close", "done"} : pc' = [pc EXCEPT ![t] = l]
          /\ subs' = [subs EXCEPT ![Out[t]] = << >>]
          /\ UNCHANGED <<todo, queue, count, got, refused>>
      BY <1>9 DEF TermEnd, Goto, history
    <2> QED BY <1>2, <2>1
  <1> HIDE DEF Goes, Data
  <1>10. Goes /\ Data
    BY <1>4, <1>5, <1>6, <1>7, <1>8, <1>9
       DEF QROFeed, PushFrame, TermVisit
  <1>11. subs' \in [Streams -> Seq(Consumers)]
    <2>1. << >> \in Seq(Consumers)
      OBVIOUS
    <2> QED BY <1>2, <1>10, <2>1 DEF Goes
  <1>12. Walks'
    <2>1. pc'[t] \in {"close", "done"} => subs'[Out[t]] = << >>
      BY <1>2, <1>10 DEF Goes
    <2> QED BY <1>2, <1>10, <2>1, WalksGo DEF Goes
  <1>13. DataTypes'
    <2>1. todo' \in [Feeders -> Seq(Consumers)]
      BY <1>10 DEF Goes
    <2>2. /\ queue' \in [Consumers -> Seq(Nat)] /\ count' \in [Feeders -> FrameIds]
          /\ got' \in [Consumers -> Seq(FrameIds)] /\ refused' \in [Consumers -> SUBSET Nat]
      BY <1>2, <1>10 DEF Data
    <2> QED BY <1>11, <2>1, <2>2 DEF DataTypes
  <1> QED BY <1>1, <1>12, <1>13 DEF Base

\* When every thread is done, no stream has a subscriber, and the destructors find
\* nobody to tell.
LEMMA EndFrame ==
    ASSUME Base, QROMainReturn \/ WorkerDies \/ UNCHANGED qroVars
    PROVE  /\ UNCHANGED <<pc, waiting, count, todo, subs, sMutex, queue, refused, got, sent, received, back>>
           /\ way' = way \/ Link!Cut
  <1>1. CASE QROMainReturn
    <2>1. \A s \in Streams : subs[s] = << >>
      BY <1>1, WhoIsWho, FeederOfStream DEF QROMainReturn, MainReturn, Base, Walks
    <2>2. subs' = subs
      BY <1>1, <2>1 DEF QROMainReturn, MainReturn, Base, DataTypes
    <2>3. {c \in Consumers : Subscribed(c)} = {}
      BY <2>1, WhoIsWho DEF Subscribed
    <2>4. queue' = [c \in Consumers |-> queue[c]]
      BY <1>1, <2>3 DEF QROMainReturn, MainReturn
    <2>5. queue' = queue
      BY <2>4 DEF Base, DataTypes
    <2> QED BY <1>1, <2>2, <2>5 DEF QROMainReturn, MainReturn, history, link
  <1>2. CASE WorkerDies
    BY <1>2 DEF WorkerDies, Link!Cut, vars, shared, history
  <1>3. CASE UNCHANGED qroVars
    BY <1>3 DEF qroVars, vars, shared, history, link
  <1> QED BY <1>1, <1>2, <1>3

LEMMA BaseEnd ==
    ASSUME Base, QROMainReturn \/ WorkerDies \/ UNCHANGED qroVars
    PROVE  Base'
  <1>1. UNCHANGED <<pc, waiting, count, todo, subs, sMutex, queue, refused, got, back>>
    BY EndFrame
  <1> QED BY <1>1 DEF Base, QuietInv, HeldByPush, BarrierInv, Early, DataTypes, Walks, Walk

(***************************************************************************)
(* The link.                                                               *)
(***************************************************************************)
\* The places at which the transformer has a frame in hand, or an answer.
InHand == {"events", "reply", "push", "visit", "signal"}
Pushing == {"push", "visit", "signal"}

\* The link and what the transformer holds stay as they are.
LEMMA LinkStands ==
    ASSUME LinkInv,
           UNCHANGED <<sent, received, way>>,
           got'[Transformer] = got[Transformer], count'[Transformer] = count[Transformer],
           \/ pc'[Transformer] = pc[Transformer]
           \/ pc'[Transformer] \notin InHand
           \/ pc[Transformer] \in Pushing /\ pc'[Transformer] \in Pushing
           \/ pc[Transformer] \in InHand /\ pc'[Transformer] \in {"events", "reply"}
    PROVE  LinkInv'
  BY DEF LinkInv, InHand, Pushing

\* ... but that the worker may be gone.
LEMMA CutKeeps ==
    ASSUME LinkInv, Link!Cut \/ UNCHANGED <<sent, received, way>>
    PROVE  /\ sent' \in Seq(FrameIds) /\ received' \in Seq(FrameIds) /\ way' \in Seq(FrameIds)
           /\ Sorted(received') /\ Sorted(way')
           /\ \A x \in Members(received'), y \in Members(way') : x < y
           /\ Members(received') \cup Members(way') \subseteq Members(sent')
           /\ sent' = sent /\ received' = received
  <1>1. CASE Link!Cut
    <2>1. PICK n \in 0 .. Len(way) : way' = SubSeq(way, 1, n)
      BY <1>1 DEF Link!Cut
    <2>2. sent' = sent /\ received' = received
      BY <1>1 DEF Link!Cut
    <2>3. way \in Seq(Nat \ {0}) /\ Sorted(way)
      BY DEF LinkInv, FrameIds
    <2>4. /\ way' \in Seq(FrameIds) /\ Sorted(way') /\ Members(way') \subseteq Members(way)
      BY <2>1, <2>3, SortedCut DEF FrameIds
    <2> QED BY <2>2, <2>4 DEF LinkInv
  <1>2. CASE UNCHANGED <<sent, received, way>>
    BY <1>2 DEF LinkInv
  <1> QED BY <1>1, <1>2

LEMMA LinkBegin ==
    ASSUME Base, LinkInv, NEW t \in Threads, Begin(t)
    PROVE  LinkInv'
  <1>1. UNCHANGED <<sent, received, way, got, count>>
    BY DEF Begin, BarrierWait, Subscribe, history, link
  <1>2. pc'[Transformer] = pc[Transformer] \/ pc'[Transformer] \in {"barrier", "parked", "next"}
    <2>1. CASE BarrierWait(t)
      BY <2>1, TransformerIs DEF BarrierWait, Behind, Base, QuietInv
    <2>2. CASE Subscribe(t)
      BY <2>2, TransformerIs DEF Subscribe, Goto, Base, QuietInv
    <2> QED BY <2>1, <2>2 DEF Begin
  <1> QED BY <1>1, <1>2, LinkStands DEF InHand

LEMMA LinkConsume ==
    ASSUME Base, LinkInv, NEW c \in Consumers, AwaitFrame(c) \/ Consumed(c) \/ Abort(c)
    PROVE  LinkInv'
  <1>1. /\ UNCHANGED <<sent, received, way, count>>
        /\ got'[Transformer] = got[Transformer]
    BY TransformerIs DEF AwaitFrame, Consumed, Abort, NextCheck, Peek, WaitSignal, Dequeue, shared,
                         history, link, Base, DataTypes
  <1>2. \/ pc'[Transformer] = pc[Transformer]
        \/ pc'[Transformer] \notin InHand
    BY TransformerIs DEF AwaitFrame, Consumed, Abort, NextCheck, Peek, WaitSignal, Dequeue,
                         AfterLoop, Goto, InHand, Base, QuietInv
  <1> QED BY <1>1, <1>2, LinkStands

LEMMA LinkTransform ==
    ASSUME Base, LinkInv, Transform(Transformer) \/ Close(Transformer)
    PROVE  LinkInv'
  <1>1. /\ Transformer \in Threads /\ Transformer \in Consumers /\ Transformer \in Feeders
        /\ queue \in [Consumers -> Seq(Nat)] /\ got \in [Consumers -> Seq(FrameIds)]
        /\ got[Transformer] \in Seq(FrameIds)
        /\ count \in [Feeders -> FrameIds] /\ pc \in [Threads -> QROPlaces]
        /\ sent \in Seq(FrameIds) /\ received \in Seq(FrameIds) /\ way \in Seq(FrameIds)
    BY TransformerIs DEF Base, DataTypes, QuietInv, LinkInv
  <1>2. CASE TakeFrame(Transformer)
    <2>1. UNCHANGED <<sent, received, way, count>>
      BY <1>2 DEF TakeFrame, link
    <2>2. CASE got' = got /\ pc'[Transformer] = "term"
      BY <2>1, <2>2, LinkStands DEF InHand
    <2>3. CASE ~ (got' = got /\ pc'[Transformer] = "term")
      <3>1. /\ queue[Transformer] # << >> /\ Head(queue[Transformer]) # NullOpt
            /\ pc'[Transformer] = "events"
            /\ got'[Transformer] = Append(got[Transformer], Head(queue[Transformer]))
        BY <1>1, <1>2, <2>3 DEF TakeFrame, Goto
      <3>2. Head(queue[Transformer]) \in FrameIds
        BY <1>1, <3>1, HeadAndTail DEF NullOpt, FrameIds
      <3>3. /\ got'[Transformer] # << >>
            /\ Members(got[Transformer]) \subseteq Members(got'[Transformer])
        BY <1>1, <3>1, <3>2, MembersAppend
      <3> QED BY <2>1, <3>1, <3>3 DEF LinkInv
    <2> QED BY <2>2, <2>3
  <1>3. CASE Receive(Transformer)
    <2>1. /\ way # << >>
          /\ received' = Append(received, Head(way)) /\ way' = Tail(way) /\ sent' = sent
          /\ got' = got /\ count'[Transformer] = Head(way)
          /\ pc[Transformer] \in {"events", "reply"} /\ pc'[Transformer] = "push"
      BY <1>1, <1>3 DEF Receive, Link!Answer, Goto, history
    <2>2. /\ Head(way) \in FrameIds /\ Tail(way) \in Seq(FrameIds) /\ Head(way) \in Members(way)
          /\ Members(way) = Members(Tail(way)) \cup {Head(way)}
      BY <1>1, <2>1, MembersHead
    <2>3. /\ Append(received, Head(way)) \in Seq(FrameIds) /\ Append(received, Head(way)) # << >>
          /\ Append(received, Head(way))[Len(Append(received, Head(way)))] = Head(way)
          /\ Members(Append(received, Head(way))) = Members(received) \cup {Head(way)}
      <3> DEFINE id == Head(way)
      <3>1. id \in FrameIds /\ received \in Seq(FrameIds)
        BY <1>1, <2>2
      <3> HIDE DEF id
      <3>2. /\ Append(received, id) \in Seq(FrameIds) /\ Append(received, id) # << >>
            /\ Append(received, id)[Len(Append(received, id))] = id
            /\ Members(Append(received, id)) = Members(received) \cup {id}
        BY <3>1, MembersAppend
      <3> QED BY <3>2 DEF id
    <2>4. /\ received \in Seq(Nat) /\ way \in Seq(Nat) /\ Head(way) \in Nat
          /\ Sorted(received) /\ Sorted(way)
          /\ \A x \in Members(received) : x < Head(way)
      BY <1>1, <2>2 DEF LinkInv, FrameIds
    <2>5. Sorted(Append(received, Head(way)))
      BY <2>4, SortedAppend
    <2>6. Sorted(Tail(way)) /\ \A x \in Members(Tail(way)) : Head(way) < x
      BY <2>1, <2>4, SortedTail
    <2>7. \A x \in Members(received'), y \in Members(way') : x < y
      <3>1. \A x \in Members(received), y \in Members(Tail(way)) : x < y
        BY <2>2 DEF LinkInv
      <3> QED BY <2>1, <2>3, <2>6, <3>1
    <2>8. Members(received') \cup Members(way') \subseteq Members(sent')
      BY <2>1, <2>2, <2>3 DEF LinkInv
    <2> QED BY <2>1, <2>2, <2>3, <2>5, <2>6, <2>7, <2>8, <1>1 DEF LinkInv
  <1>4. CASE Call(Transformer)
    <2> DEFINE id == got[Transformer][Len(got[Transformer])]
    <2>1. /\ pc[Transformer] = "events" /\ pc'[Transformer] = "reply" /\ got' = got
          /\ \A i \in DOMAIN sent : sent[i] < id
          /\ sent' = Append(sent, id) /\ received' = received
          /\ way' = way \/ way' = Append(way, id)
      BY <1>1, <1>4 DEF Call, Link!Ask, Goto, history
    <2>2. got[Transformer] # << >>
      BY <2>1 DEF LinkInv
    <2>3. id \in FrameIds /\ id \in Members(got[Transformer])
      BY <1>1, <2>2 DEF Members
    <2> HIDE DEF id
    <2>4. Members(Append(sent, id)) = Members(sent) \cup {id} /\ Append(sent, id) \in Seq(FrameIds)
      BY <1>1, <2>3, MembersAppend
    <2>5. \A x \in Members(sent) : x < id
      BY <2>1 DEF Members
    <2>6. \A x \in Members(way) : x < id
      BY <2>5 DEF LinkInv
    <2>7. /\ way' \in Seq(FrameIds) /\ Sorted(way')
          /\ Members(way') \subseteq Members(way) \cup {id}
      <3>1. CASE way' = way
        BY <3>1 DEF LinkInv
      <3>2. CASE way' = Append(way, id)
        <4>1. way \in Seq(Nat) /\ id \in Nat /\ Sorted(way)
          BY <1>1, <2>3 DEF FrameIds, LinkInv
        <4>2. Sorted(Append(way, id))
          BY <2>6, <4>1, SortedAppend
        <4> QED BY <1>1, <2>3, <3>2, <4>2, MembersAppend
      <3> QED BY <2>1, <3>1, <3>2
    <2>8. \A x \in Members(received'), y \in Members(way') : x < y
      BY <2>1, <2>5, <2>7 DEF LinkInv
    <2>9. /\ Members(received') \cup Members(way') \subseteq Members(sent')
          /\ Members(sent') \subseteq Members(got[Transformer])
      BY <2>1, <2>3, <2>4, <2>7 DEF LinkInv
    <2> QED BY <2>1, <2>2, <2>4, <2>7, <2>8, <2>9 DEF LinkInv
  <1>5. CASE CallFails(Transformer) \/ WaitDone(Transformer)
    <2>1. /\ UNCHANGED <<sent, received, way, got, count>>
          /\ pc'[Transformer] \notin InHand
      BY <1>1, <1>5 DEF CallFails, WaitDone, Goto, InHand, history, link
    <2> QED BY <2>1, LinkStands
  <1>6. CASE Close(Transformer)
    <2>1. /\ UNCHANGED <<got, count>> /\ Link!Cut /\ pc'[Transformer] = "done"
      BY <1>1, <1>6 DEF Close, Goto, history
    <2> QED BY <2>1, CutKeeps DEF LinkInv
  <1> QED BY <1>2, <1>3, <1>4, <1>5, <1>6 DEF Transform

LEMMA LinkFeed ==
    ASSUME Base, LinkInv, NEW t \in Feeders, QROFeed(t)
    PROVE  LinkInv'
  <1>1. /\ t \in Threads /\ Transformer \in Threads /\ Transformer \in Feeders
        /\ Transformer # Producer
        /\ pc \in [Threads -> QROPlaces] /\ count \in [Feeders -> FrameIds]
        /\ back \in {"events", "reply"}
    BY WhoIsWho, TransformerIs DEF Base, DataTypes, QuietInv
  <1>2. /\ UNCHANGED <<sent, received, way, got>>
        /\ count'[Transformer] = count[Transformer]
        /\ t # Transformer => pc'[Transformer] = pc[Transformer]
    <2>1. CASE PushFrame(t) \/ PushDone(t) \/ AnswerDone(t)
      BY <1>1, <2>1 DEF PushFrame, PushDone, AnswerDone, PushLock, PushEnqueue, PushRefused,
                        PushSignal, PushUnlock, Goto, shared, history, link
    <2>2. CASE TermBegin(t) \/ TermVisit(t) \/ TermEnd(t)
      BY <1>1, <2>2 DEF TermBegin, TermVisit, TermEnd, TermFlag, TermEnqueue, TermRefused,
                        TermSignal, Goto, shared, history, link
    <2> QED BY <2>1, <2>2 DEF QROFeed
  <1>3. CASE t # Transformer
    BY <1>2, <1>3, LinkStands
  <1>4. CASE t = Transformer
    <2>1. CASE PushFrame(t)
      <3>1. pc[t] \in Pushing /\ pc'[t] \in Pushing
        BY <1>1, <2>1 DEF PushFrame, PushLock, PushEnqueue, PushRefused, PushSignal, Goto, Pushing
      <3> QED BY <1>2, <1>4, <3>1, LinkStands
    <2>2. CASE AnswerDone(t)
      <3>1. pc[t] \in InHand /\ pc'[t] \in {"events", "reply"}
        BY <1>1, <2>2 DEF AnswerDone, Goto, InHand
      <3> QED BY <1>2, <1>4, <3>1, LinkStands
    <2>3. CASE TermBegin(t) \/ TermVisit(t) \/ TermEnd(t)
      <3>1. pc'[t] \notin InHand
        BY <1>1, <2>3 DEF TermBegin, TermVisit, TermEnd, TermFlag, TermEnqueue, TermRefused,
                          TermSignal, Goto, InHand
      <3> QED BY <1>2, <1>4, <3>1, LinkStands
    <2> QED BY <1>1, <1>4, <2>1, <2>2, <2>3 DEF QROFeed, PushDone
  <1> QED BY <1>3, <1>4

LEMMA LinkEnd ==
    ASSUME Base, LinkInv, QROMainReturn \/ WorkerDies \/ UNCHANGED qroVars
    PROVE  LinkInv'
  <1>1. UNCHANGED <<pc, count, got, sent, received>> /\ (way' = way \/ Link!Cut)
    BY EndFrame
  <1>2. Link!Cut \/ UNCHANGED <<sent, received, way>>
    BY <1>1
  <1> QED BY <1>1, <1>2, CutKeeps DEF LinkInv

(***************************************************************************)
(* The consumers of the second stream.                                     *)
(***************************************************************************)
Audience == {c \in Consumers : In[c] = Out[Transformer]}

On(w, c) == \E i \in DOMAIN w : w[i] = c

\* The answers that have been offered to c.
Given(c) == IF ToOffer(c) THEN SubSeq(received, 1, Len(received) - 1) ELSE received

\* What AnswersReachConsumers says of one consumer.
Balance(seen, ref, ids) ==
    /\ Sorted(seen)
    /\ Members(seen) \cap ref = {}
    /\ Members(seen) \cup ref = ids

\* The transformer has told c that the stream has ended, or will not tell it any more.
Told(c) ==
    /\ pc[Transformer] \in {"flag", "mark", "sigmark", "close", "done"}
    /\ At(Transformer, "sigmark", c) \/ ~ On(todo[Transformer], c)

AudienceInv(c) ==
    /\ MarkLast(queue[c])
    /\ Marked(queue[c]) => Told(c)
    /\ pc[c] # "start" /\ pc[Transformer] \notin {"close", "done"} => Subscribed(c)
    /\ Balance(Seen(c), refused[c], Members(Given(c)))

LEMMA BalanceGrows ==
    ASSUME NEW seen \in Seq(Nat), NEW ref, NEW ids, NEW e \in Nat,
           Balance(seen, ref, ids), \A x \in ids : x < e
    PROVE  Balance(Append(seen, e), ref, ids \cup {e})
  <1>1. Members(Append(seen, e)) = Members(seen) \cup {e}
    BY MembersAppend
  <1>2. e \notin ids
    BY DEF Balance
  <1>3. Members(seen) \cap ref = {} /\ Members(seen) \cup ref = ids
    BY DEF Balance
  <1>4. Sorted(Append(seen, e))
    BY <1>3, SortedAppend DEF Balance
  <1>5. /\ (Members(seen) \cup {e}) \cap ref = {}
        /\ (Members(seen) \cup {e}) \cup ref = ids \cup {e}
    BY <1>2, <1>3
  <1> QED BY <1>1, <1>4, <1>5 DEF Balance

LEMMA BalanceRefused ==
    ASSUME NEW seen, NEW ref, NEW ids, NEW e \in Nat,
           Balance(seen, ref, ids), \A x \in ids : x < e
    PROVE  Balance(seen, ref \cup {e}, ids \cup {e})
  <1>1. e \notin ids
    BY DEF Balance
  <1>2. Members(seen) \cap ref = {} /\ Members(seen) \cup ref = ids
    BY DEF Balance
  <1>3. /\ Members(seen) \cap (ref \cup {e}) = {}
        /\ Members(seen) \cup (ref \cup {e}) = ids \cup {e}
    BY <1>1, <1>2
  <1> QED BY <1>3 DEF Balance

\* The answer that is pushed is greater than those before it.
LEMMA LastAnswer ==
    ASSUME NEW s \in Seq(FrameIds), s # << >>, Sorted(s)
    PROVE  /\ s[Len(s)] \in FrameIds
           /\ Members(s) = Members(SubSeq(s, 1, Len(s) - 1)) \cup {s[Len(s)]}
           /\ \A x \in Members(SubSeq(s, 1, Len(s) - 1)) : x < s[Len(s)]
  <1> DEFINE n == Len(s)
             g == SubSeq(s, 1, n - 1)
  <1>1. /\ n \in Nat /\ n >= 1 /\ DOMAIN s = 1 .. n
        /\ \A i \in 1 .. n : s[i] \in FrameIds
    OBVIOUS
  <1>2. /\ n \in 1 .. n /\ n - 1 \in 0 .. n
        /\ \A i \in 1 .. n : i = n \/ i \in 1 .. n - 1
        /\ \A i \in 1 .. n - 1 : i \in 1 .. n /\ i < n
    <2> HIDE DEF n
    <2> QED BY <1>1
  <1>3. DOMAIN g = 1 .. n - 1 /\ \A i \in 1 .. n - 1 : g[i] = s[i]
    <2>1. \A k \in 0 .. Len(s) : /\ DOMAIN SubSeq(s, 1, k) = 1 .. k
                                 /\ \A i \in 1 .. k : SubSeq(s, 1, k)[i] = s[i]
      OBVIOUS
    <2> QED BY <1>2, <2>1
  <1> HIDE DEF g, n
  <1>4. Members(s) \subseteq Members(g) \cup {s[n]}
    BY <1>1, <1>2, <1>3 DEF Members
  <1>5. Members(g) \cup {s[n]} \subseteq Members(s)
    BY <1>1, <1>2, <1>3 DEF Members
  <1>6. \A x \in Members(g) : x < s[n]
    BY <1>1, <1>2, <1>3 DEF Members, Sorted
  <1>7. Members(s) = Members(g) \cup {s[n]} /\ s[n] \in FrameIds
    BY <1>1, <1>2, <1>4, <1>5
  <1> QED BY <1>6, <1>7, Zenon DEF g, n

LEMMA MarkTail ==
    ASSUME NEW q \in Seq(Nat), q # << >>, MarkLast(q)
    PROVE  /\ MarkLast(Tail(q))
           /\ Marked(Tail(q)) => Marked(q)
  <1>1. /\ Len(Tail(q)) = Len(q) - 1 /\ Len(q) \in Nat
        /\ DOMAIN Tail(q) = 1 .. Len(q) - 1 /\ DOMAIN q = 1 .. Len(q)
    OBVIOUS
  <1>2. \A i \in DOMAIN Tail(q) : i + 1 \in DOMAIN q /\ Tail(q)[i] = q[i + 1]
    BY HeadAndTail
  <1>3. \A i \in DOMAIN Tail(q) : i + 1 = Len(q) => i = Len(Tail(q))
    BY <1>1
  <1>4. MarkLast(Tail(q))
    BY <1>2, <1>3 DEF MarkLast
  <1>5. Marked(Tail(q)) => Marked(q)
    BY <1>2 DEF Marked
  <1> QED BY <1>4, <1>5

\* A walk that goes on by one.
LEMMA WalkOn ==
    ASSUME NEW w \in Seq(Consumers), w # << >>, NEW c,
           \A i, j \in DOMAIN w : w[i] = w[j] => i = j
    PROVE  IF Head(w) = c THEN On(w, c) /\ ~ On(Tail(w), c)
                          ELSE On(w, c) <=> On(Tail(w), c)
  <1>1. /\ 1 \in DOMAIN w /\ Head(w) = w[1]
        /\ \A i \in DOMAIN Tail(w) : i + 1 \in DOMAIN w /\ Tail(w)[i] = w[i + 1]
    BY HeadAndTail
  <1>2. \A i \in DOMAIN Tail(w) : i + 1 # 1
    OBVIOUS
  <1>3. \A i \in DOMAIN w : i = 1 \/ (i - 1 \in DOMAIN Tail(w) /\ Tail(w)[i - 1] = w[i])
    <2>1. /\ Len(Tail(w)) = Len(w) - 1 /\ Len(w) \in Nat
          /\ DOMAIN w = 1 .. Len(w) /\ DOMAIN Tail(w) = 1 .. Len(w) - 1
          /\ \A j \in 1 .. Len(w) - 1 : Tail(w)[j] = w[j + 1]
      OBVIOUS
    <2> QED BY <2>1
  <1>4. CASE Head(w) = c
    BY <1>1, <1>2, <1>4 DEF On
  <1>5. CASE Head(w) # c
    <2>1. On(w, c) => On(Tail(w), c)
      BY <1>1, <1>3, <1>5 DEF On
    <2>2. On(Tail(w), c) => On(w, c)
      BY <1>1 DEF On
    <2> QED BY <1>5, <2>1, <2>2
  <1> QED BY <1>4, <1>5

\* Nothing changes for c but perhaps that a frame goes from its queue to its hands.
LEMMA AudienceStands ==
    ASSUME NEW c \in Consumers, AudienceInv(c),
           got'[c] \o Frames(queue'[c]) = got[c] \o Frames(queue[c]), refused'[c] = refused[c],
           MarkLast(queue'[c]), Marked(queue'[c]) => Marked(queue[c]),
           Told(c) => Told(c)',
           pc'[c] # "start" /\ pc'[Transformer] \notin {"close", "done"} => Subscribed(c)',
           Members(Given(c)') = Members(Given(c))
    PROVE  AudienceInv(c)'
  <1> HIDE DEF Balance, Frames, Given, Members
  <1>1. Seen(c)' = Seen(c)
    BY DEF Seen
  <1>2. Balance(Seen(c)', refused'[c], Members(Given(c)'))
    BY <1>1 DEF AudienceInv
  <1> QED BY <1>2 DEF AudienceInv

\* Where everything an AudienceInv speaks of comes from.
LEMMA AudienceTypes ==
    ASSUME Base, LinkInv, NEW c \in Audience
    PROVE  /\ c \in Consumers /\ c \in Threads /\ c # Transformer /\ c \notin Feeders
           /\ In[c] = Out[Transformer] /\ In[c] \in Streams
           /\ Transformer \in Threads /\ Transformer \in Consumers /\ Transformer \in Feeders
           /\ pc \in [Threads -> QROPlaces]
           /\ queue \in [Consumers -> Seq(Nat)] /\ queue[c] \in Seq(Nat)
           /\ got \in [Consumers -> Seq(FrameIds)] /\ got[c] \in Seq(Nat)
           /\ refused \in [Consumers -> SUBSET Nat] /\ count \in [Feeders -> FrameIds]
           /\ subs \in [Streams -> Seq(Consumers)]
           /\ todo \in [Feeders -> Seq(Consumers)] /\ todo[Transformer] \in Seq(Consumers)
           /\ \A t \in Threads : pc[t] \notin {"start", "barrier", "parked"} =>
                 \A u \in Threads : pc[u] \notin {"start", "barrier", "parked"}
  <1>1. c \in Consumers /\ In[c] = Out[Transformer]
    BY DEF Audience
  <1>2. c # Transformer /\ c # Producer /\ c \in Threads
    BY <1>1, TransformerIs, WhoIsWho, FeederOfStream
  <1>3. c \notin Feeders
    BY <1>2, TransformerIs
  <1>4. got[c] \in Seq(Nat)
    <2>1. got[c] \in Seq(FrameIds)
      BY <1>1 DEF Base, DataTypes
    <2> QED BY <2>1 DEF FrameIds
  <1> QED BY <1>1, <1>2, <1>3, <1>4, TransformerIs, WhoIsWho DEF Base, DataTypes, QuietInv, BarrierInv

\* The place of an answer, in terms of the walk.
LEMMA OfferPlace ==
    ASSUME NEW c
    PROVE  ToOffer(c) <=> \/ pc[Transformer] = "push"
                          \/ pc[Transformer] = "visit" /\ On(todo[Transformer], c)
                          \/ pc[Transformer] = "signal" /\ On(Tail(todo[Transformer]), c)
  BY DEF ToOffer, On

LEMMA OfferPlaceNext ==
    ASSUME NEW c
    PROVE  ToOffer(c)' <=> \/ pc'[Transformer] = "push"
                           \/ pc'[Transformer] = "visit" /\ On(todo'[Transformer], c)
                           \/ pc'[Transformer] = "signal" /\ On(Tail(todo'[Transformer]), c)
  BY DEF ToOffer, On

\* Nothing is pushed to c, before and after, and no answer comes in.
LEMMA GivenSame ==
    ASSUME NEW c, received' = received, ToOffer(c)' <=> ToOffer(c)
    PROVE  Members(Given(c)') = Members(Given(c))
  BY DEF Given, Members

LEMMA AudienceEnd ==
    ASSUME Base, LinkInv, NEW c \in Audience, AudienceInv(c),
           QROMainReturn \/ WorkerDies \/ UNCHANGED qroVars
    PROVE  AudienceInv(c)'
  <1>1. UNCHANGED <<pc, todo, subs, queue, refused, got, received>>
    BY EndFrame
  <1>2. ToOffer(c)' <=> ToOffer(c)
    BY <1>1 DEF ToOffer
  <1>3. Members(Given(c)') = Members(Given(c))
    BY <1>1, <1>2, GivenSame
  <1>4. Told(c) => Told(c)'
    BY <1>1 DEF Told, At
  <1>5. Subscribed(c)' <=> Subscribed(c)
    BY <1>1 DEF Subscribed
  <1>6. c \in Consumers
    BY DEF Audience
  <1> QED BY <1>1, <1>3, <1>4, <1>5, <1>6, AudienceStands DEF AudienceInv

LEMMA AudienceConsume ==
    ASSUME Base, LinkInv, NEW c \in Audience, AudienceInv(c),
           NEW d \in Consumers, AwaitFrame(d) \/ Consumed(d) \/ Abort(d)
    PROVE  AudienceInv(c)'
  <1>1. /\ c \in Consumers /\ c \in Threads /\ c # Transformer /\ c \notin Feeders
        /\ Transformer \in Threads
        /\ pc \in [Threads -> QROPlaces] /\ queue \in [Consumers -> Seq(Nat)]
        /\ got \in [Consumers -> Seq(FrameIds)] /\ queue[c] \in Seq(Nat) /\ got[c] \in Seq(Nat)
        /\ d \in Threads
    BY AudienceTypes, WhoIsWho
  <1>2. UNCHANGED <<todo, subs, refused, received>>
    BY DEF AwaitFrame, Consumed, Abort, NextCheck, Peek, WaitSignal, Dequeue, shared, history, link
  <1> DEFINE Before == {"next", "peek", "wait", "dequeue"}
  <1>3. /\ \/ pc'[Transformer] = pc[Transformer]
           \/ pc[Transformer] \in Before /\ pc'[Transformer] \in Before \cup {"term"}
        /\ pc'[c] # "start" => pc[c] # "start"
    <2>1. CASE Abort(d)
      BY <2>1 DEF Abort
    <2>2. CASE AwaitFrame(d)
      BY <1>1, <2>2, TransformerIs
         DEF AwaitFrame, NextCheck, Peek, WaitSignal, AfterLoop, Goto
    <2>3. CASE Consumed(d)
      BY <1>1, <2>3 DEF Consumed, Dequeue, Goto
    <2> QED BY <2>1, <2>2, <2>3
  <1>4. ToOffer(c)' <=> ToOffer(c)
    BY <1>2, <1>3 DEF ToOffer
  <1>5. Told(c) => Told(c)'
    BY <1>2, <1>3 DEF Told, At
  <1>6. pc'[c] # "start" /\ pc'[Transformer] \notin {"close", "done"} => Subscribed(c)'
    <2>1. Subscribed(c)' <=> Subscribed(c)
      BY <1>2 DEF Subscribed
    <2> QED BY <1>3, <2>1 DEF AudienceInv
  <1>7. Members(Given(c)') = Members(Given(c))
    BY <1>2, <1>4, GivenSame
  <1>8. CASE queue'[c] = queue[c] /\ got'[c] = got[c]
    BY <1>1, <1>2, <1>5, <1>6, <1>7, <1>8, AudienceStands DEF AudienceInv
  <1>9. CASE ~ (queue'[c] = queue[c] /\ got'[c] = got[c])
    <2>1. Dequeue(d) /\ d = c
      BY <1>1, <1>9 DEF AwaitFrame, Consumed, Abort, NextCheck, Peek, WaitSignal, Dequeue, shared, history
    <2>2. /\ queue[c] # << >> /\ queue'[c] = Tail(queue[c])
          /\ IF Head(queue[c]) = NullOpt THEN got'[c] = got[c]
                                         ELSE got'[c] = Append(got[c], Head(queue[c]))
      BY <1>1, <2>1 DEF Dequeue
    <2>3. MarkLast(queue[c])
      BY DEF AudienceInv
    <2>4. got'[c] \o Frames(queue'[c]) = got[c] \o Frames(queue[c])
      BY <1>1, <2>2, <2>3, FramesMove
    <2>5. MarkLast(queue'[c]) /\ (Marked(queue'[c]) => Marked(queue[c]))
      BY <1>1, <2>2, <2>3, MarkTail
    <2> QED BY <1>1, <1>2, <1>5, <1>6, <1>7, <2>4, <2>5, AudienceStands
  <1> QED BY <1>8, <1>9

LEMMA AudienceTransform ==
    ASSUME Base, LinkInv, NEW c \in Audience, AudienceInv(c),
           Transform(Transformer) \/ Close(Transformer)
    PROVE  AudienceInv(c)'
  <1>1. /\ c \in Consumers /\ c \in Threads /\ c # Transformer /\ Transformer \in Threads
        /\ Transformer \in Consumers
        /\ pc \in [Threads -> QROPlaces] /\ queue \in [Consumers -> Seq(Nat)]
        /\ got \in [Consumers -> Seq(FrameIds)]
        /\ received \in Seq(FrameIds) /\ way \in Seq(FrameIds)
    BY AudienceTypes DEF LinkInv
  <1>2. UNCHANGED <<todo, subs, refused>> /\ queue'[c] = queue[c] /\ got'[c] = got[c]
    <2>1. CASE TakeFrame(Transformer)
      BY <1>1, <2>1 DEF TakeFrame
    <2>2. CASE Receive(Transformer) \/ Call(Transformer) \/ CallFails(Transformer)
                  \/ WaitDone(Transformer) \/ Close(Transformer)
      BY <2>2 DEF Receive, Call, CallFails, WaitDone, Close, shared, history
    <2> QED BY <2>1, <2>2 DEF Transform
  <1>3. /\ pc'[c] = pc[c]
        /\ \/ pc[Transformer] \in {"dequeue", "events", "reply"}
           \/ pc[Transformer] = "close" /\ pc'[Transformer] = "done"
        /\ \/ pc'[Transformer] \in {"term", "events", "reply", "next", "done"} /\ received' = received
           \/ /\ pc'[Transformer] = "push"
              /\ \E x \in FrameIds : received' = Append(received, x)
    <2>1. CASE TakeFrame(Transformer)
      BY <1>1, <2>1 DEF TakeFrame, Goto, link
    <2>2. CASE Receive(Transformer)
      BY <1>1, <2>2, MembersHead DEF Receive, Link!Answer, Goto
    <2>3. CASE Call(Transformer) \/ CallFails(Transformer) \/ WaitDone(Transformer) \/ Close(Transformer)
      BY <1>1, <2>3 DEF Call, Link!Ask, CallFails, WaitDone, Close, Link!Cut, Goto, link
    <2> QED BY <2>1, <2>2, <2>3 DEF Transform
  <1>4. ~ ToOffer(c)
    BY <1>3 DEF ToOffer
  <1>5. Members(Given(c)') = Members(Given(c))
    <2>1. CASE received' = received /\ pc'[Transformer] # "push"
      <3>1. ~ ToOffer(c)'
        BY <1>3, <2>1 DEF ToOffer
      <3> QED BY <1>4, <2>1, <3>1, GivenSame
    <2>2. CASE pc'[Transformer] = "push"
      <3>1. PICK x \in FrameIds : received' = Append(received, x)
        BY <1>3, <2>2
      <3>2. SubSeq(received', 1, Len(received') - 1) = received
        BY <1>1, <3>1
      <3>3. ToOffer(c)'
        BY <2>2 DEF ToOffer
      <3>4. Given(c)' = received /\ Given(c) = received
        BY <1>4, <3>2, <3>3 DEF Given
      <3> QED BY <3>4
    <2> QED BY <1>3, <2>1, <2>2
  <1>6. Told(c) => Told(c)'
    BY <1>2, <1>3 DEF Told, At
  <1>7. pc'[c] # "start" /\ pc'[Transformer] \notin {"close", "done"} => Subscribed(c)'
    <2>1. Subscribed(c)' <=> Subscribed(c)
      BY <1>2 DEF Subscribed
    <2> QED BY <1>3, <2>1 DEF AudienceInv
  <1> QED BY <1>1, <1>2, <1>5, <1>6, <1>7, AudienceStands DEF AudienceInv

LEMMA AudienceBegin ==
    ASSUME Base, LinkInv, NEW c \in Audience, AudienceInv(c), NEW t \in Threads, Begin(t)
    PROVE  AudienceInv(c)'
  <1>1. /\ c \in Consumers /\ c \in Threads /\ c # Transformer /\ Transformer \in Threads
        /\ In[c] = Out[Transformer] /\ In[c] \in Streams
        /\ pc \in [Threads -> QROPlaces] /\ subs \in [Streams -> Seq(Consumers)]
    BY AudienceTypes
  <1>2. UNCHANGED <<todo, queue, got, refused, received>>
    BY DEF Begin, BarrierWait, Subscribe, shared, history, link
  <1> DEFINE Early3 == {"start", "barrier", "parked"}
  <1>3. /\ pc[Transformer] \in Early3
        /\ pc'[Transformer] \in Early3 \cup {"next"}
        /\ pc'[c] # "start" => pc[c] # "start" \/ Subscribe(c)
        /\ subs' = subs \/ (t \in Consumers /\ Subscribe(t))
    <2>1. CASE BarrierWait(t)
      <3>1. \A u \in Threads : pc[u] \in Early3
        BY <2>1 DEF BarrierWait, Base, QuietInv, BarrierInv
      <3>2. \A u \in Threads : /\ pc'[u] # "start" => pc[u] # "start"
                               /\ pc'[u] \in Early3 \cup {Behind(u)}
        <4>1. CASE waiting > 1
          BY <1>1, <2>1, <3>1, <4>1 DEF BarrierWait
        <4>2. CASE ~ (waiting > 1)
          BY <1>1, <2>1, <3>1, <4>2 DEF BarrierWait
        <4> QED BY <4>1, <4>2
      <3>3. Behind(Transformer) = "next"
        BY TransformerIs DEF Behind
      <3> QED BY <1>1, <2>1, <3>1, <3>2, <3>3 DEF BarrierWait, shared
    <2>2. CASE t \in Consumers /\ Subscribe(t)
      <3>1. pc[t] = "start" /\ pc' = [pc EXCEPT ![t] = "barrier"]
        BY <2>2 DEF Subscribe, Goto
      <3>2. \A u \in Threads : pc[u] \in Early3
        BY <3>1 DEF Base, QuietInv, BarrierInv
      <3>3. \A u \in Threads : u = t \/ pc'[u] = pc[u]
        BY <1>1, <3>1
      <3> QED BY <1>1, <2>2, <3>1, <3>2, <3>3
    <2> QED BY <2>1, <2>2 DEF Begin
  <1>4. ~ ToOffer(c) /\ ~ ToOffer(c)' /\ ~ Told(c)
    BY <1>3 DEF ToOffer, Told
  <1>5. Members(Given(c)') = Members(Given(c))
    BY <1>2, <1>4, GivenSame
  <1>6. ASSUME pc'[c] # "start"
        PROVE  Subscribed(c)'
    <2>1. CASE subs' = subs
      <3>1. pc[c] # "start"
        <4>1. CASE Subscribe(c)
          <5>1. /\ subs' = [subs EXCEPT ![In[c]] = Append(subs[In[c]], c)]
            BY <4>1 DEF Subscribe
          <5>2. subs[In[c]] = Append(subs[In[c]], c) /\ subs[In[c]] \in Seq(Consumers)
            BY <1>1, <2>1, <5>1
          <5>3. Len(subs[In[c]]) = Len(subs[In[c]]) + 1 /\ Len(subs[In[c]]) \in Nat
            BY <1>1, <5>2
          <5> QED BY <5>3
        <4> QED BY <1>3, <1>6, <4>1
      <3>2. Subscribed(c)
        BY <1>3, <3>1 DEF AudienceInv
      <3> QED BY <2>1, <3>2 DEF Subscribed
    <2>2. CASE t \in Consumers /\ Subscribe(t)
      <3>1. subs' = [subs EXCEPT ![In[t]] = Append(subs[In[t]], t)]
        BY <2>2 DEF Subscribe
      <3>2. /\ \A i \in DOMAIN subs[In[c]] :
                  i \in DOMAIN Append(subs[In[c]], t) /\ Append(subs[In[c]], t)[i] = subs[In[c]][i]
            /\ Len(subs[In[c]]) + 1 \in DOMAIN Append(subs[In[c]], t)
            /\ Append(subs[In[c]], t)[Len(subs[In[c]]) + 1] = t
        BY <1>1, <2>2, AppendKeeps
      <3>3. subs'[In[c]] = subs[In[c]] \/ subs'[In[c]] = Append(subs[In[c]], t)
        BY <1>1, <3>1
      <3>4. CASE t = c
        <4>1. subs'[In[c]] = Append(subs[In[c]], c)
          BY <1>1, <3>1, <3>4
        <4> QED BY <3>2, <3>4, <4>1 DEF Subscribed
      <3>5. CASE t # c
        <4>1. pc[c] # "start"
          BY <1>1, <1>6, <2>2, <3>5 DEF Subscribe, Goto
        <4>2. Subscribed(c)
          BY <1>3, <4>1 DEF AudienceInv
        <4> QED BY <3>2, <3>3, <4>2 DEF Subscribed
      <3> QED BY <3>4, <3>5
    <2> QED BY <1>3, <2>1, <2>2
  <1> QED BY <1>1, <1>2, <1>4, <1>5, <1>6, AudienceStands DEF AudienceInv

LEMMA AudienceFeedOther ==
    ASSUME Base, LinkInv, NEW c \in Audience, AudienceInv(c),
           NEW t \in Feeders, t # Transformer, QROFeed(t)
    PROVE  AudienceInv(c)'
  <1>1. /\ c \in Consumers /\ c \in Threads /\ c \notin Feeders
        /\ In[c] = Out[Transformer] /\ In[c] \in Streams
        /\ Transformer \in Threads /\ Transformer \in Feeders /\ t \in Threads
        /\ pc \in [Threads -> QROPlaces] /\ queue \in [Consumers -> Seq(Nat)]
        /\ refused \in [Consumers -> SUBSET Nat] /\ subs \in [Streams -> Seq(Consumers)]
        /\ todo \in [Feeders -> Seq(Consumers)] /\ todo[t] \in Seq(Consumers)
        /\ Out[t] # Out[Transformer]
    <2>1. t \in Threads /\ todo[t] \in Seq(Consumers)
      BY AudienceTypes, WhoIsWho
    <2>2. Out[t] # Out[Transformer]
      BY FeederOfStream, TransformerIs
    <2> QED BY <2>1, <2>2, AudienceTypes
  <1>2. \A i \in DOMAIN todo[t] : In[todo[t][i]] = Out[t]
    BY DEF Base, Walks, Walk
  <1>3. todo[t] # << >> => Head(todo[t]) # c
    BY <1>1, <1>2, HeadAndTail
  <1>4. pc[t] \in {"signal", "mark", "sigmark"} => todo[t] # << >>
    BY DEF Base, Walks
  <1>5. /\ pc'[c] = pc[c] /\ pc'[Transformer] = pc[Transformer]
        /\ todo'[Transformer] = todo[Transformer] /\ subs'[In[c]] = subs[In[c]]
        /\ queue'[c] = queue[c] /\ got' = got /\ refused'[c] = refused[c] /\ received' = received
    <2>1. CASE PushFrame(t)
      BY <1>1, <1>3, <1>4, <2>1 DEF PushFrame, PushLock, PushEnqueue, PushRefused,
                        PushSignal, Goto, shared, history, link
    <2>2. CASE PushDone(t)
      BY <1>1, <2>2 DEF PushDone, PushUnlock, Goto, shared, history, link
    <2>3. CASE TermVisit(t)
      BY <1>1, <1>3, <1>4, <2>3 DEF TermVisit, TermFlag, TermEnqueue, TermRefused,
                        TermSignal, Goto, shared, history, link
    <2>4. CASE TermBegin(t) \/ TermEnd(t)
      BY <1>1, <2>4 DEF TermBegin, TermEnd, Goto, shared, history, link
    <2> QED BY <2>1, <2>2, <2>3, <2>4 DEF QROFeed, AnswerDone
  <1>6. ToOffer(c)' <=> ToOffer(c)
    BY <1>5 DEF ToOffer
  <1>7. Members(Given(c)') = Members(Given(c))
    BY <1>5, <1>6, GivenSame
  <1>8. Told(c) => Told(c)'
    BY <1>5 DEF Told, At, On
  <1>9. Subscribed(c)' <=> Subscribed(c)
    BY <1>5 DEF Subscribed
  <1> QED BY <1>1, <1>5, <1>7, <1>8, <1>9, AudienceStands DEF AudienceInv

\* An answer is put into the queue of c, or refused.
LEMMA AudienceOffered ==
    ASSUME Base, LinkInv, NEW c \in Audience, AudienceInv(c),
           pc[Transformer] = "visit", ToOffer(c), ~ ToOffer(c)',
           received' = received, got' = got,
           \/ queue'[c] = Append(queue[c], count[Transformer]) /\ refused'[c] = refused[c]
           \/ queue'[c] = queue[c] /\ refused'[c] = refused[c] \cup {count[Transformer]}
    PROVE  /\ MarkLast(queue'[c]) /\ ~ Marked(queue'[c])
           /\ Balance(Seen(c)', refused'[c], Members(Given(c)'))
  <1> DEFINE x == count[Transformer]
             g == SubSeq(received, 1, Len(received) - 1)
  <1>1. /\ queue[c] \in Seq(Nat) /\ got[c] \in Seq(Nat)
        /\ received \in Seq(FrameIds) /\ received # << >> /\ Sorted(received)
        /\ x = received[Len(received)]
    BY AudienceTypes DEF LinkInv
  <1>2. /\ x \in FrameIds /\ Members(received) = Members(g) \cup {x}
        /\ \A y \in Members(g) : y < x
    BY <1>1, LastAnswer
  <1>3. Given(c) = g /\ Given(c)' = received
    BY DEF Given
  <1> HIDE DEF x, g
  <1>4. ~ Marked(queue[c])
    BY DEF AudienceInv, Told
  <1>5. Balance(Seen(c), refused[c], Members(g))
    BY <1>3 DEF AudienceInv
  <1>6. x \in Nat /\ x \in Nat \ {0}
    BY <1>2 DEF FrameIds
  <1>7. Members(Given(c)') = Members(g) \cup {x}
    <2>1. Members(Given(c)') = Members(received)
      BY <1>3 DEF Members
    <2> QED BY <1>2, <2>1
  <1>8. Frames(queue[c]) = queue[c] /\ Frames(Append(queue[c], x)) = Append(queue[c], x)
    BY <1>1, <1>4, <1>6, FramesUnmarked
  <1>9. Seen(c) = got[c] \o queue[c] /\ Seen(c) \in Seq(Nat)
    BY <1>1, <1>8 DEF Seen
  <1>10. CASE queue'[c] = Append(queue[c], x) /\ refused'[c] = refused[c]
    <2>1. Seen(c)' = got[c] \o Append(queue[c], x)
      BY <1>8, <1>10 DEF Seen
    <2>2. got[c] \o Append(queue[c], x) = Append(got[c] \o queue[c], x)
      BY <1>1, <1>6, AppendBehind
    <2>3. Balance(Append(Seen(c), x), refused[c], Members(g) \cup {x})
      BY <1>2, <1>5, <1>6, <1>9, BalanceGrows
    <2>4. Balance(Seen(c)', refused'[c], Members(Given(c)'))
      BY <1>7, <1>9, <1>10, <2>1, <2>2, <2>3
    <2>5. ~ Marked(queue'[c])
      <3>1. \A i \in DOMAIN Append(queue[c], x) :
               i = Len(queue[c]) + 1 \/ (i \in DOMAIN queue[c] /\ Append(queue[c], x)[i] = queue[c][i])
        BY <1>1, <1>6, AppendKeeps
      <3>2. Append(queue[c], x)[Len(queue[c]) + 1] = x
        BY <1>1, <1>6, AppendKeeps
      <3> QED BY <1>4, <1>6, <1>10, <3>1, <3>2 DEF Marked, NullOpt
    <2> QED BY <2>4, <2>5 DEF MarkLast, Marked
  <1>11. CASE queue'[c] = queue[c] /\ refused'[c] = refused[c] \cup {x}
    <2>1. Seen(c)' = Seen(c)
      BY <1>11 DEF Seen
    <2>2. Balance(Seen(c), refused[c] \cup {x}, Members(g) \cup {x})
      BY <1>2, <1>5, <1>6, BalanceRefused
    <2>3. Balance(Seen(c)', refused'[c], Members(Given(c)'))
      BY <1>7, <1>11, <2>1, <2>2
    <2> QED BY <1>4, <1>11, <2>3 DEF MarkLast, Marked
  <1> QED BY <1>10, <1>11 DEF x

LEMMA AudienceFeedOwn ==
    ASSUME Base, LinkInv, NEW c \in Audience, AudienceInv(c), QROFeed(Transformer)
    PROVE  AudienceInv(c)'
  <1> DEFINE T == Transformer
  <1>1. /\ c \in Consumers /\ c \in Threads /\ c # T
        /\ In[c] = Out[T] /\ In[c] \in Streams /\ T \in Threads /\ T \in Feeders
        /\ pc \in [Threads -> QROPlaces] /\ queue \in [Consumers -> Seq(Nat)]
        /\ queue[c] \in Seq(Nat) /\ refused \in [Consumers -> SUBSET Nat]
        /\ subs \in [Streams -> Seq(Consumers)]
        /\ todo \in [Feeders -> Seq(Consumers)] /\ todo[T] \in Seq(Consumers)
        /\ pc[T] \notin {"start", "barrier", "parked"} => pc[c] # "start"
    BY AudienceTypes
  <1>2. /\ \A i, j \in DOMAIN todo[T] : todo[T][i] = todo[T][j] => i = j
        /\ pc[T] \in {"signal", "mark", "sigmark"} => todo[T] # << >>
    BY <1>1 DEF Base, Walks, Walk
  <1>3. todo[T] # << >> =>
           IF Head(todo[T]) = c THEN On(todo[T], c) /\ ~ On(Tail(todo[T]), c)
                                ELSE On(todo[T], c) <=> On(Tail(todo[T]), c)
    BY <1>1, <1>2, WalkOn
  <1>4. todo[T] = << >> => ~ On(todo[T], c)
    BY DEF On
  <1>5. received' = received /\ got' = got
    <2>1. CASE PushFrame(T) \/ AnswerDone(T)
      BY <2>1 DEF PushFrame, AnswerDone, PushLock, PushEnqueue, PushRefused, PushSignal, history, link
    <2>2. CASE TermBegin(T) \/ TermVisit(T) \/ TermEnd(T)
      BY <2>2 DEF TermBegin, TermVisit, TermEnd, TermFlag, TermEnqueue, TermRefused,
                  TermSignal, history, link
    <2> QED BY <2>1, <2>2, TransformerIs DEF QROFeed, PushDone
  <1>6. ToOffer(c) <=> \/ pc[T] = "push"
                       \/ pc[T] = "visit" /\ On(todo[T], c)
                       \/ pc[T] = "signal" /\ On(Tail(todo[T]), c)
    BY OfferPlace
  <1>7. ToOffer(c)' <=> \/ pc'[T] = "push"
                        \/ pc'[T] = "visit" /\ On(todo'[T], c)
                        \/ pc'[T] = "signal" /\ On(Tail(todo'[T]), c)
    BY OfferPlaceNext
  <1>8. Told(c) <=> /\ pc[T] \in {"flag", "mark", "sigmark", "close", "done"}
                    /\ (pc[T] = "sigmark" /\ todo[T] # << >> /\ Head(todo[T]) = c) \/ ~ On(todo[T], c)
    BY DEF Told, At
  <1>9. Told(c)' <=> /\ pc'[T] \in {"flag", "mark", "sigmark", "close", "done"}
                     /\ \/ pc'[T] = "sigmark" /\ todo'[T] # << >> /\ Head(todo'[T]) = c
                        \/ ~ On(todo'[T], c)
    BY DEF Told, At, On
  <1>10. pc[T] \notin {"start", "barrier", "parked", "close", "done"} => Subscribed(c)
    BY <1>1 DEF AudienceInv
  <1>11. /\ MarkLast(queue[c]) /\ (Marked(queue[c]) => Told(c))
         /\ Balance(Seen(c), refused[c], Members(Given(c)))
    BY DEF AudienceInv
  \* What is left to show of a step that neither offers nor marks.
  <1> DEFINE Same == queue'[c] = queue[c] /\ refused'[c] = refused[c]
             Stay == pc[T] \notin {"start", "barrier", "parked", "close", "done"} /\ subs' = subs
  <1>12. ASSUME Same, Stay \/ pc'[T] \in {"close", "done"},
                ToOffer(c)' <=> ToOffer(c), Told(c) => Told(c)'
         PROVE  AudienceInv(c)'
    <2>1. pc'[T] \notin {"close", "done"} => Subscribed(c)'
      BY <1>10, <1>12 DEF Subscribed
    <2>2. Members(Given(c)') = Members(Given(c))
      BY <1>5, <1>12, GivenSame
    <2> QED BY <1>1, <1>5, <1>11, <1>12, <2>1, <2>2, AudienceStands
  <1>13. CASE PushLock(T)
    <2>1. /\ pc[T] = "push" /\ pc'[T] = "visit" /\ todo'[T] = subs[In[c]] /\ Stay /\ Same
      BY <1>1, <1>13 DEF PushLock, Goto, shared, history
    <2>2. On(todo'[T], c)
      BY <1>10, <2>1 DEF Subscribed, On
    <2> QED BY <1>6, <1>7, <1>8, <1>12, <2>1, <2>2
  <1>14. CASE PushEnqueue(T)
    <2>1. /\ pc[T] = "visit" /\ pc'[T] = "signal" /\ todo'[T] = todo[T] /\ todo[T] # << >>
          /\ Stay /\ refused' = refused
          /\ queue' = [queue EXCEPT ![Head(todo[T])] = Append(queue[Head(todo[T])], count[T])]
      BY <1>1, <1>14 DEF PushEnqueue, Goto, history
    <2>2. CASE Head(todo[T]) # c
      <3>1. Same
        BY <1>1, <2>1, <2>2
      <3> QED BY <1>3, <1>6, <1>7, <1>8, <1>12, <2>1, <2>2, <3>1
    <2>3. CASE Head(todo[T]) = c
      <3>1. queue'[c] = Append(queue[c], count[T])
        BY <1>1, <2>1, <2>3
      <3>2. ToOffer(c) /\ ~ ToOffer(c)'
        BY <1>3, <1>6, <1>7, <2>1, <2>3
      <3>3. /\ MarkLast(queue'[c]) /\ ~ Marked(queue'[c])
            /\ Balance(Seen(c)', refused'[c], Members(Given(c)'))
        BY <1>5, <2>1, <3>1, <3>2, AudienceOffered
      <3>4. Subscribed(c)'
        BY <1>10, <2>1 DEF Subscribed
      <3> QED BY <3>3, <3>4 DEF AudienceInv
    <2> QED BY <2>2, <2>3
  <1>15. CASE PushRefused(T)
    <2>1. /\ pc[T] = "visit" /\ pc'[T] = "visit" /\ todo'[T] = Tail(todo[T]) /\ todo[T] # << >>
          /\ Stay /\ queue' = queue
          /\ refused' = [refused EXCEPT ![Head(todo[T])] = refused[Head(todo[T])] \cup {count[T]}]
      BY <1>1, <1>15 DEF PushRefused, shared
    <2>2. CASE Head(todo[T]) # c
      <3>1. Same
        BY <1>1, <2>1, <2>2
      <3> QED BY <1>3, <1>6, <1>7, <1>8, <1>12, <2>1, <2>2, <3>1
    <2>3. CASE Head(todo[T]) = c
      <3>1. refused'[c] = refused[c] \cup {count[T]} /\ queue'[c] = queue[c]
        BY <1>1, <2>1, <2>3
      <3>2. ToOffer(c) /\ ~ ToOffer(c)'
        BY <1>3, <1>6, <1>7, <2>1, <2>3
      <3>3. /\ MarkLast(queue'[c]) /\ ~ Marked(queue'[c])
            /\ Balance(Seen(c)', refused'[c], Members(Given(c)'))
        BY <1>5, <2>1, <3>1, <3>2, AudienceOffered
      <3>4. Subscribed(c)'
        BY <1>10, <2>1 DEF Subscribed
      <3> QED BY <3>3, <3>4 DEF AudienceInv
    <2> QED BY <2>2, <2>3
  <1>16. CASE PushSignal(T)
    <2>1. /\ pc[T] = "signal" /\ pc'[T] = "visit" /\ todo'[T] = Tail(todo[T]) /\ Stay /\ Same
      BY <1>1, <1>16 DEF PushSignal, Goto, history
    <2> QED BY <1>6, <1>7, <1>8, <1>12, <2>1
  <1>17. CASE AnswerDone(T)
    <2>1. /\ pc[T] = "visit" /\ pc'[T] \in {"events", "reply"} /\ todo[T] = << >> /\ Stay /\ Same
      BY <1>1, <1>17 DEF AnswerDone, Goto, history, Base, QuietInv
    <2> QED BY <1>4, <1>6, <1>7, <1>8, <1>12, <2>1
  <1>18. CASE TermBegin(T)
    <2>1. pc[T] = "term" /\ pc'[T] = "flag" /\ Stay /\ Same
      BY <1>1, <1>18 DEF TermBegin, Goto, shared, history
    <2> QED BY <1>6, <1>7, <1>8, <1>12, <2>1
  <1>19. CASE TermFlag(T)
    <2>1. pc[T] = "flag" /\ pc'[T] = "mark" /\ todo' = todo /\ Stay /\ Same
      BY <1>1, <1>19 DEF TermFlag, Goto, history
    <2> QED BY <1>6, <1>7, <1>8, <1>9, <1>12, <2>1
  <1>20. CASE TermEnqueue(T)
    <2>1. /\ pc[T] = "mark" /\ pc'[T] = "sigmark" /\ todo' = todo /\ todo[T] # << >> /\ Stay
          /\ refused' = refused
          /\ queue' = [queue EXCEPT ![Head(todo[T])] = Append(queue[Head(todo[T])], NullOpt)]
      BY <1>1, <1>2, <1>20 DEF TermEnqueue, Goto, history
    <2>2. CASE Head(todo[T]) # c
      <3>1. Same
        BY <1>1, <2>1, <2>2
      <3> QED BY <1>6, <1>7, <1>8, <1>9, <1>12, <2>1, <2>2, <3>1
    <2>3. CASE Head(todo[T]) = c
      <3>1. queue'[c] = Append(queue[c], NullOpt)
        BY <1>1, <2>1, <2>3
      <3>2. ~ Marked(queue[c])
        BY <1>3, <1>8, <1>11, <2>1, <2>3
      <3>3. Frames(queue'[c]) = Frames(queue[c])
        BY <1>1, <3>1, <3>2, FramesUnmarked
      <3>4. MarkLast(queue'[c])
        <4>1. NullOpt \in Nat
          BY DEF NullOpt
        <4>2. /\ \A i \in DOMAIN Append(queue[c], NullOpt) :
                    \/ i = Len(queue[c]) + 1
                    \/ i \in DOMAIN queue[c] /\ Append(queue[c], NullOpt)[i] = queue[c][i]
              /\ Len(Append(queue[c], NullOpt)) = Len(queue[c]) + 1
          BY <1>1, <4>1, AppendKeeps
        <4> QED BY <3>1, <3>2, <4>2 DEF MarkLast, Marked
      <3>5. Told(c)'
        BY <1>9, <2>1, <2>3
      <3>6. Subscribed(c)'
        BY <1>10, <2>1 DEF Subscribed
      <3>7. Seen(c)' = Seen(c)
        BY <1>5, <3>3 DEF Seen
      <3>8. ToOffer(c)' <=> ToOffer(c)
        BY <1>6, <1>7, <2>1
      <3>9. Members(Given(c)') = Members(Given(c))
        BY <1>5, <3>8, GivenSame
      <3>10. Balance(Seen(c)', refused'[c], Members(Given(c)'))
        BY <1>11, <2>1, <3>7, <3>9
      <3> QED BY <3>4, <3>5, <3>6, <3>10 DEF AudienceInv
    <2> QED BY <2>2, <2>3
  <1>21. CASE TermRefused(T) \/ TermSignal(T)
    <2>1. /\ pc[T] \in {"mark", "sigmark"} /\ pc'[T] = "flag" /\ todo'[T] = Tail(todo[T])
          /\ todo[T] # << >> /\ Stay /\ Same
      BY <1>1, <1>2, <1>21 DEF TermRefused, TermSignal, Goto, shared, history
    <2> QED BY <1>3, <1>6, <1>7, <1>8, <1>9, <1>12, <2>1
  <1>22. CASE TermEnd(T)
    <2>1. pc[T] = "flag" /\ pc'[T] = "close" /\ todo' = todo /\ Same
      BY <1>1, <1>22 DEF TermEnd, Goto, history
    <2> QED BY <1>6, <1>7, <1>8, <1>9, <1>12, <2>1
  <1> QED BY <1>13, <1>14, <1>15, <1>16, <1>17, <1>18, <1>19, <1>20, <1>21, <1>22, TransformerIs
          DEF QROFeed, PushFrame, PushDone, TermVisit

(***************************************************************************)
(* Every run.                                                              *)
(***************************************************************************)
AnswerInv == Base /\ LinkInv /\ \A c \in Audience : AudienceInv(c)

LEMMA AnswerInit == QROInit => AnswerInv
  <1> SUFFICES ASSUME QROInit PROVE AnswerInv
    OBVIOUS
  <1>1. Base
    BY BaseInit
  <1>2. /\ sent = << >> /\ received = << >> /\ way = << >>
        /\ queue = [c \in Consumers |-> << >>] /\ got = [c \in Consumers |-> << >>]
        /\ refused = [c \in Consumers |-> {}]
        /\ pc = [t \in Threads |-> IF t = Producer THEN "barrier" ELSE "start"]
    BY DEF QROInit, Init, Link!Init
  <1>3. pc[Transformer] = "start"
    BY <1>2, TransformerIs
  <1>4. Members(<< >>) = {} /\ Sorted(<< >>)
    BY DEF Members, Sorted
  <1>5. LinkInv
    BY <1>2, <1>3, <1>4 DEF LinkInv
  <1>6. ASSUME NEW c \in Audience PROVE AudienceInv(c)
    <2>1. c \in Consumers /\ c # Producer /\ c \in Threads
      BY WhoIsWho DEF Audience
    <2>2. pc[c] = "start" /\ queue[c] = << >> /\ got[c] = << >> /\ refused[c] = {}
      BY <1>2, <2>1
    <2>3. Frames(<< >>) = << >>
      BY DEF Frames
    <2>4. Seen(c) = << >>
      <3>1. << >> \o << >> = << >>
        OBVIOUS
      <3> QED BY <2>2, <2>3, <3>1 DEF Seen
    <2>5. Given(c) = << >>
      BY <1>2, <1>3 DEF Given, ToOffer
    <2>6. MarkLast(queue[c]) /\ ~ Marked(queue[c])
      BY <2>2 DEF MarkLast, Marked
    <2>7. Balance(Seen(c), refused[c], Members(Given(c)))
      BY <1>4, <2>2, <2>4, <2>5 DEF Balance
    <2> QED BY <2>2, <2>6, <2>7 DEF AudienceInv
  <1> QED BY <1>1, <1>5, <1>6 DEF AnswerInv

LEMMA AnswerStep == AnswerInv /\ [QRONext]_qroVars => AnswerInv'
  <1> SUFFICES ASSUME AnswerInv, [QRONext]_qroVars PROVE AnswerInv'
    OBVIOUS
  <1>1. Base /\ LinkInv /\ \A c \in Audience : AudienceInv(c)
    BY DEF AnswerInv
  <1>2. Audience' = Audience
    BY DEF Audience
  <1>3. CASE QROMainReturn \/ WorkerDies \/ UNCHANGED qroVars
    <2>1. Base'
      BY <1>1, <1>3, BaseEnd
    <2>2. LinkInv'
      BY <1>1, <1>3, LinkEnd
    <2>3. \A c \in Audience : AudienceInv(c)'
      BY <1>1, <1>3, AudienceEnd
    <2> QED BY <1>2, <2>1, <2>2, <2>3 DEF AnswerInv
  <1>4. ASSUME NEW t \in Threads, Begin(t) PROVE AnswerInv'
    <2>1. Base'
      BY <1>1, <1>4, BaseBegin
    <2>2. LinkInv'
      BY <1>1, <1>4, LinkBegin
    <2>3. \A c \in Audience : AudienceInv(c)'
      BY <1>1, <1>4, AudienceBegin
    <2> QED BY <1>2, <2>1, <2>2, <2>3 DEF AnswerInv
  <1>5. ASSUME NEW t \in Consumers, AwaitFrame(t) \/ Consumed(t) \/ Abort(t) PROVE AnswerInv'
    <2>1. Base'
      BY <1>1, <1>5, BaseConsume
    <2>2. LinkInv'
      BY <1>1, <1>5, LinkConsume
    <2>3. \A c \in Audience : AudienceInv(c)'
      BY <1>1, <1>5, AudienceConsume
    <2> QED BY <1>2, <2>1, <2>2, <2>3 DEF AnswerInv
  <1>6. ASSUME Transform(Transformer) \/ Close(Transformer) PROVE AnswerInv'
    <2>1. Base'
      BY <1>1, <1>6, BaseTransform
    <2>2. LinkInv'
      BY <1>1, <1>6, LinkTransform
    <2>3. \A c \in Audience : AudienceInv(c)'
      BY <1>1, <1>6, AudienceTransform
    <2> QED BY <1>2, <2>1, <2>2, <2>3 DEF AnswerInv
  <1>7. ASSUME NEW t \in Feeders, QROFeed(t) PROVE AnswerInv'
    <2>1. Base'
      BY <1>1, <1>7, BaseFeed
    <2>2. LinkInv'
      BY <1>1, <1>7, LinkFeed
    <2>3. \A c \in Audience : AudienceInv(c)'
      BY <1>1, <1>7, AudienceFeedOther, AudienceFeedOwn
    <2> QED BY <1>2, <2>1, <2>2, <2>3 DEF AnswerInv
  <1>8. ASSUME NEW t \in Threads, QROStep(t) PROVE AnswerInv'
    <2>1. \/ Begin(t)
          \/ t \in Consumers /\ (AwaitFrame(t) \/ Consumed(t) \/ Abort(t))
          \/ t = Transformer /\ (Transform(t) \/ Close(t))
          \/ t \in Feeders /\ QROFeed(t)
      BY <1>8 DEF QROStep
    <2> QED BY <2>1, <1>4, <1>5, <1>6, <1>7
  <1> QED BY <1>3, <1>8 DEF QRONext

\* What the transformer has sent, what is under way and what has come back agree, and
\* what each consumer of the second stream has seen agrees with what has come back.
THEOREM AnswerInvariance == QROSafety => []AnswerInv
  BY AnswerInit, AnswerStep, PTL DEF QROSafety

\* A consumer of the second stream is given the answers of the worker, once each and in
\* the order of the frames, but for those refused for want of memory; for any number of
\* frames and threads, whatever the capacity and whatever the worker does.
THEOREM AnswersArrive == QROSafety => []AnswersReachConsumers
  <1>1. AnswerInv => AnswersReachConsumers
    <2> SUFFICES ASSUME AnswerInv PROVE AnswersReachConsumers
      OBVIOUS
    <2>1. Members(received) \subseteq Members(got[Transformer])
      BY DEF AnswerInv, LinkInv
    <2>2. ASSUME NEW c \in Consumers, In[c] = Out[Transformer]
          PROVE  Balance(Seen(c), refused[c], Members(Given(c)))
      BY <2>2 DEF AnswerInv, AudienceInv, Audience
    <2> QED BY <2>1, <2>2 DEF AnswersReachConsumers, Balance, Sorted, Seen, Given
  <1> QED BY <1>1, AnswerInvariance, PTL

(***************************************************************************)
(* The order of the streams.                                               *)
(***************************************************************************)
FirstAudience == {c \in Consumers : In[c] = Out[Producer]}

\* A feeder that is in terminate(), or behind it.
Leaving == {"flag", "mark", "sigmark", "close", "done"}

\* next() has answered nullopt to c.
Closed(c) == Ended(c) \/ pc[c] = "close"

\* Both signs of the end come from the feeder, the flag before the empty optional, and
\* whoever has seen one of them has been told by the flag; of each consumer.
EndOf(c) ==
    LET f == Feeder(In[c])
    IN  /\ terminated[c] => pc[f] \in Leaving
        /\ At(f, "mark", c) \/ At(f, "sigmark", c) => terminated[c]
        /\ Marked(queue[c]) => terminated[c]
        /\ pc[c] = "peek" \/ Closed(c) => terminated[c]

\* The producer has told c that the stream has ended, or will not tell it any more.
ToldFirst(c) ==
    /\ pc[Producer] \in Leaving
    /\ At(Producer, "sigmark", c) \/ ~ On(todo[Producer], c)

\* The first stream is accounted for as in mklfq/.
FirstInv(c) ==
    /\ MarkLast(queue[c])
    /\ Marked(queue[c]) => ToldFirst(c)
    /\ pc[c] # "start" /\ pc[Producer] # "done" => Subscribed(c)
    /\ AccountOf(c)

OrderInv ==
    /\ AnswerInv
    /\ terminated \in [Consumers -> BOOLEAN]
    /\ ProducerInLoop /\ count[Producer] <= N + 1
    /\ \A c \in Consumers : EndOf(c)
    /\ \A c \in FirstAudience : FirstInv(c)

\* Every consumer listens to the producer or to the transformer.
LEMMA TwoStreams ==
    /\ \A c \in Consumers : /\ Feeder(In[c]) \in Feeders /\ Feeder(In[c]) \in Threads
                            /\ Feeder(In[c]) # c /\ c \in Threads /\ c # Producer
                            /\ In[c] = Out[Feeder(In[c])] /\ In[c] \in Streams
                            /\ c \in FirstAudience \/ c \in Audience
    /\ \A c \in FirstAudience : c \in Consumers /\ Feeder(In[c]) = Producer
    /\ \A c \in Audience : c \in Consumers /\ Feeder(In[c]) = Transformer
    /\ Transformer \in FirstAudience
  <1>1. \A c \in Consumers : /\ Feeder(In[c]) \in Feeders /\ Feeder(In[c]) \in Threads
                             /\ Feeder(In[c]) # c /\ c \in Threads /\ c # Producer
                             /\ In[c] = Out[Feeder(In[c])] /\ In[c] \in Streams
                             /\ Feeder(In[c]) \in {Producer, Transformer}
    BY WhoIsWho, TransformerIs
  <1>2. \A c \in Consumers : c \in FirstAudience \/ c \in Audience
    BY <1>1 DEF FirstAudience, Audience
  <1>3. /\ \A c \in FirstAudience : c \in Consumers /\ Feeder(In[c]) = Producer
        /\ \A c \in Audience : c \in Consumers /\ Feeder(In[c]) = Transformer
    BY FeederOfStream, WhoIsWho, TransformerIs DEF FirstAudience, Audience
  <1>4. Transformer \in FirstAudience
    BY <1>1, <1>2, <1>3, TransformerIs
  <1> QED BY <1>1, <1>2, <1>3, <1>4

\* What the proofs below take from the invariant.
LEMMA OrderTypes ==
    ASSUME OrderInv
    PROVE  /\ Base /\ LinkInv
           /\ pc \in [Threads -> QROPlaces] /\ back \in {"events", "reply"}
           /\ queue \in [Consumers -> Seq(Nat)] /\ got \in [Consumers -> Seq(FrameIds)]
           /\ \A c \in Consumers : queue[c] \in Seq(Nat) /\ got[c] \in Seq(Nat) /\ MarkLast(queue[c])
           /\ refused \in [Consumers -> SUBSET Nat] /\ count \in [Feeders -> FrameIds]
           /\ \A f \in Feeders : count[f] \in Nat \ {0}
           /\ subs \in [Streams -> Seq(Consumers)] /\ todo \in [Feeders -> Seq(Consumers)]
           /\ \A f \in Feeders : todo[f] \in Seq(Consumers)
           /\ terminated \in [Consumers -> BOOLEAN]
           /\ \A c \in Consumers : EndOf(c)
           /\ \A t \in Threads : pc[t] \notin {"start", "barrier", "parked"} =>
                 \A u \in Threads : pc[u] \notin {"start", "barrier", "parked"}
           /\ N \in Nat
  <1>1. Base /\ LinkInv
    BY DEF OrderInv, AnswerInv
  <1>2. /\ pc \in [Threads -> QROPlaces] /\ back \in {"events", "reply"}
        /\ queue \in [Consumers -> Seq(Nat)] /\ got \in [Consumers -> Seq(FrameIds)]
        /\ refused \in [Consumers -> SUBSET Nat] /\ count \in [Feeders -> FrameIds]
        /\ subs \in [Streams -> Seq(Consumers)] /\ todo \in [Feeders -> Seq(Consumers)]
        /\ BarrierInv
    BY <1>1 DEF Base, QuietInv, DataTypes
  <1>3. ASSUME NEW c \in Consumers
        PROVE  queue[c] \in Seq(Nat) /\ got[c] \in Seq(Nat) /\ MarkLast(queue[c])
    <2>1. got[c] \in Seq(FrameIds)
      BY <1>2
    <2>2. got[c] \in Seq(Nat)
      BY <2>1 DEF FrameIds
    <2>3. MarkLast(queue[c])
      BY TwoStreams DEF OrderInv, AnswerInv, AudienceInv, FirstInv
    <2> QED BY <1>2, <2>2, <2>3
  <1>4. \A f \in Feeders : count[f] \in Nat \ {0}
    BY <1>2 DEF FrameIds
  <1>5. \A f \in Feeders : todo[f] \in Seq(Consumers)
    BY <1>2
  <1>6. \A t \in Threads : pc[t] \notin {"start", "barrier", "parked"} =>
           \A u \in Threads : pc[u] \notin {"start", "barrier", "parked"}
    BY <1>2 DEF BarrierInv
  <1> QED BY <1>1, <1>2, <1>3, <1>4, <1>5, <1>6, WhoIsWho DEF OrderInv

(***************************************************************************)
(* What a step does, and what it leaves alone.                             *)
(***************************************************************************)
\* A step of d as a consumer, or as one that talks to its worker.
Listens(d) ==
    \/ AwaitFrame(d) \/ Consumed(d) \/ Abort(d)
    \/ d = Transformer /\ (Transform(d) \/ Close(d))

\* try_dequeue has a frame for d, or the empty optional.
TakesOne(d) ==
    /\ pc[d] = "dequeue" /\ queue[d] # << >>
    /\ queue' = [queue EXCEPT ![d] = Tail(queue[d])]
    /\ IF Head(queue[d]) = NullOpt
       THEN got' = got /\ pc'[d] = AfterLoop(d)
       ELSE got' = [got EXCEPT ![d] = Append(got[d], Head(queue[d]))] /\ pc'[d] \in {"next", "events"}

\* It has neither.
TakesNone(d) ==
    /\ queue' = queue /\ got' = got
    /\ \/ pc'[d] = pc[d]
       \/ pc[d] = "next" /\ terminated[d] /\ pc'[d] = "peek"
       \/ pc[d] = "peek" /\ queue[d] = << >> /\ pc'[d] = AfterLoop(d)
       \/ pc[d] = "close" /\ pc'[d] = "done"
       \/ /\ pc[d] \in {"next", "peek", "wait", "events", "reply"}
          /\ pc'[d] \in {"next", "wait", "dequeue", "reply", "push"}

LEMMA ListenFrame ==
    ASSUME Base, NEW d \in Consumers, Listens(d)
    PROVE  /\ UNCHANGED <<todo, subs, terminated, refused>>
           /\ count'[Producer] = count[Producer]
           /\ \A u \in Threads : u # d => pc'[u] = pc[u]
           /\ TakesOne(d) \/ TakesNone(d)
           /\ AfterLoop(d) \in {"term", "done"}
  <1>1. /\ pc \in [Threads -> QROPlaces] /\ d \in Threads /\ count \in [Feeders -> FrameIds]
        /\ d # Producer /\ Producer \in Feeders /\ Transformer \in Feeders
        /\ d \in Feeders => d = Transformer
    BY WhoIsWho, TransformerIs DEF Base, QuietInv, DataTypes
  <1>2. AfterLoop(d) \in {"term", "done"}
    BY DEF AfterLoop
  <1>3. CASE Abort(d)
    BY <1>2, <1>3 DEF Abort, TakesNone, shared, history
  <1>4. CASE AwaitFrame(d)
    <2>1. /\ UNCHANGED <<todo, subs, terminated, refused, count, queue, got>>
          /\ \/ pc[d] = "next" /\ pc' = [pc EXCEPT ![d] = IF terminated[d] THEN "peek" ELSE "wait"]
             \/ pc[d] = "peek" /\ pc' = [pc EXCEPT ![d] = IF queue[d] = << >> THEN AfterLoop(d) ELSE "wait"]
             \/ pc[d] = "wait" /\ pc' = [pc EXCEPT ![d] = "dequeue"]
      BY <1>4 DEF AwaitFrame, NextCheck, Peek, WaitSignal, Goto, shared, history
    <2>2. TakesNone(d)
      BY <1>1, <2>1 DEF TakesNone
    <2> QED BY <1>1, <1>2, <2>1, <2>2
  <1>5. CASE Consumed(d)
    BY <1>1, <1>2, <1>5 DEF Consumed, Dequeue, Goto, TakesOne
  <1>6. CASE d = Transformer /\ TakeFrame(d)
    BY <1>1, <1>2, <1>6 DEF TakeFrame, Goto, TakesOne, AfterLoop
  <1>7. CASE d = Transformer /\ (Receive(d) \/ Call(d) \/ CallFails(d) \/ WaitDone(d) \/ Close(d))
    BY <1>1, <1>2, <1>7, TransformerIs
       DEF Receive, Call, CallFails, WaitDone, Close, Goto, TakesNone, shared, history
  <1> QED BY <1>3, <1>4, <1>5, <1>6, <1>7 DEF Listens, Transform

\* A step of a feeder changes nothing of the other stream.
LEMMA FeedsOne ==
    ASSUME OrderInv, NEW t \in Feeders, QROFeed(t)
    PROVE  /\ got' = got
           /\ \A u \in Threads : u # t => pc'[u] = pc[u]
           /\ \A u \in Feeders : u # t => todo'[u] = todo[u] /\ count'[u] = count[u]
           /\ \A c \in Consumers : Feeder(In[c]) # t =>
                 queue'[c] = queue[c] /\ terminated'[c] = terminated[c] /\ refused'[c] = refused[c]
           /\ \A s \in Streams : s # Out[t] => subs'[s] = subs[s]
           /\ pc'[t] \notin {"start", "barrier", "parked", "peek"}
           /\ pc[t] \notin {"start", "barrier", "parked", "peek"}
           /\ t # Producer => (Closed(t)' <=> Closed(t))
           /\ pc[t] \in {"signal", "mark", "sigmark"} => todo[t] # << >>
           /\ todo[t] # << >> => Head(todo[t]) \in Consumers /\ Feeder(In[Head(todo[t])]) = t
  <1>1. /\ t \in Threads /\ Out[t] \in Streams
        /\ pc \in [Threads -> QROPlaces] /\ back \in {"events", "reply"}
        /\ todo \in [Feeders -> Seq(Consumers)] /\ todo[t] \in Seq(Consumers)
        /\ subs \in [Streams -> Seq(Consumers)] /\ queue \in [Consumers -> Seq(Nat)]
        /\ count \in [Feeders -> FrameIds] /\ refused \in [Consumers -> SUBSET Nat]
        /\ pc[t] \in {"signal", "mark", "sigmark"} => todo[t] # << >>
        /\ \A i \in DOMAIN todo[t] : In[todo[t][i]] = Out[t]
        /\ terminated \in [Consumers -> BOOLEAN]
    BY WhoIsWho, FeederOfStream, OrderTypes DEF Base, DataTypes, QuietInv, Walks, Walk
  <1>2. todo[t] # << >> => Head(todo[t]) \in Consumers /\ Feeder(In[Head(todo[t])]) = t
    BY <1>1, HeadAndTail, FeederOfStream
  <1>3. CASE PushFrame(t)
    <2>1. todo[t] # << >> \/ PushLock(t)
      BY <1>1, <1>3 DEF PushFrame, PushEnqueue, PushRefused, PushSignal
    <2>2. \A c \in Consumers : Feeder(In[c]) # t =>
             queue'[c] = queue[c] /\ terminated'[c] = terminated[c] /\ refused'[c] = refused[c]
      BY <1>1, <1>2, <1>3, <2>1 DEF PushFrame, PushLock, PushEnqueue, PushRefused, PushSignal, shared, history
    <2>3. /\ got' = got /\ subs' = subs
          /\ \A u \in Threads : u # t => pc'[u] = pc[u]
          /\ \A u \in Feeders : u # t => todo'[u] = todo[u] /\ count'[u] = count[u]
          /\ pc[t] \in {"push", "visit", "signal"} /\ pc'[t] \in {"push", "visit", "signal"}
      BY <1>1, <1>3 DEF PushFrame, PushLock, PushEnqueue, PushRefused, PushSignal, Goto, shared, history
    <2> QED BY <1>1, <1>2, <2>2, <2>3 DEF Closed, Ended
  <1>4. CASE PushDone(t) \/ AnswerDone(t)
    <2>1. /\ UNCHANGED <<got, queue, terminated, refused, subs, todo>>
          /\ \A u \in Threads : u # t => pc'[u] = pc[u]
          /\ \A u \in Feeders : u # t => count'[u] = count[u]
          /\ pc[t] = "visit"
          /\ pc'[t] \in {"next", "term", "push", "events", "reply"}
          /\ t # Producer => pc'[t] \in {"events", "reply"}
      BY <1>1, <1>4 DEF PushDone, PushUnlock, AnswerDone, Goto, shared, history
    <2> QED BY <1>1, <1>2, <2>1 DEF Closed, Ended
  <1>5. CASE TermVisit(t)
    <2>1. todo[t] # << >>
      BY <1>1, <1>5 DEF TermVisit, TermFlag, TermEnqueue, TermRefused, TermSignal
    <2>2. terminated' = terminated \/ terminated' = [terminated EXCEPT ![Head(todo[t])] = TRUE]
      BY <1>5 DEF TermVisit, TermFlag, TermEnqueue, TermRefused, TermSignal, shared
    <2>3. \A c \in Consumers : Feeder(In[c]) # t =>
             queue'[c] = queue[c] /\ terminated'[c] = terminated[c] /\ refused'[c] = refused[c]
      <3>1. \A c \in Consumers : Feeder(In[c]) # t => terminated'[c] = terminated[c]
        BY <1>1, <1>2, <2>1, <2>2
      <3>2. \A c \in Consumers : Feeder(In[c]) # t => queue'[c] = queue[c] /\ refused'[c] = refused[c]
        BY <1>1, <1>2, <1>5, <2>1 DEF TermVisit, TermFlag, TermEnqueue, TermRefused, TermSignal, shared, history
      <3> QED BY <3>1, <3>2
    <2>4. /\ got' = got /\ subs' = subs /\ count' = count
          /\ \A u \in Threads : u # t => pc'[u] = pc[u]
          /\ \A u \in Feeders : u # t => todo'[u] = todo[u]
          /\ pc[t] \in {"flag", "mark", "sigmark"} /\ pc'[t] \in {"flag", "mark", "sigmark"}
      BY <1>1, <1>5 DEF TermVisit, TermFlag, TermEnqueue, TermRefused, TermSignal, Goto, shared, history
    <2> QED BY <1>1, <1>2, <2>3, <2>4 DEF Closed, Ended
  <1>6. CASE TermBegin(t) \/ TermEnd(t)
    <2>1. /\ UNCHANGED <<got, queue, terminated, refused, count>>
          /\ \A s \in Streams : s # Out[t] => subs'[s] = subs[s]
          /\ \A u \in Threads : u # t => pc'[u] = pc[u]
          /\ \A u \in Feeders : u # t => todo'[u] = todo[u]
          /\ pc[t] \in {"term", "flag"} /\ pc'[t] \in {"flag", "close", "done"}
      BY <1>1, <1>6 DEF TermBegin, TermEnd, Goto, shared, history
    <2> QED BY <1>1, <1>2, <2>1 DEF Closed, Ended
  <1> QED BY <1>3, <1>4, <1>5, <1>6 DEF QROFeed

\* Neither a thread that begins nor the end of the run changes a stream but by its
\* subscriptions.
LEMMA BeginFrame ==
    ASSUME Base, NEW t \in Threads, Begin(t)
    PROVE  /\ UNCHANGED <<todo, queue, terminated, refused, got, count>>
           /\ \A u \in Threads :
                 \/ pc'[u] = pc[u]
                 \/ /\ pc[u] \in {"start", "barrier", "parked"}
                    /\ pc'[u] \in {"barrier", "parked", Behind(u)}
           /\ \A u \in Threads : pc'[u] = "start" => pc[u] = "start"
           /\ \A u \in Threads : pc[u] \in {"start", "barrier", "parked"}
           /\ Behind(Producer) = "push" /\ \A u \in Consumers : Behind(u) = "next"
  <1>1. pc \in [Threads -> QROPlaces] /\ BarrierInv
    BY DEF Base, QuietInv
  <1>2. Behind(Producer) = "push" /\ \A u \in Consumers : Behind(u) = "next"
    BY WhoIsWho DEF Behind
  <1>3. CASE BarrierWait(t)
    <2>1. \A u \in Threads :
             \/ pc'[u] = pc[u]
             \/ pc[u] \in {"barrier", "parked"} /\ pc'[u] \in {"parked", Behind(u)}
      <3>1. CASE waiting > 1
        BY <1>1, <1>3, <3>1 DEF BarrierWait
      <3>2. CASE ~ (waiting > 1)
        BY <1>1, <1>3, <3>2 DEF BarrierWait
      <3> QED BY <3>1, <3>2
    <2>2. \A u \in Threads : pc'[u] = "start" => pc[u] = "start"
      BY <2>1 DEF Behind
    <2> QED BY <1>1, <1>2, <1>3, <2>1, <2>2 DEF BarrierWait, BarrierInv, shared, history
  <1>4. CASE t \in Consumers /\ Subscribe(t)
    BY <1>1, <1>2, <1>4 DEF Subscribe, Goto, BarrierInv, history
  <1> QED BY <1>3, <1>4 DEF Begin

LEMMA RestFrame ==
    ASSUME OrderInv, QROMainReturn \/ WorkerDies \/ UNCHANGED qroVars
    PROVE  UNCHANGED <<pc, todo, subs, queue, terminated, refused, got, count>>
  <1>1. Base /\ terminated \in [Consumers -> BOOLEAN]
    BY OrderTypes
  <1>2. UNCHANGED <<pc, todo, subs, queue, refused, got, count>>
    BY <1>1, EndFrame
  <1>3. terminated' = terminated
    <2>1. CASE QROMainReturn
      <3>1. \A s \in Streams : subs[s] = << >>
        BY <1>1, <2>1, WhoIsWho, FeederOfStream DEF QROMainReturn, MainReturn, Base, Walks
      <3>2. {c \in Consumers : Subscribed(c)} = {}
        BY <3>1, WhoIsWho DEF Subscribed
      <3>3. terminated' = [c \in Consumers |-> terminated[c] \/ c \in {}]
        BY <2>1, <3>2 DEF QROMainReturn, MainReturn
      <3> QED BY <1>1, <3>3
    <2>2. CASE WorkerDies \/ UNCHANGED qroVars
      BY <2>2 DEF WorkerDies, qroVars, vars, shared
    <2> QED BY <2>1, <2>2
  <1> QED BY <1>2, <1>3

(***************************************************************************)
(* The end of a stream.                                                    *)
(***************************************************************************)
\* Nothing changes at the end of c.
LEMMA EndOfStands ==
    ASSUME NEW c \in Consumers, EndOf(c),
           terminated'[c] = terminated[c], Marked(queue'[c]) => terminated[c],
           todo'[Feeder(In[c])] = todo[Feeder(In[c])],
           pc[Feeder(In[c])] \in Leaving => pc'[Feeder(In[c])] \in Leaving,
           \A l \in {"mark", "sigmark"} : pc'[Feeder(In[c])] = l => pc[Feeder(In[c])] = l,
           pc'[c] = "peek" \/ Closed(c)' => terminated[c]
    PROVE  EndOf(c)'
  <1> DEFINE f == Feeder(In[c])
  <1>1. /\ At(f, "mark", c)' => At(f, "mark", c)
        /\ At(f, "sigmark", c)' => At(f, "sigmark", c)
    BY DEF At
  <1>2. terminated'[c] => pc'[f] \in Leaving
    BY DEF EndOf
  <1> QED BY <1>1, <1>2 DEF EndOf, Marked

LEMMA EndListens ==
    ASSUME OrderInv, NEW d \in Consumers, Listens(d), NEW c \in Consumers
    PROVE  EndOf(c)'
  <1> DEFINE f == Feeder(In[c])
  <1>1. /\ Base /\ EndOf(c) /\ queue \in [Consumers -> Seq(Nat)] /\ queue[c] \in Seq(Nat)
        /\ queue[d] \in Seq(Nat) /\ MarkLast(queue[d])
        /\ f \in Threads /\ f # c /\ c \in Threads /\ d \in Threads
    BY OrderTypes, TwoStreams
  <1>2. /\ todo' = todo /\ terminated' = terminated
        /\ \A u \in Threads : u # d => pc'[u] = pc[u]
        /\ TakesOne(d) \/ TakesNone(d)
        /\ AfterLoop(d) \in {"term", "done"}
    BY <1>1, ListenFrame
  <1>3. /\ pc[d] \in Leaving => pc'[d] \in Leaving
        /\ \A l \in {"mark", "sigmark"} : pc'[d] = l => pc[d] = l
    BY <1>2 DEF TakesOne, TakesNone, Leaving
  <1>4. /\ pc[f] \in Leaving => pc'[f] \in Leaving
        /\ \A l \in {"mark", "sigmark"} : pc'[f] = l => pc[f] = l
    BY <1>1, <1>2, <1>3
  <1>5. Marked(queue'[c]) => Marked(queue[c])
    <2>1. CASE TakesOne(d) /\ c = d
      <3>1. queue'[c] = Tail(queue[c]) /\ queue[c] # << >>
        BY <1>1, <2>1 DEF TakesOne
      <3> QED BY <1>1, <2>1, <3>1, MarkTail
    <2>2. CASE ~ (TakesOne(d) /\ c = d)
      <3>1. queue'[c] = queue[c]
        BY <1>1, <1>2, <2>2 DEF TakesOne, TakesNone
      <3> QED BY <3>1
    <2> QED BY <2>1, <2>2
  <1>6. pc'[c] = "peek" \/ Closed(c)' => terminated[c]
    <2>1. CASE c # d
      BY <1>1, <1>2, <2>1 DEF EndOf, Closed, Ended
    <2>2. CASE c = d /\ TakesOne(d)
      <3>1. pc'[c] = "peek" \/ Closed(c)' => Head(queue[c]) = NullOpt
        BY <2>2 DEF TakesOne, Closed, Ended
      <3>2. Head(queue[c]) = NullOpt => Marked(queue[c])
        BY <1>1, <2>2, HeadAndTail DEF TakesOne, Marked
      <3> QED BY <1>1, <3>1, <3>2 DEF EndOf
    <2>3. CASE c = d /\ TakesNone(d)
      BY <1>1, <2>3 DEF TakesNone, EndOf, Closed, Ended
    <2> QED BY <1>2, <2>1, <2>2, <2>3
  <1>7. Marked(queue'[c]) => terminated[c]
    BY <1>1, <1>5 DEF EndOf
  <1> HIDE DEF f
  <1>8. todo'[f] = todo[f] /\ terminated'[c] = terminated[c]
    BY <1>2
  <1> QED BY <1>1, <1>4, <1>6, <1>7, <1>8, EndOfStands DEF f

LEMMA EndFeeds ==
    ASSUME OrderInv, NEW t \in Feeders, QROFeed(t), NEW c \in Consumers
    PROVE  EndOf(c)'
  <1> DEFINE f == Feeder(In[c])
  <1>1. /\ Base /\ EndOf(c) /\ queue \in [Consumers -> Seq(Nat)] /\ queue[c] \in Seq(Nat)
        /\ pc \in [Threads -> QROPlaces] /\ back \in {"events", "reply"}
        /\ todo \in [Feeders -> Seq(Consumers)] /\ count[t] \in Nat \ {0}
        /\ terminated \in [Consumers -> BOOLEAN]
        /\ f \in Threads /\ f \in Feeders /\ f # c /\ c \in Threads /\ t \in Threads
        /\ c # Producer
    BY OrderTypes, TwoStreams, WhoIsWho
  <1>2. /\ \A u \in Threads : u # t => pc'[u] = pc[u]
        /\ \A u \in Feeders : u # t => todo'[u] = todo[u]
        /\ f # t => queue'[c] = queue[c] /\ terminated'[c] = terminated[c]
        /\ pc'[t] \notin {"start", "barrier", "parked", "peek"}
        /\ t # Producer => (Closed(t)' <=> Closed(t))
        /\ pc[t] \in {"signal", "mark", "sigmark"} => todo[t] # << >>
        /\ todo[t] # << >> => Head(todo[t]) \in Consumers /\ Feeder(In[Head(todo[t])]) = t
    BY <1>1, FeedsOne
  <1>3. pc'[c] = "peek" \/ Closed(c)' => terminated[c]
    <2>1. CASE c = t
      BY <1>1, <1>2, <2>1 DEF EndOf
    <2>2. CASE c # t
      BY <1>1, <1>2, <2>2 DEF EndOf, Closed, Ended
    <2> QED BY <2>1, <2>2
  <1>4. CASE f # t
    <2>1. pc'[f] = pc[f] /\ todo'[f] = todo[f] /\ queue'[c] = queue[c] /\ terminated'[c] = terminated[c]
      BY <1>1, <1>2, <1>4
    <2>2. Marked(queue'[c]) => terminated[c]
      BY <1>1, <2>1 DEF EndOf
    <2> HIDE DEF f
    <2> QED BY <1>1, <1>3, <2>1, <2>2, EndOfStands DEF f
  <1>5. CASE f = t
    <2>1. /\ terminated[c] => pc[t] \in Leaving
          /\ At(t, "mark", c) => terminated[c]
          /\ At(t, "sigmark", c) => terminated[c]
          /\ Marked(queue[c]) => terminated[c]
      BY <1>1, <1>5 DEF EndOf
    <2>2. SUFFICES /\ terminated'[c] => pc'[t] \in Leaving
                   /\ At(t, "mark", c)' => terminated'[c]
                   /\ At(t, "sigmark", c)' => terminated'[c]
                   /\ Marked(queue'[c]) => terminated'[c]
                   /\ terminated[c] => terminated'[c]
      BY <1>1, <1>3, <1>5 DEF EndOf, Marked
    <2>3. CASE TermFlag(t)
      <3>1. /\ pc'[t] = "mark" /\ todo' = todo /\ queue' = queue /\ todo[t] # << >>
            /\ terminated' = [terminated EXCEPT ![Head(todo[t])] = TRUE]
        BY <1>1, <2>3 DEF TermFlag, Goto
      <3>2. terminated'[Head(todo[t])] = TRUE /\ (terminated[c] => terminated'[c])
        BY <1>1, <1>2, <3>1
      <3> QED BY <2>1, <3>1, <3>2 DEF At, Leaving
    <2>4. CASE TermEnqueue(t)
      <3>1. /\ pc[t] = "mark" /\ pc'[t] = "sigmark" /\ todo' = todo /\ terminated' = terminated
            /\ queue' = [queue EXCEPT ![Head(todo[t])] = Append(queue[Head(todo[t])], NullOpt)]
        BY <1>1, <2>4 DEF TermEnqueue, Goto
      <3>2. CASE Head(todo[t]) = c
        <4>1. terminated[c]
          BY <1>2, <2>1, <3>1, <3>2 DEF At
        <4> QED BY <3>1, <4>1 DEF Leaving
      <3>3. CASE Head(todo[t]) # c
        <4>1. queue'[c] = queue[c]
          BY <1>1, <3>1, <3>3
        <4> QED BY <2>1, <3>1, <3>3, <4>1 DEF At, Leaving
      <3> QED BY <3>2, <3>3
    <2>5. CASE PushEnqueue(t)
      <3>1. /\ pc[t] = "visit" /\ pc'[t] = "signal" /\ terminated' = terminated
            /\ queue' = [queue EXCEPT ![Head(todo[t])] = Append(queue[Head(todo[t])], count[t])]
        BY <1>1, <2>5 DEF PushEnqueue, Goto
      <3>2. ~ Marked(queue[c]) /\ ~ terminated[c]
        BY <2>1, <3>1 DEF Leaving
      <3>3. ~ Marked(queue'[c])
        <4>1. queue'[c] = queue[c] \/ queue'[c] = Append(queue[c], count[t])
          BY <1>1, <3>1
        <4>2. count[t] # NullOpt
          BY <1>1 DEF NullOpt
        <4>3. \A i \in DOMAIN Append(queue[c], count[t]) :
                 \/ Append(queue[c], count[t])[i] = count[t]
                 \/ i \in DOMAIN queue[c] /\ Append(queue[c], count[t])[i] = queue[c][i]
          <5>1. queue[c] \in Seq(Nat) /\ count[t] \in Nat
            BY <1>1
          <5> QED BY <5>1, AppendKeeps
        <4> QED BY <3>2, <4>1, <4>2, <4>3 DEF Marked
      <3> QED BY <3>1, <3>2, <3>3 DEF At
    <2>6. CASE \/ PushLock(t) \/ PushRefused(t) \/ PushSignal(t) \/ PushDone(t) \/ AnswerDone(t)
               \/ TermBegin(t)
      <3>1. /\ pc[t] \in {"push", "visit", "signal", "term"} /\ pc'[t] \notin {"mark", "sigmark"}
            /\ terminated' = terminated /\ queue' = queue
        BY <1>1, <2>6 DEF PushLock, PushRefused, PushSignal, PushDone, PushUnlock, AnswerDone,
                          TermBegin, Goto, shared
      <3> QED BY <2>1, <3>1 DEF At, Leaving
    <2>7. CASE TermRefused(t) \/ TermSignal(t) \/ TermEnd(t)
      <3>1. pc'[t] \in {"flag", "close", "done"} /\ terminated' = terminated /\ queue' = queue
        BY <1>1, <2>7 DEF TermRefused, TermSignal, TermEnd, Goto, shared
      <3> QED BY <2>1, <3>1 DEF At, Leaving
    <2> QED BY <2>3, <2>4, <2>5, <2>6, <2>7 DEF QROFeed, PushFrame, TermVisit
  <1> QED BY <1>4, <1>5

LEMMA EndBegins ==
    ASSUME OrderInv, NEW t \in Threads, Begin(t), NEW c \in Consumers
    PROVE  EndOf(c)'
  <1> DEFINE f == Feeder(In[c])
  <1>1. Base /\ EndOf(c) /\ f \in Threads /\ c \in Threads /\ f \in Feeders
    BY OrderTypes, TwoStreams
  <1>2. /\ UNCHANGED <<todo, queue, terminated>>
        /\ \A u \in Threads :
                 \/ pc'[u] = pc[u]
                 \/ /\ pc[u] \in {"start", "barrier", "parked"}
                    /\ pc'[u] \in {"barrier", "parked", "push", "next"}
    BY <1>1, BeginFrame DEF Behind
  <1>3. /\ pc[f] \in Leaving => pc'[f] \in Leaving
        /\ \A l \in {"mark", "sigmark"} : pc'[f] = l => pc[f] = l
        /\ pc'[c] = "peek" \/ Closed(c)' => terminated[c]
    BY <1>1, <1>2 DEF Leaving, Closed, Ended, EndOf
  <1>4. Marked(queue'[c]) => terminated[c]
    BY <1>1, <1>2 DEF EndOf
  <1> HIDE DEF f
  <1>5. todo'[f] = todo[f] /\ terminated'[c] = terminated[c]
    BY <1>2
  <1> QED BY <1>1, <1>3, <1>4, <1>5, EndOfStands DEF f

(***************************************************************************)
(* The first stream.                                                       *)
(***************************************************************************)
LEMMA ProducerFeeds ==
    ASSUME OrderInv, NEW t \in Feeders, QROFeed(t)
    PROVE  ProducerInLoop' /\ count'[Producer] <= N + 1
  <1>1. /\ Base /\ pc \in [Threads -> QROPlaces] /\ Producer \in Threads /\ Producer \in Feeders
        /\ count \in [Feeders -> FrameIds] /\ count[Producer] \in Nat /\ N \in Nat
        /\ ProducerInLoop /\ count[Producer] <= N + 1 /\ Producer # Transformer
    BY OrderTypes, WhoIsWho, TransformerIs DEF OrderInv
  <1>2. CASE t # Producer
    BY <1>1, <1>2, FeedsOne DEF ProducerInLoop
  <1>3. CASE t = Producer
    <2>1. CASE PushDone(t)
      BY <1>1, <1>3, <2>1 DEF ProducerInLoop, PushDone, PushUnlock, Goto
    <2>2. CASE PushFrame(t)
      BY <1>1, <1>3, <2>2 DEF ProducerInLoop, PushFrame, PushLock, PushEnqueue, PushRefused, PushSignal,
                              Goto
    <2>3. CASE TermBegin(t) \/ TermVisit(t) \/ TermEnd(t)
      <3>1. count' = count
        BY <2>3 DEF TermBegin, TermVisit, TermEnd, TermFlag, TermEnqueue, TermRefused, TermSignal
      <3>2. pc'[t] \in {"flag", "mark", "sigmark", "close", "done"}
        BY <1>1, <1>3, <2>3 DEF TermBegin, TermVisit, TermEnd, TermFlag, TermEnqueue, TermRefused,
                                TermSignal, Goto
      <3> QED BY <1>1, <1>3, <3>1, <3>2 DEF ProducerInLoop
    <2> QED BY <1>1, <1>3, <2>1, <2>2, <2>3 DEF QROFeed, AnswerDone
  <1> QED BY <1>2, <1>3

LEMMA ProducerBegins ==
    ASSUME OrderInv, NEW t \in Threads, Begin(t)
    PROVE  ProducerInLoop' /\ count'[Producer] <= N + 1
  <1>1. /\ Base /\ Producer \in Threads /\ pc[Producer] # "start"
        /\ ProducerInLoop /\ count[Producer] <= N + 1
    BY OrderTypes, WhoIsWho DEF OrderInv, Base, QuietInv, BarrierInv
  <1>2. count' = count /\ pc[Producer] \in {"barrier", "parked"}
    BY <1>1, BeginFrame
  <1> QED BY <1>1, <1>2 DEF ProducerInLoop

\* Nothing changes for c but perhaps that a frame goes from its queue to its hands.
LEMMA FirstStands ==
    ASSUME NEW c \in FirstAudience, FirstInv(c),
           got'[c] \o Frames(queue'[c]) = got[c] \o Frames(queue[c]), refused'[c] = refused[c],
           MarkLast(queue'[c]), Marked(queue'[c]) => Marked(queue[c]),
           ToldFirst(c) => ToldFirst(c)',
           pc'[c] # "start" /\ pc'[Producer] # "done" => Subscribed(c)',
           LastOffered(c)' = LastOffered(c)
    PROVE  FirstInv(c)'
  <1>1. Seen(c)' = Seen(c)
    BY DEF Seen
  <1> HIDE DEF Account, LastOffered, Frames
  <1>2. AccountOf(c)'
    BY <1>1 DEF AccountOf, FirstInv
  <1> QED BY <1>2 DEF FirstInv

\* The frame offered last to a consumer of the first stream.
LEMMA OfferedFirst ==
    ASSUME NEW c \in FirstAudience
    PROVE  /\ LastOffered(c) =
                 IF /\ pc[Producer] \in {"visit", "signal"}
                    /\ \/ At(Producer, "signal", c)
                       \/ ~ On(todo[Producer], c)
                 THEN count[Producer] ELSE count[Producer] - 1
           /\ LastOffered(c)' =
                 IF /\ pc'[Producer] \in {"visit", "signal"}
                    /\ \/ pc'[Producer] = "signal" /\ todo'[Producer] # << >> /\ Head(todo'[Producer]) = c
                       \/ ~ On(todo'[Producer], c)
                 THEN count'[Producer] ELSE count'[Producer] - 1
  BY TwoStreams DEF LastOffered, At, On

LEMMA FirstListens ==
    ASSUME OrderInv, NEW d \in Consumers, Listens(d), NEW c \in FirstAudience
    PROVE  FirstInv(c)'
  <1>1. /\ Base /\ FirstInv(c) /\ c \in Consumers /\ c \in Threads /\ c # Producer /\ d # Producer
        /\ queue \in [Consumers -> Seq(Nat)] /\ got \in [Consumers -> Seq(FrameIds)]
        /\ queue[c] \in Seq(Nat) /\ got[c] \in Seq(Nat) /\ MarkLast(queue[c])
        /\ d \in Threads /\ Producer \in Threads
    BY OrderTypes, TwoStreams, WhoIsWho DEF OrderInv
  <1>2. /\ UNCHANGED <<todo, subs, refused>> /\ count'[Producer] = count[Producer]
        /\ \A u \in Threads : u # d => pc'[u] = pc[u]
        /\ TakesOne(d) \/ TakesNone(d)
        /\ AfterLoop(d) \in {"term", "done"}
    BY <1>1, ListenFrame
  <1>3. pc'[Producer] = pc[Producer] /\ todo' = todo
    BY <1>1, <1>2
  <1>4. LastOffered(c)' = LastOffered(c) /\ (ToldFirst(c) => ToldFirst(c)')
    BY <1>2, <1>3, OfferedFirst DEF ToldFirst, At, On
  <1>5. pc'[c] # "start" /\ pc'[Producer] # "done" => Subscribed(c)'
    <2>1. pc'[c] # "start" => pc[c] # "start"
      BY <1>1, <1>2 DEF TakesOne, TakesNone
    <2>2. Subscribed(c)' <=> Subscribed(c)
      BY <1>2 DEF Subscribed
    <2> QED BY <1>1, <1>3, <2>1, <2>2 DEF FirstInv
  <1>6. CASE TakesOne(d) /\ d = c
    <2>1. /\ queue[c] # << >> /\ queue'[c] = Tail(queue[c])
          /\ IF Head(queue[c]) = NullOpt THEN got'[c] = got[c]
                                         ELSE got'[c] = Append(got[c], Head(queue[c]))
      BY <1>1, <1>6 DEF TakesOne
    <2>2. got'[c] \o Frames(queue'[c]) = got[c] \o Frames(queue[c])
      BY <1>1, <2>1, FramesMove
    <2>3. MarkLast(queue'[c]) /\ (Marked(queue'[c]) => Marked(queue[c]))
      BY <1>1, <2>1, MarkTail
    <2> QED BY <1>1, <1>2, <1>4, <1>5, <2>2, <2>3, FirstStands
  <1>7. CASE ~ (TakesOne(d) /\ d = c)
    <2>1. queue'[c] = queue[c] /\ got'[c] = got[c]
      BY <1>1, <1>2, <1>7 DEF TakesOne, TakesNone
    <2> QED BY <1>1, <1>2, <1>4, <1>5, <2>1, FirstStands
  <1> QED BY <1>6, <1>7

LEMMA FirstBegins ==
    ASSUME OrderInv, NEW t \in Threads, Begin(t), NEW c \in FirstAudience
    PROVE  FirstInv(c)'
  <1>1. /\ Base /\ FirstInv(c) /\ c \in Consumers /\ c \in Threads
        /\ In[c] \in Streams /\ subs \in [Streams -> Seq(Consumers)]
        /\ pc \in [Threads -> QROPlaces] /\ Producer \in Threads /\ MarkLast(queue[c])
    BY OrderTypes, TwoStreams, WhoIsWho DEF OrderInv
  <1>2. /\ UNCHANGED <<todo, queue, refused, got, count>>
        /\ pc[Producer] \in {"start", "barrier", "parked"}
        /\ pc'[Producer] \in {"start", "barrier", "parked", "push"}
        /\ \A u \in Threads : pc'[u] = "start" => pc[u] = "start"
    BY <1>1, BeginFrame
  <1>3. LastOffered(c)' = LastOffered(c) /\ ~ ToldFirst(c)
    BY <1>2, OfferedFirst DEF ToldFirst, Leaving
  <1>4. pc'[c] # "start" => Subscribed(c)'
    <2>1. SUFFICES ASSUME pc'[c] # "start" PROVE Subscribed(c)'
      OBVIOUS
    <2>2. CASE BarrierWait(t)
      <3>1. pc[c] # "start" /\ subs' = subs
        <4>1. pc[c] = "start" => pc'[c] = "start"
          BY <1>1, <2>2 DEF BarrierWait
        <4> QED BY <2>1, <2>2, <4>1 DEF BarrierWait, shared
      <3> QED BY <1>1, <1>2, <3>1 DEF FirstInv, Subscribed
    <2>3. CASE t \in Consumers /\ Subscribe(t)
      <3>1. subs' = [subs EXCEPT ![In[t]] = Append(subs[In[t]], t)] /\ pc' = [pc EXCEPT ![t] = "barrier"]
        BY <2>3 DEF Subscribe, Goto
      <3>2. /\ \A i \in DOMAIN subs[In[c]] :
                  i \in DOMAIN Append(subs[In[c]], t) /\ Append(subs[In[c]], t)[i] = subs[In[c]][i]
            /\ Len(subs[In[c]]) + 1 \in DOMAIN Append(subs[In[c]], t)
            /\ Append(subs[In[c]], t)[Len(subs[In[c]]) + 1] = t
        BY <1>1, <2>3, AppendKeeps
      <3>3. subs'[In[c]] = subs[In[c]] \/ subs'[In[c]] = Append(subs[In[c]], t)
        BY <1>1, <3>1
      <3>4. CASE t = c
        <4>1. subs'[In[c]] = Append(subs[In[c]], c)
          BY <1>1, <3>1, <3>4
        <4> QED BY <3>2, <3>4, <4>1 DEF Subscribed
      <3>5. CASE t # c
        <4>1. Subscribed(c)
          BY <1>1, <1>2, <2>1, <3>1, <3>5 DEF FirstInv
        <4> QED BY <3>2, <3>3, <4>1 DEF Subscribed
      <3> QED BY <3>4, <3>5
    <2> QED BY <2>2, <2>3 DEF Begin
  <1> QED BY <1>1, <1>2, <1>3, <1>4, FirstStands

LEMMA FirstFeedsOther ==
    ASSUME OrderInv, NEW t \in Feeders, t # Producer, QROFeed(t), NEW c \in FirstAudience
    PROVE  FirstInv(c)'
  <1>1. /\ Base /\ FirstInv(c) /\ c \in Consumers /\ c \in Threads /\ Feeder(In[c]) = Producer
        /\ In[c] \in Streams /\ In[c] # Out[t] /\ Producer \in Threads /\ Producer \in Feeders
        /\ MarkLast(queue[c])
    BY OrderTypes, TwoStreams, FeederOfStream, WhoIsWho DEF OrderInv
  <1>2. /\ got' = got /\ queue'[c] = queue[c] /\ refused'[c] = refused[c]
        /\ pc'[Producer] = pc[Producer] /\ todo'[Producer] = todo[Producer]
        /\ count'[Producer] = count[Producer] /\ subs'[In[c]] = subs[In[c]]
        /\ pc[t] # "start"
        /\ \A u \in Threads : u # t => pc'[u] = pc[u]
    BY <1>1, FeedsOne
  <1>3. LastOffered(c)' = LastOffered(c) /\ (ToldFirst(c) => ToldFirst(c)')
    BY <1>2, OfferedFirst DEF ToldFirst, At, On
  <1>4. pc'[c] # "start" /\ pc'[Producer] # "done" => Subscribed(c)'
    <2>1. pc'[c] # "start" => pc[c] # "start"
      BY <1>1, <1>2
    <2> QED BY <1>1, <1>2, <2>1 DEF FirstInv, Subscribed
  <1> QED BY <1>1, <1>2, <1>3, <1>4, FirstStands

LEMMA FirstFeedsOwn ==
    ASSUME OrderInv, QROFeed(Producer), NEW c \in FirstAudience
    PROVE  FirstInv(c)'
  <1> DEFINE P == Producer
  <1>1. /\ Base /\ FirstInv(c) /\ c \in Consumers /\ c \in Threads /\ c # P
        /\ In[c] = Out[P] /\ In[c] \in Streams /\ P \in Threads /\ P \in Feeders
        /\ pc \in [Threads -> QROPlaces] /\ queue \in [Consumers -> Seq(Nat)]
        /\ queue[c] \in Seq(Nat) /\ got[c] \in Seq(Nat) /\ refused \in [Consumers -> SUBSET Nat]
        /\ subs \in [Streams -> Seq(Consumers)] /\ count \in [Feeders -> FrameIds]
        /\ count[P] \in Nat \ {0}
        /\ todo \in [Feeders -> Seq(Consumers)] /\ todo[P] \in Seq(Consumers)
        /\ pc[P] \notin {"start", "barrier", "parked"} => pc[c] # "start"
        /\ P # Transformer
    BY OrderTypes, TwoStreams, WhoIsWho, TransformerIs DEF OrderInv
  <1>2. /\ \A i, j \in DOMAIN todo[P] : todo[P][i] = todo[P][j] => i = j
        /\ pc[P] \in {"signal", "mark", "sigmark"} => todo[P] # << >>
    BY <1>1 DEF Base, Walks, Walk
  <1>3. todo[P] # << >> =>
           IF Head(todo[P]) = c THEN On(todo[P], c) /\ ~ On(Tail(todo[P]), c)
                                ELSE On(todo[P], c) <=> On(Tail(todo[P]), c)
    BY <1>1, <1>2, WalkOn
  <1>4. todo[P] = << >> => ~ On(todo[P], c)
    BY DEF On
  <1>5. /\ got' = got /\ pc'[c] = pc[c]
        /\ pc[P] \notin {"start", "barrier", "parked"}
    BY <1>1, FeedsOne
  <1>6. LastOffered(c) = IF /\ pc[P] \in {"visit", "signal"}
                            /\ \/ pc[P] = "signal" /\ todo[P] # << >> /\ Head(todo[P]) = c
                               \/ ~ On(todo[P], c)
                         THEN count[P] ELSE count[P] - 1
    BY OfferedFirst DEF At
  <1>7. LastOffered(c)' = IF /\ pc'[P] \in {"visit", "signal"}
                             /\ \/ pc'[P] = "signal" /\ todo'[P] # << >> /\ Head(todo'[P]) = c
                                \/ ~ On(todo'[P], c)
                          THEN count'[P] ELSE count'[P] - 1
    BY OfferedFirst
  <1>8. ToldFirst(c) <=> /\ pc[P] \in Leaving
                         /\ (pc[P] = "sigmark" /\ todo[P] # << >> /\ Head(todo[P]) = c) \/ ~ On(todo[P], c)
    BY DEF ToldFirst, At
  <1>9. ToldFirst(c)' <=> /\ pc'[P] \in Leaving
                          /\ \/ pc'[P] = "sigmark" /\ todo'[P] # << >> /\ Head(todo'[P]) = c
                             \/ ~ On(todo'[P], c)
    BY DEF ToldFirst, At, On
  <1>10. pc[P] # "done" => Subscribed(c)
    BY <1>1, <1>5 DEF FirstInv
  <1>11. /\ MarkLast(queue[c]) /\ (Marked(queue[c]) => ToldFirst(c))
         /\ Account(Seen(c), refused[c], LastOffered(c))
    BY <1>1 DEF FirstInv, AccountOf
  \* What is left to show of a step that neither offers nor marks.
  <1> DEFINE Same == queue'[c] = queue[c] /\ refused'[c] = refused[c]
             Stay == pc[P] # "done" /\ subs' = subs
  <1>12. ASSUME Same, Stay \/ pc'[P] = "done",
                LastOffered(c)' = LastOffered(c), ToldFirst(c) => ToldFirst(c)'
         PROVE  FirstInv(c)'
    <2>1. pc'[P] # "done" => Subscribed(c)'
      BY <1>10, <1>12 DEF Subscribed
    <2> QED BY <1>1, <1>5, <1>11, <1>12, <2>1, FirstStands
  <1>13. CASE PushLock(P)
    <2>1. /\ pc[P] = "push" /\ pc'[P] = "visit" /\ todo'[P] = subs[In[c]] /\ count' = count
          /\ Stay /\ Same
      BY <1>1, <1>13 DEF PushLock, Goto, shared, history
    <2>2. On(todo'[P], c)
      BY <1>10, <2>1 DEF Subscribed, On
    <2>3. LastOffered(c)' = LastOffered(c)
      BY <1>6, <1>7, <2>1, <2>2
    <2> QED BY <1>8, <1>12, <2>1, <2>3 DEF Leaving
  <1>14. CASE PushEnqueue(P)
    <2>1. /\ pc[P] = "visit" /\ pc'[P] = "signal" /\ todo'[P] = todo[P] /\ todo[P] # << >>
          /\ count' = count /\ Stay /\ refused' = refused
          /\ queue' = [queue EXCEPT ![Head(todo[P])] = Append(queue[Head(todo[P])], count[P])]
      BY <1>1, <1>14 DEF PushEnqueue, Goto, history
    <2>2. CASE Head(todo[P]) # c
      <3>1. Same
        BY <1>1, <2>1, <2>2
      <3>2. LastOffered(c)' = LastOffered(c)
        BY <1>6, <1>7, <2>1, <2>2
      <3> QED BY <1>8, <1>12, <2>1, <3>1, <3>2 DEF Leaving
    <2>3. CASE Head(todo[P]) = c
      <3>1. queue'[c] = Append(queue[c], count[P])
        BY <1>1, <2>1, <2>3
      <3>2. ~ Marked(queue[c])
        BY <1>8, <1>11, <2>1 DEF Leaving
      <3>3. Frames(queue[c]) = queue[c] /\ Frames(queue'[c]) = Append(queue[c], count[P])
        BY <1>1, <3>1, <3>2, FramesUnmarked
      <3>4. got[c] \o Append(queue[c], count[P]) = Append(got[c] \o queue[c], count[P])
        <4>1. got[c] \in Seq(Nat) /\ queue[c] \in Seq(Nat) /\ count[P] \in Nat
          BY <1>1
        <4> QED BY <4>1, AppendBehind, Zenon
      <3>5. LastOffered(c) = count[P] - 1 /\ LastOffered(c)' = count[P]
        BY <1>3, <1>6, <1>7, <2>1, <2>3
      <3>6. got[c] \o queue[c] \in Seq(Nat)
        BY <1>1
      <3>7. Account(got[c] \o queue[c], refused[c], count[P] - 1)
        BY <1>11, <3>3, <3>5 DEF Seen
      <3>8. Account(Append(got[c] \o queue[c], count[P]), refused[c], count[P])
        BY <1>1, <3>6, <3>7, AccountGrows
      <3>9. Seen(c)' = Append(got[c] \o queue[c], count[P])
        BY <1>5, <3>3, <3>4 DEF Seen
      <3>10. ~ Marked(queue'[c])
        <4>1. count[P] # NullOpt
          BY <1>1 DEF NullOpt
        <4>2. \A i \in DOMAIN Append(queue[c], count[P]) :
                 \/ Append(queue[c], count[P])[i] = count[P]
                 \/ i \in DOMAIN queue[c] /\ Append(queue[c], count[P])[i] = queue[c][i]
          <5>1. queue[c] \in Seq(Nat) /\ count[P] \in Nat
            BY <1>1
          <5> QED BY <5>1, AppendKeeps
        <4> QED BY <3>1, <3>2, <4>1, <4>2 DEF Marked
      <3>11. Subscribed(c)'
        BY <1>10, <2>1 DEF Subscribed
      <3> HIDE DEF Account, LastOffered
      <3>12. AccountOf(c)'
        BY <2>1, <3>5, <3>8, <3>9 DEF AccountOf
      <3> QED BY <3>10, <3>11, <3>12 DEF FirstInv, MarkLast, Marked
    <2> QED BY <2>2, <2>3
  <1>15. CASE PushRefused(P)
    <2>1. /\ pc[P] = "visit" /\ pc'[P] = "visit" /\ todo'[P] = Tail(todo[P]) /\ todo[P] # << >>
          /\ count' = count /\ Stay /\ queue' = queue
          /\ refused' = [refused EXCEPT ![Head(todo[P])] = refused[Head(todo[P])] \cup {count[P]}]
      BY <1>1, <1>15 DEF PushRefused, shared
    <2>2. CASE Head(todo[P]) # c
      <3>1. Same
        BY <1>1, <2>1, <2>2
      <3>2. LastOffered(c)' = LastOffered(c)
        BY <1>3, <1>6, <1>7, <2>1, <2>2
      <3> QED BY <1>8, <1>12, <2>1, <3>1, <3>2 DEF Leaving
    <2>3. CASE Head(todo[P]) = c
      <3>1. refused'[c] = refused[c] \cup {count[P]} /\ queue'[c] = queue[c]
        BY <1>1, <2>1, <2>3
      <3>2. LastOffered(c) = count[P] - 1 /\ LastOffered(c)' = count[P]
        BY <1>3, <1>6, <1>7, <2>1, <2>3
      <3>3. Seen(c)' = Seen(c)
        BY <1>5, <3>1 DEF Seen
      <3>4. Seen(c) \in Seq(Nat)
        BY <1>1, FramesType DEF Seen
      <3>5. Account(Seen(c), refused[c] \cup {count[P]}, count[P])
        <4>1. count[P] \in Nat \ {0} /\ Account(Seen(c), refused[c], count[P] - 1)
          BY <1>1, <1>11, <3>2
        <4> QED BY <3>4, <4>1, AccountRefused, Zenon
      <3>6. Subscribed(c)'
        BY <1>10, <2>1 DEF Subscribed
      <3>7. ~ Marked(queue[c])
        BY <1>8, <1>11, <2>1 DEF Leaving
      <3> HIDE DEF Account, LastOffered
      <3>8. AccountOf(c)'
        BY <3>1, <3>2, <3>3, <3>5 DEF AccountOf
      <3> QED BY <1>11, <3>1, <3>6, <3>7, <3>8 DEF FirstInv
    <2> QED BY <2>2, <2>3
  <1>16. CASE PushSignal(P)
    <2>1. /\ pc[P] = "signal" /\ pc'[P] = "visit" /\ todo'[P] = Tail(todo[P]) /\ todo[P] # << >>
          /\ count' = count /\ Stay /\ Same
      BY <1>1, <1>2, <1>16 DEF PushSignal, Goto, history
    <2>2. LastOffered(c)' = LastOffered(c)
      BY <1>3, <1>6, <1>7, <2>1
    <2> QED BY <1>8, <1>12, <2>1, <2>2 DEF Leaving
  <1>17. CASE PushDone(P)
    <2>1. /\ pc[P] = "visit" /\ pc'[P] \in {"term", "push"} /\ todo[P] = << >>
          /\ count'[P] = count[P] + 1 /\ Stay /\ Same
      BY <1>1, <1>17 DEF PushDone, PushUnlock, Goto, history
    <2>2. LastOffered(c)' = LastOffered(c)
      <3>1. LastOffered(c) = count[P]
        BY <1>4, <1>6, <2>1
      <3>2. LastOffered(c)' = count'[P] - 1
        BY <1>7, <2>1
      <3>3. (count[P] + 1) - 1 = count[P]
        BY <1>1
      <3> HIDE DEF LastOffered
      <3> QED BY <2>1, <3>1, <3>2, <3>3
    <2> QED BY <1>8, <1>12, <2>1, <2>2 DEF Leaving
  <1>18. CASE TermBegin(P)
    <2>1. pc[P] = "term" /\ pc'[P] = "flag" /\ count' = count /\ Stay /\ Same
      BY <1>1, <1>18 DEF TermBegin, Goto, shared, history
    <2>2. LastOffered(c)' = LastOffered(c)
      BY <1>6, <1>7, <2>1
    <2> QED BY <1>8, <1>12, <2>1, <2>2 DEF Leaving
  <1>19. CASE TermFlag(P)
    <2>1. pc[P] = "flag" /\ pc'[P] = "mark" /\ todo' = todo /\ count' = count /\ Stay /\ Same
      BY <1>1, <1>19 DEF TermFlag, Goto, history
    <2>2. LastOffered(c)' = LastOffered(c)
      BY <1>6, <1>7, <2>1
    <2> QED BY <1>8, <1>9, <1>12, <2>1, <2>2 DEF Leaving
  <1>20. CASE TermEnqueue(P)
    <2>1. /\ pc[P] = "mark" /\ pc'[P] = "sigmark" /\ todo' = todo /\ todo[P] # << >> /\ Stay
          /\ count' = count /\ refused' = refused
          /\ queue' = [queue EXCEPT ![Head(todo[P])] = Append(queue[Head(todo[P])], NullOpt)]
      BY <1>1, <1>2, <1>20 DEF TermEnqueue, Goto, history
    <2>2. LastOffered(c)' = LastOffered(c)
      BY <1>6, <1>7, <2>1
    <2>3. CASE Head(todo[P]) # c
      <3>1. Same
        BY <1>1, <2>1, <2>3
      <3> QED BY <1>8, <1>9, <1>12, <2>1, <2>2, <2>3, <3>1 DEF Leaving
    <2>4. CASE Head(todo[P]) = c
      <3>1. queue'[c] = Append(queue[c], NullOpt)
        BY <1>1, <2>1, <2>4
      <3>2. ~ Marked(queue[c])
        BY <1>3, <1>8, <1>11, <2>1, <2>4
      <3>3. Frames(queue'[c]) = Frames(queue[c])
        BY <1>1, <3>1, <3>2, FramesUnmarked
      <3>4. MarkLast(queue'[c])
        <4>1. NullOpt \in Nat
          BY DEF NullOpt
        <4>2. /\ \A i \in DOMAIN Append(queue[c], NullOpt) :
                    \/ i = Len(queue[c]) + 1
                    \/ i \in DOMAIN queue[c] /\ Append(queue[c], NullOpt)[i] = queue[c][i]
              /\ Len(Append(queue[c], NullOpt)) = Len(queue[c]) + 1
          BY <1>1, <4>1, AppendKeeps
        <4> QED BY <3>1, <3>2, <4>2 DEF MarkLast, Marked
      <3>5. ToldFirst(c)'
        BY <1>9, <2>1, <2>4 DEF Leaving
      <3>6. Subscribed(c)'
        BY <1>10, <2>1 DEF Subscribed
      <3>7. Seen(c)' = Seen(c)
        BY <1>5, <3>3 DEF Seen
      <3> HIDE DEF Account, LastOffered
      <3>8. AccountOf(c)'
        BY <1>11, <2>1, <2>2, <3>7 DEF AccountOf
      <3> QED BY <3>4, <3>5, <3>6, <3>8 DEF FirstInv
    <2> QED BY <2>3, <2>4
  <1>21. CASE TermRefused(P) \/ TermSignal(P)
    <2>1. /\ pc[P] \in {"mark", "sigmark"} /\ pc'[P] = "flag" /\ todo'[P] = Tail(todo[P])
          /\ todo[P] # << >> /\ count' = count /\ Stay /\ Same
      BY <1>1, <1>2, <1>21 DEF TermRefused, TermSignal, Goto, shared, history
    <2>2. LastOffered(c)' = LastOffered(c)
      BY <1>6, <1>7, <2>1
    <2> QED BY <1>3, <1>8, <1>9, <1>12, <2>1, <2>2 DEF Leaving
  <1>22. CASE TermEnd(P)
    <2>1. pc[P] = "flag" /\ pc'[P] = "done" /\ todo' = todo /\ count' = count /\ Same
      BY <1>1, <1>22 DEF TermEnd, Goto, history
    <2>2. LastOffered(c)' = LastOffered(c)
      BY <1>6, <1>7, <2>1
    <2> QED BY <1>8, <1>9, <1>12, <2>1, <2>2 DEF Leaving
  <1> QED BY <1>1, <1>13, <1>14, <1>15, <1>16, <1>17, <1>18, <1>19, <1>20, <1>21, <1>22
          DEF QROFeed, PushFrame, AnswerDone, TermVisit

(***************************************************************************)
(* The invariant of the order.                                             *)
(***************************************************************************)
LEMMA OrderInit == QROInit => OrderInv
  <1> SUFFICES ASSUME QROInit PROVE OrderInv
    OBVIOUS
  <1>1. /\ AnswerInv
        /\ pc = [t \in Threads |-> IF t = Producer THEN "barrier" ELSE "start"]
        /\ count = [t \in Feeders |-> 1] /\ todo = [t \in Feeders |-> << >>]
        /\ queue = [c \in Consumers |-> << >>] /\ got = [c \in Consumers |-> << >>]
        /\ terminated = [c \in Consumers |-> FALSE] /\ refused = [c \in Consumers |-> {}]
    BY AnswerInit DEF QROInit, Init
  <1>2. /\ Producer \in Feeders /\ N \in Nat \ {0} /\ count[Producer] = 1
        /\ \A t \in Threads : pc[t] \in {"barrier", "start"}
        /\ \A c \in Consumers : pc[c] = "start"
    BY <1>1, WhoIsWho
  <1>3. ProducerInLoop /\ count[Producer] <= N + 1
    BY <1>2 DEF ProducerInLoop
  <1>4. ASSUME NEW c \in Consumers PROVE EndOf(c)
    <2>1. /\ pc[c] = "start" /\ pc[Feeder(In[c])] \in {"barrier", "start"}
          /\ queue[c] = << >> /\ ~ terminated[c]
      BY <1>1, <1>2, TwoStreams
    <2> QED BY <2>1 DEF EndOf, At, Marked, Closed, Ended
  <1>5. ASSUME NEW c \in FirstAudience PROVE FirstInv(c)
    <2>1. /\ c \in Consumers /\ pc[c] = "start" /\ queue[c] = << >> /\ got[c] = << >> /\ refused[c] = {}
          /\ pc[Producer] \in {"barrier", "start"}
      BY <1>1, <1>2, TwoStreams, WhoIsWho
    <2>2. MarkLast(queue[c]) /\ ~ Marked(queue[c])
      BY <2>1 DEF MarkLast, Marked
    <2>3. LastOffered(c) = 0
      BY <1>2, <2>1, OfferedFirst
    <2>4. Seen(c) = << >>
      <3>1. Frames(<< >>) = << >> /\ << >> \o << >> = << >>
        BY DEF Frames
      <3> QED BY <2>1, <3>1 DEF Seen
    <2>5. Account(<< >>, {}, 0)
      BY DEF Account
    <2>6. AccountOf(c)
      BY <2>1, <2>3, <2>4, <2>5 DEF AccountOf
    <2> QED BY <2>1, <2>2, <2>6 DEF FirstInv
  <1> QED BY <1>1, <1>3, <1>4, <1>5 DEF OrderInv

LEMMA OrderStep == OrderInv /\ [QRONext]_qroVars => OrderInv'
  <1> SUFFICES ASSUME OrderInv, [QRONext]_qroVars PROVE OrderInv'
    OBVIOUS
  <1>1. AnswerInv'
    BY AnswerStep DEF OrderInv
  <1>2. /\ Base /\ terminated \in [Consumers -> BOOLEAN] /\ todo \in [Feeders -> Seq(Consumers)]
        /\ Producer \in Threads /\ Producer \in Feeders /\ Producer \notin Consumers
        /\ ProducerInLoop /\ count[Producer] <= N + 1
    BY OrderTypes, WhoIsWho DEF OrderInv
  <1>3. FirstAudience' = FirstAudience
    BY DEF FirstAudience
  <1>4. SUFFICES /\ terminated' \in [Consumers -> BOOLEAN]
                 /\ ProducerInLoop' /\ count'[Producer] <= N + 1
                 /\ \A c \in Consumers : EndOf(c)'
                 /\ \A c \in FirstAudience : FirstInv(c)'
    BY <1>1, <1>3 DEF OrderInv
  <1>5. CASE QROMainReturn \/ WorkerDies \/ UNCHANGED qroVars
    <2>1. UNCHANGED <<pc, todo, subs, queue, terminated, refused, got, count>>
      BY <1>5, RestFrame
    <2>2. ASSUME NEW c \in Consumers PROVE EndOf(c)'
      BY <2>1 DEF OrderInv, EndOf, At, Marked, Closed, Ended
    <2>3. ASSUME NEW c \in FirstAudience PROVE FirstInv(c)'
      <3>1. FirstInv(c) /\ MarkLast(queue[c])
        BY DEF OrderInv, FirstInv
      <3>2. LastOffered(c)' = LastOffered(c) /\ (ToldFirst(c) => ToldFirst(c)')
        BY <2>1, OfferedFirst DEF ToldFirst, At, On
      <3>3. pc'[c] # "start" /\ pc'[Producer] # "done" => Subscribed(c)'
        BY <2>1, <3>1 DEF FirstInv, Subscribed
      <3> QED BY <2>1, <3>1, <3>2, <3>3, FirstStands
    <2> QED BY <1>2, <2>1, <2>2, <2>3 DEF ProducerInLoop
  <1>6. ASSUME NEW t \in Threads, Begin(t)
        PROVE  /\ terminated' \in [Consumers -> BOOLEAN]
               /\ ProducerInLoop' /\ count'[Producer] <= N + 1
               /\ \A c \in Consumers : EndOf(c)'
               /\ \A c \in FirstAudience : FirstInv(c)'
    <2>1. terminated' = terminated
      BY <1>2, <1>6, BeginFrame
    <2> QED BY <1>2, <1>6, <2>1, ProducerBegins, EndBegins, FirstBegins
  <1>7. ASSUME NEW d \in Consumers, Listens(d)
        PROVE  /\ terminated' \in [Consumers -> BOOLEAN]
               /\ ProducerInLoop' /\ count'[Producer] <= N + 1
               /\ \A c \in Consumers : EndOf(c)'
               /\ \A c \in FirstAudience : FirstInv(c)'
    <2>1. terminated' = terminated /\ count'[Producer] = count[Producer] /\ pc'[Producer] = pc[Producer]
      BY <1>2, <1>7, ListenFrame
    <2>2. ProducerInLoop'
      BY <1>2, <2>1 DEF ProducerInLoop
    <2> QED BY <1>2, <1>7, <2>1, <2>2, EndListens, FirstListens
  <1>8. ASSUME NEW t \in Feeders, QROFeed(t)
        PROVE  /\ terminated' \in [Consumers -> BOOLEAN]
               /\ ProducerInLoop' /\ count'[Producer] <= N + 1
               /\ \A c \in Consumers : EndOf(c)'
               /\ \A c \in FirstAudience : FirstInv(c)'
    <2>1. terminated' = terminated \/ \E c : terminated' = [terminated EXCEPT ![c] = TRUE]
      BY <1>8 DEF QROFeed, PushFrame, PushLock, PushEnqueue, PushRefused, PushSignal, PushDone,
                  PushUnlock, AnswerDone, TermBegin, TermVisit, TermFlag, TermEnqueue, TermRefused,
                  TermSignal, TermEnd, shared
    <2>2. terminated' \in [Consumers -> BOOLEAN]
      BY <1>2, <2>1
    <2>3. \A c \in FirstAudience : FirstInv(c)'
      BY <1>8, FirstFeedsOwn, FirstFeedsOther
    <2> QED BY <1>8, <2>2, <2>3, ProducerFeeds, EndFeeds
  <1>9. ASSUME NEW t \in Threads, QROStep(t)
        PROVE  \/ Begin(t)
               \/ t \in Consumers /\ Listens(t)
               \/ t \in Feeders /\ QROFeed(t)
    BY <1>9, TransformerIs DEF QROStep, Listens
  <1> QED BY <1>5, <1>6, <1>7, <1>8, <1>9 DEF QRONext

\* Both streams: who has been told of the end, and what each consumer of the first one
\* has seen, together with what AnswerInv says of the second.
THEOREM OrderInvariance == QROSafety => []OrderInv
  BY OrderInit, OrderStep, PTL DEF QROSafety

(***************************************************************************)
(* The steps of the promise.                                               *)
(***************************************************************************)
LEMMA SeenMembers ==
    ASSUME OrderInv, NEW c \in Consumers
    PROVE  /\ Seen(c) \in Seq(Nat) /\ Frames(queue[c]) \in Seq(Nat)
           /\ Members(got[c]) \subseteq Members(Seen(c))
  <1>1. got[c] \in Seq(Nat) /\ Frames(queue[c]) \in Seq(Nat)
    BY OrderTypes, FramesType
  <1> DEFINE g == got[c]
             q == Frames(queue[c])
  <1> HIDE DEF g, q
  <1>2. g \in Seq(Nat) /\ q \in Seq(Nat)
    BY <1>1 DEF g, q
  <1>3. g \o q \in Seq(Nat) /\ \A i \in DOMAIN g : i \in DOMAIN (g \o q) /\ (g \o q)[i] = g[i]
    BY <1>2
  <1>4. Members(g) \subseteq Members(g \o q)
    BY <1>3 DEF Members
  <1> QED BY <1>2, <1>3, <1>4 DEF g, q, Seen

\* The ids of the first stream are those of the producer.
LEMMA FirstFits ==
    ASSUME OrderInv, NEW c \in FirstAudience
    PROVE  /\ LastOffered(c) <= N
           /\ \A x \in Members(Seen(c)) : x \in 1 .. N /\ x <= LastOffered(c)
  <1>1. /\ Account(Seen(c), refused[c], LastOffered(c))
        /\ count[Producer] \in Nat \ {0} /\ N \in Nat /\ count[Producer] <= N + 1 /\ ProducerInLoop
    BY OrderTypes, WhoIsWho DEF OrderInv, FirstInv, AccountOf
  <1>2. LastOffered(c) \in Nat /\ LastOffered(c) <= N
    BY <1>1, OfferedFirst DEF ProducerInLoop
  <1>3. \A x \in Members(Seen(c)) : x \in 1 .. LastOffered(c)
    BY <1>1 DEF Account, Members
  <1>4. \A b \in Nat : \A x \in 1 .. b : b <= N => x \in 1 .. N /\ x <= b
    BY <1>1
  <1> HIDE DEF LastOffered
  <1> QED BY <1>2, <1>3, <1>4

\* The frame that a feeder puts into a queue is behind all that were there.
LEMMA BehindAll ==
    ASSUME OrderInv, NEW t \in Feeders, pc[t] = "visit", todo[t] # << >>
    PROVE  /\ Head(todo[t]) \in Consumers
           /\ count[t] \in 1 .. N
           /\ \A x \in Members(Seen(Head(todo[t]))) : x < count[t]
  <1> DEFINE c == Head(todo[t])
  <1>1. /\ c \in Consumers /\ In[c] = Out[t] /\ On(todo[t], c)
        /\ count[t] \in Nat \ {0} /\ N \in Nat
    <2>1. todo[t] \in Seq(Consumers) /\ \A i \in DOMAIN todo[t] : In[todo[t][i]] = Out[t]
      BY OrderTypes DEF Base, Walks, Walk
    <2>2. c \in Consumers /\ 1 \in DOMAIN todo[t] /\ c = todo[t][1]
      BY <2>1, HeadAndTail
    <2> QED BY <2>1, <2>2, OrderTypes DEF On
  <1> HIDE DEF c
  <1>2. CASE t = Producer
    <2>1. c \in FirstAudience
      BY <1>1, <1>2 DEF FirstAudience
    <2>2. LastOffered(c) = count[t] - 1
      BY <1>1, <1>2, <2>1, OfferedFirst DEF At
    <2>3. count[t] <= N
      BY <1>2 DEF OrderInv, ProducerInLoop
    <2>4. \A x \in Members(Seen(c)) : x \in 1 .. N /\ x <= count[t] - 1
      BY <2>1, <2>2, FirstFits
    <2>5. \A x \in 1 .. N : x <= count[t] - 1 => x < count[t]
      BY <1>1
    <2> QED BY <1>1, <2>3, <2>4, <2>5 DEF c
  <1>3. CASE t = Transformer
    <2>1. c \in Audience
      BY <1>1, <1>3 DEF Audience
    <2>2. /\ received \in Seq(FrameIds) /\ received # << >> /\ Sorted(received)
          /\ count[t] = received[Len(received)]
          /\ Members(received) \subseteq Members(got[Transformer])
      BY <1>3, OrderTypes DEF LinkInv
    <2>3. Given(c) = SubSeq(received, 1, Len(received) - 1)
      BY <1>1, <1>3, OfferPlace DEF Given
    <2>4. Members(Seen(c)) \subseteq Members(Given(c))
      BY <2>1 DEF OrderInv, AnswerInv, AudienceInv, Balance
    <2>5. /\ Members(received) = Members(Given(c)) \cup {count[t]}
          /\ \A x \in Members(Given(c)) : x < count[t]
      BY <2>2, <2>3, LastAnswer
    <2>6. Members(got[Transformer]) \subseteq Members(Seen(Transformer)) /\ Transformer \in FirstAudience
      BY SeenMembers, TwoStreams, TransformerIs
    <2>7. count[t] \in 1 .. N
      BY <2>2, <2>5, <2>6, FirstFits
    <2> QED BY <1>1, <2>4, <2>5, <2>7 DEF c
  <1> QED BY <1>2, <1>3, TransformerIs

\* A step that leaves the frames, what was handed out, and the ends alone.
LEMMA QROPromiseStutters ==
    ASSUME got' = got, terminated' = terminated,
           \A c \in Consumers : Frames(queue'[c]) = Frames(queue[c]),
           \A c \in Consumers : Closed(c)' <=> Closed(c)
    PROVE  UNCHANGED QROPromise!vars
  <1>1. [c \in Consumers |-> Closed(c)'] = [c \in Consumers |-> Closed(c)]
    BY DEF Closed
  <1> HIDE DEF Frames
  <1>2. [c \in Consumers |-> Frames(queue'[c])] = [c \in Consumers |-> Frames(queue[c])]
    OBVIOUS
  <1>3. [c \in Consumers |-> Frames(queue[c])'] = [c \in Consumers |-> Frames(queue'[c])]
    BY DEF Frames
  <1> QED BY <1>1, <1>2, <1>3 DEF QROPromise!vars, Closed

\* A step with which c comes to the end of its loop.
LEMMA OneMoreClosed ==
    ASSUME NEW c \in Consumers, Closed(c)',
           \A d \in Consumers : d # c => (Closed(d)' <=> Closed(d))
    PROVE  [d \in Consumers |-> Closed(d)'] = [[d \in Consumers |-> Closed(d)] EXCEPT ![c] = TRUE]
  <1> DEFINE old == [[d \in Consumers |-> Closed(d)] EXCEPT ![c] = TRUE]
             new == [d \in Consumers |-> Closed(d)']
  <1>1. Closed(c)' = TRUE
    BY DEF Closed
  <1>2. \A d \in Consumers : d # c => Closed(d)' = Closed(d)
    BY DEF Closed
  <1>3. \A d \in Consumers : new[d] = old[d]
    BY <1>1, <1>2
  <1>4. new = [d \in Consumers |-> new[d]] /\ old = [d \in Consumers |-> old[d]]
    OBVIOUS
  <1> QED BY <1>3, <1>4

\* Taking a frame is Deliver; taking the empty optional, or finding the queue of a
\* terminated subscription empty, is Close.
LEMMA ListenPromise ==
    ASSUME OrderInv, NEW c \in Consumers, Listens(c)
    PROVE  [QROPromise!Next]_(QROPromise!vars)
  <1>1. /\ Base /\ EndOf(c) /\ c \in Threads /\ Consumers \subseteq Threads
        /\ pc \in [Threads -> QROPlaces]
        /\ queue \in [Consumers -> Seq(Nat)] /\ queue[c] \in Seq(Nat) /\ MarkLast(queue[c])
        /\ got \in [Consumers -> Seq(FrameIds)]
    BY OrderTypes, TwoStreams
  <1>2. /\ \A u \in Threads : u # c => pc'[u] = pc[u]
        /\ terminated' = terminated
        /\ TakesOne(c) \/ TakesNone(c)
        /\ AfterLoop(c) \in {"term", "done"}
    BY <1>1, ListenFrame
  <1>3. \A d \in Consumers : d # c => (Closed(d)' <=> Closed(d))
    BY <1>1, <1>2 DEF Closed, Ended
  <1>4. \A d \in Consumers : d # c => queue'[d] = queue[d]
    BY <1>1, <1>2 DEF TakesOne, TakesNone
  <1>5. CASE TakesOne(c) /\ Head(queue[c]) # NullOpt
    <2>1. /\ queue[c] # << >> /\ ~ Closed(c) /\ ~ Closed(c)'
          /\ got' = [got EXCEPT ![c] = Append(got[c], Head(queue[c]))]
          /\ queue'[c] = Tail(queue[c])
      BY <1>1, <1>5 DEF TakesOne, Closed, Ended
    <2>2. [d \in Consumers |-> Closed(d)'] = [d \in Consumers |-> Closed(d)]
      <3>1. \A d \in Consumers : Closed(d)' <=> Closed(d)
        BY <1>3, <2>1
      <3> QED BY <3>1 DEF Closed
    <2>3. /\ Frames(queue[c]) # << >> /\ Head(Frames(queue[c])) = Head(queue[c])
          /\ Frames(queue'[c]) = Tail(Frames(queue[c]))
      BY <1>1, <1>5, <2>1, FramesHead
    <2>4. [d \in Consumers |-> Frames(queue'[d])]
              = [[d \in Consumers |-> Frames(queue[d])] EXCEPT ![c] = Tail(Frames(queue[c]))]
      BY <1>4, <2>3, OneQueue
    <2>5. [d \in Consumers |-> Frames(queue[d])'] = [d \in Consumers |-> Frames(queue'[d])]
      BY DEF Frames
    <2> HIDE DEF Frames
    <2>6. QROPromise!Deliver(c)
      BY <1>1, <1>2, <2>1, <2>2, <2>3, <2>4, <2>5 DEF QROPromise!Deliver, Closed
    <2> QED BY <2>6 DEF QROPromise!Next, QROPromise!Answer
  <1>6. ~ (TakesOne(c) /\ Head(queue[c]) # NullOpt) =>
           got' = got /\ Frames(queue'[c]) = Frames(queue[c])
    <2>1. CASE TakesOne(c) /\ Head(queue[c]) = NullOpt
      <3>1. queue[c] # << >> /\ queue'[c] = Tail(queue[c]) /\ got' = got
        BY <1>1, <2>1 DEF TakesOne
      <3> QED BY <1>1, <2>1, <3>1, FramesOver
    <2>2. CASE TakesNone(c)
      BY <2>2 DEF TakesNone
    <2> QED BY <1>2, <2>1, <2>2
  <1>7. CASE ~ (TakesOne(c) /\ Head(queue[c]) # NullOpt) /\ Closed(c)' /\ ~ Closed(c)
    <2>1. terminated[c] /\ Frames(queue[c]) = << >>
      <3>1. CASE TakesOne(c)
        <4>1. queue[c] # << >> /\ Head(queue[c]) = NullOpt
          BY <1>7, <3>1 DEF TakesOne
        <4>2. Marked(queue[c])
          BY <1>1, <4>1, HeadAndTail DEF Marked
        <4> QED BY <1>1, <4>1, <4>2, FramesOver DEF EndOf
      <3>2. CASE TakesNone(c)
        <4>1. pc[c] = "peek" /\ queue[c] = << >>
          BY <1>7, <3>2 DEF TakesNone, Closed, Ended
        <4> QED BY <1>1, <4>1 DEF EndOf, Frames
      <3> QED BY <1>2, <3>1, <3>2
    <2>2. [d \in Consumers |-> Closed(d)'] = [[d \in Consumers |-> Closed(d)] EXCEPT ![c] = TRUE]
      BY <1>3, <1>7, OneMoreClosed
    <2>3. [d \in Consumers |-> Frames(queue[d])'] = [d \in Consumers |-> Frames(queue[d])]
      BY <1>4, <1>6, <1>7 DEF Frames
    <2> HIDE DEF Frames
    <2>4. QROPromise!Close(c)
      BY <1>2, <1>6, <1>7, <2>1, <2>2, <2>3 DEF QROPromise!Close, Closed
    <2> QED BY <2>4 DEF QROPromise!Next, QROPromise!Answer
  <1>8. CASE ~ (TakesOne(c) /\ Head(queue[c]) # NullOpt) /\ (~ Closed(c)' \/ Closed(c))
    <2>1. Closed(c) => Closed(c)'
      BY <1>2 DEF TakesOne, TakesNone, Closed, Ended
    <2>2. \A d \in Consumers : Closed(d)' <=> Closed(d)
      BY <1>3, <1>8, <2>1
    <2>3. \A d \in Consumers : Frames(queue'[d]) = Frames(queue[d])
      BY <1>4, <1>6, <1>8
    <2> QED BY <1>2, <1>6, <1>8, <2>2, <2>3, QROPromiseStutters
  <1> QED BY <1>5, <1>7, <1>8

\* An element that is queued is Publish, setting m_terminated is Terminate; the empty
\* optional is no frame.
LEMMA QROFeedPromise ==
    ASSUME OrderInv, NEW t \in Feeders, QROFeed(t)
    PROVE  [QROPromise!Next]_(QROPromise!vars)
  <1> DEFINE c == Head(todo[t])
  <1>1. /\ t \in Threads /\ queue \in [Consumers -> Seq(Nat)] /\ got \in [Consumers -> Seq(FrameIds)]
        /\ todo[t] \in Seq(Consumers) /\ count[t] \in Nat \ {0} /\ N \in Nat
        /\ pc \in [Threads -> QROPlaces]
    BY OrderTypes, WhoIsWho
  <1>2. /\ got' = got
        /\ \A u \in Threads : u # t => pc'[u] = pc[u]
        /\ t # Producer => (Closed(t)' <=> Closed(t))
        /\ pc[t] \in {"signal", "mark", "sigmark"} => todo[t] # << >>
        /\ todo[t] # << >> => c \in Consumers /\ Feeder(In[c]) = t
    BY FeedsOne
  <1>3. \A d \in Consumers : Closed(d)' <=> Closed(d)
    <2>1. \A d \in Consumers : d \in Threads /\ d # Producer
      BY TwoStreams
    <2> QED BY <1>2, <2>1 DEF Closed, Ended
  <1>4. [d \in Consumers |-> Closed(d)'] = [d \in Consumers |-> Closed(d)]
    BY <1>3 DEF Closed
  <1>5. [d \in Consumers |-> Frames(queue[d])'] = [d \in Consumers |-> Frames(queue'[d])]
    BY DEF Frames
  <1>6. CASE PushEnqueue(t)
    <2>1. /\ pc[t] = "visit" /\ todo[t] # << >> /\ terminated' = terminated
          /\ queue' = [queue EXCEPT ![c] = Append(@, count[t])]
      BY <1>6 DEF PushEnqueue
    <2>2. c \in Consumers /\ Feeder(In[c]) = t /\ EndOf(c)
      BY <1>2, <2>1, OrderTypes
    <2>3. count[t] \in 1 .. N /\ \A x \in Members(Seen(c)) : x < count[t]
      BY <2>1, BehindAll
    <2> HIDE DEF c
    <2>4. ~ terminated[c] /\ ~ Marked(queue[c])
      BY <2>1, <2>2 DEF EndOf, Leaving
    <2>5. queue[c] \in Seq(Nat) /\ queue'[c] = Append(queue[c], count[t])
      BY <1>1, <2>1, <2>2
    <2>6. Frames(queue[c]) = queue[c] /\ Frames(queue'[c]) = Append(queue[c], count[t])
      BY <1>1, <2>4, <2>5, FramesUnmarked
    <2>7. Seen(c) = got[c] \o queue[c] /\ Seen(c) \in Seq(Nat)
      BY <2>2, <2>6, SeenMembers DEF Seen
    <2>8. Seen(c) # << >> => count[t] \in (Seen(c)[Len(Seen(c))] + 1) .. N
      <3> SUFFICES ASSUME Seen(c) # << >>
                   PROVE  count[t] \in (Seen(c)[Len(Seen(c))] + 1) .. N
        OBVIOUS
      <3> DEFINE x == Seen(c)[Len(Seen(c))]
      <3>1. Len(Seen(c)) \in DOMAIN Seen(c) /\ x \in Nat
        BY <2>7, LastOfSeen
      <3>2. x < count[t]
        BY <2>3, <3>1 DEF Members
      <3> HIDE DEF x
      <3>3. count[t] \in x + 1 .. N
        BY <1>1, <2>3, <3>1, <3>2
      <3> QED BY <3>3 DEF x
    <2>9. count[t] \in QROPromise!Acceptable(c)
      BY <2>2, <2>3, <2>6, <2>7, <2>8 DEF QROPromise!Acceptable, QROPromise!Last
    <2>10. [d \in Consumers |-> Frames(queue'[d])]
               = [[d \in Consumers |-> Frames(queue[d])] EXCEPT ![c] = Append(@, count[t])]
      <3>1. \A d \in Consumers : d # c => queue'[d] = queue[d]
        BY <1>1, <2>1
      <3>2. [d \in Consumers |-> Frames(queue'[d])]
               = [[d \in Consumers |-> Frames(queue[d])] EXCEPT ![c] = Append(queue[c], count[t])]
        BY <2>2, <2>6, <3>1, OneQueue
      <3> HIDE DEF Frames
      <3> QED BY <2>2, <2>6, <3>2
    <2> HIDE DEF Frames
    <2>11. QROPromise!Publish(c)
      BY <1>2, <1>4, <1>5, <2>1, <2>2, <2>4, <2>9, <2>10 DEF QROPromise!Publish, Closed
    <2> QED BY <2>2, <2>11 DEF QROPromise!Next
  <1>7. CASE TermFlag(t)
    <2>1. /\ todo[t] # << >> /\ queue' = queue
          /\ terminated' = [terminated EXCEPT ![c] = TRUE]
      BY <1>7 DEF TermFlag
    <2>2. c \in Consumers
      BY <1>2, <2>1
    <2>3. QROPromise!Terminate(c)
      BY <1>2, <1>4, <1>5, <2>1 DEF QROPromise!Terminate, Closed
    <2> QED BY <2>2, <2>3 DEF QROPromise!Next
  <1>8. CASE TermEnqueue(t)
    <2>1. /\ pc[t] = "mark" /\ todo[t] # << >> /\ terminated' = terminated
          /\ queue' = [queue EXCEPT ![c] = Append(@, NullOpt)]
      BY <1>2, <1>8 DEF TermEnqueue
    <2>2. /\ c \in Consumers /\ Feeder(In[c]) = t /\ queue[c] \in Seq(Nat)
          /\ 1 \in DOMAIN todo[t] /\ todo[t][1] = c
      BY <1>1, <1>2, <2>1, HeadAndTail
    <2> HIDE DEF c
    <2>3. ~ Marked(queue[c])
      <3>1. CASE c \in FirstAudience
        BY <2>1, <2>2, <3>1, TwoStreams DEF OrderInv, FirstInv, ToldFirst, At, On
      <3>2. CASE c \in Audience
        BY <2>1, <2>2, <3>2, TwoStreams DEF OrderInv, AnswerInv, AudienceInv, Told, At, On
      <3> QED BY <2>2, <3>1, <3>2, TwoStreams
    <2>4. Frames(queue'[c]) = Frames(queue[c])
      <3>1. queue'[c] = Append(queue[c], NullOpt)
        BY <1>1, <2>1, <2>2
      <3> QED BY <2>2, <2>3, <3>1, FramesUnmarked
    <2>5. \A d \in Consumers : Frames(queue'[d]) = Frames(queue[d])
      <3>1. \A d \in Consumers : d # c => queue'[d] = queue[d]
        BY <1>1, <2>1
      <3> QED BY <2>4, <3>1
    <2> QED BY <1>2, <1>3, <2>1, <2>5, QROPromiseStutters
  <1>9. CASE \/ PushLock(t) \/ PushRefused(t) \/ PushSignal(t) \/ PushDone(t) \/ AnswerDone(t)
             \/ TermBegin(t) \/ TermRefused(t) \/ TermSignal(t) \/ TermEnd(t)
    <2>1. UNCHANGED <<queue, terminated>>
      BY <1>9 DEF PushLock, PushRefused, PushSignal, PushDone, PushUnlock, AnswerDone, TermBegin,
                  TermRefused, TermSignal, TermEnd, shared
    <2> QED BY <1>2, <1>3, <2>1, QROPromiseStutters
  <1> QED BY <1>6, <1>7, <1>8, <1>9 DEF QROFeed, PushFrame, TermVisit

\* The streams of qro/ implement the safe part of the stream's promise, although
\* terminate() takes no lock and the frames of the second stream are pushed from an
\* event loop, out of the transformer's own loop, whenever the worker answers: each
\* subscription gets ids in order and once, and nothing after the end.
THEOREM QROIsLossyStream == QROSafety => KeepsOrder
  <1>1. QROInit => QROPromise!Init
    <2> SUFFICES ASSUME QROInit PROVE QROPromise!Init
      OBVIOUS
    <2>1. \A c \in Consumers : Closed(c) = FALSE /\ Frames(queue[c]) = << >>
      BY WhoIsWho DEF QROInit, Init, Closed, Ended, Frames
    <2>2. /\ [c \in Consumers |-> Closed(c)] = [c \in Consumers |-> FALSE]
          /\ [c \in Consumers |-> Frames(queue[c])] = [c \in Consumers |-> << >>]
      BY <2>1
    <2> QED BY <2>2 DEF QROInit, Init, QROPromise!Init, Closed
  <1>2. OrderInv /\ [QRONext]_qroVars => [QROPromise!Next]_(QROPromise!vars)
    <2> SUFFICES ASSUME OrderInv, [QRONext]_qroVars
                 PROVE  [QROPromise!Next]_(QROPromise!vars)
      OBVIOUS
    <2>1. CASE QROMainReturn \/ WorkerDies \/ UNCHANGED qroVars
      <3>1. UNCHANGED <<pc, queue, terminated, got>>
        BY <2>1, RestFrame
      <3> QED BY <3>1, QROPromiseStutters DEF Closed, Ended
    <2>2. ASSUME NEW t \in Threads, Begin(t)
          PROVE  UNCHANGED QROPromise!vars
      <3>1. Base
        BY OrderTypes
      <3>2. /\ UNCHANGED <<queue, terminated, got>>
            /\ \A u \in Threads :
                  \/ pc'[u] = pc[u]
                  \/ /\ pc[u] \in {"start", "barrier", "parked"}
                     /\ pc'[u] \in {"barrier", "parked", Behind(u)}
            /\ \A c \in Consumers : c \in Threads /\ Behind(c) = "next"
        BY <2>2, <3>1, BeginFrame, WhoIsWho
      <3>3. \A c \in Consumers : Closed(c)' <=> Closed(c)
        BY <3>2 DEF Closed, Ended
      <3> QED BY <3>2, <3>3, QROPromiseStutters
    <2>3. ASSUME NEW t \in Threads, QROStep(t)
          PROVE  \/ Begin(t)
                 \/ t \in Consumers /\ Listens(t)
                 \/ t \in Feeders /\ QROFeed(t)
      BY <2>3, TransformerIs DEF QROStep, Listens
    <2> QED BY <2>1, <2>2, <2>3, ListenPromise, QROFeedPromise DEF QRONext
  <1> QED BY <1>1, <1>2, OrderInvariance, PTL DEF QROSafety, KeepsOrder, QROPromise!Safety
=============================================================================
