-------------------------- MODULE WorkerLinkProofs --------------------------
(***************************************************************************)
(* Proofs about WorkerLink for every number of frames.                     *)
(***************************************************************************)
EXTENDS WorkerLink, Integers, SequenceTheorems, WellFoundedInduction, TLAPS

\* The client has attached the worker's segment before it has an answer in its hand,
\* and nobody makes a segment behind the end of the link.
SegmentInv ==
    /\ back \in {"connect", "events", "wait"}
    /\ pc = "receive" => "out" \in attached
    /\ received # << >> => "out" \in attached
    /\ pc = "closed" => /\ wpc = "gone"
                        /\ "in" \notin files
                        /\ "out" \in files => "out" \notin attached

LEMMA InitSegmentInv == Init => SegmentInv
  BY DEF Init, SegmentInv

LEMMA ClientKeepsSegmentInv ==
    ASSUME SegmentInv, Client
    PROVE  SegmentInv'
  <1> USE DEF SegmentInv, worker, channel, memory, history
  <1>1. CASE Notice
    BY <1>1 DEF Notice
  <1>2. CASE Connected
    BY <1>2 DEF Connected
  <1>3. CASE NextFrame
    BY <1>3 DEF NextFrame
  <1>4. CASE EventsDone
    BY <1>4 DEF EventsDone
  <1>5. CASE WriteHalf
    BY <1>5 DEF WriteHalf
  <1>6. CASE CreateFails
    BY <1>6 DEF CreateFails
  <1>7. CASE WriteRest
    BY <1>7 DEF WriteRest
  <1>8. CASE Call
    BY <1>8 DEF Call
  <1>9. CASE CallFails
    BY <1>9 DEF CallFails
  <1>10. CASE HandleReply
    BY <1>10 DEF HandleReply, InEvents
  <1>11. CASE HandleSignal
    BY <1>11 DEF HandleSignal, InEvents
  <1>12. CASE AttachFails
    BY <1>12 DEF AttachFails
  <1>13. CASE Receive
    BY <1>13 DEF Receive
  <1>14. CASE WaitDone
    BY <1>14 DEF WaitDone
  <1>15. CASE TimeOut
    BY <1>15 DEF TimeOut
  <1>16. CASE Close
    BY <1>16 DEF Close
  <1> QED BY <1>1, <1>2, <1>3, <1>4, <1>5, <1>6, <1>7, <1>8, <1>9, <1>10, <1>11, <1>12,
             <1>13, <1>14, <1>15, <1>16 DEF Client

LEMMA WorkerKeepsSegmentInv ==
    ASSUME SegmentInv, Worker \/ Die
    PROVE  SegmentInv'
  <1> USE DEF SegmentInv, client, channel, memory, history
  <1>1. CASE Start
    BY <1>1 DEF Start
  <1>2. CASE TakeCall
    BY <1>2 DEF TakeCall
  <1>3. CASE Enqueue
    BY <1>3 DEF Enqueue
  <1>4. CASE TakeFrame
    BY <1>4 DEF TakeFrame
  <1>5. CASE WriteAnswer
    BY <1>5 DEF WriteAnswer
  <1>6. CASE SendAnswer
    BY <1>6 DEF SendAnswer
  <1>7. CASE Die
    BY <1>7 DEF Die
  <1> QED BY <1>1, <1>2, <1>3, <1>4, <1>5, <1>6, <1>7 DEF Worker

\* The segments on either side, at every step of client and worker.
THEOREM SegmentInvariance == Safety => []SegmentInv
  <1>1. SegmentInv /\ [Next]_vars => SegmentInv'
    <2> SUFFICES ASSUME SegmentInv, [Next]_vars
                 PROVE  SegmentInv'
      OBVIOUS
    <2>1. CASE UNCHANGED vars
      BY <2>1 DEF SegmentInv, vars, client, worker, memory, history
    <2> QED BY <2>1, ClientKeepsSegmentInv, WorkerKeepsSegmentInv DEF Next
  <1> QED BY <1>1, InitSegmentInv, PTL DEF Safety

\* A client that has come to its end leaves no segment of shared memory behind but that
\* of a worker it never had an answer from (~WorkerConnector and ~SharedMemory).
THEOREM NothingStays == Safety => []NoSegmentLeft
  <1>1. SegmentInv => NoSegmentLeft
    BY DEF SegmentInv, NoSegmentLeft
  <1> QED BY <1>1, SegmentInvariance, PTL

(***************************************************************************)
(* Pictures and sequences.                                                 *)
(***************************************************************************)
Pictures == (0 .. N) \X (0 .. N)

LEMMA Halves ==
    ASSUME NEW s \in Pictures
    PROVE  /\ s[1] \in 0 .. N /\ s[2] \in 0 .. N
           /\ \A id \in 0 .. N : s = Picture(id) <=> s[1] = id /\ s[2] = id
  BY DEF Pictures, Picture

LEMMA HalfOf ==
    ASSUME NEW f \in Frames, NEW x \in 0 .. N
    PROVE  /\ [f EXCEPT !.picture[2] = x] \in Frames
           /\ [f EXCEPT !.picture[2] = x].id = f.id
           /\ [f EXCEPT !.picture[2] = x].picture = [f.picture EXCEPT ![2] = x]
           /\ f.picture \in Pictures
           /\ f.id \in 0 .. N
  BY DEF Pictures, Frames

\* A frame of which one half is known.
LEMMA HalfRead ==
    ASSUME NEW id \in 0 .. N, NEW x \in 0 .. N
    PROVE  /\ Frame(id, <<x, 0>>) \in Frames
           /\ Frame(id, <<x, 0>>).id = id
           /\ Frame(id, <<x, 0>>).picture[1] = x
           /\ Frame(id, <<x, 0>>).picture[2] = 0
           /\ Frame(id, <<x, 0>>).picture = <<x, 0>>
  <1>1. 0 \in 0 .. N
    BY FramesAssumption
  <1>2. <<x, 0>> \in (0 .. N) \X (0 .. N) /\ <<x, 0>>[1] = x /\ <<x, 0>>[2] = 0
    BY <1>1
  <1>3. /\ Frame(id, <<x, 0>>).picture = <<x, 0>> /\ Frame(id, <<x, 0>>).id = id
        /\ Frame(id, <<x, 0>>) \in Frames
    BY <1>2 DEF Frame, Frames
  <1> QED BY <1>2, <1>3

LEMMA Elements ==
    ASSUME NEW S, NEW s \in Seq(S)
    PROVE  \A k \in DOMAIN s : s[k] \in S /\ k \in Nat
  OBVIOUS

LEMMA AppendKeeps ==
    ASSUME NEW S, NEW s \in Seq(S), NEW e \in S
    PROVE  /\ Append(s, e) \in Seq(S)
           /\ \A i \in DOMAIN Append(s, e) :
                 \/ i \in DOMAIN s /\ Append(s, e)[i] = s[i]
                 \/ i = Len(s) + 1 /\ Append(s, e)[i] = e /\ \A j \in DOMAIN s : j < i
           /\ Len(Append(s, e)) = Len(s) + 1
  OBVIOUS

LEMMA HeadAndTail ==
    ASSUME NEW S, NEW s \in Seq(S), s # << >>
    PROVE  /\ Head(s) \in S
           /\ Tail(s) \in Seq(S)
           /\ 1 \in DOMAIN s /\ Head(s) = s[1]
           /\ \A i \in DOMAIN Tail(s) : i + 1 \in DOMAIN s /\ i + 1 > 1 /\ Tail(s)[i] = s[i + 1]
           /\ \A i, j \in DOMAIN Tail(s) : i < j => i + 1 < j + 1
           /\ Len(s) <= 1 => Tail(s) = << >>
  <1>1. /\ Head(s) \in S
        /\ Tail(s) \in Seq(S)
        /\ 1 \in DOMAIN s /\ Head(s) = s[1]
        /\ \A i \in DOMAIN Tail(s) : i + 1 \in DOMAIN s /\ Tail(s)[i] = s[i + 1]
    OBVIOUS
  <1>2. \A i \in DOMAIN Tail(s) : i + 1 > 1 /\ i \in Nat
    BY <1>1
  <1>3. \A i, j \in DOMAIN Tail(s) : i < j => i + 1 < j + 1
    BY <1>2
  <1>4. Len(s) <= 1 => Tail(s) = << >>
    OBVIOUS
  <1> QED BY <1>1, <1>2, <1>3, <1>4

(***************************************************************************)
(* The invariant.                                                          *)
(***************************************************************************)
\* The client is on its way to the call for its frame, or waits for the reply.
Asking  == pc \in {"events", "write", "write2", "call"} \/ (pc = "receive" /\ back = "events")
Waiting == pc = "wait" \/ (pc = "receive" /\ back = "wait")

\* The latest frame the client can have called with.
Asked == IF Asking THEN frame - 1 ELSE frame

\* Part 1: which frame the client is at, and what it has written of it.
PlaceInv ==
    /\ Asking \/ Waiting => frame \in 1 .. N
    /\ pc = "next" => frame <= N
    /\ pc \in {"connect", "receive"} => frame <= N
    /\ pc = "connect" \/ (pc = "receive" /\ back = "connect") => frame = 0
    /\ pc = "write2" => inSeg[1] = frame
    /\ pc = "call" => inSeg = Picture(frame)

\* The client called with frame x before all those the worker has not answered yet.
Before(x) ==
    /\ x <= Asked
    /\ \A k \in DOMAIN toWorker : x <= toWorker[k]
    /\ \A k \in DOMAIN m_queue : x <= m_queue[k].id
    /\ wpc \in {"read", "write", "write2"} => x <= job.id

\* Part 2: nothing overtakes anything on the way through the worker.
OrderInv ==
    /\ \A k \in DOMAIN toWorker :
          /\ toWorker[k] <= Asked
          /\ \A l \in DOMAIN toWorker : k < l => toWorker[k] <= toWorker[l]
    /\ wpc \in {"read", "write", "write2"} =>
          /\ job.id >= 1 /\ job.id <= Asked
          /\ \A l \in DOMAIN toWorker : job.id <= toWorker[l]
    /\ \A k \in DOMAIN m_queue :
          /\ m_queue[k].id >= 1 /\ m_queue[k].id <= Asked
          /\ \A l \in DOMAIN m_queue : k < l => m_queue[k].id <= m_queue[l].id
          /\ \A l \in DOMAIN toWorker : m_queue[k].id <= toWorker[l]
          /\ wpc = "read" => m_queue[k].id <= job.id
          /\ wpc \in {"write", "write2"} => job.id <= m_queue[k].id
    /\ \A k \in DOMAIN toClient :
          /\ toClient[k].id <= Asked
          /\ toClient[k].type = "frameProcessed" => Before(toClient[k].id)
    /\ pc = "receive" => Before(inHand.id)

\* A picture that shows frame id or later ones, up to the client's.
Shows(picture, id) == \A h \in 1 .. 2 : picture[h] \in id .. frame

\* Part 3: a segment shows what it is about to be read for, or something later.
MemoryInv ==
    /\ Shows(inSeg, 0) /\ Shows(outSeg, 0)
    /\ \A k \in DOMAIN toWorker : Shows(inSeg, toWorker[k])
    /\ wpc = "read" => Shows(inSeg, job.id) /\ job.picture[1] \in job.id .. frame
    /\ wpc \in {"write", "write2"} => Shows(job.picture, job.id)
    /\ wpc = "write2" => outSeg[1] >= job.id
    /\ \A k \in DOMAIN m_queue : Shows(m_queue[k].picture, m_queue[k].id)
    /\ \A k \in DOMAIN toClient :
          toClient[k].type = "frameProcessed" => Shows(outSeg, toClient[k].id)
    /\ pc = "receive" => Shows(outSeg, inHand.id) /\ inHand.picture[1] \in inHand.id .. frame
    /\ \A k \in DOMAIN received : Shows(received[k].picture, received[k].id)

\* Part 4: until a call has timed out there is at most one under way, that for the
\* client's frame, whose picture stands in the segment until the reply is there.
CallInv ==
    ~ late =>
        /\ \A k \in DOMAIN m_queue : m_queue[k].picture = Picture(m_queue[k].id)
        /\ toWorker # << >> \/ wpc = "read" =>
              /\ Waiting \/ pc = "exit"
              /\ ~ answered /\ inSeg = Picture(frame)
              /\ \A k \in DOMAIN toClient :
                    toClient[k].type = "reply" => toClient[k].id # frame
        /\ \A k \in DOMAIN toWorker : toWorker[k] = frame
        /\ Len(toWorker) <= 1
        /\ wpc = "read" => toWorker = << >> /\ job.id = frame /\ job.picture[1] = frame

LinkInv == TypeOK /\ PlaceInv /\ OrderInv /\ MemoryInv /\ CallInv

LEMMA InitLinkInv == Init => LinkInv
  <1> SUFFICES ASSUME Init PROVE LinkInv
    OBVIOUS
  <1>0. N \in Nat
    BY FramesAssumption
  <1>1. TypeOK
    <2>1. Frame(0, Blank) \in Frames /\ Blank \in (0 .. N) \X (0 .. N) /\ 0 \in 0 .. N + 1
      BY <1>0, HalfRead DEF Blank
    <2>2. /\ job \in Frames /\ inHand \in Frames /\ {inSeg, outSeg} \subseteq (0 .. N) \X (0 .. N)
          /\ frame \in 0 .. N + 1
      BY <2>1 DEF Init
    <2>3. /\ m_queue \in Seq(Frames) /\ toWorker \in Seq(1 .. N) /\ received \in Seq(Frames)
          /\ toClient \in Seq([type : {"reply", "frameProcessed"}, id : 1 .. N])
          /\ sent \in Seq(1 .. N)
      BY DEF Init
    <2> QED BY <2>2, <2>3 DEF Init, TypeOK
  <1>2. PlaceInv
    BY <1>0 DEF Init, PlaceInv, Asking, Waiting
  <1>3. OrderInv
    BY DEF Init, OrderInv
  <1>4. MemoryInv
    BY DEF Init, MemoryInv, Shows, Blank
  <1>5. CallInv
    BY DEF Init, CallInv
  <1> QED BY <1>1, <1>2, <1>3, <1>4, <1>5 DEF LinkInv

Messages == [type : {"reply", "frameProcessed"}, id : 1 .. N]

\* The types, in the form the steps use them in.
LEMMA Types ==
    ASSUME TypeOK
    PROVE  /\ N \in Nat
           /\ frame \in 0 .. N + 1 /\ frame \in Nat
           /\ back \in {"connect", "events", "wait"}
           /\ inSeg \in Pictures /\ outSeg \in Pictures
           /\ \A h \in 1 .. 2 : inSeg[h] \in 0 .. N /\ outSeg[h] \in 0 .. N
           /\ job \in Frames /\ inHand \in Frames
           /\ job.id \in 0 .. N /\ inHand.id \in 0 .. N
           /\ \A k \in DOMAIN m_queue : m_queue[k] \in Frames /\ m_queue[k].id \in 0 .. N
           /\ \A k \in DOMAIN toWorker : toWorker[k] \in 1 .. N
           /\ \A k \in DOMAIN toClient : toClient[k].id \in 1 .. N
           /\ job.id \in Nat /\ inHand.id \in Nat
           /\ \A k \in DOMAIN m_queue : m_queue[k].id \in Nat /\ k \in Nat
           /\ \A k \in DOMAIN toWorker : toWorker[k] \in Nat /\ k \in Nat
           /\ \A k \in DOMAIN toClient : toClient[k].id \in Nat
  <1>1. N \in Nat
    BY FramesAssumption
  <1>2. inSeg \in Pictures /\ outSeg \in Pictures
    BY DEF TypeOK, Pictures
  <1>3. \A h \in 1 .. 2 : inSeg[h] \in 0 .. N /\ outSeg[h] \in 0 .. N
    <2>1. \A h \in 1 .. 2 : h = 1 \/ h = 2
      OBVIOUS
    <2> QED BY <1>2, <2>1, Halves
  <1>4. \A f \in Frames : f.id \in 0 .. N
    BY DEF Frames
  <1>5. \A k \in DOMAIN m_queue : m_queue[k] \in Frames /\ k \in Nat
    BY Elements DEF TypeOK
  <1>6. /\ \A k \in DOMAIN toWorker : toWorker[k] \in 1 .. N /\ k \in Nat
        /\ \A k \in DOMAIN toClient : toClient[k].id \in 1 .. N
    <2>1. toWorker \in Seq(1 .. N) /\ toClient \in Seq(Messages)
      BY DEF TypeOK, Messages
    <2>2. \A m \in Messages : m.id \in 1 .. N
      BY DEF Messages
    <2>3. \A k \in DOMAIN toClient : toClient[k] \in Messages
      BY <2>1, Elements
    <2>4. \A k \in DOMAIN toWorker : toWorker[k] \in 1 .. N /\ k \in Nat
      BY <2>1, Elements
    <2> QED BY <2>2, <2>3, <2>4
  <1>7. \A x \in 0 .. N : x \in Nat
    OBVIOUS
  <1>8. \A x \in 1 .. N : x \in Nat
    OBVIOUS
  <1>9. frame \in Nat
    BY <1>1 DEF TypeOK
  <1> QED BY <1>1, <1>2, <1>3, <1>4, <1>5, <1>6, <1>7, <1>8, <1>9 DEF TypeOK

\* The steps of the client that only move it on.
Moves == Notice \/ Connected \/ NextFrame \/ EventsDone \/ CreateFails \/ CallFails
            \/ AttachFails \/ WaitDone \/ TimeOut

LEMMA MovesFrame ==
    ASSUME LinkInv, Moves
    PROVE  /\ TypeOK' /\ PlaceInv'
           /\ UNCHANGED <<worker, channel, memory, inHand, sent, received>>
           /\ frame <= frame' /\ Asked <= Asked' /\ frame' \in Nat
           /\ Asked' \in Int /\ Asked \in Int
           /\ pc # "receive" /\ pc' # "receive"
  <1>1. /\ UNCHANGED <<worker, channel, memory, inHand, sent, received>>
        /\ pc # "receive" /\ pc' # "receive"
    BY DEF Moves, Notice, InEvents, Connected, NextFrame, EventsDone, CreateFails, CallFails,
           AttachFails, WaitDone, TimeOut, history
  <1>2. N \in Nat /\ frame \in 0 .. N + 1 /\ frame \in Nat /\ TypeOK /\ PlaceInv
    BY Types DEF LinkInv
  <1>3. /\ frame' \in 0 .. N + 1
        /\ pc' \in {"connect", "next", "events", "write", "write2", "call", "wait", "receive",
                    "close", "closed", "exit"}
        /\ back' \in {"connect", "events", "wait"}
        /\ connected' \in BOOLEAN /\ answered' \in BOOLEAN /\ late' \in BOOLEAN
    <2>1. frame' \in 0 .. N + 1
      BY <1>2 DEF PlaceInv, Moves, Notice, Connected, NextFrame, EventsDone,
                  CreateFails, CallFails, AttachFails, WaitDone, TimeOut
    <2>2. /\ pc' = pc \/ pc' \in {"next", "events", "write", "close", "exit"}
          /\ back' = back
      BY DEF Moves, Notice, Connected, NextFrame, EventsDone,
             CreateFails, CallFails, AttachFails, WaitDone, TimeOut
    <2>3. connected \in BOOLEAN /\ answered \in BOOLEAN /\ late \in BOOLEAN
      BY <1>2 DEF TypeOK
    <2>4. connected' \in BOOLEAN /\ answered' \in BOOLEAN /\ late' \in BOOLEAN
      BY <2>3 DEF Moves, Notice, Connected, NextFrame, EventsDone,
                  CreateFails, CallFails, AttachFails, WaitDone, TimeOut, history
    <2> QED BY <1>2, <2>1, <2>2, <2>4 DEF TypeOK
  <1>4. TypeOK'
    BY <1>1, <1>2, <1>3 DEF TypeOK, worker, channel, memory
  <1>5. /\ pc' = "next" => frame' <= N
        /\ pc' = "connect" => frame' = 0
        /\ pc' \in {"events", "write", "write2", "call", "wait"} => frame' \in 1 .. N
        /\ pc' \notin {"write2", "call"} \/ (pc' = pc /\ frame' = frame)
        /\ frame <= frame' /\ Asked <= Asked' /\ frame' \in Nat
        /\ Asked' \in Int /\ Asked \in Int
    BY <1>2 DEF PlaceInv, Asked, Asking, Waiting, Moves, Notice, InEvents, Connected, NextFrame,
                EventsDone, CreateFails, CallFails, AttachFails, WaitDone, TimeOut, history
  <1>6. PlaceInv'
    <2>1. inSeg' = inSeg
      BY <1>1 DEF memory
    <2>2. /\ pc' = "write2" => inSeg'[1] = frame'
          /\ pc' = "call" => inSeg' = Picture(frame')
      BY <1>2, <1>5, <2>1 DEF PlaceInv, Picture
    <2> QED BY <1>1, <1>2, <1>5, <2>2 DEF PlaceInv, Asking, Waiting
  <1> QED BY <1>1, <1>4, <1>5, <1>6

\* What the client was called for before stays so while it moves on.
LEMMA BeforeStays ==
    ASSUME TypeOK, NEW x \in Nat, Before(x), UNCHANGED <<worker, toWorker>>,
           Asked \in Int, Asked' \in Int, Asked <= Asked'
    PROVE  Before(x)'
  <1>1. wpc' = wpc /\ job' = job /\ m_queue' = m_queue /\ toWorker' = toWorker
    BY DEF worker
  <1>2. x <= Asked
    BY DEF Before
  <1> QED BY <1>1, <1>2 DEF Before

LEMMA ShowsStays ==
    ASSUME NEW p, NEW id \in Nat, Shows(p, id), frame \in Nat, frame' \in Nat, frame <= frame'
    PROVE  Shows(p, id)'
  <1>1. \A h \in 1 .. 2 : p[h] \in id .. frame
    BY DEF Shows
  <1>2. \A h \in 1 .. 2 : p[h] \in id .. frame'
    BY <1>1
  <1> QED BY <1>2 DEF Shows

LEMMA MovesKeep ==
    ASSUME LinkInv, Moves
    PROVE  LinkInv'
  <1>1. /\ TypeOK' /\ PlaceInv'
        /\ UNCHANGED <<worker, channel, memory, inHand, sent, received>>
        /\ frame <= frame' /\ Asked <= Asked' /\ frame' \in Nat
        /\ Asked' \in Int /\ Asked \in Int
        /\ pc # "receive" /\ pc' # "receive"
    BY MovesFrame
  <1>2. /\ wpc' = wpc /\ job' = job /\ m_queue' = m_queue /\ toWorker' = toWorker
        /\ toClient' = toClient /\ inSeg' = inSeg /\ outSeg' = outSeg
        /\ inHand' = inHand /\ received' = received
    BY <1>1 DEF worker, channel, memory
  <1>3. TypeOK /\ OrderInv /\ MemoryInv /\ CallInv /\ PlaceInv
    BY DEF LinkInv
  <1>4. /\ frame \in Nat /\ job.id \in Nat
        /\ \A k \in DOMAIN m_queue : m_queue[k].id \in Nat
        /\ \A k \in DOMAIN toWorker : toWorker[k] \in Nat
        /\ \A k \in DOMAIN toClient : toClient[k].id \in Nat
        /\ \A k \in DOMAIN received : received[k].id \in Nat
    <2>1. \A k \in DOMAIN received : received[k].id \in Nat
      <3>1. received \in Seq(Frames) /\ \A f \in Frames : f.id \in Nat
        BY <1>3 DEF TypeOK, Frames
      <3> QED BY <3>1, Elements
    <2> QED BY <1>3, <2>1, Types
  <1>5. OrderInv'
    <2>1. /\ \A k \in DOMAIN toWorker : toWorker[k] <= Asked'
          /\ wpc \in {"read", "write", "write2"} => job.id <= Asked'
          /\ \A k \in DOMAIN m_queue : m_queue[k].id <= Asked'
          /\ \A k \in DOMAIN toClient : toClient[k].id <= Asked'
      <3>1. \A x \in Nat : x <= Asked => x <= Asked'
        BY <1>1
      <3> HIDE DEF Asked
      <3> QED BY <1>3, <1>4, <3>1 DEF OrderInv
    <2>2. \A k \in DOMAIN toClient :
             toClient[k].type = "frameProcessed" => Before(toClient[k].id)'
      BY <1>1, <1>2, <1>3, <1>4, BeforeStays DEF OrderInv, worker
    <2> HIDE DEF Asked
    <2> QED BY <1>1, <1>2, <1>3, <2>1, <2>2 DEF OrderInv
  <1>6. MemoryInv'
    <2>1. \A p : \A id \in Nat : Shows(p, id) => Shows(p, id)'
      BY <1>1, <1>4, ShowsStays
    <2>2. wpc = "read" => job.picture[1] \in job.id .. frame'
      <3>1. wpc = "read" => job.picture[1] \in job.id .. frame
        BY <1>3 DEF MemoryInv
      <3> QED BY <1>1, <1>4, <3>1
    <2> QED BY <1>1, <1>2, <1>3, <1>4, <2>1, <2>2 DEF MemoryInv
  <1>7. CallInv'
    <2> SUFFICES ASSUME ~ late' PROVE CallInv'
      BY DEF CallInv
    <2>1. ~ late
      BY DEF Moves, Notice, Connected, NextFrame, EventsDone, CreateFails, CallFails,
             AttachFails, WaitDone, TimeOut, history
    <2>2. CASE toWorker # << >> \/ wpc = "read"
      <3>1. (Waiting \/ pc = "exit") /\ ~ answered
        BY <1>3, <2>1, <2>2 DEF CallInv
      <3>2. /\ Waiting' \/ pc' = "exit"
            /\ answered' = answered /\ frame' = frame
        BY <1>1, <2>1, <3>1 DEF Waiting, Moves, Notice, Connected, NextFrame, EventsDone, CreateFails,
             CallFails, AttachFails, WaitDone, TimeOut, history
      <3> QED BY <1>2, <1>3, <2>1, <3>2 DEF CallInv, Picture
    <2>3. CASE ~ (toWorker # << >> \/ wpc = "read")
      <3>1. DOMAIN toWorker = {}
        BY <2>3
      <3> QED BY <1>2, <1>3, <2>1, <2>3, <3>1 DEF CallInv, Picture
    <2> QED BY <2>2, <2>3
  <1> QED BY <1>1, <1>5, <1>6, <1>7 DEF LinkInv

LEMMA WriteKeeps ==
    ASSUME LinkInv, WriteHalf \/ WriteRest
    PROVE  LinkInv'
  <1>1. /\ pc \in {"write", "write2"} /\ pc' \in {"write2", "call"}
        /\ UNCHANGED <<back, frame, connected, answered, worker, channel, outSeg, attached,
                       inHand, history>>
        /\ files' \in {files, files \cup {"in"}}
    BY DEF WriteHalf, WriteRest
  <1>2. PICK h \in 1 .. 2 : /\ inSeg' = [inSeg EXCEPT ![h] = frame]
                            /\ h = 1 <=> pc = "write"
                            /\ h = 2 <=> pc' = "call"
    BY DEF WriteHalf, WriteRest
  <1>3. TypeOK /\ PlaceInv /\ OrderInv /\ MemoryInv /\ CallInv
    BY DEF LinkInv
  <1>4. /\ frame \in 1 .. N /\ frame \in 0 .. N /\ frame \in Nat
        /\ inSeg \in Pictures
        /\ wpc' = wpc /\ job' = job /\ m_queue' = m_queue /\ toWorker' = toWorker
        /\ toClient' = toClient /\ outSeg' = outSeg /\ inHand' = inHand /\ received' = received
        /\ frame' = frame /\ late' = late
    BY <1>1, <1>3, Types DEF PlaceInv, Asking, worker, channel, history
  <1>5. /\ inSeg' \in Pictures
        /\ inSeg'[h] = frame
        /\ \A k \in 1 .. 2 : k # h => inSeg'[k] = inSeg[k]
    <2>1. /\ [inSeg EXCEPT ![h] = frame] \in Pictures
          /\ [inSeg EXCEPT ![h] = frame][h] = frame
          /\ \A k \in 1 .. 2 : k # h => [inSeg EXCEPT ![h] = frame][k] = inSeg[k]
      <3>1. frame \in 0 .. N /\ inSeg \in Pictures
        BY <1>4
      <3>2. CASE h = 1
        BY <3>1, <3>2 DEF Pictures
      <3>3. CASE h = 2
        BY <3>1, <3>3 DEF Pictures
      <3> QED BY <3>2, <3>3
    <2> QED BY <1>2, <2>1
  <1>6. TypeOK'
    <2>1. {inSeg, outSeg}' \subseteq (0 .. N) \X (0 .. N)
      BY <1>3, <1>4, <1>5 DEF TypeOK, Pictures
    <2> QED BY <1>1, <1>3, <1>4, <2>1 DEF TypeOK, worker, channel, history
  <1>7. PlaceInv'
    <2>1. pc' = "write2" => inSeg'[1] = frame
      BY <1>2, <1>5
    <2>2. pc' = "call" => inSeg' = Picture(frame)
      <3>1. pc' = "call" => inSeg'[1] = frame /\ inSeg'[2] = frame
        BY <1>1, <1>2, <1>3, <1>5 DEF PlaceInv
      <3> QED BY <1>4, <1>5, <3>1, Halves
    <2> QED BY <1>1, <1>4, <2>1, <2>2 DEF PlaceInv, Picture
  <1>8. Asking /\ Asking' /\ Asked' = Asked /\ Asked = frame - 1
    BY <1>1, <1>4 DEF Asking, Asked
  <1>9. OrderInv'
    <2>1. \A x : Before(x)' <=> Before(x)
      BY <1>4, <1>8 DEF Before
    <2> QED BY <1>1, <1>3, <1>4, <1>8, <2>1 DEF OrderInv
  <1>10. MemoryInv'
    <2>1. \A p, id : Shows(p, id)' <=> Shows(p, id)
      BY <1>4 DEF Shows
    <2>2. \A id \in Nat : id <= frame /\ Shows(inSeg, id) => Shows(inSeg', id)
      BY <1>4, <1>5 DEF Shows
    <2>3. \A k \in DOMAIN toWorker : Shows(inSeg', toWorker[k])
      <3>1. \A k \in DOMAIN toWorker : toWorker[k] \in Nat /\ toWorker[k] <= frame - 1
        BY <1>3, <1>8, Types DEF OrderInv
      <3> QED BY <1>3, <1>4, <2>2, <3>1 DEF MemoryInv
    <2>4. wpc = "read" => Shows(inSeg', job.id)
      <3>1. wpc = "read" => job.id \in Nat /\ job.id <= frame - 1
        BY <1>3, <1>8, Types DEF OrderInv
      <3> QED BY <1>3, <1>4, <2>2, <3>1 DEF MemoryInv
    <2>5. Shows(inSeg', 0)
      BY <1>3, <1>4, <2>2 DEF MemoryInv
    <2> QED BY <1>1, <1>3, <1>4, <2>1, <2>3, <2>4, <2>5 DEF MemoryInv
  <1>11. CallInv'
    <2>1. ~ late => toWorker = << >> /\ wpc # "read"
      BY <1>1, <1>3 DEF CallInv, Waiting
    <2>2. toWorker = << >> => DOMAIN toWorker = {}
      OBVIOUS
    <2> QED BY <1>3, <1>4, <2>1, <2>2 DEF CallInv, Picture
  <1> QED BY <1>6, <1>7, <1>9, <1>10, <1>11 DEF LinkInv

LEMMA CallKeeps ==
    ASSUME LinkInv, Call
    PROVE  LinkInv'
  <1>1. /\ pc = "call" /\ pc' = "wait" /\ answered' = FALSE
        /\ UNCHANGED <<back, frame, connected, worker, toClient, memory, inHand, received, late>>
        /\ sent' = Append(sent, frame)
        /\ toWorker' = toWorker \/ (wpc # "gone" /\ toWorker' = Append(toWorker, frame))
    BY DEF Call
  <1>2. TypeOK /\ PlaceInv /\ OrderInv /\ MemoryInv /\ CallInv
    BY DEF LinkInv
  <1>3. /\ frame \in 1 .. N /\ frame \in Nat
        /\ inSeg = Picture(frame)
        /\ wpc' = wpc /\ job' = job /\ m_queue' = m_queue
        /\ toClient' = toClient /\ inSeg' = inSeg /\ outSeg' = outSeg /\ inHand' = inHand
        /\ received' = received /\ frame' = frame /\ late' = late
        /\ toWorker \in Seq(1 .. N)
    BY <1>1, <1>2, Types DEF PlaceInv, Asking, worker, memory, TypeOK
  <1>4. /\ Append(toWorker, frame) \in Seq(1 .. N)
        /\ Append(sent, frame) \in Seq(1 .. N)
    BY <1>2, <1>3, AppendKeeps DEF TypeOK
  <1>5. TypeOK'
    BY <1>1, <1>2, <1>3, <1>4 DEF TypeOK, worker, memory
  <1>6. PlaceInv'
    BY <1>1, <1>3 DEF PlaceInv
  <1>7. Asked = frame - 1 /\ Asked' = frame
    BY <1>1, <1>3 DEF Asked, Asking
  \* What is under way to the worker is older than the frame, but for the call itself.
  <1>8. \A k \in DOMAIN toWorker' :
           \/ k \in DOMAIN toWorker /\ toWorker'[k] = toWorker[k] /\ toWorker[k] <= frame - 1
           \/ toWorker'[k] = frame /\ \A j \in DOMAIN toWorker : j < k
    <2>1. \A k \in DOMAIN toWorker : toWorker[k] <= frame - 1
      BY <1>2, <1>7 DEF OrderInv
    <2>2. \A k \in DOMAIN Append(toWorker, frame) :
             \/ k \in DOMAIN toWorker /\ Append(toWorker, frame)[k] = toWorker[k]
             \/ Append(toWorker, frame)[k] = frame /\ \A j \in DOMAIN toWorker : j < k
      BY <1>3, AppendKeeps
    <2> QED BY <1>1, <2>1, <2>2
  <1>9. OrderInv'
    <2>1. ASSUME NEW x \in Nat, Before(x) PROVE Before(x)'
      <3>1. x <= frame - 1 /\ x <= frame
        BY <1>3, <1>7, <2>1 DEF Before
      <3>2. \A k \in DOMAIN toWorker' : x <= toWorker'[k]
        BY <1>8, <2>1, <3>1 DEF Before
      <3> QED BY <1>3, <1>7, <2>1, <3>1, <3>2 DEF Before
    <2>2. ASSUME NEW k \in DOMAIN toWorker'
          PROVE  /\ toWorker'[k] <= frame
                 /\ \A l \in DOMAIN toWorker' : k < l => toWorker'[k] <= toWorker'[l]
      <3>1. \A j \in DOMAIN toWorker : j \in Nat /\ toWorker[j] \in Nat
        BY <1>2, Types
      <3>2. toWorker' \in Seq(1 .. N)
        BY <1>5 DEF TypeOK
      <3>3. \A j \in DOMAIN toWorker' : j \in Nat /\ toWorker'[j] \in Nat /\ toWorker'[j] <= frame
        BY <1>3, <1>8, <3>1, <3>2
      <3>4. ASSUME NEW l \in DOMAIN toWorker', k < l PROVE toWorker'[k] <= toWorker'[l]
        <4>1. CASE toWorker'[l] = frame
          BY <3>3, <4>1
        <4>2. CASE l \in DOMAIN toWorker /\ toWorker'[l] = toWorker[l]
          <5>1. k \in DOMAIN toWorker /\ toWorker'[k] = toWorker[k]
            BY <1>8, <3>3, <3>4, <4>2
          <5> QED BY <1>2, <3>4, <4>2, <5>1 DEF OrderInv
        <4> QED BY <1>8, <4>1, <4>2
      <3> QED BY <3>3, <3>4
    <2>3. ASSUME NEW x \in Nat, x <= frame - 1, \A k \in DOMAIN toWorker : x <= toWorker[k]
          PROVE  x <= frame /\ \A k \in DOMAIN toWorker' : x <= toWorker'[k]
      BY <1>3, <1>8, <2>3
    <2>4. /\ job.id \in Nat /\ inHand.id \in Nat
          /\ \A k \in DOMAIN m_queue : m_queue[k].id \in Nat
          /\ \A k \in DOMAIN toClient : toClient[k].id \in Nat /\ toClient[k].id <= frame
      <3>1. \A k \in DOMAIN toClient : toClient[k].id \in Nat /\ toClient[k].id <= frame - 1
        BY <1>2, <1>7, Types DEF OrderInv
      <3>2. \A k \in DOMAIN toClient : toClient[k].id \in Nat /\ toClient[k].id <= frame
        BY <1>3, <3>1
      <3> QED BY <1>2, <3>2, Types
    <2>5. wpc \in {"read", "write", "write2"} =>
             job.id <= frame /\ \A k \in DOMAIN toWorker' : job.id <= toWorker'[k]
      BY <1>2, <1>7, <2>3, <2>4 DEF OrderInv
    <2>6. \A j \in DOMAIN m_queue :
             m_queue[j].id <= frame /\ \A k \in DOMAIN toWorker' : m_queue[j].id <= toWorker'[k]
      BY <1>2, <1>7, <2>3, <2>4 DEF OrderInv
    <2>7. \A k \in DOMAIN toClient :
             toClient[k].type = "frameProcessed" => Before(toClient[k].id)'
      <3> SUFFICES ASSUME NEW k \in DOMAIN toClient, toClient[k].type = "frameProcessed"
                   PROVE  Before(toClient[k].id)'
        BY <1>3
      <3>1. Before(toClient[k].id) /\ toClient[k].id \in Nat
        BY <1>2, <2>4 DEF OrderInv
      <3>2. \A x \in Nat : Before(x) => Before(x)'
        BY <2>1
      <3>3. toClient'[k].id = toClient[k].id
        BY <1>3
      <3> QED BY <3>1, <3>2, <3>3
    <2> QED BY <1>1, <1>2, <1>3, <1>7, <2>2, <2>4, <2>5, <2>6, <2>7 DEF OrderInv
  <1>10. MemoryInv'
    <2>1. \A p, id : Shows(p, id)' <=> Shows(p, id)
      BY <1>3 DEF Shows
    <2>2. Shows(inSeg, frame)
      BY <1>3 DEF Shows, Picture
    <2>3. \A k \in DOMAIN toWorker' : Shows(inSeg, toWorker'[k])
      BY <1>2, <1>8, <2>2 DEF MemoryInv
    <2> QED BY <1>1, <1>2, <1>3, <2>1, <2>3 DEF MemoryInv
  <1>11. CallInv'
    <2> SUFFICES ASSUME ~ late PROVE CallInv'
      BY <1>3 DEF CallInv
    <2>1. toWorker = << >> /\ wpc # "read" /\ DOMAIN toWorker = {}
      <3>1. toWorker = << >> /\ wpc # "read"
        BY <1>1, <1>2 DEF CallInv, Waiting
      <3> QED BY <3>1
    <2>2. \A k \in DOMAIN toWorker' : toWorker'[k] = frame
      BY <1>8, <2>1
    <2>3. Len(toWorker') <= 1
      <3>1. Len(Append(toWorker, frame)) = Len(toWorker) + 1
        BY <1>3, AppendKeeps
      <3>2. Len(toWorker) = 0
        BY <2>1
      <3>3. Len(Append(toWorker, frame)) <= 1 /\ Len(toWorker) <= 1
        BY <3>1, <3>2
      <3> QED BY <1>1, <3>3
    <2>4. \A k \in DOMAIN toClient : toClient[k].id # frame
      <3>1. \A k \in DOMAIN toClient : toClient[k].id <= frame - 1 /\ toClient[k].id \in Nat
        BY <1>2, <1>7, Types DEF OrderInv
      <3> QED BY <1>3, <3>1
    <2> QED BY <1>1, <1>2, <1>3, <2>1, <2>2, <2>3, <2>4 DEF CallInv, Waiting, Picture
  <1> QED BY <1>5, <1>6, <1>9, <1>10, <1>11 DEF LinkInv

\* What is left of the messages behind the first one.
LEMMA LessToClient ==
    ASSUME LinkInv, toClient # << >>
    PROVE  /\ Head(toClient).id \in 1 .. N /\ Head(toClient).id \in Nat
           /\ Head(toClient) = toClient[1] /\ 1 \in DOMAIN toClient
           /\ Tail(toClient) \in Seq([type : {"reply", "frameProcessed"}, id : 1 .. N])
           /\ \A k \in DOMAIN Tail(toClient) :
                 k + 1 \in DOMAIN toClient /\ Tail(toClient)[k] = toClient[k + 1]
  <1>1. TypeOK /\ toClient \in Seq(Messages)
    BY DEF LinkInv, TypeOK, Messages
  <1>2. /\ Head(toClient) \in Messages /\ Tail(toClient) \in Seq(Messages)
        /\ Head(toClient) = toClient[1] /\ 1 \in DOMAIN toClient
        /\ \A k \in DOMAIN Tail(toClient) :
              k + 1 \in DOMAIN toClient /\ Tail(toClient)[k] = toClient[k + 1]
    BY <1>1, HeadAndTail
  <1>3. \A m \in Messages : m.id \in 1 .. N /\ m.id \in Nat
    BY DEF Messages
  <1> QED BY <1>2, <1>3 DEF Messages

LEMMA ReplyKeeps ==
    ASSUME LinkInv, HandleReply
    PROVE  LinkInv'
  <1>1. /\ InEvents /\ toClient # << >> /\ toClient' = Tail(toClient)
        /\ Head(toClient).type = "reply"
        /\ answered' = (answered \/ (pc = "wait" /\ Head(toClient).id = frame))
        /\ UNCHANGED <<pc, back, frame, connected, worker, toWorker, memory, inHand, history>>
    BY DEF HandleReply
  <1>2. TypeOK /\ PlaceInv /\ OrderInv /\ MemoryInv /\ CallInv
    BY DEF LinkInv
  <1>3. /\ wpc' = wpc /\ job' = job /\ m_queue' = m_queue /\ toWorker' = toWorker
        /\ inSeg' = inSeg /\ outSeg' = outSeg /\ inHand' = inHand /\ received' = received
        /\ pc' = pc /\ back' = back /\ frame' = frame /\ late' = late
    BY <1>1 DEF worker, memory, history
  <1>4. /\ Head(toClient) = toClient[1] /\ 1 \in DOMAIN toClient
        /\ \A k \in DOMAIN toClient' : k + 1 \in DOMAIN toClient /\ toClient'[k] = toClient[k + 1]
    BY <1>1, LessToClient
  <1>5. TypeOK'
    <2>1. answered' \in BOOLEAN
      BY <1>1, <1>2 DEF TypeOK
    <2> QED BY <1>1, <1>2, <2>1, LessToClient DEF TypeOK, worker, memory, history
  <1>6. PlaceInv'
    BY <1>2, <1>3 DEF PlaceInv, Asking, Waiting, Picture
  <1>7. Asked' = Asked
    BY <1>3 DEF Asked, Asking
  <1>8. \A x : Before(x)' <=> Before(x)
    BY <1>3, <1>7 DEF Before
  <1>9. OrderInv'
    BY <1>2, <1>3, <1>4, <1>7, <1>8 DEF OrderInv
  <1>10. MemoryInv'
    <2>1. \A p, id : Shows(p, id)' <=> Shows(p, id)
      BY <1>3 DEF Shows
    <2> QED BY <1>2, <1>3, <1>4, <2>1 DEF MemoryInv
  <1>11. CallInv'
    <2> SUFFICES ASSUME ~ late PROVE CallInv'
      BY <1>3 DEF CallInv
    <2>1. CASE toWorker # << >> \/ wpc = "read"
      <3>1. ~ answered'
        BY <1>1, <1>2, <1>4, <2>1 DEF CallInv
      <3> QED BY <1>2, <1>3, <1>4, <2>1, <3>1 DEF CallInv, Waiting, Picture
    <2>2. CASE ~ (toWorker # << >> \/ wpc = "read")
      BY <1>2, <1>3, <2>2 DEF CallInv, Picture
    <2> QED BY <2>1, <2>2
  <1> QED BY <1>5, <1>6, <1>9, <1>10, <1>11 DEF LinkInv

LEMMA SignalKeeps ==
    ASSUME LinkInv, HandleSignal
    PROVE  LinkInv'
  <1>1. /\ InEvents /\ toClient # << >> /\ toClient' = Tail(toClient)
        /\ Head(toClient).type = "frameProcessed"
        /\ attached' = attached \cup {"out"}
        /\ inHand' = Frame(Head(toClient).id, <<outSeg[1], 0>>)
        /\ back' = pc /\ pc' = "receive"
        /\ UNCHANGED <<frame, connected, answered, worker, toWorker, inSeg, outSeg, files, history>>
    BY DEF HandleSignal
  <1>2. TypeOK /\ PlaceInv /\ OrderInv /\ MemoryInv /\ CallInv
    BY DEF LinkInv
  <1>3. /\ wpc' = wpc /\ job' = job /\ m_queue' = m_queue /\ toWorker' = toWorker
        /\ inSeg' = inSeg /\ outSeg' = outSeg /\ received' = received
        /\ answered' = answered /\ frame' = frame /\ late' = late
    BY <1>1 DEF worker, memory, history
  <1>4. /\ Head(toClient) = toClient[1] /\ 1 \in DOMAIN toClient
        /\ \A k \in DOMAIN toClient' : k + 1 \in DOMAIN toClient /\ toClient'[k] = toClient[k + 1]
        /\ Head(toClient).id \in 0 .. N /\ Head(toClient).id \in Nat
    BY <1>1, LessToClient
  <1>5. /\ inHand' \in Frames
        /\ inHand'.id = Head(toClient).id
        /\ inHand'.picture[1] = outSeg[1]
    <2>1. outSeg[1] \in 0 .. N
      BY <1>2, Types
    <2> QED BY <1>1, <1>4, <2>1, HalfRead
  <1>6. TypeOK'
    <2>1. back' \in {"connect", "events", "wait"} /\ attached' \subseteq {"in", "out"}
      BY <1>1, <1>2 DEF InEvents, TypeOK
    <2> QED BY <1>1, <1>2, <1>5, <2>1, LessToClient DEF TypeOK, worker, history
  <1>7. PlaceInv'
    BY <1>1, <1>2, FramesAssumption DEF PlaceInv, Asking, Waiting, InEvents
  <1>8. Asked' = Asked
    BY <1>1, <1>3 DEF Asked, Asking, InEvents
  <1>9. \A x : Before(x)' <=> Before(x)
    BY <1>3, <1>8 DEF Before
  <1>10. OrderInv'
    <2>1. Before(Head(toClient).id)
      BY <1>1, <1>2, <1>4 DEF OrderInv
    <2> QED BY <1>2, <1>3, <1>4, <1>5, <1>8, <1>9, <2>1 DEF OrderInv
  <1>11. MemoryInv'
    <2>1. \A p, id : Shows(p, id)' <=> Shows(p, id)
      BY <1>3 DEF Shows
    <2>2. Shows(outSeg, Head(toClient).id)
      BY <1>1, <1>2, <1>4 DEF MemoryInv
    <2>3. inHand'.picture[1] \in inHand'.id .. frame
      BY <1>5, <2>2 DEF Shows
    <2> QED BY <1>2, <1>3, <1>4, <1>5, <2>1, <2>2, <2>3 DEF MemoryInv
  <1>12. CallInv'
    BY <1>1, <1>2, <1>3, <1>4 DEF CallInv, Waiting, InEvents, Picture
  <1> QED BY <1>6, <1>7, <1>10, <1>11, <1>12 DEF LinkInv

LEMMA ReceiveKeeps ==
    ASSUME LinkInv, Receive
    PROVE  LinkInv'
  <1> DEFINE answer == [inHand EXCEPT !.picture[2] = outSeg[2]]
  <1>1. /\ pc = "receive" /\ pc' = back
        /\ inHand' = answer /\ received' = Append(received, answer)
        /\ UNCHANGED <<back, frame, connected, answered, worker, channel, memory, sent, late>>
    BY DEF Receive
  <1>2. TypeOK /\ PlaceInv /\ OrderInv /\ MemoryInv /\ CallInv
    BY DEF LinkInv
  <1>3. /\ wpc' = wpc /\ job' = job /\ m_queue' = m_queue /\ toWorker' = toWorker
        /\ toClient' = toClient /\ inSeg' = inSeg /\ outSeg' = outSeg
        /\ answered' = answered /\ frame' = frame /\ late' = late /\ back' = back
        /\ back \in {"connect", "events", "wait"}
        /\ received \in Seq(Frames)
    BY <1>1, <1>2 DEF worker, channel, memory, TypeOK
  <1>4. answer \in Frames /\ answer.id = inHand.id /\ Shows(answer.picture, answer.id)
    <2>1. inHand \in Frames /\ outSeg[2] \in 0 .. N
      BY <1>2, Types
    <2>2. /\ answer \in Frames /\ answer.id = inHand.id
          /\ answer.picture = [inHand.picture EXCEPT ![2] = outSeg[2]]
          /\ inHand.picture \in Pictures
      BY <2>1, HalfOf
    <2>3. answer.picture[1] = inHand.picture[1] /\ answer.picture[2] = outSeg[2]
      <3> HIDE DEF answer
      <3> QED BY <2>1, <2>2 DEF Pictures
    <2>4. inHand.picture[1] \in inHand.id .. frame /\ outSeg[2] \in inHand.id .. frame
      BY <1>1, <1>2 DEF MemoryInv, Shows
    <2>5. \A h \in 1 .. 2 : h = 1 \/ h = 2
      OBVIOUS
    <2> HIDE DEF answer
    <2> QED BY <2>2, <2>3, <2>4, <2>5 DEF Shows
  <1> HIDE DEF answer
  <1>5. TypeOK'
    <2>1. Append(received, answer) \in Seq(Frames)
      BY <1>3, <1>4, AppendKeeps
    <2> QED BY <1>1, <1>2, <1>3, <1>4, <2>1 DEF TypeOK, worker, channel, memory
  <1>6. PlaceInv'
    BY <1>1, <1>2, <1>3 DEF PlaceInv, Asking, Waiting
  <1>7. Asked' = Asked
    BY <1>1, <1>3 DEF Asked, Asking
  <1>8. \A x : Before(x)' <=> Before(x)
    BY <1>3, <1>7 DEF Before
  <1>9. OrderInv'
    BY <1>1, <1>2, <1>3, <1>7, <1>8 DEF OrderInv
  <1>10. MemoryInv'
    <2>1. \A p, id : Shows(p, id)' <=> Shows(p, id)
      BY <1>3 DEF Shows
    <2>2. \A k \in DOMAIN received' : Shows(received'[k].picture, received'[k].id)
      <3>1. \A k \in DOMAIN received' :
               (k \in DOMAIN received /\ received'[k] = received[k]) \/ received'[k] = answer
        BY <1>1, <1>3, <1>4, AppendKeeps
      <3> QED BY <1>2, <1>4, <3>1 DEF MemoryInv
    <2> QED BY <1>1, <1>2, <1>3, <2>1, <2>2 DEF MemoryInv
  <1>11. CallInv'
    BY <1>1, <1>2, <1>3 DEF CallInv, Waiting, Picture
  <1> QED BY <1>5, <1>6, <1>9, <1>10, <1>11 DEF LinkInv

LEMMA CloseKeeps ==
    ASSUME LinkInv, Close
    PROVE  LinkInv'
  <1>1. /\ pc = "close" /\ pc' = "closed"
        /\ wpc' = "gone" /\ m_queue' = << >> /\ toWorker' = << >> /\ toClient' = << >>
        /\ files' \subseteq files
        /\ UNCHANGED <<back, frame, connected, answered, job, inSeg, outSeg, attached, inHand, history>>
    BY DEF Close
  <1>2. TypeOK /\ MemoryInv
    BY DEF LinkInv
  <1>3. TypeOK'
    BY <1>1, <1>2 DEF TypeOK, history
  <1>4. PlaceInv'
    BY <1>1 DEF PlaceInv, Asking, Waiting
  <1>5. OrderInv' /\ CallInv'
    BY <1>1 DEF OrderInv, CallInv
  <1>6. MemoryInv'
    <2>1. \A p, id : Shows(p, id)' <=> Shows(p, id)
      BY <1>1 DEF Shows
    <2> QED BY <1>1, <1>2, <2>1 DEF MemoryInv, history
  <1> QED BY <1>3, <1>4, <1>5, <1>6 DEF LinkInv

\* A step of the worker leaves the client where it is.
LEMMA WorkerFrame ==
    ASSUME LinkInv, Worker \/ Die
    PROVE  /\ UNCHANGED <<client, inHand, history, inSeg>>
           /\ pc' = pc /\ back' = back /\ frame' = frame /\ connected' = connected
           /\ answered' = answered /\ inHand' = inHand /\ received' = received /\ late' = late
           /\ inSeg' = inSeg
           /\ PlaceInv'
           /\ Asked' = Asked /\ (Waiting' <=> Waiting)
           /\ \A p, id : Shows(p, id)' <=> Shows(p, id)
  <1>1. UNCHANGED <<client, inHand, history, inSeg>>
    BY DEF Worker, Start, TakeCall, Enqueue, TakeFrame, WriteAnswer, SendAnswer, Die, memory
  <1>2. /\ pc' = pc /\ back' = back /\ frame' = frame /\ connected' = connected
        /\ answered' = answered /\ inHand' = inHand /\ received' = received /\ late' = late
        /\ inSeg' = inSeg
    BY <1>1 DEF client, history
  <1>3. Asked' = Asked /\ (Waiting' <=> Waiting)
    BY <1>2 DEF Asked, Asking, Waiting
  <1>4. PlaceInv'
    BY <1>2 DEF LinkInv, PlaceInv, Asking, Waiting, Picture
  <1>5. \A p, id : Shows(p, id)' <=> Shows(p, id)
    BY <1>2 DEF Shows
  <1> QED BY <1>1, <1>2, <1>3, <1>4, <1>5

LEMMA TakeCallKeeps ==
    ASSUME LinkInv, TakeCall
    PROVE  LinkInv'
  <1> DEFINE id == Head(toWorker)
  <1>1. /\ wpc = "loop" /\ wpc' = "read" /\ toWorker # << >> /\ toWorker' = Tail(toWorker)
        /\ job' = Frame(id, <<inSeg[1], 0>>)
        /\ m_queue' = m_queue /\ toClient' = toClient /\ outSeg' = outSeg
        /\ files' = files /\ attached' = attached \cup {"in"}
    BY DEF TakeCall
  <1>2. TypeOK /\ OrderInv /\ MemoryInv /\ CallInv
    BY DEF LinkInv
  <1>3. UNCHANGED <<client, inHand, history, inSeg>> /\ PlaceInv'
    BY WorkerFrame DEF Worker
  <1>4. /\ toWorker \in Seq(1 .. N)
        /\ id \in 1 .. N /\ id \in 0 .. N /\ id \in Nat /\ id = toWorker[1] /\ 1 \in DOMAIN toWorker
        /\ Tail(toWorker) \in Seq(1 .. N)
        /\ \A k \in DOMAIN Tail(toWorker) :
              k + 1 \in DOMAIN toWorker /\ k + 1 > 1 /\ Tail(toWorker)[k] = toWorker[k + 1]
        /\ \A k, l \in DOMAIN Tail(toWorker) : k < l => k + 1 < l + 1
        /\ Len(toWorker) <= 1 => Tail(toWorker) = << >>
    <2>1. toWorker \in Seq(1 .. N)
      BY <1>2 DEF TypeOK
    <2>2. /\ id \in 1 .. N /\ id = toWorker[1] /\ 1 \in DOMAIN toWorker
          /\ Tail(toWorker) \in Seq(1 .. N)
          /\ \A k \in DOMAIN Tail(toWorker) :
                k + 1 \in DOMAIN toWorker /\ k + 1 > 1 /\ Tail(toWorker)[k] = toWorker[k + 1]
          /\ \A k, l \in DOMAIN Tail(toWorker) : k < l => k + 1 < l + 1
          /\ Len(toWorker) <= 1 => Tail(toWorker) = << >>
      BY <1>1, <2>1, HeadAndTail
    <2> HIDE DEF id
    <2> QED BY <2>1, <2>2
  <1> HIDE DEF id
  <1>5. job' \in Frames /\ job'.id = id /\ job'.picture[1] = inSeg[1] /\ inSeg[1] \in 0 .. N
    <2>1. inSeg[1] \in 0 .. N
      BY <1>2, Types
    <2> QED BY <1>1, <1>4, <2>1, HalfRead
  <1>6. TypeOK'
    BY <1>1, <1>2, <1>3, <1>4, <1>5 DEF TypeOK, client, history
  <1>7. \A x : Before(x) => Before(x)'
    BY <1>1, <1>4, <1>5, WorkerFrame DEF Before, Worker
  <1>8. OrderInv'
    <2>1. \A l \in DOMAIN toWorker' : id <= toWorker'[l] /\ toWorker'[l] <= Asked
      BY <1>1, <1>2, <1>4 DEF OrderInv
    <2>2. \A k, l \in DOMAIN toWorker' : k < l => toWorker'[k] <= toWorker'[l]
      BY <1>1, <1>2, <1>4 DEF OrderInv
    <2>3. id >= 1 /\ id <= Asked
      BY <1>2, <1>4 DEF OrderInv
    <2>4. \A k \in DOMAIN m_queue :
             m_queue[k].id <= id /\ \A l \in DOMAIN toWorker' : m_queue[k].id <= toWorker'[l]
      BY <1>1, <1>2, <1>4 DEF OrderInv
    <2>5. Asked' = Asked /\ pc' = pc /\ inHand' = inHand
      BY WorkerFrame DEF Worker
    <2> QED BY <1>1, <1>2, <1>5, <1>7, <2>1, <2>2, <2>3, <2>4, <2>5 DEF OrderInv
  <1>9. MemoryInv'
    <2>1. Shows(inSeg, id) /\ \A k \in DOMAIN toWorker' : Shows(inSeg, toWorker'[k])
      BY <1>1, <1>2, <1>4 DEF MemoryInv
    <2>2. job'.picture[1] \in job'.id .. frame
      BY <1>5, <2>1 DEF Shows
    <2>3. /\ pc' = pc /\ frame' = frame /\ inSeg' = inSeg /\ inHand' = inHand /\ received' = received
          /\ \A p, x : Shows(p, x)' <=> Shows(p, x)
      BY WorkerFrame DEF Worker
    <2> QED BY <1>1, <1>2, <1>5, <2>1, <2>2, <2>3 DEF MemoryInv
  <1>10. CallInv'
    <2>1. /\ pc' = pc /\ frame' = frame /\ inSeg' = inSeg /\ late' = late /\ answered' = answered
          /\ Waiting' <=> Waiting
      BY WorkerFrame DEF Worker
    <2> SUFFICES ASSUME ~ late PROVE CallInv'
      BY <2>1 DEF CallInv
    <2>2. toWorker' = << >> /\ id = frame
      BY <1>1, <1>2, <1>4 DEF CallInv
    <2>3. inSeg[1] = frame
      BY <1>1, <1>2 DEF CallInv, Picture
    <2> QED BY <1>1, <1>2, <1>5, <2>1, <2>2, <2>3 DEF CallInv, Picture
  <1> QED BY <1>3, <1>6, <1>8, <1>9, <1>10 DEF LinkInv

LEMMA EnqueueKeeps ==
    ASSUME LinkInv, Enqueue
    PROVE  LinkInv'
  <1>1. /\ wpc = "read" /\ wpc' = "loop"
        /\ job' = [job EXCEPT !.picture[2] = inSeg[2]]
        /\ m_queue' = Append(m_queue, job')
        /\ toClient' = Append(toClient, Reply(job.id))
        /\ UNCHANGED <<toWorker, memory>>
    BY DEF Enqueue
  <1>2. TypeOK /\ OrderInv /\ MemoryInv /\ CallInv
    BY DEF LinkInv
  <1>3. UNCHANGED <<client, inHand, history, inSeg>> /\ PlaceInv' /\ toWorker' = toWorker
        /\ outSeg' = outSeg /\ files' = files /\ attached' = attached
    BY <1>1, WorkerFrame DEF Worker, memory
  <1>4. /\ job.id \in 1 .. N /\ job.id \in Nat /\ inSeg[2] \in 0 .. N /\ job \in Frames
        /\ m_queue \in Seq(Frames) /\ toClient \in Seq(Messages)
    <2>1. /\ job.id \in 0 .. N /\ inSeg[2] \in 0 .. N /\ job \in Frames /\ job.id \in Nat
      BY <1>2, Types
    <2>2. job.id >= 1
      BY <1>1, <1>2 DEF OrderInv
    <2> QED BY <1>2, <2>1, <2>2 DEF TypeOK, Messages
  <1>5. /\ job' \in Frames /\ job'.id = job.id
        /\ job'.picture[1] = job.picture[1] /\ job'.picture[2] = inSeg[2]
        /\ job'.picture \in Pictures
    <2>1. /\ job' \in Frames /\ job'.id = job.id
          /\ job'.picture = [job.picture EXCEPT ![2] = inSeg[2]]
          /\ job.picture \in Pictures
      BY <1>1, <1>4, HalfOf
    <2> QED BY <1>4, <2>1 DEF Pictures
  <1>6. Reply(job.id) \in Messages /\ Reply(job.id).id = job.id /\ Reply(job.id).type = "reply"
    BY <1>4 DEF Reply, Messages
  <1>7. /\ \A k \in DOMAIN m_queue' :
              \/ k \in DOMAIN m_queue /\ m_queue'[k] = m_queue[k]
              \/ m_queue'[k] = job' /\ \A j \in DOMAIN m_queue : j < k
        /\ \A k \in DOMAIN toClient' :
              \/ k \in DOMAIN toClient /\ toClient'[k] = toClient[k]
              \/ toClient'[k] = Reply(job.id)
        /\ m_queue' \in Seq(Frames) /\ toClient' \in Seq(Messages)
    <2>1. /\ m_queue' \in Seq(Frames)
          /\ \A k \in DOMAIN m_queue' :
              \/ k \in DOMAIN m_queue /\ m_queue'[k] = m_queue[k]
              \/ m_queue'[k] = job' /\ \A j \in DOMAIN m_queue : j < k
      <3>1. \A f \in Frames : /\ Append(m_queue, f) \in Seq(Frames)
                             /\ \A k \in DOMAIN Append(m_queue, f) :
                                   \/ k \in DOMAIN m_queue /\ Append(m_queue, f)[k] = m_queue[k]
                                   \/ /\ Append(m_queue, f)[k] = f
                                      /\ \A j \in DOMAIN m_queue : j < k
        BY <1>4, AppendKeeps
      <3>2. m_queue' = Append(m_queue, job') /\ job' \in Frames
        BY <1>1, <1>5
      <3> QED BY ONLY <3>1, <3>2
    <2>2. /\ toClient' \in Seq(Messages)
          /\ \A k \in DOMAIN toClient' :
              \/ k \in DOMAIN toClient /\ toClient'[k] = toClient[k]
              \/ toClient'[k] = Reply(job.id)
      <3>1. \A m \in Messages : /\ Append(toClient, m) \in Seq(Messages)
                               /\ \A k \in DOMAIN Append(toClient, m) :
                                     \/ k \in DOMAIN toClient /\ Append(toClient, m)[k] = toClient[k]
                                     \/ Append(toClient, m)[k] = m
        BY <1>4, AppendKeeps
      <3> QED BY <1>1, <1>6, <3>1
    <2> QED BY <2>1, <2>2
  <1>8. TypeOK'
    BY <1>1, <1>2, <1>3, <1>5, <1>7 DEF TypeOK, client, history, Messages
  <1>9. \A x : Before(x) => Before(x)'
    BY <1>1, <1>3, <1>5, <1>7, WorkerFrame DEF Before, Worker
  <1>10. OrderInv'
    <2>1. /\ job.id <= Asked /\ \A l \in DOMAIN toWorker : job.id <= toWorker[l]
          /\ \A k \in DOMAIN m_queue : m_queue[k].id <= job.id
          /\ job.id >= 1
      BY <1>1, <1>2 DEF OrderInv
    <2>2. ASSUME NEW k \in DOMAIN m_queue'
          PROVE  /\ m_queue'[k].id >= 1 /\ m_queue'[k].id <= Asked
                 /\ \A l \in DOMAIN toWorker : m_queue'[k].id <= toWorker[l]
                 /\ \A l \in DOMAIN m_queue' : k < l => m_queue'[k].id <= m_queue'[l].id
      <3>1. /\ \A l \in DOMAIN m_queue' : l \in Nat /\ m_queue'[l].id \in Nat
        <4>1. \A f \in Frames : f.id \in Nat
          BY DEF Frames
        <4> QED BY <1>7, <4>1, Elements
      <3>2. m_queue'[k].id <= job.id
        BY <1>4, <1>5, <1>7, <2>1
      <3>3. ASSUME NEW l \in DOMAIN m_queue', k < l PROVE m_queue'[k].id <= m_queue'[l].id
        <4>1. CASE m_queue'[l] = job'
          BY <1>5, <3>2, <4>1
        <4>2. CASE l \in DOMAIN m_queue /\ m_queue'[l] = m_queue[l]
          <5>1. k \in DOMAIN m_queue /\ m_queue'[k] = m_queue[k]
            BY <1>7, <3>1, <3>3, <4>2
          <5> QED BY <1>2, <3>3, <4>2, <5>1 DEF OrderInv
        <4> QED BY <1>7, <4>1, <4>2
      <3> QED BY <1>2, <1>5, <1>7, <2>1, <3>3 DEF OrderInv
    <2>3. \A k \in DOMAIN toClient' :
             /\ toClient'[k].id <= Asked
             /\ toClient'[k].type = "frameProcessed" => Before(toClient'[k].id)
      BY <1>2, <1>6, <1>7, <2>1 DEF OrderInv
    <2>4. Asked' = Asked /\ pc' = pc /\ inHand' = inHand
      BY WorkerFrame DEF Worker
    <2> QED BY <1>1, <1>2, <1>3, <1>9, <2>2, <2>3, <2>4 DEF OrderInv
  <1>11. MemoryInv'
    <2>1. Shows(job'.picture, job'.id)
      <3>1. job.picture[1] \in job.id .. frame /\ inSeg[2] \in job.id .. frame
        BY <1>1, <1>2 DEF MemoryInv, Shows
      <3>2. \A h \in 1 .. 2 : h = 1 \/ h = 2
        OBVIOUS
      <3> QED BY <1>5, <3>1, <3>2 DEF Shows
    <2>2. /\ pc' = pc /\ frame' = frame /\ inSeg' = inSeg /\ inHand' = inHand /\ received' = received
          /\ \A p, x : Shows(p, x)' <=> Shows(p, x)
      BY WorkerFrame DEF Worker
    <2>3. \A k \in DOMAIN m_queue' : Shows(m_queue'[k].picture, m_queue'[k].id)
      BY <1>2, <1>7, <2>1 DEF MemoryInv
    <2>4. \A k \in DOMAIN toClient' :
             toClient'[k].type = "frameProcessed" => Shows(outSeg, toClient'[k].id)
      BY <1>2, <1>6, <1>7 DEF MemoryInv
    <2> QED BY <1>1, <1>2, <1>3, <2>2, <2>3, <2>4 DEF MemoryInv
  <1>12. CallInv'
    <2>1. /\ pc' = pc /\ frame' = frame /\ inSeg' = inSeg /\ late' = late /\ answered' = answered
          /\ Waiting' <=> Waiting
      BY WorkerFrame DEF Worker
    <2> SUFFICES ASSUME ~ late PROVE CallInv'
      BY <2>1 DEF CallInv
    <2>2. toWorker = << >> /\ job.id = frame /\ job.picture[1] = frame /\ inSeg[2] = frame
      BY <1>1, <1>2 DEF CallInv, Picture
    <2>3. job'.picture = Picture(job'.id)
      <3>1. job'.id \in 0 .. N
        BY <1>4, <1>5
      <3> QED BY <1>5, <2>2, <3>1, Halves
    <2>4. \A k \in DOMAIN m_queue' : m_queue'[k].picture = Picture(m_queue'[k].id)
      BY <1>2, <1>7, <2>3 DEF CallInv, Picture
    <2> QED BY <1>1, <1>2, <1>3, <2>1, <2>2, <2>4 DEF CallInv, Picture
  <1> QED BY <1>3, <1>8, <1>10, <1>11, <1>12 DEF LinkInv

LEMMA TakeFrameKeeps ==
    ASSUME LinkInv, TakeFrame
    PROVE  LinkInv'
  <1>1. /\ wpc = "loop" /\ wpc' = "write" /\ m_queue # << >>
        /\ job' = Head(m_queue) /\ m_queue' = Tail(m_queue)
        /\ UNCHANGED <<channel, memory>>
    BY DEF TakeFrame
  <1>2. TypeOK /\ OrderInv /\ MemoryInv /\ CallInv
    BY DEF LinkInv
  <1>3. /\ UNCHANGED <<client, inHand, history, inSeg>> /\ PlaceInv'
        /\ toWorker' = toWorker /\ toClient' = toClient /\ outSeg' = outSeg
        /\ files' = files /\ attached' = attached
    BY <1>1, WorkerFrame DEF Worker, memory, channel
  <1>4. /\ job' \in Frames /\ job' = m_queue[1] /\ 1 \in DOMAIN m_queue
        /\ m_queue' \in Seq(Frames)
        /\ \A k \in DOMAIN m_queue' :
              k + 1 \in DOMAIN m_queue /\ k + 1 > 1 /\ m_queue'[k] = m_queue[k + 1]
        /\ \A k, l \in DOMAIN m_queue' : k < l => k + 1 < l + 1
    <2>1. m_queue \in Seq(Frames)
      BY <1>2 DEF TypeOK
    <2> QED BY <1>1, <2>1, HeadAndTail
  <1>5. TypeOK'
    BY <1>1, <1>2, <1>3, <1>4 DEF TypeOK, client, history
  <1>6. \A x : Before(x) => Before(x)'
    BY <1>1, <1>3, <1>4, WorkerFrame DEF Before, Worker
  <1>7. OrderInv'
    <2>1. /\ job'.id >= 1 /\ job'.id <= Asked /\ \A l \in DOMAIN toWorker : job'.id <= toWorker[l]
      BY <1>2, <1>4 DEF OrderInv
    <2>2. ASSUME NEW k \in DOMAIN m_queue'
          PROVE  /\ m_queue'[k].id >= 1 /\ m_queue'[k].id <= Asked
                 /\ \A l \in DOMAIN toWorker : m_queue'[k].id <= toWorker[l]
                 /\ \A l \in DOMAIN m_queue' : k < l => m_queue'[k].id <= m_queue'[l].id
                 /\ job'.id <= m_queue'[k].id
      BY <1>2, <1>4 DEF OrderInv
    <2>3. Asked' = Asked /\ pc' = pc /\ inHand' = inHand
      BY WorkerFrame DEF Worker
    <2> QED BY <1>1, <1>2, <1>3, <1>6, <2>1, <2>2, <2>3 DEF OrderInv
  <1>8. MemoryInv'
    <2>1. Shows(job'.picture, job'.id)
      BY <1>2, <1>4 DEF MemoryInv
    <2>2. /\ pc' = pc /\ frame' = frame /\ inSeg' = inSeg /\ inHand' = inHand /\ received' = received
          /\ \A p, x : Shows(p, x)' <=> Shows(p, x)
      BY WorkerFrame DEF Worker
    <2>3. \A k \in DOMAIN m_queue' : Shows(m_queue'[k].picture, m_queue'[k].id)
      BY <1>2, <1>4 DEF MemoryInv
    <2> QED BY <1>1, <1>2, <1>3, <2>1, <2>2, <2>3 DEF MemoryInv
  <1>9. CallInv'
    <2>1. /\ pc' = pc /\ frame' = frame /\ inSeg' = inSeg /\ late' = late /\ answered' = answered
          /\ Waiting' <=> Waiting
      BY WorkerFrame DEF Worker
    <2>2. ~ late => \A k \in DOMAIN m_queue' : m_queue'[k].picture = Picture(m_queue'[k].id)
      BY <1>2, <1>4 DEF CallInv, Picture
    <2> QED BY <1>1, <1>2, <1>3, <2>1, <2>2 DEF CallInv, Picture
  <1> QED BY <1>3, <1>5, <1>7, <1>8, <1>9 DEF LinkInv

\* The two halves of the answer; the signal goes out with the second.
LEMMA AnswerKeeps ==
    ASSUME LinkInv, WriteAnswer \/ SendAnswer
    PROVE  LinkInv'
  <1>1. /\ job' = job /\ m_queue' = m_queue /\ toWorker' = toWorker /\ attached' = attached
        /\ files' \in {files, files \cup {"out"}}
        /\ \/ /\ wpc = "write" /\ wpc' = "write2"
              /\ outSeg' = [outSeg EXCEPT ![1] = job.picture[1]]
              /\ toClient' = toClient
           \/ /\ wpc = "write2" /\ wpc' = "loop"
              /\ outSeg' = [outSeg EXCEPT ![2] = job.picture[2]]
              /\ toClient' = Append(toClient, Signal(job.id))
    BY DEF WriteAnswer, SendAnswer, channel
  <1>2. TypeOK /\ OrderInv /\ MemoryInv /\ CallInv
    BY DEF LinkInv
  <1>3. UNCHANGED <<client, inHand, history, inSeg>> /\ PlaceInv'
    BY WorkerFrame DEF Worker
  <1>4. /\ job.id \in 1 .. N /\ job.id \in Nat /\ frame \in Nat
        /\ outSeg \in Pictures /\ toClient \in Seq(Messages)
        /\ job.picture \in Pictures
    <2>1. job.id \in 0 .. N /\ job.id \in Nat /\ outSeg \in Pictures /\ job \in Frames /\ frame \in Nat
      BY <1>2, Types
    <2>2. job.id >= 1
      BY <1>1, <1>2 DEF OrderInv
    <2>3. job.picture \in Pictures
      BY <2>1 DEF Frames, Pictures
    <2> QED BY <1>2, <2>1, <2>2, <2>3 DEF TypeOK, Messages
  <1>5. /\ outSeg' \in Pictures
        /\ \A h \in 1 .. 2 : outSeg'[h] = outSeg[h] \/ outSeg'[h] = job.picture[h]
        /\ wpc = "write" => outSeg'[1] = job.picture[1]
        /\ wpc = "write2" => outSeg'[1] = outSeg[1] /\ outSeg'[2] = job.picture[2]
    <2>1. /\ outSeg \in Pictures /\ job.picture \in Pictures
          /\ job.picture[1] \in 0 .. N /\ job.picture[2] \in 0 .. N
      BY <1>4, Halves
    <2>2. CASE wpc = "write" /\ outSeg' = [outSeg EXCEPT ![1] = job.picture[1]]
      BY <2>1, <2>2 DEF Pictures
    <2>3. CASE wpc = "write2" /\ outSeg' = [outSeg EXCEPT ![2] = job.picture[2]]
      BY <2>1, <2>3 DEF Pictures
    <2> QED BY <1>1, <2>2, <2>3
  <1>6. /\ Signal(job.id) \in Messages /\ Signal(job.id).id = job.id
        /\ Signal(job.id).type = "frameProcessed"
    BY <1>4 DEF Signal, Messages
  <1>7. /\ \A k \in DOMAIN toClient' :
              \/ k \in DOMAIN toClient /\ toClient'[k] = toClient[k]
              \/ wpc = "write2" /\ toClient'[k] = Signal(job.id)
        /\ toClient' \in Seq(Messages)
    <2>1. \A m \in Messages : /\ Append(toClient, m) \in Seq(Messages)
                             /\ \A k \in DOMAIN Append(toClient, m) :
                                   \/ k \in DOMAIN toClient /\ Append(toClient, m)[k] = toClient[k]
                                   \/ Append(toClient, m)[k] = m
      BY <1>4, AppendKeeps
    <2> QED BY <1>1, <1>4, <1>6, <2>1
  <1>8. TypeOK'
    <2>1. {inSeg, outSeg}' \subseteq (0 .. N) \X (0 .. N)
      BY <1>2, <1>3, <1>5 DEF TypeOK, Pictures
    <2> QED BY <1>1, <1>2, <1>3, <1>7, <2>1 DEF TypeOK, client, history, Messages
  <1>9. /\ pc' = pc /\ frame' = frame /\ inSeg' = inSeg /\ inHand' = inHand /\ received' = received
        /\ late' = late /\ answered' = answered /\ Asked' = Asked /\ (Waiting' <=> Waiting)
        /\ \A p, x : Shows(p, x)' <=> Shows(p, x)
    BY WorkerFrame DEF Worker
  <1>10. \A x : Before(x) => Before(x)'
    BY <1>1, <1>9 DEF Before
  <1>11. OrderInv'
    <2>1. \A x : x = job.id => Before(x)'
      <3>1. /\ job.id <= Asked /\ \A l \in DOMAIN toWorker : job.id <= toWorker[l]
            /\ \A l \in DOMAIN m_queue : job.id <= m_queue[l].id
        BY <1>1, <1>2 DEF OrderInv
      <3> QED BY <1>1, <1>4, <1>9, <3>1 DEF Before
    <2>2. job.id <= Asked
      BY <1>1, <1>2 DEF OrderInv
    <2>3. \A k \in DOMAIN toClient' :
             /\ toClient'[k].id <= Asked
             /\ toClient'[k].type = "frameProcessed" =>
                   \A x : x = toClient'[k].id => Before(x)'
      <3> SUFFICES ASSUME NEW k \in DOMAIN toClient'
                   PROVE  /\ toClient'[k].id <= Asked
                          /\ toClient'[k].type = "frameProcessed" =>
                                \A x : x = toClient'[k].id => Before(x)'
        OBVIOUS
      <3>1. CASE k \in DOMAIN toClient /\ toClient'[k] = toClient[k]
        <4>1. /\ toClient[k].id <= Asked
              /\ toClient[k].type = "frameProcessed" => Before(toClient[k].id)
          BY <1>2, <3>1 DEF OrderInv
        <4>2. toClient[k].type = "frameProcessed" => \A x : x = toClient[k].id => Before(x)'
          BY <1>10, <4>1
        <4> QED BY <3>1, <4>1, <4>2
      <3>2. CASE toClient'[k] = Signal(job.id)
        BY <1>6, <2>1, <2>2, <3>2
      <3> QED BY <1>7, <3>1, <3>2
    <2>4. pc' = "receive" => Before(inHand.id)'
      BY <1>2, <1>9, <1>10 DEF OrderInv
    <2> QED BY <1>1, <1>2, <1>9, <2>3, <2>4 DEF OrderInv
  <1>12. MemoryInv'
    <2>1. Shows(job.picture, job.id)
      BY <1>1, <1>2 DEF MemoryInv
    <2>2. ASSUME NEW x \in Nat, x <= job.id, Shows(outSeg, x) PROVE Shows(outSeg', x)
      BY <1>4, <1>5, <2>1, <2>2 DEF Shows
    <2>3. \A k \in DOMAIN toClient :
             toClient[k].type = "frameProcessed" => Shows(outSeg', toClient[k].id)
      <3>1. \A k \in DOMAIN toClient :
               toClient[k].type = "frameProcessed" =>
                  /\ toClient[k].id <= job.id /\ toClient[k].id \in Nat
                  /\ Shows(outSeg, toClient[k].id)
        BY <1>1, <1>2, Types DEF OrderInv, MemoryInv, Before
      <3> QED BY <2>2, <3>1
    <2>4. pc = "receive" => Shows(outSeg', inHand.id)
      <3>1. pc = "receive" => inHand.id <= job.id /\ inHand.id \in Nat /\ Shows(outSeg, inHand.id)
        BY <1>1, <1>2, Types DEF OrderInv, MemoryInv, Before
      <3> QED BY <2>2, <3>1
    <2>5. Shows(outSeg', 0)
      BY <1>2, <1>4, <2>2 DEF MemoryInv
    <2>6. wpc = "write2" => Shows(outSeg', job.id)
      <3>1. wpc = "write2" => outSeg[1] \in job.id .. frame
        <4>1. wpc = "write2" => outSeg[1] >= job.id
          BY <1>2 DEF MemoryInv
        <4>2. outSeg[1] \in 0 .. frame
          BY <1>2 DEF MemoryInv, Shows
        <4> QED BY <1>4, <4>1, <4>2
      <3>2. \A h \in 1 .. 2 : h = 1 \/ h = 2
        OBVIOUS
      <3>3. job.picture[2] \in job.id .. frame
        BY <2>1 DEF Shows
      <3> QED BY <1>5, <3>1, <3>2, <3>3 DEF Shows
    <2>7. wpc' = "write2" => outSeg'[1] >= job.id
      <3>1. wpc' = "write2" => outSeg'[1] = job.picture[1]
        BY <1>1, <1>5
      <3>2. job.picture[1] \in job.id .. frame
        BY <2>1 DEF Shows
      <3> QED BY <1>4, <3>1, <3>2
    <2>8. \A k \in DOMAIN toClient' :
             toClient'[k].type = "frameProcessed" => Shows(outSeg', toClient'[k].id)
      BY <1>6, <1>7, <2>3, <2>6
    <2> QED BY <1>1, <1>2, <1>9, <2>1, <2>4, <2>5, <2>7, <2>8 DEF MemoryInv
  <1>13. CallInv'
    <2> SUFFICES ASSUME ~ late PROVE CallInv'
      BY <1>9 DEF CallInv
    <2>1. \A k \in DOMAIN toClient' :
             \/ k \in DOMAIN toClient /\ toClient'[k] = toClient[k]
             \/ toClient'[k].type # "reply"
      BY <1>6, <1>7
    <2> QED BY <1>1, <1>2, <1>9, <2>1 DEF CallInv, Picture
  <1> QED BY <1>3, <1>8, <1>11, <1>12, <1>13 DEF LinkInv

LEMMA StartAndDieKeep ==
    ASSUME LinkInv, Start \/ Die
    PROVE  LinkInv'
  <1>1. /\ wpc' \in {"loop", "gone"}
        /\ \/ wpc = "starting" /\ m_queue' = m_queue /\ toWorker' = toWorker
           \/ m_queue' = << >> /\ toWorker' = << >>
        /\ job' = job /\ toClient' = toClient /\ outSeg' = outSeg
        /\ files' = files /\ attached' = attached
    BY DEF Start, Die, channel, memory
  <1>2. TypeOK /\ OrderInv /\ MemoryInv /\ CallInv
    BY DEF LinkInv
  <1>3. /\ UNCHANGED <<client, inHand, history, inSeg>> /\ PlaceInv'
        /\ pc' = pc /\ frame' = frame /\ inSeg' = inSeg /\ inHand' = inHand /\ received' = received
        /\ late' = late /\ answered' = answered /\ Asked' = Asked /\ (Waiting' <=> Waiting)
        /\ \A p, x : Shows(p, x)' <=> Shows(p, x)
    BY WorkerFrame DEF Worker
  <1>4. TypeOK'
    <2>1. m_queue' \in Seq(Frames) /\ toWorker' \in Seq(1 .. N)
      <3>1. << >> \in Seq(Frames) /\ << >> \in Seq(1 .. N)
        OBVIOUS
      <3>2. m_queue \in Seq(Frames) /\ toWorker \in Seq(1 .. N)
        BY <1>2 DEF TypeOK
      <3> QED BY <1>1, <3>1, <3>2
    <2>2. /\ {inSeg, outSeg}' = {inSeg, outSeg}
          /\ wpc' \in {"starting", "loop", "read", "write", "write2", "gone"}
      BY <1>1, <1>3
    <2> QED BY <1>1, <1>2, <1>3, <2>1, <2>2 DEF TypeOK, client, history
  <1>5. \A x : Before(x) => Before(x)'
    BY <1>1, <1>3 DEF Before
  <1>6. OrderInv'
    BY <1>1, <1>2, <1>3, <1>5 DEF OrderInv
  <1>7. MemoryInv'
    BY <1>1, <1>2, <1>3 DEF MemoryInv
  <1>8. CallInv'
    BY <1>1, <1>2, <1>3 DEF CallInv, Picture
  <1> QED BY <1>3, <1>4, <1>6, <1>7, <1>8 DEF LinkInv

\* What is where on the way of a frame to the worker and of its answer back.
THEOREM LinkInvariance == Safety => []LinkInv
  <1>1. LinkInv /\ [Next]_vars => LinkInv'
    <2> SUFFICES ASSUME LinkInv, [Next]_vars
                 PROVE  LinkInv'
      OBVIOUS
    <2>1. CASE UNCHANGED vars
      BY <2>1 DEF LinkInv, TypeOK, PlaceInv, OrderInv, MemoryInv, CallInv, Asked, Asking, Waiting,
                  Before, Shows, Picture, vars, client, worker, channel, memory, history
    <2>2. CASE Client
      BY <2>2, MovesKeep, WriteKeeps, CallKeeps, ReplyKeeps, SignalKeeps, ReceiveKeeps, CloseKeeps
         DEF Client, Moves
    <2>3. CASE Worker \/ Die
      BY <2>3, TakeCallKeeps, EnqueueKeeps, TakeFrameKeeps, AnswerKeeps, StartAndDieKeep DEF Worker
    <2> QED BY <2>1, <2>2, <2>3 DEF Next
  <1> QED BY <1>1, InitLinkInv, PTL DEF Safety

\* TypeOK for every number of frames.
THEOREM TypeCorrect == Safety => []TypeOK
  <1>1. LinkInv => TypeOK
    BY DEF LinkInv
  <1> QED BY <1>1, LinkInvariance, PTL

\* The worker works on the picture it was called with, as long as no call has timed
\* out, and no answer shows a frame before its own, timeouts or not.
THEOREM PicturesAreRight == Safety => []PicturesFit
  <1>1. LinkInv => PicturesFit
    BY DEF LinkInv, CallInv, MemoryInv, Shows, PicturesFit
  <1> QED BY <1>1, LinkInvariance, PTL

(***************************************************************************)
(* The answers among the messages.                                         *)
(***************************************************************************)
\* A set of numbers has a least one.
LEMMA Least ==
    ASSUME NEW T \in SUBSET Nat, T # {}
    PROVE  \E x \in T : \A y \in T : x <= y
  <1> DEFINE R == {ss \in Nat \X Nat : ss[1] < ss[2]}
  <1>1. R = OpToRel(<, Nat)
    BY DEF OpToRel
  <1>2. IsWellFoundedOn(R, Nat)
    BY <1>1, NatLessThanWellFounded
  <1>3. \A x, y \in Nat : <<y, x>> \notin R => x <= y
    OBVIOUS
  <1> HIDE DEF R
  <1>4. \E x \in T : \A y \in T : ~ (<<y, x>> \in R)
    BY <1>2, WFMin
  <1> QED BY <1>3, <1>4

\* One message more, behind those whose answers have the ids r.
After(r, m) == IF m.type = "frameProcessed" THEN Append(r, m.id) ELSE r

\* f goes through the first n messages of s.
Steps(f, s, n) == f[0] = << >> /\ \A k \in 1 .. n : f[k] = After(f[k - 1], s[k])

LEMMA AfterType ==
    ASSUME NEW r \in Seq(Nat), NEW m \in Messages
    PROVE  After(r, m) \in Seq(Nat)
  <1>1. m.id \in Nat
    BY FramesAssumption DEF Messages
  <1> QED BY <1>1 DEF After

\* There is such an f, ...
LEMMA StepsExist ==
    ASSUME NEW s \in Seq(Messages)
    PROVE  \A n \in 0 .. Len(s) : \E f \in [0 .. n -> Seq(Nat)] : Steps(f, s, n)
  <1> DEFINE T == {n \in 0 .. Len(s) : ~ \E f \in [0 .. n -> Seq(Nat)] : Steps(f, s, n)}
  <1> SUFFICES ASSUME T # {} PROVE FALSE
    OBVIOUS
  <1>1. T \in SUBSET Nat
    OBVIOUS
  <1>2. PICK n \in T : \A y \in T : n <= y
    <2> HIDE DEF T
    <2> QED BY <1>1, Least
  <1>3. n # 0
    <2> DEFINE f == [k \in 0 .. 0 |-> << >>]
    <2>1. f \in [0 .. 0 -> Seq(Nat)] /\ Steps(f, s, 0)
      BY DEF Steps
    <2> QED BY <2>1
  <1>4. n \in 1 .. Len(s) /\ n - 1 \in 0 .. Len(s) /\ n - 1 \notin T
    <2>1. n \in 1 .. Len(s) /\ n - 1 \in 0 .. Len(s) /\ ~ (n <= n - 1)
      BY <1>3
    <2> HIDE DEF T
    <2> QED BY <1>2, <2>1
  <1>5. PICK f \in [0 .. n - 1 -> Seq(Nat)] : Steps(f, s, n - 1)
    BY <1>4
  <1> DEFINE g == [k \in 0 .. n |-> IF k = n THEN After(f[n - 1], s[n]) ELSE f[k]]
  <1>6. /\ \A k \in 0 .. n : k # n => k \in 0 .. n - 1
        /\ \A k \in 1 .. n : k \in 0 .. n /\ k - 1 \in 0 .. n /\ k - 1 # n /\ (k # n => k \in 1 .. n - 1)
        /\ n - 1 \in 0 .. n - 1 /\ 0 \in 0 .. n /\ 0 # n
    BY <1>4
  <1>7. g \in [0 .. n -> Seq(Nat)]
    <2>1. s[n] \in Messages /\ f[n - 1] \in Seq(Nat)
      BY <1>4, <1>5, <1>6
    <2>2. After(f[n - 1], s[n]) \in Seq(Nat)
      BY <2>1, AfterType
    <2> QED BY <1>5, <1>6, <2>2
  <1>8. Steps(g, s, n)
    <2>1. g[0] = << >>
      BY <1>5, <1>6 DEF Steps
    <2>2. ASSUME NEW k \in 1 .. n PROVE g[k] = After(g[k - 1], s[k])
      BY <1>5, <1>6 DEF Steps
    <2> HIDE DEF g
    <2> QED BY <2>1, <2>2 DEF Steps
  <1> QED BY <1>2, <1>7, <1>8

\* ... and only one.
LEMMA StepsAgree ==
    ASSUME NEW s, NEW n \in Nat, NEW f, NEW g, Steps(f, s, n), Steps(g, s, n)
    PROVE  \A k \in 0 .. n : f[k] = g[k]
  <1> DEFINE T == {k \in 0 .. n : f[k] # g[k]}
  <1> SUFFICES ASSUME T # {} PROVE FALSE
    OBVIOUS
  <1>1. T \in SUBSET Nat
    OBVIOUS
  <1>2. PICK k \in T : \A y \in T : k <= y
    <2> HIDE DEF T
    <2> QED BY <1>1, Least
  <1>3. k # 0
    BY DEF Steps
  <1>4. k \in 1 .. n /\ k - 1 \in 0 .. n /\ k - 1 \notin T
    <2>1. k \in 1 .. n /\ k - 1 \in 0 .. n /\ ~ (k <= k - 1)
      BY <1>3
    <2> HIDE DEF T
    <2> QED BY <1>2, <2>1
  <1>5. f[k - 1] = g[k - 1]
    BY <1>4
  <1>6. f[k] = g[k]
    BY <1>4, <1>5 DEF Steps
  <1> QED BY <1>6

\* AnswersIn is what it leads to.
LEMMA AnswersAre ==
    ASSUME NEW s \in Seq(Messages), NEW f, Steps(f, s, Len(s))
    PROVE  AnswersIn(s) = f[Len(s)] /\ AnswersIn(s) \in Seq(Nat)
  <1> DEFINE D == 0 .. Len(s)
             P(h) == h = [k \in D |->
                             IF k = 0 THEN << >>
                             ELSE IF s[k].type = "frameProcessed" THEN Append(h[k - 1], s[k].id)
                             ELSE h[k - 1]]
             G == CHOOSE h : P(h)
  <1>1. Len(s) \in Nat /\ Len(s) \in D /\ 0 \in D
    OBVIOUS
  <1>2. PICK e \in [D -> Seq(Nat)] : Steps(e, s, Len(s))
    BY <1>1, StepsExist
  <1>3. P(e)
    <2>1. \A k \in D : k # 0 => k \in 1 .. Len(s)
      OBVIOUS
    <2>2. \A k \in D : e[k] = IF k = 0 THEN << >>
                              ELSE IF s[k].type = "frameProcessed" THEN Append(e[k - 1], s[k].id)
                              ELSE e[k - 1]
      BY <1>2, <2>1 DEF Steps, After
    <2> HIDE DEF D
    <2> QED BY <1>2, <2>2
  <1>4. P(G)
    <2> HIDE DEF P
    <2> QED BY <1>3
  <1>5. Steps(G, s, Len(s))
    <2>1. \A k \in 1 .. Len(s) : k \in D /\ k # 0
      OBVIOUS
    <2> HIDE DEF G, D
    <2>2. G[0] = << >>
      BY <1>1, <1>4
    <2>3. \A k \in 1 .. Len(s) : G[k] = After(G[k - 1], s[k])
      BY <1>4, <2>1 DEF After
    <2> QED BY <2>2, <2>3 DEF Steps
  <1>6. AnswersIn(s) = G[Len(s)]
    BY DEF AnswersIn
  <1> HIDE DEF G, D, P
  <1>7. G[Len(s)] = f[Len(s)] /\ G[Len(s)] = e[Len(s)]
    BY <1>1, <1>2, <1>5, StepsAgree DEF D
  <1> QED BY <1>1, <1>2, <1>6, <1>7

LEMMA NoAnswers == AnswersIn(<< >>) = << >>
  <1> DEFINE f == [k \in 0 .. 0 |-> << >>]
  <1>1. << >> \in Seq(Messages) /\ Len(<< >>) = 0
    OBVIOUS
  <1>2. Steps(f, << >>, Len(<< >>)) /\ f[0] = << >>
    BY <1>1 DEF Steps
  <1> HIDE DEF f
  <1> QED BY <1>1, <1>2, AnswersAre

LEMMA MoreAnswers ==
    ASSUME NEW s \in Seq(Messages), NEW m \in Messages
    PROVE  AnswersIn(Append(s, m)) = After(AnswersIn(s), m)
  <1> DEFINE t == Append(s, m)
             n == Len(s)
  <1>1. /\ t \in Seq(Messages) /\ n \in Nat /\ Len(t) = n + 1 /\ t[n + 1] = m
        /\ \A k \in 1 .. n : t[k] = s[k] /\ k \in 1 .. n + 1
        /\ n + 1 \in 1 .. n + 1 /\ (n + 1) - 1 = n
    BY AppendProperties
  <1> HIDE DEF t, n
  <1>2. PICK f \in [0 .. n + 1 -> Seq(Nat)] : Steps(f, t, n + 1)
    <2>1. n + 1 \in 0 .. Len(t)
      BY <1>1
    <2> QED BY <1>1, <2>1, StepsExist
  <1>3. Steps(f, s, n)
    BY <1>1, <1>2 DEF Steps
  <1>4. AnswersIn(s) = f[n] /\ AnswersIn(t) = f[n + 1]
    BY <1>1, <1>2, <1>3, AnswersAre DEF n
  <1>5. f[n + 1] = After(f[n], m)
    BY <1>1, <1>2 DEF Steps
  <1> QED BY <1>4, <1>5 DEF t

LEMMA AppendBehind ==
    \A r, s \in Seq(Nat) : \A x \in Nat : r \o Append(s, x) = Append(r \o s, x)
  OBVIOUS

LEMMA InFront ==
    \A s \in Seq(Nat) : \A x \in Nat :
        /\ <<x>> \in Seq(Nat) /\ <<x>> \o s # << >>
        /\ Head(<<x>> \o s) = x /\ Tail(<<x>> \o s) = s
        /\ Append(s, x) = s \o <<x>>
  OBVIOUS

LEMMA Regrouped == \A r, s, t \in Seq(Nat) : (r \o s) \o t = r \o (s \o t)
  BY ConcatAssociative

\* Three sequences of ids, one behind the other.
Joined(r, s, t) == (r \o s) \o t

LEMMA JoinedType ==
    \A r, s, t \in Seq(Nat) : r \o s \in Seq(Nat) /\ Joined(r, s, t) \in Seq(Nat)
  BY DEF Joined

\* What is joined to the last of them is joined to all.
LEMMA BehindAll ==
    \A r, s, t \in Seq(Nat) : \A x \in Nat :
        Joined(r, s, Append(t, x)) = Append(Joined(r, s, t), x)
  <1> SUFFICES ASSUME NEW r \in Seq(Nat), NEW s \in Seq(Nat), NEW t \in Seq(Nat), NEW x \in Nat
               PROVE  Joined(r, s, Append(t, x)) = Append(Joined(r, s, t), x)
    OBVIOUS
  <1> DEFINE front == r \o s
  <1>1. front \in Seq(Nat)
    BY JoinedType
  <1> HIDE DEF front
  <1>2. front \o Append(t, x) = Append(front \o t, x)
    BY <1>1, AppendBehind
  <1> QED BY <1>2 DEF Joined, front

\* The first of the first of them is the first of all.
LEMMA FirstOfAll ==
    \A x \in Nat : \A r, s, t \in Seq(Nat) :
        /\ Joined(<<x>> \o r, s, t) # << >>
        /\ Head(Joined(<<x>> \o r, s, t)) = x
        /\ Tail(Joined(<<x>> \o r, s, t)) = Joined(r, s, t)
  <1> SUFFICES ASSUME NEW x \in Nat, NEW r \in Seq(Nat), NEW s \in Seq(Nat), NEW t \in Seq(Nat)
               PROVE  /\ Joined(<<x>> \o r, s, t) # << >>
                      /\ Head(Joined(<<x>> \o r, s, t)) = x
                      /\ Tail(Joined(<<x>> \o r, s, t)) = Joined(r, s, t)
    OBVIOUS
  <1> DEFINE y == <<x>>
  <1>1. y \in Seq(Nat) /\ r \o s \in Seq(Nat)
    OBVIOUS
  <1> HIDE DEF y
  <1>2. (y \o r) \o s = y \o (r \o s)
    BY <1>1, Regrouped, Zenon
  <1>3. (y \o (r \o s)) \o t = y \o ((r \o s) \o t)
    BY <1>1, Regrouped, Zenon
  <1>4. Joined(y \o r, s, t) = y \o Joined(r, s, t)
    BY <1>2, <1>3 DEF Joined
  <1>5. Joined(r, s, t) \in Seq(Nat)
    BY JoinedType
  <1> DEFINE all  == Joined(y \o r, s, t)
             rest == Joined(r, s, t)
  <1>6. all = <<x>> \o rest /\ rest \in Seq(Nat)
    BY <1>4, <1>5 DEF y
  <1> HIDE DEF all, rest
  <1>7. all # << >> /\ Head(all) = x /\ Tail(all) = rest
    <2>1. <<x>> \o rest # << >> /\ Head(<<x>> \o rest) = x /\ Tail(<<x>> \o rest) = rest
      BY <1>6, InFront, Zenon
    <2> QED BY <1>6, <2>1, Zenon
  <1> QED BY <1>7 DEF all, rest, y

\* The first of one of them may as well be the last of the one before it.
LEMMA Handed ==
    \A x \in Nat : \A r, s, t \in Seq(Nat) :
        /\ Joined(r, <<x>> \o s, t) = Joined(Append(r, x), s, t)
        /\ Joined(r, s, <<x>> \o t) = Joined(r, Append(s, x), t)
  <1> SUFFICES ASSUME NEW x \in Nat, NEW r \in Seq(Nat), NEW s \in Seq(Nat), NEW t \in Seq(Nat)
               PROVE  /\ Joined(r, <<x>> \o s, t) = Joined(Append(r, x), s, t)
                      /\ Joined(r, s, <<x>> \o t) = Joined(r, Append(s, x), t)
    OBVIOUS
  <1> DEFINE y == <<x>>
  <1>1. y \in Seq(Nat) /\ r \o s \in Seq(Nat)
    OBVIOUS
  <1>2. Append(r, x) = r \o y /\ Append(s, x) = s \o y
    BY InFront, Zenon
  <1> HIDE DEF y
  <1>3. r \o (y \o s) = (r \o y) \o s
    BY <1>1, Regrouped, Zenon
  <1>4. (r \o s) \o (y \o t) = ((r \o s) \o y) \o t
    BY <1>1, Regrouped, Zenon
  <1>5. (r \o s) \o y = r \o (s \o y)
    BY <1>1, Regrouped, Zenon
  <1>6. /\ Joined(r, y \o s, t) = Joined(Append(r, x), s, t)
        /\ Joined(r, s, y \o t) = Joined(r, Append(s, x), t)
    BY <1>2, <1>3, <1>4, <1>5, Zenon DEF Joined
  <1> QED BY <1>6 DEF y

LEMMA FrontPart ==
    ASSUME NEW r \in Seq(Nat), NEW s \in Seq(Nat)
    PROVE  /\ Len(r) \in 0 .. Len(r \o s) /\ SubSeq(r \o s, 1, Len(r)) = r
           /\ 0 \in 0 .. Len(r) /\ SubSeq(r, 1, 0) = << >>
           /\ Len(r) \in 0 .. Len(r) /\ SubSeq(r, 1, Len(r)) = r
  OBVIOUS

\* The first message's answer, if it is one, comes before the others.
LEMMA FirstAnswer ==
    ASSUME NEW s \in Seq(Messages), s # << >>
    PROVE  AnswersIn(s) = After(<< >>, Head(s)) \o AnswersIn(Tail(s))
  <1> DEFINE t == Tail(s)
             n == Len(s)
             a == After(<< >>, Head(s))
  <1>1. /\ t \in Seq(Messages) /\ n \in Nat \ {0} /\ Len(t) = n - 1
        /\ s[1] \in Messages /\ Head(s) = s[1]
        /\ \A k \in 1 .. n - 1 : t[k] = s[k + 1] /\ t[k] \in Messages
    BY HeadTailProperties, Elements
  <1>2. a \in Seq(Nat) /\ a = After(<< >>, s[1])
    <2>1. << >> \in Seq(Nat)
      OBVIOUS
    <2>2. After(<< >>, s[1]) \in Seq(Nat)
      BY <1>1, <2>1, AfterType
    <2> QED BY <1>1, <2>2
  <1> HIDE DEF t, n, a
  <1>3. PICK g \in [0 .. n - 1 -> Seq(Nat)] : Steps(g, t, n - 1)
    <2>1. n - 1 \in 0 .. Len(t)
      BY <1>1
    <2> QED BY <1>1, <2>1, StepsExist
  <1> DEFINE f == [k \in 0 .. n |-> IF k = 0 THEN << >> ELSE a \o g[k - 1]]
  <1>4. \A k \in 0 .. n : f[k] = IF k = 0 THEN << >> ELSE a \o g[k - 1]
    OBVIOUS
  <1> HIDE DEF f
  <1>5. f[0] = << >>
    BY <1>1, <1>4
  <1>6. ASSUME NEW k \in 1 .. n PROVE f[k] = After(f[k - 1], s[k])
    <2>1. CASE k = 1
      <3>1. f[0] = << >> /\ f[1] = a \o g[0] /\ g[0] = << >>
        <4>1. 1 \in 0 .. n /\ 0 \in 0 .. n /\ 1 # 0 /\ 1 - 1 = 0
          BY <1>1
        <4>2. g[0] = << >>
          BY <1>3 DEF Steps
        <4>3. f[0] = << >>
          BY <1>4, <4>1
        <4>4. f[1] = a \o g[1 - 1]
          BY <1>4, <4>1
        <4> QED BY <4>1, <4>2, <4>3, <4>4
      <3>2. f[1] = a
        BY <1>2, <3>1, ConcatEmptySeq
      <3> QED BY <1>2, <2>1, <3>1, <3>2
    <2>2. CASE k # 1
      <3> DEFINE l == k - 1
      <3>1. l \in 1 .. n - 1 /\ l - 1 \in 0 .. n - 1 /\ k = l + 1
        BY <1>1, <2>2
      <3>2. f[k] = a \o g[l] /\ f[k - 1] = a \o g[l - 1]
        <4>1. k \in 0 .. n /\ l \in 0 .. n /\ k # 0 /\ l # 0
          BY <1>1, <2>2
        <4> QED BY <1>4, <4>1
      <3> HIDE DEF l
      <3>3. g[l] = After(g[l - 1], s[k]) /\ s[k] \in Messages /\ g[l - 1] \in Seq(Nat)
        BY <1>1, <1>3, <3>1 DEF Steps
      <3>4. s[k].id \in Nat
        BY <3>3, FramesAssumption DEF Messages
      <3>5. a \o After(g[l - 1], s[k]) = After(a \o g[l - 1], s[k])
        <4>1. a \o Append(g[l - 1], s[k].id) = Append(a \o g[l - 1], s[k].id)
          BY <1>2, <3>3, <3>4, AppendBehind
        <4> QED BY <3>3, <3>4, <4>1 DEF After
      <3> QED BY <3>2, <3>3, <3>5
    <2> QED BY <2>1, <2>2
  <1>7. f[n] = a \o g[n - 1]
    <2>1. n \in 0 .. n /\ n # 0
      BY <1>1
    <2> QED BY <1>4, <2>1
  <1>8. Steps(f, s, n)
    BY <1>5, <1>6 DEF Steps
  <1>9. AnswersIn(s) = f[n]
    BY <1>8, AnswersAre DEF n
  <1>10. AnswersIn(t) = g[n - 1]
    BY <1>1, <1>3, AnswersAre
  <1> QED BY <1>7, <1>9, <1>10 DEF t, a

\* The ids of a sequence of frames.
LEMMA IdsOf ==
    ASSUME NEW s \in Seq(Frames)
    PROVE  /\ Ids(s) \in Seq(Nat)
           /\ Ids(<< >>) = << >>
           /\ \A f \in Frames : Ids(Append(s, f)) = Append(Ids(s), f.id)
           /\ s # << >> => /\ Head(s) \in Frames /\ Tail(s) \in Seq(Frames)
                           /\ Ids(s) = <<Head(s).id>> \o Ids(Tail(s))
  <1>1. \A f \in Frames : f.id \in Nat
    BY FramesAssumption DEF Frames
  <1>2. \A t \in Seq(Frames) :
            /\ Ids(t) \in Seq(Nat) /\ Len(Ids(t)) = Len(t) /\ Len(t) \in Nat
            /\ \A i \in 1 .. Len(t) : Ids(t)[i] = t[i].id
    <2> SUFFICES ASSUME NEW t \in Seq(Frames)
                 PROVE  /\ Ids(t) \in Seq(Nat) /\ Len(Ids(t)) = Len(t) /\ Len(t) \in Nat
                        /\ \A i \in 1 .. Len(t) : Ids(t)[i] = t[i].id
      OBVIOUS
    <2>1. Len(t) \in Nat /\ DOMAIN t = 1 .. Len(t) /\ \A i \in 1 .. Len(t) : t[i] \in Frames
      OBVIOUS
    <2>2. Ids(t) = [i \in 1 .. Len(t) |-> t[i].id] /\ \A i \in 1 .. Len(t) : t[i].id \in Nat
      BY <1>1, <2>1 DEF Ids
    <2>3. Ids(t) \in Seq(Nat) /\ Len(Ids(t)) = Len(t)
      BY <2>1, <2>2
    <2> QED BY <2>1, <2>2, <2>3
  <1>3. Ids(<< >>) = << >>
    BY DEF Ids
  <1>4. ASSUME NEW f \in Frames PROVE Ids(Append(s, f)) = Append(Ids(s), f.id)
    <2> DEFINE u == Ids(Append(s, f))
               v == Append(Ids(s), f.id)
    <2>1. Append(s, f) \in Seq(Frames) /\ Len(Append(s, f)) = Len(s) + 1
          /\ \A i \in 1 .. Len(s) : Append(s, f)[i] = s[i]
          /\ Append(s, f)[Len(s) + 1] = f
      BY AppendProperties
    <2>2. /\ u \in Seq(Nat) /\ Len(u) = Len(s) + 1
          /\ \A i \in 1 .. Len(s) + 1 : u[i] = Append(s, f)[i].id
      BY <1>2, <2>1
    <2>3. /\ v \in Seq(Nat) /\ Len(v) = Len(s) + 1 /\ v[Len(s) + 1] = f.id
          /\ \A i \in 1 .. Len(s) : v[i] = s[i].id
      BY <1>1, <1>2, AppendProperties
    <2>4. \A i \in 1 .. Len(s) + 1 : i = Len(s) + 1 \/ i \in 1 .. Len(s)
      BY <1>2
    <2> HIDE DEF u, v
    <2>5. \A i \in 1 .. Len(s) + 1 : u[i] = v[i]
      <3> SUFFICES ASSUME NEW i \in 1 .. Len(s) + 1 PROVE u[i] = v[i]
        OBVIOUS
      <3>1. CASE i = Len(s) + 1
        <4>1. u[i] = Append(s, f)[Len(s) + 1].id /\ v[i] = f.id
          BY <2>2, <2>3, <3>1
        <4> QED BY <2>1, <4>1
      <3>2. CASE i \in 1 .. Len(s)
        BY <2>1, <2>2, <2>3, <3>2
      <3> QED BY <2>4, <3>1, <3>2
    <2>6. u = v
      BY <2>2, <2>3, <2>5, SeqEqual
    <2> QED BY <2>6 DEF u, v
  <1>5. ASSUME s # << >>
        PROVE  /\ Head(s) \in Frames /\ Tail(s) \in Seq(Frames)
               /\ Ids(s) = <<Head(s).id>> \o Ids(Tail(s))
    <2> DEFINE x == Head(s).id
               t == Tail(s)
               u == Ids(t)
               v == <<x>> \o u
    <2>1. /\ Head(s) \in Frames /\ t \in Seq(Frames) /\ Len(t) = Len(s) - 1 /\ Head(s) = s[1]
          /\ \A i \in 1 .. Len(s) - 1 : t[i] = s[i + 1]
          /\ Len(s) \in Nat \ {0}
      BY <1>5, HeadTailProperties
    <2>2. x \in Nat /\ x = s[1].id
      BY <1>1, <2>1
    <2> HIDE DEF x, t
    <2>3. u \in Seq(Nat) /\ Len(u) = Len(s) - 1 /\ \A i \in 1 .. Len(s) - 1 : u[i] = s[i + 1].id
      BY <1>2, <2>1
    <2> HIDE DEF u
    <2>4. v \in Seq(Nat) /\ Len(v) = Len(s) /\ v[1] = x /\ \A i \in 2 .. Len(s) : v[i] = u[i - 1]
      BY <2>1, <2>2, <2>3
    <2>5. \A i \in 2 .. Len(s) : u[i - 1] = s[i].id
      <3>1. \A i \in 2 .. Len(s) : i - 1 \in 1 .. Len(s) - 1 /\ (i - 1) + 1 = i
        BY <2>1
      <3> QED BY <2>3, <3>1
    <2>6. \A i \in 1 .. Len(s) : i = 1 \/ i \in 2 .. Len(s)
      BY <2>1
    <2> HIDE DEF v
    <2>7. \A i \in 1 .. Len(s) : Ids(s)[i] = v[i]
      BY <1>2, <2>2, <2>4, <2>5, <2>6
    <2>8. Ids(s) = v
      BY <1>2, <2>4, <2>7, SeqEqual
    <2> QED BY <2>1, <2>8 DEF v, u, x, t
  <1> QED BY <1>2, <1>3, <1>4, <1>5

(***************************************************************************)
(* The steps of the promise.                                               *)
(***************************************************************************)
\* The client has called with no later frame than it can have.
SentInv == \A k \in DOMAIN sent : sent[k] <= Asked

PromiseInv == LinkInv /\ SentInv

\* The three parts of the way: answers, frames the worker has queued, and calls.
Coming == Holding(AnswersIn(toClient), pc = "receive", inHand.id)
Doing  == Holding(Ids(m_queue), wpc \in {"write", "write2"}, job.id)
Calls  == Holding(toWorker, wpc = "read", job.id)

LEMMA WayIs ==
    /\ OnTheWay = IF wpc # "gone" THEN Joined(Coming, Doing, Calls) ELSE Coming
    /\ OnTheWay' = IF wpc' # "gone" THEN Joined(Coming', Doing', Calls') ELSE Coming'
  BY DEF OnTheWay, Coming, Doing, Calls, Joined

LEMMA PartsPrimed ==
    /\ Coming' = Holding(AnswersIn(toClient'), pc' = "receive", inHand'.id)
    /\ Doing' = Holding(Ids(m_queue'), wpc' \in {"write", "write2"}, job'.id)
    /\ Calls' = Holding(toWorker', wpc' = "read", job'.id)
  <1>1. Coming' = Holding(AnswersIn(toClient'), pc' = "receive", inHand'.id)
    BY DEF Coming, Holding, AnswersIn
  <1>2. Doing' = Holding(Ids(m_queue'), wpc' \in {"write", "write2"}, job'.id)
    BY DEF Doing, Holding, Ids
  <1>3. Calls' = Holding(toWorker', wpc' = "read", job'.id)
    BY DEF Calls, Holding
  <1> QED BY <1>1, <1>2, <1>3

LEMMA AnswersType ==
    ASSUME NEW s \in Seq(Messages)
    PROVE  AnswersIn(s) \in Seq(Nat)
  <1>1. Len(s) \in 0 .. Len(s)
    OBVIOUS
  <1>2. PICK f \in [0 .. Len(s) -> Seq(Nat)] : Steps(f, s, Len(s))
    BY <1>1, StepsExist
  <1> QED BY <1>2, AnswersAre

LEMMA PartsType ==
    ASSUME TypeOK
    PROVE  /\ AnswersIn(toClient) \in Seq(Nat) /\ toClient \in Seq(Messages)
           /\ Ids(m_queue) \in Seq(Nat) /\ m_queue \in Seq(Frames)
           /\ toWorker \in Seq(Nat)
           /\ job \in Frames /\ job.id \in Nat /\ inHand.id \in Nat
           /\ received \in Seq(Frames) /\ sent \in Seq(1 .. N)
           /\ Coming \in Seq(Nat) /\ Doing \in Seq(Nat) /\ Calls \in Seq(Nat)
  <1>1. /\ toClient \in Seq(Messages) /\ m_queue \in Seq(Frames)
        /\ job \in Frames /\ job.id \in Nat /\ inHand.id \in Nat
        /\ received \in Seq(Frames) /\ sent \in Seq(1 .. N)
    BY Types DEF TypeOK, Messages
  <1>2. toWorker \in Seq(Nat)
    <2>1. toWorker \in Seq(1 .. N) /\ 1 .. N \subseteq Nat
      BY DEF TypeOK
    <2> QED BY <2>1, SeqMonotonic
  <1>3. AnswersIn(toClient) \in Seq(Nat) /\ Ids(m_queue) \in Seq(Nat)
    BY <1>1, AnswersType, IdsOf
  <1>4. \A s \in Seq(Nat), x \in Nat : <<x>> \o s \in Seq(Nat)
    OBVIOUS
  <1> QED BY <1>1, <1>2, <1>3, <1>4 DEF Coming, Doing, Calls, Holding

\* A step that leaves the calls, the answers handed on and the way alone.
LEMMA LinkStutters ==
    ASSUME sent' = sent, received' = received, OnTheWay' = OnTheWay,
           wpc' = "gone" <=> wpc = "gone"
    PROVE  UNCHANGED Link!vars
  <1>1. Ids(received)' = Ids(received)
    BY DEF Ids
  <1>2. (wpc = "gone")' = (wpc = "gone")
    OBVIOUS
  <1> HIDE DEF OnTheWay
  <1> QED BY <1>1, <1>2 DEF Link!vars

LEMMA SentStep ==
    ASSUME PromiseInv, [Next]_vars
    PROVE  SentInv'
  <1>1. /\ TypeOK /\ PlaceInv /\ frame \in Nat /\ N \in Nat
        /\ sent \in Seq(1 .. N) /\ \A k \in DOMAIN sent : sent[k] \in 1 .. N
        /\ Asked \in Int
    <2>1. TypeOK /\ PlaceInv
      BY DEF PromiseInv, LinkInv
    <2>2. frame \in Nat /\ N \in Nat /\ sent \in Seq(1 .. N)
      BY <2>1, Types, PartsType
    <2>3. \A k \in DOMAIN sent : sent[k] \in 1 .. N
      BY <2>2, Elements
    <2>4. Asked \in Int
      BY <2>2 DEF Asked
    <2> QED BY <2>1, <2>2, <2>3, <2>4
  <1>2. CASE Call
    <2>1. sent' = Append(sent, frame) /\ Asked = frame - 1 /\ Asked' = frame /\ frame \in 1 .. N
      BY <1>1, <1>2 DEF Call, Asked, Asking, PlaceInv
    <2>2. \A k \in DOMAIN sent' : sent'[k] = frame \/ (k \in DOMAIN sent /\ sent'[k] = sent[k])
      BY <1>1, <2>1, AppendKeeps
    <2>3. \A k \in DOMAIN sent : sent[k] <= frame
      BY <1>1, <2>1 DEF PromiseInv, SentInv
    <2> QED BY <1>1, <2>1, <2>2, <2>3 DEF SentInv
  <1>3. CASE ~ Call
    <2>1. sent' = sent /\ Asked <= Asked' /\ Asked' \in Int
      <3>1. CASE Moves
        BY <3>1, MovesFrame DEF PromiseInv
      <3>2. CASE WriteHalf \/ WriteRest \/ HandleReply \/ HandleSignal \/ Receive \/ Close
        <4>1. sent' = sent
          BY <3>2 DEF WriteHalf, WriteRest, HandleReply, HandleSignal, Receive, Close, history
        <4>2. Asked' = Asked
          BY <1>1, <3>2 DEF WriteHalf, WriteRest, HandleReply, HandleSignal, Receive, Close, Asked,
                            Asking, InEvents, TypeOK
        <4> QED BY <1>1, <4>1, <4>2
      <3>3. CASE Worker \/ Die
        BY <1>1, <3>3, WorkerFrame DEF PromiseInv, history
      <3>4. CASE UNCHANGED vars
        BY <1>1, <3>4 DEF vars, client, history, Asked, Asking
      <3> QED BY <1>3, <3>1, <3>2, <3>3, <3>4 DEF Next, Client, Moves
    <2> QED BY <1>1, <2>1 DEF PromiseInv, SentInv
  <1> QED BY <1>2, <1>3

\* What the client does: a call is Ask, handing on an answer is Answer, and its end is
\* Cut; taking a message from the connection leaves the way as it is.
LEMMA ClientPromise ==
    ASSUME PromiseInv, Client
    PROVE  [Link!Next]_(Link!vars)
  <1>1. /\ LinkInv /\ TypeOK /\ PlaceInv
        /\ AnswersIn(toClient) \in Seq(Nat) /\ toClient \in Seq(Messages)
        /\ Ids(m_queue) \in Seq(Nat) /\ toWorker \in Seq(Nat)
        /\ inHand \in Frames /\ inHand.id \in Nat /\ job.id \in Nat
        /\ received \in Seq(Frames) /\ sent \in Seq(1 .. N)
        /\ Coming \in Seq(Nat) /\ Doing \in Seq(Nat) /\ Calls \in Seq(Nat)
    BY PartsType, Types DEF PromiseInv, LinkInv
  <1>2. CASE Moves \/ WriteHalf \/ WriteRest
    <2>1. /\ UNCHANGED <<worker, channel, inHand, sent, received>>
          /\ pc # "receive" /\ pc' # "receive"
      BY <1>1, <1>2, MovesFrame DEF WriteHalf, WriteRest, history
    <2>2. Coming' = Coming /\ Doing' = Doing /\ Calls' = Calls /\ wpc' = wpc
      BY <2>1, PartsPrimed DEF Coming, Doing, Calls, Holding, worker, channel
    <2> QED BY <2>1, <2>2, WayIs, LinkStutters
  <1>3. CASE Call
    <2>1. /\ pc = "call" /\ pc' = "wait" /\ sent' = Append(sent, frame)
          /\ toWorker' = IF wpc = "gone" THEN toWorker ELSE Append(toWorker, frame)
          /\ wpc' = wpc /\ job' = job /\ m_queue' = m_queue /\ toClient' = toClient
          /\ inHand' = inHand /\ received' = received
          /\ frame \in 1 .. N /\ frame \in Nat /\ Asked = frame - 1
      BY <1>1, <1>3, Types DEF Call, worker, memory, PlaceInv, Asked, Asking
    <2>2. \A i \in DOMAIN sent : sent[i] < frame
      <3>1. \A i \in DOMAIN sent : sent[i] <= frame - 1 /\ sent[i] \in 1 .. N
        BY <1>1, <2>1, Elements DEF PromiseInv, SentInv
      <3> QED BY <2>1, <3>1
    <2>3. Coming' = Coming /\ Doing' = Doing
      BY <2>1, PartsPrimed DEF Coming, Doing, Holding
    <2>4. CASE wpc = "gone"
      <3>1. OnTheWay' = OnTheWay
        BY <2>1, <2>3, <2>4, WayIs
      <3> QED BY <2>1, <2>2, <2>4, <3>1 DEF Link!Next, Link!Ask, Ids
    <2>5. CASE wpc # "gone"
      <3>1. Calls' = Append(Calls, frame)
        <4>1. <<job.id>> \o Append(toWorker, frame) = Append(<<job.id>> \o toWorker, frame)
          <5>1. <<job.id>> \in Seq(Nat)
            BY <1>1
          <5> QED BY <1>1, <2>1, <5>1, AppendBehind
        <4> QED BY <2>1, <2>5, <4>1, PartsPrimed DEF Calls, Holding
      <3>2. OnTheWay' = Append(OnTheWay, frame)
        <4>1. Joined(Coming, Doing, Append(Calls, frame)) = Append(Joined(Coming, Doing, Calls), frame)
          <5>1. frame \in Nat /\ Coming \in Seq(Nat) /\ Doing \in Seq(Nat) /\ Calls \in Seq(Nat)
            BY <1>1, <2>1
          <5> QED BY <5>1, BehindAll, Zenon
        <4> QED BY <2>1, <2>3, <2>5, <3>1, <4>1, WayIs
      <3> QED BY <2>1, <2>2, <2>5, <3>2 DEF Link!Next, Link!Ask, Ids
    <2> QED BY <2>4, <2>5
  <1>4. CASE HandleReply
    <2>1. /\ toClient # << >> /\ toClient' = Tail(toClient) /\ Head(toClient).type = "reply"
          /\ pc' = pc /\ inHand' = inHand /\ UNCHANGED worker /\ toWorker' = toWorker
          /\ sent' = sent /\ received' = received
      BY <1>4 DEF HandleReply, history
    <2>2. AnswersIn(toClient') = AnswersIn(toClient)
      <3>1. AnswersIn(toClient) = << >> \o AnswersIn(Tail(toClient))
        BY <1>1, <2>1, FirstAnswer DEF After
      <3>2. AnswersIn(Tail(toClient)) \in Seq(Nat)
        BY <1>1, <2>1, HeadAndTail, AnswersType
      <3> QED BY <2>1, <3>1, <3>2, ConcatEmptySeq
    <2>3. Coming' = Coming /\ Doing' = Doing /\ Calls' = Calls /\ wpc' = wpc
      BY <2>1, <2>2, PartsPrimed DEF Coming, Doing, Calls, Holding, worker
    <2> QED BY <2>1, <2>3, WayIs, LinkStutters
  <1>5. CASE HandleSignal
    <2>1. /\ toClient # << >> /\ toClient' = Tail(toClient)
          /\ Head(toClient).type = "frameProcessed"
          /\ pc # "receive" /\ pc' = "receive" /\ inHand'.id = Head(toClient).id
          /\ UNCHANGED worker /\ toWorker' = toWorker /\ sent' = sent /\ received' = received
      BY <1>5 DEF HandleSignal, InEvents, Frame, history
    <2>2. AnswersIn(toClient) = <<Head(toClient).id>> \o AnswersIn(Tail(toClient))
      <3>1. AnswersIn(toClient) = Append(<< >>, Head(toClient).id) \o AnswersIn(Tail(toClient))
        BY <1>1, <2>1, FirstAnswer DEF After
      <3>2. Append(<< >>, Head(toClient).id) = <<Head(toClient).id>>
        OBVIOUS
      <3> QED BY <3>1, <3>2
    <2>3. Coming' = Coming /\ Doing' = Doing /\ Calls' = Calls /\ wpc' = wpc
      BY <2>1, <2>2, PartsPrimed DEF Coming, Doing, Calls, Holding, worker
    <2> QED BY <2>1, <2>3, WayIs, LinkStutters
  <1>6. CASE Receive
    <2> DEFINE rest == AnswersIn(toClient)
               answer == [inHand EXCEPT !.picture[2] = outSeg[2]]
    <2>1. /\ pc = "receive" /\ pc' # "receive" /\ UNCHANGED worker
          /\ toWorker' = toWorker /\ toClient' = toClient /\ sent' = sent
          /\ received' = Append(received, answer)
      BY <1>1, <1>6 DEF Receive, TypeOK, channel
    <2>2. answer \in Frames /\ answer.id = inHand.id
      <3>1. outSeg[2] \in 0 .. N
        BY <1>1, Types
      <3> QED BY <1>1, <3>1, HalfOf
    <2>3. Ids(received)' = Append(Ids(received), inHand.id)
      <3>1. Ids(Append(received, answer)) = Append(Ids(received), inHand.id)
        BY <1>1, <2>2, IdsOf
      <3>2. Ids(received)' = Ids(received')
        BY DEF Ids
      <3> QED BY <2>1, <3>1, <3>2
    <2>4. Coming = <<inHand.id>> \o rest /\ Coming' = rest
      BY <2>1, PartsPrimed DEF Coming, Holding
    <2>5. Doing' = Doing /\ Calls' = Calls /\ wpc' = wpc
      BY <2>1, PartsPrimed DEF Doing, Calls, Holding, worker
    <2> HIDE DEF rest
    <2>6. OnTheWay # << >> /\ Head(OnTheWay) = inHand.id /\ Tail(OnTheWay) = OnTheWay'
      <3>1. rest \in Seq(Nat) /\ inHand.id \in Nat /\ Doing \in Seq(Nat) /\ Calls \in Seq(Nat)
        BY <1>1 DEF rest
      <3>2. CASE wpc = "gone"
        BY <2>4, <2>5, <3>1, <3>2, WayIs, InFront
      <3>3. CASE wpc # "gone"
        <4>1. /\ OnTheWay = Joined(<<inHand.id>> \o rest, Doing, Calls)
              /\ OnTheWay' = Joined(rest, Doing, Calls)
          BY <2>4, <2>5, <3>3, WayIs
        <4>2. /\ Joined(<<inHand.id>> \o rest, Doing, Calls) # << >>
              /\ Head(Joined(<<inHand.id>> \o rest, Doing, Calls)) = inHand.id
              /\ Tail(Joined(<<inHand.id>> \o rest, Doing, Calls)) = Joined(rest, Doing, Calls)
          BY <3>1, FirstOfAll, Zenon
        <4> QED BY <4>1, <4>2, Zenon
      <3> QED BY <3>2, <3>3
    <2> HIDE DEF answer
    <2>7. (wpc = "gone")' = (wpc = "gone")
      BY <2>5
    <2>8. Link!Answer
      BY <2>1, <2>3, <2>6, <2>7 DEF Link!Answer
    <2> QED BY <2>8 DEF Link!Next
  <1>7. CASE Close
    <2>1. /\ pc' = "closed" /\ wpc' = "gone" /\ toClient' = << >> /\ sent' = sent /\ received' = received
      BY <1>7 DEF Close, history
    <2>2. OnTheWay' = << >>
      BY <2>1, PartsPrimed, WayIs, NoAnswers DEF Holding
    <2>3. OnTheWay \in Seq(Nat)
      <3>1. Joined(Coming, Doing, Calls) \in Seq(Nat)
        BY <1>1, JoinedType
      <3> QED BY <1>1, <3>1, WayIs
    <2>4. 0 \in 0 .. Len(OnTheWay) /\ SubSeq(OnTheWay, 1, 0) = << >>
      BY <2>3, FrontPart
    <2>5. Ids(received)' = Ids(received)
      BY <2>1 DEF Ids
    <2>6. Link!Cut
      BY <2>1, <2>2, <2>4, <2>5 DEF Link!Cut
    <2> QED BY <2>6 DEF Link!Next
  <1> QED BY <1>2, <1>3, <1>4, <1>5, <1>6, <1>7 DEF Client, Moves

\* What the worker does: only its death is seen, and cuts the way behind the answers it
\* has sent; all else hands a frame from one part of the way to the one before it.
LEMMA WorkerPromise ==
    ASSUME PromiseInv, Worker \/ Die
    PROVE  [Link!Next]_(Link!vars)
  <1>1. /\ AnswersIn(toClient) \in Seq(Nat) /\ toClient \in Seq(Messages)
        /\ Ids(m_queue) \in Seq(Nat) /\ m_queue \in Seq(Frames) /\ toWorker \in Seq(Nat)
        /\ job \in Frames /\ job.id \in Nat /\ inHand.id \in Nat
        /\ Coming \in Seq(Nat) /\ Doing \in Seq(Nat) /\ Calls \in Seq(Nat)
    BY PartsType DEF PromiseInv, LinkInv
  <1>2. /\ sent' = sent /\ received' = received /\ pc' = pc /\ inHand' = inHand
        /\ TypeOK /\ OrderInv
    <2>1. TypeOK /\ OrderInv
      BY DEF PromiseInv, LinkInv
    <2>2. CASE Worker
      BY <2>1, <2>2 DEF Worker, Start, TakeCall, Enqueue, TakeFrame, WriteAnswer, SendAnswer,
                        client, history
    <2>3. CASE Die
      BY <2>1, <2>3 DEF Die, client, history
    <2> QED BY <2>2, <2>3
  <1>3. CASE Start \/ WriteAnswer
    <2>1. /\ toClient' = toClient /\ m_queue' = m_queue /\ toWorker' = toWorker /\ job' = job
          /\ wpc # "gone" /\ wpc' # "gone" /\ wpc # "read" /\ wpc' # "read"
          /\ wpc' \in {"write", "write2"} <=> wpc \in {"write", "write2"}
      BY <1>3 DEF Start, WriteAnswer, channel
    <2>2. Coming' = Coming /\ Doing' = Doing /\ Calls' = Calls
      BY <1>2, <2>1, PartsPrimed DEF Coming, Doing, Calls, Holding
    <2>3. OnTheWay' = OnTheWay
      BY <2>1, <2>2, WayIs
    <2> QED BY <1>2, <2>1, <2>3, LinkStutters
  <1>4. CASE TakeCall
    <2>1. /\ toClient' = toClient /\ m_queue' = m_queue /\ toWorker' = Tail(toWorker)
          /\ job'.id = Head(toWorker) /\ toWorker # << >> /\ wpc = "loop" /\ wpc' = "read"
      BY <1>4 DEF TakeCall, Frame
    <2>2. <<Head(toWorker)>> \o Tail(toWorker) = toWorker
      BY <1>1, <2>1
    <2>3. Coming' = Coming /\ Doing' = Doing
      BY <1>2, <2>1, PartsPrimed DEF Coming, Doing, Holding
    <2>4. Calls' = Calls
      BY <2>1, <2>2, PartsPrimed DEF Calls, Holding
    <2>5. OnTheWay' = OnTheWay
      BY <2>1, <2>3, <2>4, WayIs
    <2> QED BY <1>2, <2>1, <2>5, LinkStutters
  <1>5. CASE Enqueue
    <2> DEFINE read == [job EXCEPT !.picture[2] = inSeg[2]]
    <2>1. /\ toClient' = Append(toClient, Reply(job.id)) /\ m_queue' = Append(m_queue, read)
          /\ job' = read /\ toWorker' = toWorker /\ wpc = "read" /\ wpc' = "loop"
      BY <1>5 DEF Enqueue
    <2>2. read \in Frames /\ read.id = job.id
      <3>1. inSeg[2] \in 0 .. N
        BY <1>2, Types
      <3> QED BY <1>1, <3>1, HalfOf
    <2> HIDE DEF read
    <2>3. Coming' = Coming
      <3>1. Reply(job.id) \in Messages /\ Reply(job.id).type = "reply"
        BY <1>2, <2>1, Types DEF OrderInv, Messages, Reply
      <3>2. AnswersIn(Append(toClient, Reply(job.id))) = AnswersIn(toClient)
        BY <1>1, <3>1, MoreAnswers DEF After
      <3> QED BY <1>2, <2>1, <3>2, PartsPrimed DEF Coming
    <2>4. Doing' = Append(Doing, job.id)
      <3>1. Ids(Append(m_queue, read)) = Append(Ids(m_queue), job.id)
        BY <1>1, <2>2, IdsOf
      <3> QED BY <2>1, <3>1, PartsPrimed DEF Doing, Holding
    <2>5. Calls = <<job.id>> \o Calls'
      BY <2>1, PartsPrimed DEF Calls, Holding
    <2>6. OnTheWay' = OnTheWay
      <3>1. Calls' \in Seq(Nat)
        BY <1>1, <2>1, PartsPrimed DEF Holding
      <3>2. Joined(Coming, Doing, <<job.id>> \o Calls') = Joined(Coming, Append(Doing, job.id), Calls')
        <4>1. Coming \in Seq(Nat) /\ Doing \in Seq(Nat) /\ job.id \in Nat
          BY <1>1
        <4> QED BY <3>1, <4>1, Handed, Zenon
      <3> QED BY <2>1, <2>3, <2>4, <2>5, <3>2, WayIs
    <2> QED BY <1>2, <2>1, <2>6, LinkStutters
  <1>6. CASE TakeFrame
    <2>1. /\ toClient' = toClient /\ m_queue' = Tail(m_queue) /\ toWorker' = toWorker
          /\ job' = Head(m_queue) /\ m_queue # << >> /\ wpc = "loop" /\ wpc' = "write"
      BY <1>6 DEF TakeFrame, channel
    <2>2. Ids(m_queue) = <<Head(m_queue).id>> \o Ids(Tail(m_queue))
      BY <1>1, <2>1, IdsOf
    <2>3. Coming' = Coming /\ Calls' = Calls
      BY <1>2, <2>1, PartsPrimed DEF Coming, Calls, Holding
    <2>4. Doing' = Doing
      BY <2>1, <2>2, PartsPrimed DEF Doing, Holding
    <2>5. OnTheWay' = OnTheWay
      BY <2>1, <2>3, <2>4, WayIs
    <2> QED BY <1>2, <2>1, <2>5, LinkStutters
  <1>7. CASE SendAnswer
    <2>1. /\ toClient' = Append(toClient, Signal(job.id)) /\ m_queue' = m_queue /\ job' = job
          /\ toWorker' = toWorker /\ wpc = "write2" /\ wpc' = "loop"
      BY <1>7 DEF SendAnswer
    <2>2. AnswersIn(toClient') = Append(AnswersIn(toClient), job.id)
      <3>1. Signal(job.id) \in Messages /\ Signal(job.id).type = "frameProcessed"
            /\ Signal(job.id).id = job.id
        BY <1>2, <2>1, Types DEF OrderInv, Messages, Signal
      <3> QED BY <1>1, <2>1, <3>1, MoreAnswers DEF After
    <2>3. Coming' = Append(Coming, job.id)
      <3>1. <<inHand.id>> \in Seq(Nat)
        BY <1>1
      <3>2. <<inHand.id>> \o Append(AnswersIn(toClient), job.id)
              = Append(<<inHand.id>> \o AnswersIn(toClient), job.id)
        BY <1>1, <3>1, AppendBehind
      <3> QED BY <1>2, <2>2, <3>2, PartsPrimed DEF Coming, Holding
    <2>4. Doing = <<job.id>> \o Doing' /\ Calls' = Calls
      BY <2>1, PartsPrimed DEF Doing, Calls, Holding
    <2>5. OnTheWay' = OnTheWay
      <3>1. Doing' \in Seq(Nat)
        BY <1>1, <2>1, PartsPrimed DEF Holding
      <3>2. Joined(Coming, <<job.id>> \o Doing', Calls) = Joined(Append(Coming, job.id), Doing', Calls)
        <4>1. Coming \in Seq(Nat) /\ Calls \in Seq(Nat) /\ job.id \in Nat
          BY <1>1
        <4> QED BY <3>1, <4>1, Handed, Zenon
      <3> QED BY <2>1, <2>3, <2>4, <3>2, WayIs
    <2> QED BY <1>2, <2>1, <2>5, LinkStutters
  <1>8. CASE Die
    <2>1. wpc # "gone" /\ wpc' = "gone" /\ toClient' = toClient
      BY <1>8 DEF Die
    <2>2. OnTheWay = Joined(Coming, Doing, Calls) /\ OnTheWay' = Coming
      <3>1. Coming' = Coming
        BY <1>2, <2>1, PartsPrimed DEF Coming
      <3> QED BY <2>1, <3>1, WayIs
    <2>3. /\ Len(Coming) \in 0 .. Len(OnTheWay)
          /\ SubSeq(OnTheWay, 1, Len(Coming)) = Coming
      <3>1. Doing \o Calls \in Seq(Nat) /\ (Coming \o Doing) \o Calls = Coming \o (Doing \o Calls)
        <4>1. Coming \in Seq(Nat) /\ Doing \in Seq(Nat) /\ Calls \in Seq(Nat)
          BY <1>1
        <4>2. Doing \o Calls \in Seq(Nat)
          BY <4>1, JoinedType, Zenon
        <4>3. (Coming \o Doing) \o Calls = Coming \o (Doing \o Calls)
          BY <4>1, Regrouped, Zenon
        <4> QED BY <4>2, <4>3
      <3> DEFINE rest == Doing \o Calls
      <3>2. OnTheWay = Coming \o rest /\ rest \in Seq(Nat)
        BY <2>2, <3>1, Zenon DEF Joined
      <3> HIDE DEF rest
      <3>3. \A r, s \in Seq(Nat) : /\ Len(r) \in 0 .. Len(r \o s)
                                   /\ SubSeq(r \o s, 1, Len(r)) = r
        BY FrontPart
      <3>4. /\ Len(Coming) \in 0 .. Len(Coming \o rest)
            /\ SubSeq(Coming \o rest, 1, Len(Coming)) = Coming
        BY <1>1, <3>2, <3>3, Zenon
      <3> QED BY <3>2, <3>4, Zenon
    <2>4. /\ OnTheWay' = SubSeq(OnTheWay, 1, Len(Coming))
          /\ (wpc = "gone")' = TRUE /\ Ids(received)' = Ids(received)
      BY <1>2, <2>1, <2>2, <2>3 DEF Ids
    <2>5. Link!Cut
      BY <1>2, <2>3, <2>4 DEF Link!Cut
    <2> QED BY <2>5 DEF Link!Next
  <1> QED BY <1>3, <1>4, <1>5, <1>6, <1>7, <1>8 DEF Worker

\* The invariant the promise rests on: nothing has been called for that is ahead of the
\* client's place in the stream, so that each call is for a later frame than those before.
THEOREM CallsInOrder == Safety => []PromiseInv
  <1>1. Init => SentInv
    BY DEF Init, SentInv
  <1>2. SentInv /\ LinkInv /\ [Next]_vars => SentInv'
    BY SentStep DEF PromiseInv
  <1>3. SentInv /\ LinkInv <=> PromiseInv
    BY DEF PromiseInv
  <1> QED BY <1>1, <1>2, <1>3, LinkInvariance, PTL DEF Safety

\* The connection implements LinkPromise for every number of frames: with timeouts, late
\* replies and a worker that may die between any two steps, answers come in the order of
\* the calls, each at most once, and none is lost as long as the worker lives.
THEOREM IsLink == Safety => KeepsLink
  <1>1. Init => Link!Init
    <2> SUFFICES ASSUME Init PROVE Link!Init
      OBVIOUS
    <2>1. AnswersIn(toClient) = << >> /\ Ids(received) = << >> /\ Ids(m_queue) = << >>
      BY NoAnswers DEF Init, Ids
    <2>2. OnTheWay = << >>
      <3>1. << >> \o << >> = << >>
        OBVIOUS
      <3> QED BY <2>1, <3>1 DEF Init, OnTheWay, Holding
    <2> QED BY <2>1, <2>2 DEF Init, Link!Init
  <1>2. PromiseInv /\ [Next]_vars => [Link!Next]_(Link!vars)
    <2> SUFFICES ASSUME PromiseInv, [Next]_vars
                 PROVE  [Link!Next]_(Link!vars)
      OBVIOUS
    <2>1. CASE UNCHANGED vars
      <3>1. /\ UNCHANGED <<sent, received, wpc, job, m_queue, toWorker, toClient, inHand, pc>>
        BY <2>1 DEF vars, client, worker, channel, history
      <3>2. Coming' = Coming /\ Doing' = Doing /\ Calls' = Calls
        BY <3>1, PartsPrimed DEF Coming, Doing, Calls
      <3> QED BY <3>1, <3>2, WayIs, LinkStutters
    <2>2. CASE Client
      BY <2>2, ClientPromise
    <2>3. CASE Worker \/ Die
      BY <2>3, WorkerPromise
    <2> QED BY <2>1, <2>2, <2>3 DEF Next
  <1> QED BY <1>1, <1>2, CallsInOrder, PTL DEF Safety, KeepsLink, Link!Safety
=============================================================================
