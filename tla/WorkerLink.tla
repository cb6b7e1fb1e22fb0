----------------------------- MODULE WorkerLink -----------------------------
(***************************************************************************)
(* qro/: a consumer or the transformer (the client) and the worker process *)
(* that handles its frames.  Requests and answers are messages of          *)
(* QtRemoteObjects, in order on one connection; the pictures go through    *)
(* two segments of shared memory, which either side writes again for each  *)
(* frame.  A picture is written and read in two halves, each half known by *)
(* the frame it shows.                                                     *)
(*                                                                         *)
(* All pictures have the same size, so that no segment is ever replaced.   *)
(* The frames come from a stream as StreamPromise says.                    *)
(***************************************************************************)
EXTENDS Naturals, Sequences

CONSTANT N      \* frames of the stream

ASSUME FramesAssumption == N \in Nat

VARIABLES
    pc,          \* client: its place; "exit" behind exit(EXIT_FAILURE)
    back,        \* where receiveProcessedFrame returns to: "events" or "wait"
    frame,       \* id of the frame the client is at
    connected,   \* the replica has its source
    answered,    \* the pending call has finished
    wpc,         \* worker: its place; "starting", "gone"
    job,         \* the frame in the worker's hand
    m_queue,     \* SimpleWorker::m_queue
    toWorker,    \* calls of processFrame under way, by id
    toClient,    \* replies and frameProcessed signals under way
    inSeg,       \* the client's m_shmSend, the worker's m_shmRecv
    outSeg,      \* the worker's m_shmSend, the client's m_shmRecv
    files,       \* which of them exist in the file system
    attached,    \* which of them their reader has attached
    inHand,      \* the answer receiveProcessedFrame works on
    sent,        \* history: ids the client has called with
    received,    \* history: the answers it has handed on
    late         \* history: a call has timed out

client  == <<pc, back, frame, connected, answered>>
worker  == <<wpc, job, m_queue>>
channel == <<toWorker, toClient>>
memory  == <<inSeg, outSeg, files, attached>>
history == <<sent, received, late>>
vars == <<client, worker, channel, memory, inHand, history>>

Blank == <<0, 0>>
Picture(id) == <<id, id>>
Frame(id, picture) == [id |-> id, picture |-> picture]

Reply(id)  == [type |-> "reply", id |-> id]
Signal(id) == [type |-> "frameProcessed", id |-> id]

Init ==
    /\ pc = "connect" /\ back = "events" /\ frame = 0
    /\ connected = FALSE /\ answered = FALSE
    /\ wpc = "starting" /\ job = Frame(0, Blank) /\ m_queue = << >>
    /\ toWorker = << >> /\ toClient = << >>
    /\ inSeg = Blank /\ outSeg = Blank /\ files = {} /\ attached = {}
    /\ inHand = Frame(0, Blank)
    /\ sent = << >> /\ received = << >> /\ late = FALSE
-----------------------------------------------------------------------------
(* The client: the loop of consumer_generic and transformer_fast.          *)

\* The client runs an event loop: in waitForSource, processEvents or waitForFinished.
InEvents == pc \in {"connect", "events", "wait"}

\* The replica finds its source, or notices that it is gone.
Notice ==
    /\ InEvents
    /\ connected # (wpc \notin {"starting", "gone"})
    /\ connected' = ~ connected
    /\ UNCHANGED <<pc, back, frame, answered, worker, channel, memory, inHand, history>>

\* connectAndRun is over, with or without a source; its result is ignored.
Connected ==
    /\ pc = "connect"
    /\ pc' = "next"
    /\ UNCHANGED <<back, frame, connected, answered, worker, channel, memory, inHand, history>>

\* next() has a frame, or has seen the end.
NextFrame ==
    /\ pc = "next"
    /\ frame' = frame + 1
    /\ pc' = IF frame < N THEN "events" ELSE "close"
    /\ UNCHANGED <<back, connected, answered, worker, channel, memory, inHand, history>>

\* processEvents() has handled what has come in.
EventsDone ==
    /\ pc = "events"
    /\ pc' = "write"
    /\ UNCHANGED <<back, frame, connected, answered, worker, channel, memory, inHand, history>>

\* cvmat_to_shm: the first time it creates the segment.
WriteHalf ==
    /\ pc = "write"
    /\ files' = files \cup {"in"}
    /\ inSeg' = [inSeg EXCEPT ![1] = frame]
    /\ pc' = "write2"
    /\ UNCHANGED <<back, frame, connected, answered, worker, channel, outSeg, attached, inHand, history>>

\* ... and gives up the process if that fails.
CreateFails ==
    /\ pc = "write"
    /\ "in" \notin files
    /\ pc' = "exit"
    /\ UNCHANGED <<back, frame, connected, answered, worker, channel, memory, inHand, history>>

WriteRest ==
    /\ pc = "write2"
    /\ inSeg' = [inSeg EXCEPT ![2] = frame]
    /\ pc' = "call"
    /\ UNCHANGED <<back, frame, connected, answered, worker, channel, outSeg, files, attached, inHand, history>>

\* Mutant: the client does not wait for the reply.
CallAsync ==
    /\ pc = "call"
    /\ connected
    /\ toWorker' = Append(toWorker, frame)
    /\ sent' = Append(sent, frame)
    /\ pc' = "next"
    /\ UNCHANGED <<back, frame, connected, answered, worker, toClient, memory, inHand, received, late>>

Call ==
    /\ pc = "call"
    /\ connected
    /\ toWorker' = IF wpc = "gone" THEN toWorker ELSE Append(toWorker, frame)
    /\ sent' = Append(sent, frame)
    /\ answered' = FALSE
    /\ pc' = "wait"
    /\ UNCHANGED <<back, frame, connected, worker, toClient, memory, inHand, received, late>>

\* Without a source the pending reply is invalid: waitForFinished answers at once.
CallFails ==
    /\ pc = "call"
    /\ ~ connected
    /\ pc' = "next"
    /\ UNCHANGED <<back, frame, connected, answered, worker, channel, memory, inHand, history>>

\* A reply comes in; one that is late finds nobody waiting for it.
HandleReply ==
    /\ InEvents
    /\ toClient # << >> /\ Head(toClient).type = "reply"
    /\ toClient' = Tail(toClient)
    /\ answered' = (answered \/ (pc = "wait" /\ Head(toClient).id = frame))
    /\ UNCHANGED <<pc, back, frame, connected, worker, toWorker, memory, inHand, history>>

\* receiveProcessedFrame, called for a signal: the segment is attached the first time.
HandleSignal ==
    /\ InEvents
    /\ toClient # << >> /\ Head(toClient).type = "frameProcessed"
    /\ toClient' = Tail(toClient)
    /\ attached' = attached \cup {"out"}
    /\ inHand' = Frame(Head(toClient).id, <<outSeg[1], 0>>)
    /\ back' = pc
    /\ pc' = "receive"
    /\ UNCHANGED <<frame, connected, answered, worker, toWorker, inSeg, outSeg, files, history>>

AttachFails ==
    /\ InEvents
    /\ toClient # << >> /\ Head(toClient).type = "frameProcessed"
    /\ "out" \notin attached
    /\ pc' = "exit"
    /\ UNCHANGED <<back, frame, connected, answered, worker, channel, memory, inHand, history>>

Receive ==
    /\ pc = "receive"
    /\ inHand' = [inHand EXCEPT !.picture[2] = outSeg[2]]
    /\ received' = Append(received, [inHand EXCEPT !.picture[2] = outSeg[2]])
    /\ pc' = back
    /\ UNCHANGED <<back, frame, connected, answered, worker, channel, memory, sent, late>>

WaitDone ==
    /\ pc = "wait"
    /\ answered
    /\ pc' = "next"
    /\ UNCHANGED <<back, frame, connected, answered, worker, channel, memory, inHand, history>>

\* Mutant: the wait for a reply has no limit.
TimeOutNever ==
    /\ pc = "wait"
    /\ ~ answered
    /\ UNCHANGED vars

\* waitForFinished(10000) is over: a message, and on to the next frame.
TimeOut ==
    /\ pc = "wait"
    /\ ~ answered
    /\ late' = TRUE
    /\ pc' = "next"
    /\ UNCHANGED <<back, frame, connected, answered, worker, channel, memory, inHand, sent, received>>

\* Mutant: the client removes its own segment only.
CloseOwn ==
    /\ pc = "close"
    /\ wpc' = "gone" /\ m_queue' = << >> /\ toWorker' = << >> /\ toClient' = << >>
    /\ files' = files \ {"in"}
    /\ pc' = "closed"
    /\ UNCHANGED <<back, frame, connected, answered, job, inSeg, outSeg, attached, inHand, history>>

\* The transformer terminates its stream; ~WorkerConnector ends the worker, and the
\* segments the client has mapped, its own and the worker's, lose their names.
Close ==
    /\ pc = "close"
    /\ wpc' = "gone" /\ m_queue' = << >> /\ toWorker' = << >> /\ toClient' = << >>
    /\ files' = files \ ({"in"} \cup (attached \cap {"out"}))
    /\ pc' = "closed"
    /\ UNCHANGED <<back, frame, connected, answered, job, inSeg, outSeg, attached, inHand, history>>

Client ==
    \/ Notice \/ Connected \/ NextFrame \/ EventsDone
    \/ WriteHalf \/ CreateFails \/ WriteRest
    \/ Call \/ CallFails \/ HandleReply \/ HandleSignal \/ AttachFails \/ Receive
    \/ WaitDone \/ TimeOut \/ Close
-----------------------------------------------------------------------------
(* The worker: slots and a timer of 0 ms in one event loop.                *)

Start ==
    /\ wpc = "starting"
    /\ wpc' = "loop"
    /\ UNCHANGED <<client, job, m_queue, channel, memory, inHand, history>>

\* processFrame: shm_to_cvmat ...
TakeCall ==
    /\ wpc = "loop"
    /\ toWorker # << >>
    /\ toWorker' = Tail(toWorker)
    /\ attached' = attached \cup {"in"}
    /\ job' = Frame(Head(toWorker), <<inSeg[1], 0>>)
    /\ wpc' = "read"
    /\ UNCHANGED <<client, m_queue, toClient, inSeg, outSeg, files, inHand, history>>

\* ... and enqueue; the return value is the reply.
Enqueue ==
    /\ wpc = "read"
    /\ job' = [job EXCEPT !.picture[2] = inSeg[2]]
    /\ m_queue' = Append(m_queue, job')
    /\ toClient' = Append(toClient, Reply(job.id))
    /\ wpc' = "loop"
    /\ UNCHANGED <<client, toWorker, memory, inHand, history>>

\* Mutant: the latest frame is processed first.
TakeFrameLast ==
    /\ wpc = "loop"
    /\ m_queue # << >>
    /\ job' = m_queue[Len(m_queue)]
    /\ m_queue' = SubSeq(m_queue, 1, Len(m_queue) - 1)
    /\ wpc' = "write"
    /\ UNCHANGED <<client, channel, memory, inHand, history>>

\* processAndSendData: dequeue and process ...
TakeFrame ==
    /\ wpc = "loop"
    /\ m_queue # << >>
    /\ job' = Head(m_queue)
    /\ m_queue' = Tail(m_queue)
    /\ wpc' = "write"
    /\ UNCHANGED <<client, channel, memory, inHand, history>>

WriteAnswer ==
    /\ wpc = "write"
    /\ files' = files \cup {"out"}
    /\ outSeg' = [outSeg EXCEPT ![1] = job.picture[1]]
    /\ wpc' = "write2"
    /\ UNCHANGED <<client, job, m_queue, channel, inSeg, attached, inHand, history>>

\* ... cvmat_to_shm, and emit frameProcessed.
SendAnswer ==
    /\ wpc = "write2"
    /\ outSeg' = [outSeg EXCEPT ![2] = job.picture[2]]
    /\ toClient' = Append(toClient, Signal(job.id))
    /\ wpc' = "loop"
    /\ UNCHANGED <<client, job, m_queue, toWorker, inSeg, files, attached, inHand, history>>

Worker == Start \/ TakeCall \/ Enqueue \/ TakeFrame \/ WriteAnswer \/ SendAnswer

\* The worker does not start, crashes, or ends itself for want of a segment.
Die ==
    /\ wpc # "gone"
    /\ wpc' = "gone" /\ m_queue' = << >> /\ toWorker' = << >>
    /\ UNCHANGED <<client, job, toClient, memory, inHand, history>>
-----------------------------------------------------------------------------
Next == Client \/ Worker \/ Die

Safety == Init /\ [][Next]_vars

\* The client goes on; nothing is asked of the worker.
Spec == Safety /\ WF_vars(Client)
-----------------------------------------------------------------------------
(* Properties.                                                             *)

Frames == [id : 0 .. N, picture : (0 .. N) \X (0 .. N)]

\* Type invariant.
TypeOK ==
    /\ pc \in {"connect", "next", "events", "write", "write2", "call", "wait", "receive",
               "close", "closed", "exit"}
    /\ back \in {"connect", "events", "wait"}
    /\ frame \in 0 .. N + 1
    /\ connected \in BOOLEAN /\ answered \in BOOLEAN /\ late \in BOOLEAN
    /\ wpc \in {"starting", "loop", "read", "write", "write2", "gone"}
    /\ job \in Frames /\ m_queue \in Seq(Frames)
    /\ toWorker \in Seq(1 .. N)
    /\ toClient \in Seq([type : {"reply", "frameProcessed"}, id : 1 .. N])
    /\ {inSeg, outSeg} \subseteq (0 .. N) \X (0 .. N)
    /\ files \subseteq {"in", "out"} /\ attached \subseteq {"in", "out"}
    /\ inHand \in Frames
    /\ sent \in Seq(1 .. N) /\ received \in Seq(Frames)

\* Segments carry no sign of the frame they show.  As long as no call has timed out,
\* the worker has the picture of the very frame it was called with; and an answer never
\* shows an earlier frame than its own, timeouts or not, though it may show parts of
\* later ones.
PicturesFit ==
    /\ ~ late => \A i \in DOMAIN m_queue : m_queue[i].picture = Picture(m_queue[i].id)
    /\ \A i \in DOMAIN received : \A half \in 1 .. 2 :
          received[i].picture[half] \in received[i].id .. frame

\* The ids of a sequence of frames.
Ids(s) == [i \in DOMAIN s |-> s[i].id]
\* The ids of the answers among the messages of s.
AnswersIn(s) ==
    LET upto[k \in 0 .. Len(s)] ==
            IF k = 0 THEN << >>
            ELSE IF s[k].type = "frameProcessed" THEN Append(upto[k - 1], s[k].id)
            ELSE upto[k - 1]
    IN  upto[Len(s)]
\* id, if it is in somebody's hand, in front of the ids in s.
Holding(s, place, id) == IF place THEN <<id>> \o s ELSE s

\* The calls between the client and their answers: signals, jobs, calls.  A worker that
\* has died takes with it what it has not answered.
OnTheWay ==
    LET coming == Holding(AnswersIn(toClient), pc = "receive", inHand.id)
        doing  == Holding(Ids(m_queue), wpc \in {"write", "write2"}, job.id)
        to     == Holding(toWorker, wpc = "read", job.id)
    IN  IF wpc # "gone" THEN coming \o doing \o to ELSE coming

Link == INSTANCE LinkPromise WITH
    received <- Ids(received),
    way      <- OnTheWay,
    broken   <- (wpc = "gone")

\* With timeouts, late replies and a worker that may die between any two steps, the
\* connection keeps what qro/ relies on: see LinkPromise.
KeepsLink == Link!Safety

\* A client that has come to its end leaves no segment of shared memory behind, if it
\* has had an answer; without one it does not know the worker's.
NoSegmentLeft ==
    pc = "closed" => /\ "in" \notin files
                     /\ "out" \in files => received = << >>

\* The client comes to its end whatever the worker does or fails to do: it never waits
\* for an answer without a limit.
LinkCloses == <>(pc \in {"closed", "exit"})
=============================================================================
