# parallelplayground in TLA+

The repository compares ways to hand data frames from a producer thread to several
consumer threads. It has one program per way (`src/src/lockbuf`, `lfq`, `mklfq`, `epolllfq`,
`qro`; the build leaves `epolllfq` out), and all of them set up the same threads:

    producer --> prodStream --> consumer_fast, consumer_slow, consumer_instant
                           \--> transformer --> transStream --> consumer_tfo

A *stream* is a list of *subscriptions*. A thread calls `subscribe()` and then `next()` in a
loop; the one thread that feeds the stream calls `push(frame)` for each frame and
`terminate()` behind the last. `next()` blocks while there is nothing to hand out and
answers `nullopt` when the stream has ended. The programs differ in how a subscription
keeps its frames and how its consumer sleeps; in qro every consumer also has a worker process,
and the second stream carries what the transformer's worker sends back.

## Inventory

| component | state | operations | hard behaviour | what makes it correct |
|---|---|---|---|---|
| lockbuf stream (`lockbuf/lockstream.h`) | `m_subs`, `m_mutex`; per subscription `m_buffer`, `m_mutex`, `m_mtxNodata`, `m_terminated` | `subscribe`, `push`, `terminate`, `next` | a mutex is used as a wakeup token: the consumer locks it, the feeder unlocks it | the token agrees with the buffer: `next()` neither finds the buffer empty nor sleeps on data; nothing is lost before the end |
| lfq stream (`lfq/lfqstream.h`) | `m_subs`, `m_mutex`; per subscription a ring, a condition variable, `m_terminated` | the same | notification without the mutex, spurious wakeups, ignored results of `read` and `write`, `terminate` without `m_mutex` | no frame is lost but by a full ring, none is repeated; sleepers are woken |
| folly ring (`lfq/ProducerConsumerQueue.h`) | `records_`, `readIndex_`, `writeIndex_` | `write`, `read`, `frontPtr`, `popFront`, `sizeGuess`, destructor | one writer and one reader without a lock | a slot has one user; the ring is a bounded queue |
| mklfq stream (`mklfq/mklfqstream.h`) | `m_subs`; per subscription a blocking queue of optionals, `m_terminated` | the same as lockbuf | the end is an element of the queue *and* a flag | as for lockbuf |
| moodycamel queue (`mklfq/readerwriterqueue.h`; `qro` has a copy) | a circle of blocks, each a ring; front and tail block | `enqueue`, `try_enqueue`, `try_dequeue`, `wait_dequeue`, `peek`, `pop` | blocks are reused and inserted while the reader moves on | an unbounded first-in first-out queue |
| semaphore (`mklfq/atomicops.h`) | `m_count`, the kernel's semaphore | `signal`, `wait`, `tryWait`, timed wait | the count goes negative; a timeout races a signal | as many waits return as signals were given |
| barrier (`barrier.h`) | `count`, a mutex, a condition | `wait`, `reset` | no loop around the wait; the number of threads must match | nobody passes before everybody has come |
| epolllfq stream (`epolllfq/eplfqstream.h`) | as lockbuf; per subscription an eventfd `m_efd` and an epoll instance `m_epfd` | as lockbuf | `next()` waits in epoll before it looks at the token; the constructor never sets `m_epfd` | no event is lost, so that no frame is left that nobody comes back for; every run ends |
| qro stream and program (`qro/qrostream.h`, `main.cpp`) | as mklfq, and the event loop the transformer is in | as mklfq | answers of the worker are pushed from inside an event loop, `terminate` takes no lock, the stream ends while answers are under way | the second stream carries what the worker answered, once and in order |
| worker (`qro/workerconnector.cpp`, `qro/worker/`) | two shared-memory segments and a queue on each side | `connectAndRun`, `sendProcessFrame`, `receiveProcessedFrame`; `processFrame`, `processAndSendData` | messages between two processes, timeouts whose result is ignored | what is read from a segment belongs to the id it comes with |
| shared memory (`qro/sharedmemory.cpp`, `cvmatshm.cpp`) | key, mapping, size | `create`, `attach`, `setShmKey`, writing and reading a matrix | the key may change while attached; errors half-way | a reader sees the picture its message is about; no segment outlives its users |
| `proconhelper.cpp` | none shared | image processing, timing | none | not a subject of the models |

The programs interact with the streams by calls only. The threads of one program share the
two streams and the flag `producer_running` (lockbuf, lfq, epolllfq) or the barrier (mklfq, qro).

## Modules

| module | models |
|---|---|
| `Topology` | the wiring: which thread subscribes to and feeds which stream. `TopologyAssumption` says what `main.cpp` guarantees: one feeder per stream, and the producer subscribes to nothing. |
| `StreamPromise` | abstract: what any stream promises to one subscription. Frames arrive in order and once, without gaps unless `Lossy`, and the end comes behind the data. |
| `LockStream` | `lockbuf/lockstream.h` and `lockbuf/main.cpp` |
| `EPLFQStream` | `epolllfq/eplfqstream.h` and `main.cpp`: `LockStream`, action by action, with what epoll and the eventfds add |
| `LFQStream` | `lfq/lfqstream.h` and `lfq/main.cpp`, over a bounded queue |
| `ProducerConsumerQueue` | the ring below `LFQStream`, slot by slot |
| `BoundedFifo` | abstract: the bounded queue `LFQStream` takes its ring to be, and that `ProducerConsumerQueue` is shown to implement |
| `MKLFQStream` | `mklfq/mklfqstream.h`, `mklfq/main.cpp` and `barrier.h`, over a blocking queue |
| `ReaderWriterQueue` | the queue below `MKLFQStream`, index by index; `qro` has the same file |
| `UnboundedFifo` | abstract: what `ReaderWriterQueue` promises to its writer and its reader |
| `LightweightSemaphore` | the semaphore of `BlockingReaderWriterQueue`, over the kernel's |
| `CountingSemaphore` | abstract: a semaphore with one waiter |
| `QROStream` | `qro/qrostream.h` and `qro/main.cpp`: the streams of `MKLFQStream`, and between them the transformer and its worker over a `LinkPromise` |
| `LinkPromise` | abstract: what the connection to a worker promises. The frames come back in the order they were sent in, each at most once, and none is lost as long as the worker lives. |
| `WorkerLink` | how the code keeps it: a client of qro, its worker process and the shared memory between them: `qro/workerconnector.cpp`, `qro/worker/`, `qro/sharedmemory.cpp`, `qro/cvmatshm.cpp`, and the loops of `qro/main.cpp` |
| `MCLockStream`, `MCLFQStream`, `MCMKLFQStream`, `MCEPLFQStream`, `MCQROStream` | instances for TLC; the other modules need none |
| `LockStreamProofs` (with `EPLFQStream`), `LFQStreamProofs`, `ProducerConsumerQueueProofs`, `MKLFQStreamProofs`, `ReaderWriterQueueProofs`, `LightweightSemaphoreProofs`, `WorkerLinkProofs`, `QROStreamProofs` | the theorems and their proofs |

The abstract modules say what code promises rather than how it works: `StreamPromise`,
`BoundedFifo`, `UnboundedFifo` and `CountingSemaphore` are mapped to no line. `LinkPromise` is,
because `QROStream` takes its steps as those of the connection.

The state variables carry the names of the members they stand for. `pc[t]` is where thread
`t` is, `todo[t]` the part of `m_subs` that a feeder still has to visit, `count[t]` the id of
its next frame; `got`, `joined` and `refused` (`received` in the ring, `items`, `hadRoom`, `hadData` and
`result` in `ReaderWriterQueue`; `sent`, `received` and `late` in `WorkerLink`) are history variables that no guard reads. A frame is its id: the pictures do not influence the control. A transformer
numbers its frames anew, as `transform_data_fast(data, count)` does.

**Grain.** A step is one access to something another thread can change: taking a mutex, an
atomic load or store, an operation on a queue under its lock. `next()` of lockbuf, for
example, is `NextCheck` (reads `m_terminated`), `TryData` (`try_lock`) or `WaitData` (`lock`),
`LockBuf` (takes `m_mutex`), `EmptyBuf` or `PopFront`, and `Rearm` (locks `m_mtxNodata` again
if the buffer is empty). In the lfq model the two tests of the waiting loop and the entry
into `wait` are three steps (`LoopCheck`, `LoopTest`, `Wait`), because a notification may
fall between them. A second read of `m_terminated` shares a step with the test before it
where the flag cannot have changed in between; the modules say so at the place.

`MKLFQStream` puts an element into the queue and signals the semaphore in two steps, since
`peek` may look between them, and takes the signal and the element in two. `enqueue` may fail
when `Capacity` elements, those of the first block, are queued: more need an allocation. A call
of `Barrier::wait` is one step, because its mutex is held up to the wait or the end of
`wakeAll`. In `ReaderWriterQueue` and `LightweightSemaphore` a step is one load or store of a
shared index, pointer or count; the destructor of the queue, which nobody may run beside
another call, is one step.

In `WorkerLink` a picture is written and read in two halves, so that a reader may see halves of
two pictures. The messages of one connection arrive in order; `HandleReply` and `HandleSignal`
run wherever the client is in an event loop. QtRemoteObjects is external: a call without a
source fails at once, and a call to a worker that has died is never answered. `Die` stands for
every way a worker ends by itself, including the `exit` of `cvmatshm.cpp`'s `error`.

`EPLFQStream` adds `epoll_wait` and the `read` of the eventfd to `next()`, one step each; the rest
of `next()` and all of `terminate` are the actions of `LockStream`. `push` unlocks the token and
writes the eventfd under `m_mutex`: whoever takes the token in between stops at that mutex, so
that the two are one step (`PushEvent`). epoll is external: edge-triggered, an event is reported
once, to one waiter, if the eventfd can still be read. `efd` is the counter of the eventfd: a
`read` empties it whatever number of pushes it stands for, and the history variable `merged`
counts those for which no second `read` will come. The destructor of a subscription closes its
eventfd, which takes a pending event away from those who share the instance (`Open`).

In `QROStream` the transformer takes a frame, is in the event loop of `processEvents` (pc
`"events"`), calls the worker, and is in that of `waitForFinished` (`"reply"`). From either loop
`receiveProcessedFrame` may push what has come back (`Receive`); `back` is the loop it returns to.
The call may fail for want of a source and the reply may not come in time (`CallFails`,
`WaitDone`); the worker may die at any moment. `terminate` is that of mklfq without the mutex
(`TermBegin`, `TermEnd`), and behind it the destructor of the connection ends the worker
(`Close`). Where the link is concerned a step is one of `LinkPromise`, which `WorkerLink` is
checked to implement. A plain consumer's worker answers to nobody, so that of its loop `next()`
and the exit for want of shared memory (`Abort`) are left.

**Undefined behaviour.** Five places of the code leave the standard.

- lockbuf unlocks `m_mtxNodata` from a thread that did not lock it, or while it is free. The
  build uses a normal glibc mutex, for which unlocking stores "unlocked" in both cases; the
  model does the same. A checking mutex would not behave like this.
- lfq's `terminate` walks over and clears `m_subs` without `m_mutex`. A `push_back` under the
  walk is a data race: the model lets it pass unnoticed or end the process (`"crash"`).
- epolllfq's constructor stores the epoll instance in `m_efd`, where the eventfd overwrites it, and
  never sets `m_epfd`, which `epoll_ctl` and `epoll_wait` read. What it holds may be no epoll
  instance, so that `epoll_ctl` fails and the program exits (`SubscribeFails`), or any of the
  instances left open so far, its own or that of another subscription (`EplSubscribe`).
- `shm_to_cvmat` copies eight bytes more than the matrix holds. OpenCV allocates the matrix with
  more slack than that, so the model has no state for it. The time stamp of a frame, which
  nobody sets and nobody reads, is left out.
- `SharedMemory::attach` keeps the pointer of `qPrintable`, which is into a temporary that is gone
  when `shm_open` gets it. The memory may still hold the key, or may not, so that the call fails:
  the client then ends (`AttachFails`), and so does the worker (`Die`). A pointer that happens to
  name another segment has no state.

**Memory order.** Each index of the folly ring, and each index and pointer of the moodycamel
queue, has one thread that stores it, with release or behind a fence, and another that loads it
with acquire or before one; a thread's relaxed load of its own index reads what it
wrote. All other shared data is under mutexes or sequentially consistent atomics.
Interleaving steps therefore show what the threads can see.

## Runs

| run | module, configuration | result |
|---|---|---|
| `epoll` | `MCEPLFQStream`, producer, consumer and transformer, 2 frames | passes, 269,126 states |
| `qro` | `MCQROStream`, producer, transformer and the consumer of the second stream, 3 frames, blocks of one element | passes, 128,626 states |
| `lock_pass` | `MCLockStream`, producer, consumer, transformer and its consumer, 2 frames | passes, 295,466 states |
| `lock_setup` | the same | **violates** `SetUpBeforeProduction` |
| `ring` | `ProducerConsumerQueue`, 4 slots, 9 values | passes, 25,546 states |
| `lfq_safety` | `MCLFQStream`, the same four threads, 2 frames, rings of one value | passes, 749,384 states |
| `lfq_live` | producer, transformer and its consumer, 3 frames, rings of two values | passes, 22,398 states |
| `lfq_lost` | the same, 1 frame | **violates** `TerminationIsNoticed` |
| `mklfq` | `MCMKLFQStream`, the four threads, 2 frames, blocks of one element | passes, 176,574 states |
| `rwqueue` | `ReaderWriterQueue`, 4 elements asked for, blocks of 2 slots, 7 values, 6 blocks at most | passes, 200,387 states |
| `link` | `WorkerLink`, 4 frames | passes, 505,336 states |
| `semaphore` | `LightweightSemaphore`, signals of 1 or 2, at most 8 pending | passes, 167 states |

What they show:

- `lock_pass`. `NoUnexpectedEmpty`: the `exit(9)` of `next()` is never reached, although the
  feeder unlocks the token of a consumer it knows nothing of. `TokenMatchesData`: no consumer
  sleeps while it has frames.
  `DeliversAllSinceSubscribe`: what a consumer has got and what is queued for it are at any
  moment exactly the frames pushed since it subscribed, in order. `KeepsPromise`: the whole
  implements `StreamPromise` with its fairness. `RunEnds`: only a subscription to a stream
  that has already been terminated keeps a run from ending. `Inv` is the inductive
  invariant of the proof.
- `lock_setup`. The comment at `lockbuf/main.cpp:115` has production start "now that all
  threads have been set up", but the flag is set when the threads have been created. The run
  shows a frame pushed while a consumer has not subscribed. Such a consumer loses frames, or,
  if it comes after the termination, waits for ever.
- `ring`. Writer and reader never use one slot together, each object is built in raw memory
  and destroyed once, `frontPtr` stays valid, a stale `sizeGuess` errs to the documented side,
  the destructor destroys all that is left, and the ring implements a first-in first-out
  queue of `size - 1` values that refuses a value only when it is full.
- `lfq_safety`. `read` never fails, so `next()` never hands out an uninitialised frame, with
  spurious wakeups too (`ReadNeverFails`); the first
  `Capacity` frames always fit (`FirstFramesFit`: with 4095 places and 2000 frames the ignored
  result of `write` does no harm); `EveryFrameAccounted`: each frame pushed since
  the subscription was handed out, is queued or was refused, and what arrives is in order.
- `lfq_live`. A consumer asleep before its stream is terminated is woken, by the next push or
  the termination: a lost notification of a push is repaired later. A run that does not end
  has crashed in the race of `subscribe` with `terminate`, or has a consumer that subscribed
  too late (`Orphan`) or that fell asleep behind the last notification (`Forgotten`).
- `lfq_lost`. The `Forgotten` case happens: `terminate` sets the flag and notifies between the
  consumer's test of the flag and its `wait`, and the program hangs in `join`. Holding
  `m_mtxNodata` while setting the flag would close the window.
- `mklfq`. Nobody leaves the barrier before every consumer of either stream has subscribed
  (`StartsTogether`); `DequeueSucceeds` is the assertion in `wait_dequeue`; each frame arrives
  once and in order unless it was refused for want of memory (`EveryFrameAccounted`), and the
  whole implements `StreamPromise` with its fairness. `RunEnds` has no exceptions here, other
  than in lockbuf and lfq: the barrier leaves no late subscriber, and the empty optional wakes
  the last sleeper. Even a refused one does no harm, since the flag is set before it, and a
  queue that refuses it has an element to wake its consumer with.
- `rwqueue`. `ElementLifetimes`: elements are built in raw memory, taken where there is one,
  and destroyed by the destructor; the three assertions of the code about the next block hold.
  `PeekStays`: what `peek` points to stays the first element. `ImplementsFifo`: the blocks are a
  first-in first-out queue, nothing is refused before the `MaxSize` elements of the constructor
  are in it, and the reader finds it empty only if it was empty when the call began.
- `link`. Unless a call has timed out, the worker queues the picture of the very frame it was
  called with, since the client waits for the reply before it writes again. Nothing does the same
  for the answers: an answer may show a later frame, or halves of two, but never an earlier one
  (`PicturesFit`). `KeepsLink`: the whole implements `LinkPromise`, so that as long as the worker
  lives each call is somewhere between the client and its answer; at the end of the loop what is
  still there is lost, and since the reply comes when the frame is queued, not when it is processed, that is as much as
  the worker is behind. `NoSegmentLeft`: no shared memory stays behind but that of a worker
  whose answers never came. `LinkCloses`: the client ends whatever the worker does.
- `epoll`. `next()` comes back once for an event, and an event may stand for several frames.
  `MergedStayBehind`: a consumer with an epoll instance of its own that sleeps in `epoll_wait` has
  left in its buffer exactly the frames whose events were merged with another one, and the one
  whose event is about to be written; with both frames pushed before the `read`, one stays behind.
  And `terminate` writes no eventfd. `NeverEnds`: such a consumer never comes to the `nullopt`
  behind its last frame. `RunStrands`: sharing instances does not help, every run that does not fail
  at once comes to a consumer asleep in `epoll_wait` for good, and never to the end of its joins.
- `qro`. `AnswersReachConsumers`: what a consumer of the second stream has got and what is queued for
  it are the answers of the worker, in the order of the frames and each once; what is missing was
  refused for want of memory, or had not come back when the transformer saw the end of its input.
  `AloneInTerminate`: the missing lock of `terminate` does no harm, since the barrier keeps `subscribe`
  and the single feeder keeps `push` away. `KeepsOrder`: the streams still implement a lossy
  `StreamPromise`, nothing comes behind an end. `QRORunEnds`: every run comes to the end of its
  joins, or to the exit for want of shared memory, whatever the worker does.
- `semaphore`. The count and the kernel's semaphore together are a counting semaphore, the
  assertion `oldCount >= -1` holds, a wait that timed out leaves neither a claim nor a post
  behind (`LeavesNoTrace`), and its loop after the timeout ends (`TimedWaitReturns`).

**Bounds.** Four threads are one of each kind and both streams; a further plain consumer is a
copy of the first, and consumers of one stream meet only in the feeder's walk and at
`m_mutex`. Two frames are the least with a frame before and behind another, so that a buffer
runs empty, is filled and runs empty again; with rings of one value the second frame can be
refused. `lfq_live` has three frames and rings of two, so that a ring is full, partly filled
and empty. A ring of 4 slots and 9 values goes round more than twice with every distance of
the two indices. In `mklfq` the first block has room for one element, so that the second frame, or the empty
optional, is refused or makes the queue longer. `rwqueue` begins with five blocks of two slots
(one usable): four elements fit, a fifth goes to the spare block or a new one, seven values come
round to blocks used before, and both outcomes of an allocation occur. With four frames the worker
is up to three behind, and writes two answers while the client reads an earlier one. In `epoll` two consumers of one stream are
the least that can share an instance, the transformer's feeding side runs too, and two frames are
the least that one `read` can merge. In `qro` three
frames let two answers be under way while a third frame is sent, and the block of one element is
full for some answers. With up to 8
pending signals the semaphore is emptied and filled in all orders of the two threads. `N`,
`Size`, `MaxBlocks`, `MaxSignal` and `MaxValue` are the only bounds; the proofs have none but
`MaxSignal` and `MaxValue`, which may be any positive number.

**Deadlock** is checked for the semaphore, which may be called for ever. The other runs really
stop: at their end, and in the hangs described above. That it stops nowhere else is what `RunEnds` says.

**Fairness.** `WF_vars(Step(t))` for each thread and `WF_vars(Main)`: the operating system runs
every thread that can go on. No strong fairness for a contended mutex is assumed: a run
has finitely many steps, so that in the end nobody else takes it. Spurious wakeups have no
fairness. In the ring and in `ReaderWriterQueue`, a
thread inside an operation goes on and the callers call again. In the semaphore only a thread
inside a call has to go on (`Post`, `Waiting`); nobody has to signal. In `WorkerLink` only the
client has to go on, and in `QROStream` only the threads of the client process: the worker may stop
at any time. `EPLFQStream` has the fairness of `LockStream`.

## Proofs

| theorem | states, for all values of the constants |
|---|---|
| `LockStreamProofs!TypeCorrect`, `Invariance` | `Safety => []TypeOK`, `Safety => []Inv` |
| `LockStreamProofs!NoExit` | `Safety => []NoUnexpectedEmpty` |
| `LockStreamProofs!NoSleepOnData` | `Safety => []TokenMatchesData` |
| `LockStreamProofs!DrainedBeforeEnd` | `Safety => []EndsDrained` |
| `LockStreamProofs!NothingIsLost` | `Safety => []DeliversAllSinceSubscribe` |
| `LockStreamProofs!IsLosslessStream` | `Safety => Promise!Safety`, the refinement of `StreamPromise` but for its fairness |
| `LockStreamProofs!EplInvariance` | `EplSafety => [](Inv /\ EplInv)` |
| `LockStreamProofs!PrivateNeverEnds` | `EplSafety => []NeverEnds` |
| `LockStreamProofs!OnlyMergedStay` | `EplSafety => []MergedStayBehind` |
| `LFQStreamProofs!TypeCorrect`, `Invariance` | `Safety => []TypeOK`, `Safety => []Inv` |
| `LFQStreamProofs!ReadSucceeds` | `Safety => []ReadNeverFails` |
| `LFQStreamProofs!DrainedBeforeEnd` | `Safety => []EndsDrained` |
| `LFQStreamProofs!NoEarlyDrop` | `Safety => []FirstFramesFit` |
| `LFQStreamProofs!NothingElseIsLost` | `Safety => []EveryFrameAccounted` |
| `LFQStreamProofs!IsLossyStream` | `Safety => KeepsOrder`, the refinement of `StreamPromise` but for its fairness |
| `ProducerConsumerQueueProofs!TypeCorrect`, `Invariance` | `Safety => []TypeOK`, `Safety => []Inv` |
| `ProducerConsumerQueueProofs!NoSlotIsShared` | `Safety => []SlotLifetimes` |
| `ProducerConsumerQueueProofs!GuessesAreSafe` | `Safety => []GuessBounds` |
| `ProducerConsumerQueueProofs!FrontIsStable` | `Safety => []FrontStays` |
| `ProducerConsumerQueueProofs!DestructorIsComplete` | `Safety => []NothingLeaks` |
| `ProducerConsumerQueueProofs!IsBoundedFifo` | `Safety => Fifo!Safety`, the refinement of `BoundedFifo` but for its fairness |
| `MKLFQStreamProofs!Invariance` | `Safety => []Inv` |
| `MKLFQStreamProofs!AssertHolds` | `Safety => []DequeueSucceeds` |
| `MKLFQStreamProofs!BarrierHolds` | `Safety => []StartsTogether` |
| `MKLFQStreamProofs!NothingElseIsLost` | `Safety => []EveryFrameAccounted` |
| `MKLFQStreamProofs!IsLossyStream` | `Safety => Promise!Safety`, the refinement of `StreamPromise` but for its fairness |
| `ReaderWriterQueueProofs!TypeCorrect`, `Invariance` | `Safety => []TypeOK`, `Safety => []Inv` |
| `ReaderWriterQueueProofs!Lifetimes` | `Safety => []ElementLifetimes` |
| `ReaderWriterQueueProofs!PeekIsStable` | `Safety => []PeekStays` |
| `ReaderWriterQueueProofs!IsFifo` | `Safety => Fifo!Safety`, the refinement of `UnboundedFifo` but for its fairness |
| `LightweightSemaphoreProofs!TypeCorrect`, `Invariance` | `Safety => []TypeOK`, `Safety => []Inv` |
| `LightweightSemaphoreProofs!NothingLeftBehind` | `Safety => []LeavesNoTrace` |
| `LightweightSemaphoreProofs!IsCountingSemaphore` | `Safety => Counts`, the refinement of `CountingSemaphore` but for its fairness |
| `WorkerLinkProofs!SegmentInvariance`, `NothingStays` | `Safety => []SegmentInv`, `Safety => []NoSegmentLeft` |
| `WorkerLinkProofs!LinkInvariance`, `TypeCorrect` | `Safety => []LinkInv`, `Safety => []TypeOK` |
| `WorkerLinkProofs!PicturesAreRight` | `Safety => []PicturesFit` |
| `WorkerLinkProofs!CallsInOrder` | `Safety => []PromiseInv` |
| `WorkerLinkProofs!IsLink` | `Safety => KeepsLink`, the refinement of `LinkPromise` |
| `QROStreamProofs!QuietInvariance`, `TerminateIsAlone` | `QROSafety => []QuietInv`, `QROSafety => []AloneInTerminate` |
| `QROStreamProofs!AnswerInvariance`, `AnswersArrive` | `QROSafety => []AnswerInv`, `QROSafety => []AnswersReachConsumers` |
| `QROStreamProofs!OrderInvariance` | `QROSafety => []OrderInv` |
| `QROStreamProofs!QROIsLossyStream` | `QROSafety => KeepsOrder`, the refinement of `StreamPromise` but for its fairness |

The only assumptions are those on the constants, which TLC evaluates in the runs: `TopologyAssumption`,
`CapacityAssumption`, `SizeAssumption`, `QueueAssumption`, `SemaphoreAssumption`, `FramesAssumption`, `NoFdAssumption`
(the mark for a descriptor nobody holds is no thread), `FiniteThreads` (the barrier counts them) and
`TransformerAssumption` (qro has one).

*lockbuf.* None of the properties is inductive alone: whether the buffer may be empty behind
the token depends on where the token is. `Inv` keeps an account of it. Until a subscription is
terminated, each token that is free, and the one in the consumer's hand, stands for a frame
in the buffer, apart from the frame the feeder has appended and is about to signal:

    Len(buffer) >= [nodata free] + [consumer behind the token] + [feeder about to signal]

So a consumer that has the token finds a frame. This needs the exclusion by `m_mutex` (append
and signal, and pop and re-lock, do not interleave), that a feeder visits the subscriptions of
its own stream only (`WalksAreOwn`), that it terminates only when it pushes no more, and the
typing. The proof goes by the subscription: a frame lemma says that a step of a consumer
or a feeder leaves every *other* subscription as it is, and an own lemma per role goes through
the steps for the subscription concerned.

`NothingIsLost` compares `got \o buffer` with the interval of frame numbers from the one the
feeder was at when the consumer subscribed up to the feeder's latest. Which that is depends on
whether the walk has come past the subscription yet, so the walk must meet it exactly once:
`WalksAreOwn` has `m_subs` and each walk free of repetitions and has the feeder hold the
stream's mutex all along, which keeps a consumer from subscribing half-way, and
`StaysSubscribed` keeps a consumer in `m_subs` until its feeder is done.

*epolllfq.* Each step is a step of lockbuf or leaves its state alone (`EplIsSafe`), so that `Inv`
comes along. For an epoll instance of one's own, `EplInv` adds an account of the buffer
(`EventsAreFrames`): each frame in it is one whose event has not been read, one that was merged,
the one `next()` is working for, or the one about to be signalled; and an eventfd with something to
read is on the ready list, or just reported. A consumer behind `epoll_wait` therefore finds a
frame, and never the end, and one asleep there has nothing to read: what is left was merged.

*lfq.* That `read` never fails rests on who empties a queue: only its own consumer does, so
what the consumer saw stays true until it reads. That the first `Capacity` frames fit rests on
`Len(queue) <= LastOffered`: a queue holds no more than its feeder has offered. To keep
this in the walk, a feeder must come to each subscription once, so `WalksAreOwn` has `m_subs`
and each walk free of repetitions, which in turn needs that a consumer subscribes once.
`NothingElseIsLost` goes by cases on the step: a frame moves from the feeder to the queue or to
`refused`, and from the queue to `got`, and the order of `got \o queue` with it.

*mklfq.* For each subscription `Inv` says that the queue has an element for every signal, sent,
taken or about to be sent; the `assert` is a part of it. The empty optional is the last element
and comes at the feeder's last visit. The barrier holds since its count is the number of the
threads that have not come to it, and it opens at once for all that are parked.

*Promises of the streams.* The abstract steps are those of the subscription: putting a frame
into its queue is `Publish`, taking one out is `Deliver`, setting `m_terminated` is `Terminate`,
and the step with which `next()` answers `nullopt` is `Close`; all others stutter. `Publish`
wants an id that fits behind what the subscription has seen, and in `1 .. N`. The first is the
account of the frames. The second needs an argument of its own (`InRange`, `Follows`): the
producer counts to `N`, and the number a transformer gives is at most that of the frame it has
in hand. `Close` wants the subscription told and empty, and in mklfq (`EndInv`) that the flag is
set before the empty optional is queued. The destructors at the end of `main` stutter because
whoever is through has been told before.

*Rings.* `Inv` says what each slot holds, from the two indices and the places of the two
threads: between the indices values (the first perhaps in the reader's hand), outside raw
memory but for the slot the writer is building in. One lemma per side goes through the
steps. In the refinement the queue is the run of slots between the indices; storing an index is
the abstract step, and so is the load with which `write` finds the ring full.

*Circle of blocks.* Which block comes next changes with every block that is linked in, so the
invariant of `ReaderWriterQueueProofs` does not follow the pointers: it says that there is a numbering
`pos` of the blocks along the circle, from the front block, and for each block the number
`start` of the values before it. `CircleInv`: `next` leads from a number to the following one and
from the last to the first, which `Link` keeps by moving up all that is behind the new block, and
`AdvanceFront` by counting from the next block. `FillInv`: a block between the front and the tail block
is full (all its slots but one), one behind the tail block empty but for the element that
`PublishNext` has put there; this is what the writer relies on when it goes on to the next block, and the reader
when it leaves its own. `SlotInv`: each slot holds the value of `items` that `start` and its distance
from the block's front name, what a thread is at, or nothing. The remembered indices lag behind
the true ones (`BlockInv`), so that what a test finds with them is so.

That `try_enqueue` refuses a value only when `MaxSize` are held (`NoRoom`) is a sum over the
blocks: the tail block full and the front block right behind it, every block but the front one
holds its size less one, and the constructor has made enough of them (`SizeInv`, `BlockCount`).
The sum goes by induction on `pos`, and so do the destructor's way round the circle (`CircleIsWhole`),
and the powers of two in the constructor: the induction is written as an argument about the least
counterexample (`Least`), which needs no theorem with an operator for a parameter.

In the refinement `Offer` and `Ask` are the calls, storing the tail index or, with a new block, the
tail pointer is `Put`, storing the front index `Take`; a refusal is `CheckNext` or
`AllocateFails`, a miss the load of the tail pointer in `CheckTailBlock`. For these the
invariant has to carry what was true at the call (`hadRoom`, `hadData`) to the step that answers.

*Semaphore.* `LeavesNoTrace` counts the posts of the kernel's semaphore, given or about to be:
there is one exactly when a signal has found the waiter's claim below zero and the waiter has
not used the post up. With it each step is one of `CountingSemaphore`, whose value is `m_count`
and the claim: the `fetch_add` of a waiter moves a signal from the one to the other.

*Worker.* What the client unlinks at its end are the segments it has mapped. `SegmentInv` has the
worker's among them as soon as an answer is in the client's hand, and says that nobody is
left then to make one again. `LinkInv` is typing and four parts. `PlaceInv`: the client asks only
where its place in the loop allows, and what it holds there. `OrderInv`: along the way from the
client's latest frame over the messages, the worker's hand and queue, and back, the ids do not
increase. `MemoryInv`: no half of a segment shows an earlier frame than the message about
it. `CallInv`: while no call has timed out, at most one frame is before the worker's queue, and it
is the frame the client waits for, so that nobody writes what is still to be read.

In the refinement the way of `LinkPromise` is three sequences, one behind the other: `Coming`, the
answers the worker has sent (the one in the client's hand first), `Doing`, the frames it has
queued, and `Calls`. `Call` is `Ask`, `Receive` is `Answer`; `Enqueue` and `SendAnswer` hand the
first frame of one sequence to the end of the one before it, which leaves the way as it was
(`Handed`), and so do all other steps of both sides. When the worker dies, the way is cut behind
`Coming`. `Ask` wants an id above all earlier ones, which is `SentInv`. The answers among the
messages (`AnswersIn`) are a recursive function; what it gives for a message less in front or one
more behind (`FirstAnswer`, `MoreAnswers`) goes by the least counterexample, as above.

*qro.* `QuietInv` is the barrier and the mutexes: a stream's mutex is held in a push only
(`HeldByPush`), whoever terminates is behind the barrier, and nobody else feeds that stream.
`AnswerInv` adds, over the walks of the feeders, the account of the answers: `received`, then
`way`, is in order and part of what was sent, which is part of what the transformer has taken;
and for each consumer of the second stream what it has seen and what was refused are
together what has been received, but for the answer that is being pushed and has not come to it.

`OrderInv` is what the refinement needs besides: for the first stream the account of *mklfq* (a
consumer's `got`, queue and refusals end at the feeder's frame); for both, that the signs of the
end come from the stream's feeder in the order the code has them, the flag before the empty
optional, with nothing queued behind it. For the second stream it then follows (`BehindAll`)
that the answer being pushed is above all a consumer has seen and in `1 .. N`, since it was sent,
hence taken from the first stream before. The mapping and its steps are those of the other streams.

Only model-checked: liveness, and with it the fair parts of `KeepsPromise`,
`ImplementsSemaphore` and `ImplementsFifo`, and the `<>` properties of the runs.

## Not modelled

`proconhelper.cpp` works inside one thread. Of `run_overcapacity` the number of threads is left
out: it is the same wiring with more plain consumers. `name()`, `m_ownerId` and
`m_allowSubscribe`, which nothing reads, have no variable. Nothing moves a queue, and
`size_approx` changes nothing. Nobody calls `Barrier::reset`, and the elapsed time does not
influence the control. All pictures of the program have one size, so that the replacement of a
segment and a change of its key never happen. `epolllfq` leaves out a failing `calloc`, `eventfd` or
`write`, and that the number of a closed eventfd may be given to that of a later subscription; its program is in the tree, but its `add_subdirectory` is commented out.

## Plan

What is left: a segment that is replaced by one of another size, for frames of several sizes (a
reader attaches once and does not look at the key again).
