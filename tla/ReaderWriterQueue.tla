------------------------- MODULE ReaderWriterQueue -------------------------
(***************************************************************************)
(* moodycamel::ReaderWriterQueue, the queue for one writer and one reader  *)
(* below the streams of mklfq/ and qro/: a circle of blocks, each of them  *)
(* a ring.  The writer fills the tail block and goes on to the next one,   *)
(* or inserts a new one if the reader is still there; the reader empties   *)
(* the front block and follows.                                            *)
(*                                                                         *)
(* Each side owns some of the indices and reads those of the other with    *)
(* fences on both sides; a step reads or writes one variable of the other  *)
(* side's.  pop() is try_dequeue() without the result.                     *)
(***************************************************************************)
EXTENDS Integers, Sequences

CONSTANTS
    MaxSize,          \* the argument of the constructor
    MAX_BLOCK_SIZE,   \* a power of two, at least 2
    N,                \* the writer offers the values 1..N
    MaxBlocks,        \* bound of the model: blocks that can be allocated in all
    Raw               \* memory without an object

ASSUME QueueAssumption ==
    /\ MaxSize \in Nat \ {0}
    /\ \E k \in 1 .. MAX_BLOCK_SIZE : MAX_BLOCK_SIZE = 2 ^ k
    /\ MAX_BLOCK_SIZE \in Nat /\ MAX_BLOCK_SIZE >= 2
    /\ N \in Nat /\ MaxBlocks \in Nat
    /\ Raw \notin Nat

VARIABLES
    alive,       \* the destructor has not run
    items,       \* history: the values put and not yet taken, in the order they were put
    blocks,      \* the blocks, in the order of their allocation
    frontBlock, tailBlock, largestBlockSize,
    wpc, mode,   \* where the writer is; "alloc" for enqueue, "room" for try_enqueue
    offer,       \* the argument of the next enqueue
    hadRoom,     \* history: the queue held less than MaxSize when the writer called
    rpc, op,     \* where the reader is; "dequeue" or "peek"
    nextBlock,   \* the reader's variable
    held,        \* block and index of the element the reader is at, or points to
    inHand,      \* the element the reader has moved out, or that peek pointed to
    result,      \* history: the value the last dequeue returned
    hadData      \* history: the queue held a value when the reader called

writer == <<wpc, mode, offer, hadRoom, tailBlock, largestBlockSize>>
reader == <<rpc, op, frontBlock, nextBlock, held, inHand, result, hadData>>
vars == <<alive, items, blocks, writer, reader>>

\* The powers of two.
Power[k \in 0 .. MaxSize + 1] == IF k = 0 THEN 1 ELSE 2 * Power[k - 1]

\* ceilToPow2(maxSize + 1)
FirstSize ==
    CHOOSE p \in {Power[k] : k \in DOMAIN Power} :
        /\ p > MaxSize
        /\ \A k \in DOMAIN Power : Power[k] > MaxSize => p <= Power[k]

\* The sizes of the blocks the constructor makes.
Initial ==
    IF FirstSize > MAX_BLOCK_SIZE * 2
    THEN [i \in 1 .. (MaxSize + MAX_BLOCK_SIZE * 2 - 3) \div (MAX_BLOCK_SIZE - 1)
            |-> MAX_BLOCK_SIZE]
    ELSE <<FirstSize>>

\* make_block, and the constructor of Block.
MakeBlock(size, follower) ==
    [size |-> size, front |-> 0, tail |-> 0, localFront |-> 0, localTail |-> 0,
     next |-> follower, data |-> [i \in 0 .. size - 1 |-> Raw]]

\* (i + 1) & sizeMask
Inc(b, i) == (i + 1) % blocks[b].size

Init ==
    /\ alive = TRUE
    /\ items = << >>
    /\ blocks = [i \in DOMAIN Initial |->
                    MakeBlock(Initial[i], IF i = Len(Initial) THEN 1 ELSE i + 1)]
    /\ frontBlock = 1 /\ tailBlock = 1
    /\ largestBlockSize = Initial[1]
    /\ wpc = "idle" /\ mode = "alloc" /\ offer = 1 /\ hadRoom = TRUE
    /\ rpc = "idle" /\ op = "dequeue" /\ nextBlock = 1 /\ held = <<1, 0>>
    /\ inHand = 0 /\ result = 0 /\ hadData = TRUE
-----------------------------------------------------------------------------
(* The writer: inner_enqueue.                                              *)

tailBlock_ == blocks[tailBlock]

\* The call returns.
Return ==
    /\ wpc' = "idle"
    /\ offer' = offer + 1
    /\ hadRoom' = TRUE

\* Mutant: the tail block is never full.
OfferNoGap ==
    /\ alive /\ wpc = "idle" /\ offer <= N
    /\ mode' \in {"alloc", "room"}
    /\ hadRoom' = (Len(items) < MaxSize)
    /\ wpc' = "construct"
    /\ UNCHANGED <<alive, items, blocks, reader, offer, tailBlock, largestBlockSize>>

\* Is there room behind the front index as the writer remembers it?
Offer ==
    /\ alive /\ wpc = "idle" /\ offer <= N
    /\ mode' \in {"alloc", "room"}
    /\ hadRoom' = (Len(items) < MaxSize)
    /\ wpc' = IF Inc(tailBlock, tailBlock_.tail) # tailBlock_.localFront THEN "construct" ELSE "reload"
    /\ UNCHANGED <<alive, items, blocks, reader, offer, tailBlock, largestBlockSize>>

ReloadFront ==
    /\ wpc = "reload"
    /\ blocks' = [blocks EXCEPT ![tailBlock].localFront = tailBlock_.front]
    /\ wpc' = IF Inc(tailBlock, tailBlock_.tail) # tailBlock_.front THEN "construct" ELSE "full"
    /\ UNCHANGED <<alive, items, reader, mode, offer, hadRoom, tailBlock, largestBlockSize>>

Construct ==
    /\ wpc = "construct"
    /\ blocks' = [blocks EXCEPT ![tailBlock].data[tailBlock_.tail] = offer]
    /\ wpc' = "publish"
    /\ UNCHANGED <<alive, items, reader, mode, offer, hadRoom, tailBlock, largestBlockSize>>

Publish ==
    /\ wpc = "publish"
    /\ blocks' = [blocks EXCEPT ![tailBlock].tail = Inc(tailBlock, @)]
    /\ items' = Append(items, offer)
    /\ Return
    /\ UNCHANGED <<alive, reader, mode, tailBlock, largestBlockSize>>

\* Mutant: the next block is used although the reader may be in it.
CheckNextNot ==
    /\ wpc = "full"
    /\ wpc' = "usenext"
    /\ UNCHANGED <<alive, items, blocks, reader, mode, offer, hadRoom, tailBlock, largestBlockSize>>

\* tailBlock_->next != frontBlock; try_enqueue gives up if the reader is there.
CheckNext ==
    /\ wpc = "full"
    /\ IF tailBlock_.next # frontBlock \/ mode = "alloc"
       THEN /\ wpc' = IF tailBlock_.next # frontBlock THEN "usenext" ELSE "alloc"
            /\ UNCHANGED <<offer, hadRoom>>
       ELSE Return
    /\ UNCHANGED <<alive, items, blocks, reader, mode, tailBlock, largestBlockSize>>

UseNext ==
    /\ wpc = "usenext"
    /\ blocks' = [blocks EXCEPT ![tailBlock_.next].localFront = blocks[tailBlock_.next].front]
    /\ wpc' = "fillnext"
    /\ UNCHANGED <<alive, items, reader, mode, offer, hadRoom, tailBlock, largestBlockSize>>

FillNext ==
    /\ wpc = "fillnext"
    /\ blocks' = [blocks EXCEPT ![tailBlock_.next].data[blocks[tailBlock_.next].tail] = offer]
    /\ wpc' = "publishnext"
    /\ UNCHANGED <<alive, items, reader, mode, offer, hadRoom, tailBlock, largestBlockSize>>

PublishNext ==
    /\ wpc = "publishnext"
    /\ blocks' = [blocks EXCEPT ![tailBlock_.next].tail = Inc(tailBlock_.next, @)]
    /\ wpc' = "advance"
    /\ UNCHANGED <<alive, items, reader, mode, offer, hadRoom, tailBlock, largestBlockSize>>

\* A new block with the element in it.  It is not yet in the circle.
Allocate ==
    LET size == IF largestBlockSize >= MAX_BLOCK_SIZE THEN largestBlockSize
                                                      ELSE largestBlockSize * 2
        new  == MakeBlock(size, tailBlock_.next)
    IN  /\ wpc = "alloc"
        /\ Len(blocks) < MaxBlocks
        /\ blocks' = Append(blocks, [new EXCEPT !.data[0] = offer, !.tail = 1, !.localTail = 1])
        /\ largestBlockSize' = size
        /\ wpc' = "link"
        /\ UNCHANGED <<alive, items, reader, mode, offer, hadRoom, tailBlock>>

\* malloc returns a null pointer.
AllocateFails ==
    /\ wpc = "alloc"
    /\ Return
    /\ UNCHANGED <<alive, items, blocks, reader, mode, tailBlock, largestBlockSize>>

Link ==
    /\ wpc = "link"
    /\ blocks' = [blocks EXCEPT ![tailBlock].next = Len(blocks)]
    /\ wpc' = "advance"
    /\ UNCHANGED <<alive, items, reader, mode, offer, hadRoom, tailBlock, largestBlockSize>>

AdvanceTail ==
    /\ wpc = "advance"
    /\ tailBlock' = tailBlock_.next
    /\ items' = Append(items, offer)
    /\ Return
    /\ UNCHANGED <<alive, blocks, reader, mode, largestBlockSize>>

Enqueue ==
    \/ Offer \/ ReloadFront \/ Construct \/ Publish
    \/ CheckNext \/ UseNext \/ FillNext \/ PublishNext
    \/ Allocate \/ AllocateFails \/ Link \/ AdvanceTail
-----------------------------------------------------------------------------
(* The reader: try_dequeue, pop and peek.                                  *)

frontBlock_ == blocks[frontBlock]

\* Is there an element before the tail index as the reader remembers it?  A new
\* call gives up the pointer of an earlier peek.
Ask ==
    /\ alive /\ rpc \in {"idle", "peeked"}
    /\ op' \in {"dequeue", "peek"}
    /\ hadData' = (items # << >>)
    /\ rpc' = IF frontBlock_.front # frontBlock_.localTail THEN "element" ELSE "reload"
    /\ UNCHANGED <<alive, items, blocks, writer, frontBlock, nextBlock, held, inHand, result>>

ReloadTail ==
    /\ rpc = "reload"
    /\ blocks' = [blocks EXCEPT ![frontBlock].localTail = frontBlock_.tail]
    /\ rpc' = IF frontBlock_.front # frontBlock_.tail THEN "element" ELSE "tailblock"
    /\ UNCHANGED <<alive, items, writer, op, frontBlock, nextBlock, held, inHand, result, hadData>>

\* Mutant: the front block is not looked at again.
CheckTailBlockOnce ==
    /\ rpc = "tailblock"
    /\ IF frontBlock # tailBlock
       THEN rpc' = "next" /\ UNCHANGED hadData
       ELSE rpc' = "idle" /\ hadData' = TRUE
    /\ UNCHANGED <<alive, items, blocks, writer, op, frontBlock, nextBlock, held, inHand, result>>

\* Empty, and no block behind: the answer is false, or a null pointer.
CheckTailBlock ==
    /\ rpc = "tailblock"
    /\ IF frontBlock # tailBlock
       THEN rpc' = "recheck" /\ UNCHANGED hadData
       ELSE rpc' = "idle" /\ hadData' = TRUE
    /\ UNCHANGED <<alive, items, blocks, writer, op, frontBlock, nextBlock, held, inHand, result>>

\* "Oh look, the front block isn't empty after all."
Recheck ==
    /\ rpc = "recheck"
    /\ blocks' = [blocks EXCEPT ![frontBlock].localTail = frontBlock_.tail]
    /\ rpc' = IF frontBlock_.front # frontBlock_.tail THEN "element" ELSE "next"
    /\ UNCHANGED <<alive, items, writer, op, frontBlock, nextBlock, held, inHand, result, hadData>>

LoadNext ==
    /\ rpc = "next"
    /\ nextBlock' = frontBlock_.next
    /\ rpc' = "nexttail"
    /\ UNCHANGED <<alive, items, blocks, writer, op, frontBlock, held, inHand, result, hadData>>

\* The pointer of peek: element i of block b.
Point(b, i) ==
    /\ held' = <<b, i>>
    /\ inHand' = blocks[b].data[i]
    /\ hadData' = TRUE
    /\ rpc' = "peeked"

LoadNextTail ==
    /\ rpc = "nexttail"
    /\ IF op = "peek"
       THEN Point(nextBlock, blocks[nextBlock].front) /\ UNCHANGED blocks
       ELSE /\ blocks' = [blocks EXCEPT ![nextBlock].localTail = blocks[nextBlock].tail]
            /\ rpc' = "advance"
            /\ UNCHANGED <<held, inHand, hadData>>
    /\ UNCHANGED <<alive, items, writer, op, frontBlock, nextBlock, result>>

\* From here on the writer may use the block the reader has left.
AdvanceFront ==
    /\ rpc = "advance"
    /\ frontBlock' = nextBlock
    /\ rpc' = "element"
    /\ UNCHANGED <<alive, items, blocks, writer, op, nextBlock, held, inHand, result, hadData>>

\* The element is moved out and destroyed, or pointed to.
Element ==
    /\ rpc = "element"
    /\ IF op = "peek"
       THEN Point(frontBlock, frontBlock_.front) /\ UNCHANGED blocks
       ELSE /\ inHand' = frontBlock_.data[frontBlock_.front]
            /\ blocks' = [blocks EXCEPT ![frontBlock].data[frontBlock_.front] = Raw]
            /\ rpc' = "release"
            /\ UNCHANGED <<held, hadData>>
    /\ UNCHANGED <<alive, items, writer, op, frontBlock, nextBlock, result>>

Release ==
    /\ rpc = "release"
    /\ blocks' = [blocks EXCEPT ![frontBlock].front = Inc(frontBlock, @)]
    /\ result' = inHand
    /\ items' = Tail(items)
    /\ hadData' = TRUE
    /\ rpc' = "idle"
    /\ UNCHANGED <<alive, writer, op, frontBlock, nextBlock, held, inHand>>

Dequeue ==
    \/ Ask \/ ReloadTail \/ CheckTailBlock \/ Recheck
    \/ LoadNext \/ LoadNextTail \/ AdvanceFront \/ Element \/ Release
-----------------------------------------------------------------------------
\* The blocks the destructor comes to: from the front block along next.
Circle ==
    {b \in DOMAIN blocks : \A S \in SUBSET DOMAIN blocks :
        frontBlock \in S /\ (\A x \in S : blocks[x].next \in S) => b \in S}

\* The destructor goes round the circle and destroys the elements in each block.
Destruct ==
    /\ alive /\ wpc = "idle" /\ rpc \in {"idle", "peeked"}
    /\ alive' = FALSE
    /\ items' = << >>
    /\ blocks' =
          [b \in DOMAIN blocks |->
              IF b \in Circle
              THEN [blocks[b] EXCEPT !.data =
                       [i \in DOMAIN @ |->
                           IF (i - blocks[b].front) % blocks[b].size
                                < (blocks[b].tail - blocks[b].front) % blocks[b].size
                           THEN Raw ELSE @[i]]]
              ELSE blocks[b]]
    /\ rpc' = "idle"
    /\ UNCHANGED <<writer, op, frontBlock, nextBlock, held, inHand, result, hadData>>

Next == Enqueue \/ Dequeue \/ Destruct

Safety == Init /\ [][Next]_vars

\* A writer inside a call finishes it and goes on to the next value, a reader goes
\* on reading; nobody has to destroy the queue.
Spec == Safety /\ WF_vars(Enqueue) /\ WF_vars(Dequeue)
-----------------------------------------------------------------------------
(* Properties.                                                             *)

IsBlock(b) ==
    LET B == blocks[b] IN
    /\ B.size \in Nat \ {0}
    /\ {B.front, B.tail, B.localFront, B.localTail} \subseteq 0 .. B.size - 1
    /\ B.next \in DOMAIN blocks
    /\ B.data \in [0 .. B.size - 1 -> Nat \cup {Raw}]

Control ==
    /\ alive \in BOOLEAN
    /\ {frontBlock, tailBlock, nextBlock} \subseteq DOMAIN blocks
    /\ largestBlockSize \in Nat \ {0}
    /\ wpc \in {"idle", "reload", "construct", "publish", "full", "usenext", "fillnext",
                "publishnext", "alloc", "link", "advance"}
    /\ mode \in {"alloc", "room"}
    /\ offer \in 1 .. N + 1
    /\ rpc \in {"idle", "peeked", "reload", "tailblock", "recheck", "next", "nexttail",
                "advance", "element", "release"}
    /\ op \in {"dequeue", "peek"}
    /\ inHand \in Nat /\ result \in Nat
    /\ hadRoom \in BOOLEAN /\ hadData \in BOOLEAN

\* Type invariant; no index leaves its block.
TypeOK == Control /\ \A b \in DOMAIN blocks : IsBlock(b)

\* An element is built only in raw memory and taken only where there is one; a block
\* the writer goes on to is empty, one the reader goes on to is not (the assertions
\* of the code); and the destructor leaves no element in any block.
ElementLifetimes ==
    /\ wpc = "construct" => tailBlock_.data[tailBlock_.tail] = Raw
    /\ wpc = "usenext" => blocks[tailBlock_.next].front = blocks[tailBlock_.next].tail
    /\ wpc = "fillnext" => blocks[tailBlock_.next].data[blocks[tailBlock_.next].tail] = Raw
    /\ rpc = "element" => frontBlock_.data[frontBlock_.front] # Raw
    /\ rpc = "nexttail" => blocks[nextBlock].front # blocks[nextBlock].tail
    /\ ~ alive => \A b \in DOMAIN blocks : \A i \in DOMAIN blocks[b].data :
                     blocks[b].data[i] = Raw

\* What peek points to is the first value of the queue and stays so until the reader's
\* next call, however much is written and however many blocks are added.
PeekStays ==
    rpc = "peeked" =>
        /\ blocks[held[1]].data[held[2]] = inHand
        /\ items # << >> /\ Head(items) = inHand

Fifo == INSTANCE UnboundedFifo WITH
    Reserved <- MaxSize,
    open     <- alive,
    room     <- hadRoom,
    data     <- hadData

\* The circle of blocks is a first-in first-out queue.  A value is refused only if
\* the queue held the MaxSize values the constructor was asked for, and the reader
\* gets nothing only if there was nothing when it asked.
ImplementsFifo == Fifo!Spec
=============================================================================
