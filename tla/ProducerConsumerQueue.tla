----------------------- MODULE ProducerConsumerQueue -----------------------
(***************************************************************************)
(* lfq/ProducerConsumerQueue.h: the lock-free ring of folly for one writer *)
(* thread and one reader thread, step by step as the two threads execute   *)
(* it.  A slot of the ring is raw memory, holds a constructed value, or    *)
(* holds a value that has been moved from and is still to be destroyed.    *)
(*                                                                         *)
(* An index has one thread that stores it, with release, and the other     *)
(* thread loads it with acquire before it touches a slot, so each step     *)
(* sees the other side's slots as its index says: steps interleave.        *)
(* A thread's relaxed load of its own index needs no step of its own.      *)
(***************************************************************************)
EXTENDS Integers, Sequences

CONSTANTS
    Size,   \* size_; 4096 in lfqstream.h
    N,      \* the values written: 1..N
    Raw,    \* a slot without an object
    Moved   \* a slot with a moved-from object

ASSUME SizeAssumption ==
    /\ Size \in Nat
    /\ Size >= 2
    /\ N \in Nat
    /\ Raw \notin Nat /\ Moved \notin Nat /\ Raw # Moved

VARIABLES
    alive,      \* the queue object exists
    records,    \* records_
    readIndex,  \* readIndex_
    writeIndex, \* writeIndex_
    wpc, rpc,   \* where the writer and the reader are
    offer,      \* the argument of the next write()
    inHand,     \* the reader's variable `record', or what frontPtr points to
    readerGuess, writerGuess,   \* the last sizeGuess() of each side
    received,   \* history: values the reader has removed
    refused     \* history: values write() returned false for

writer == <<writeIndex, wpc, offer, writerGuess, refused>>
reader == <<readIndex, rpc, inHand, readerGuess, received>>
vars == <<alive, records, writer, reader>>

Slots == 0 .. Size - 1

\* nextRecord, with the wrap-around at size_.
NextRecord(i) == IF i + 1 = Size THEN 0 ELSE i + 1

\* Mutant: a negative difference is not corrected.
SizeOfNoWrap(w, r) == w - r

\* ret = writeIndex_ - readIndex_, plus size_ if negative.
SizeOf(w, r) == IF w - r < 0 THEN w - r + Size ELSE w - r

Init ==
    /\ alive = TRUE
    /\ records = [i \in Slots |-> Raw]
    /\ readIndex = 0 /\ writeIndex = 0
    /\ wpc = "idle" /\ rpc = "idle"
    /\ offer = 1
    /\ inHand = 0
    /\ readerGuess = 0 /\ writerGuess = Size
    /\ received = << >>
    /\ refused = {}
-----------------------------------------------------------------------------
(* The writer: write(offer).                                               *)

\* Mutant: the fullness test compares the index itself, so the last slot is used.
WriteCheckNoGap ==
    /\ alive /\ wpc = "idle" /\ offer <= N
    /\ wpc' = "construct"
    /\ UNCHANGED <<alive, records, reader, writeIndex, offer, writerGuess, refused>>

\* Mutant: write() keeps a second slot free.
WriteCheckEarly ==
    /\ alive /\ wpc = "idle" /\ offer <= N
    /\ IF NextRecord(NextRecord(writeIndex)) # readIndex
       THEN /\ wpc' = "construct"
            /\ UNCHANGED <<offer, refused>>
       ELSE /\ refused' = refused \cup {offer}
            /\ offer' = offer + 1
            /\ UNCHANGED wpc
    /\ UNCHANGED <<alive, records, reader, writeIndex, writerGuess>>

WriteCheck ==
    /\ alive /\ wpc = "idle" /\ offer <= N
    /\ IF NextRecord(writeIndex) # readIndex
       THEN /\ wpc' = "construct"
            /\ UNCHANGED <<offer, refused>>
       ELSE /\ refused' = refused \cup {offer}
            /\ offer' = offer + 1
            /\ UNCHANGED wpc
    /\ UNCHANGED <<alive, records, reader, writeIndex, writerGuess>>

\* The placement new.
Construct ==
    /\ wpc = "construct"
    /\ records' = [records EXCEPT ![writeIndex] = offer]
    /\ wpc' = "publish"
    /\ UNCHANGED <<alive, reader, writeIndex, offer, writerGuess, refused>>

\* writeIndex_.store, release; write() returns true.
PublishIndex ==
    /\ wpc = "publish"
    /\ writeIndex' = NextRecord(writeIndex)
    /\ offer' = offer + 1
    /\ writerGuess' = Size
    /\ wpc' = "idle"
    /\ UNCHANGED <<alive, records, reader, refused>>

WriterGuess ==
    /\ alive /\ wpc = "idle"
    /\ writerGuess' = SizeOf(writeIndex, readIndex)
    /\ UNCHANGED <<alive, records, reader, writeIndex, wpc, offer, refused>>

Write == WriteCheck \/ Construct \/ PublishIndex
-----------------------------------------------------------------------------
(* The reader: read(record), or frontPtr() and popFront().  On an empty    *)
(* queue read returns false, frontPtr returns nullptr and popFront must    *)
(* not be called: nothing changes.                                         *)

ReadCheck ==
    /\ alive /\ rpc = "idle"
    /\ readIndex # writeIndex
    /\ rpc' = "move"
    /\ UNCHANGED <<alive, records, writer, readIndex, inHand, readerGuess, received>>

\* record = std::move(records_[currentRead])
Move ==
    /\ rpc = "move"
    /\ inHand' = records[readIndex]
    /\ records' = [records EXCEPT ![readIndex] = Moved]
    /\ rpc' = "destroy"
    /\ UNCHANGED <<alive, writer, readIndex, readerGuess, received>>

FrontPtr ==
    /\ alive /\ rpc = "idle"
    /\ readIndex # writeIndex
    /\ inHand' = records[readIndex]
    /\ rpc' = "front"
    /\ UNCHANGED <<alive, records, writer, readIndex, readerGuess, received>>

\* records_[currentRead].~T(), in read and in popFront.
DestroyRecord ==
    /\ rpc \in {"destroy", "front"}
    /\ records' = [records EXCEPT ![readIndex] = Raw]
    /\ rpc' = "release"
    /\ UNCHANGED <<alive, writer, readIndex, inHand, readerGuess, received>>

\* Mutant: read() gives the slot back before it has destroyed the object.
ReleaseEarly ==
    /\ rpc \in {"destroy", "release"}
    /\ readIndex' = NextRecord(readIndex)
    /\ received' = Append(received, inHand)
    /\ readerGuess' = 0
    /\ rpc' = "idle"
    /\ UNCHANGED <<alive, records, writer, inHand>>

\* readIndex_.store, release.
Release ==
    /\ rpc = "release"
    /\ readIndex' = NextRecord(readIndex)
    /\ received' = Append(received, inHand)
    /\ readerGuess' = 0
    /\ rpc' = "idle"
    /\ UNCHANGED <<alive, records, writer, inHand>>

ReaderGuess ==
    /\ alive /\ rpc = "idle"
    /\ readerGuess' = SizeOf(writeIndex, readIndex)
    /\ UNCHANGED <<alive, records, writer, readIndex, rpc, inHand, received>>

Read == ReadCheck \/ Move \/ FrontPtr \/ DestroyRecord \/ Release
-----------------------------------------------------------------------------
\* The slots the destructor walks over, from readIndex_ up to writeIndex_.
InRing(i) ==
    IF readIndex <= writeIndex THEN readIndex <= i /\ i < writeIndex
                               ELSE readIndex <= i \/ i < writeIndex

\* Mutant: the destructor's walk does not wrap around.
DestructNoWrap ==
    /\ alive /\ wpc = "idle" /\ rpc = "idle"
    /\ alive' = FALSE
    /\ records' = [i \in Slots |-> IF readIndex <= i THEN Raw ELSE records[i]]
    /\ readerGuess' = 0 /\ writerGuess' = Size
    /\ UNCHANGED <<readIndex, rpc, inHand, received, writeIndex, wpc, offer, refused>>

\* ~ProducerConsumerQueue(), when neither side is inside the queue any more.
Destruct ==
    /\ alive /\ wpc = "idle" /\ rpc = "idle"
    /\ alive' = FALSE
    /\ records' = [i \in Slots |-> IF InRing(i) THEN Raw ELSE records[i]]
    /\ readerGuess' = 0 /\ writerGuess' = Size
    /\ UNCHANGED <<readIndex, rpc, inHand, received, writeIndex, wpc, offer, refused>>

Next ==
    \/ Write \/ WriterGuess
    \/ Read \/ ReaderGuess
    \/ Destruct

Safety == Init /\ [][Next]_vars

\* A thread inside an operation finishes it, a writer goes on writing and a
\* reader goes on reading; nobody has to look at the size or destroy the queue.
Spec == Safety /\ WF_vars(Write) /\ WF_vars(Read)
-----------------------------------------------------------------------------
(* Properties.                                                             *)

\* Type invariant; the indices stay inside the ring.
TypeOK ==
    /\ alive \in BOOLEAN
    /\ records \in [Slots -> Nat \cup {Raw, Moved}]
    /\ readIndex \in Slots /\ writeIndex \in Slots
    /\ wpc \in {"idle", "construct", "publish"}
    /\ rpc \in {"idle", "move", "front", "destroy", "release"}
    /\ offer \in 1 .. N + 1
    /\ inHand \in Nat
    /\ readerGuess \in Int /\ writerGuess \in Int
    /\ received \in Seq(Nat)
    /\ refused \subseteq 1 .. N

\* An object is constructed only in raw memory, moved from only while it holds a
\* value, and destroyed exactly once: writer and reader never meet in a slot.
SlotLifetimes ==
    /\ wpc = "construct" => records[writeIndex] = Raw
    /\ rpc = "move" => records[readIndex] \in Nat
    /\ rpc = "destroy" => records[readIndex] = Moved
    /\ wpc # "idle" /\ rpc # "idle" => readIndex # writeIndex

\* What frontPtr points to stays there until popFront, however much is written.
FrontStays == rpc = "front" => records[readIndex] = inHand

\* "If called by consumer, then true size may be more", "if called by producer,
\* then true size may be less": a stale size errs to the safe side only.
GuessBounds ==
    /\ readerGuess <= SizeOf(writeIndex, readIndex)
    /\ writerGuess >= SizeOf(writeIndex, readIndex)

\* The destructor leaves no object behind, wherever the ring stands.
NothingLeaks == ~ alive => \A i \in Slots : records[i] = Raw

\* The inductive invariant behind the five properties above: which slots hold
\* what, given the two indices and where the two threads are.
SlotOK(i) ==
    IF alive /\ InRing(i)
    THEN IF i # readIndex THEN records[i] \in Nat
         ELSE CASE rpc = "destroy" -> records[i] = Moved
                [] rpc = "release" -> records[i] = Raw
                [] rpc = "front"   -> records[i] = inHand /\ records[i] \in Nat
                [] OTHER           -> records[i] \in Nat
    ELSE IF i = writeIndex /\ wpc = "publish" THEN records[i] = offer
         ELSE records[i] = Raw

Inv ==
    /\ TypeOK
    /\ wpc # "idle" => alive /\ offer <= N /\ NextRecord(writeIndex) # readIndex
    /\ rpc # "idle" => alive /\ readIndex # writeIndex
    /\ GuessBounds
    /\ \A i \in Slots : SlotOK(i)

\* The slot k places behind readIndex.
Slot(k) == IF readIndex + k < Size THEN readIndex + k ELSE readIndex + k - Size

\* The values in the queue; the first one may be in the reader's hand already.
Contents ==
    [k \in 1 .. SizeOf(writeIndex, readIndex) |->
        IF k = 1 /\ rpc \in {"destroy", "release"} THEN inHand ELSE records[Slot(k - 1)]]

Fifo == INSTANCE BoundedFifo WITH
    Capacity <- Size - 1,
    open     <- alive,
    items    <- IF alive THEN Contents ELSE << >>

\* The ring is a bounded first-in first-out queue of size_ - 1 values that refuses
\* a value only when it is full, and whose sides never wait for each other.
ImplementsFifo == Fifo!Spec
=============================================================================
