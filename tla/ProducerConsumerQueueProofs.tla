-------------------- MODULE ProducerConsumerQueueProofs --------------------
(***************************************************************************)
(* Proofs about the ring for every size and every number of writes.        *)
(***************************************************************************)
EXTENDS ProducerConsumerQueue, SequenceTheorems, TLAPS

LEMMA InitInv == Init => Inv
  BY SizeAssumption DEF Init, Inv, TypeOK, Slots, GuessBounds, SizeOf, SlotOK, InRing

\* Index arithmetic stays in the ring and moves by one place.
LEMMA NextInRing ==
    ASSUME NEW i \in Slots
    PROVE  NextRecord(i) \in Slots /\ NextRecord(i) # i
  BY SizeAssumption DEF NextRecord, Slots

LEMMA WriteInv ==
    ASSUME Inv, Write
    PROVE  Inv'
  <1> USE SizeAssumption DEF Inv, TypeOK, Slots
  <1>1. CASE WriteCheck
    <2>1. /\ UNCHANGED <<alive, records, readIndex, writeIndex, rpc, inHand, readerGuess, writerGuess>>
          /\ alive /\ wpc = "idle" /\ wpc' \in {"idle", "construct"} /\ offer <= N
      BY <1>1 DEF WriteCheck, reader
    <2>2. wpc' # "idle" => offer' = offer /\ NextRecord(writeIndex) # readIndex
      BY <1>1 DEF WriteCheck
    <2>3. TypeOK'
      <3>1. \/ offer' = offer /\ refused' = refused
            \/ offer' = offer + 1 /\ refused' = refused \cup {offer}
        BY <1>1 DEF WriteCheck
      <3>2. offer' \in 1 .. N + 1
        BY <2>1, <3>1
      <3>3. refused' \subseteq 1 .. N
        BY <2>1, <3>1
      <3>4. received' = received
        BY <1>1 DEF WriteCheck, reader
      <3> QED BY <2>1, <3>2, <3>3, <3>4
    <2>4. GuessBounds'
      <3>1. SizeOf(writeIndex, readIndex)' = SizeOf(writeIndex, readIndex)
        BY <2>1 DEF SizeOf
      <3> QED BY <2>1, <3>1 DEF GuessBounds
    <2>5. ASSUME NEW i \in Slots PROVE SlotOK(i)'
      <3>1. SlotOK(i)
        OBVIOUS
      <3>2. InRing(i)' <=> InRing(i)
        BY <2>1 DEF InRing
      <3> QED BY <2>1, <3>1, <3>2 DEF SlotOK
    <2>6. NextRecord(writeIndex)' = NextRecord(writeIndex)
      BY <2>1 DEF NextRecord
    <2> QED BY <2>1, <2>2, <2>3, <2>4, <2>5, <2>6
  <1>2. CASE Construct
    <2>1. /\ UNCHANGED <<alive, readIndex, writeIndex, rpc, inHand, readerGuess, writerGuess, offer>>
          /\ wpc = "construct" /\ wpc' = "publish" /\ writeIndex \in Slots /\ offer \in Nat
          /\ records' = [records EXCEPT ![writeIndex] = offer]
      BY <1>2 DEF Construct, reader
    <2>2. TypeOK'
      BY <1>2, <2>1 DEF Construct, reader
    <2>3. SizeOf(writeIndex, readIndex)' = SizeOf(writeIndex, readIndex)
      BY <2>1 DEF SizeOf
    <2>4. GuessBounds'
      BY <2>1, <2>3 DEF GuessBounds
    <2>5. ~ InRing(writeIndex)
      BY <2>1 DEF InRing
    <2>6. ASSUME NEW i \in Slots PROVE SlotOK(i)'
      <3>1. SlotOK(i)
        OBVIOUS
      <3>2. InRing(i)' <=> InRing(i)
        BY <2>1 DEF InRing
      <3>3. CASE i = writeIndex
        <4>1. records'[i] = offer /\ ~ InRing(i)'
          BY <2>1, <2>5, <3>2, <3>3
        <4> QED BY <2>1, <3>3, <4>1 DEF SlotOK
      <3>4. CASE i # writeIndex
        <4>1. records'[i] = records[i]
          BY <2>1, <3>4
        <4> QED BY <2>1, <3>1, <3>2, <3>4, <4>1 DEF SlotOK
      <3> QED BY <3>3, <3>4
    <2>7. NextRecord(writeIndex)' = NextRecord(writeIndex)
      BY <2>1 DEF NextRecord
    <2> QED BY <2>1, <2>2, <2>4, <2>6, <2>7
  <1>3. CASE PublishIndex
    <2>1. /\ writeIndex \in Slots /\ readIndex \in Slots /\ wpc = "publish" /\ alive
          /\ writeIndex' = NextRecord(writeIndex) /\ writeIndex' \in Slots
          /\ writeIndex' # readIndex /\ writeIndex' # writeIndex
          /\ wpc' = "idle" /\ offer \in Nat
          /\ UNCHANGED <<alive, records, reader, refused>>
      BY <1>3, NextInRing DEF PublishIndex
    <2>2. TypeOK'
      BY <1>3, <2>1 DEF PublishIndex, reader
    <2>3. SizeOf(writeIndex, readIndex)' = SizeOf(writeIndex, readIndex) + 1
      BY <2>1 DEF SizeOf, NextRecord, reader
    <2>4. GuessBounds'
      <3>1. writerGuess' = Size /\ SizeOf(writeIndex, readIndex)' <= Size
        BY <1>3, <2>1 DEF PublishIndex, SizeOf, reader
      <3>2. SizeOf(writeIndex, readIndex) \in Int
        BY <2>1 DEF SizeOf
      <3> QED BY <2>1, <2>3, <3>1, <3>2 DEF GuessBounds, reader
    <2>5. ASSUME NEW i \in Slots PROVE SlotOK(i)'
      <3>1. CASE i = writeIndex
        <4>1. records[i] = offer
          <5>1. SlotOK(i)
            OBVIOUS
          <5>2. ~ InRing(i)
            BY <2>1, <3>1 DEF InRing
          <5> QED BY <2>1, <3>1, <5>1, <5>2 DEF SlotOK
        <4>2. InRing(i)'
          BY <2>1, <3>1 DEF InRing, NextRecord, reader
        <4>3. i = readIndex => rpc = "idle"
          BY <2>1, <3>1
        <4> QED BY <2>1, <4>1, <4>2, <4>3 DEF SlotOK, reader
      <3>2. CASE i # writeIndex
        <4>1. InRing(i)' <=> InRing(i)
          BY <2>1, <3>2 DEF InRing, NextRecord, reader
        <4>2. SlotOK(i)
          OBVIOUS
        <4> QED BY <2>1, <3>2, <4>1, <4>2 DEF SlotOK, reader
      <3> QED BY <3>1, <3>2
    <2> QED BY <2>1, <2>2, <2>4, <2>5 DEF reader
  <1> QED BY <1>1, <1>2, <1>3 DEF Write

LEMMA ReadInv ==
    ASSUME Inv, Read
    PROVE  Inv'
  <1> USE SizeAssumption DEF Inv, TypeOK, Slots
  <1>1. CASE ReadCheck
    BY <1>1 DEF ReadCheck, writer, GuessBounds, SlotOK, InRing
  <1>2. CASE Move
    BY <1>2 DEF Move, writer, GuessBounds, SlotOK, InRing
  <1>3. CASE FrontPtr
    BY <1>3 DEF FrontPtr, writer, GuessBounds, SlotOK, InRing
  <1>4. CASE DestroyRecord
    BY <1>4 DEF DestroyRecord, writer, GuessBounds, SlotOK, InRing
  <1>5. CASE Release
    <2>1. /\ writeIndex \in Slots /\ readIndex \in Slots /\ rpc = "release" /\ alive
          /\ readIndex # writeIndex
          /\ readIndex' = NextRecord(readIndex) /\ readIndex' \in Slots
          /\ readIndex' # readIndex /\ rpc' = "idle"
          /\ UNCHANGED <<alive, records, writer, inHand>>
      BY <1>5, NextInRing DEF Release
    <2>2. TypeOK'
      BY <1>5, <2>1 DEF Release, writer
    <2>3. SizeOf(writeIndex, readIndex)' = SizeOf(writeIndex, readIndex) - 1
      BY <2>1 DEF SizeOf, NextRecord, writer
    <2>4. GuessBounds'
      <3>1. readerGuess' = 0 /\ SizeOf(writeIndex, readIndex)' >= 0
        BY <1>5, <2>1 DEF Release, SizeOf, writer
      <3>2. SizeOf(writeIndex, readIndex) \in Int
        BY <2>1 DEF SizeOf
      <3> QED BY <2>1, <2>3, <3>1, <3>2 DEF GuessBounds, writer
    <2>5. ASSUME NEW i \in Slots PROVE SlotOK(i)'
      <3>1. SlotOK(i)
        OBVIOUS
      <3>2. CASE i = readIndex
        <4>1. records[i] = Raw /\ i # writeIndex
          BY <2>1, <3>1, <3>2 DEF SlotOK, InRing
        <4>2. ~ InRing(i)'
          BY <2>1, <3>2 DEF InRing, NextRecord, writer
        <4> QED BY <2>1, <4>1, <4>2 DEF SlotOK, writer
      <3>3. CASE i # readIndex
        <4>1. InRing(i)' <=> InRing(i)
          BY <2>1, <3>3 DEF InRing, NextRecord, writer
        <4> QED BY <2>1, <3>1, <3>3, <4>1 DEF SlotOK, writer
      <3> QED BY <3>2, <3>3
    <2>6. wpc # "idle" => NextRecord(writeIndex) # readIndex'
      BY <2>1 DEF NextRecord
    <2> QED BY <2>1, <2>2, <2>4, <2>5, <2>6 DEF writer, NextRecord
  <1> QED BY <1>1, <1>2, <1>3, <1>4, <1>5 DEF Read

LEMMA OtherInv ==
    ASSUME Inv, WriterGuess \/ ReaderGuess \/ Destruct \/ UNCHANGED vars
    PROVE  Inv'
  <1> USE SizeAssumption DEF Inv, TypeOK, Slots
  <1>1. CASE WriterGuess
    <2>1. /\ UNCHANGED <<alive, records, readIndex, writeIndex, wpc, rpc, offer, inHand>>
          /\ writerGuess' = SizeOf(writeIndex, readIndex)
          /\ readerGuess' = readerGuess
      BY <1>1 DEF WriterGuess, reader
    <2>2. SizeOf(writeIndex, readIndex) \in 0 .. Size - 1
      BY DEF SizeOf
    <2>3. SizeOf(writeIndex, readIndex)' = SizeOf(writeIndex, readIndex)
      BY <2>1 DEF SizeOf
    <2>4. TypeOK'
      BY <1>1, <2>1, <2>2 DEF WriterGuess, reader
    <2>5. GuessBounds'
      BY <2>1, <2>2, <2>3 DEF GuessBounds
    <2>6. ASSUME NEW i \in Slots PROVE SlotOK(i)'
      <3>1. SlotOK(i)
        OBVIOUS
      <3>2. InRing(i)' <=> InRing(i)
        BY <2>1 DEF InRing
      <3> QED BY <2>1, <3>1, <3>2 DEF SlotOK
    <2>7. NextRecord(writeIndex)' = NextRecord(writeIndex)
      BY <2>1 DEF NextRecord
    <2> QED BY <2>1, <2>4, <2>5, <2>6, <2>7
  <1>2. CASE ReaderGuess
    <2>1. /\ UNCHANGED <<alive, records, readIndex, writeIndex, wpc, rpc, offer, inHand>>
          /\ readerGuess' = SizeOf(writeIndex, readIndex)
          /\ writerGuess' = writerGuess
      BY <1>2 DEF ReaderGuess, writer
    <2>2. SizeOf(writeIndex, readIndex) \in 0 .. Size - 1
      BY DEF SizeOf
    <2>3. SizeOf(writeIndex, readIndex)' = SizeOf(writeIndex, readIndex)
      BY <2>1 DEF SizeOf
    <2>4. TypeOK'
      BY <1>2, <2>1, <2>2 DEF ReaderGuess, writer
    <2>5. GuessBounds'
      BY <2>1, <2>2, <2>3 DEF GuessBounds
    <2>6. ASSUME NEW i \in Slots PROVE SlotOK(i)'
      <3>1. SlotOK(i)
        OBVIOUS
      <3>2. InRing(i)' <=> InRing(i)
        BY <2>1 DEF InRing
      <3> QED BY <2>1, <3>1, <3>2 DEF SlotOK
    <2>7. NextRecord(writeIndex)' = NextRecord(writeIndex)
      BY <2>1 DEF NextRecord
    <2> QED BY <2>1, <2>4, <2>5, <2>6, <2>7
  <1>3. CASE Destruct
    <2>1. /\ wpc' = "idle" /\ rpc' = "idle" /\ wpc = "idle" /\ rpc = "idle" /\ ~ alive'
          /\ readIndex' = readIndex /\ writeIndex' = writeIndex
          /\ readerGuess' = 0 /\ writerGuess' = Size
      BY <1>3 DEF Destruct
    <2>2. ASSUME NEW i \in Slots PROVE records'[i] = Raw
      BY <1>3, <2>1 DEF Destruct, SlotOK
    <2>3. TypeOK'
      <3>1. records' \in [Slots -> Nat \cup {Raw, Moved}]
        <4>1. records' = [i \in Slots |-> Raw]
          <5>1. \A i \in Slots : (IF InRing(i) THEN Raw ELSE records[i]) = Raw
            BY <1>3, <2>2 DEF Destruct
          <5> HIDE DEF Slots, Inv, TypeOK, InRing
          <5> QED BY <1>3, <5>1, Zenon DEF Destruct
        <4> HIDE DEF Slots, Inv, TypeOK
        <4> QED BY <4>1
      <3>2. alive' = FALSE /\ UNCHANGED <<inHand, received, offer, refused>>
        BY <1>3 DEF Destruct
      <3> QED BY <2>1, <3>1, <3>2
    <2>4. GuessBounds'
      BY <2>1 DEF GuessBounds, SizeOf
    <2>5. \A i \in Slots : SlotOK(i)'
      BY <2>1, <2>2 DEF SlotOK
    <2> QED BY <2>1, <2>3, <2>4, <2>5
  <1>4. CASE UNCHANGED vars
    BY <1>4 DEF vars, reader, writer, GuessBounds, SlotOK, InRing
  <1> QED BY <1>1, <1>2, <1>3, <1>4

\* The inductive invariant of the ring, for every size and every number of writes.
THEOREM Invariance == Safety => []Inv
  <1>1. Inv /\ [Next]_vars => Inv'
    BY WriteInv, ReadInv, OtherInv DEF Next
  <1> QED BY InitInv, <1>1, PTL DEF Safety

\* The indices stay inside the ring, whatever its size.
THEOREM TypeCorrect == Safety => []TypeOK
  <1>1. Inv => TypeOK
    BY DEF Inv
  <1> QED BY <1>1, Invariance, PTL

\* Writer and reader never meet in a slot: no object is overwritten, moved from
\* twice or destroyed twice, in a ring of any size >= 2.
THEOREM NoSlotIsShared == Safety => []SlotLifetimes
  <1>1. Inv => SlotLifetimes
    BY SizeAssumption DEF Inv, TypeOK, SlotOK, InRing, SlotLifetimes, Slots, NextRecord
  <1> QED BY <1>1, Invariance, PTL

\* A size read by one side stays a safe bound while the other side works on.
THEOREM GuessesAreSafe == Safety => []GuessBounds
  <1>1. Inv => GuessBounds
    BY DEF Inv
  <1> QED BY <1>1, Invariance, PTL

\* frontPtr stays valid until popFront.
THEOREM FrontIsStable == Safety => []FrontStays
  <1>1. Inv => FrontStays
    BY SizeAssumption DEF Inv, TypeOK, SlotOK, InRing, FrontStays, Slots
  <1> QED BY <1>1, Invariance, PTL

\* The destructor destroys every object that is left.
THEOREM DestructorIsComplete == Safety => []NothingLeaks
  <1>1. Inv => NothingLeaks
    BY DEF Inv, SlotOK, NothingLeaks
  <1> QED BY <1>1, Invariance, PTL
-----------------------------------------------------------------------------
(* The ring implements BoundedFifo.                                        *)

\* The slots behind readIndex are those of the ring, all different.
LEMMA SlotsOfRing ==
    ASSUME Inv, NEW k \in 1 .. SizeOf(writeIndex, readIndex)
    PROVE  /\ Slot(k - 1) \in Slots
           /\ InRing(Slot(k - 1))
           /\ Slot(k - 1) # writeIndex
           /\ Slot(k - 1) = readIndex <=> k = 1
  BY SizeAssumption DEF Inv, TypeOK, Slots, Slot, SizeOf, InRing

LEMMA SizeInRing ==
    ASSUME Inv
    PROVE  /\ SizeOf(writeIndex, readIndex) \in 0 .. Size - 1
           /\ SizeOf(writeIndex, readIndex) = 0 <=> readIndex = writeIndex
           /\ SizeOf(writeIndex, readIndex) = Size - 1 <=> NextRecord(writeIndex) = readIndex
  BY SizeAssumption DEF Inv, TypeOK, Slots, SizeOf, NextRecord

\* Between the indices there are values.
LEMMA ContentsAreValues ==
    ASSUME Inv, alive
    PROVE  /\ Contents \in Seq(Nat)
           /\ Len(Contents) = SizeOf(writeIndex, readIndex)
           /\ \A k \in 1 .. SizeOf(writeIndex, readIndex) :
                 Contents[k] = IF k = 1 /\ rpc \in {"destroy", "release"} THEN inHand
                               ELSE records[Slot(k - 1)]
  <1> DEFINE s == SizeOf(writeIndex, readIndex)
  <1>1. s \in Nat
    BY SizeInRing
  <1>2. ASSUME NEW k \in 1 .. s
        PROVE  (IF k = 1 /\ rpc \in {"destroy", "release"} THEN inHand
                ELSE records[Slot(k - 1)]) \in Nat
    <2>1. /\ Slot(k - 1) \in Slots /\ InRing(Slot(k - 1))
          /\ Slot(k - 1) = readIndex <=> k = 1
      BY SlotsOfRing
    <2>2. SlotOK(Slot(k - 1)) /\ inHand \in Nat
      BY <2>1 DEF Inv, TypeOK
    <2> QED BY <2>1, <2>2 DEF SlotOK
  <1>3. Contents = [k \in 1 .. s |-> IF k = 1 /\ rpc \in {"destroy", "release"} THEN inHand
                                     ELSE records[Slot(k - 1)]]
    BY DEF Contents
  <1> HIDE DEF s
  <1>4. Contents \in [1 .. s -> Nat]
    BY <1>2, <1>3
  <1>5. Contents \in Seq(Nat) /\ Len(Contents) = s
    BY <1>1, <1>4
  <1> QED BY <1>3, <1>5 DEF s

\* The k-th value of the queue.
Nth(k) == IF k = 1 /\ rpc \in {"destroy", "release"} THEN inHand ELSE records[Slot(k - 1)]

\* Two states with as many values in the queue and the same ones have the same contents.
LEMMA ContentsSame ==
    ASSUME SizeOf(writeIndex, readIndex)' = SizeOf(writeIndex, readIndex),
           \A k \in 1 .. SizeOf(writeIndex, readIndex) : Nth(k)' = Nth(k)
    PROVE  Contents' = Contents
  BY DEF Contents, Nth

\* A value more, behind the others.
LEMMA ContentsGrow ==
    ASSUME Inv, alive, NEW v,
           SizeOf(writeIndex, readIndex)' = SizeOf(writeIndex, readIndex) + 1,
           \A k \in 1 .. SizeOf(writeIndex, readIndex) : Nth(k)' = Nth(k),
           \A k \in {SizeOf(writeIndex, readIndex) + 1} : Nth(k)' = v,
           v \in Nat
    PROVE  Contents' = Append(Contents, v)
  <1> DEFINE s == SizeOf(writeIndex, readIndex)
  <1>1. /\ Contents \in Seq(Nat) /\ Len(Contents) = s /\ s \in Nat
        /\ \A k \in 1 .. s : Contents[k] = Nth(k)
    BY ContentsAreValues, SizeInRing DEF Nth
  <1>2. /\ DOMAIN Contents' = 1 .. s + 1
        /\ \A k \in 1 .. s + 1 : Contents'[k] = IF k = s + 1 THEN v ELSE Contents[k]
    BY <1>1 DEF Contents, Nth
  <1>3. Contents' = [k \in 1 .. s + 1 |-> Contents'[k]]
    BY DEF Contents
  <1> HIDE DEF s
  <1>4. /\ Append(Contents, v) \in Seq(Nat) /\ Len(Append(Contents, v)) = s + 1
        /\ \A k \in 1 .. s : Append(Contents, v)[k] = Contents[k]
        /\ Append(Contents, v)[s + 1] = v
    BY <1>1, AppendProperties
  <1>5. \A k \in 1 .. s + 1 : Contents'[k] \in Nat /\ Contents'[k] = Append(Contents, v)[k]
    BY <1>1, <1>2, <1>4
  <1>6. Contents' \in Seq(Nat) /\ Len(Contents') = s + 1
    <2>1. Contents' \in [1 .. s + 1 -> Nat]
      BY <1>3, <1>5
    <2> QED BY <1>1, <2>1
  <1> QED BY <1>4, <1>5, <1>6, SeqEqual

\* A value less, the first.
LEMMA ContentsShrink ==
    ASSUME Inv, alive, readIndex # writeIndex,
           SizeOf(writeIndex, readIndex)' = SizeOf(writeIndex, readIndex) - 1,
           \A k \in 1 .. SizeOf(writeIndex, readIndex) - 1 : Nth(k)' = Nth(k + 1)
    PROVE  /\ Contents # << >>
           /\ Contents' = Tail(Contents)
           /\ Head(Contents) = Nth(1)
  <1> DEFINE s == SizeOf(writeIndex, readIndex)
  <1>1. /\ Contents \in Seq(Nat) /\ Len(Contents) = s /\ s \in Nat /\ s # 0
        /\ \A k \in 1 .. s : Contents[k] = Nth(k)
    BY ContentsAreValues, SizeInRing DEF Nth
  <1>2. /\ DOMAIN Contents' = 1 .. s - 1
        /\ \A k \in 1 .. s - 1 : Contents'[k] = Contents[k + 1]
    BY <1>1 DEF Contents, Nth
  <1>3. Contents' = [k \in 1 .. s - 1 |-> Contents'[k]]
    BY DEF Contents
  <1> HIDE DEF s
  <1>4. Contents # << >> /\ Head(Contents) = Nth(1)
    BY <1>1
  <1>5. /\ Tail(Contents) \in Seq(Nat) /\ Len(Tail(Contents)) = s - 1
        /\ \A k \in 1 .. s - 1 : Tail(Contents)[k] = Contents[k + 1]
    BY <1>1, <1>4, HeadTailProperties
  <1>6. \A k \in 1 .. s - 1 : Contents'[k] \in Nat /\ Contents'[k] = Tail(Contents)[k]
    <2>1. ASSUME NEW k \in 1 .. s - 1 PROVE Contents[k + 1] \in Nat
      BY <1>1
    <2> QED BY <1>2, <1>5, <2>1
  <1>7. Contents' \in Seq(Nat) /\ Len(Contents') = s - 1
    <2>1. Contents' \in [1 .. s - 1 -> Nat]
      BY <1>3, <1>6
    <2> QED BY <1>1, <2>1
  <1> QED BY <1>4, <1>5, <1>6, <1>7, SeqEqual

FifoStep == Fifo!Next \/ UNCHANGED Fifo!vars

LEMMA WriteRefines ==
    ASSUME Inv, Inv', Write
    PROVE  FifoStep
  <1> DEFINE s == SizeOf(writeIndex, readIndex)
  <1>0. /\ Size \in Nat /\ Size >= 2 /\ readIndex \in Slots /\ writeIndex \in Slots
        /\ alive \in BOOLEAN /\ offer \in Nat /\ s \in Nat
        /\ \A k \in 1 .. s : Slot(k - 1) \in Slots /\ Slot(k - 1) # writeIndex
        /\ records \in [Slots -> Nat \cup {Raw, Moved}]
    BY SizeAssumption, SlotsOfRing, SizeInRing DEF Inv, TypeOK
  <1>1. CASE WriteCheck
    <2>1. /\ UNCHANGED <<alive, records, readIndex, writeIndex, rpc, inHand, received>>
          /\ alive /\ offer <= N
      BY <1>1 DEF WriteCheck, reader
    <2>2. Contents' = Contents
      BY <2>1 DEF Contents, SizeOf, Slot
    <2>3. CASE NextRecord(writeIndex) # readIndex
      BY <1>1, <2>1, <2>2, <2>3 DEF WriteCheck, FifoStep, Fifo!vars
    <2>4. CASE NextRecord(writeIndex) = readIndex
      <3>1. Len(Contents) = Size - 1
        BY <2>1, <2>4, SizeInRing, ContentsAreValues
      <3> QED BY <1>1, <2>1, <2>2, <2>4, <3>1 DEF WriteCheck, FifoStep, Fifo!Next, Fifo!Refuse
    <2> QED BY <2>3, <2>4
  <1>2. CASE Construct
    <2>1. /\ UNCHANGED <<alive, readIndex, writeIndex, rpc, inHand, received, offer, refused>>
          /\ records' = [records EXCEPT ![writeIndex] = offer]
      BY <1>2 DEF Construct, reader
    <2>2. s' = s
      BY <2>1 DEF SizeOf
    <2>3. ASSUME NEW k \in 1 .. s PROVE Nth(k)' = Nth(k)
      <3>1. records'[Slot(k - 1)] = records[Slot(k - 1)]
        BY <1>0, <2>1
      <3>2. Slot(k - 1)' = Slot(k - 1)
        BY <2>1 DEF Slot
      <3> QED BY <2>1, <3>1, <3>2 DEF Nth
    <2>4. Contents' = Contents
      BY <2>2, <2>3, ContentsSame
    <2> QED BY <2>1, <2>4 DEF FifoStep, Fifo!vars
  <1>3. CASE PublishIndex
    <2>1. /\ UNCHANGED <<alive, records, readIndex, rpc, inHand, received, refused>>
          /\ wpc = "publish" /\ alive /\ offer <= N /\ NextRecord(writeIndex) # readIndex
          /\ writeIndex' = NextRecord(writeIndex)
          /\ offer' = offer + 1
      BY <1>3 DEF PublishIndex, reader, Inv
    <2>2. s' = s + 1
      BY <1>0, <2>1 DEF SizeOf, NextRecord, Slots
    <2>3. ASSUME NEW k \in 1 .. s PROVE Nth(k)' = Nth(k)
      BY <2>1 DEF Nth, Slot
    <2>4. ASSUME NEW k \in {s + 1} PROVE Nth(k)' = offer
      <3>1. Slot(s) = writeIndex
        BY <1>0 DEF Slot, SizeOf, Slots
      <3>2. records[writeIndex] = offer
        <4>1. SlotOK(writeIndex) /\ ~ InRing(writeIndex)
          BY <1>0 DEF Inv, InRing, Slots
        <4> QED BY <2>1, <4>1 DEF SlotOK
      <3>3. ~ (s + 1 = 1 /\ rpc \in {"destroy", "release"})
        BY <1>0, SizeInRing DEF Inv
      <3>4. k = s + 1 /\ k - 1 = s
        BY <1>0
      <3>5. Slot(k - 1)' = Slot(k - 1)
        BY <2>1 DEF Slot
      <3> HIDE DEF s
      <3> QED BY <2>1, <3>1, <3>2, <3>3, <3>4, <3>5 DEF Nth
    <2>5. Contents' = Append(Contents, offer)
      BY <1>0, <2>1, <2>2, <2>3, <2>4, ContentsGrow
    <2>6. Len(Contents) < Size - 1
      <3> HIDE DEF s
      <3>1. Len(Contents) = s
        BY <2>1, ContentsAreValues DEF s
      <3>2. s \in 0 .. Size - 1 /\ s # Size - 1
        BY <2>1, SizeInRing DEF s
      <3> QED BY <1>0, <3>1, <3>2
    <2> QED BY <2>1, <2>5, <2>6 DEF FifoStep, Fifo!Next, Fifo!Put
  <1> QED BY <1>1, <1>2, <1>3 DEF Write

LEMMA ReadRefines ==
    ASSUME Inv, Inv', Read
    PROVE  FifoStep
  <1> DEFINE s == SizeOf(writeIndex, readIndex)
  <1>0. /\ Size \in Nat /\ Size >= 2 /\ readIndex \in Slots /\ writeIndex \in Slots
        /\ alive \in BOOLEAN /\ s \in Nat
        /\ \A k \in 1 .. s : /\ Slot(k - 1) \in Slots
                             /\ Slot(k - 1) = readIndex <=> k = 1
        /\ records \in [Slots -> Nat \cup {Raw, Moved}]
    BY SizeAssumption, SlotsOfRing, SizeInRing DEF Inv, TypeOK
  <1>1. CASE ReadCheck
    BY <1>1 DEF ReadCheck, writer, FifoStep, Fifo!vars, Contents, Slot, SizeOf
  <1>2. CASE FrontPtr
    BY <1>2 DEF FrontPtr, writer, FifoStep, Fifo!vars, Contents, Slot, SizeOf
  <1>3. CASE Move
    <2>1. /\ UNCHANGED <<alive, readIndex, writeIndex, offer, received, refused>>
          /\ rpc = "move" /\ rpc' = "destroy" /\ inHand' = records[readIndex]
          /\ records' = [records EXCEPT ![readIndex] = Moved]
      BY <1>3 DEF Move, writer
    <2>2. s' = s
      BY <2>1 DEF SizeOf
    <2>3. ASSUME NEW k \in 1 .. s PROVE Nth(k)' = Nth(k)
      <3>1. Slot(k - 1)' = Slot(k - 1)
        BY <2>1 DEF Slot
      <3>2. CASE k = 1
        BY <1>0, <2>1, <3>2 DEF Nth
      <3>3. CASE k # 1
        <4>1. records'[Slot(k - 1)] = records[Slot(k - 1)]
          BY <1>0, <2>1, <3>3
        <4> QED BY <3>1, <3>3, <4>1 DEF Nth
      <3> QED BY <3>2, <3>3
    <2>4. Contents' = Contents
      BY <2>2, <2>3, ContentsSame
    <2> QED BY <2>1, <2>4 DEF FifoStep, Fifo!vars
  <1>4. CASE DestroyRecord
    <2>1. /\ UNCHANGED <<alive, readIndex, writeIndex, offer, inHand, received, refused>>
          /\ rpc \in {"destroy", "front"} /\ rpc' = "release" /\ alive
          /\ readIndex # writeIndex
          /\ records' = [records EXCEPT ![readIndex] = Raw]
      BY <1>4 DEF DestroyRecord, writer, Inv
    <2>2. s' = s
      BY <2>1 DEF SizeOf
    <2>3. rpc = "front" => records[readIndex] = inHand
      <3>1. SlotOK(readIndex) /\ InRing(readIndex)
        BY <1>0, <2>1 DEF Inv, InRing, Slots
      <3> QED BY <2>1, <3>1 DEF SlotOK
    <2>4. ASSUME NEW k \in 1 .. s PROVE Nth(k)' = Nth(k)
      <3>1. Slot(k - 1)' = Slot(k - 1)
        BY <2>1 DEF Slot
      <3>2. CASE k = 1
        BY <1>0, <2>1, <2>3, <3>2 DEF Nth
      <3>3. CASE k # 1
        <4>1. records'[Slot(k - 1)] = records[Slot(k - 1)]
          BY <1>0, <2>1, <3>3
        <4> QED BY <3>1, <3>3, <4>1 DEF Nth
      <3> QED BY <3>2, <3>3
    <2>5. Contents' = Contents
      BY <2>2, <2>4, ContentsSame
    <2> QED BY <2>1, <2>5 DEF FifoStep, Fifo!vars
  <1>5. CASE Release
    <2>1. /\ UNCHANGED <<alive, records, writeIndex, offer, inHand, refused>>
          /\ rpc = "release" /\ rpc' = "idle" /\ alive /\ readIndex # writeIndex
          /\ readIndex' = NextRecord(readIndex)
          /\ received' = Append(received, inHand)
      BY <1>5 DEF Release, writer, Inv
    <2>2. s' = s - 1
      BY <1>0, <2>1 DEF SizeOf, NextRecord, Slots
    <2>3. ASSUME NEW k \in 1 .. s - 1 PROVE Nth(k)' = Nth(k + 1)
      <3>1. Slot(k - 1)' = Slot(k)
        BY <1>0, <2>1 DEF Slot, NextRecord, Slots, SizeOf
      <3>2. k + 1 # 1 /\ (k + 1) - 1 = k
        OBVIOUS
      <3> QED BY <2>1, <3>1, <3>2 DEF Nth
    <2>4. Contents # << >> /\ Contents' = Tail(Contents) /\ Head(Contents) = inHand
      BY <2>1, <2>2, <2>3, ContentsShrink DEF Nth
    <2> QED BY <2>1, <2>4 DEF FifoStep, Fifo!Next, Fifo!Take
  <1> QED BY <1>1, <1>2, <1>3, <1>4, <1>5 DEF Read

\* Without its fairness, the promise of BoundedFifo: the ring of any size is a first-in
\* first-out queue, and write() refuses a value only when Size - 1 values are in it.
THEOREM IsBoundedFifo == Safety => Fifo!Safety
  <1>1. Init => Fifo!Init
    BY SizeAssumption DEF Init, Fifo!Init, Contents, SizeOf
  <1>2. Inv /\ Inv' /\ [Next]_vars => [Fifo!Next]_Fifo!vars
    <2> SUFFICES ASSUME Inv, Inv', [Next]_vars PROVE FifoStep
      BY DEF FifoStep
    <2>1. CASE WriterGuess \/ ReaderGuess \/ UNCHANGED vars
      <3>1. UNCHANGED <<alive, records, readIndex, writeIndex, rpc, inHand, offer, received, refused>>
        BY <2>1 DEF WriterGuess, ReaderGuess, vars, reader, writer
      <3>2. Contents' = Contents
        BY <3>1 DEF Contents, Slot, SizeOf
      <3> QED BY <3>1, <3>2 DEF FifoStep, Fifo!vars
    <2>2. CASE Destruct
      <3>1. alive /\ alive' = FALSE /\ UNCHANGED <<offer, received, refused>>
        BY <2>2 DEF Destruct
      <3>2. (IF alive THEN Contents ELSE << >>)' = << >>
        BY <3>1
      <3>3. Fifo!Drop
        BY <3>1, <3>2 DEF Fifo!Drop
      <3> QED BY <3>3 DEF FifoStep, Fifo!Next
    <2> QED BY <2>1, <2>2, WriteRefines, ReadRefines DEF Next
  <1> QED BY <1>1, <1>2, Invariance, PTL DEF Safety, Fifo!Safety
=============================================================================
