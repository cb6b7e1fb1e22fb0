----------------------- MODULE ReaderWriterQueueProofs -----------------------
(***************************************************************************)
(* Proofs about the queue of blocks for every size, every number of values *)
(* and every number of blocks that are added.                              *)
(***************************************************************************)
EXTENDS ReaderWriterQueue, SequenceTheorems, WellFoundedInduction, TLAPS
-----------------------------------------------------------------------------
(* The invariant.                                                          *)

\* How far j is behind i in a ring of s slots.
Dist(s, i, j) == IF i <= j THEN j - i ELSE j - i + s

\* The elements in block b, and the place of slot i among them.
Count(b) == Dist(blocks[b].size, blocks[b].front, blocks[b].tail)
Place(b, i) == Dist(blocks[b].size, blocks[b].front, i)

\* The blocks of the circle: all but the one that is being linked.
Links == IF wpc = "link" THEN Len(blocks) - 1 ELSE Len(blocks)
Linked == 1 .. Links

Datum == Nat \cup {Raw}

Data == UNION {[0 .. k - 1 -> Datum] : k \in Nat}

Block ==
    [size : Nat, front : Nat, tail : Nat, localFront : Nat, localTail : Nat,
     next : Nat, data : Data]

\* No index leaves its block, and the remembered indices lag behind: the front is
\* between localFront and the tail, localTail between the front and the tail.
BlockInv(b) ==
    LET B == blocks[b] IN
    /\ B.size >= 2
    /\ B.front < B.size /\ B.tail < B.size /\ B.localFront < B.size /\ B.localTail < B.size
    /\ B.next \in DOMAIN blocks
    /\ B.data \in [0 .. B.size - 1 -> Datum]
    /\ Dist(B.size, B.localFront, B.front) <= Dist(B.size, B.localFront, B.tail)
    /\ Dist(B.size, B.front, B.localTail) <= Count(b)

\* pos numbers the blocks along the circle, from the front block.
CircleInv(pos) ==
    /\ pos \in [Linked -> 0 .. Links - 1]
    /\ \A b, d \in Linked : pos[b] = pos[d] => b = d
    /\ \A p \in 0 .. Links - 1 : \E b \in Linked : pos[b] = p
    /\ \A b \in Linked :
          /\ blocks[b].next \in Linked
          /\ pos[blocks[b].next] = IF pos[b] = Links - 1 THEN 0 ELSE pos[b] + 1
    /\ frontBlock \in Linked /\ tailBlock \in Linked
    /\ pos[frontBlock] = 0

\* start gives the number of values before each block.  Blocks between the front and
\* the tail block are full, those behind the tail block are empty.
FillInv(pos, start) ==
    /\ start \in [Linked -> Nat]
    /\ start[frontBlock] = 0
    /\ start[tailBlock] + Count(tailBlock) = Len(items)
    /\ \A b \in Linked :
          /\ pos[b] < pos[tailBlock] => start[blocks[b].next] = start[b] + Count(b)
          /\ 0 < pos[b] /\ pos[b] <= pos[tailBlock] => Count(b) > 0
          /\ 0 < pos[b] /\ pos[b] < pos[tailBlock] => Count(b) = blocks[b].size - 1
          /\ pos[tailBlock] < pos[b] =>
                Count(b) = IF wpc = "advance" /\ b = blocks[tailBlock].next THEN 1 ELSE 0
    /\ \A b, d \in Linked :
          pos[b] < pos[d] /\ pos[d] <= pos[tailBlock] => start[b] + Count(b) <= start[d]

\* The slot the writer has built its element in.
Built(b, i) ==
    \/ wpc = "publish" /\ b = tailBlock /\ i = blocks[b].tail
    \/ wpc = "publishnext" /\ b = blocks[tailBlock].next /\ i = blocks[b].tail
    \/ wpc = "advance" /\ b = blocks[tailBlock].next /\ i = blocks[b].front

\* What each slot holds: a value of the queue, or what a thread is at, or nothing.
SlotInv(pos, start) ==
    \A b \in Linked : \A i \in 0 .. blocks[b].size - 1 :
        blocks[b].data[i] =
            IF Place(b, i) < Count(b) /\ pos[b] <= pos[tailBlock]
            THEN IF b = frontBlock /\ i = blocks[b].front /\ rpc = "release" THEN Raw
                 ELSE items[start[b] + Place(b, i) + 1]
            ELSE IF Built(b, i) THEN offer ELSE Raw

\* There is room for MaxSize values in one block, or in all blocks but one.
SizeInv ==
    \/ /\ \A b \in DOMAIN blocks : blocks[b].size > MaxSize
       /\ largestBlockSize > MaxSize
    \/ /\ \A b \in DOMAIN blocks : blocks[b].size = MAX_BLOCK_SIZE
       /\ largestBlockSize = MAX_BLOCK_SIZE
       /\ Links > 1
       /\ (Links - 1) * (MAX_BLOCK_SIZE - 1) >= MaxSize

\* Behind the full test the writer has seen the tail block full.
SeenFull == wpc \in {"full", "usenext", "fillnext", "publishnext", "alloc", "link", "advance"}

WriterInv(pos) ==
    /\ wpc # "idle" => offer <= N
    /\ SeenFull /\ 0 < pos[tailBlock] => Count(tailBlock) = blocks[tailBlock].size - 1
    /\ wpc # "idle" /\ hadRoom => Len(items) < MaxSize
    /\ wpc \in {"construct", "publish"} =>
          blocks[tailBlock].localFront # Inc(tailBlock, blocks[tailBlock].tail)
    /\ wpc \in {"usenext", "fillnext", "publishnext", "advance"} => pos[tailBlock] < Links - 1
    /\ wpc \in {"fillnext", "publishnext"} =>
          LET next == blocks[tailBlock].next IN blocks[next].localFront = blocks[next].front
    /\ wpc = "full" /\ Links = 1 => ~ hadRoom
    /\ wpc = "alloc" => ~ hadRoom
    /\ wpc = "link" =>
          LET new == blocks[Len(blocks)] IN
          /\ new.front = 0 /\ new.tail = 1 /\ new.localFront = 0 /\ new.localTail = 1
          /\ new.next = blocks[tailBlock].next
          /\ \A i \in 0 .. new.size - 1 : new.data[i] = IF i = 0 THEN offer ELSE Raw

ReaderInv(pos) ==
    /\ rpc \in {"element", "release"} =>
          blocks[frontBlock].front # blocks[frontBlock].localTail
    /\ rpc = "release" => inHand = items[1]
    /\ rpc \in {"recheck", "next", "nexttail", "advance"} => 0 < pos[tailBlock]
    /\ rpc \in {"next", "nexttail", "advance"} => Count(frontBlock) = 0
    /\ rpc \in {"nexttail", "advance"} => nextBlock = blocks[frontBlock].next
    /\ rpc = "advance" => blocks[nextBlock].localTail # blocks[nextBlock].front
    /\ rpc \notin {"idle", "peeked"} /\ hadData => items # << >>
    /\ rpc = "tailblock" /\ hadData => 0 < pos[tailBlock]
    /\ rpc = "peeked" =>
          /\ inHand = items[1]
          /\ held[2] = blocks[held[1]].front
          /\ \/ held[1] = frontBlock /\ Count(frontBlock) > 0
             \/ held[1] = blocks[frontBlock].next /\ Count(frontBlock) = 0 /\ 0 < pos[tailBlock]

Layout(pos, start) ==
    /\ CircleInv(pos) /\ FillInv(pos, start) /\ SlotInv(pos, start)
    /\ WriterInv(pos) /\ ReaderInv(pos)

\* What the destructor leaves behind.
Gone ==
    /\ wpc = "idle" /\ rpc = "idle"
    /\ \A b \in DOMAIN blocks : \A i \in 0 .. blocks[b].size - 1 : blocks[b].data[i] = Raw

Core ==
    /\ Control
    /\ blocks \in Seq(Block) /\ items \in Seq(Nat)
    /\ \A b \in DOMAIN blocks : BlockInv(b)
    /\ SizeInv

Inv ==
    /\ Core
    /\ IF alive THEN \E pos, start : Layout(pos, start) ELSE Gone
-----------------------------------------------------------------------------
(* Rings and numbers.                                                      *)

\* A set of numbers has a least one.
LEMMA Least ==
    ASSUME NEW T \in SUBSET Nat, T # {}
    PROVE  \E x \in T : \A y \in T : x <= y
  <1> DEFINE R == {ss \in Nat \X Nat : ss[1] < ss[2]}
  <1>1. R = OpToRel(<, Nat)
    BY DEF OpToRel
  <1>2. IsWellFoundedOn(R, Nat)
    BY <1>1, NatLessThanWellFounded
  <1>3. \A x, y \in Nat : <<y, x>> \notin R => x <= y
    OBVIOUS
  <1> HIDE DEF R
  <1>4. \E x \in T : \A y \in T : ~ (<<y, x>> \in R)
    BY <1>2, WFMin
  <1> QED BY <1>3, <1>4

Succ(s, i) == IF i + 1 = s THEN 0 ELSE i + 1

LEMMA IncIsSucc ==
    ASSUME NEW s \in Nat, NEW i \in 0 .. s - 1
    PROVE  (i + 1) % s = Succ(s, i) /\ Succ(s, i) \in 0 .. s - 1
  <1>1. CASE i + 1 = s
    BY <1>1 DEF Succ
  <1>2. CASE i + 1 # s
    BY <1>2 DEF Succ
  <1> QED BY <1>1, <1>2

LEMMA DistFacts ==
    ASSUME NEW s \in Nat, NEW i \in 0 .. s - 1, NEW j \in 0 .. s - 1
    PROVE  /\ Dist(s, i, j) \in 0 .. s - 1
           /\ Dist(s, i, j) = 0 <=> i = j
           /\ \A k \in 0 .. s - 1 : Dist(s, i, j) = Dist(s, i, k) => j = k
  BY DEF Dist

\* The end that is ahead moves on, or the one behind.
LEMMA DistStep ==
    ASSUME NEW s \in Nat, s >= 2, NEW i \in 0 .. s - 1, NEW j \in 0 .. s - 1
    PROVE  /\ Succ(s, j) # i => Dist(s, i, Succ(s, j)) = Dist(s, i, j) + 1
           /\ i # j => Dist(s, Succ(s, i), j) = Dist(s, i, j) - 1
           /\ Succ(s, j) = i <=> Dist(s, i, j) = s - 1
  BY DEF Dist, Succ
-----------------------------------------------------------------------------
(* What an assignment to one field of one block changes.                   *)

LEMMA SetFront ==
    ASSUME blocks \in Seq(Block), NEW t \in DOMAIN blocks,
           NEW x \in Nat,
           blocks' = [blocks EXCEPT ![t].front = x]
    PROVE  /\ blocks' \in Seq(Block) /\ Len(blocks') = Len(blocks) /\ DOMAIN blocks' = DOMAIN blocks
           /\ \A b \in DOMAIN blocks :
                 /\ blocks'[b].front = IF b = t THEN x ELSE blocks[b].front
                 /\ blocks'[b].size = blocks[b].size /\ blocks'[b].tail = blocks[b].tail
                 /\ blocks'[b].localFront = blocks[b].localFront
                 /\ blocks'[b].localTail = blocks[b].localTail /\ blocks'[b].next = blocks[b].next
                 /\ blocks'[b].data = blocks[b].data
  <1>1. blocks[t] \in Block
    BY ElementOfSeq
  <1>2. [blocks[t] EXCEPT !.front = x] \in Block
    BY <1>1 DEF Block
  <1>3. blocks' = [blocks EXCEPT ![t] = [blocks[t] EXCEPT !.front = x]]
    OBVIOUS
  <1>4. blocks' \in Seq(Block) /\ Len(blocks') = Len(blocks) /\ DOMAIN blocks' = DOMAIN blocks
    BY <1>2, <1>3
  <1>5. \A b \in DOMAIN blocks : blocks'[b] = IF b = t THEN [blocks[t] EXCEPT !.front = x] ELSE blocks[b]
    BY <1>3
  <1> QED BY <1>1, <1>4, <1>5 DEF Block

LEMMA SetTail ==
    ASSUME blocks \in Seq(Block), NEW t \in DOMAIN blocks,
           NEW x \in Nat,
           blocks' = [blocks EXCEPT ![t].tail = x]
    PROVE  /\ blocks' \in Seq(Block) /\ Len(blocks') = Len(blocks) /\ DOMAIN blocks' = DOMAIN blocks
           /\ \A b \in DOMAIN blocks :
                 /\ blocks'[b].tail = IF b = t THEN x ELSE blocks[b].tail
                 /\ blocks'[b].size = blocks[b].size /\ blocks'[b].front = blocks[b].front
                 /\ blocks'[b].localFront = blocks[b].localFront
                 /\ blocks'[b].localTail = blocks[b].localTail /\ blocks'[b].next = blocks[b].next
                 /\ blocks'[b].data = blocks[b].data
  <1>1. blocks[t] \in Block
    BY ElementOfSeq
  <1>2. [blocks[t] EXCEPT !.tail = x] \in Block
    BY <1>1 DEF Block
  <1>3. blocks' = [blocks EXCEPT ![t] = [blocks[t] EXCEPT !.tail = x]]
    OBVIOUS
  <1>4. blocks' \in Seq(Block) /\ Len(blocks') = Len(blocks) /\ DOMAIN blocks' = DOMAIN blocks
    BY <1>2, <1>3
  <1>5. \A b \in DOMAIN blocks : blocks'[b] = IF b = t THEN [blocks[t] EXCEPT !.tail = x] ELSE blocks[b]
    BY <1>3
  <1> QED BY <1>1, <1>4, <1>5 DEF Block

LEMMA SetLocalFront ==
    ASSUME blocks \in Seq(Block), NEW t \in DOMAIN blocks,
           NEW x \in Nat,
           blocks' = [blocks EXCEPT ![t].localFront = x]
    PROVE  /\ blocks' \in Seq(Block) /\ Len(blocks') = Len(blocks) /\ DOMAIN blocks' = DOMAIN blocks
           /\ \A b \in DOMAIN blocks :
                 /\ blocks'[b].localFront = IF b = t THEN x ELSE blocks[b].localFront
                 /\ blocks'[b].size = blocks[b].size /\ blocks'[b].front = blocks[b].front
                 /\ blocks'[b].tail = blocks[b].tail
                 /\ blocks'[b].localTail = blocks[b].localTail /\ blocks'[b].next = blocks[b].next
                 /\ blocks'[b].data = blocks[b].data
  <1>1. blocks[t] \in Block
    BY ElementOfSeq
  <1>2. [blocks[t] EXCEPT !.localFront = x] \in Block
    BY <1>1 DEF Block
  <1>3. blocks' = [blocks EXCEPT ![t] = [blocks[t] EXCEPT !.localFront = x]]
    OBVIOUS
  <1>4. blocks' \in Seq(Block) /\ Len(blocks') = Len(blocks) /\ DOMAIN blocks' = DOMAIN blocks
    BY <1>2, <1>3
  <1>5. \A b \in DOMAIN blocks : blocks'[b] = IF b = t THEN [blocks[t] EXCEPT !.localFront = x] ELSE blocks[b]
    BY <1>3
  <1> QED BY <1>1, <1>4, <1>5 DEF Block

LEMMA SetLocalTail ==
    ASSUME blocks \in Seq(Block), NEW t \in DOMAIN blocks,
           NEW x \in Nat,
           blocks' = [blocks EXCEPT ![t].localTail = x]
    PROVE  /\ blocks' \in Seq(Block) /\ Len(blocks') = Len(blocks) /\ DOMAIN blocks' = DOMAIN blocks
           /\ \A b \in DOMAIN blocks :
                 /\ blocks'[b].localTail = IF b = t THEN x ELSE blocks[b].localTail
                 /\ blocks'[b].size = blocks[b].size /\ blocks'[b].front = blocks[b].front
                 /\ blocks'[b].tail = blocks[b].tail
                 /\ blocks'[b].localFront = blocks[b].localFront /\ blocks'[b].next = blocks[b].next
                 /\ blocks'[b].data = blocks[b].data
  <1>1. blocks[t] \in Block
    BY ElementOfSeq
  <1>2. [blocks[t] EXCEPT !.localTail = x] \in Block
    BY <1>1 DEF Block
  <1>3. blocks' = [blocks EXCEPT ![t] = [blocks[t] EXCEPT !.localTail = x]]
    OBVIOUS
  <1>4. blocks' \in Seq(Block) /\ Len(blocks') = Len(blocks) /\ DOMAIN blocks' = DOMAIN blocks
    BY <1>2, <1>3
  <1>5. \A b \in DOMAIN blocks : blocks'[b] = IF b = t THEN [blocks[t] EXCEPT !.localTail = x] ELSE blocks[b]
    BY <1>3
  <1> QED BY <1>1, <1>4, <1>5 DEF Block

LEMMA SetNext ==
    ASSUME blocks \in Seq(Block), NEW t \in DOMAIN blocks,
           NEW x \in Nat,
           blocks' = [blocks EXCEPT ![t].next = x]
    PROVE  /\ blocks' \in Seq(Block) /\ Len(blocks') = Len(blocks) /\ DOMAIN blocks' = DOMAIN blocks
           /\ \A b \in DOMAIN blocks :
                 /\ blocks'[b].next = IF b = t THEN x ELSE blocks[b].next
                 /\ blocks'[b].size = blocks[b].size /\ blocks'[b].front = blocks[b].front
                 /\ blocks'[b].tail = blocks[b].tail
                 /\ blocks'[b].localFront = blocks[b].localFront /\ blocks'[b].localTail = blocks[b].localTail
                 /\ blocks'[b].data = blocks[b].data
  <1>1. blocks[t] \in Block
    BY ElementOfSeq
  <1>2. [blocks[t] EXCEPT !.next = x] \in Block
    BY <1>1 DEF Block
  <1>3. blocks' = [blocks EXCEPT ![t] = [blocks[t] EXCEPT !.next = x]]
    OBVIOUS
  <1>4. blocks' \in Seq(Block) /\ Len(blocks') = Len(blocks) /\ DOMAIN blocks' = DOMAIN blocks
    BY <1>2, <1>3
  <1>5. \A b \in DOMAIN blocks : blocks'[b] = IF b = t THEN [blocks[t] EXCEPT !.next = x] ELSE blocks[b]
    BY <1>3
  <1> QED BY <1>1, <1>4, <1>5 DEF Block

LEMMA SetData ==
    ASSUME blocks \in Seq(Block), NEW t \in DOMAIN blocks,
           NEW j \in DOMAIN blocks[t].data, NEW x \in Datum,
           blocks' = [blocks EXCEPT ![t].data[j] = x]
    PROVE  /\ blocks' \in Seq(Block) /\ Len(blocks') = Len(blocks) /\ DOMAIN blocks' = DOMAIN blocks
           /\ \A b \in DOMAIN blocks :
                 /\ blocks'[b].data = IF b = t THEN [blocks[t].data EXCEPT ![j] = x] ELSE blocks[b].data
                 /\ blocks'[b].size = blocks[b].size /\ blocks'[b].front = blocks[b].front
                 /\ blocks'[b].tail = blocks[b].tail
                 /\ blocks'[b].localFront = blocks[b].localFront /\ blocks'[b].localTail = blocks[b].localTail
                 /\ blocks'[b].next = blocks[b].next
  <1>1. blocks[t] \in Block
    BY ElementOfSeq
  <1>2. [blocks[t] EXCEPT !.data[j] = x] \in Block
    <2>1. blocks[t].data \in Data
      BY <1>1 DEF Block
    <2>2. [blocks[t].data EXCEPT ![j] = x] \in Data
      BY <2>1 DEF Data
    <2> QED BY <1>1, <2>2 DEF Block
  <1>3. blocks' = [blocks EXCEPT ![t] = [blocks[t] EXCEPT !.data[j] = x]]
    OBVIOUS
  <1>4. blocks' \in Seq(Block) /\ Len(blocks') = Len(blocks) /\ DOMAIN blocks' = DOMAIN blocks
    BY <1>2, <1>3
  <1>5. \A b \in DOMAIN blocks : blocks'[b] = IF b = t THEN [blocks[t] EXCEPT !.data[j] = x] ELSE blocks[b]
    BY <1>3
  <1> QED BY <1>1, <1>4, <1>5 DEF Block

-----------------------------------------------------------------------------
(* What is true of each block, and what a step leaves alone.               *)

LEMMA View ==
    ASSUME Core, NEW b \in DOMAIN blocks
    PROVE  LET B == blocks[b] IN
           /\ B.size \in Nat /\ B.size >= 2
           /\ B.front \in 0 .. B.size - 1 /\ B.tail \in 0 .. B.size - 1
           /\ B.localFront \in 0 .. B.size - 1 /\ B.localTail \in 0 .. B.size - 1
           /\ B.next \in DOMAIN blocks
           /\ B.data \in [0 .. B.size - 1 -> Datum]
           /\ Count(b) \in 0 .. B.size - 1
           /\ Count(b) = 0 <=> B.front = B.tail
           /\ \A i \in 0 .. B.size - 1 :
                 /\ Inc(b, i) = Succ(B.size, i) /\ Inc(b, i) \in 0 .. B.size - 1
                 /\ Place(b, i) \in 0 .. B.size - 1
                 /\ Place(b, i) = 0 <=> i = B.front
                 /\ Place(b, i) = Count(b) <=> i = B.tail
  <1> DEFINE B == blocks[b]
  <1>1. B \in Block
    BY ElementOfSeq DEF Core
  <1>2. BlockInv(b)
    BY DEF Core
  <1>3. /\ B.size \in Nat /\ B.size >= 2
        /\ B.front \in 0 .. B.size - 1 /\ B.tail \in 0 .. B.size - 1
        /\ B.localFront \in 0 .. B.size - 1 /\ B.localTail \in 0 .. B.size - 1
        /\ B.next \in DOMAIN blocks
        /\ B.data \in [0 .. B.size - 1 -> Datum]
    BY <1>1, <1>2 DEF Block, BlockInv
  <1>4. Count(b) \in 0 .. B.size - 1 /\ (Count(b) = 0 <=> B.front = B.tail)
    BY <1>3 DEF Count, Dist
  <1>5. ASSUME NEW i \in 0 .. B.size - 1
        PROVE  /\ Inc(b, i) = Succ(B.size, i) /\ Inc(b, i) \in 0 .. B.size - 1
               /\ Place(b, i) \in 0 .. B.size - 1
               /\ Place(b, i) = 0 <=> i = B.front
               /\ Place(b, i) = Count(b) <=> i = B.tail
    <2>1. Inc(b, i) = Succ(B.size, i) /\ Inc(b, i) \in 0 .. B.size - 1
      <3>1. Inc(b, i) = (i + 1) % B.size
        BY DEF Inc
      <3>2. (i + 1) % B.size = Succ(B.size, i) /\ Succ(B.size, i) \in 0 .. B.size - 1
        BY <1>3, IncIsSucc
      <3> QED BY <3>1, <3>2, Zenon
    <2>2. Place(b, i) \in 0 .. B.size - 1 /\ (Place(b, i) = 0 <=> i = B.front)
      <3>1. Place(b, i) = Dist(B.size, B.front, i)
        BY DEF Place
      <3>2. B.size \in Nat /\ B.front \in 0 .. B.size - 1
        BY <1>3
      <3> QED BY <3>1, <3>2 DEF Dist
    <2>3. Place(b, i) = Count(b) <=> i = B.tail
      <3>1. CASE i = B.tail
        BY <3>1 DEF Place, Count
      <3>2. CASE i # B.tail
        <4>1. \A s \in Nat : \A f, j, k \in 0 .. s - 1 : j # k => Dist(s, f, j) # Dist(s, f, k)
          BY DistFacts
        <4> QED BY <1>3, <3>2, <4>1 DEF Place, Count
      <3> QED BY <3>1, <3>2
    <2> QED BY <2>1, <2>2, <2>3
  <1> QED BY <1>3, <1>4, <1>5

\* The rings and the circle stay as they are.
Still ==
    /\ blocks' \in Seq(Block) /\ Len(blocks') = Len(blocks) /\ DOMAIN blocks' = DOMAIN blocks
    /\ \A b \in DOMAIN blocks :
          /\ blocks'[b].size = blocks[b].size /\ blocks'[b].front = blocks[b].front
          /\ blocks'[b].tail = blocks[b].tail /\ blocks'[b].next = blocks[b].next
    /\ UNCHANGED <<frontBlock, tailBlock, items, largestBlockSize>>
    /\ wpc' = "link" <=> wpc = "link"
    /\ wpc' = "advance" <=> wpc = "advance"

LEMMA LinkedAreBlocks ==
    ASSUME Core
    PROVE  Linked \subseteq DOMAIN blocks /\ Links \in Int
  <1>1. DOMAIN blocks = 1 .. Len(blocks) /\ Len(blocks) \in Nat
    BY LenProperties DEF Core
  <1> QED BY <1>1 DEF Linked, Links

LEMMA StillLayout ==
    ASSUME NEW pos, NEW start, Core, CircleInv(pos), FillInv(pos, start), Still
    PROVE  /\ CircleInv(pos)' /\ FillInv(pos, start)' /\ Links' = Links /\ Linked' = Linked
           /\ SizeInv'
           /\ \A b \in DOMAIN blocks : Count(b)' = Count(b) /\ \A i : Place(b, i)' = Place(b, i)
  <1>1. Links' = Links /\ Linked' = Linked
    BY DEF Still, Links, Linked
  <1>2. Linked \subseteq DOMAIN blocks
    BY LinkedAreBlocks
  <1>3. \A b \in DOMAIN blocks : Count(b)' = Count(b) /\ \A i : Place(b, i)' = Place(b, i)
    BY DEF Still, Count, Place
  <1>4. CircleInv(pos)'
    <2>1. /\ \A b \in Linked : blocks'[b].next = blocks[b].next
          /\ frontBlock' = frontBlock /\ tailBlock' = tailBlock
      BY <1>2 DEF Still
    <2> QED BY <1>1, <2>1 DEF CircleInv
  <1>5. FillInv(pos, start)'
    <2>1. frontBlock' = frontBlock /\ tailBlock' = tailBlock /\ Len(items)' = Len(items)
          /\ frontBlock \in Linked /\ tailBlock \in Linked
      BY DEF Still, CircleInv
    <2>2. ASSUME NEW b \in Linked
          PROVE  /\ pos[b] < pos[tailBlock] => start[blocks'[b].next] = start[b] + Count(b)'
                 /\ 0 < pos[b] /\ pos[b] <= pos[tailBlock] => Count(b)' > 0
                 /\ 0 < pos[b] /\ pos[b] < pos[tailBlock] => Count(b)' = blocks'[b].size - 1
                 /\ pos[tailBlock] < pos[b] =>
                        Count(b)' = IF wpc' = "advance" /\ b = blocks'[tailBlock].next THEN 1 ELSE 0
      <3>1. /\ blocks'[b].next = blocks[b].next /\ blocks'[b].size = blocks[b].size
            /\ Count(b)' = Count(b) /\ blocks'[tailBlock].next = blocks[tailBlock].next
            /\ wpc' = "advance" <=> wpc = "advance"
        BY <1>2, <1>3, <2>1 DEF Still
      <3> QED BY <3>1 DEF FillInv
    <2>3. \A b \in Linked : Count(b)' = Count(b)
      BY <1>2, <1>3
    <2> QED BY <1>1, <2>1, <2>2, <2>3 DEF FillInv
  <1>6. SizeInv'
    BY <1>1 DEF Core, SizeInv, Still
  <1> QED BY <1>1, <1>3, <1>4, <1>5, <1>6

LEMMA StillSlots ==
    ASSUME NEW pos, NEW start, Core, CircleInv(pos), FillInv(pos, start), SlotInv(pos, start),
           Still, \A b \in DOMAIN blocks : blocks'[b].data = blocks[b].data,
           rpc' = "release" <=> rpc = "release",
           \A b \in Linked : \A i \in 0 .. blocks[b].size - 1 :
              /\ Built(b, i)' <=> Built(b, i)
              /\ Built(b, i) => offer' = offer
    PROVE  SlotInv(pos, start)'
  <1>1. /\ Links' = Links /\ Linked' = Linked
        /\ \A b \in DOMAIN blocks : Count(b)' = Count(b) /\ \A i : Place(b, i)' = Place(b, i)
    BY StillLayout
  <1>2. Linked \subseteq DOMAIN blocks
    BY LinkedAreBlocks
  <1> SUFFICES ASSUME NEW b \in Linked, NEW i \in 0 .. blocks[b].size - 1
               PROVE  blocks'[b].data[i] =
                         IF Place(b, i) < Count(b) /\ pos[b] <= pos[tailBlock]
                         THEN IF b = frontBlock /\ i = blocks[b].front /\ rpc = "release" THEN Raw
                              ELSE items[start[b] + Place(b, i) + 1]
                         ELSE IF Built(b, i)' THEN offer' ELSE Raw
    BY <1>1, <1>2 DEF SlotInv, Still
  <1>3. blocks'[b].data[i] = blocks[b].data[i]
    BY <1>2 DEF Still
  <1> QED BY <1>3 DEF SlotInv
LEMMA Bounds ==
    ASSUME NEW pos, NEW start, Core, CircleInv(pos), FillInv(pos, start)
    PROVE  /\ \A b \in Linked : pos[b] <= pos[tailBlock] => start[b] + Count(b) <= Len(items)
           /\ pos[tailBlock] \in Nat /\ Len(items) \in Nat
  <1>1. Linked \subseteq DOMAIN blocks
    BY LinkedAreBlocks
  <1>2. \A b \in Linked : Count(b) \in Nat /\ pos[b] \in Nat /\ start[b] \in Nat
    BY <1>1, View DEF CircleInv, FillInv
  <1>3. tailBlock \in Linked /\ start[tailBlock] + Count(tailBlock) = Len(items)
    BY DEF CircleInv, FillInv
  <1>4. ASSUME NEW b \in Linked, pos[b] <= pos[tailBlock]
        PROVE  start[b] + Count(b) <= Len(items)
    <2>1. CASE b = tailBlock
      BY <1>3, <2>1, <1>2
    <2>2. CASE b # tailBlock
      <3>1. pos[b] < pos[tailBlock]
        BY <1>2, <1>3, <1>4, <2>2 DEF CircleInv
      <3>2. start[b] + Count(b) <= start[tailBlock]
        BY <1>2, <1>3, <3>1 DEF FillInv
      <3> QED BY <1>2, <1>3, <3>2
    <2> QED BY <2>1, <2>2
  <1>5. Len(items) \in Nat
    BY DEF Core
  <1> QED BY <1>2, <1>3, <1>4, <1>5

\* Where the reader is, or points to, there is the first value.
LEMMA ReaderAt ==
    ASSUME NEW pos, NEW start, Core, Layout(pos, start)
    PROVE  /\ rpc \in {"element", "release"} => Count(frontBlock) > 0 /\ Len(items) >= 1
           /\ rpc = "peeked" =>
                 /\ held[1] \in Linked /\ pos[held[1]] <= pos[tailBlock]
                 /\ Count(held[1]) > 0 /\ start[held[1]] = 0 /\ Len(items) >= 1
  <1> USE DEF Layout
  <1>1. Linked \subseteq DOMAIN blocks /\ frontBlock \in Linked /\ tailBlock \in Linked
    BY LinkedAreBlocks DEF CircleInv
  <1>2. \A b \in Linked : Count(b) \in Nat /\ pos[b] \in Nat /\ start[b] \in Nat
    BY <1>1, View DEF CircleInv, FillInv
  <1>3. /\ \A b \in Linked : pos[b] <= pos[tailBlock] => start[b] + Count(b) <= Len(items)
        /\ pos[tailBlock] \in Nat /\ Len(items) \in Nat
    BY Bounds
  <1>4. pos[frontBlock] = 0 /\ start[frontBlock] = 0
    BY DEF CircleInv, FillInv
  <1>5. ASSUME rpc \in {"element", "release"}
        PROVE  Count(frontBlock) > 0 /\ Len(items) >= 1
    <2>1. blocks[frontBlock].front # blocks[frontBlock].localTail
      BY <1>5 DEF ReaderInv
    <2>2. Dist(blocks[frontBlock].size, blocks[frontBlock].front, blocks[frontBlock].localTail)
             <= Count(frontBlock)
      BY <1>1 DEF Core, BlockInv
    <2>3. /\ blocks[frontBlock].size \in Nat
          /\ blocks[frontBlock].front \in 0 .. blocks[frontBlock].size - 1
          /\ blocks[frontBlock].localTail \in 0 .. blocks[frontBlock].size - 1
      BY <1>1, View
    <2>4. Dist(blocks[frontBlock].size, blocks[frontBlock].front, blocks[frontBlock].localTail) > 0
      BY <2>1, <2>3 DEF Dist
    <2>5. Count(frontBlock) > 0
      BY <1>1, <1>2, <2>2, <2>4, <2>3 DEF Dist
    <2> QED BY <1>1, <1>2, <1>3, <1>4, <2>5
  <1>6. ASSUME rpc = "peeked"
        PROVE  /\ held[1] \in Linked /\ pos[held[1]] <= pos[tailBlock]
               /\ Count(held[1]) > 0 /\ start[held[1]] = 0 /\ Len(items) >= 1
    <2>1. CASE held[1] = frontBlock /\ Count(frontBlock) > 0
      BY <1>1, <1>2, <1>3, <1>4, <2>1
    <2>2. CASE held[1] = blocks[frontBlock].next /\ Count(frontBlock) = 0 /\ 0 < pos[tailBlock]
      <3> DEFINE h == blocks[frontBlock].next
      <3>1. h \in Linked /\ pos[h] = 1
        <4>1. pos[h] = IF pos[frontBlock] = Links - 1 THEN 0 ELSE pos[frontBlock] + 1
          BY <1>1 DEF CircleInv
        <4>2. pos[tailBlock] <= Links - 1
          BY <1>1, LinkedAreBlocks DEF CircleInv
        <4>3. h \in Linked
          BY <1>1 DEF CircleInv
        <4> QED BY <1>1, <1>2, <1>4, <2>2, <4>1, <4>2, <4>3, LinkedAreBlocks
      <3>2. start[h] = 0
        BY <1>1, <1>4, <2>2 DEF FillInv
      <3>3. Count(h) > 0
        BY <1>3, <2>2, <3>1 DEF FillInv
      <3> HIDE DEF h
      <3>4. Len(items) >= 1 /\ pos[h] <= pos[tailBlock]
        BY <1>2, <1>3, <2>2, <3>1, <3>2, <3>3
      <3> QED BY <2>2, <3>1, <3>2, <3>3, <3>4 DEF h
    <2> QED BY <1>6, <2>1, <2>2 DEF ReaderInv
  <1> QED BY <1>5, <1>6

\* A step of the writer does not disturb the reader ...
LEMMA ReaderStays ==
    ASSUME NEW pos, NEW start, NEW pos2, Core, Layout(pos, start),
           UNCHANGED reader,
           \A b \in DOMAIN blocks :
              /\ blocks'[b].front = blocks[b].front /\ blocks'[b].localTail = blocks[b].localTail
              /\ Count(b)' \in Nat /\ Count(b)' >= Count(b),
           0 < pos[tailBlock] =>
              /\ Count(frontBlock)' = Count(frontBlock) /\ 0 < pos2[tailBlock']
              /\ blocks'[frontBlock].next = blocks[frontBlock].next,
           items' = items \/ \E v \in Nat : items' = Append(items, v)
    PROVE  ReaderInv(pos2)'
  <1>1. UNCHANGED <<rpc, op, frontBlock, nextBlock, held, inHand, result, hadData>>
    BY DEF reader
  <1>2. items # << >> => items' # << >>
    <2>1. \A v \in Nat : Len(Append(items, v)) = Len(items) + 1
      BY DEF Core
    <2> QED BY <2>1 DEF Core
  <1>3. Len(items) >= 1 => items'[1] = items[1]
    BY DEF Core
  <1>4. Linked \subseteq DOMAIN blocks /\ frontBlock \in Linked
    BY LinkedAreBlocks DEF Layout, CircleInv
  <1>5. ReaderInv(pos)
    BY DEF Layout
  <1>6. Count(frontBlock) > 0 => Count(frontBlock)' > 0
    <2>1. Count(frontBlock) \in Nat
      BY <1>4, View
    <2>2. Count(frontBlock)' \in Nat /\ Count(frontBlock)' >= Count(frontBlock)
      BY <1>1, <1>4
    <2> QED BY <2>1, <2>2
  <1>7. /\ rpc \in {"element", "release"} =>
              blocks'[frontBlock].front # blocks'[frontBlock].localTail
        /\ rpc = "release" => inHand = items'[1]
    BY <1>3, <1>4, <1>5, ReaderAt DEF ReaderInv
  <1>8. /\ rpc \in {"recheck", "next", "nexttail", "advance"} => 0 < pos2[tailBlock']
        /\ rpc \in {"next", "nexttail", "advance"} => Count(frontBlock)' = 0
        /\ rpc \in {"nexttail", "advance"} => nextBlock = blocks'[frontBlock].next
        /\ rpc = "tailblock" /\ hadData => 0 < pos2[tailBlock']
    BY <1>5 DEF ReaderInv
  <1>9. rpc = "advance" => blocks'[nextBlock].localTail # blocks'[nextBlock].front
    <2>1. nextBlock \in DOMAIN blocks
      BY DEF Core, Control
    <2> QED BY <1>5, <2>1 DEF ReaderInv
  <1>10. rpc \notin {"idle", "peeked"} /\ hadData => items' # << >>
    BY <1>2, <1>5 DEF ReaderInv
  <1>11. ASSUME rpc = "peeked"
         PROVE  /\ inHand = items'[1]
                /\ held[2] = blocks'[held[1]].front
                /\ \/ held[1] = frontBlock /\ Count(frontBlock)' > 0
                   \/ /\ held[1] = blocks'[frontBlock].next
                      /\ Count(frontBlock)' = 0 /\ 0 < pos2[tailBlock']
    <2>1. held[1] \in DOMAIN blocks
      BY <1>4, <1>11, ReaderAt
    <2>2. inHand = items'[1]
      BY <1>3, <1>5, <1>11, ReaderAt DEF ReaderInv
    <2>3. held[2] = blocks'[held[1]].front
      BY <1>5, <1>11, <2>1 DEF ReaderInv
    <2> QED BY <1>5, <1>6, <1>11, <2>2, <2>3 DEF ReaderInv
  <1> QED BY <1>1, <1>7, <1>8, <1>9, <1>10, <1>11 DEF ReaderInv

\* ... nor one of the reader the writer.
LEMMA WriterStays ==
    ASSUME NEW pos, NEW start, NEW pos2, Core, Layout(pos, start),
           UNCHANGED writer, Links' = Links, Len(blocks') = Len(blocks),
           \A b \in DOMAIN blocks :
              /\ blocks'[b].size = blocks[b].size /\ blocks'[b].tail = blocks[b].tail
              /\ blocks'[b].next = blocks[b].next /\ blocks'[b].localFront = blocks[b].localFront
              /\ b # frontBlock => blocks'[b].front = blocks[b].front /\ Count(b)' = Count(b),
           \A b \in DOMAIN blocks \ Linked : blocks'[b] = blocks[b],
           Len(items') \in Nat, Len(items') <= Len(items),
           pos2[tailBlock] \in Nat, pos2[tailBlock] <= pos[tailBlock]
    PROVE  WriterInv(pos2)'
  <1>1. UNCHANGED <<wpc, mode, offer, hadRoom, tailBlock, largestBlockSize>>
    BY DEF writer
  <1>2. /\ Linked \subseteq DOMAIN blocks /\ frontBlock \in Linked /\ tailBlock \in Linked
        /\ Links \in Int
    BY LinkedAreBlocks DEF Layout, CircleInv
  <1>3. WriterInv(pos) /\ CircleInv(pos)
    BY DEF Layout
  <1>4. pos[tailBlock] \in Nat /\ pos[frontBlock] = 0 /\ Len(items) \in Nat
    BY <1>2, <1>3 DEF CircleInv, Core
  <1>5. SeenFull /\ 0 < pos2[tailBlock] => Count(tailBlock)' = blocks'[tailBlock].size - 1
    <2>1. 0 < pos2[tailBlock] => 0 < pos[tailBlock] /\ tailBlock # frontBlock
      BY <1>4
    <2> QED BY <1>1, <1>2, <1>3, <2>1 DEF WriterInv
  <1>6. wpc # "idle" /\ hadRoom => Len(items') < MaxSize
    BY <1>3, <1>4, QueueAssumption DEF WriterInv
  <1>7. wpc \in {"construct", "publish"} =>
            blocks'[tailBlock].localFront # Inc(tailBlock, blocks[tailBlock].tail)'
    BY <1>1, <1>2, <1>3 DEF WriterInv, Inc
  <1>8. wpc \in {"usenext", "fillnext", "publishnext", "advance"} => pos2[tailBlock] < Links - 1
    BY <1>2, <1>3, <1>4 DEF WriterInv
  <1>9. ASSUME wpc \in {"fillnext", "publishnext"}
        PROVE  LET next == blocks'[tailBlock].next IN blocks'[next].localFront = blocks'[next].front
    <2> DEFINE next == blocks[tailBlock].next
    <2>1. next \in Linked /\ pos[next] = IF pos[tailBlock] = Links - 1 THEN 0 ELSE pos[tailBlock] + 1
      BY <1>2, <1>3 DEF CircleInv
    <2>2. pos[tailBlock] < Links - 1
      BY <1>3, <1>9 DEF WriterInv
    <2>3. next # frontBlock
      BY <1>2, <1>4, <2>1, <2>2
    <2>4. blocks[next].localFront = blocks[next].front
      BY <1>3, <1>9 DEF WriterInv
    <2>5. blocks'[tailBlock].next = next
      BY <1>2
    <2> QED BY <1>2, <2>1, <2>3, <2>4, <2>5
  <1>10. ASSUME wpc = "link"
         PROVE  LET new == blocks'[Len(blocks')] IN
                /\ new.front = 0 /\ new.tail = 1 /\ new.localFront = 0 /\ new.localTail = 1
                /\ new.next = blocks'[tailBlock].next
                /\ \A i \in 0 .. new.size - 1 : new.data[i] = IF i = 0 THEN offer ELSE Raw
    <2>1. Len(blocks) \in DOMAIN blocks \ Linked
      <3>1. DOMAIN blocks = 1 .. Len(blocks) /\ Len(blocks) \in Nat
        BY LenProperties DEF Core
      <3>2. Linked = 1 .. Len(blocks) - 1
        BY <1>10 DEF Linked, Links
      <3> QED BY <1>2, <3>1, <3>2
    <2>2. blocks'[Len(blocks')] = blocks[Len(blocks)]
      BY <2>1
    <2>3. blocks'[tailBlock].next = blocks[tailBlock].next
      BY <1>2
    <2> QED BY <1>3, <1>10, <2>2, <2>3 DEF WriterInv
  <1> QED BY <1>1, <1>3, <1>5, <1>6, <1>7, <1>8, <1>9, <1>10 DEF WriterInv, SeenFull
-----------------------------------------------------------------------------
(* The steps of the writer.                                                *)

\* A step that changes nothing but the writer's place.
LEMMA WriterMoves ==
    ASSUME NEW pos, NEW start, Core, Layout(pos, start),
           UNCHANGED <<alive, items, blocks, reader, tailBlock, largestBlockSize>>,
           wpc \notin {"publish", "publishnext", "link", "advance"},
           wpc' \notin {"publish", "publishnext", "link", "advance"},
           wpc' \in {"idle", "reload", "construct", "full", "usenext", "alloc"},
           mode' \in {"alloc", "room"}, offer' \in 1 .. N + 1, hadRoom' \in BOOLEAN,
           WriterInv(pos)'
    PROVE  Core' /\ Layout(pos, start)'
  <1>1. UNCHANGED <<rpc, op, frontBlock, nextBlock, held, inHand, result, hadData>>
    BY DEF reader
  <1>2. Still
    BY <1>1 DEF Still, Core
  <1>3. \A b, i : ~ Built(b, i) /\ ~ Built(b, i)'
    BY DEF Built
  <1>4. CircleInv(pos)' /\ FillInv(pos, start)' /\ SlotInv(pos, start)' /\ SizeInv'
    BY <1>1, <1>2, <1>3, StillLayout, StillSlots DEF Layout
  <1>5. ReaderInv(pos)'
    BY <1>1 DEF Layout, ReaderInv, Count
  <1>6. Control'
    BY <1>1 DEF Core, Control
  <1>7. \A b \in DOMAIN blocks : BlockInv(b)'
    BY DEF Core, BlockInv, Count
  <1> QED BY <1>2, <1>4, <1>5, <1>6, <1>7 DEF Core, Layout, Still
\* With no block free between the tail and the front block, and the tail block full,
\* the queue holds what the constructor was asked for, whatever the reader has taken
\* from the front block.
LEMMA NoRoom ==
    ASSUME NEW pos, NEW start, Core, CircleInv(pos), FillInv(pos, start),
           pos[tailBlock] = Links - 1, Links > 1,
           Count(tailBlock) = blocks[tailBlock].size - 1
    PROVE  Len(items) >= MaxSize
  <1> USE QueueAssumption
  <1>1. Linked \subseteq DOMAIN blocks /\ tailBlock \in Linked /\ Links \in Int
    BY LinkedAreBlocks DEF CircleInv
  <1>2. \A b \in Linked : /\ Count(b) \in Nat /\ pos[b] \in Nat /\ start[b] \in Nat
                          /\ blocks[b].size \in Nat
    BY <1>1, View DEF CircleInv, FillInv
  <1>3. start[tailBlock] + Count(tailBlock) = Len(items)
    BY DEF FillInv
  <1>4. CASE \A b \in DOMAIN blocks : blocks[b].size > MaxSize
    <2>1. blocks[tailBlock].size > MaxSize /\ start[tailBlock] \in Nat
      BY <1>1, <1>2, <1>4
    <2> QED BY <1>1, <1>2, <1>3, <2>1
  <1>5. CASE /\ \A b \in DOMAIN blocks : blocks[b].size = MAX_BLOCK_SIZE
             /\ (Links - 1) * (MAX_BLOCK_SIZE - 1) >= MaxSize
    <2> DEFINE M == MAX_BLOCK_SIZE - 1
               Short(b) == start[b] < (pos[b] - 1) * M
               T == {p \in Nat : 0 < p /\ \E b \in Linked : pos[b] = p /\ Short(b)}
    <2>1. M \in Nat /\ \A a \in Int : a * M \in Int /\ a * M + M = (a + 1) * M
      OBVIOUS
    <2>2. T = {}
      <3> SUFFICES ASSUME T # {} PROVE FALSE
        OBVIOUS
      <3>1. PICK x \in T : \A y \in T : x <= y
        BY Least
      <3>2. PICK b \in Linked : pos[b] = x /\ Short(b)
        OBVIOUS
      <3>3. x \in Nat /\ 0 < x
        OBVIOUS
      <3>4. x # 1
        <4>1. x = 1 => (pos[b] - 1) * M = 0
          BY <2>1, <3>2
        <4> QED BY <1>2, <3>2, <4>1
      <3>5. x - 1 \in 0 .. Links - 1 /\ x <= Links - 1
        BY <1>1, <3>2, <3>3 DEF CircleInv
      <3>6. PICK d \in Linked : pos[d] = x - 1
        BY <3>5 DEF CircleInv
      <3>7. blocks[d].next = b
        <4>1. pos[blocks[d].next] = x /\ blocks[d].next \in Linked
          BY <1>1, <3>3, <3>5, <3>6 DEF CircleInv
        <4> QED BY <3>2, <4>1 DEF CircleInv
      <3>8. start[b] = start[d] + Count(d)
        <4>1. pos[d] < pos[tailBlock]
          BY <1>1, <3>3, <3>5, <3>6
        <4>2. start[blocks[d].next] = start[d] + Count(d)
          BY <4>1 DEF FillInv
        <4> QED BY <3>7, <4>2
      <3>9. Count(d) = M
        <4>1. Count(d) = blocks[d].size - 1
          <5>1. 0 < pos[d] /\ pos[d] < pos[tailBlock]
            BY <1>1, <3>3, <3>4, <3>5, <3>6
          <5> QED BY <5>1 DEF FillInv
        <4> QED BY <1>1, <1>5, <4>1
      <3>10. ~ Short(d)
        <4>1. x - 1 \in Nat /\ 0 < x - 1 /\ ~ (x <= x - 1)
          BY <3>3, <3>4
        <4>2. x - 1 \notin T
          BY <3>1, <4>1
        <4> HIDE DEF Short
        <4> QED BY <3>6, <4>1, <4>2
      <3>11. start[d] >= (x - 2) * M
        <4>1. pos[d] - 1 = x - 2
          BY <3>3, <3>6
        <4> QED BY <1>2, <2>1, <3>3, <3>10, <4>1
      <3>12. (x - 2) * M + M = (x - 1) * M
        <4>1. x - 2 \in Int /\ (x - 2) + 1 = x - 1
          BY <3>3
        <4> QED BY <2>1, <4>1
      <3>13. start[b] < (x - 1) * M
        BY <3>2
      <3> HIDE DEF M, T, Short
      <3>14. (x - 2) * M \in Int /\ (x - 1) * M \in Int
        BY <2>1, <3>3
      <3> QED BY <1>2, <2>1, <3>8, <3>9, <3>11, <3>12, <3>13, <3>14
    <2>3. start[tailBlock] >= (Links - 2) * M
      <3>1. pos[tailBlock] \in Nat /\ 0 < pos[tailBlock] /\ pos[tailBlock] - 1 = Links - 2
        BY <1>1
      <3>2. ~ Short(tailBlock)
        BY <1>1, <2>2, <3>1
      <3>3. (Links - 2) * M \in Int
        BY <1>1, <2>1
      <3> HIDE DEF M
      <3> QED BY <1>1, <1>2, <3>1, <3>2, <3>3
    <2>4. (Links - 2) * M + M = (Links - 1) * M
      <3>1. Links - 2 \in Int /\ (Links - 2) + 1 = Links - 1
        BY <1>1
      <3> QED BY <2>1, <3>1
    <2>5. Count(tailBlock) = M
      BY <1>1, <1>5
    <2>6. (Links - 1) * M >= MaxSize
      BY <1>5
    <2>7. (Links - 2) * M \in Int /\ (Links - 1) * M \in Int
      BY <1>1, <2>1
    <2> HIDE DEF M
    <2> QED BY <1>1, <1>2, <1>3, <2>1, <2>3, <2>4, <2>5, <2>6, <2>7
  <1> QED BY <1>4, <1>5 DEF Core, SizeInv

LEMMA OfferStep ==
    ASSUME NEW pos, NEW start, Core, Layout(pos, start), Offer
    PROVE  Core' /\ Layout(pos, start)' /\ alive' = alive
  <1> USE DEF Offer
  <1>1. /\ wpc = "idle" /\ wpc' \in {"construct", "reload"} /\ offer' = offer /\ offer <= N
        /\ wpc' = "construct" => Inc(tailBlock, blocks[tailBlock].tail) # blocks[tailBlock].localFront
    BY DEF tailBlock_
  <1>2. (hadRoom' => Len(items) < MaxSize) /\ hadRoom' \in BOOLEAN
    <2> DEFINE room == Len(items) < MaxSize
    <2>1. hadRoom' = room /\ room \in BOOLEAN
      OBVIOUS
    <2>2. room => Len(items) < MaxSize
      OBVIOUS
    <2> HIDE DEF room
    <2> QED BY ONLY <2>1, <2>2, Zenon
  <1>3. WriterInv(pos)'
    BY <1>1, <1>2 DEF WriterInv, SeenFull, Inc
  <1> QED BY <1>1, <1>2, <1>3, WriterMoves DEF Core, Control

LEMMA CheckNextStep ==
    ASSUME NEW pos, NEW start, Core, Layout(pos, start), CheckNext
    PROVE  Core' /\ Layout(pos, start)' /\ alive' = alive /\ (wpc' = "idle" => ~ hadRoom)
  <1> USE DEF CheckNext, Return
  <1>1. /\ wpc = "full" /\ wpc' \in {"idle", "usenext", "alloc"} /\ offer' \in {offer, offer + 1}
        /\ wpc' # "idle" => offer' = offer /\ hadRoom' = hadRoom
        /\ hadRoom' \in BOOLEAN
        /\ wpc' = "usenext" <=> blocks[tailBlock].next # frontBlock
    BY DEF tailBlock_, Core, Control
  <1>2. WriterInv(pos) /\ CircleInv(pos) /\ FillInv(pos, start)
    BY DEF Layout
  <1>3. offer <= N /\ offer \in 1 .. N + 1
    BY <1>1, <1>2 DEF WriterInv, Core, Control
  <1>4. /\ tailBlock \in Linked /\ frontBlock \in Linked /\ Links \in Int
        /\ pos[frontBlock] = 0 /\ pos[tailBlock] \in 0 .. Links - 1
    BY <1>2, LinkedAreBlocks DEF CircleInv
  <1>5. blocks[tailBlock].next # frontBlock <=> pos[tailBlock] < Links - 1
    <2>1. /\ blocks[tailBlock].next \in Linked
          /\ pos[blocks[tailBlock].next] =
                IF pos[tailBlock] = Links - 1 THEN 0 ELSE pos[tailBlock] + 1
          /\ \A b, d \in Linked : pos[b] = pos[d] => b = d
      BY <1>2, <1>4 DEF CircleInv
    <2> QED BY <1>4, <2>1
  <1>6. SeenFull
    BY <1>1 DEF SeenFull
  <1>7. wpc' # "usenext" => ~ hadRoom
    <2>1. CASE Links = 1
      BY <1>1, <1>2, <2>1 DEF WriterInv
    <2>2. CASE Links # 1 /\ wpc' # "usenext"
      <3>1. pos[tailBlock] = Links - 1 /\ Links > 1
        BY <1>1, <1>4, <1>5, <2>2
      <3>2. Count(tailBlock) = blocks[tailBlock].size - 1
        BY <1>2, <1>4, <1>6, <3>1 DEF WriterInv
      <3>3. Len(items) >= MaxSize
        BY <1>2, <3>1, <3>2, NoRoom
      <3>4. hadRoom => Len(items) < MaxSize
        BY <1>1, <1>2 DEF WriterInv
      <3> QED BY <3>3, <3>4, QueueAssumption DEF Core
    <2> QED BY <2>1, <2>2
  <1>8. WriterInv(pos)'
    BY <1>1, <1>2, <1>3, <1>5, <1>6, <1>7 DEF WriterInv, SeenFull, Inc, Links, Count
  <1>9. offer' \in 1 .. N + 1
    BY <1>1, <1>3, QueueAssumption
  <1> QED BY <1>1, <1>7, <1>8, <1>9, WriterMoves DEF Core, Control

LEMMA AllocateFailsStep ==
    ASSUME NEW pos, NEW start, Core, Layout(pos, start), AllocateFails
    PROVE  Core' /\ Layout(pos, start)' /\ alive' = alive /\ ~ hadRoom
  <1> USE DEF AllocateFails, Return
  <1>1. WriterInv(pos) /\ offer <= N /\ ~ hadRoom
    BY DEF Layout, WriterInv
  <1>2. WriterInv(pos)'
    BY <1>1 DEF WriterInv, SeenFull, Inc
  <1>3. offer' \in 1 .. N + 1 /\ hadRoom' \in BOOLEAN
    BY <1>1, QueueAssumption DEF Core, Control
  <1> QED BY <1>1, <1>2, <1>3, WriterMoves DEF Core, Control

\* The writer remembers the front index of a block.
LEMMA WriterLooks ==
    ASSUME NEW pos, NEW start, Core, Layout(pos, start),
           NEW t \in Linked, blocks' = [blocks EXCEPT ![t].localFront = blocks[t].front],
           UNCHANGED <<alive, items, reader, mode, offer, hadRoom, tailBlock, largestBlockSize>>,
           wpc \in {"reload", "usenext"}, wpc' \in {"construct", "full", "fillnext"}
    PROVE  /\ Core' /\ CircleInv(pos)' /\ FillInv(pos, start)' /\ SlotInv(pos, start)'
           /\ ReaderInv(pos)'
           /\ Links' = Links
           /\ \A b \in DOMAIN blocks :
                 /\ blocks'[b].size = blocks[b].size /\ blocks'[b].front = blocks[b].front
                 /\ blocks'[b].tail = blocks[b].tail /\ blocks'[b].next = blocks[b].next
                 /\ Count(b)' = Count(b)
           /\ blocks'[t].localFront = blocks[t].front
  <1>1. UNCHANGED <<rpc, op, frontBlock, nextBlock, held, inHand, result, hadData>>
    BY DEF reader
  <1>2. t \in DOMAIN blocks /\ blocks[t].front \in 0 .. blocks[t].size - 1
        /\ blocks[t].size \in Nat
    BY LinkedAreBlocks, View
  <1>3. /\ blocks' \in Seq(Block) /\ Len(blocks') = Len(blocks) /\ DOMAIN blocks' = DOMAIN blocks
        /\ \A b \in DOMAIN blocks :
              /\ blocks'[b].localFront = IF b = t THEN blocks[t].front ELSE blocks[b].localFront
              /\ blocks'[b].size = blocks[b].size /\ blocks'[b].front = blocks[b].front
              /\ blocks'[b].tail = blocks[b].tail
              /\ blocks'[b].localTail = blocks[b].localTail /\ blocks'[b].next = blocks[b].next
              /\ blocks'[b].data = blocks[b].data
    <2>1. blocks \in Seq(Block) /\ blocks[t].front \in Nat
      BY <1>2 DEF Core
    <2> QED BY <1>2, <2>1, SetLocalFront
  <1>4. Still
    BY <1>1, <1>3 DEF Still
  <1>5. \A b, i : ~ Built(b, i) /\ ~ Built(b, i)'
    BY DEF Built
  <1>6. CircleInv(pos)' /\ FillInv(pos, start)' /\ SizeInv' /\ Links' = Links
        /\ \A b \in DOMAIN blocks : Count(b)' = Count(b)
    BY <1>4, StillLayout DEF Layout
  <1>7. SlotInv(pos, start)'
    BY <1>1, <1>3, <1>4, <1>5, StillSlots DEF Layout
  <1>8. ReaderInv(pos)'
    <2>1. \A b \in DOMAIN blocks : Count(b) \in Nat
      BY View
    <2>2. frontBlock \in DOMAIN blocks
      BY DEF Core, Control
    <2> QED BY <1>1, <1>3, <1>6, <2>1, <2>2, ReaderStays
  <1>9. Control'
    BY <1>1, <1>3 DEF Core, Control
  <1>10. ASSUME NEW b \in DOMAIN blocks
         PROVE  BlockInv(b)'
    <2>1. BlockInv(b)
      BY DEF Core
    <2>2. Dist(blocks[t].size, blocks[t].front, blocks[t].front)
             <= Dist(blocks[t].size, blocks[t].front, blocks[t].tail)
      <3>1. blocks[t].tail \in 0 .. blocks[t].size - 1
        BY <1>2, View
      <3> QED BY <1>2, <3>1 DEF Dist
    <2>3. CASE b = t
      <3>1. /\ blocks'[b].size = blocks[b].size /\ blocks'[b].front = blocks[b].front
            /\ blocks'[b].tail = blocks[b].tail /\ blocks'[b].localTail = blocks[b].localTail
            /\ blocks'[b].next = blocks[b].next /\ blocks'[b].data = blocks[b].data
            /\ blocks'[b].localFront = blocks[b].front /\ DOMAIN blocks' = DOMAIN blocks
        BY <1>3, <2>3
      <3>2. Count(b)' = Count(b)
        BY <1>6
      <3>3. blocks[b].front < blocks[b].size
        BY <1>2, <2>3
      <3> QED BY <2>1, <2>2, <2>3, <3>1, <3>2, <3>3 DEF BlockInv
    <2>4. CASE b # t
      BY <1>3, <1>6, <2>1, <2>4 DEF BlockInv
    <2> QED BY <2>3, <2>4
  <1> QED BY <1>2, <1>3, <1>6, <1>7, <1>8, <1>9, <1>10 DEF Core

LEMMA ReloadFrontStep ==
    ASSUME NEW pos, NEW start, Core, Layout(pos, start), ReloadFront
    PROVE  Core' /\ Layout(pos, start)' /\ alive' = alive
  <1> DEFINE B == blocks[tailBlock]
  <1>1. /\ wpc = "reload" /\ wpc' \in {"construct", "full"}
        /\ wpc' = "construct" <=> Inc(tailBlock, B.tail) # B.front
        /\ blocks' = [blocks EXCEPT ![tailBlock].localFront = blocks[tailBlock].front]
        /\ UNCHANGED <<alive, items, reader, mode, offer, hadRoom, tailBlock, largestBlockSize>>
    BY DEF ReloadFront, tailBlock_
  <1>2. tailBlock \in Linked /\ tailBlock \in DOMAIN blocks
    BY LinkedAreBlocks DEF Layout, CircleInv
  <1>3. /\ Core' /\ CircleInv(pos)' /\ FillInv(pos, start)' /\ SlotInv(pos, start)'
        /\ ReaderInv(pos)'
        /\ Links' = Links
        /\ \A b \in DOMAIN blocks :
              /\ blocks'[b].size = blocks[b].size /\ blocks'[b].front = blocks[b].front
              /\ blocks'[b].tail = blocks[b].tail /\ blocks'[b].next = blocks[b].next
              /\ Count(b)' = Count(b)
        /\ blocks'[tailBlock].localFront = blocks[tailBlock].front
    BY <1>1, <1>2, WriterLooks
  <1>4. wpc' = "full" => Count(tailBlock) = B.size - 1
    BY <1>1, <1>2, View, DistStep DEF Count
  <1>5. wpc' = "full" /\ Links = 1 => ~ hadRoom
    <2> SUFFICES ASSUME wpc' = "full", Links = 1, hadRoom
                 PROVE  FALSE
      OBVIOUS
    <2>1. Len(items) < MaxSize
      BY <1>1 DEF Layout, WriterInv
    <2>2. start[tailBlock] \in Nat /\ start[tailBlock] + Count(tailBlock) = Len(items)
      BY <1>2 DEF Layout, FillInv
    <2>3. B.size > MaxSize
      BY <1>2 DEF Core, SizeInv
    <2>4. B.size \in Nat
      BY <1>2, View
    <2> QED BY <1>4, <2>1, <2>2, <2>3, <2>4, QueueAssumption
  <1>6. WriterInv(pos)'
    <2>1. WriterInv(pos)
      BY DEF Layout
    <2>2. wpc' = "construct" =>
              blocks'[tailBlock].localFront # Inc(tailBlock, blocks[tailBlock].tail)'
      BY <1>1, <1>2, <1>3 DEF Inc
    <2>3. wpc' = "full" => Count(tailBlock)' = blocks'[tailBlock].size - 1
      BY <1>1, <1>2, <1>3, <1>4
    <2> QED BY <1>1, <1>3, <1>5, <2>1, <2>2, <2>3 DEF WriterInv, SeenFull
  <1> QED BY <1>1, <1>3, <1>6 DEF Layout

LEMMA UseNextStep ==
    ASSUME NEW pos, NEW start, Core, Layout(pos, start), UseNext
    PROVE  Core' /\ Layout(pos, start)' /\ alive' = alive
  <1> DEFINE t == blocks[tailBlock].next
  <1>1. /\ wpc = "usenext" /\ wpc' = "fillnext"
        /\ blocks' = [blocks EXCEPT ![t].localFront = blocks[t].front]
        /\ UNCHANGED <<alive, items, reader, mode, offer, hadRoom, tailBlock, largestBlockSize>>
    BY DEF UseNext, tailBlock_
  <1>2. tailBlock \in Linked /\ tailBlock \in DOMAIN blocks /\ t \in Linked /\ t \in DOMAIN blocks
    BY LinkedAreBlocks DEF Layout, CircleInv
  <1> HIDE DEF t
  <1>3. /\ Core' /\ CircleInv(pos)' /\ FillInv(pos, start)' /\ SlotInv(pos, start)'
        /\ ReaderInv(pos)'
        /\ Links' = Links
        /\ \A b \in DOMAIN blocks :
              /\ blocks'[b].size = blocks[b].size /\ blocks'[b].front = blocks[b].front
              /\ blocks'[b].tail = blocks[b].tail /\ blocks'[b].next = blocks[b].next
              /\ Count(b)' = Count(b)
        /\ blocks'[t].localFront = blocks[t].front
    BY <1>1, <1>2, WriterLooks
  <1>4. WriterInv(pos)'
    <2>1. WriterInv(pos) /\ SeenFull
      BY <1>1 DEF Layout, SeenFull
    <2>2. blocks'[tailBlock'].next = t
      BY <1>1, <1>2, <1>3 DEF t
    <2>3. blocks'[t].localFront = blocks'[t].front
      BY <1>2, <1>3
    <2>4. 0 < pos[tailBlock] => Count(tailBlock)' = blocks'[tailBlock].size - 1
      BY <1>1, <1>2, <1>3, <2>1 DEF WriterInv
    <2> QED BY <1>1, <1>3, <2>1, <2>2, <2>3, <2>4 DEF WriterInv
  <1> QED BY <1>1, <1>3, <1>4 DEF Layout

LEMMA SetSlot ==
    ASSUME NEW S, NEW T, NEW f \in [S -> T], NEW j, NEW x \in T
    PROVE  [f EXCEPT ![j] = x] \in [S -> T]
  OBVIOUS

LEMMA OfferIsDatum ==
    ASSUME Core
    PROVE  offer \in Datum
  <1>1. N \in Nat
    BY QueueAssumption
  <1>2. offer \in 1 .. N + 1
    BY DEF Core, Control
  <1> QED BY <1>1, <1>2 DEF Datum

\* The writer builds its element behind the last one of a block.
LEMMA WriterBuilds ==
    ASSUME NEW pos, NEW start, Core, Layout(pos, start),
           NEW t \in Linked, NEW j, j = blocks[t].tail,
           blocks' = [blocks EXCEPT ![t].data[j] = offer],
           UNCHANGED <<alive, items, reader, mode, offer, hadRoom, tailBlock, largestBlockSize>>,
           \/ wpc = "construct" /\ wpc' = "publish" /\ t = tailBlock
           \/ wpc = "fillnext" /\ wpc' = "publishnext" /\ t = blocks[tailBlock].next
    PROVE  Core' /\ Layout(pos, start)' /\ alive' = alive
  <1>1. UNCHANGED <<rpc, op, frontBlock, nextBlock, held, inHand, result, hadData>>
    BY DEF reader
  <1>2. /\ t \in DOMAIN blocks /\ tailBlock \in DOMAIN blocks /\ frontBlock \in DOMAIN blocks
        /\ Linked \subseteq DOMAIN blocks
    BY LinkedAreBlocks DEF Core, Control
  <1>3. /\ blocks[t].tail \in 0 .. blocks[t].size - 1 /\ blocks[t].size \in Nat
        /\ blocks[t].data \in [0 .. blocks[t].size - 1 -> Datum]
    BY <1>2, View
  <1>4. /\ blocks' \in Seq(Block) /\ Len(blocks') = Len(blocks) /\ DOMAIN blocks' = DOMAIN blocks
        /\ \A b \in DOMAIN blocks :
              /\ blocks'[b].data =
                    IF b = t THEN [blocks[t].data EXCEPT ![j] = offer] ELSE blocks[b].data
              /\ blocks'[b].size = blocks[b].size /\ blocks'[b].front = blocks[b].front
              /\ blocks'[b].tail = blocks[b].tail
              /\ blocks'[b].localFront = blocks[b].localFront /\ blocks'[b].localTail = blocks[b].localTail
              /\ blocks'[b].next = blocks[b].next
    <2>1. blocks \in Seq(Block) /\ offer \in Datum /\ j \in DOMAIN blocks[t].data
      BY <1>3, OfferIsDatum DEF Core
    <2>2. blocks' = [blocks EXCEPT ![t].data[j] = offer] /\ t \in DOMAIN blocks
      BY <1>2
    <2> QED BY ONLY <2>1, <2>2, SetData, ZenonT(60)
  <1>5. Still
    BY <1>1, <1>4 DEF Still
  <1>6. /\ CircleInv(pos)' /\ FillInv(pos, start)' /\ SizeInv' /\ Links' = Links /\ Linked' = Linked
        /\ \A b \in DOMAIN blocks : Count(b)' = Count(b) /\ \A i : Place(b, i)' = Place(b, i)
    BY <1>5, StillLayout DEF Layout
  <1>7. SlotInv(pos, start)'
    <2> SUFFICES ASSUME NEW b \in Linked, NEW i \in 0 .. blocks[b].size - 1
                 PROVE  blocks'[b].data[i] =
                           IF Place(b, i) < Count(b) /\ pos[b] <= pos[tailBlock]
                           THEN IF b = frontBlock /\ i = blocks[b].front /\ rpc = "release" THEN Raw
                                ELSE items[start[b] + Place(b, i) + 1]
                           ELSE IF Built(b, i)' THEN offer ELSE Raw
      BY <1>1, <1>2, <1>4, <1>6 DEF SlotInv
    <2>1. ~ Built(b, i)
      BY DEF Built
    <2>2. Built(b, i)' <=> b = t /\ i = blocks[t].tail
      BY <1>2, <1>4 DEF Built
    <2>3. CASE b = t /\ i = blocks[t].tail
      <3>1. ~ (Place(b, i) < Count(b))
        <4>1. Place(b, i) = Count(b)
          BY <2>3 DEF Place, Count
        <4>2. Count(b) \in Int
          BY <1>2, View
        <4> QED BY <4>1, <4>2
      <3>2. blocks'[b].data[i] = offer
        <4>1. blocks'[t].data = [blocks[t].data EXCEPT ![j] = offer]
          BY ONLY <1>2, <1>4, Zenon
        <4> QED BY <1>3, <2>3, <4>1
      <3> QED BY <2>2, <2>3, <3>1, <3>2
    <2>4. CASE ~ (b = t /\ i = blocks[t].tail)
      <3>1. blocks'[b].data[i] = blocks[b].data[i]
        BY <1>2, <1>3, <1>4, <2>4
      <3> QED BY <2>1, <2>2, <2>4, <3>1 DEF Layout, SlotInv
    <2> QED BY <2>3, <2>4
  <1>8. ReaderInv(pos)'
    <2>1. \A b \in DOMAIN blocks : Count(b) \in Nat
      BY View
    <2> QED BY <1>1, <1>2, <1>4, <1>6, <2>1, ReaderStays
  <1>9. Control'
    BY <1>1, <1>4 DEF Core, Control
  <1>10. ASSUME NEW b \in DOMAIN blocks
         PROVE  BlockInv(b)'
    <2>1. BlockInv(b)
      BY DEF Core
    <2>2. blocks'[b].data \in [0 .. blocks[b].size - 1 -> Datum]
      <3>1. offer \in Datum /\ blocks[b].data \in [0 .. blocks[b].size - 1 -> Datum]
        BY View, OfferIsDatum
      <3>2. CASE b = t
        <4>1. blocks'[b].data = [blocks[b].data EXCEPT ![j] = offer]
          BY <1>4, <3>2
        <4>2. [blocks[b].data EXCEPT ![j] = offer] \in [0 .. blocks[b].size - 1 -> Datum]
          BY ONLY <3>1, SetSlot
        <4> QED BY ONLY <4>1, <4>2, Zenon
      <3>3. CASE b # t
        BY <1>4, <3>1, <3>3
      <3> QED BY <3>2, <3>3
    <2> QED BY <1>4, <1>6, <2>1, <2>2 DEF BlockInv
  <1>11. WriterInv(pos)'
    <2>1. WriterInv(pos)
      BY DEF Layout
    <2>2. /\ blocks'[tailBlock'].next = blocks[tailBlock].next
          /\ blocks[tailBlock].next \in DOMAIN blocks
          /\ Count(tailBlock)' = Count(tailBlock)
          /\ blocks'[tailBlock].size = blocks[tailBlock].size
          /\ Inc(tailBlock, blocks[tailBlock].tail)' = Inc(tailBlock, blocks[tailBlock].tail)
          /\ blocks'[tailBlock].localFront = blocks[tailBlock].localFront
      BY <1>2, <1>4, <1>6, View DEF Inc
    <2>3. LET next == blocks[tailBlock].next IN
          blocks'[next].localFront = blocks[next].localFront /\ blocks'[next].front = blocks[next].front
      BY <1>4, <2>2
    <2> QED BY <1>6, <2>1, <2>2, <2>3 DEF WriterInv, SeenFull
  <1> QED BY <1>4, <1>6, <1>7, <1>8, <1>9, <1>10, <1>11 DEF Core, Layout

LEMMA ConstructStep ==
    ASSUME NEW pos, NEW start, Core, Layout(pos, start), Construct
    PROVE  Core' /\ Layout(pos, start)' /\ alive' = alive
  <1>1. tailBlock \in Linked
    BY DEF Layout, CircleInv
  <1>2. PICK j : j = blocks[tailBlock].tail
    OBVIOUS
  <1>3. blocks' = [blocks EXCEPT ![tailBlock].data[j] = offer]
    BY <1>2, Zenon DEF Construct, tailBlock_
  <1>4. /\ UNCHANGED <<alive, items, reader, mode, offer, hadRoom, tailBlock, largestBlockSize>>
        /\ wpc = "construct" /\ wpc' = "publish"
    BY Zenon DEF Construct
  <1> QED BY ONLY <1>1, <1>2, <1>3, <1>4, Core, Layout(pos, start), WriterBuilds

LEMMA FillNextStep ==
    ASSUME NEW pos, NEW start, Core, Layout(pos, start), FillNext
    PROVE  Core' /\ Layout(pos, start)' /\ alive' = alive
  <1>1. PICK t : t = blocks[tailBlock].next
    OBVIOUS
  <1>2. t \in Linked
    BY <1>1 DEF Layout, CircleInv
  <1>3. PICK j : j = blocks[t].tail
    OBVIOUS
  <1>4. blocks' = [blocks EXCEPT ![t].data[j] = offer]
    BY <1>1, <1>3, Zenon DEF FillNext, tailBlock_
  <1>5. /\ UNCHANGED <<alive, items, reader, mode, offer, hadRoom, tailBlock, largestBlockSize>>
        /\ wpc = "fillnext" /\ wpc' = "publishnext"
    BY Zenon DEF FillNext
  <1> QED BY ONLY <1>1, <1>2, <1>3, <1>4, <1>5, Core, Layout(pos, start), WriterBuilds

\* The writer moves the tail index on: the block holds one element more.
TailMoved(t, x) ==
    /\ blocks' \in Seq(Block) /\ Len(blocks') = Len(blocks) /\ DOMAIN blocks' = DOMAIN blocks
    /\ \A b \in DOMAIN blocks :
          /\ blocks'[b].tail = IF b = t THEN x ELSE blocks[b].tail
          /\ blocks'[b].size = blocks[b].size /\ blocks'[b].front = blocks[b].front
          /\ blocks'[b].localFront = blocks[b].localFront
          /\ blocks'[b].localTail = blocks[b].localTail /\ blocks'[b].next = blocks[b].next
          /\ blocks'[b].data = blocks[b].data
    /\ \A b \in DOMAIN blocks : Count(b)' = IF b = t THEN Count(t) + 1 ELSE Count(b)
    /\ \A b \in DOMAIN blocks : \A i : Place(b, i)' = Place(b, i)
    /\ \A b \in DOMAIN blocks : BlockInv(b)'

LEMMA TailMoves ==
    ASSUME Core, NEW t \in DOMAIN blocks, NEW x, x = Inc(t, blocks[t].tail),
           blocks' = [blocks EXCEPT ![t].tail = x],
           blocks[t].localFront # x
    PROVE  TailMoved(t, x)
  <1> DEFINE s == blocks[t].size
             f == blocks[t].front
             e == blocks[t].tail
             lf == blocks[t].localFront
             lt == blocks[t].localTail
  <1>1. /\ s \in Nat /\ s >= 2 /\ f \in 0 .. s - 1 /\ e \in 0 .. s - 1 /\ lf \in 0 .. s - 1
        /\ lt \in 0 .. s - 1
        /\ x = Succ(s, e) /\ x \in 0 .. s - 1
    BY View
  <1>2. BlockInv(t)
    BY DEF Core
  <1>3. Dist(s, lf, f) <= Dist(s, lf, e) /\ Dist(s, f, lt) <= Dist(s, f, e)
    BY <1>2 DEF BlockInv, Count
  <1>4. blocks \in Seq(Block) /\ x \in Nat
    BY <1>1 DEF Core
  <1>5. /\ blocks' \in Seq(Block) /\ Len(blocks') = Len(blocks) /\ DOMAIN blocks' = DOMAIN blocks
        /\ \A b \in DOMAIN blocks :
              /\ blocks'[b].tail = IF b = t THEN x ELSE blocks[b].tail
              /\ blocks'[b].size = blocks[b].size /\ blocks'[b].front = blocks[b].front
              /\ blocks'[b].localFront = blocks[b].localFront
              /\ blocks'[b].localTail = blocks[b].localTail /\ blocks'[b].next = blocks[b].next
              /\ blocks'[b].data = blocks[b].data
    BY <1>4, SetTail
  <1>6. /\ x # f /\ x # lf
        /\ Dist(s, f, x) = Dist(s, f, e) + 1 /\ Dist(s, lf, x) = Dist(s, lf, e) + 1
        /\ Dist(s, f, e) \in Nat /\ Dist(s, lf, e) \in Nat
        /\ Dist(s, f, lt) \in Nat /\ Dist(s, lf, f) \in Nat
    <2> HIDE DEF s, f, e, lf, lt
    <2>1. x # lf
      BY DEF lf
    <2>2. Dist(s, lf, x) = Dist(s, lf, e) + 1
      BY <1>1, <2>1, DistStep
    <2>3. /\ Dist(s, f, e) \in Nat /\ Dist(s, lf, e) \in Nat /\ Dist(s, f, lt) \in Nat
          /\ Dist(s, lf, f) \in Nat
      BY <1>1, DistFacts
    <2>4. x # f
      <3> SUFFICES ASSUME x = f PROVE FALSE
        OBVIOUS
      <3>1. Dist(s, lf, f) = Dist(s, lf, e) + 1
        BY <2>2
      <3> QED BY <1>3, <2>3, <3>1
    <2>5. Dist(s, f, x) = Dist(s, f, e) + 1
      BY <1>1, <2>4, DistStep
    <2> QED BY <2>1, <2>2, <2>3, <2>4, <2>5
  <1>7. ASSUME NEW b \in DOMAIN blocks
        PROVE  /\ Count(b)' = IF b = t THEN Count(t) + 1 ELSE Count(b)
               /\ \A i : Place(b, i)' = Place(b, i)
    <2>1. Count(b)' = IF b = t THEN Count(t) + 1 ELSE Count(b)
      BY <1>5, <1>6 DEF Count
    <2>2. \A i : Place(b, i)' = Place(b, i)
      BY <1>5 DEF Place
    <2> QED BY <2>1, <2>2
  <1>8. ASSUME NEW b \in DOMAIN blocks
        PROVE  BlockInv(b)'
    <2>1. CASE b # t
      <3>1. BlockInv(b) /\ Count(b)' = Count(b)
        BY <1>7, <2>1 DEF Core
      <3> QED BY <1>5, <2>1, <3>1 DEF BlockInv
    <2>2. CASE b = t
      <3>1. /\ blocks'[t].size = s /\ blocks'[t].front = f /\ blocks'[t].tail = x
            /\ blocks'[t].localFront = lf /\ blocks'[t].localTail = lt
            /\ blocks'[t].next = blocks[t].next /\ blocks'[t].data = blocks[t].data
            /\ Count(t)' = Dist(s, f, e) + 1
        <4>1. Count(t)' = Count(t) + 1
          BY <1>7
        <4> QED BY <1>5, <4>1 DEF Count
      <3>2. s >= 2 /\ f < s /\ x < s /\ lf < s /\ lt < s
        BY <1>1
      <3>3. blocks[t].next \in DOMAIN blocks' /\ blocks[t].data \in [0 .. s - 1 -> Datum]
        BY <1>2, <1>5 DEF BlockInv
      <3>4. Dist(s, lf, f) <= Dist(s, lf, x) /\ Dist(s, f, lt) <= Dist(s, f, e) + 1
        BY <1>3, <1>6
      <3> HIDE DEF s, f, e, lf, lt
      <3> QED BY <2>2, <3>1, <3>2, <3>3, <3>4 DEF BlockInv
    <2> QED BY <2>1, <2>2
  <1> QED BY <1>5, <1>7, <1>8 DEF TailMoved

LEMMA Slot ==
    ASSUME Core, NEW b \in Linked, NEW i \in 0 .. blocks[b].size - 1
    PROVE  /\ Place(b, i) \in Nat /\ Count(b) \in Nat
           /\ Place(b, i) < blocks[b].size /\ Count(b) < blocks[b].size
           /\ Place(b, i) = Count(b) <=> i = blocks[b].tail
           /\ Place(b, i) = 0 <=> i = blocks[b].front
  <1>1. b \in DOMAIN blocks
    BY LinkedAreBlocks
  <1>2. blocks[b].size \in Nat /\ Count(b) \in 0 .. blocks[b].size - 1
    BY <1>1, View
  <1>3. /\ Place(b, i) \in 0 .. blocks[b].size - 1
        /\ Place(b, i) = 0 <=> i = blocks[b].front
        /\ Place(b, i) = Count(b) <=> i = blocks[b].tail
    BY <1>1, View
  <1> QED BY <1>2, <1>3

LEMMA PublishStep ==
    ASSUME NEW pos, NEW start, Core, Layout(pos, start), Publish
    PROVE  Core' /\ Layout(pos, start)' /\ alive' = alive /\ items' = Append(items, offer)
  <1>1. PICK t : t = tailBlock
    OBVIOUS
  <1>2. PICK x : x = Inc(t, blocks[t].tail)
    OBVIOUS
  <1>3. blocks' = [blocks EXCEPT ![t].tail = x]
    BY <1>1, <1>2 DEF Publish
  <1>4. /\ wpc = "publish" /\ wpc' = "idle" /\ offer' = offer + 1 /\ hadRoom' = TRUE
        /\ items' = Append(items, offer)
        /\ UNCHANGED <<alive, reader, mode, tailBlock, largestBlockSize>>
    BY DEF Publish, Return
  <1>5. UNCHANGED <<rpc, op, frontBlock, nextBlock, held, inHand, result, hadData>>
    BY <1>4 DEF reader
  <1>6. /\ CircleInv(pos) /\ FillInv(pos, start) /\ SlotInv(pos, start)
        /\ WriterInv(pos) /\ ReaderInv(pos)
    BY DEF Layout
  <1>7. /\ Linked \subseteq DOMAIN blocks /\ t \in Linked /\ frontBlock \in Linked
        /\ pos[frontBlock] = 0 /\ Links \in Int
    BY <1>1, <1>6, LinkedAreBlocks DEF CircleInv
  <1>8. blocks[t].localFront # x
    BY <1>1, <1>2, <1>4, <1>6 DEF WriterInv
  <1>9. t \in DOMAIN blocks
    BY <1>7
  <1>10. TailMoved(t, x)
    BY ONLY <1>2, <1>3, <1>8, <1>9, Core, TailMoves
  <1>11. /\ Links' = Links /\ Linked' = Linked
         /\ tailBlock' = t
    <2>1. Links' = Links
      BY <1>4, <1>10 DEF Links, TailMoved
    <2> QED BY <1>1, <1>4, <2>1 DEF Linked
  <1>12. \A b \in DOMAIN blocks : Count(b) \in Nat
    BY View
  <1>13. /\ offer \in Nat /\ offer + 1 \in 1 .. N + 1 /\ items \in Seq(Nat)
    <2>1. N \in Nat /\ offer \in 1 .. N + 1 /\ offer <= N
      BY <1>4, <1>6, QueueAssumption DEF Core, Control, WriterInv
    <2> QED BY <2>1 DEF Core
  <1>14. /\ items' \in Seq(Nat) /\ Len(items') = Len(items) + 1 /\ items'[Len(items) + 1] = offer
         /\ \A k \in 1 .. Len(items) : items'[k] = items[k]
    BY <1>4, <1>13
  <1>15. CircleInv(pos)'
    <2>1. \A b \in Linked : blocks'[b].next = blocks[b].next
      BY <1>7, <1>10 DEF TailMoved
    <2> QED BY <1>4, <1>5, <1>6, <1>11, <2>1 DEF CircleInv
  <1>16. \A b \in Linked : pos[b] \in Nat /\ start[b] \in Nat
    BY <1>6 DEF CircleInv, FillInv
  <1>17. FillInv(pos, start)'
    <2>1. start[t] + Count(t)' = Len(items)'
      <3>1. start[t] + Count(t) = Len(items)
        BY <1>1, <1>6 DEF FillInv
      <3>2. Count(t)' = Count(t) + 1 /\ Count(t) \in Nat /\ start[t] \in Nat
        BY <1>7, <1>9, <1>10, <1>12, <1>16 DEF TailMoved
      <3>3. Len(items)' = Len(items) + 1
        BY <1>14
      <3> QED BY ONLY <3>1, <3>2, <3>3
    <2>2. ASSUME NEW b \in Linked
          PROVE  /\ pos[b] < pos[t] => start[blocks'[b].next] = start[b] + Count(b)'
                 /\ 0 < pos[b] /\ pos[b] <= pos[t] => Count(b)' > 0
                 /\ 0 < pos[b] /\ pos[b] < pos[t] => Count(b)' = blocks'[b].size - 1
                 /\ pos[t] < pos[b] => Count(b)' = 0
      <3>1. b \in DOMAIN blocks
        BY <1>7
      <3>2. blocks'[b].next = blocks[b].next /\ blocks'[b].size = blocks[b].size
            /\ Count(b)' = (IF b = t THEN Count(b) + 1 ELSE Count(b))
            /\ Count(b) \in Nat /\ pos[b] \in Nat /\ pos[t] \in Nat
        BY <1>7, <1>10, <1>12, <1>16, <3>1 DEF TailMoved
      <3> QED BY <1>1, <1>4, <1>6, <3>2 DEF FillInv
    <2>3. ASSUME NEW b \in Linked, NEW d \in Linked, pos[b] < pos[d] /\ pos[d] <= pos[t]
          PROVE  start[b] + Count(b)' <= start[d]
      <3>1. Count(b)' = Count(b)
        BY <1>7, <1>10, <1>16, <2>3 DEF TailMoved
      <3> QED BY <1>1, <1>6, <2>3, <3>1 DEF FillInv
    <2>4. start \in [Linked -> Nat] /\ start[frontBlock] = 0
      BY <1>6 DEF FillInv
    <2>5. ~ (wpc' = "advance")
      BY <1>4
    <2> QED BY <1>5, <1>11, <2>1, <2>2, <2>3, <2>4, <2>5 DEF FillInv
  <1>18. SlotInv(pos, start)'
    <2> SUFFICES ASSUME NEW b \in Linked, NEW i \in 0 .. blocks[b].size - 1
                 PROVE  blocks[b].data[i] =
                           IF Place(b, i) < Count(b)' /\ pos[b] <= pos[t]
                           THEN IF b = frontBlock /\ i = blocks[b].front /\ rpc = "release" THEN Raw
                                ELSE items'[start[b] + Place(b, i) + 1]
                           ELSE Raw
      <3>1. ~ \E b, i : Built(b, i)'
        BY <1>4 DEF Built
      <3>2. \A b \in Linked : /\ blocks'[b].size = blocks[b].size /\ blocks'[b].front = blocks[b].front
                              /\ blocks'[b].data = blocks[b].data
                              /\ \A i : Place(b, i)' = Place(b, i)
        BY <1>7, <1>10 DEF TailMoved
      <3> QED BY <1>5, <1>11, <3>1, <3>2 DEF SlotInv
    <2>1. blocks[b].data[i] =
              IF Place(b, i) < Count(b) /\ pos[b] <= pos[t]
              THEN IF b = frontBlock /\ i = blocks[b].front /\ rpc = "release" THEN Raw
                   ELSE items[start[b] + Place(b, i) + 1]
              ELSE IF Built(b, i) THEN offer ELSE Raw
      BY <1>1, <1>6 DEF SlotInv
    <2>2. Place(b, i) \in Nat /\ (Place(b, i) = Count(b) <=> i = blocks[b].tail)
          /\ (Place(b, i) = 0 <=> i = blocks[b].front)
          /\ Count(b) \in Nat
      BY Slot
    <2>3. Built(b, i) <=> b = t /\ i = blocks[b].tail
      BY <1>1, <1>4 DEF Built
    <2>4. CASE b = t /\ i = blocks[b].tail
      <3>1. blocks[b].data[i] = offer
        BY <2>1, <2>2, <2>3, <2>4
      <3>2. Place(b, i) < Count(b)'
        BY <1>9, <1>10, <2>2, <2>4 DEF TailMoved
      <3>3. items'[start[b] + Place(b, i) + 1] = offer
        <4>1. start[t] + Count(t) = Len(items)
          BY <1>1, <1>6 DEF FillInv
        <4> QED BY <1>14, <2>2, <2>4, <4>1
      <3>4. ~ (b = frontBlock /\ i = blocks[b].front /\ rpc = "release")
        <4>1. rpc = "release" => Count(frontBlock) > 0
          BY ReaderAt
        <4> QED BY <2>2, <2>4, <4>1
      <3>5. pos[b] <= pos[t]
        BY <1>7, <1>16, <2>4
      <3> QED BY <3>1, <3>2, <3>3, <3>4, <3>5
    <2>5. CASE ~ (b = t /\ i = blocks[b].tail)
      <3>1. Place(b, i) < Count(b)' <=> Place(b, i) < Count(b)
        BY <1>7, <1>10, <2>2, <2>5 DEF TailMoved
      <3>2. Place(b, i) < Count(b) /\ pos[b] <= pos[t] =>
                items'[start[b] + Place(b, i) + 1] = items[start[b] + Place(b, i) + 1]
        <4>1. pos[b] <= pos[t] => start[b] + Count(b) <= Len(items)
          BY <1>1, <1>6, Bounds
        <4>2. start[b] \in Nat /\ Len(items) \in Nat
          BY <1>13, <1>16
        <4>3. Place(b, i) < Count(b) /\ pos[b] <= pos[t] =>
                  start[b] + Place(b, i) + 1 \in 1 .. Len(items)
          BY <2>2, <4>1, <4>2
        <4> QED BY <1>14, <4>3
      <3>3. ~ Built(b, i)
        BY <2>3, <2>5
      <3> QED BY <2>1, <3>1, <3>2, <3>3
    <2> QED BY <2>4, <2>5
  <1>19. WriterInv(pos)'
    BY <1>4 DEF WriterInv, SeenFull
  <1>20. ReaderInv(pos)'
    <2>1. \A b \in DOMAIN blocks :
              /\ blocks'[b].front = blocks[b].front /\ blocks'[b].localTail = blocks[b].localTail
              /\ Count(b)' \in Nat /\ Count(b)' >= Count(b)
      BY <1>10, <1>12 DEF TailMoved
    <2>2. 0 < pos[tailBlock] =>
              /\ Count(frontBlock)' = Count(frontBlock) /\ 0 < pos[tailBlock']
              /\ blocks'[frontBlock].next = blocks[frontBlock].next
      <3> SUFFICES ASSUME 0 < pos[tailBlock]
                   PROVE  /\ Count(frontBlock)' = Count(frontBlock) /\ 0 < pos[tailBlock']
                          /\ blocks'[frontBlock].next = blocks[frontBlock].next
        OBVIOUS
      <3>1. frontBlock # t /\ frontBlock \in DOMAIN blocks /\ tailBlock' = tailBlock
            /\ frontBlock' = frontBlock
        BY <1>1, <1>4, <1>5, <1>7
      <3>2. Count(frontBlock)' = Count(frontBlock)
        BY <1>10, <3>1 DEF TailMoved
      <3>3. blocks'[frontBlock].next = blocks[frontBlock].next
        BY <1>10, <3>1 DEF TailMoved
      <3>4. 0 < pos[tailBlock']
        BY <3>1
      <3> QED BY <3>2, <3>3, <3>4
    <2>3. \E v \in Nat : items' = Append(items, v)
      BY <1>4, <1>13
    <2> QED BY <1>4, <2>1, <2>2, <2>3, ReaderStays
  <1>21. Control'
    BY <1>4, <1>5, <1>10, <1>13 DEF Core, Control, TailMoved
  <1>22. SizeInv'
    BY <1>4, <1>10, <1>11 DEF Core, SizeInv, TailMoved
  <1> QED BY <1>4, <1>10, <1>14, <1>15, <1>17, <1>18, <1>19, <1>20, <1>21, <1>22
           DEF Core, Layout, TailMoved

LEMMA PublishNextStep ==
    ASSUME NEW pos, NEW start, Core, Layout(pos, start), PublishNext
    PROVE  Core' /\ Layout(pos, start)' /\ alive' = alive
  <1>1. PICK t : t = blocks[tailBlock].next
    OBVIOUS
  <1>2. PICK x : x = Inc(t, blocks[t].tail)
    OBVIOUS
  <1>3. blocks' = [blocks EXCEPT ![t].tail = x]
    BY <1>1, <1>2 DEF PublishNext, tailBlock_
  <1>4. /\ wpc = "publishnext" /\ wpc' = "advance"
        /\ UNCHANGED <<alive, items, reader, mode, offer, hadRoom, tailBlock, largestBlockSize>>
    BY DEF PublishNext
  <1>5. UNCHANGED <<rpc, op, frontBlock, nextBlock, held, inHand, result, hadData>>
    BY <1>4 DEF reader
  <1>6. /\ CircleInv(pos) /\ FillInv(pos, start) /\ SlotInv(pos, start)
        /\ WriterInv(pos) /\ ReaderInv(pos)
    BY DEF Layout
  <1>7. /\ Linked \subseteq DOMAIN blocks /\ tailBlock \in Linked /\ frontBlock \in Linked
        /\ pos[frontBlock] = 0 /\ Links \in Int
    BY <1>6, LinkedAreBlocks DEF CircleInv
  <1>8. \A b \in Linked : pos[b] \in Nat /\ start[b] \in Nat /\ Count(b) \in Nat
    BY <1>6, <1>7, View DEF CircleInv, FillInv
  <1>9. t \in Linked /\ t \in DOMAIN blocks /\ pos[t] = pos[tailBlock] + 1
    <2>1. pos[tailBlock] < Links - 1
      BY <1>4, <1>6 DEF WriterInv
    <2>2. t \in Linked /\ pos[t] = IF pos[tailBlock] = Links - 1 THEN 0 ELSE pos[tailBlock] + 1
      BY <1>1, <1>6, <1>7 DEF CircleInv
    <2> QED BY <1>7, <1>8, <2>1, <2>2
  <1>10. t # tailBlock /\ t # frontBlock /\ pos[tailBlock] < pos[t]
    BY <1>7, <1>8, <1>9
  <1>11. Count(t) = 0 /\ blocks[t].front = blocks[t].tail
    <2>1. Count(t) = 0
      BY <1>4, <1>6, <1>9, <1>10 DEF FillInv
    <2> QED BY <1>9, <2>1, View
  <1>12. blocks[t].localFront # x
    <2>1. blocks[t].localFront = blocks[t].tail
      BY <1>1, <1>4, <1>6, <1>11 DEF WriterInv
    <2>2. /\ x = Succ(blocks[t].size, blocks[t].tail) /\ blocks[t].size \in Nat
          /\ blocks[t].size >= 2
          /\ blocks[t].tail \in 0 .. blocks[t].size - 1
      BY <1>2, <1>9, View
    <2> QED BY <2>1, <2>2 DEF Succ
  <1>13. TailMoved(t, x)
    BY ONLY <1>2, <1>3, <1>9, <1>12, Core, TailMoves
  <1>14. Links' = Links /\ Linked' = Linked
    <2>1. Links' = Links
      BY <1>4, <1>13 DEF Links, TailMoved
    <2> QED BY <2>1 DEF Linked
  <1>15. /\ \A b \in Linked :
                /\ blocks'[b].next = blocks[b].next /\ blocks'[b].size = blocks[b].size
                /\ blocks'[b].front = blocks[b].front /\ blocks'[b].data = blocks[b].data
                /\ Count(b)' = IF b = t THEN 1 ELSE Count(b)
                /\ \A i : Place(b, i)' = Place(b, i)
         /\ tailBlock' = tailBlock /\ frontBlock' = frontBlock
    BY <1>4, <1>5, <1>7, <1>11, <1>13 DEF TailMoved
  <1>16. CircleInv(pos)'
    BY <1>6, <1>14, <1>15 DEF CircleInv
  <1>17. FillInv(pos, start)'
    <2>1. start[tailBlock] + Count(tailBlock)' = Len(items)
      <3>1. Count(tailBlock)' = Count(tailBlock)
        BY <1>7, <1>10, <1>15
      <3> QED BY <1>6, <3>1 DEF FillInv
    <2>2. ASSUME NEW b \in Linked
          PROVE  /\ pos[b] < pos[tailBlock] => start[blocks'[b].next] = start[b] + Count(b)'
                 /\ 0 < pos[b] /\ pos[b] <= pos[tailBlock] => Count(b)' > 0
                 /\ 0 < pos[b] /\ pos[b] < pos[tailBlock] => Count(b)' = blocks'[b].size - 1
                 /\ pos[tailBlock] < pos[b] => Count(b)' = IF b = t THEN 1 ELSE 0
      <3>1. /\ blocks'[b].next = blocks[b].next /\ blocks'[b].size = blocks[b].size
            /\ Count(b)' = IF b = t THEN 1 ELSE Count(b)
        BY <1>15
      <3>2. b = t => ~ (pos[b] < pos[tailBlock]) /\ ~ (pos[b] <= pos[tailBlock])
        BY <1>7, <1>8, <1>9
      <3> QED BY <1>4, <1>6, <3>1, <3>2 DEF FillInv
    <2>3. ASSUME NEW b \in Linked, NEW d \in Linked, pos[b] < pos[d] /\ pos[d] <= pos[tailBlock]
          PROVE  start[b] + Count(b)' <= start[d]
      <3>1. Count(b)' = Count(b)
        BY <1>7, <1>8, <1>9, <1>15, <2>3
      <3> QED BY <1>6, <2>3, <3>1 DEF FillInv
    <2>4. start \in [Linked -> Nat] /\ start[frontBlock] = 0
      BY <1>6 DEF FillInv
    <2>5. blocks'[tailBlock].next = t /\ wpc' = "advance" /\ items' = items
      BY <1>1, <1>4, <1>7, <1>15
    <2> QED BY <1>14, <1>15, <2>1, <2>2, <2>3, <2>4, <2>5 DEF FillInv
  <1>18. SlotInv(pos, start)'
    <2> SUFFICES ASSUME NEW b \in Linked, NEW i \in 0 .. blocks[b].size - 1
                 PROVE  blocks[b].data[i] =
                           IF Place(b, i) < Count(b)' /\ pos[b] <= pos[tailBlock]
                           THEN IF b = frontBlock /\ i = blocks[b].front /\ rpc = "release" THEN Raw
                                ELSE items[start[b] + Place(b, i) + 1]
                           ELSE IF b = t /\ i = blocks[b].front THEN offer ELSE Raw
      <3>1. blocks'[tailBlock].next = t /\ wpc' = "advance" /\ items' = items /\ offer' = offer
        BY <1>1, <1>4, <1>7, <1>15
      <3>2. \A b \in Linked : \A i : Built(b, i)' <=> b = t /\ i = blocks[b].front
        BY <1>15, <3>1 DEF Built
      <3> QED BY <1>5, <1>14, <1>15, <3>1, <3>2 DEF SlotInv
    <2>1. blocks[b].data[i] =
              IF Place(b, i) < Count(b) /\ pos[b] <= pos[tailBlock]
              THEN IF b = frontBlock /\ i = blocks[b].front /\ rpc = "release" THEN Raw
                   ELSE items[start[b] + Place(b, i) + 1]
              ELSE IF Built(b, i) THEN offer ELSE Raw
      BY <1>6 DEF SlotInv
    <2>2. Built(b, i) <=> b = t /\ i = blocks[b].front
      BY <1>1, <1>4, <1>11 DEF Built
    <2>3. CASE b = t
      <3>1. ~ (pos[b] <= pos[tailBlock])
        BY <1>7, <1>8, <1>9, <2>3
      <3> QED BY <2>1, <2>2, <3>1
    <2>4. CASE b # t
      <3>1. Count(b)' = Count(b)
        BY <1>15, <2>4
      <3> QED BY <2>1, <2>2, <2>4, <3>1
    <2> QED BY <2>3, <2>4
  <1>19. WriterInv(pos)'
    <2>1. WriterInv(pos) /\ SeenFull
      BY <1>4, <1>6 DEF SeenFull
    <2>2. Count(tailBlock)' = Count(tailBlock) /\ blocks'[tailBlock].size = blocks[tailBlock].size
      BY <1>7, <1>10, <1>15
    <2> QED BY <1>4, <1>14, <2>1, <2>2 DEF WriterInv
  <1>20. ReaderInv(pos)'
    <2>1. \A b \in DOMAIN blocks :
              /\ blocks'[b].front = blocks[b].front /\ blocks'[b].localTail = blocks[b].localTail
              /\ Count(b)' \in Nat /\ Count(b)' >= Count(b)
      <3>1. \A b \in DOMAIN blocks : Count(b) \in Nat
        BY View
      <3> QED BY <1>13, <3>1 DEF TailMoved
    <2>2. Count(frontBlock)' = Count(frontBlock) /\ blocks'[frontBlock].next = blocks[frontBlock].next
      BY <1>7, <1>10, <1>15
    <2> QED BY <1>4, <1>15, <2>1, <2>2, ReaderStays
  <1>21. Control'
    BY <1>4, <1>5, <1>13 DEF Core, Control, TailMoved
  <1>22. SizeInv'
    BY <1>4, <1>13, <1>14 DEF Core, SizeInv, TailMoved
  <1> QED BY <1>4, <1>13, <1>16, <1>17, <1>18, <1>19, <1>20, <1>21, <1>22
           DEF Core, Layout, TailMoved

LEMMA AdvanceTailStep ==
    ASSUME NEW pos, NEW start, Core, Layout(pos, start), AdvanceTail
    PROVE  /\ Core' /\ alive' = alive /\ items' = Append(items, offer)
           /\ \E start2 : Layout(pos, start2)'
  <1>1. PICK t : t = blocks[tailBlock].next
    OBVIOUS
  <1>2. /\ wpc = "advance" /\ tailBlock' = t
        /\ wpc' = "idle" /\ offer' = offer + 1 /\ hadRoom' = TRUE
        /\ items' = Append(items, offer)
        /\ UNCHANGED <<alive, blocks, reader, mode, largestBlockSize>>
    BY <1>1 DEF AdvanceTail, Return, tailBlock_
  <1>3. UNCHANGED <<rpc, op, frontBlock, nextBlock, held, inHand, result, hadData>>
    BY <1>2 DEF reader
  <1>4. /\ CircleInv(pos) /\ FillInv(pos, start) /\ SlotInv(pos, start)
        /\ WriterInv(pos) /\ ReaderInv(pos)
    BY DEF Layout
  <1>5. /\ Linked \subseteq DOMAIN blocks /\ tailBlock \in Linked /\ frontBlock \in Linked
        /\ pos[frontBlock] = 0 /\ Links \in Int
    BY <1>4, LinkedAreBlocks DEF CircleInv
  <1>6. \A b \in Linked : pos[b] \in Nat /\ start[b] \in Nat /\ Count(b) \in Nat
    BY <1>4, <1>5, View DEF CircleInv, FillInv
  <1>7. t \in Linked /\ t \in DOMAIN blocks /\ pos[t] = pos[tailBlock] + 1
    <2>1. pos[tailBlock] < Links - 1
      BY <1>2, <1>4 DEF WriterInv
    <2>2. t \in Linked /\ pos[t] = IF pos[tailBlock] = Links - 1 THEN 0 ELSE pos[tailBlock] + 1
      BY <1>1, <1>4, <1>5 DEF CircleInv
    <2> QED BY <1>5, <1>6, <2>1, <2>2
  <1>8. \A b, d \in Linked : pos[b] = pos[d] => b = d
    BY <1>4 DEF CircleInv
  <1>9. t # tailBlock /\ t # frontBlock /\ pos[tailBlock] < pos[t]
        /\ \A b \in Linked : /\ b # t => (pos[b] <= pos[t] <=> pos[b] <= pos[tailBlock])
                             /\ pos[b] < pos[t] <=> pos[b] <= pos[tailBlock]
    BY <1>5, <1>6, <1>7, <1>8
  <1>10. Count(t) = 1
    BY <1>1, <1>2, <1>4, <1>7, <1>9 DEF FillInv
  <1>11. offer \in Nat /\ offer + 1 \in 1 .. N + 1 /\ items \in Seq(Nat)
    <2>1. N \in Nat /\ offer \in 1 .. N + 1 /\ offer <= N
      BY <1>2, <1>4, QueueAssumption DEF Core, Control, WriterInv
    <2> QED BY <2>1 DEF Core
  <1>12. /\ items' \in Seq(Nat) /\ Len(items') = Len(items) + 1 /\ items'[Len(items) + 1] = offer
         /\ \A k \in 1 .. Len(items) : items'[k] = items[k]
         /\ Len(items) \in Nat
    BY <1>2, <1>11
  <1>13. PICK start2 : start2 = [start EXCEPT ![t] = Len(items)]
    OBVIOUS
  <1>14. /\ start2 \in [Linked -> Nat] /\ start2[t] = Len(items)
         /\ \A b \in Linked : b # t => start2[b] = start[b]
    <2>1. start \in [Linked -> Nat]
      BY <1>4 DEF FillInv
    <2> QED BY <1>7, <1>12, <1>13, <2>1
  <1>15. /\ Links' = Links /\ Linked' = Linked
         /\ \A b : Count(b)' = Count(b) /\ \A i : Place(b, i)' = Place(b, i)
         /\ \A b, i : ~ Built(b, i)'
    <2>1. Links' = Links
      BY <1>2 DEF Links
    <2> QED BY <1>2, <2>1 DEF Linked, Count, Place, Built
  <1>16. CircleInv(pos)'
    BY <1>2, <1>3, <1>4, <1>7, <1>15 DEF CircleInv
  <1>17. FillInv(pos, start2)'
    <2>1. start2[t] + Count(t) = Len(items')
      BY <1>10, <1>12, <1>14
    <2>2. ASSUME NEW b \in Linked
          PROVE  /\ pos[b] < pos[t] => start2[blocks[b].next] = start2[b] + Count(b)
                 /\ 0 < pos[b] /\ pos[b] <= pos[t] => Count(b) > 0
                 /\ 0 < pos[b] /\ pos[b] < pos[t] => Count(b) = blocks[b].size - 1
                 /\ pos[t] < pos[b] => Count(b) = 0
      <3>1. pos[b] < pos[t] => start2[blocks[b].next] = start2[b] + Count(b)
        <4> SUFFICES ASSUME pos[b] < pos[t]
                     PROVE  start2[blocks[b].next] = start2[b] + Count(b)
          OBVIOUS
        <4>1. b # t /\ pos[b] <= pos[tailBlock]
          BY <1>6, <1>7, <1>9
        <4>2. CASE b = tailBlock
          <5>1. start[tailBlock] + Count(tailBlock) = Len(items)
            BY <1>4 DEF FillInv
          <5> QED BY <1>1, <1>9, <1>14, <4>2, <5>1
        <4>3. CASE b # tailBlock
          <5>1. pos[b] < pos[tailBlock]
            BY <1>5, <1>6, <1>8, <4>1, <4>3
          <5>2. start[blocks[b].next] = start[b] + Count(b)
            BY <1>4, <5>1 DEF FillInv
          <5>3. blocks[b].next \in Linked /\ pos[blocks[b].next] = pos[b] + 1
            <6>1. pos[tailBlock] < Links
              BY <1>4, <1>5 DEF CircleInv
            <6>2. blocks[b].next \in Linked
                  /\ pos[blocks[b].next] = IF pos[b] = Links - 1 THEN 0 ELSE pos[b] + 1
              BY <1>4 DEF CircleInv
            <6> QED BY <1>5, <1>6, <5>1, <6>1, <6>2
          <5>4. blocks[b].next # t
            BY <1>5, <1>6, <1>7, <5>1, <5>3
          <5> QED BY <1>14, <4>1, <5>2, <5>3, <5>4
        <4> QED BY <4>2, <4>3
      <3>2. 0 < pos[b] /\ pos[b] <= pos[t] => Count(b) > 0
        BY <1>4, <1>9, <1>10 DEF FillInv
      <3>3. 0 < pos[b] /\ pos[b] < pos[t] => Count(b) = blocks[b].size - 1
        <4>1. 0 < pos[tailBlock] => Count(tailBlock) = blocks[tailBlock].size - 1
          BY <1>2, <1>4 DEF WriterInv, SeenFull
        <4>2. b = tailBlock \/ (pos[b] < pos[t] => pos[b] < pos[tailBlock])
          BY <1>5, <1>6, <1>8, <1>9
        <4>3. 0 < pos[b] /\ pos[b] < pos[tailBlock] => Count(b) = blocks[b].size - 1
          BY <1>4 DEF FillInv
        <4> QED BY <4>1, <4>2, <4>3
      <3>4. pos[t] < pos[b] => Count(b) = 0
        <4>1. pos[t] < pos[b] => pos[tailBlock] < pos[b] /\ b # t
          BY <1>5, <1>6, <1>7
        <4> QED BY <1>1, <1>4, <4>1 DEF FillInv
      <3> QED BY <3>1, <3>2, <3>3, <3>4
    <2>3. ASSUME NEW b \in Linked, NEW d \in Linked, pos[b] < pos[d] /\ pos[d] <= pos[t]
          PROVE  start2[b] + Count(b) <= start2[d]
      <3>1. b # t /\ pos[b] <= pos[tailBlock] /\ start2[b] = start[b]
        BY <1>6, <1>7, <1>9, <1>14, <2>3
      <3>2. CASE d = t
        BY <1>4, <1>14, <3>1, <3>2, Bounds
      <3>3. CASE d # t
        <4>1. pos[d] <= pos[tailBlock] /\ start2[d] = start[d]
          BY <1>9, <1>14, <2>3, <3>3
        <4> QED BY <1>4, <2>3, <3>1, <4>1 DEF FillInv
      <3> QED BY <3>2, <3>3
    <2>4. start2 \in [Linked -> Nat] /\ start2[frontBlock] = 0
      BY <1>4, <1>5, <1>9, <1>14 DEF FillInv
    <2>5. blocks' = blocks /\ tailBlock' = t /\ frontBlock' = frontBlock /\ ~ (wpc' = "advance")
      BY <1>2, <1>3
    <2> QED BY <1>15, <2>1, <2>2, <2>3, <2>4, <2>5 DEF FillInv
  <1>18. SlotInv(pos, start2)'
    <2> SUFFICES ASSUME NEW b \in Linked, NEW i \in 0 .. blocks[b].size - 1
                 PROVE  blocks[b].data[i] =
                           IF Place(b, i) < Count(b) /\ pos[b] <= pos[t]
                           THEN IF b = frontBlock /\ i = blocks[b].front /\ rpc = "release" THEN Raw
                                ELSE items'[start2[b] + Place(b, i) + 1]
                           ELSE Raw
      BY <1>2, <1>3, <1>15 DEF SlotInv
    <2>1. blocks[b].data[i] =
              IF Place(b, i) < Count(b) /\ pos[b] <= pos[tailBlock]
              THEN IF b = frontBlock /\ i = blocks[b].front /\ rpc = "release" THEN Raw
                   ELSE items[start[b] + Place(b, i) + 1]
              ELSE IF Built(b, i) THEN offer ELSE Raw
      BY <1>4 DEF SlotInv
    <2>2. /\ Place(b, i) \in Nat /\ Count(b) \in Nat
          /\ Place(b, i) = 0 <=> i = blocks[b].front
      BY Slot
    <2>3. Built(b, i) <=> b = t /\ i = blocks[b].front
      BY <1>1, <1>2 DEF Built
    <2>4. CASE b = t
      <3>1. ~ (pos[b] <= pos[tailBlock]) /\ pos[b] <= pos[t]
        BY <1>5, <1>6, <1>7, <2>4
      <3>2. CASE i = blocks[b].front
        <4>1. blocks[b].data[i] = offer
          BY <2>1, <2>3, <2>4, <3>1, <3>2
        <4>2. start2[b] + Place(b, i) + 1 = Len(items) + 1
          BY <1>12, <1>14, <2>2, <2>4, <3>2
        <4> QED BY <1>9, <1>10, <1>12, <2>2, <2>4, <3>1, <3>2, <4>1, <4>2
      <3>3. CASE i # blocks[b].front
        BY <1>10, <2>1, <2>2, <2>3, <2>4, <3>1, <3>3
      <3> QED BY <3>2, <3>3
    <2>5. CASE b # t
      <3>1. (pos[b] <= pos[t] <=> pos[b] <= pos[tailBlock]) /\ start2[b] = start[b]
        BY <1>9, <1>14, <2>5
      <3>2. Place(b, i) < Count(b) /\ pos[b] <= pos[tailBlock] =>
                items'[start[b] + Place(b, i) + 1] = items[start[b] + Place(b, i) + 1]
        <4>1. pos[b] <= pos[tailBlock] => start[b] + Count(b) <= Len(items)
          BY <1>4, Bounds
        <4>2. start[b] \in Nat /\ Len(items) \in Nat
          BY <1>6, <1>12
        <4>3. Place(b, i) < Count(b) /\ pos[b] <= pos[tailBlock] =>
                  start[b] + Place(b, i) + 1 \in 1 .. Len(items)
          BY <2>2, <4>1, <4>2
        <4> QED BY <1>12, <4>3
      <3> QED BY <2>1, <2>3, <2>5, <3>1, <3>2
    <2> QED BY <2>4, <2>5
  <1>19. WriterInv(pos)'
    BY <1>2 DEF WriterInv, SeenFull
  <1>20. ReaderInv(pos)'
    <2>1. \A b \in DOMAIN blocks :
              /\ blocks'[b].front = blocks[b].front /\ blocks'[b].localTail = blocks[b].localTail
              /\ Count(b)' \in Nat /\ Count(b)' >= Count(b)
      <3>1. \A b \in DOMAIN blocks : Count(b) \in Nat
        BY View
      <3> QED BY <1>2, <1>15, <3>1
    <2>2. 0 < pos[tailBlock] =>
              /\ Count(frontBlock)' = Count(frontBlock) /\ 0 < pos[tailBlock']
              /\ blocks'[frontBlock].next = blocks[frontBlock].next
      <3>1. 0 < pos[tailBlock']
        BY <1>2, <1>5, <1>6, <1>7
      <3> QED BY <1>2, <1>3, <1>15, <3>1
    <2>3. \E v \in Nat : items' = Append(items, v)
      BY <1>2, <1>11
    <2> QED BY <1>2, <2>1, <2>2, <2>3, ReaderStays
  <1>21. Control'
    BY <1>2, <1>3, <1>7, <1>11 DEF Core, Control
  <1>22. SizeInv' /\ \A b \in DOMAIN blocks : BlockInv(b)'
    BY <1>2, <1>15 DEF Core, SizeInv, BlockInv
  <1>23. Layout(pos, start2)'
    BY <1>16, <1>17, <1>18, <1>19, <1>20 DEF Layout
  <1>24. Core'
    BY <1>2, <1>12, <1>21, <1>22 DEF Core
  <1> QED BY <1>2, <1>23, <1>24

LEMMA AllocateStep ==
    ASSUME NEW pos, NEW start, Core, Layout(pos, start), Allocate
    PROVE  Core' /\ Layout(pos, start)' /\ alive' = alive
  <1> DEFINE size == IF largestBlockSize >= MAX_BLOCK_SIZE THEN largestBlockSize
                                                           ELSE largestBlockSize * 2
             next == blocks[tailBlock].next
  <1>1. PICK new : new = [MakeBlock(size, next) EXCEPT !.data[0] = offer, !.tail = 1, !.localTail = 1]
    OBVIOUS
  <1>2. /\ wpc = "alloc" /\ wpc' = "link"
        /\ blocks' = Append(blocks, new)
        /\ largestBlockSize' = size
        /\ UNCHANGED <<alive, items, reader, mode, offer, hadRoom, tailBlock>>
    BY <1>1, Zenon DEF Allocate, tailBlock_
  <1>3. UNCHANGED <<rpc, op, frontBlock, nextBlock, held, inHand, result, hadData>>
    BY <1>2 DEF reader
  <1>4. /\ CircleInv(pos) /\ FillInv(pos, start) /\ SlotInv(pos, start)
        /\ WriterInv(pos) /\ ReaderInv(pos)
    BY DEF Layout
  <1>5. /\ Linked \subseteq DOMAIN blocks /\ tailBlock \in Linked /\ frontBlock \in Linked
        /\ Links \in Int /\ Linked = DOMAIN blocks
    <2>1. DOMAIN blocks = 1 .. Len(blocks)
      BY LenProperties DEF Core
    <2> QED BY <1>2, <1>4, <2>1, LinkedAreBlocks DEF CircleInv, Linked, Links
  <1>6. next \in DOMAIN blocks /\ next \in Nat
    <2>1. next \in DOMAIN blocks
      BY <1>5, View
    <2>2. DOMAIN blocks = 1 .. Len(blocks) /\ Len(blocks) \in Nat
      BY LenProperties DEF Core
    <2> QED BY <2>1, <2>2
  <1>7. size \in Nat /\ size >= 2
        /\ \/ largestBlockSize > MaxSize /\ size > MaxSize
           \/ largestBlockSize = MAX_BLOCK_SIZE /\ size = MAX_BLOCK_SIZE
    <2>1. /\ MAX_BLOCK_SIZE \in Nat /\ MAX_BLOCK_SIZE >= 2 /\ MaxSize \in Nat /\ MaxSize >= 1
          /\ largestBlockSize \in Nat
      BY QueueAssumption DEF Core, Control
    <2>2. largestBlockSize > MaxSize \/ largestBlockSize = MAX_BLOCK_SIZE
      BY DEF Core, SizeInv
    <2> QED BY <2>1, <2>2
  <1> HIDE DEF size, next
  <1>8. /\ new.size = size /\ new.front = 0 /\ new.tail = 1
        /\ new.localFront = 0 /\ new.localTail = 1
        /\ new.next = next
        /\ new.data = [i \in 0 .. size - 1 |-> IF i = 0 THEN offer ELSE Raw]
        /\ new = [size |-> size, front |-> 0, tail |-> 1, localFront |-> 0, localTail |-> 1,
                  next |-> next, data |-> [i \in 0 .. size - 1 |-> IF i = 0 THEN offer ELSE Raw]]
    <2> DEFINE M == MakeBlock(size, next)
               raw == [i \in 0 .. size - 1 |-> Raw]
    <2>1. [raw EXCEPT ![0] = offer] = [i \in 0 .. size - 1 |-> IF i = 0 THEN offer ELSE Raw]
      OBVIOUS
    <2>2. new = [size |-> size, front |-> 0, tail |-> 1, localFront |-> 0, localTail |-> 1,
                 next |-> next, data |-> [raw EXCEPT ![0] = offer]]
      BY <1>1 DEF MakeBlock
    <2> QED BY <2>1, <2>2
  <1>9. new.data \in [0 .. size - 1 -> Datum]
    <2>1. offer \in Datum /\ Raw \in Datum
      BY OfferIsDatum DEF Datum
    <2> QED BY <1>8, <2>1
  <1>10. new \in Block
    <2>1. new.data \in Data
      BY <1>7, <1>9 DEF Data
    <2> QED BY <1>6, <1>7, <1>8, <2>1 DEF Block
  <1>11. /\ blocks' \in Seq(Block) /\ Len(blocks') = Len(blocks) + 1
         /\ \A b \in DOMAIN blocks : blocks'[b] = blocks[b]
         /\ blocks'[Len(blocks) + 1] = new
         /\ DOMAIN blocks' = DOMAIN blocks \cup {Len(blocks) + 1}
         /\ Len(blocks) \in Nat
    <2>1. blocks \in Seq(Block)
      BY DEF Core
    <2>2. DOMAIN blocks = 1 .. Len(blocks) /\ Len(blocks) \in Nat
      BY <2>1, LenProperties
    <2>3. /\ blocks' \in Seq(Block) /\ Len(blocks') = Len(blocks) + 1
          /\ \A b \in 1 .. Len(blocks) : blocks'[b] = blocks[b]
          /\ blocks'[Len(blocks) + 1] = new
      BY <1>2, <1>10, <2>1, AppendProperties
    <2>4. DOMAIN blocks' = 1 .. Len(blocks) + 1
      BY <2>3, LenProperties
    <2>5. \A n \in Nat : 1 .. n + 1 = (1 .. n) \cup {n + 1}
      OBVIOUS
    <2>6. DOMAIN blocks' = DOMAIN blocks \cup {Len(blocks) + 1}
      BY <2>2, <2>4, <2>5
    <2>7. \A b \in DOMAIN blocks : blocks'[b] = blocks[b]
      BY <2>2, <2>3
    <2> QED BY ONLY <2>2, <2>3, <2>6, <2>7, Zenon
  <1>12. /\ Links' = Links /\ Linked' = Linked
         /\ \A b \in DOMAIN blocks : Count(b)' = Count(b) /\ \A i : Place(b, i)' = Place(b, i)
         /\ \A b, i : ~ Built(b, i) /\ ~ Built(b, i)'
    <2>1. Links' = Links
      BY <1>2, <1>11 DEF Links
    <2> QED BY <1>2, <1>11, <2>1 DEF Linked, Count, Place, Built
  <1>13. CircleInv(pos)'
    <2>1. \A b \in Linked : blocks'[b].next = blocks[b].next
      BY <1>5, <1>11
    <2> QED BY <1>2, <1>3, <1>4, <1>12, <2>1 DEF CircleInv
  <1>14. FillInv(pos, start)'
    BY <1>2, <1>3, <1>4, <1>5, <1>11, <1>12 DEF FillInv
  <1>15. SlotInv(pos, start)'
    BY <1>2, <1>3, <1>4, <1>5, <1>11, <1>12 DEF SlotInv
  <1>16. WriterInv(pos)'
    <2>1. blocks'[Len(blocks')] = new
      BY <1>11
    <2>2. \A i \in 0 .. new.size - 1 : new.data[i] = IF i = 0 THEN offer ELSE Raw
      BY <1>8
    <2>3. blocks'[tailBlock] = blocks[tailBlock] /\ Count(tailBlock)' = Count(tailBlock)
      BY <1>2, <1>5, <1>11, <1>12
    <2>4. WriterInv(pos) /\ SeenFull
      BY <1>2, <1>4 DEF SeenFull
    <2>5. blocks'[tailBlock].next = next /\ Count(tailBlock)' = Count(tailBlock)
      BY <2>3 DEF next
    <2>6. offer' = offer /\ hadRoom' = hadRoom /\ items' = items /\ tailBlock' = tailBlock
      BY <1>2
    <2>7. wpc' = "link" /\ SeenFull'
      BY <1>2 DEF SeenFull
    <2>8. /\ offer' <= N
          /\ 0 < pos[tailBlock'] => Count(tailBlock)' = blocks'[tailBlock'].size - 1
          /\ hadRoom' => Len(items') < MaxSize
      BY <1>2, <2>3, <2>4, <2>5, <2>6 DEF WriterInv
    <2>9. LET last == blocks'[Len(blocks')] IN
          /\ last.front = 0 /\ last.tail = 1 /\ last.localFront = 0 /\ last.localTail = 1
          /\ last.next = blocks'[tailBlock'].next
          /\ \A i \in 0 .. last.size - 1 : last.data[i] = IF i = 0 THEN offer' ELSE Raw
      BY <1>8, <2>1, <2>2, <2>5, <2>6
    <2> QED BY <2>7, <2>8, <2>9 DEF WriterInv
  <1>17. ReaderInv(pos)'
    <2>1. \A b \in DOMAIN blocks :
              /\ blocks'[b].front = blocks[b].front /\ blocks'[b].localTail = blocks[b].localTail
              /\ Count(b)' \in Nat /\ Count(b)' >= Count(b)
      <3>1. \A b \in DOMAIN blocks : Count(b) \in Nat
        BY View
      <3> QED BY <1>11, <1>12, <3>1
    <2>2. 0 < pos[tailBlock] =>
              /\ Count(frontBlock)' = Count(frontBlock) /\ 0 < pos[tailBlock']
              /\ blocks'[frontBlock].next = blocks[frontBlock].next
      BY <1>2, <1>3, <1>5, <1>11, <1>12
    <2> QED BY <1>2, <2>1, <2>2, ReaderStays
  <1>18. Control'
    BY <1>2, <1>3, <1>7, <1>11 DEF Core, Control
  <1>19. SizeInv'
    BY <1>2, <1>7, <1>8, <1>11, <1>12 DEF Core, SizeInv
  <1>20. ASSUME NEW b \in DOMAIN blocks'
         PROVE  BlockInv(b)'
    <2>1. CASE b \in DOMAIN blocks
      BY <1>11, <1>12, <2>1 DEF Core, BlockInv
    <2>2. CASE b = Len(blocks) + 1
      <3>1. blocks'[b] = new /\ new.next \in DOMAIN blocks'
        BY <1>6, <1>8, <1>11, <2>2
      <3>2. Count(b)' = 1
        BY <1>7, <1>8, <3>1 DEF Count, Dist
      <3>3. Dist(size, 0, 0) = 0 /\ Dist(size, 0, 1) = 1
        BY <1>7 DEF Dist
      <3> QED BY <1>7, <1>8, <1>9, <3>1, <3>2, <3>3 DEF BlockInv
    <2> QED BY <1>11, <2>1, <2>2
  <1> QED BY <1>2, <1>11, <1>13, <1>14, <1>15, <1>16, <1>17, <1>18, <1>19, <1>20 DEF Core, Layout

\* The place of a block when another one has been put in behind place q.
Shift(p, q) == IF p > q THEN p + 1 ELSE p

LEMMA ShiftFacts ==
    ASSUME NEW n \in Nat, NEW p \in 0 .. n - 2, NEW k \in 0 .. n - 2, NEW q \in 0 .. n - 2
    PROVE  /\ Shift(p, q) \in 0 .. n - 1 /\ q + 1 \in 0 .. n - 1 /\ Shift(q, q) = q
           /\ Shift(p, q) # q + 1
           /\ Shift(p, q) = Shift(k, q) => p = k
           /\ Shift(p, q) < Shift(k, q) <=> p < k
           /\ Shift(p, q) <= q <=> p <= q
           /\ Shift(p, q) < q <=> p < q
           /\ q < Shift(p, q) <=> q < p
           /\ 0 < Shift(p, q) <=> 0 < p
           /\ Shift(0, q) = 0
  BY DEF Shift

\* The new block goes in behind the tail block.
LEMMA LinkStep ==
    ASSUME NEW pos, NEW start, Core, Layout(pos, start), Link
    PROVE  Core' /\ alive' = alive /\ \E pos2, start2 : Layout(pos2, start2)'
  <1>1. PICK t, n : t = tailBlock /\ n = Len(blocks)
    OBVIOUS
  <1>2. /\ wpc = "link" /\ wpc' = "advance"
        /\ blocks' = [blocks EXCEPT ![t].next = n]
        /\ UNCHANGED <<alive, items, reader, mode, offer, hadRoom, tailBlock, largestBlockSize>>
    BY <1>1 DEF Link
  <1>3. UNCHANGED <<rpc, op, frontBlock, nextBlock, held, inHand, result, hadData>>
    BY <1>2 DEF reader
  <1>4. /\ CircleInv(pos) /\ FillInv(pos, start) /\ SlotInv(pos, start)
        /\ WriterInv(pos) /\ ReaderInv(pos)
    BY DEF Layout
  <1>5. /\ Linked \subseteq DOMAIN blocks /\ t \in Linked /\ frontBlock \in Linked
        /\ pos[frontBlock] = 0 /\ n \in Nat /\ Links = n - 1 /\ DOMAIN blocks = 1 .. n
        /\ Linked = 1 .. n - 1
    <2>1. DOMAIN blocks = 1 .. n /\ n \in Nat
      BY <1>1, LenProperties DEF Core
    <2> QED BY <1>1, <1>2, <1>4, <2>1, LinkedAreBlocks DEF CircleInv, Linked, Links
  <1>6. t \in DOMAIN blocks /\ n \in DOMAIN blocks /\ n \notin Linked /\ n # t
    BY <1>5
  <1>7. /\ blocks' \in Seq(Block) /\ Len(blocks') = Len(blocks) /\ DOMAIN blocks' = DOMAIN blocks
        /\ \A b \in DOMAIN blocks :
              /\ blocks'[b].next = IF b = t THEN n ELSE blocks[b].next
              /\ blocks'[b].size = blocks[b].size /\ blocks'[b].front = blocks[b].front
              /\ blocks'[b].tail = blocks[b].tail
              /\ blocks'[b].localFront = blocks[b].localFront /\ blocks'[b].localTail = blocks[b].localTail
              /\ blocks'[b].data = blocks[b].data
    <2>1. blocks \in Seq(Block) /\ n \in Nat /\ blocks' = [blocks EXCEPT ![t].next = n]
      BY <1>2, <1>5 DEF Core
    <2> QED BY ONLY <1>6, <2>1, SetNext
  <1>8. \A b \in Linked : pos[b] \in 0 .. n - 2
                           /\ start[b] \in Nat /\ Count(b) \in Nat
    <2>1. \A b \in Linked : Count(b) \in Nat
      BY <1>5, View
    <2> QED BY <1>4, <1>5, <2>1 DEF CircleInv, FillInv
  <1>26. /\ \A b, d \in Linked : pos[b] = pos[d] => b = d
         /\ \A p \in 0 .. n - 2 : \E b \in Linked : pos[b] = p
         /\ \A b \in Linked :
               /\ blocks[b].next \in Linked
               /\ pos[blocks[b].next] = IF pos[b] = n - 2 THEN 0 ELSE pos[b] + 1
    <2>1. Links - 1 = n - 2
      BY <1>5
    <2> QED BY <1>4, <2>1 DEF CircleInv
  <1>9. /\ Links' = n /\ Linked' = 1 .. n /\ tailBlock' = t
        /\ \A b \in 1 .. n : b = n \/ b \in Linked
        /\ Linked \subseteq 1 .. n /\ n \in 1 .. n
    <2>1. Links' = n
      BY <1>1, <1>2, <1>7 DEF Links
    <2> QED BY <1>1, <1>2, <1>5, <2>1 DEF Linked
  <1>10. PICK pos2 : pos2 = [b \in 1 .. n |-> IF b = n THEN pos[t] + 1
                                              ELSE Shift(pos[b], pos[t])]
    OBVIOUS
  <1>11. PICK start2 : start2 = [b \in 1 .. n |-> IF b = n THEN 0 ELSE start[b]]
    OBVIOUS
  <1>12. /\ pos2[n] = pos[t] + 1 /\ pos2[t] = pos[t]
         /\ \A b \in Linked : pos2[b] = Shift(pos[b], pos[t])
         /\ start2[n] = 0
         /\ \A b \in Linked : start2[b] = start[b]
    <2>1. \A b \in Linked : b \in 1 .. n /\ b # n
      BY <1>5
    <2>2. Shift(pos[t], pos[t]) = pos[t]
      BY <1>5, <1>8, ShiftFacts
    <2> QED BY <1>5, <1>9, <1>10, <1>11, <2>1, <2>2
  <1>13. ASSUME NEW b \in Linked
         PROVE  /\ pos2[b] \in 0 .. n - 1 /\ pos2[b] # pos2[n]
                /\ pos2[b] <= pos2[t] <=> pos[b] <= pos[t]
                /\ pos2[b] < pos2[t] <=> pos[b] < pos[t]
                /\ pos2[t] < pos2[b] <=> pos[t] < pos[b]
                /\ 0 < pos2[b] <=> 0 < pos[b]
                /\ \A d \in Linked : /\ pos2[b] = pos2[d] => pos[b] = pos[d]
                                     /\ pos2[b] < pos2[d] <=> pos[b] < pos[d]
    <2> DEFINE p == pos[b]
               q == pos[t]
    <2>1. n \in Nat /\ p \in 0 .. n - 2 /\ q \in 0 .. n - 2
      BY <1>5, <1>8
    <2>2. pos2[b] = Shift(p, q) /\ pos2[n] = q + 1 /\ pos2[t] = q
      BY <1>12
    <2>3. ASSUME NEW d \in Linked
          PROVE  /\ pos2[b] = pos2[d] => pos[b] = pos[d]
                 /\ pos2[b] < pos2[d] <=> pos[b] < pos[d]
      <3> DEFINE k == pos[d]
      <3>1. k \in 0 .. n - 2 /\ pos2[d] = Shift(k, q)
        BY <1>8, <1>12
      <3> HIDE DEF p, q, k
      <3>2. (Shift(p, q) = Shift(k, q) => p = k) /\ (Shift(p, q) < Shift(k, q) <=> p < k)
        <4>1. p \in Int /\ k \in Int /\ q \in Int
          BY <2>1, <3>1
        <4> QED BY ONLY <4>1 DEF Shift
      <3> QED BY <2>2, <3>1, <3>2 DEF p, k
    <2> HIDE DEF p, q
    <2>4. /\ Shift(p, q) \in 0 .. n - 1 /\ Shift(p, q) # q + 1
          /\ Shift(p, q) <= q <=> p <= q
          /\ Shift(p, q) < q <=> p < q
          /\ q < Shift(p, q) <=> q < p
          /\ 0 < Shift(p, q) <=> 0 < p
      BY <2>1, ShiftFacts
    <2> QED BY <2>2, <2>3, <2>4 DEF p, q
  <1>27. pos[t] \in 0 .. n - 2 /\ pos2[n] \in 0 .. n - 1
    BY <1>5, <1>8, <1>12, ShiftFacts
  <1>14. /\ \A b \in DOMAIN blocks : Count(b)' = Count(b) /\ \A i : Place(b, i)' = Place(b, i)
         /\ \A b, i : ~ Built(b, i)
         /\ \A b \in DOMAIN blocks : \A i : Built(b, i)' <=> b = n /\ i = blocks[n].front
    <2>1. blocks'[t].next = n
      BY <1>6, <1>7
    <2> QED BY <1>2, <1>6, <1>7, <1>9, <2>1 DEF Count, Place, Built
  <1>15. CircleInv(pos2)'
    <2>1. pos2 \in [1 .. n -> 0 .. n - 1]
      <3>1. \A b \in 1 .. n : pos2[b] \in 0 .. n - 1
        BY <1>9, <1>13, <1>27
      <3> QED BY <1>10, <3>1
    <2>2. ASSUME NEW b \in 1 .. n, NEW d \in 1 .. n, pos2[b] = pos2[d]
          PROVE  b = d
      <3>1. CASE b \in Linked /\ d \in Linked
        <4>1. pos[b] = pos[d]
          BY <1>13, <2>2, <3>1
        <4> QED BY <1>26, <3>1, <4>1
      <3>2. b = n => d = n
        BY <1>9, <1>13, <2>2
      <3>3. d = n => b = n
        BY <1>9, <1>13, <2>2
      <3> QED BY <1>9, <3>1, <3>2, <3>3
    <2>3. ASSUME NEW p \in 0 .. n - 1
          PROVE  \E b \in 1 .. n : pos2[b] = p
      <3>1. CASE p <= pos[t]
        <4>1. p \in 0 .. n - 2 /\ Shift(p, pos[t]) = p
          BY <1>5, <1>27, <3>1 DEF Shift
        <4>2. PICK b \in Linked : pos[b] = p
          BY <1>26, <4>1
        <4>3. pos2[b] = p
          BY <1>12, <4>1, <4>2
        <4> QED BY <1>9, <4>3
      <3>2. CASE p = pos[t] + 1
        BY <1>9, <1>12, <3>2
      <3>3. CASE p > pos[t] + 1
        <4>1. p - 1 \in 0 .. n - 2 /\ Shift(p - 1, pos[t]) = p
          BY <1>5, <1>27, <3>3 DEF Shift
        <4>2. PICK b \in Linked : pos[b] = p - 1
          BY <1>26, <4>1
        <4>3. pos2[b] = p
          BY <1>12, <4>1, <4>2
        <4> QED BY <1>9, <4>3
      <3> QED BY <1>27, <3>1, <3>2, <3>3
    <2>4. ASSUME NEW b \in 1 .. n
          PROVE  /\ blocks'[b].next \in 1 .. n
                 /\ pos2[blocks'[b].next] = IF pos2[b] = n - 1 THEN 0 ELSE pos2[b] + 1
      <3>1. CASE b = t
        <4>1. blocks'[b].next = n
          BY <1>6, <1>7, <3>1
        <4>2. pos2[b] # n - 1
          BY <1>5, <1>12, <1>27, <3>1
        <4> QED BY <1>9, <1>12, <3>1, <4>1, <4>2
      <3>2. CASE b = n
        <4>1. blocks'[n].next = blocks[t].next
          BY <1>1, <1>2, <1>4, <1>6, <1>7 DEF WriterInv
        <4> DEFINE x == blocks[t].next
        <4>2. x \in Linked /\ pos[x] = IF pos[t] = n - 2 THEN 0 ELSE pos[t] + 1
          BY <1>5, <1>26
        <4> HIDE DEF x
        <4>3. pos2[x] = Shift(pos[x], pos[t])
          BY <1>12, <4>2
        <4>4. pos2[x] = IF pos2[n] = n - 1 THEN 0 ELSE pos2[n] + 1
          BY <1>5, <1>12, <1>27, <4>2, <4>3 DEF Shift
        <4> QED BY <1>9, <3>2, <4>1, <4>2, <4>4 DEF x
      <3>3. CASE b \in Linked /\ b # t
        <4>1. blocks'[b].next = blocks[b].next
          BY <1>5, <1>7, <3>3
        <4> DEFINE x == blocks[b].next
        <4>2. x \in Linked /\ pos[x] = IF pos[b] = n - 2 THEN 0 ELSE pos[b] + 1
          BY <1>26, <3>3
        <4>3. pos[b] \in 0 .. n - 2 /\ pos[b] # pos[t]
          BY <1>5, <1>8, <1>26, <3>3
        <4> HIDE DEF x
        <4>4. pos2[b] = Shift(pos[b], pos[t]) /\ pos2[x] = Shift(pos[x], pos[t])
          BY <1>12, <3>3, <4>2
        <4>5. \A k \in 0 .. n - 2 : \A q \in 0 .. n - 2 : k # q =>
                  Shift(IF k = n - 2 THEN 0 ELSE k + 1, q)
                     = IF Shift(k, q) = n - 1 THEN 0 ELSE Shift(k, q) + 1
          BY <1>5 DEF Shift
        <4>6. pos2[x] = IF pos2[b] = n - 1 THEN 0 ELSE pos2[b] + 1
          BY <1>27, <4>2, <4>3, <4>4, <4>5
        <4> QED BY <1>9, <4>1, <4>2, <4>6 DEF x
      <3> QED BY <1>9, <3>1, <3>2, <3>3
    <2>5. pos2[frontBlock] = 0
      BY <1>5, <1>8, <1>12, <1>27, ShiftFacts
    <2> QED BY <1>3, <1>5, <1>9, <2>1, <2>2, <2>3, <2>4, <2>5 DEF CircleInv
  <1>16. Count(n) = 1
    BY <1>1, <1>2, <1>4, <1>6, View DEF WriterInv, Count, Dist
  <1>17. FillInv(pos2, start2)'
    <2>1. start2[t] + Count(t)' = Len(items)
      <3>1. Count(t)' = Count(t) /\ start2[t] = start[t]
        BY <1>5, <1>6, <1>12, <1>14
      <3> QED BY <1>1, <1>4, <3>1 DEF FillInv
    <2>2. ASSUME NEW b \in 1 .. n
          PROVE  /\ pos2[b] < pos2[t] => start2[blocks'[b].next] = start2[b] + Count(b)'
                 /\ 0 < pos2[b] /\ pos2[b] <= pos2[t] => Count(b)' > 0
                 /\ 0 < pos2[b] /\ pos2[b] < pos2[t] => Count(b)' = blocks'[b].size - 1
                 /\ pos2[t] < pos2[b] => Count(b)' = IF b = n THEN 1 ELSE 0
      <3>1. CASE b = n
        <4>1. pos2[t] < pos2[b] /\ ~ (pos2[b] <= pos2[t]) /\ ~ (pos2[b] < pos2[t])
          BY <1>12, <1>27, <3>1
        <4>2. Count(b)' = 1
          BY <1>6, <1>14, <1>16, <3>1
        <4> QED BY <3>1, <4>1, <4>2
      <3>2. CASE b \in Linked
        <4>1. /\ Count(b)' = Count(b) /\ start2[b] = start[b] /\ b # n
              /\ blocks'[b].size = blocks[b].size
          BY <1>5, <1>6, <1>7, <1>12, <1>14, <3>2
        <4>2. pos2[b] < pos2[t] => start2[blocks'[b].next] = start2[b] + Count(b)'
          <5> SUFFICES ASSUME pos2[b] < pos2[t]
                       PROVE  start2[blocks'[b].next] = start2[b] + Count(b)'
            OBVIOUS
          <5>1. b # t
            BY <1>12, <1>27
          <5>2. blocks'[b].next = blocks[b].next
            BY <1>5, <1>7, <3>2, <5>1
          <5>3. start2[blocks[b].next] = start[blocks[b].next]
            BY <1>12, <1>26, <3>2
          <5>4. start[blocks[b].next] = start[b] + Count(b)
            BY <1>1, <1>4, <1>13, <3>2 DEF FillInv
          <5> QED BY <4>1, <5>2, <5>3, <5>4
        <4>3. /\ 0 < pos[b] /\ pos[b] <= pos[t] => Count(b) > 0
              /\ 0 < pos[b] /\ pos[b] < pos[t] => Count(b) = blocks[b].size - 1
              /\ pos[t] < pos[b] => Count(b) = 0
          BY <1>1, <1>2, <1>4, <3>2 DEF FillInv
        <4> QED BY <1>13, <3>2, <4>1, <4>2, <4>3
      <3> QED BY <1>9, <3>1, <3>2
    <2>3. ASSUME NEW b \in 1 .. n, NEW d \in 1 .. n, pos2[b] < pos2[d] /\ pos2[d] <= pos2[t]
          PROVE  start2[b] + Count(b)' <= start2[d]
      <3>1. d \in Linked
        <4>1. ~ (pos2[n] <= pos2[t])
          BY <1>12, <1>27
        <4> QED BY <1>9, <2>3, <4>1
      <3>4. b \in Linked
        <4>1. pos2[n] < pos2[d] => ~ (pos2[d] <= pos2[t])
          BY <1>12, <1>13, <1>27, <3>1
        <4> QED BY <1>9, <2>3, <4>1
      <3>2. pos[b] < pos[d] /\ pos[d] <= pos[t]
        BY <1>13, <2>3, <3>1, <3>4
      <3>3. start[b] + Count(b) <= start[d]
        BY <1>1, <1>4, <3>1, <3>2, <3>4 DEF FillInv
      <3>5. Count(b)' = Count(b)
        BY <1>5, <1>14, <3>4
      <3> QED BY <1>12, <3>1, <3>3, <3>4, <3>5
    <2>4. start2 \in [1 .. n -> Nat] /\ start2[frontBlock] = 0
      <3>1. \A b \in 1 .. n : start2[b] \in Nat
        <4>1. \A b \in Linked : start2[b] \in Nat
          BY <1>8, <1>12
        <4>2. start2[n] \in Nat
          BY <1>12
        <4> QED BY <1>9, <4>1, <4>2
      <3>2. start[frontBlock] = 0
        BY <1>4 DEF FillInv
      <3> QED BY <1>5, <1>11, <1>12, <3>1, <3>2
    <2>5. blocks'[t].next = n
      BY <1>6, <1>7
    <2>6. wpc' = "advance" /\ frontBlock' = frontBlock /\ items' = items
      BY <1>2, <1>3
    <2> QED BY <1>9, <2>1, <2>2, <2>3, <2>4, <2>5, <2>6 DEF FillInv
  <1>18. SlotInv(pos2, start2)'
    <2> SUFFICES ASSUME NEW b \in 1 .. n, NEW i \in 0 .. blocks[b].size - 1
                 PROVE  blocks[b].data[i] =
                           IF Place(b, i) < Count(b) /\ pos2[b] <= pos2[t]
                           THEN IF b = frontBlock /\ i = blocks[b].front /\ rpc = "release" THEN Raw
                                ELSE items[start2[b] + Place(b, i) + 1]
                           ELSE IF b = n /\ i = blocks[n].front THEN offer ELSE Raw
      <3>1. /\ \A b \in 1 .. n : /\ blocks'[b].size = blocks[b].size /\ blocks'[b].front = blocks[b].front
                                 /\ blocks'[b].data = blocks[b].data
            /\ \A b \in 1 .. n : Count(b)' = Count(b)
            /\ \A b \in 1 .. n : \A i : Place(b, i)' = Place(b, i)
            /\ \A b \in 1 .. n : \A i : Built(b, i)' <=> b = n /\ i = blocks[n].front
        BY <1>5, <1>7, <1>14
      <3>2. frontBlock' = frontBlock /\ rpc' = rpc /\ items' = items /\ offer' = offer
        BY <1>2, <1>3
      <3> QED BY <1>9, <3>1, <3>2 DEF SlotInv
    <2>1. CASE b = n
      <3>1. /\ blocks[n].front = 0
            /\ \A k \in 0 .. blocks[n].size - 1 : blocks[n].data[k] = IF k = 0 THEN offer ELSE Raw
        BY <1>1, <1>2, <1>4 DEF WriterInv
      <3>2. ~ (pos2[b] <= pos2[t])
        BY <1>12, <1>27, <2>1
      <3> QED BY <2>1, <3>1, <3>2
    <2>2. CASE b \in Linked
      <3>1. blocks[b].data[i] =
                IF Place(b, i) < Count(b) /\ pos[b] <= pos[t]
                THEN IF b = frontBlock /\ i = blocks[b].front /\ rpc = "release" THEN Raw
                     ELSE items[start[b] + Place(b, i) + 1]
                ELSE Raw
        BY <1>1, <1>4, <1>14, <2>2 DEF SlotInv
      <3> QED BY <1>6, <1>12, <1>13, <2>2, <3>1
    <2> QED BY <1>9, <2>1, <2>2
  <1>19. WriterInv(pos2)'
    <2>1. WriterInv(pos) /\ SeenFull
      BY <1>2, <1>4 DEF SeenFull
    <2>2. Count(t)' = Count(t) /\ blocks'[t].size = blocks[t].size
      BY <1>6, <1>7, <1>14
    <2>3. pos2[t] < n - 1 /\ (0 < pos2[t] <=> 0 < pos[t])
      BY <1>5, <1>12, <1>27
    <2>4. SeenFull /\ 0 < pos2[tailBlock'] => Count(tailBlock)' = blocks'[tailBlock'].size - 1
      BY <1>1, <1>9, <2>1, <2>2, <2>3 DEF WriterInv
    <2>5. offer' <= N /\ (hadRoom' => Len(items') < MaxSize)
      BY <1>2, <2>1 DEF WriterInv
    <2> QED BY <1>2, <1>9, <2>1, <2>3, <2>4, <2>5 DEF WriterInv
  <1>20. ReaderInv(pos2)'
    <2>1. \A b \in DOMAIN blocks :
              /\ blocks'[b].front = blocks[b].front /\ blocks'[b].localTail = blocks[b].localTail
              /\ Count(b)' \in Nat /\ Count(b)' >= Count(b)
      <3>1. \A b \in DOMAIN blocks : Count(b) \in Nat
        BY View
      <3> QED BY <1>7, <1>14, <3>1
    <2>2. 0 < pos[tailBlock] =>
              /\ Count(frontBlock)' = Count(frontBlock) /\ 0 < pos2[tailBlock']
              /\ blocks'[frontBlock].next = blocks[frontBlock].next
      <3> SUFFICES ASSUME 0 < pos[t]
                   PROVE  /\ Count(frontBlock)' = Count(frontBlock) /\ 0 < pos2[tailBlock']
                          /\ blocks'[frontBlock].next = blocks[frontBlock].next
        BY <1>1
      <3>1. frontBlock # t /\ frontBlock \in DOMAIN blocks
        BY <1>5
      <3>2. Count(frontBlock)' = Count(frontBlock)
        BY <1>3, <1>14, <3>1
      <3>3. 0 < pos2[tailBlock']
        BY <1>9, <1>12
      <3>4. blocks'[frontBlock].next = blocks[frontBlock].next
        BY <1>7, <3>1
      <3> QED BY <3>2, <3>3, <3>4
    <2>3. items' = items /\ UNCHANGED reader
      BY <1>2
    <2> QED BY <2>1, <2>2, <2>3, ReaderStays
  <1>21. Control'
    BY <1>2, <1>3, <1>7 DEF Core, Control
  <1>22. SizeInv'
    <2>1. CASE /\ \A b \in DOMAIN blocks : blocks[b].size > MaxSize
               /\ largestBlockSize > MaxSize
      BY <1>2, <1>7, <2>1 DEF SizeInv
    <2>2. CASE /\ \A b \in DOMAIN blocks : blocks[b].size = MAX_BLOCK_SIZE
               /\ largestBlockSize = MAX_BLOCK_SIZE
               /\ Links > 1
               /\ (Links - 1) * (MAX_BLOCK_SIZE - 1) >= MaxSize
      <3>1. /\ \A b \in DOMAIN blocks' : blocks'[b].size = MAX_BLOCK_SIZE
            /\ largestBlockSize' = MAX_BLOCK_SIZE
            /\ n > 1
        BY <1>2, <1>5, <1>7, <2>2
      <3>2. (n - 1) * (MAX_BLOCK_SIZE - 1) >= MaxSize
        <4> DEFINE M == MAX_BLOCK_SIZE - 1
        <4>1. M \in Nat /\ MaxSize \in Nat
          BY QueueAssumption
        <4>2. (n - 1 - 1) * M >= MaxSize
          BY <1>5, <2>2
        <4> HIDE DEF M
        <4>3. \A a \in Int : a * M \in Int /\ (a - 1) * M + M = a * M
          BY <4>1
        <4>4. n - 1 \in Int
          BY <1>5
        <4>5. (n - 1 - 1) * M + M = (n - 1) * M /\ (n - 1) * M \in Int /\ (n - 1 - 1) * M \in Int
          <5>1. n - 1 - 1 \in Int
            BY <4>4
          <5> QED BY <4>3, <4>4, <5>1
        <4>6. (n - 1) * M >= MaxSize
          BY <4>1, <4>2, <4>5
        <4> QED BY <4>6 DEF M
      <3> QED BY <1>9, <3>1, <3>2 DEF SizeInv
    <2> QED BY <2>1, <2>2 DEF Core, SizeInv
  <1>23. ASSUME NEW b \in DOMAIN blocks
         PROVE  BlockInv(b)'
    <2>1. BlockInv(b) /\ Count(b)' = Count(b)
      BY <1>14 DEF Core
    <2>2. blocks'[b].next \in DOMAIN blocks'
      BY <1>6, <1>7, <2>1 DEF BlockInv
    <2> QED BY <1>7, <2>1, <2>2 DEF BlockInv
  <1>24. Layout(pos2, start2)'
    BY <1>15, <1>17, <1>18, <1>19, <1>20 DEF Layout
  <1>25. Core'
    BY <1>2, <1>7, <1>21, <1>22, <1>23 DEF Core
  <1> QED BY <1>2, <1>24, <1>25
-----------------------------------------------------------------------------
(* The steps of the reader.                                                *)

\* A step that changes nothing but the reader's place.
LEMMA ReaderMoves ==
    ASSUME NEW pos, NEW start, Core, Layout(pos, start),
           UNCHANGED <<alive, items, blocks, writer, frontBlock>>,
           rpc # "release",
           rpc' \in {"idle", "peeked", "reload", "recheck", "next", "nexttail", "element"},
           op' \in {"dequeue", "peek"}, nextBlock' \in DOMAIN blocks,
           inHand' \in Nat, result' \in Nat, hadData' \in BOOLEAN,
           ReaderInv(pos)'
    PROVE  Core' /\ Layout(pos, start)'
  <1>1. UNCHANGED <<wpc, mode, offer, hadRoom, tailBlock, largestBlockSize>>
    BY DEF writer
  <1>2. Still
    BY <1>1 DEF Still, Core
  <1>3. \A b, i : Built(b, i)' <=> Built(b, i)
    BY <1>1 DEF Built
  <1>4. CircleInv(pos)' /\ FillInv(pos, start)' /\ SlotInv(pos, start)' /\ SizeInv'
    BY <1>1, <1>2, <1>3, StillLayout, StillSlots DEF Layout
  <1>5. WriterInv(pos)'
    BY <1>1 DEF Layout, WriterInv, SeenFull, Inc, Links, Count
  <1>6. Control'
    BY <1>1 DEF Core, Control
  <1>7. \A b \in DOMAIN blocks : BlockInv(b)'
    BY DEF Core, BlockInv, Count
  <1> QED BY <1>2, <1>4, <1>5, <1>6, <1>7 DEF Core, Layout, Still

LEMMA AskStep ==
    ASSUME NEW pos, NEW start, Core, Layout(pos, start), Ask
    PROVE  Core' /\ Layout(pos, start)' /\ alive' = alive
  <1>1. /\ rpc \in {"idle", "peeked"} /\ rpc' \in {"reload", "element"}
        /\ rpc' = "element" => blocks[frontBlock].front # blocks[frontBlock].localTail
        /\ op' \in {"dequeue", "peek"}
        /\ UNCHANGED <<alive, items, blocks, writer, frontBlock, nextBlock, held, inHand, result>>
    BY DEF Ask, frontBlock_
  <1>2. (hadData' => items # << >>) /\ hadData' \in BOOLEAN
    <2> DEFINE some == items # << >>
    <2>1. hadData' = some /\ some \in BOOLEAN
      BY DEF Ask
    <2>2. some => items # << >>
      OBVIOUS
    <2> HIDE DEF some
    <2> QED BY ONLY <2>1, <2>2, Zenon
  <1>3. ReaderInv(pos)'
    BY <1>1, <1>2 DEF ReaderInv
  <1>4. nextBlock' \in DOMAIN blocks /\ inHand' \in Nat /\ result' \in Nat
    BY <1>1 DEF Core, Control
  <1> QED BY <1>1, <1>2, <1>3, <1>4, ReaderMoves

\* The reader finds nothing only if there was nothing when it asked.
LEMMA CheckTailBlockStep ==
    ASSUME NEW pos, NEW start, Core, Layout(pos, start), CheckTailBlock
    PROVE  Core' /\ Layout(pos, start)' /\ alive' = alive /\ (rpc' = "idle" => ~ hadData)
  <1>1. /\ rpc = "tailblock" /\ rpc' \in {"recheck", "idle"}
        /\ rpc' = "recheck" <=> frontBlock # tailBlock
        /\ rpc' = "recheck" => hadData' = hadData
        /\ rpc' = "idle" => hadData' = TRUE
        /\ UNCHANGED <<alive, items, blocks, writer, op, frontBlock, nextBlock, held, inHand, result>>
    BY DEF CheckTailBlock
  <1>2. CircleInv(pos) /\ ReaderInv(pos)
    BY DEF Layout
  <1>3. frontBlock # tailBlock <=> 0 < pos[tailBlock]
    <2>1. /\ frontBlock \in Linked /\ tailBlock \in Linked /\ Links \in Int
          /\ pos[frontBlock] = 0 /\ pos[tailBlock] \in 0 .. Links - 1
          /\ \A b, d \in Linked : pos[b] = pos[d] => b = d
      BY <1>2, LinkedAreBlocks DEF CircleInv
    <2> QED BY <2>1
  <1>4. rpc' = "idle" => ~ hadData
    BY <1>1, <1>2, <1>3 DEF ReaderInv
  <1>5. tailBlock' = tailBlock
    BY <1>1 DEF writer
  <1>6. ReaderInv(pos)'
    BY <1>1, <1>2, <1>3, <1>5 DEF ReaderInv
  <1>7. /\ nextBlock' \in DOMAIN blocks /\ inHand' \in Nat /\ result' \in Nat
        /\ op' \in {"dequeue", "peek"} /\ hadData' \in BOOLEAN
    BY <1>1 DEF Core, Control
  <1> QED BY <1>1, <1>4, <1>6, <1>7, ReaderMoves

LEMMA LoadNextStep ==
    ASSUME NEW pos, NEW start, Core, Layout(pos, start), LoadNext
    PROVE  Core' /\ Layout(pos, start)' /\ alive' = alive
  <1>1. /\ rpc = "next" /\ rpc' = "nexttail" /\ nextBlock' = blocks[frontBlock].next
        /\ UNCHANGED <<alive, items, blocks, writer, op, frontBlock, held, inHand, result, hadData>>
    BY DEF LoadNext, frontBlock_
  <1>2. tailBlock' = tailBlock
    BY <1>1 DEF writer
  <1>3. ReaderInv(pos)'
    BY <1>1, <1>2 DEF Layout, ReaderInv, Count
  <1>4. nextBlock' \in DOMAIN blocks
    <2>1. frontBlock \in DOMAIN blocks
      BY DEF Core, Control
    <2> QED BY <1>1, <2>1, View
  <1>5. inHand' \in Nat /\ result' \in Nat /\ op' \in {"dequeue", "peek"} /\ hadData' \in BOOLEAN
    BY <1>1 DEF Core, Control
  <1> QED BY <1>1, <1>3, <1>4, <1>5, ReaderMoves

\* The reader remembers the tail index of a block.
LEMMA ReaderLooks ==
    ASSUME NEW pos, NEW start, Core, Layout(pos, start),
           NEW t \in Linked, blocks' = [blocks EXCEPT ![t].localTail = blocks[t].tail],
           UNCHANGED <<alive, items, writer, op, frontBlock, nextBlock, held, inHand, result, hadData>>,
           rpc \in {"reload", "recheck", "nexttail"},
           rpc' \in {"element", "tailblock", "next", "advance"}
    PROVE  /\ Core' /\ CircleInv(pos)' /\ FillInv(pos, start)' /\ SlotInv(pos, start)'
           /\ WriterInv(pos)'
           /\ \A b \in DOMAIN blocks :
                 /\ blocks'[b].size = blocks[b].size /\ blocks'[b].front = blocks[b].front
                 /\ blocks'[b].tail = blocks[b].tail /\ blocks'[b].next = blocks[b].next
                 /\ Count(b)' = Count(b)
           /\ blocks'[t].localTail = blocks[t].tail
  <1>1. UNCHANGED <<wpc, mode, offer, hadRoom, tailBlock, largestBlockSize>>
    BY DEF writer
  <1>2. /\ t \in DOMAIN blocks /\ blocks[t].tail \in 0 .. blocks[t].size - 1
        /\ blocks[t].size \in Nat /\ Linked \subseteq DOMAIN blocks
    BY LinkedAreBlocks, View
  <1>3. /\ blocks' \in Seq(Block) /\ Len(blocks') = Len(blocks) /\ DOMAIN blocks' = DOMAIN blocks
        /\ \A b \in DOMAIN blocks :
              /\ blocks'[b].localTail = IF b = t THEN blocks[t].tail ELSE blocks[b].localTail
              /\ blocks'[b].size = blocks[b].size /\ blocks'[b].front = blocks[b].front
              /\ blocks'[b].tail = blocks[b].tail
              /\ blocks'[b].localFront = blocks[b].localFront /\ blocks'[b].next = blocks[b].next
              /\ blocks'[b].data = blocks[b].data
    <2>1. blocks \in Seq(Block) /\ blocks[t].tail \in Nat
      BY <1>2 DEF Core
    <2> QED BY <1>2, <2>1, SetLocalTail
  <1>4. Still
    BY <1>1, <1>3 DEF Still
  <1>5. \A b \in DOMAIN blocks : \A i : Built(b, i)' <=> Built(b, i)
    <2>1. tailBlock \in DOMAIN blocks
      BY DEF Core, Control
    <2> QED BY <1>1, <1>3, <2>1 DEF Built
  <1>6. /\ CircleInv(pos)' /\ FillInv(pos, start)' /\ SizeInv' /\ Links' = Links
        /\ \A b \in DOMAIN blocks : Count(b)' = Count(b)
    BY <1>4, StillLayout DEF Layout
  <1>7. SlotInv(pos, start)'
    BY <1>1, <1>2, <1>3, <1>4, <1>5, StillSlots DEF Layout
  <1>8. WriterInv(pos)'
    <2>1. pos[tailBlock] \in Nat /\ Len(items) \in Nat
      BY Bounds DEF Layout
    <2>2. \A b \in DOMAIN blocks \ Linked : blocks'[b] = blocks[b]
      BY <1>2
    <2> QED BY <1>3, <1>6, <2>1, <2>2, WriterStays
  <1>9. Control'
    BY <1>1, <1>3 DEF Core, Control
  <1>10. ASSUME NEW b \in DOMAIN blocks
         PROVE  BlockInv(b)'
    <2>1. BlockInv(b)
      BY DEF Core
    <2>2. CASE b = t
      <3>1. /\ blocks'[b].size = blocks[b].size /\ blocks'[b].front = blocks[b].front
            /\ blocks'[b].tail = blocks[b].tail /\ blocks'[b].localFront = blocks[b].localFront
            /\ blocks'[b].next = blocks[b].next /\ blocks'[b].data = blocks[b].data
            /\ blocks'[b].localTail = blocks[b].tail /\ DOMAIN blocks' = DOMAIN blocks
        BY <1>3, <2>2
      <3>2. Count(b)' = Count(b)
        BY <1>6
      <3>3. blocks[b].tail < blocks[b].size
        BY <1>2, <2>2
      <3>4. Dist(blocks[b].size, blocks[b].front, blocks[b].tail) <= Count(b)
        <4>1. Count(b) \in Int
          BY View
        <4> QED BY <4>1 DEF Count
      <3> QED BY <2>1, <2>2, <3>1, <3>2, <3>3, <3>4 DEF BlockInv
    <2>3. CASE b # t
      BY <1>3, <1>6, <2>1, <2>3 DEF BlockInv
    <2> QED BY <2>2, <2>3
  <1> QED BY <1>2, <1>3, <1>6, <1>7, <1>8, <1>9, <1>10 DEF Core

\* The front block, and the one behind it if the reader may go on to it.
LEMMA FrontFacts ==
    ASSUME NEW pos, NEW start, Core, Layout(pos, start)
    PROVE  /\ frontBlock \in Linked /\ frontBlock \in DOMAIN blocks
           /\ Count(frontBlock) \in Nat
           /\ Count(frontBlock) = 0 <=> blocks[frontBlock].front = blocks[frontBlock].tail
           /\ pos[tailBlock] \in Nat /\ pos[frontBlock] = 0 /\ start[frontBlock] = 0
           /\ Count(frontBlock) <= Len(items) /\ Len(items) \in Nat
           /\ pos[tailBlock] = 0 => Count(frontBlock) = Len(items)
           /\ 0 < pos[tailBlock] =>
                 LET next == blocks[frontBlock].next IN
                 /\ next \in Linked /\ next \in DOMAIN blocks /\ pos[next] = 1 /\ next # frontBlock
                 /\ Count(next) > 0 /\ Count(next) \in Nat
                 /\ blocks[next].front # blocks[next].tail
                 /\ start[next] = Count(frontBlock)
                 /\ Count(frontBlock) + Count(next) <= Len(items)
  <1>1. CircleInv(pos) /\ FillInv(pos, start)
    BY DEF Layout
  <1>2. /\ Linked \subseteq DOMAIN blocks /\ frontBlock \in Linked /\ tailBlock \in Linked
        /\ Links \in Int /\ pos[frontBlock] = 0 /\ start[frontBlock] = 0
    BY <1>1, LinkedAreBlocks DEF CircleInv, FillInv
  <1>3. Count(frontBlock) \in Nat
        /\ (Count(frontBlock) = 0 <=> blocks[frontBlock].front = blocks[frontBlock].tail)
    BY <1>2, View
  <1>4. pos[tailBlock] \in Nat /\ pos[tailBlock] <= Links - 1 /\ Len(items) \in Nat
    BY <1>1, <1>2 DEF CircleInv, Core
  <1>5. Count(frontBlock) <= Len(items)
    <2>1. start[frontBlock] + Count(frontBlock) <= Len(items)
      BY <1>1, <1>2, <1>4, Bounds
    <2> QED BY <1>2, <1>3, <2>1
  <1>6. pos[tailBlock] = 0 => Count(frontBlock) = Len(items)
    <2>1. pos[tailBlock] = 0 => tailBlock = frontBlock
      BY <1>1, <1>2 DEF CircleInv
    <2>2. start[tailBlock] + Count(tailBlock) = Len(items)
      BY <1>1 DEF FillInv
    <2> QED BY <1>2, <1>3, <2>1, <2>2
  <1>7. ASSUME 0 < pos[tailBlock]
        PROVE  LET next == blocks[frontBlock].next IN
               /\ next \in Linked /\ next \in DOMAIN blocks /\ pos[next] = 1 /\ next # frontBlock
               /\ Count(next) > 0 /\ Count(next) \in Nat
               /\ blocks[next].front # blocks[next].tail
               /\ start[next] = Count(frontBlock)
               /\ Count(frontBlock) + Count(next) <= Len(items)
    <2> DEFINE next == blocks[frontBlock].next
    <2>1. next \in Linked /\ pos[next] = IF pos[frontBlock] = Links - 1 THEN 0 ELSE pos[frontBlock] + 1
      BY <1>1, <1>2 DEF CircleInv
    <2>2. pos[next] = 1
      BY <1>2, <1>4, <1>7, <2>1
    <2>3. start[next] = Count(frontBlock)
      <3>1. start[next] = start[frontBlock] + Count(frontBlock)
        BY <1>1, <1>2, <1>7 DEF FillInv
      <3> QED BY <1>2, <1>3, <3>1
    <2> HIDE DEF next
    <2>4. Count(next) > 0
      BY <1>1, <1>4, <1>7, <2>1, <2>2 DEF FillInv
    <2>5. next \in DOMAIN blocks /\ next # frontBlock
      BY <1>2, <2>1, <2>2
    <2>6. Count(next) \in Nat /\ blocks[next].front # blocks[next].tail
      BY <2>4, <2>5, View
    <2>7. start[next] + Count(next) <= Len(items)
      BY <1>1, <1>4, <1>7, <2>1, <2>2, Bounds
    <2>8. Count(frontBlock) + Count(next) <= Len(items)
      BY <2>3, <2>7
    <2> QED BY <2>1, <2>2, <2>3, <2>4, <2>5, <2>6, <2>8 DEF next
  <1> QED BY <1>2, <1>3, <1>4, <1>5, <1>6, <1>7

LEMMA ReloadTailStep ==
    ASSUME NEW pos, NEW start, Core, Layout(pos, start), ReloadTail
    PROVE  Core' /\ Layout(pos, start)' /\ alive' = alive
  <1>1. PICK f : f = frontBlock
    OBVIOUS
  <1>2. /\ rpc = "reload" /\ rpc' \in {"element", "tailblock"}
        /\ rpc' = "element" <=> blocks[f].front # blocks[f].tail
        /\ blocks' = [blocks EXCEPT ![f].localTail = blocks[f].tail]
        /\ UNCHANGED <<alive, items, writer, op, frontBlock, nextBlock, held, inHand, result, hadData>>
    BY <1>1 DEF ReloadTail, frontBlock_
  <1>3. f \in Linked /\ f \in DOMAIN blocks
    BY <1>1, FrontFacts
  <1>4. /\ Core' /\ CircleInv(pos)' /\ FillInv(pos, start)' /\ SlotInv(pos, start)'
        /\ WriterInv(pos)'
        /\ \A b \in DOMAIN blocks :
              /\ blocks'[b].size = blocks[b].size /\ blocks'[b].front = blocks[b].front
              /\ blocks'[b].tail = blocks[b].tail /\ blocks'[b].next = blocks[b].next
              /\ Count(b)' = Count(b)
        /\ blocks'[f].localTail = blocks[f].tail
    BY <1>2, <1>3, ReaderLooks
  <1>5. tailBlock' = tailBlock
    BY <1>2 DEF writer
  <1>6. ReaderInv(pos)'
    <2>1. rpc' = "element" => blocks'[f].front # blocks'[f].localTail
      BY <1>2, <1>3, <1>4
    <2>2. hadData => items # << >>
      BY <1>2 DEF Layout, ReaderInv
    <2>3. rpc' = "tailblock" /\ hadData => 0 < pos[tailBlock]
      <3> SUFFICES ASSUME rpc' = "tailblock", hadData, pos[tailBlock] = 0
                   PROVE  FALSE
        BY FrontFacts
      <3>1. Count(frontBlock) = 0
        BY <1>1, <1>2, FrontFacts
      <3>2. Len(items) = 0
        BY <3>1, FrontFacts
      <3> QED BY <2>2, <3>2 DEF Core
    <2> QED BY <1>1, <1>2, <1>5, <2>1, <2>2, <2>3 DEF ReaderInv
  <1> QED BY <1>2, <1>4, <1>6 DEF Layout

LEMMA RecheckStep ==
    ASSUME NEW pos, NEW start, Core, Layout(pos, start), Recheck
    PROVE  Core' /\ Layout(pos, start)' /\ alive' = alive
  <1>1. PICK f : f = frontBlock
    OBVIOUS
  <1>2. /\ rpc = "recheck" /\ rpc' \in {"element", "next"}
        /\ rpc' = "element" <=> blocks[f].front # blocks[f].tail
        /\ blocks' = [blocks EXCEPT ![f].localTail = blocks[f].tail]
        /\ UNCHANGED <<alive, items, writer, op, frontBlock, nextBlock, held, inHand, result, hadData>>
    BY <1>1 DEF Recheck, frontBlock_
  <1>3. f \in Linked /\ f \in DOMAIN blocks
    BY <1>1, FrontFacts
  <1>4. /\ Core' /\ CircleInv(pos)' /\ FillInv(pos, start)' /\ SlotInv(pos, start)'
        /\ WriterInv(pos)'
        /\ \A b \in DOMAIN blocks :
              /\ blocks'[b].size = blocks[b].size /\ blocks'[b].front = blocks[b].front
              /\ blocks'[b].tail = blocks[b].tail /\ blocks'[b].next = blocks[b].next
              /\ Count(b)' = Count(b)
        /\ blocks'[f].localTail = blocks[f].tail
    BY <1>2, <1>3, ReaderLooks
  <1>5. tailBlock' = tailBlock
    BY <1>2 DEF writer
  <1>6. ReaderInv(pos)'
    <2>1. rpc' = "element" => blocks'[f].front # blocks'[f].localTail
      BY <1>2, <1>3, <1>4
    <2>2. (hadData => items # << >>) /\ 0 < pos[tailBlock]
      BY <1>2 DEF Layout, ReaderInv
    <2>3. rpc' = "next" => Count(f)' = 0
      <3>1. rpc' = "next" => Count(f) = 0
        BY <1>1, <1>2, FrontFacts
      <3> QED BY <1>3, <1>4, <3>1
    <2>4. frontBlock' = f
      BY <1>1, <1>2
    <2> QED BY <1>2, <1>5, <2>1, <2>2, <2>3, <2>4 DEF ReaderInv
  <1> QED BY <1>2, <1>4, <1>6 DEF Layout

\* The slot at the front of the block the reader is in, or goes on to.
LEMMA FirstValue ==
    ASSUME NEW pos, NEW start, Core, Layout(pos, start), NEW b \in Linked, rpc # "release",
           pos[b] <= pos[tailBlock], Count(b) > 0, start[b] = 0
    PROVE  blocks[b].data[blocks[b].front] = items[1] /\ items[1] \in Nat /\ Len(items) >= 1
  <1>1. b \in DOMAIN blocks
    BY LinkedAreBlocks
  <1>7. PICK i : i = blocks[b].front
    OBVIOUS
  <1>2. i \in 0 .. blocks[b].size - 1 /\ Place(b, i) = 0 /\ Count(b) \in Nat
    <2>1. i \in 0 .. blocks[b].size - 1 /\ Count(b) \in Nat
      BY <1>1, <1>7, View
    <2> QED BY <1>7, <2>1, Slot
  <1>3. blocks[b].data[i] = items[start[b] + Place(b, i) + 1]
    BY <1>2 DEF Layout, SlotInv
  <1>4. Count(b) <= Len(items)
    <2>1. start[b] + Count(b) <= Len(items)
      BY Bounds DEF Layout
    <2> QED BY <1>2, <2>1
  <1>5. items \in Seq(Nat) /\ Len(items) >= 1
    BY <1>2, <1>4 DEF Core
  <1>6. items[1] \in Nat
    BY <1>5
  <1> QED BY <1>2, <1>3, <1>5, <1>6, <1>7

LEMMA LoadNextTailStep ==
    ASSUME NEW pos, NEW start, Core, Layout(pos, start), LoadNextTail
    PROVE  Core' /\ Layout(pos, start)' /\ alive' = alive
  <1>1. PICK t : t = nextBlock
    OBVIOUS
  <1>2. /\ rpc = "nexttail" /\ 0 < pos[tailBlock] /\ Count(frontBlock) = 0
        /\ t = blocks[frontBlock].next
        /\ hadData => items # << >>
    BY <1>1 DEF LoadNextTail, Layout, ReaderInv
  <1>3. /\ t \in Linked /\ t \in DOMAIN blocks /\ pos[t] = 1 /\ t # frontBlock
        /\ Count(t) > 0 /\ blocks[t].front # blocks[t].tail /\ start[t] = 0
        /\ frontBlock \in DOMAIN blocks
        /\ pos[tailBlock] \in Nat
    BY <1>2, FrontFacts
  <1>4. CASE op = "peek"
    <2>1. /\ held' = <<t, blocks[t].front>> /\ inHand' = blocks[t].data[blocks[t].front]
          /\ hadData' = TRUE /\ rpc' = "peeked"
          /\ UNCHANGED <<alive, items, blocks, writer, op, frontBlock, nextBlock, result>>
      BY <1>1, <1>4 DEF LoadNextTail, Point
    <2>2. inHand' = items[1] /\ items[1] \in Nat
      BY <1>2, <1>3, <2>1, FirstValue
    <2>3. held'[1] = t /\ held'[2] = blocks[t].front /\ tailBlock' = tailBlock
      BY <2>1 DEF writer
    <2>4. Count(frontBlock)' = 0
      BY <1>2, <2>1 DEF Count
    <2>5. ReaderInv(pos)'
      BY <1>2, <2>1, <2>2, <2>3, <2>4 DEF ReaderInv
    <2>6. /\ nextBlock' \in DOMAIN blocks /\ result' \in Nat
          /\ op' \in {"dequeue", "peek"} /\ hadData' \in BOOLEAN
      BY <2>1 DEF Core, Control
    <2> QED BY <1>2, <2>1, <2>2, <2>5, <2>6, ReaderMoves
  <1>5. CASE op # "peek"
    <2>1. /\ blocks' = [blocks EXCEPT ![t].localTail = blocks[t].tail]
          /\ rpc' = "advance"
          /\ UNCHANGED <<alive, items, writer, op, frontBlock, nextBlock, held, inHand, result, hadData>>
      BY <1>1, <1>5 DEF LoadNextTail
    <2>2. /\ Core' /\ CircleInv(pos)' /\ FillInv(pos, start)' /\ SlotInv(pos, start)'
          /\ WriterInv(pos)'
          /\ \A b \in DOMAIN blocks :
                /\ blocks'[b].size = blocks[b].size /\ blocks'[b].front = blocks[b].front
                /\ blocks'[b].tail = blocks[b].tail /\ blocks'[b].next = blocks[b].next
                /\ Count(b)' = Count(b)
          /\ blocks'[t].localTail = blocks[t].tail
      BY <1>2, <1>3, <2>1, ReaderLooks
    <2>3. tailBlock' = tailBlock /\ frontBlock' = frontBlock /\ nextBlock' = t
      BY <1>1, <2>1 DEF writer
    <2>4. Count(frontBlock)' = 0
      BY <1>2, <1>3, <2>2, <2>3
    <2>5. blocks'[t].localTail # blocks'[t].front /\ blocks'[frontBlock].next = t
      BY <1>2, <1>3, <2>2
    <2>6. ReaderInv(pos)'
      BY <1>2, <2>1, <2>3, <2>4, <2>5 DEF ReaderInv
    <2> QED BY <2>1, <2>2, <2>6 DEF Layout
  <1> QED BY <1>4, <1>5

\* The reader goes on to the next block; the block it leaves becomes the last one.
LEMMA AdvanceFrontStep ==
    ASSUME NEW pos, NEW start, Core, Layout(pos, start), AdvanceFront
    PROVE  Core' /\ alive' = alive /\ \E pos2 : Layout(pos2, start)'
  <1>1. PICK f, t, n : f = frontBlock /\ t = nextBlock /\ n = Links
    OBVIOUS
  <1>2. /\ rpc = "advance" /\ rpc' = "element" /\ frontBlock' = t
        /\ UNCHANGED <<alive, items, blocks, writer, op, nextBlock, held, inHand, result, hadData>>
    BY <1>1 DEF AdvanceFront
  <1>3. /\ CircleInv(pos) /\ FillInv(pos, start) /\ SlotInv(pos, start)
        /\ WriterInv(pos) /\ ReaderInv(pos)
    BY DEF Layout
  <1>4. /\ 0 < pos[tailBlock] /\ Count(f) = 0 /\ t = blocks[f].next
        /\ blocks[t].localTail # blocks[t].front
        /\ hadData => items # << >>
    BY <1>1, <1>2, <1>3 DEF ReaderInv
  <1>5. /\ f \in Linked /\ pos[f] = 0 /\ t \in Linked /\ t \in DOMAIN blocks /\ pos[t] = 1 /\ t # f
        /\ start[t] = 0 /\ tailBlock \in Linked
    <2>1. tailBlock \in Linked
      BY <1>3 DEF CircleInv
    <2> QED BY <1>1, <1>4, <2>1, FrontFacts
  <1>6. UNCHANGED <<wpc, mode, offer, hadRoom, tailBlock, largestBlockSize>>
    BY <1>2 DEF writer
  <1>7. /\ Linked \subseteq DOMAIN blocks /\ n \in Int
        /\ Links' = n /\ Linked' = Linked
        /\ \A b : Count(b)' = Count(b) /\ \A i : Place(b, i)' = Place(b, i)
        /\ \A b, i : Built(b, i)' <=> Built(b, i)
    <2>1. Links' = n
      BY <1>1, <1>2, <1>6 DEF Links
    <2> QED BY <1>1, <1>2, <1>6, <2>1, LinkedAreBlocks DEF Linked, Count, Place, Built
  <1>8. \A b \in Linked : pos[b] \in 0 .. n - 1
    BY <1>1, <1>3 DEF CircleInv
  <1>9. /\ \A b, d \in Linked : pos[b] = pos[d] => b = d
        /\ \A p \in 0 .. n - 1 : \E b \in Linked : pos[b] = p
    BY <1>1, <1>3 DEF CircleInv
  <1>10. \A b \in Linked :
            /\ blocks[b].next \in Linked
            /\ pos[blocks[b].next] = IF pos[b] = n - 1 THEN 0 ELSE pos[b] + 1
    BY <1>1, <1>3 DEF CircleInv
  <1>11. PICK pos2 : pos2 = [b \in Linked |-> IF pos[b] = 0 THEN n - 1 ELSE pos[b] - 1]
    OBVIOUS
  <1>12. \A b \in Linked : /\ pos2[b] = IF pos[b] = 0 THEN n - 1 ELSE pos[b] - 1
                           /\ pos2[b] \in 0 .. n - 1
    <2>1. \A b \in Linked : pos2[b] = IF pos[b] = 0 THEN n - 1 ELSE pos[b] - 1
      BY <1>11
    <2>2. ASSUME NEW b \in Linked
          PROVE  pos2[b] \in 0 .. n - 1
      <3>1. pos[b] \in 0 .. n - 1 /\ pos2[b] = IF pos[b] = 0 THEN n - 1 ELSE pos[b] - 1
        BY <1>8, <2>1
      <3> QED BY <1>7, <3>1
    <2> QED BY <2>1, <2>2
  <1>13. /\ pos[tailBlock] \in 0 .. n - 1 /\ pos2[tailBlock] = pos[tailBlock] - 1
         /\ pos2[f] = n - 1 /\ pos2[t] = 0
         /\ \A b \in Linked : b # f => 0 < pos[b] /\ pos2[b] = pos[b] - 1
    <2>1. \A b \in Linked : b # f => pos[b] # 0
      BY <1>5, <1>9
    <2>2. pos[tailBlock] \in 0 .. n - 1
      BY <1>5, <1>8
    <2>3. ASSUME NEW b \in Linked, b # f
          PROVE  0 < pos[b] /\ pos2[b] = pos[b] - 1
      <3>1. pos[b] \in 0 .. n - 1 /\ pos[b] # 0
        BY <1>8, <2>1, <2>3
      <3> QED BY <1>12, <3>1
    <2> QED BY <1>4, <1>5, <1>12, <2>2, <2>3
  <1>14. CircleInv(pos2)'
    <2>1. pos2 \in [Linked -> 0 .. n - 1]
      BY <1>11, <1>12
    <2>2. ASSUME NEW b \in Linked, NEW d \in Linked, pos2[b] = pos2[d]
          PROVE  b = d
      <3>1. pos[b] \in 0 .. n - 1 /\ pos[d] \in 0 .. n - 1
        BY <1>8
      <3>2. /\ pos2[b] = IF pos[b] = 0 THEN n - 1 ELSE pos[b] - 1
            /\ pos2[d] = IF pos[d] = 0 THEN n - 1 ELSE pos[d] - 1
        BY <1>12
      <3>3. pos[b] = pos[d]
        <4> DEFINE p == pos[b]
                   q == pos[d]
        <4>1. p \in 0 .. n - 1 /\ q \in 0 .. n - 1 /\ n \in Int
          BY <1>7, <3>1
        <4>2. (IF p = 0 THEN n - 1 ELSE p - 1) = (IF q = 0 THEN n - 1 ELSE q - 1)
          BY <2>2, <3>2
        <4> HIDE DEF p, q
        <4>3. p = q
          BY ONLY <4>1, <4>2
        <4> QED BY <4>3 DEF p, q
      <3> QED BY <1>9, <3>3
    <2>3. ASSUME NEW p \in 0 .. n - 1
          PROVE  \E b \in Linked : pos2[b] = p
      <3>1. CASE p = n - 1
        BY <1>5, <1>13, <3>1
      <3>2. CASE p # n - 1
        <4>1. p + 1 \in 0 .. n - 1 /\ p + 1 # 0 /\ (p + 1) - 1 = p
          BY <1>7, <3>2
        <4>2. PICK b \in Linked : pos[b] = p + 1
          BY <1>9, <4>1
        <4>3. pos2[b] = p
          BY <1>12, <4>1, <4>2
        <4> QED BY <4>3
      <3> QED BY <3>1, <3>2
    <2>4. ASSUME NEW b \in Linked
          PROVE  /\ blocks[b].next \in Linked
                 /\ pos2[blocks[b].next] = IF pos2[b] = n - 1 THEN 0 ELSE pos2[b] + 1
      <3>1. PICK x : x = blocks[b].next
        OBVIOUS
      <3>2. x \in Linked /\ pos[x] = IF pos[b] = n - 1 THEN 0 ELSE pos[b] + 1
        BY <1>10, <3>1
      <3>3. pos[b] \in 0 .. n - 1
        BY <1>8
      <3>4. /\ pos2[b] = IF pos[b] = 0 THEN n - 1 ELSE pos[b] - 1
            /\ pos2[x] = IF pos[x] = 0 THEN n - 1 ELSE pos[x] - 1
        BY <1>12, <3>2
      <3>5. n > 1
        BY <1>4, <1>7, <1>13
      <3>6. pos2[x] = IF pos2[b] = n - 1 THEN 0 ELSE pos2[b] + 1
        BY <1>7, <3>2, <3>3, <3>4, <3>5
      <3> QED BY <3>1, <3>2, <3>6
    <2> QED BY <1>2, <1>5, <1>6, <1>7, <1>13, <2>1, <2>2, <2>3, <2>4 DEF CircleInv
  <1>15. FillInv(pos2, start)'
    <2>1. /\ start[tailBlock] + Count(tailBlock) = Len(items) /\ start \in [Linked -> Nat]
      BY <1>3 DEF FillInv
    <2>2. ASSUME NEW b \in Linked
          PROVE  /\ pos2[b] < pos2[tailBlock] => start[blocks[b].next] = start[b] + Count(b)
                 /\ 0 < pos2[b] /\ pos2[b] <= pos2[tailBlock] => Count(b) > 0
                 /\ 0 < pos2[b] /\ pos2[b] < pos2[tailBlock] => Count(b) = blocks[b].size - 1
                 /\ pos2[tailBlock] < pos2[b] =>
                       Count(b) = IF wpc = "advance" /\ b = blocks[tailBlock].next THEN 1 ELSE 0
      <3>1. CASE b = f
        <4>1. ~ (pos2[b] <= pos2[tailBlock]) /\ ~ (pos2[b] < pos2[tailBlock])
          BY <1>7, <1>13, <3>1
        <4>2. ~ (wpc = "advance" /\ b = blocks[tailBlock].next)
          <5> SUFFICES ASSUME wpc = "advance", b = blocks[tailBlock].next
                       PROVE  FALSE
            OBVIOUS
          <5>1. pos[tailBlock] < n - 1
            BY <1>1, <1>3 DEF WriterInv
          <5>2. pos[b] = IF pos[tailBlock] = n - 1 THEN 0 ELSE pos[tailBlock] + 1
            BY <1>5, <1>10
          <5> QED BY <1>5, <1>7, <1>13, <3>1, <5>1, <5>2
        <4> QED BY <1>4, <3>1, <4>1, <4>2
      <3>2. CASE b # f
        <4>1. pos2[b] = pos[b] - 1 /\ pos[b] \in Int /\ 0 < pos[b] /\ pos[tailBlock] \in Int
          BY <1>8, <1>13, <3>2
        <4>2. /\ pos2[b] < pos2[tailBlock] <=> pos[b] < pos[tailBlock]
              /\ pos2[b] <= pos2[tailBlock] <=> pos[b] <= pos[tailBlock]
              /\ pos2[tailBlock] < pos2[b] <=> pos[tailBlock] < pos[b]
          BY <1>13, <4>1
        <4> QED BY <1>3, <4>1, <4>2 DEF FillInv
      <3> QED BY <3>1, <3>2
    <2>3. ASSUME NEW b \in Linked, NEW d \in Linked, pos2[b] < pos2[d] /\ pos2[d] <= pos2[tailBlock]
          PROVE  start[b] + Count(b) <= start[d]
      <3>1. d # f
        BY <1>7, <1>13, <2>3
      <3>2. b # f
        <4>1. pos2[d] \in 0 .. n - 1
          BY <1>12
        <4> QED BY <1>7, <1>13, <2>3, <4>1
      <3>3. pos[b] < pos[d] /\ pos[d] <= pos[tailBlock]
        <4>1. pos[b] \in Int /\ pos[d] \in Int /\ pos2[b] = pos[b] - 1 /\ pos2[d] = pos[d] - 1
          BY <1>8, <1>13, <3>1, <3>2
        <4> QED BY <1>13, <2>3, <4>1
      <3> QED BY <1>3, <3>3 DEF FillInv
    <2> QED BY <1>2, <1>5, <1>6, <1>7, <2>1, <2>2, <2>3 DEF FillInv
  <1>16. SlotInv(pos2, start)'
    <2> SUFFICES ASSUME NEW b \in Linked, NEW i \in 0 .. blocks[b].size - 1
                 PROVE  blocks[b].data[i] =
                           IF Place(b, i) < Count(b) /\ pos2[b] <= pos2[tailBlock]
                           THEN items[start[b] + Place(b, i) + 1]
                           ELSE IF Built(b, i) THEN offer ELSE Raw
      BY <1>2, <1>6, <1>7 DEF SlotInv
    <2>1. blocks[b].data[i] =
              IF Place(b, i) < Count(b) /\ pos[b] <= pos[tailBlock]
              THEN items[start[b] + Place(b, i) + 1]
              ELSE IF Built(b, i) THEN offer ELSE Raw
      BY <1>2, <1>3 DEF SlotInv
    <2>2. CASE b = f
      <3>1. ~ (Place(b, i) < Count(b))
        <4>1. Place(b, i) \in Nat
          BY Slot
        <4> QED BY <1>4, <2>2, <4>1
      <3> QED BY <2>1, <3>1
    <2>3. CASE b # f
      <3>1. pos2[b] <= pos2[tailBlock] <=> pos[b] <= pos[tailBlock]
        <4>1. pos2[b] = pos[b] - 1 /\ pos[b] \in Int
          BY <1>8, <1>13, <2>3
        <4> QED BY <1>13, <4>1
      <3> QED BY <2>1, <3>1
    <2> QED BY <2>2, <2>3
  <1>17. WriterInv(pos2)'
    <2>1. pos2[tailBlock] \in Nat /\ pos2[tailBlock] <= pos[tailBlock]
      BY <1>5, <1>12, <1>13
    <2>2. Len(items') \in Nat /\ Len(items') <= Len(items)
      BY <1>2 DEF Core
    <2> QED BY <1>1, <1>2, <1>7, <2>1, <2>2, WriterStays
  <1>18. ReaderInv(pos2)'
    <2>1. blocks'[frontBlock'].front # blocks'[frontBlock'].localTail
      BY <1>2, <1>4
    <2> QED BY <1>2, <1>4, <2>1 DEF ReaderInv
  <1>19. Control'
    BY <1>2, <1>5, <1>6 DEF Core, Control
  <1>20. SizeInv' /\ \A b \in DOMAIN blocks : BlockInv(b)'
    BY <1>1, <1>2, <1>6, <1>7 DEF Core, SizeInv, BlockInv
  <1>21. Layout(pos2, start)'
    BY <1>14, <1>15, <1>16, <1>17, <1>18 DEF Layout
  <1>22. Core'
    BY <1>2, <1>19, <1>20 DEF Core
  <1> QED BY <1>2, <1>21, <1>22

LEMMA ElementStep ==
    ASSUME NEW pos, NEW start, Core, Layout(pos, start), Element
    PROVE  Core' /\ Layout(pos, start)' /\ alive' = alive
  <1>1. PICK f, j : f = frontBlock /\ j = blocks[f].front
    OBVIOUS
  <1>2. rpc = "element"
    BY DEF Element
  <1>3. /\ f \in Linked /\ f \in DOMAIN blocks /\ Linked \subseteq DOMAIN blocks
        /\ pos[f] = 0 /\ start[f] = 0 /\ Count(f) \in Nat
        /\ pos[tailBlock] \in Nat
    BY <1>1, FrontFacts, LinkedAreBlocks
  <1>4. /\ Count(f) > 0 /\ pos[f] <= pos[tailBlock]
        /\ blocks[f].front # blocks[f].localTail /\ (hadData => items # << >>)
    BY <1>1, <1>2, <1>3, ReaderAt DEF Layout, ReaderInv
  <1>5. blocks[f].data[j] = items[1] /\ items[1] \in Nat /\ Len(items) >= 1
    BY <1>1, <1>2, <1>3, <1>4, FirstValue
  <1>6. CASE op = "peek"
    <2>1. /\ held' = <<f, j>> /\ inHand' = blocks[f].data[j]
          /\ hadData' = TRUE /\ rpc' = "peeked"
          /\ UNCHANGED <<alive, items, blocks, writer, op, frontBlock, nextBlock, result>>
      BY <1>1, <1>6 DEF Element, Point, frontBlock_
    <2>2. held'[1] = f /\ held'[2] = j /\ frontBlock' = f
      BY <1>1, <2>1
    <2>3. Count(f)' > 0
      BY <1>4, <2>1 DEF Count
    <2>4. ReaderInv(pos)'
      BY <1>1, <1>5, <2>1, <2>2, <2>3 DEF ReaderInv
    <2>5. /\ nextBlock' \in DOMAIN blocks /\ result' \in Nat
          /\ op' \in {"dequeue", "peek"} /\ hadData' \in BOOLEAN
      BY <2>1 DEF Core, Control
    <2> QED BY <1>2, <1>5, <2>1, <2>4, <2>5, ReaderMoves
  <1>7. CASE op # "peek"
    <2>1. blocks' = [blocks EXCEPT ![f].data[j] = Raw]
      BY <1>1, <1>7, Zenon DEF Element, frontBlock_
    <2>2. /\ inHand' = items[1] /\ rpc' = "release"
          /\ UNCHANGED <<alive, items, writer, op, frontBlock, nextBlock, result, held, hadData>>
      BY <1>1, <1>5, <1>7 DEF Element, frontBlock_
    <2>3. UNCHANGED <<wpc, mode, offer, hadRoom, tailBlock, largestBlockSize>>
      BY <2>2 DEF writer
    <2>4. /\ blocks[f].data \in [0 .. blocks[f].size - 1 -> Datum] /\ j \in 0 .. blocks[f].size - 1
          /\ Raw \in Datum
      BY <1>1, <1>3, View DEF Datum
    <2>5. /\ blocks' \in Seq(Block) /\ Len(blocks') = Len(blocks) /\ DOMAIN blocks' = DOMAIN blocks
          /\ \A b \in DOMAIN blocks :
                /\ blocks'[b].data = IF b = f THEN [blocks[f].data EXCEPT ![j] = Raw] ELSE blocks[b].data
                /\ blocks'[b].size = blocks[b].size /\ blocks'[b].front = blocks[b].front
                /\ blocks'[b].tail = blocks[b].tail
                /\ blocks'[b].localFront = blocks[b].localFront /\ blocks'[b].localTail = blocks[b].localTail
                /\ blocks'[b].next = blocks[b].next
      <3>1. blocks \in Seq(Block) /\ Raw \in Datum /\ j \in DOMAIN blocks[f].data /\ f \in DOMAIN blocks
        BY <1>3, <2>4 DEF Core
      <3> QED BY ONLY <2>1, <3>1, SetData, ZenonT(60)
    <2>6. Still
      BY <2>2, <2>3, <2>5 DEF Still
    <2>7. /\ CircleInv(pos)' /\ FillInv(pos, start)' /\ SizeInv'
          /\ Links' = Links /\ Linked' = Linked
          /\ \A b \in DOMAIN blocks : Count(b)' = Count(b) /\ \A i : Place(b, i)' = Place(b, i)
      BY <2>6, StillLayout DEF Layout
    <2>8. SlotInv(pos, start)'
      <3>1. \A b \in DOMAIN blocks : \A i : Built(b, i)' <=> Built(b, i)
        <4>1. tailBlock \in DOMAIN blocks
          BY DEF Core, Control
        <4> QED BY <2>3, <2>5, <4>1 DEF Built
      <3> SUFFICES ASSUME NEW b \in Linked, NEW i \in 0 .. blocks[b].size - 1
                   PROVE  blocks'[b].data[i] =
                             IF Place(b, i) < Count(b) /\ pos[b] <= pos[tailBlock]
                             THEN IF b = f /\ i = blocks[b].front THEN Raw
                                  ELSE items[start[b] + Place(b, i) + 1]
                             ELSE IF Built(b, i) THEN offer ELSE Raw
        BY <1>1, <1>3, <2>2, <2>3, <2>5, <2>7, <3>1, SMTT(30) DEF SlotInv
      <3>2. blocks[b].data[i] =
                IF Place(b, i) < Count(b) /\ pos[b] <= pos[tailBlock]
                THEN items[start[b] + Place(b, i) + 1]
                ELSE IF Built(b, i) THEN offer ELSE Raw
        BY <1>2 DEF Layout, SlotInv
      <3>3. CASE b = f /\ i = j
        <4>1. Place(b, i) = 0
          BY <1>1, <3>3, Slot
        <4>2. blocks'[f].data = [blocks[f].data EXCEPT ![j] = Raw]
          BY <1>3, <2>5
        <4>3. blocks'[b].data[i] = Raw
          BY <2>4, <3>3, <4>2
        <4> QED BY <1>1, <1>4, <3>3, <4>1, <4>3
      <3>4. CASE ~ (b = f /\ i = j)
        <4>1. blocks'[b].data[i] = blocks[b].data[i]
          BY <1>3, <2>4, <2>5, <3>4
        <4> QED BY <1>1, <3>2, <3>4, <4>1
      <3> QED BY <3>3, <3>4
    <2>9. WriterInv(pos)'
      <3>1. Len(items') \in Nat /\ Len(items') <= Len(items)
        BY <2>2 DEF Core
      <3>2. \A b \in DOMAIN blocks \ Linked : blocks'[b] = blocks[b]
        <4>1. \A b \in DOMAIN blocks \ Linked : b # f
          BY <1>3
        <4> QED BY <2>1, <4>1
      <3> QED BY <1>3, <2>2, <2>5, <2>7, <3>1, <3>2, WriterStays
    <2>10. ReaderInv(pos)'
      <3>1. blocks'[f].front # blocks'[f].localTail /\ frontBlock' = f
        BY <1>1, <1>3, <1>4, <2>2, <2>5
      <3> QED BY <1>4, <2>2, <3>1 DEF ReaderInv
    <2>11. Control'
      BY <1>5, <2>2, <2>3, <2>5 DEF Core, Control
    <2>12. ASSUME NEW b \in DOMAIN blocks
           PROVE  BlockInv(b)'
      <3>1. BlockInv(b)
        BY DEF Core
      <3>2. blocks'[b].data \in [0 .. blocks[b].size - 1 -> Datum]
        <4>1. CASE b = f
          <5>1. [blocks[f].data EXCEPT ![j] = Raw] \in [0 .. blocks[f].size - 1 -> Datum]
            BY ONLY <2>4, SetSlot
          <5>2. blocks'[f].data = [blocks[f].data EXCEPT ![j] = Raw]
            BY <1>3, <2>5
          <5> QED BY ONLY <4>1, <5>1, <5>2, Zenon
        <4>2. CASE b # f
          BY <2>5, <4>2, View
        <4> QED BY <4>1, <4>2
      <3> QED BY <2>5, <2>7, <3>1, <3>2 DEF BlockInv
    <2> QED BY <2>2, <2>5, <2>7, <2>8, <2>9, <2>10, <2>11, <2>12 DEF Core, Layout
  <1> QED BY <1>6, <1>7

\* The reader moves the front index on: the block holds one element less.
FrontMoved(t, x) ==
    /\ blocks' \in Seq(Block) /\ Len(blocks') = Len(blocks) /\ DOMAIN blocks' = DOMAIN blocks
    /\ \A b \in DOMAIN blocks :
          /\ blocks'[b].front = IF b = t THEN x ELSE blocks[b].front
          /\ blocks'[b].size = blocks[b].size /\ blocks'[b].tail = blocks[b].tail
          /\ blocks'[b].localFront = blocks[b].localFront
          /\ blocks'[b].localTail = blocks[b].localTail /\ blocks'[b].next = blocks[b].next
          /\ blocks'[b].data = blocks[b].data
    /\ \A b \in DOMAIN blocks : Count(b)' = IF b = t THEN Count(t) - 1 ELSE Count(b)
    /\ \A b \in DOMAIN blocks : b # t => \A i : Place(b, i)' = Place(b, i)
    /\ \A i \in 0 .. blocks[t].size - 1 :
          Place(t, i)' = IF i = blocks[t].front THEN blocks[t].size - 1 ELSE Place(t, i) - 1
    /\ \A b \in DOMAIN blocks : BlockInv(b)'

LEMMA FrontMoves ==
    ASSUME Core, NEW t \in DOMAIN blocks, NEW x, x = Inc(t, blocks[t].front),
           blocks' = [blocks EXCEPT ![t].front = x],
           blocks[t].front # blocks[t].localTail, Count(t) > 0
    PROVE  FrontMoved(t, x)
  <1> DEFINE s == blocks[t].size
             f == blocks[t].front
             e == blocks[t].tail
             lf == blocks[t].localFront
             lt == blocks[t].localTail
  <1>1. /\ s \in Nat /\ s >= 2 /\ f \in 0 .. s - 1 /\ e \in 0 .. s - 1 /\ lf \in 0 .. s - 1
        /\ lt \in 0 .. s - 1
        /\ x = Succ(s, f) /\ x \in 0 .. s - 1
        /\ f # e /\ f # lt
    <2>1. /\ s \in Nat /\ s >= 2 /\ f \in 0 .. s - 1 /\ e \in 0 .. s - 1 /\ lf \in 0 .. s - 1
          /\ lt \in 0 .. s - 1
      BY View
    <2>2. x = Succ(s, f) /\ x \in 0 .. s - 1
      BY <2>1, View
    <2>3. f # e
      BY View
    <2> QED BY <2>1, <2>2, <2>3
  <1>2. BlockInv(t)
    BY DEF Core
  <1>3. Dist(s, lf, f) <= Dist(s, lf, e) /\ Dist(s, f, lt) <= Dist(s, f, e)
    BY <1>2 DEF BlockInv, Count
  <1>4. blocks \in Seq(Block) /\ x \in Nat
    BY <1>1 DEF Core
  <1>5. /\ blocks' \in Seq(Block) /\ Len(blocks') = Len(blocks) /\ DOMAIN blocks' = DOMAIN blocks
        /\ \A b \in DOMAIN blocks :
              /\ blocks'[b].front = IF b = t THEN x ELSE blocks[b].front
              /\ blocks'[b].size = blocks[b].size /\ blocks'[b].tail = blocks[b].tail
              /\ blocks'[b].localFront = blocks[b].localFront
              /\ blocks'[b].localTail = blocks[b].localTail /\ blocks'[b].next = blocks[b].next
              /\ blocks'[b].data = blocks[b].data
    BY <1>4, SetFront
  <1>6. /\ Dist(s, x, e) = Dist(s, f, e) - 1 /\ Dist(s, x, lt) = Dist(s, f, lt) - 1
        /\ Dist(s, lf, x) <= Dist(s, lf, e)
        /\ \A i \in 0 .. s - 1 : Dist(s, x, i) = IF i = f THEN s - 1 ELSE Dist(s, f, i) - 1
        /\ Dist(s, f, e) \in Nat /\ Dist(s, f, lt) \in Nat
    <2> HIDE DEF s, f, e, lf, lt
    <2>1. Dist(s, x, e) = Dist(s, f, e) - 1 /\ Dist(s, x, lt) = Dist(s, f, lt) - 1
      BY <1>1, DistStep
    <2>2. /\ Dist(s, f, e) \in Nat /\ Dist(s, lf, e) \in 0 .. s - 1 /\ Dist(s, f, lt) \in Nat
          /\ Dist(s, lf, f) \in Nat /\ Dist(s, lf, f) # Dist(s, lf, e)
      BY <1>1, DistFacts
    <2>3. Dist(s, lf, f) # s - 1
      BY <1>1, <1>3, <2>2
    <2>4. x # lf
      BY <1>1, <2>3, DistStep
    <2>5. Dist(s, lf, x) = Dist(s, lf, f) + 1
      BY <1>1, <2>4, DistStep
    <2>6. Dist(s, lf, x) <= Dist(s, lf, e)
      BY <1>3, <2>2, <2>5
    <2>7. ASSUME NEW i \in 0 .. s - 1
          PROVE  Dist(s, x, i) = IF i = f THEN s - 1 ELSE Dist(s, f, i) - 1
      <3>1. CASE i = f
        BY <1>1, <3>1 DEF Dist, Succ
      <3>2. CASE i # f
        BY <1>1, <3>2, DistStep
      <3> QED BY <3>1, <3>2
    <2> QED BY <2>1, <2>2, <2>6, <2>7
  <1>7. ASSUME NEW b \in DOMAIN blocks
        PROVE  /\ Count(b)' = IF b = t THEN Count(t) - 1 ELSE Count(b)
               /\ b # t => \A i : Place(b, i)' = Place(b, i)
    <2>1. Count(b)' = IF b = t THEN Count(t) - 1 ELSE Count(b)
      BY <1>5, <1>6 DEF Count
    <2>2. b # t => \A i : Place(b, i)' = Place(b, i)
      BY <1>5 DEF Place
    <2> QED BY <2>1, <2>2
  <1>8. \A i \in 0 .. s - 1 : Place(t, i)' = IF i = f THEN s - 1 ELSE Place(t, i) - 1
    <2>1. blocks'[t].size = s /\ blocks'[t].front = x
      BY <1>5
    <2>2. \A i : Place(t, i)' = Dist(s, x, i) /\ Place(t, i) = Dist(s, f, i)
      BY <2>1 DEF Place
    <2> QED BY <1>6, <2>2
  <1>9. ASSUME NEW b \in DOMAIN blocks
        PROVE  BlockInv(b)'
    <2>1. CASE b # t
      <3>1. BlockInv(b) /\ Count(b)' = Count(b)
        BY <1>7, <2>1 DEF Core
      <3> QED BY <1>5, <2>1, <3>1 DEF BlockInv
    <2>2. CASE b = t
      <3>1. /\ blocks'[t].size = s /\ blocks'[t].front = x /\ blocks'[t].tail = e
            /\ blocks'[t].localFront = lf /\ blocks'[t].localTail = lt
            /\ blocks'[t].next = blocks[t].next /\ blocks'[t].data = blocks[t].data
            /\ Count(t)' = Dist(s, f, e) - 1
        <4>1. Count(t)' = Count(t) - 1
          BY <1>7
        <4> QED BY <1>5, <4>1 DEF Count
      <3>2. s >= 2 /\ x < s /\ e < s /\ lf < s /\ lt < s
        BY <1>1
      <3>3. blocks[t].next \in DOMAIN blocks' /\ blocks[t].data \in [0 .. s - 1 -> Datum]
        BY <1>2, <1>5 DEF BlockInv
      <3>4. Dist(s, lf, x) <= Dist(s, lf, e) /\ Dist(s, x, lt) <= Dist(s, f, e) - 1
        BY <1>3, <1>6
      <3> HIDE DEF s, f, e, lf, lt
      <3> QED BY <2>2, <3>1, <3>2, <3>3, <3>4 DEF BlockInv
    <2> QED BY <2>1, <2>2
  <1> QED BY <1>5, <1>7, <1>8, <1>9 DEF FrontMoved

LEMMA ReleaseStep ==
    ASSUME NEW pos, NEW start, Core, Layout(pos, start), Release
    PROVE  /\ Core' /\ alive' = alive /\ \E start2 : Layout(pos, start2)'
           /\ Len(items) >= 1 /\ items' = Tail(items) /\ result' = items[1]
  <1>1. PICK f : f = frontBlock
    OBVIOUS
  <1>2. PICK x : x = Inc(f, blocks[f].front)
    OBVIOUS
  <1>3. blocks' = [blocks EXCEPT ![f].front = x]
    BY <1>1, <1>2 DEF Release
  <1>4. /\ rpc = "release" /\ rpc' = "idle" /\ items' = Tail(items) /\ hadData' = TRUE
        /\ result' = inHand
        /\ UNCHANGED <<alive, writer, op, frontBlock, nextBlock, held, inHand>>
    BY DEF Release
  <1>5. UNCHANGED <<wpc, mode, offer, hadRoom, tailBlock, largestBlockSize>>
    BY <1>4 DEF writer
  <1>6. /\ CircleInv(pos) /\ FillInv(pos, start) /\ SlotInv(pos, start)
        /\ WriterInv(pos) /\ ReaderInv(pos)
    BY DEF Layout
  <1>7. /\ f \in Linked /\ f \in DOMAIN blocks /\ pos[f] = 0 /\ start[f] = 0 /\ Count(f) > 0
        /\ Linked \subseteq DOMAIN blocks /\ tailBlock \in Linked
        /\ Len(items) >= 1 /\ inHand = items[1]
        /\ blocks[f].front # blocks[f].localTail
    BY <1>1, <1>4, <1>6, FrontFacts, ReaderAt, LinkedAreBlocks DEF ReaderInv, CircleInv
  <1>8. FrontMoved(f, x)
    BY ONLY <1>2, <1>3, <1>7, Core, FrontMoves
  <1>9. \A b \in Linked : pos[b] \in Nat /\ start[b] \in Nat /\ Count(b) \in Nat
    BY <1>6, <1>7, View DEF CircleInv, FillInv
  <1>10. /\ \A b, d \in Linked : pos[b] = pos[d] => b = d
         /\ \A b \in Linked : b # f => 0 < pos[b]
    <2>1. \A b, d \in Linked : pos[b] = pos[d] => b = d
      BY <1>6 DEF CircleInv
    <2> QED BY <1>7, <1>9, <2>1
  <1>11. /\ Links' = Links /\ Linked' = Linked
         /\ \A b \in Linked : /\ blocks'[b].next = blocks[b].next /\ blocks'[b].size = blocks[b].size
                              /\ blocks'[b].data = blocks[b].data
                              /\ blocks'[b].tail = blocks[b].tail
                              /\ b # f => /\ blocks'[b].front = blocks[b].front
                                          /\ Count(b)' = Count(b)
                                          /\ \A i : Place(b, i)' = Place(b, i)
         /\ Count(f)' = Count(f) - 1
    <2>1. Links' = Links
      BY <1>5, <1>8 DEF Links, FrontMoved
    <2> QED BY <1>7, <1>8, <2>1 DEF Linked, FrontMoved
  <1>12. /\ items \in Seq(Nat) /\ items' \in Seq(Nat) /\ Len(items') = Len(items) - 1
         /\ \A k \in 1 .. Len(items) - 1 : items'[k] = items[k + 1]
         /\ Len(items) \in Nat
    <2>1. items \in Seq(Nat) /\ items # << >>
      BY <1>7 DEF Core
    <2> QED BY <1>4, <2>1
  <1>13. PICK start2 : start2 = [b \in Linked |-> IF 0 < pos[b] /\ pos[b] <= pos[tailBlock]
                                                  THEN start[b] - 1 ELSE start[b]]
    OBVIOUS
  <1>14. \A b \in Linked : 0 < pos[b] /\ pos[b] <= pos[tailBlock] => Count(f) <= start[b]
    <2>1. \A b \in Linked : 0 < pos[b] /\ pos[b] <= pos[tailBlock] => start[f] + Count(f) <= start[b]
      BY <1>6, <1>7 DEF FillInv
    <2> QED BY <1>7, <1>9, <2>1
  <1>15. \A b \in Linked :
            /\ start2[b] \in Nat
            /\ start2[b] = IF 0 < pos[b] /\ pos[b] <= pos[tailBlock] THEN start[b] - 1 ELSE start[b]
    <2>1. \A b \in Linked :
              start2[b] = IF 0 < pos[b] /\ pos[b] <= pos[tailBlock] THEN start[b] - 1 ELSE start[b]
      BY <1>13
    <2>2. ASSUME NEW b \in Linked
          PROVE  start2[b] \in Nat
      <3>1. 0 < pos[b] /\ pos[b] <= pos[tailBlock] => Count(f) <= start[b]
        BY <1>14
      <3>2. start[b] \in Nat /\ Count(f) \in Nat
        BY <1>7, <1>9
      <3> QED BY <1>7, <2>1, <3>1, <3>2
    <2> QED BY <2>1, <2>2
  <1>16. start2[f] = 0 /\ \A b \in Linked : b # f /\ pos[b] <= pos[tailBlock] => start2[b] = start[b] - 1
    BY <1>7, <1>10, <1>15
  <1>17. CircleInv(pos)'
    BY <1>4, <1>5, <1>6, <1>11 DEF CircleInv
  <1>18. FillInv(pos, start2)'
    <2>1. start2[tailBlock] + Count(tailBlock)' = Len(items')
      <3>1. start[tailBlock] + Count(tailBlock) = Len(items)
        BY <1>6 DEF FillInv
      <3>2. CASE tailBlock = f
        <4>1. Count(tailBlock)' = Count(f) - 1
          BY <1>5, <1>11, <3>2
        <4> QED BY <1>7, <1>9, <1>12, <1>16, <3>1, <3>2, <4>1
      <3>3. CASE tailBlock # f
        <4>1. Count(tailBlock)' = Count(tailBlock) /\ start2[tailBlock] = start[tailBlock] - 1
          BY <1>5, <1>7, <1>9, <1>11, <1>16, <3>3
        <4>2. start[tailBlock] \in Nat /\ Count(tailBlock) \in Nat
          BY <1>7, <1>9
        <4> QED BY <1>12, <3>1, <4>1, <4>2
      <3> QED BY <3>2, <3>3
    <2>2. ASSUME NEW b \in Linked
          PROVE  /\ pos[b] < pos[tailBlock] => start2[blocks'[b].next] = start2[b] + Count(b)'
                 /\ 0 < pos[b] /\ pos[b] <= pos[tailBlock] => Count(b)' > 0
                 /\ 0 < pos[b] /\ pos[b] < pos[tailBlock] => Count(b)' = blocks'[b].size - 1
                 /\ pos[tailBlock] < pos[b] =>
                       Count(b)' = IF wpc = "advance" /\ b = blocks'[tailBlock].next THEN 1 ELSE 0
      <3>1. pos[b] < pos[tailBlock] => start2[blocks'[b].next] = start2[b] + Count(b)'
        <4> SUFFICES ASSUME pos[b] < pos[tailBlock]
                     PROVE  start2[blocks'[b].next] = start2[b] + Count(b)'
          OBVIOUS
        <4>1. PICK d : d = blocks[b].next
          OBVIOUS
        <4>2. d \in Linked /\ pos[d] = pos[b] + 1
          <5>1. d \in Linked /\ pos[d] = IF pos[b] = Links - 1 THEN 0 ELSE pos[b] + 1
            BY <1>6, <4>1 DEF CircleInv
          <5>2. pos[tailBlock] <= Links - 1 /\ Links \in Int
            BY <1>6, <1>7, LinkedAreBlocks DEF CircleInv
          <5> QED BY <1>7, <1>9, <5>1, <5>2
        <4>3. start[d] = start[b] + Count(b)
          BY <1>6, <4>1 DEF FillInv
        <4>4. start2[d] = start[d] - 1 /\ blocks'[b].next = d
          <5>1. 0 < pos[d] /\ pos[d] <= pos[tailBlock]
            BY <1>7, <1>9, <4>2
          <5> QED BY <1>11, <1>15, <4>1, <4>2, <5>1
        <4>5. CASE b = f
          BY <1>7, <1>9, <1>11, <1>16, <4>3, <4>4, <4>5
        <4>6. CASE b # f
          <5>1. start2[b] = start[b] - 1 /\ Count(b)' = Count(b)
            BY <1>7, <1>9, <1>11, <1>16, <4>6
          <5>2. start[b] \in Nat /\ Count(b) \in Nat
            BY <1>9
          <5> QED BY <4>3, <4>4, <5>1, <5>2
        <4> QED BY <4>5, <4>6
      <3>2. pos[b] > 0 => /\ Count(b)' = Count(b) /\ blocks'[b].size = blocks[b].size
                          /\ blocks'[tailBlock].next = blocks[tailBlock].next
        BY <1>7, <1>11
      <3>3. pos[tailBlock] < pos[b] => pos[b] > 0
        BY <1>7, <1>9
      <3> QED BY <1>6, <3>1, <3>2, <3>3 DEF FillInv
    <2>3. ASSUME NEW b \in Linked, NEW d \in Linked, pos[b] < pos[d] /\ pos[d] <= pos[tailBlock]
          PROVE  start2[b] + Count(b)' <= start2[d]
      <3>1. start[b] + Count(b) <= start[d]
        BY <1>6, <2>3 DEF FillInv
      <3>2. d # f
        BY <1>7, <1>9, <2>3
      <3>3. start2[d] = start[d] - 1 /\ start[d] \in Nat /\ start[b] \in Nat /\ Count(b) \in Nat
        BY <1>9, <1>16, <2>3, <3>2
      <3>4. CASE b = f
        BY <1>7, <1>11, <1>16, <3>1, <3>3, <3>4
      <3>5. CASE b # f
        <4>1. pos[b] <= pos[tailBlock]
          BY <1>7, <1>9, <2>3
        <4>2. start2[b] = start[b] - 1 /\ Count(b)' = Count(b)
          BY <1>11, <1>16, <3>5, <4>1
        <4> QED BY <3>1, <3>3, <4>2
      <3> QED BY <3>4, <3>5
    <2>4. start2 \in [Linked -> Nat]
      BY <1>13, <1>15
    <2> QED BY <1>1, <1>4, <1>5, <1>11, <1>16, <2>1, <2>2, <2>3, <2>4 DEF FillInv
  <1>19. SlotInv(pos, start2)'
    <2>1. ASSUME NEW b \in Linked, NEW i, b # f \/ i # blocks[f].front
          PROVE  Built(b, i)' <=> Built(b, i)
      <3>1. wpc \in {"publishnext", "advance"} => blocks[tailBlock].next # f
        <4>1. wpc \in {"publishnext", "advance"} => pos[tailBlock] < Links - 1
          BY <1>6 DEF WriterInv
        <4>2. pos[blocks[tailBlock].next] =
                  IF pos[tailBlock] = Links - 1 THEN 0 ELSE pos[tailBlock] + 1
          BY <1>6, <1>7 DEF CircleInv
        <4>3. Links \in Int
          BY LinkedAreBlocks
        <4> QED BY <1>7, <1>9, <4>1, <4>2, <4>3
      <3>2. blocks'[tailBlock].next = blocks[tailBlock].next /\ blocks'[b].tail = blocks[b].tail
            /\ (b # f => blocks'[b].front = blocks[b].front)
        BY <1>7, <1>11
      <3> QED BY <1>5, <3>1, <3>2 DEF Built
    <2> SUFFICES ASSUME NEW b \in Linked, NEW i \in 0 .. blocks[b].size - 1
                 PROVE  blocks[b].data[i] =
                           IF Place(b, i)' < Count(b)' /\ pos[b] <= pos[tailBlock]
                           THEN items'[start2[b] + Place(b, i)' + 1]
                           ELSE IF Built(b, i)' THEN offer ELSE Raw
      BY <1>4, <1>5, <1>11, ZenonT(60) DEF SlotInv
    <2>2. blocks[b].data[i] =
              IF Place(b, i) < Count(b) /\ pos[b] <= pos[tailBlock]
              THEN IF b = f /\ i = blocks[b].front THEN Raw
                   ELSE items[start[b] + Place(b, i) + 1]
              ELSE IF Built(b, i) THEN offer ELSE Raw
      BY <1>1, <1>4, <1>6 DEF SlotInv
    <2>3. /\ Place(b, i) \in Nat /\ Count(b) \in Nat /\ start[b] \in Nat /\ pos[b] \in Nat
          /\ pos[tailBlock] \in Nat
          /\ Place(b, i) < blocks[b].size /\ Count(b) < blocks[b].size
          /\ Place(b, i) = Count(b) <=> i = blocks[b].tail
          /\ Place(b, i) = 0 <=> i = blocks[b].front
      BY <1>7, <1>9, Slot
    <2>4. CASE b = f /\ i = blocks[f].front
      <3>1. Place(b, i) = 0 /\ pos[b] <= pos[tailBlock]
        BY <1>7, <2>3, <2>4
      <3>2. blocks[b].data[i] = Raw
        BY <1>7, <2>2, <2>4, <3>1
      <3>3. Place(b, i)' = blocks[b].size - 1
        BY <1>8, <2>4 DEF FrontMoved
      <3>4. ~ (Place(b, i)' < Count(b)')
        <4>1. blocks[b].size \in Nat
          BY <1>7, <2>4, View
        <4> QED BY <1>11, <2>3, <2>4, <3>3, <4>1
      <3>5. ~ Built(b, i)'
        <4>1. i # blocks'[b].tail
          BY <1>7, <1>11, <2>3, <2>4, <3>1
        <4>2. i # blocks'[b].front
          <5>1. blocks'[b].front = Succ(blocks[b].size, i)
            BY <1>2, <1>7, <1>8, <2>4, View DEF FrontMoved
          <5>2. blocks[b].size \in Nat /\ blocks[b].size >= 2
            BY <1>7, <2>4, View
          <5> QED BY <5>1, <5>2 DEF Succ
        <4> QED BY <4>1, <4>2 DEF Built
      <3> QED BY <3>2, <3>4, <3>5
    <2>5. CASE b = f /\ i # blocks[f].front
      <3>1. Place(b, i)' = Place(b, i) - 1 /\ Count(b)' = Count(b) - 1
        BY <1>8, <1>11, <2>5 DEF FrontMoved
      <3>2. Place(b, i) > 0 /\ start2[b] = 0 /\ start[b] = 0
        BY <1>7, <1>16, <2>3, <2>5
      <3>3. Place(b, i) < Count(b) => items'[Place(b, i)] = items[Place(b, i) + 1]
        <4>1. start[b] + Count(b) <= Len(items)
          BY <1>6, <1>7, <2>3, <2>5, Bounds
        <4>2. Place(b, i) < Count(b) => Place(b, i) \in 1 .. Len(items) - 1
          BY <1>12, <2>3, <3>2, <4>1
        <4> QED BY <1>12, <4>2
      <3>4. start2[b] + Place(b, i)' + 1 = Place(b, i) /\ start[b] + Place(b, i) + 1 = Place(b, i) + 1
        BY <2>3, <3>1, <3>2
      <3>5. Place(b, i)' < Count(b)' <=> Place(b, i) < Count(b)
        BY <2>3, <3>1
      <3> QED BY <2>1, <2>2, <2>5, <3>3, <3>4, <3>5
    <2>6. CASE b # f
      <3>1. Place(b, i)' = Place(b, i) /\ Count(b)' = Count(b)
        BY <1>11, <2>6
      <3>2. pos[b] <= pos[tailBlock] => start2[b] = start[b] - 1
        BY <1>16, <2>6
      <3>3. Place(b, i) < Count(b) /\ pos[b] <= pos[tailBlock] =>
                items'[start2[b] + Place(b, i) + 1] = items[start[b] + Place(b, i) + 1]
        <4> SUFFICES ASSUME Place(b, i) < Count(b), pos[b] <= pos[tailBlock]
                     PROVE  items'[start2[b] + Place(b, i) + 1] = items[start[b] + Place(b, i) + 1]
          OBVIOUS
        <4>1. start[b] + Count(b) <= Len(items)
          BY <1>6, Bounds
        <4>2. start[b] >= 1
          <5>1. start2[b] \in Nat
            BY <1>15
          <5> QED BY <2>3, <3>2, <5>1
        <4> DEFINE a == start[b]
                   p == Place(b, i)
                   k == a + p
        <4>3. a \in Nat /\ p \in Nat /\ Count(b) \in Nat /\ Len(items) \in Nat /\ p < Count(b)
          BY <1>12, <2>3
        <4>4. start2[b] + p + 1 = k
          BY <2>3, <3>2
        <4> HIDE DEF a, p
        <4>5. k \in 1 .. Len(items) - 1
          BY <4>1, <4>2, <4>3 DEF a
        <4> HIDE DEF k
        <4>6. items'[k] = items[k + 1]
          BY <1>12, <4>5
        <4> QED BY ONLY <4>4, <4>6 DEF k, a, p
      <3> QED BY <2>1, <2>2, <2>6, <3>1, <3>3
    <2> QED BY <2>4, <2>5, <2>6
  <1>20. WriterInv(pos)'
    <2>1. \A b \in DOMAIN blocks \ Linked : blocks'[b] = blocks[b]
      <3>1. \A b \in DOMAIN blocks \ Linked : b # f
        BY <1>7
      <3> QED BY <1>3, <3>1
    <2>2. Len(items') \in Nat /\ Len(items') <= Len(items)
      BY <1>7, <1>12
    <2>3. \A b \in DOMAIN blocks :
              /\ blocks'[b].size = blocks[b].size /\ blocks'[b].tail = blocks[b].tail
              /\ blocks'[b].next = blocks[b].next /\ blocks'[b].localFront = blocks[b].localFront
              /\ b # frontBlock => blocks'[b].front = blocks[b].front /\ Count(b)' = Count(b)
      BY <1>1, <1>8 DEF FrontMoved
    <2>4. Len(blocks') = Len(blocks) /\ pos[tailBlock] \in Nat
      BY <1>7, <1>8, <1>9 DEF FrontMoved
    <2> QED BY <1>4, <1>11, <2>1, <2>2, <2>3, <2>4, WriterStays
  <1>21. ReaderInv(pos)'
    BY <1>4 DEF ReaderInv
  <1>22. Control'
    BY <1>4, <1>5, <1>8 DEF Core, Control, FrontMoved
  <1>23. SizeInv'
    BY <1>5, <1>8, <1>11 DEF Core, SizeInv, FrontMoved
  <1>24. Layout(pos, start2)'
    BY <1>17, <1>18, <1>19, <1>20, <1>21 DEF Layout
  <1>25. Core'
    BY <1>8, <1>12, <1>22, <1>23 DEF Core, FrontMoved
  <1> QED BY <1>4, <1>7, <1>24, <1>25
-----------------------------------------------------------------------------
(* The destructor.                                                         *)

\* Its way round the circle takes it to every block.
LEMMA CircleIsWhole ==
    ASSUME NEW pos, Core, CircleInv(pos), wpc # "link"
    PROVE  Circle = DOMAIN blocks
  <1>1. Linked = DOMAIN blocks /\ Links \in Nat
    BY LenProperties DEF Core, Linked, Links
  <1>2. ASSUME NEW b \in DOMAIN blocks, NEW S \in SUBSET DOMAIN blocks, frontBlock \in S,
               \A x \in S : blocks[x].next \in S, b \notin S
        PROVE  FALSE
    <2> DEFINE T == {p \in 0 .. Links - 1 : \E d \in Linked : d \notin S /\ pos[d] = p}
    <2>1. \A d \in Linked : pos[d] \in 0 .. Links - 1
      BY DEF CircleInv
    <2>2. T \in SUBSET Nat /\ T # {}
      BY <1>1, <1>2, <2>1
    <2>3. PICK p \in T : \A q \in T : p <= q
      <3> HIDE DEF T
      <3> QED BY <2>2, Least
    <2>4. PICK d \in Linked : d \notin S /\ pos[d] = p
      BY <2>3
    <2>5. p # 0
      BY <1>2, <2>4 DEF CircleInv
    <2>6. p \in Nat /\ p - 1 \in 0 .. Links - 1 /\ p <= Links - 1
      BY <1>1, <2>2, <2>3, <2>5
    <2>7. PICK c \in Linked : pos[c] = p - 1
      BY <2>6 DEF CircleInv
    <2>8. c \in S
      <3>1. p - 1 \notin T
        BY <2>2, <2>3, <2>6
      <3> QED BY <2>6, <2>7, <3>1
    <2>9. blocks[c].next \in Linked /\ pos[blocks[c].next] = p
      <3>1. pos[blocks[c].next] = IF pos[c] = Links - 1 THEN 0 ELSE pos[c] + 1
        BY DEF CircleInv
      <3> QED BY <1>1, <2>6, <2>7, <3>1 DEF CircleInv
    <2>10. blocks[c].next = d
      BY <2>4, <2>9 DEF CircleInv
    <2> QED BY <1>2, <2>4, <2>8, <2>10
  <1> QED BY <1>2 DEF Circle

\* The test of the destructor: slot i is as far from the front as Place says.
LEMMA ModIsDist ==
    ASSUME NEW s \in Nat, NEW i \in 0 .. s - 1, NEW j \in 0 .. s - 1
    PROVE  (j - i) % s = Dist(s, i, j)
  <1>1. CASE i <= j
    BY <1>1 DEF Dist
  <1>2. CASE ~ (i <= j)
    BY <1>2 DEF Dist
  <1> QED BY <1>1, <1>2

LEMMA DestructStep ==
    ASSUME NEW pos, NEW start, Core, Layout(pos, start), Destruct
    PROVE  Core' /\ Gone' /\ alive' = FALSE
  <1> DEFINE Emptied(b) ==
                [blocks[b] EXCEPT !.data =
                    [i \in DOMAIN @ |->
                        IF (i - blocks[b].front) % blocks[b].size
                             < (blocks[b].tail - blocks[b].front) % blocks[b].size
                        THEN Raw ELSE @[i]]]
  <1>1. /\ alive' = FALSE /\ wpc = "idle" /\ rpc' = "idle" /\ items' = << >>
        /\ rpc \in {"idle", "peeked"}
        /\ UNCHANGED <<writer, op, frontBlock, nextBlock, held, inHand, result, hadData>>
    BY DEF Destruct
  <1>2. CircleInv(pos) /\ FillInv(pos, start) /\ SlotInv(pos, start)
    BY DEF Layout
  <1>3. Linked = DOMAIN blocks /\ DOMAIN blocks = 1 .. Len(blocks) /\ Len(blocks) \in Nat
    BY <1>1, LenProperties DEF Core, Linked, Links
  <1>4. blocks' = [b \in DOMAIN blocks |-> Emptied(b)]
    <2>1. Circle = DOMAIN blocks
      BY <1>1, <1>2, CircleIsWhole
    <2> QED BY <2>1 DEF Destruct
  <1>5. ASSUME NEW b \in DOMAIN blocks
        PROVE  /\ Emptied(b) \in Block
               /\ Emptied(b).size = blocks[b].size /\ Emptied(b).front = blocks[b].front
               /\ Emptied(b).tail = blocks[b].tail /\ Emptied(b).localFront = blocks[b].localFront
               /\ Emptied(b).localTail = blocks[b].localTail /\ Emptied(b).next = blocks[b].next
               /\ Emptied(b).data = [i \in 0 .. blocks[b].size - 1 |-> Raw]
    <2> DEFINE B == blocks[b]
    <2>1. B \in Block
      BY ElementOfSeq DEF Core
    <2>2. /\ B.size \in Nat /\ B.front \in 0 .. B.size - 1 /\ B.tail \in 0 .. B.size - 1
          /\ B.data \in [0 .. B.size - 1 -> Datum]
          /\ DOMAIN B.data = 0 .. B.size - 1
      BY View
    <2>3. ASSUME NEW i \in 0 .. B.size - 1
          PROVE  (IF (i - B.front) % B.size < (B.tail - B.front) % B.size
                  THEN Raw ELSE B.data[i]) = Raw
      <3>1. (i - B.front) % B.size = Place(b, i) /\ (B.tail - B.front) % B.size = Count(b)
        BY <2>2, ModIsDist DEF Place, Count
      <3>2. B.data[i] =
                IF Place(b, i) < Count(b) /\ pos[b] <= pos[tailBlock]
                THEN IF b = frontBlock /\ i = B.front /\ rpc = "release" THEN Raw
                     ELSE items[start[b] + Place(b, i) + 1]
                ELSE IF Built(b, i) THEN offer ELSE Raw
        BY <1>2, <1>3 DEF SlotInv
      <3>3. ~ Built(b, i)
        BY <1>1 DEF Built
      <3>4. Place(b, i) < Count(b) \/ B.data[i] = Raw
        BY <3>2, <3>3
      <3> QED BY <3>1, <3>4
    <2>4. Emptied(b) = [B EXCEPT !.data = [i \in 0 .. B.size - 1 |-> Raw]]
      <3>1. [i \in DOMAIN B.data |->
                IF (i - B.front) % B.size < (B.tail - B.front) % B.size THEN Raw ELSE B.data[i]]
              = [i \in 0 .. B.size - 1 |-> Raw]
        BY <2>2, <2>3
      <3>2. Emptied(b) = [B EXCEPT !.data =
               [i \in DOMAIN B.data |->
                  IF (i - B.front) % B.size < (B.tail - B.front) % B.size THEN Raw ELSE B.data[i]]]
        BY Zenon
      <3> QED BY <3>1, <3>2
    <2>5. [i \in 0 .. B.size - 1 |-> Raw] \in Data
      BY <2>2 DEF Data, Datum
    <2> QED BY <2>1, <2>4, <2>5 DEF Block
  <1> HIDE DEF Emptied
  <1>6. blocks' \in Seq(Block) /\ Len(blocks') = Len(blocks) /\ DOMAIN blocks' = DOMAIN blocks
    <2>1. blocks' \in [1 .. Len(blocks) -> Block]
      BY <1>3, <1>4, <1>5
    <2>2. blocks' \in Seq(Block)
      BY <1>3, <2>1
    <2>3. DOMAIN blocks' = 1 .. Len(blocks)
      BY <2>1
    <2> QED BY <1>3, <2>2, <2>3, LenProperties
  <1>7. \A b \in DOMAIN blocks :
           /\ blocks'[b].size = blocks[b].size /\ blocks'[b].front = blocks[b].front
           /\ blocks'[b].tail = blocks[b].tail /\ blocks'[b].localFront = blocks[b].localFront
           /\ blocks'[b].localTail = blocks[b].localTail /\ blocks'[b].next = blocks[b].next
           /\ blocks'[b].data = [i \in 0 .. blocks[b].size - 1 |-> Raw]
    BY <1>4, <1>5
  <1>8. Control'
    BY <1>1, <1>6 DEF Core, Control, writer
  <1>9. items' \in Seq(Nat)
    BY <1>1
  <1>10. ASSUME NEW b \in DOMAIN blocks'
         PROVE  BlockInv(b)'
    <2>1. BlockInv(b) /\ b \in DOMAIN blocks
      BY <1>6 DEF Core
    <2>2. Count(b)' = Count(b)
      BY <1>7, <2>1 DEF Count
    <2>3. blocks'[b].data \in [0 .. blocks'[b].size - 1 -> Datum]
      BY <1>7, <2>1 DEF Datum
    <2> QED BY <1>6, <1>7, <2>1, <2>2, <2>3 DEF BlockInv
  <1>11. SizeInv'
    <2>1. Links' = Links
      BY <1>1, <1>6 DEF Links, writer
    <2>2. largestBlockSize' = largestBlockSize
      BY <1>1 DEF writer
    <2> QED BY <1>6, <1>7, <2>1, <2>2 DEF Core, SizeInv
  <1>12. Gone'
    <2>1. wpc' = "idle" /\ rpc' = "idle"
      BY <1>1 DEF writer
    <2>2. ASSUME NEW b \in DOMAIN blocks'
          PROVE  \A i \in 0 .. blocks'[b].size - 1 : blocks'[b].data[i] = Raw
      <3>1. /\ blocks'[b].size = blocks[b].size
            /\ blocks'[b].data = [i \in 0 .. blocks[b].size - 1 |-> Raw]
        BY <1>6, <1>7
      <3> QED BY <3>1
    <2> QED BY <2>1, <2>2 DEF Gone
  <1> QED BY <1>1, <1>6, <1>8, <1>9, <1>10, <1>11, <1>12 DEF Core
-----------------------------------------------------------------------------
(* The constructor.                                                        *)

\* The recursive definition has a solution: it is built one argument at a time.
LEMMA PowerDefined ==
    Power = [k \in 0 .. MaxSize + 1 |-> IF k = 0 THEN 1 ELSE 2 * Power[k - 1]]
  <1> DEFINE Upto(m, f) == /\ f \in [0 .. m -> Nat] /\ f[0] = 1
                           /\ \A k \in 1 .. m : f[k] = 2 * f[k - 1]
             P(f) == f = [k \in 0 .. MaxSize + 1 |-> IF k = 0 THEN 1 ELSE 2 * f[k - 1]]
             T == {m \in Nat : \A f : ~ Upto(m, f)}
  <1>1. MaxSize \in Nat
    BY QueueAssumption
  <1>2. T = {}
    <2>1. SUFFICES ASSUME T # {} PROVE FALSE
      OBVIOUS
    <2>2. PICK m \in T : \A y \in T : m <= y
      <3> HIDE DEF T
      <3>1. T \in SUBSET Nat
        BY DEF T
      <3> QED BY <2>1, <3>1, Least
    <2>3. m # 0
      <3>1. Upto(0, [k \in 0 .. 0 |-> 1])
        OBVIOUS
      <3> QED BY <3>1
    <2>4. m \in Nat /\ m - 1 \in Nat /\ m - 1 \notin T
      <3>1. m \in Nat
        BY <2>2
      <3> HIDE DEF T
      <3>2. m - 1 \in T => m <= m - 1
        BY <2>2
      <3> QED BY <2>3, <3>1, <3>2
    <2>5. PICK f : Upto(m - 1, f)
      <3> HIDE DEF Upto
      <3> QED BY <2>4
    <2> DEFINE g == [k \in 0 .. m |-> IF k = m THEN 2 * f[m - 1] ELSE f[k]]
    <2>6. Upto(m, g)
      <3>1. g \in [0 .. m -> Nat]
        BY <2>4, <2>5
      <3>2. g[0] = 1
        BY <2>3, <2>4, <2>5
      <3>3. ASSUME NEW k \in 1 .. m
            PROVE  g[k] = 2 * g[k - 1]
        <4>1. k - 1 \in 0 .. m - 1 /\ k \in 0 .. m /\ k - 1 \in 0 .. m /\ k - 1 # m
          BY <2>4
        <4>2. g[k - 1] = f[k - 1]
          BY <4>1
        <4>3. CASE k = m
          BY <4>1, <4>2, <4>3
        <4>4. CASE k # m
          <5>1. k \in 1 .. m - 1
            BY <2>4, <4>4
          <5> QED BY <2>5, <4>1, <4>2, <4>4, <5>1
        <4> QED BY <4>3, <4>4
      <3> QED BY <3>1, <3>2, <3>3
    <2> QED BY <2>2, <2>6
  <1>3. PICK f : Upto(MaxSize + 1, f)
    <2>1. MaxSize + 1 \in Nat
      BY <1>1
    <2> HIDE DEF Upto
    <2> QED BY <1>2, <2>1
  <1>4. P(f)
    BY <1>1, <1>3
  <1>5. Power = CHOOSE h : P(h)
    BY DEF Power
  <1> HIDE DEF P
  <1>6. P(Power)
    BY <1>4, <1>5
  <1> QED BY <1>6 DEF P

LEMMA PowerGrows ==
    \A k \in 0 .. MaxSize + 1 : Power[k] \in Nat /\ Power[k] > k
  <1> DEFINE T == {k \in 0 .. MaxSize + 1 : ~ (Power[k] \in Nat /\ Power[k] > k)}
  <1>1. MaxSize \in Nat
    BY QueueAssumption
  <1>2. /\ Power[0] = 1
        /\ \A k \in 1 .. MaxSize + 1 : Power[k] = 2 * Power[k - 1]
    <2>1. \A k \in 0 .. MaxSize + 1 : Power[k] = IF k = 0 THEN 1 ELSE 2 * Power[k - 1]
      BY PowerDefined, Zenon
    <2>2. 0 \in 0 .. MaxSize + 1 /\ \A k \in 1 .. MaxSize + 1 : k \in 0 .. MaxSize + 1 /\ k # 0
      BY <1>1
    <2> QED BY <2>1, <2>2, Zenon
  <1>3. ASSUME T # {} PROVE FALSE
    <2>1. T \in SUBSET Nat
      BY <1>1
    <2>2. PICK k \in T : \A y \in T : k <= y
      <3> HIDE DEF T
      <3> QED BY <1>3, <2>1, Least
    <2>3. k # 0
      BY <1>2
    <2>4. k \in 1 .. MaxSize + 1 /\ k - 1 \in 0 .. MaxSize + 1 /\ ~ (k <= k - 1)
      BY <1>1, <2>3
    <2>5. k - 1 \notin T
      BY <2>2, <2>4
    <2>6. Power[k - 1] \in Nat /\ Power[k - 1] > k - 1
      BY <2>4, <2>5
    <2>7. Power[k] = 2 * Power[k - 1]
      BY <1>2, <2>4
    <2>8. Power[k] \in Nat /\ Power[k] > k
      BY <2>4, <2>6, <2>7
    <2> QED BY <2>8
  <1> QED BY <1>3

LEMMA FirstSizeFits == FirstSize \in Nat /\ FirstSize > MaxSize
  <1> DEFINE T == {p \in {Power[k] : k \in DOMAIN Power} : p > MaxSize}
             Q(p) == /\ p > MaxSize
                     /\ \A k \in DOMAIN Power : Power[k] > MaxSize => p <= Power[k]
  <1>1. MaxSize \in Nat
    BY QueueAssumption
  <1>2. DOMAIN Power = 0 .. MaxSize + 1
    BY PowerDefined
  <1>3. T \in SUBSET Nat
    BY <1>2, PowerGrows
  <1>4. T # {}
    <2>1. MaxSize + 1 \in DOMAIN Power
      BY <1>1, <1>2
    <2>2. Power[MaxSize + 1] \in Nat /\ Power[MaxSize + 1] > MaxSize + 1
      BY <1>2, <2>1, PowerGrows
    <2>3. Power[MaxSize + 1] \in T
      BY <1>1, <2>1, <2>2
    <2> QED BY <2>3
  <1>5. PICK p \in T : \A y \in T : p <= y
    <2> HIDE DEF T
    <2> QED BY <1>3, <1>4, Least
  <1>6. Q(p)
    BY <1>5
  <1>7. FirstSize = CHOOSE x \in {Power[k] : k \in DOMAIN Power} : Q(x)
    BY DEF FirstSize
  <1>8. p \in {Power[k] : k \in DOMAIN Power}
    BY <1>5
  <1>9. FirstSize \in {Power[k] : k \in DOMAIN Power} /\ Q(FirstSize)
    <2> HIDE DEF Q
    <2> QED BY <1>6, <1>7, <1>8
  <1> QED BY <1>2, <1>9, PowerGrows

\* The number of blocks the constructor computes is enough, with one block not used.
LEMMA BlockCount ==
    ASSUME NEW a \in Nat \ {0}, NEW d \in Nat \ {0}, NEW n, n = (a + 2 * d - 1) \div d
    PROVE  n \in Nat /\ n > 1 /\ (n - 1) * d >= a
  <1> DEFINE c == a + 2 * d - 1
  <1>1. c \in Nat /\ c >= d /\ n = c \div d
    OBVIOUS
  <1> HIDE DEF c
  <1>2. n \in Nat /\ d * n <= c /\ c < d * n + d
    BY <1>1
  <1>3. d * n + d > a + 2 * d - 1
    BY <1>2 DEF c
  <1>4. d * n - d >= a
    BY <1>2, <1>3
  <1>5. (n - 1) * d = d * n - d
    BY <1>2
  <1>6. n > 1
    <2>1. n = 0 => d * n = 0
      OBVIOUS
    <2>2. n = 1 => d * n = d
      OBVIOUS
    <2> QED BY <1>2, <1>4, <2>1, <2>2
  <1> QED BY <1>2, <1>4, <1>5, <1>6

LEMMA InitialSizes ==
    /\ Initial \in Seq(Nat) /\ Len(Initial) \in Nat \ {0}
    /\ DOMAIN Initial = 1 .. Len(Initial)
    /\ \A i \in 1 .. Len(Initial) : Initial[i] \in Nat /\ Initial[i] >= 2
    /\ \/ \A i \in 1 .. Len(Initial) : Initial[i] > MaxSize
       \/ /\ \A i \in 1 .. Len(Initial) : Initial[i] = MAX_BLOCK_SIZE
          /\ Len(Initial) > 1
          /\ (Len(Initial) - 1) * (MAX_BLOCK_SIZE - 1) >= MaxSize
  <1>1. MaxSize \in Nat \ {0} /\ MAX_BLOCK_SIZE \in Nat /\ MAX_BLOCK_SIZE >= 2
    BY QueueAssumption
  <1>2. CASE FirstSize > MAX_BLOCK_SIZE * 2
    <2> DEFINE d == MAX_BLOCK_SIZE - 1
               n == (MaxSize + 2 * d - 1) \div d
    <2>1. d \in Nat \ {0}
      BY <1>1
    <2>2. n \in Nat /\ n > 1 /\ (n - 1) * d >= MaxSize
      <3> HIDE DEF d
      <3> QED BY <1>1, <2>1, BlockCount
    <2>3. Initial = [i \in 1 .. n |-> MAX_BLOCK_SIZE]
      <3>1. MaxSize + MAX_BLOCK_SIZE * 2 - 3 = MaxSize + 2 * d - 1
        BY <1>1
      <3> QED BY <1>2, <3>1 DEF Initial
    <2> HIDE DEF n
    <2>4. Initial \in Seq(Nat) /\ Len(Initial) = n /\ DOMAIN Initial = 1 .. n
      BY <1>1, <2>2, <2>3
    <2> QED BY <1>1, <2>2, <2>3, <2>4
  <1>3. CASE ~ (FirstSize > MAX_BLOCK_SIZE * 2)
    <2>1. Initial = <<FirstSize>>
      BY <1>3 DEF Initial
    <2>2. Initial \in Seq(Nat) /\ Len(Initial) = 1 /\ DOMAIN Initial = 1 .. 1 /\ Initial[1] = FirstSize
      BY <2>1, FirstSizeFits
    <2> QED BY <1>1, <2>2, FirstSizeFits
  <1> QED BY <1>2, <1>3

LEMMA InitInv ==
    ASSUME Init
    PROVE  Inv /\ alive
  <1> DEFINE n == Len(Initial)
  <1>1. /\ n \in Nat \ {0} /\ DOMAIN Initial = 1 .. n
        /\ \A i \in 1 .. n : Initial[i] \in Nat /\ Initial[i] >= 2
        /\ \/ \A i \in 1 .. n : Initial[i] > MaxSize
           \/ /\ \A i \in 1 .. n : Initial[i] = MAX_BLOCK_SIZE
              /\ n > 1
              /\ (n - 1) * (MAX_BLOCK_SIZE - 1) >= MaxSize
    BY InitialSizes
  <1> HIDE DEF n
  <1>2. /\ alive = TRUE /\ items = << >> /\ frontBlock = 1 /\ tailBlock = 1
        /\ largestBlockSize = Initial[1]
        /\ wpc = "idle" /\ mode = "alloc" /\ offer = 1 /\ hadRoom = TRUE
        /\ rpc = "idle" /\ op = "dequeue" /\ nextBlock = 1
        /\ inHand = 0 /\ result = 0 /\ hadData = TRUE
    BY DEF Init
  <1>3. blocks = [i \in 1 .. n |-> MakeBlock(Initial[i], IF i = n THEN 1 ELSE i + 1)]
    BY <1>1 DEF Init, n
  <1>4. ASSUME NEW b \in 1 .. n
        PROVE  /\ blocks[b] \in Block
               /\ blocks[b].size = Initial[b]
               /\ blocks[b].front = 0 /\ blocks[b].tail = 0
               /\ blocks[b].localFront = 0 /\ blocks[b].localTail = 0
               /\ blocks[b].next = IF b = n THEN 1 ELSE b + 1
               /\ blocks[b].next \in 1 .. n
               /\ blocks[b].data = [i \in 0 .. Initial[b] - 1 |-> Raw]
               /\ Count(b) = 0
    <2> DEFINE follower == IF b = n THEN 1 ELSE b + 1
    <2>1. follower \in 1 .. n
      BY <1>1
    <2>2. blocks[b] = MakeBlock(Initial[b], follower)
      BY <1>3
    <2>3. [i \in 0 .. Initial[b] - 1 |-> Raw] \in Data
      BY <1>1 DEF Data, Datum
    <2> HIDE DEF follower
    <2>4. /\ blocks[b].size = Initial[b]
          /\ blocks[b].front = 0 /\ blocks[b].tail = 0
          /\ blocks[b].localFront = 0 /\ blocks[b].localTail = 0
          /\ blocks[b].next = follower
          /\ blocks[b].data = [i \in 0 .. Initial[b] - 1 |-> Raw]
      BY <2>2 DEF MakeBlock
    <2>5. blocks[b] \in Block
      BY <1>1, <2>1, <2>2, <2>3 DEF MakeBlock, Block
    <2>6. Count(b) = 0
      BY <2>4 DEF Count, Dist
    <2> QED BY <2>1, <2>4, <2>5, <2>6 DEF follower
  <1>5. blocks \in Seq(Block) /\ Len(blocks) = n /\ DOMAIN blocks = 1 .. n
    <2>1. blocks \in [1 .. n -> Block]
      BY <1>3, <1>4
    <2> QED BY <1>1, <2>1
  <1>6. Links = n /\ Linked = 1 .. n
    BY <1>2, <1>5 DEF Links, Linked
  <1>7. Core
    <2>1. Control
      <3>1. N \in Nat
        BY QueueAssumption
      <3>2. 1 \in 1 .. n /\ Initial[1] \in Nat \ {0}
        BY <1>1
      <3> QED BY <1>2, <1>5, <3>1, <3>2 DEF Control
    <2>2. ASSUME NEW b \in 1 .. n
          PROVE  BlockInv(b)
      <3>1. blocks[b].data \in [0 .. blocks[b].size - 1 -> Datum]
        <4>1. [i \in 0 .. Initial[b] - 1 |-> Raw] \in [0 .. Initial[b] - 1 -> Datum]
          BY DEF Datum
        <4>2. blocks[b].data = [i \in 0 .. Initial[b] - 1 |-> Raw] /\ blocks[b].size = Initial[b]
          BY <1>4
        <4> QED BY <4>1, <4>2, Zenon
      <3>2. blocks[b].size >= 2 /\ blocks[b].size \in Nat
        <4>1. blocks[b].size = Initial[b]
          BY <1>4
        <4> QED BY <1>1, <4>1
      <3>3. Dist(blocks[b].size, 0, 0) = 0
        BY DEF Dist
      <3>4. /\ blocks[b].front = 0 /\ blocks[b].tail = 0
            /\ blocks[b].localFront = 0 /\ blocks[b].localTail = 0
            /\ blocks[b].next \in DOMAIN blocks
            /\ Count(b) = 0
        BY <1>4, <1>5
      <3> QED BY <3>1, <3>2, <3>3, <3>4 DEF BlockInv
    <2>3. SizeInv
      <3>1. 1 \in 1 .. n
        BY <1>1
      <3>2. \A b \in DOMAIN blocks : b \in 1 .. n /\ blocks[b].size = Initial[b]
        BY <1>4, <1>5
      <3> QED BY <1>1, <1>2, <1>6, <3>1, <3>2 DEF SizeInv
    <2>4. items \in Seq(Nat)
      BY <1>2
    <2>5. \A b \in DOMAIN blocks : BlockInv(b)
      BY <1>5, <2>2
    <2> QED BY <1>5, <2>1, <2>3, <2>4, <2>5 DEF Core
  <1> DEFINE pos == [b \in 1 .. n |-> b - 1]
             start == [b \in 1 .. n |-> 0]
  <1>8. CircleInv(pos)
    <2>1. pos \in [1 .. n -> 0 .. n - 1]
      BY <1>1
    <2>2. ASSUME NEW p \in 0 .. n - 1
          PROVE  \E b \in 1 .. n : pos[b] = p
      <3>1. p + 1 \in 1 .. n /\ pos[p + 1] = p
        BY <1>1
      <3> QED BY <3>1
    <2>3. ASSUME NEW b \in 1 .. n
          PROVE  /\ blocks[b].next \in 1 .. n
                 /\ pos[blocks[b].next] = IF pos[b] = n - 1 THEN 0 ELSE pos[b] + 1
      <3>1. blocks[b].next = (IF b = n THEN 1 ELSE b + 1) /\ blocks[b].next \in 1 .. n
        BY <1>4
      <3>2. \A d \in 1 .. n : pos[d] = d - 1
        OBVIOUS
      <3> HIDE DEF pos
      <3> QED BY <1>1, <3>1, <3>2
    <2>4. 1 \in 1 .. n /\ pos[1] = 0
      BY <1>1
    <2>5. \A b, d \in 1 .. n : pos[b] = pos[d] => b = d
      BY <1>1
    <2> QED BY <1>2, <1>6, <2>1, <2>2, <2>3, <2>4, <2>5 DEF CircleInv
  <1>9. FillInv(pos, start)
    <2>1. start \in [1 .. n -> Nat] /\ \A b \in 1 .. n : start[b] = 0 /\ Count(b) = 0
      BY <1>4
    <2>2. \A b \in 1 .. n : pos[b] >= 0 /\ pos[b] \in Int
      BY <1>1
    <2>3. 1 \in 1 .. n /\ pos[1] = 0
      BY <1>1
    <2>4. Len(items) = 0
      BY <1>2
    <2>5. \A b \in 1 .. n : blocks[b].next \in 1 .. n
      BY <1>4
    <2> HIDE DEF pos, start
    <2>6. ASSUME NEW b \in 1 .. n
          PROVE  /\ pos[b] < pos[tailBlock] => start[blocks[b].next] = start[b] + Count(b)
                 /\ 0 < pos[b] /\ pos[b] <= pos[tailBlock] => Count(b) > 0
                 /\ 0 < pos[b] /\ pos[b] < pos[tailBlock] => Count(b) = blocks[b].size - 1
                 /\ pos[tailBlock] < pos[b] =>
                      Count(b) = IF wpc = "advance" /\ b = blocks[tailBlock].next THEN 1 ELSE 0
      <3>1. pos[b] \in Int /\ pos[b] >= 0 /\ pos[tailBlock] = 0 /\ Count(b) = 0
        BY <1>2, <2>1, <2>2, <2>3
      <3>2. wpc # "advance"
        BY <1>2
      <3> QED BY <3>1, <3>2
    <2>7. \A b, d \in 1 .. n :
             pos[b] < pos[d] /\ pos[d] <= pos[tailBlock] => start[b] + Count(b) <= start[d]
      BY <2>1
    <2>8. start[frontBlock] = 0 /\ start[tailBlock] + Count(tailBlock) = Len(items)
      BY <1>2, <2>1, <2>3, <2>4
    <2> QED BY <1>6, <2>1, <2>6, <2>7, <2>8 DEF FillInv
  <1>10. SlotInv(pos, start)
    <2> SUFFICES ASSUME NEW b \in 1 .. n, NEW i \in 0 .. blocks[b].size - 1
                 PROVE  /\ blocks[b].data[i] = Raw
                        /\ ~ (Place(b, i) < Count(b))
                        /\ ~ Built(b, i)
      BY <1>6 DEF SlotInv
    <2>1. Place(b, i) \in Nat
      <3>1. b \in DOMAIN blocks
        BY <1>5
      <3>2. Place(b, i) \in 0 .. blocks[b].size - 1
        BY <1>7, <3>1, View
      <3> QED BY <3>2
    <2>2. ~ Built(b, i)
      BY <1>2 DEF Built
    <2>3. Count(b) = 0 /\ blocks[b].size = Initial[b]
          /\ blocks[b].data = [j \in 0 .. Initial[b] - 1 |-> Raw]
      BY <1>4
    <2> QED BY <2>1, <2>2, <2>3
  <1>11. WriterInv(pos) /\ ReaderInv(pos)
    BY <1>2 DEF WriterInv, ReaderInv, SeenFull
  <1>12. Layout(pos, start)
    BY <1>8, <1>9, <1>10, <1>11 DEF Layout
  <1> HIDE DEF pos, start
  <1> QED BY <1>2, <1>7, <1>12 DEF Inv
-----------------------------------------------------------------------------
(* The invariant is inductive.                                             *)

\* After the destructor nobody takes a step.
LEMMA GoneIsFinal ==
    ASSUME Core, Gone, ~ alive, Next
    PROVE  FALSE
  <1>1. wpc = "idle" /\ rpc = "idle"
    BY DEF Gone
  <1>2. ~ Enqueue
    BY <1>1 DEF Enqueue, Offer, ReloadFront, Construct, Publish, CheckNext, UseNext,
                FillNext, PublishNext, Allocate, AllocateFails, Link, AdvanceTail
  <1>3. ~ Dequeue
    BY <1>1 DEF Dequeue, Ask, ReloadTail, CheckTailBlock, Recheck, LoadNext,
                LoadNextTail, AdvanceFront, Element, Release
  <1>4. ~ Destruct
    BY DEF Destruct
  <1> QED BY <1>2, <1>3, <1>4 DEF Next

LEMMA WriterKeepsLayout ==
    ASSUME NEW pos, NEW start, Core, Layout(pos, start), Enqueue
    PROVE  Core' /\ alive' = alive /\ \E pos2, start2 : Layout(pos2, start2)'
  <1>1. CASE Offer
    BY <1>1, OfferStep
  <1>2. CASE ReloadFront
    BY <1>2, ReloadFrontStep
  <1>3. CASE Construct
    BY <1>3, ConstructStep
  <1>4. CASE Publish
    BY <1>4, PublishStep
  <1>5. CASE CheckNext
    BY <1>5, CheckNextStep
  <1>6. CASE UseNext
    BY <1>6, UseNextStep
  <1>7. CASE FillNext
    BY <1>7, FillNextStep
  <1>8. CASE PublishNext
    BY <1>8, PublishNextStep
  <1>9. CASE Allocate
    BY <1>9, AllocateStep
  <1>10. CASE AllocateFails
    BY <1>10, AllocateFailsStep
  <1>11. CASE Link
    BY <1>11, LinkStep
  <1>12. CASE AdvanceTail
    BY <1>12, AdvanceTailStep
  <1> QED BY <1>1, <1>2, <1>3, <1>4, <1>5, <1>6, <1>7, <1>8, <1>9, <1>10, <1>11, <1>12
          DEF Enqueue

LEMMA ReaderKeepsLayout ==
    ASSUME NEW pos, NEW start, Core, Layout(pos, start), Dequeue
    PROVE  Core' /\ alive' = alive /\ \E pos2, start2 : Layout(pos2, start2)'
  <1>1. CASE Ask
    BY <1>1, AskStep
  <1>2. CASE ReloadTail
    BY <1>2, ReloadTailStep
  <1>3. CASE CheckTailBlock
    BY <1>3, CheckTailBlockStep
  <1>4. CASE Recheck
    BY <1>4, RecheckStep
  <1>5. CASE LoadNext
    BY <1>5, LoadNextStep
  <1>6. CASE LoadNextTail
    BY <1>6, LoadNextTailStep
  <1>7. CASE AdvanceFront
    BY <1>7, AdvanceFrontStep
  <1>8. CASE Element
    BY <1>8, ElementStep
  <1>9. CASE Release
    BY <1>9, ReleaseStep
  <1> QED BY <1>1, <1>2, <1>3, <1>4, <1>5, <1>6, <1>7, <1>8, <1>9 DEF Dequeue

LEMMA NextInv ==
    ASSUME Inv, Next
    PROVE  Inv'
  <1>1. alive
    BY GoneIsFinal DEF Inv
  <1>2. PICK pos, start : Layout(pos, start)
    BY <1>1 DEF Inv
  <1>3. Core
    BY DEF Inv
  <1>4. CASE Enqueue
    BY <1>1, <1>2, <1>3, <1>4, WriterKeepsLayout DEF Inv
  <1>5. CASE Dequeue
    BY <1>1, <1>2, <1>3, <1>5, ReaderKeepsLayout DEF Inv
  <1>6. CASE Destruct
    BY <1>2, <1>3, <1>6, DestructStep DEF Inv
  <1> QED BY <1>4, <1>5, <1>6 DEF Next

LEMMA StutterInv ==
    ASSUME Inv, UNCHANGED vars
    PROVE  Inv'
  <1>1. UNCHANGED <<alive, items, blocks, wpc, mode, offer, hadRoom, tailBlock, largestBlockSize,
                    rpc, op, frontBlock, nextBlock, held, inHand, result, hadData>>
    BY DEF vars, writer, reader
  <1>2. /\ Links' = Links /\ Linked' = Linked
        /\ \A b : Count(b)' = Count(b) /\ \A i : Place(b, i)' = Place(b, i)
    BY <1>1 DEF Links, Linked, Count, Place
  <1>3. Core'
    <2>1. Control'
      BY <1>1 DEF Inv, Core, Control
    <2>2. \A b \in DOMAIN blocks' : BlockInv(b)'
      BY <1>1, <1>2 DEF Inv, Core, BlockInv
    <2>3. SizeInv'
      BY <1>1, <1>2 DEF Inv, Core, SizeInv
    <2>4. blocks' \in Seq(Block) /\ items' \in Seq(Nat)
      BY <1>1 DEF Inv, Core
    <2> QED BY <2>1, <2>2, <2>3, <2>4 DEF Core
  <1>4. ASSUME NEW pos, NEW start, Layout(pos, start)
        PROVE  Layout(pos, start)'
    <2>1. CircleInv(pos)' /\ FillInv(pos, start)'
      BY <1>1, <1>2, <1>4 DEF Layout, CircleInv, FillInv
    <2>2. SlotInv(pos, start)'
      BY <1>1, <1>2, <1>4 DEF Layout, SlotInv, Built
    <2>3. WriterInv(pos)'
      BY <1>1, <1>2, <1>4 DEF Layout, WriterInv, SeenFull, Inc
    <2>4. ReaderInv(pos)'
      BY <1>1, <1>2, <1>4 DEF Layout, ReaderInv
    <2> QED BY <2>1, <2>2, <2>3, <2>4 DEF Layout
  <1>5. Gone' <=> Gone
    BY <1>1 DEF Gone
  <1> QED BY <1>1, <1>3, <1>4, <1>5 DEF Inv

\* Whatever the writer and the reader do, in whatever order, the blocks form one circle,
\* and each slot of each block holds what the account of the values says.
THEOREM Invariance == Safety => []Inv
  <1>1. Init => Inv
    BY InitInv
  <1>2. Inv /\ [Next]_vars => Inv'
    BY NextInv, StutterInv
  <1> QED BY <1>1, <1>2, PTL DEF Safety

-----------------------------------------------------------------------------
(* What the runs check.                                                    *)

\* No index leaves its block, for every size of the blocks and however many are added.
THEOREM TypeCorrect == Safety => []TypeOK
  <1>1. Inv => TypeOK
    <2> SUFFICES ASSUME Inv PROVE TypeOK
      OBVIOUS
    <2>1. Core
      BY DEF Inv
    <2>2. ASSUME NEW b \in DOMAIN blocks
          PROVE  IsBlock(b)
      <3> DEFINE B == blocks[b]
      <3>1. /\ B.size \in Nat /\ B.size >= 2
            /\ B.front \in 0 .. B.size - 1 /\ B.tail \in 0 .. B.size - 1
            /\ B.localFront \in 0 .. B.size - 1 /\ B.localTail \in 0 .. B.size - 1
            /\ B.next \in DOMAIN blocks
            /\ B.data \in [0 .. B.size - 1 -> Datum]
        BY <2>1, View
      <3>2. B.size \in Nat \ {0}
        BY <3>1
      <3> QED BY <3>1, <3>2 DEF IsBlock, Datum
    <2> QED BY <2>1, <2>2 DEF TypeOK, Core
  <1> QED BY <1>1, Invariance, PTL

LEMMA LifetimesOfInv ==
    ASSUME Inv
    PROVE  ElementLifetimes
  <1>1. Core
    BY DEF Inv
  <1>2. CASE ~ alive
    <2>1. Gone
      BY <1>2 DEF Inv
    <2>2. \A b \in DOMAIN blocks : DOMAIN blocks[b].data = 0 .. blocks[b].size - 1
      BY <1>1, View
    <2> QED BY <2>1, <2>2 DEF Gone, ElementLifetimes
  <1>3. CASE alive
    <2>1. PICK pos, start : Layout(pos, start)
      BY <1>3 DEF Inv
    <2> DEFINE t == tailBlock
               next == blocks[t].next
    <2>2. CircleInv(pos) /\ FillInv(pos, start) /\ SlotInv(pos, start) /\ WriterInv(pos)
          /\ ReaderInv(pos)
      BY <2>1 DEF Layout
    <2>3. Linked \subseteq DOMAIN blocks /\ t \in Linked /\ frontBlock \in Linked /\ Links \in Int
      BY <1>1, <2>2, LinkedAreBlocks DEF CircleInv
    <2>4. wpc \in {"usenext", "fillnext"} =>
             next \in Linked /\ pos[t] < pos[next] /\ Count(next) = 0
      <3> HAVE wpc \in {"usenext", "fillnext"}
      <3>1. pos[t] < Links - 1 /\ pos[t] \in Int
        BY <2>2, <2>3 DEF WriterInv, CircleInv
      <3>2. next \in Linked /\ pos[next] = IF pos[t] = Links - 1 THEN 0 ELSE pos[t] + 1
        BY <2>2, <2>3 DEF CircleInv
      <3>3. pos[t] < pos[next]
        BY <3>1, <3>2
      <3> QED BY <2>2, <3>2, <3>3 DEF FillInv
    <2>5. ASSUME wpc = "construct"
          PROVE  blocks[t].data[blocks[t].tail] = Raw
      <3>1. blocks[t].tail \in 0 .. blocks[t].size - 1
        BY <1>1, <2>3, View
      <3>2. Place(t, blocks[t].tail) \in Nat /\ Place(t, blocks[t].tail) = Count(t)
        BY <1>1, <2>3, <3>1, Slot
      <3>3. ~ Built(t, blocks[t].tail)
        BY <2>5 DEF Built
      <3> QED BY <2>2, <2>3, <3>1, <3>2, <3>3 DEF SlotInv
    <2>6. ASSUME wpc = "usenext"
          PROVE  blocks[next].front = blocks[next].tail
      BY <1>1, <2>3, <2>4, <2>6, View
    <2>7. ASSUME wpc = "fillnext"
          PROVE  blocks[next].data[blocks[next].tail] = Raw
      <3>1. next \in Linked /\ pos[t] < pos[next] /\ Count(next) = 0
        BY <2>4, <2>7
      <3>2. blocks[next].tail \in 0 .. blocks[next].size - 1
        BY <1>1, <2>3, <3>1, View
      <3>3. Place(next, blocks[next].tail) \in Nat /\ Place(next, blocks[next].tail) = Count(next)
        BY <1>1, <3>1, <3>2, Slot
      <3>4. ~ Built(next, blocks[next].tail)
        BY <2>7 DEF Built
      <3> HIDE DEF next
      <3> QED BY <2>2, <3>1, <3>2, <3>3, <3>4 DEF SlotInv
    <2>8. ASSUME rpc = "element"
          PROVE  blocks[frontBlock].data[blocks[frontBlock].front] # Raw
      <3>1. Count(frontBlock) > 0
        BY <1>1, <2>1, <2>8, ReaderAt
      <3>2. start[frontBlock] = 0 /\ pos[frontBlock] <= pos[tailBlock]
        BY <1>1, <2>1, FrontFacts
      <3>3. blocks[frontBlock].data[blocks[frontBlock].front] \in Nat
        BY <1>1, <2>1, <2>3, <2>8, <3>1, <3>2, FirstValue
      <3>4. Raw \notin Nat
        BY QueueAssumption
      <3> QED BY <3>3, <3>4
    <2>9. ASSUME rpc = "nexttail"
          PROVE  blocks[nextBlock].front # blocks[nextBlock].tail
      <3>1. 0 < pos[tailBlock] /\ nextBlock = blocks[frontBlock].next
        BY <2>2, <2>9 DEF ReaderInv
      <3> QED BY <1>1, <2>1, <3>1, FrontFacts
    <2> QED BY <1>3, <2>5, <2>6, <2>7, <2>8, <2>9 DEF ElementLifetimes, tailBlock_, frontBlock_
  <1> QED BY <1>2, <1>3

\* The writer builds an element only where there is none and the reader takes one only
\* where there is one, the assertions of enqueue and try_dequeue hold, and the
\* destructor leaves none behind.
THEOREM Lifetimes == Safety => []ElementLifetimes
  BY Invariance, LifetimesOfInv, PTL

LEMMA PeekOfInv ==
    ASSUME Inv
    PROVE  PeekStays
  <1> SUFFICES ASSUME rpc = "peeked"
               PROVE  /\ blocks[held[1]].data[held[2]] = inHand
                      /\ items # << >> /\ Head(items) = inHand
    BY DEF PeekStays
  <1>1. Core /\ alive
    BY DEF Inv, Gone
  <1>2. PICK pos, start : Layout(pos, start)
    BY <1>1 DEF Inv
  <1>3. inHand = items[1] /\ held[2] = blocks[held[1]].front
    BY <1>2 DEF Layout, ReaderInv
  <1>4. /\ held[1] \in Linked /\ pos[held[1]] <= pos[tailBlock]
        /\ Count(held[1]) > 0 /\ start[held[1]] = 0 /\ Len(items) >= 1
    BY <1>1, <1>2, ReaderAt
  <1>5. blocks[held[1]].data[blocks[held[1]].front] = items[1]
    BY <1>1, <1>2, <1>4, FirstValue
  <1>6. items \in Seq(Nat)
    BY <1>1 DEF Core
  <1> QED BY <1>3, <1>4, <1>5, <1>6

\* The pointer peek returned is good until the reader's next call: no write and no new
\* block moves or overwrites the element.
THEOREM PeekIsStable == Safety => []PeekStays
  BY Invariance, PeekOfInv, PTL

-----------------------------------------------------------------------------
(* The circle of blocks is a first-in first-out queue.                     *)

LEMMA WriterIsFifo ==
    ASSUME NEW pos, NEW start, Core, alive, Layout(pos, start), Enqueue
    PROVE  [Fifo!Next]_(Fifo!vars)
  <1>1. wpc # "idle" => offer <= N
    BY DEF Layout, WriterInv
  <1>2. CASE Offer
    <2>1. Fifo!CallPut
      BY <1>2 DEF Offer, Fifo!CallPut, reader
    <2> QED BY <2>1 DEF Fifo!Next
  <1>3. CASE ReloadFront \/ Construct \/ UseNext \/ FillNext \/ PublishNext \/ Allocate \/ Link
    BY <1>3 DEF ReloadFront, Construct, UseNext, FillNext, PublishNext, Allocate, Link, reader,
                Fifo!vars
  <1>4. CASE Publish \/ AdvanceTail
    <2>1. Fifo!Put
      BY <1>1, <1>4 DEF Publish, AdvanceTail, Return, reader, Fifo!Put
    <2> QED BY <2>1 DEF Fifo!Next
  <1>5. CASE CheckNext
    <2>1. CASE wpc' = "idle"
      <3>1. ~ hadRoom
        BY <1>5, <2>1, CheckNextStep
      <3>2. Fifo!Refuse
        BY <1>5, <2>1, <3>1 DEF CheckNext, Return, reader, Fifo!Refuse
      <3> QED BY <3>2 DEF Fifo!Next
    <2>2. CASE wpc' # "idle"
      BY <1>5, <2>2 DEF CheckNext, Return, reader, Fifo!vars
    <2> QED BY <2>1, <2>2
  <1>6. CASE AllocateFails
    <2>1. ~ hadRoom
      BY <1>6, AllocateFailsStep
    <2>2. Fifo!Refuse
      BY <1>6, <2>1 DEF AllocateFails, Return, reader, Fifo!Refuse
    <2> QED BY <2>2 DEF Fifo!Next
  <1> QED BY <1>2, <1>3, <1>4, <1>5, <1>6 DEF Enqueue

LEMMA ReaderIsFifo ==
    ASSUME NEW pos, NEW start, Core, alive, Layout(pos, start), Dequeue
    PROVE  [Fifo!Next]_(Fifo!vars)
  <1>1. items \in Seq(Nat)
    BY DEF Core
  <1>2. CASE Ask
    <2>1. Fifo!CallTake
      BY <1>2 DEF Ask, Fifo!CallTake, writer
    <2> QED BY <2>1 DEF Fifo!Next
  <1>3. CASE ReloadTail \/ Recheck \/ LoadNext \/ AdvanceFront
    BY <1>3 DEF ReloadTail, Recheck, LoadNext, AdvanceFront, writer, Fifo!vars
  <1>4. CASE CheckTailBlock
    <2>1. CASE rpc' = "idle"
      <3>1. ~ hadData
        BY <1>4, <2>1, CheckTailBlockStep
      <3>2. Fifo!Miss
        BY <1>4, <2>1, <3>1 DEF CheckTailBlock, writer, Fifo!Miss
      <3> QED BY <3>2 DEF Fifo!Next
    <2>2. CASE rpc' # "idle"
      BY <1>4, <2>2 DEF CheckTailBlock, writer, Fifo!vars
    <2> QED BY <2>1, <2>2
  <1>5. CASE LoadNextTail
    <2>1. CASE op = "peek"
      <3>1. 0 < pos[tailBlock]
        BY <1>5 DEF LoadNextTail, Layout, ReaderInv
      <3>2. PICK next \in Linked : pos[next] = 1 /\ Count(next) \in Nat /\ Count(next) > 0
        BY <3>1, FrontFacts
      <3>3. start[next] + Count(next) <= Len(items) /\ start[next] \in Nat
        <4>1. CircleInv(pos) /\ FillInv(pos, start)
          BY DEF Layout
        <4>2. pos[tailBlock] \in Nat /\ Len(items) \in Nat
          BY <4>1, Bounds
        <4>3. pos[next] <= pos[tailBlock]
          BY <3>1, <3>2, <4>2
        <4> QED BY <4>1, <4>3, Bounds DEF FillInv
      <3>4. items # << >>
        BY <1>1, <3>2, <3>3
      <3>5. Fifo!Look
        BY <1>5, <2>1, <3>4 DEF LoadNextTail, Point, writer, Fifo!Look
      <3> QED BY <3>5 DEF Fifo!Next
    <2>2. CASE op # "peek"
      BY <1>5, <2>2 DEF LoadNextTail, writer, Fifo!vars
    <2> QED BY <2>1, <2>2
  <1>6. CASE Element
    <2>1. CASE op = "peek"
      <3>1. Len(items) >= 1
        BY <1>6, ReaderAt DEF Element
      <3>2. items # << >>
        BY <1>1, <3>1
      <3>3. Fifo!Look
        BY <1>6, <2>1, <3>2 DEF Element, Point, writer, Fifo!Look
      <3> QED BY <3>3 DEF Fifo!Next
    <2>2. CASE op # "peek"
      BY <1>6, <2>2 DEF Element, writer, Fifo!vars
    <2> QED BY <2>1, <2>2
  <1>7. CASE Release
    <2>1. Len(items) >= 1 /\ items' = Tail(items) /\ result' = items[1]
      BY <1>7, ReleaseStep
    <2>2. items # << >> /\ result' = Head(items)
      BY <1>1, <2>1
    <2>3. Fifo!Take
      BY <1>7, <2>1, <2>2 DEF Release, writer, Fifo!Take
    <2> QED BY <2>3 DEF Fifo!Next
  <1> QED BY <1>2, <1>3, <1>4, <1>5, <1>6, <1>7 DEF Dequeue

\* Values come out in the order they went in, each once; an enqueue is refused only if the
\* queue held MaxSize values, and the reader misses nothing that was there when it asked.
THEOREM IsFifo == Safety => Fifo!Safety
  <1>1. Init => Fifo!Init
    BY DEF Init, Fifo!Init
  <1>2. Inv /\ [Next]_vars => [Fifo!Next]_(Fifo!vars)
    <2>1. CASE UNCHANGED vars
      BY <2>1 DEF vars, writer, reader, Fifo!vars
    <2>2. ASSUME Inv, Next
          PROVE  [Fifo!Next]_(Fifo!vars)
      <3>1. Core /\ alive
        BY <2>2, GoneIsFinal DEF Inv
      <3>2. PICK pos, start : Layout(pos, start)
        BY <2>2, <3>1 DEF Inv
      <3>3. CASE Enqueue
        BY <3>1, <3>2, <3>3, WriterIsFifo
      <3>4. CASE Dequeue
        BY <3>1, <3>2, <3>4, ReaderIsFifo
      <3>5. CASE Destruct
        <4>1. Fifo!Drop
          BY <3>5 DEF Destruct, writer, Fifo!Drop
        <4> QED BY <4>1 DEF Fifo!Next
      <3> QED BY <2>2, <3>3, <3>4, <3>5 DEF Next
    <2> QED BY <2>1, <2>2
  <1> QED BY <1>1, <1>2, Invariance, PTL DEF Safety, Fifo!Safety
=============================================================================
