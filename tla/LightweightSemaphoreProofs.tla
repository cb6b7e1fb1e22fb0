--------------------- MODULE LightweightSemaphoreProofs ---------------------
(***************************************************************************)
(* The semaphore for any number of signals at a time.                      *)
(***************************************************************************)
EXTENDS LightweightSemaphore, TLAPS

LEMMA InitInv == Init => Inv
  BY DEF Init, Inv, TypeOK, LeavesNoTrace, Posts, One, Claimed

\* A signal posts exactly if it meets a count below zero, and then the waiter sleeps.
LEMMA SignallerInv ==
    ASSUME Inv, Signaller
    PROVE  Inv'
  <1> USE DEF Inv, TypeOK, LeavesNoTrace, Posts, One, Claimed
  <1>1. CASE Post
    BY <1>1 DEF Post
  <1>2. ASSUME NEW n \in 1 .. MaxSignal, Signal(n)
        PROVE  Inv'
    <2>1. n \in Nat \ {0} /\ MaxSignal \in Nat
      BY SemaphoreAssumption
    <2> QED BY <1>2, <2>1 DEF Signal
  <1> QED BY <1>1, <1>2 DEF Signaller

LEMMA WaiterInv ==
    ASSUME Inv, Call \/ Waiting
    PROVE  Inv'
  <1> USE DEF Inv, TypeOK, LeavesNoTrace, Posts, One, Claimed
  <1>1. CASE Call
    BY <1>1 DEF Call
  <1>2. CASE FindSignal \/ FindNothing
    BY <1>2 DEF FindSignal, FindNothing
  <1>3. CASE Take
    BY <1>3 DEF Take
  <1>4. CASE StopSpinning
    BY <1>4 DEF StopSpinning
  <1>5. CASE Claim
    BY <1>5 DEF Claim
  <1>6. CASE Wake
    BY <1>6 DEF Wake
  <1>7. CASE TimeOut
    BY <1>7 DEF TimeOut
  <1>8. CASE Undo
    BY <1>8 DEF Undo
  <1>9. CASE Redo
    BY <1>9 DEF Redo
  <1>10. CASE TrySema
    BY <1>10 DEF TrySema
  <1> QED BY <1>1, <1>2, <1>3, <1>4, <1>5, <1>6, <1>7, <1>8, <1>9, <1>10 DEF Waiting

LEMMA StepInv == Inv /\ [Next]_vars => Inv'
  <1>1. CASE UNCHANGED vars
    BY <1>1 DEF vars, Inv, TypeOK, LeavesNoTrace, Posts, One, Claimed
  <1> QED BY <1>1, SignallerInv, WaiterInv DEF Next

\* What each place of the waiter says of the count and of the semaphore of the
\* operating system holds at any time.
THEOREM Invariance == Safety => []Inv
  BY InitInv, StepInv, PTL DEF Safety

\* Type correctness, and the assertion of signal(): never two waiters in the count.
THEOREM TypeCorrect == Safety => []TypeOK
  <1>1. Inv => TypeOK
    BY DEF Inv
  <1> QED BY <1>1, Invariance, PTL

\* A wait that has come back, timed out or not, leaves nothing behind for the next.
THEOREM NothingLeftBehind == Safety => []LeavesNoTrace
  <1>1. Inv => LeavesNoTrace
    BY DEF Inv
  <1> QED BY <1>1, Invariance, PTL

(***************************************************************************)
(* It is a counting semaphore.                                             *)
(***************************************************************************)
LEMMA SignallerCounts ==
    ASSUME Inv, Signaller
    PROVE  [Semaphore!Next]_(Semaphore!vars)
  <1>1. CASE Post
    BY <1>1 DEF Post, Semaphore!vars, Value, Claimed, One
  <1>2. ASSUME NEW n \in 1 .. MaxSignal, Signal(n)
        PROVE  Semaphore!Give
    <2>1. n \in Nat \ {0} /\ MaxSignal \in Nat
      BY SemaphoreAssumption
    <2>2. Value' = Value + n /\ waiter' = waiter
      BY <1>2, <2>1 DEF Signal, Value, Claimed, One, Inv, TypeOK
    <2>3. Value \in Nat
      BY DEF Value, Claimed, One, Inv, TypeOK, LeavesNoTrace
    <2> QED BY <2>1, <2>2, <2>3 DEF Semaphore!Give
  <1> QED BY <1>1, <1>2 DEF Signaller, Semaphore!Next

\* The value is taken by the step in which the wait comes back.
LEMMA WaiterCounts ==
    ASSUME Inv, Call \/ Waiting
    PROVE  [Semaphore!Next]_(Semaphore!vars)
  <1> USE DEF Inv, TypeOK, LeavesNoTrace, Posts, One, Claimed, Value
  <1>1. CASE Call
    BY <1>1 DEF Call, Semaphore!Next, Semaphore!Enter
  <1>2. CASE FindSignal \/ StopSpinning \/ TimeOut \/ Redo
    BY <1>2 DEF FindSignal, StopSpinning, TimeOut, Redo, Semaphore!vars
  <1>3. CASE FindNothing
    BY <1>3 DEF FindNothing, Semaphore!Next, Semaphore!GiveUp, Semaphore!vars
  <1>4. CASE Take
    BY <1>4 DEF Take, Semaphore!Next, Semaphore!Take
  <1>5. CASE Claim
    BY <1>5 DEF Claim, Semaphore!Next, Semaphore!Take, Semaphore!vars
  <1>6. CASE Wake
    BY <1>6 DEF Wake, Semaphore!Next, Semaphore!Take
  <1>7. CASE Undo
    BY <1>7 DEF Undo, Semaphore!Next, Semaphore!GiveUp, Semaphore!vars
  <1>8. CASE TrySema
    BY <1>8 DEF TrySema, Semaphore!Next, Semaphore!Take, Semaphore!vars
  <1> QED BY <1>1, <1>2, <1>3, <1>4, <1>5, <1>6, <1>7, <1>8 DEF Waiting

\* Every step is one of a counting semaphore or changes nothing of it: no signal is
\* lost or taken twice, and a wait fails only at a moment when there is none.
THEOREM IsCountingSemaphore == Safety => Counts
  <1>1. Init => Semaphore!Init
    BY DEF Init, Semaphore!Init, Value, Claimed, One
  <1>2. Inv /\ [Next]_vars => [Semaphore!Next]_(Semaphore!vars)
    <2>1. UNCHANGED vars => UNCHANGED Semaphore!vars
      BY DEF vars, Semaphore!vars, Value, Claimed, One
    <2> QED BY <2>1, SignallerCounts, WaiterCounts DEF Next
  <1> QED BY <1>1, <1>2, Invariance, PTL DEF Safety, Counts, Semaphore!Safety
=============================================================================
