------------------------ MODULE LightweightSemaphore ------------------------
(***************************************************************************)
(* moodycamel's spsc_sema::LightweightSemaphore (atomicops.h): an atomic   *)
(* count in front of the semaphore of the operating system, for one thread *)
(* that signals and one that waits.  A waiter that finds no signal takes   *)
(* the count below zero and sleeps; a wait that times out has to undo that *)
(* although a signal may have seen it.                                     *)
(***************************************************************************)
EXTENDS Integers

CONSTANTS
    MaxSignal,  \* the largest argument of signal()
    MaxValue    \* bound of the model: signals given and not yet taken

ASSUME SemaphoreAssumption ==
    /\ MaxSignal \in Nat \ {0}
    /\ MaxValue \in Nat \ {0}

VARIABLES
    m_count,    \* LightweightSemaphore::m_count
    m_sema,     \* the value of the sem_t in m_sema
    signaller,  \* signalling thread: "idle", "post" (before m_sema.signal(1))
    waiter,     \* waiting thread: "idle" or its place inside a wait
    mode        \* its call: "try" (tryWait()), "wait" (wait()), "timed" (wait(usecs))

vars == <<m_count, m_sema, signaller, waiter, mode>>

Init ==
    /\ m_count   = 0
    /\ m_sema    = 0
    /\ signaller = "idle"
    /\ waiter    = "idle"
    /\ mode      = "wait"
-----------------------------------------------------------------------------
(* signal().                                                               *)

\* The waiter has taken a signal from m_count in advance.
Claimed == waiter \in {"block", "undo", "trysem"}

One(b) == IF b THEN 1 ELSE 0

\* Signals given that no wait has returned with.
Value == m_count + One(Claimed)

\* Mutant: a count of zero is taken for a sleeper, too.
SignalOften(n) ==
    /\ signaller = "idle"
    /\ Value + n <= MaxValue
    /\ m_count' = m_count + n
    /\ signaller' = IF m_count <= 0 THEN "post" ELSE "idle"
    /\ UNCHANGED <<m_sema, waiter, mode>>

Signal(n) ==
    /\ signaller = "idle"
    /\ Value + n <= MaxValue
    /\ m_count' = m_count + n
    /\ signaller' = IF m_count < 0 THEN "post" ELSE "idle"
    /\ UNCHANGED <<m_sema, waiter, mode>>

Post ==
    /\ signaller = "post"
    /\ m_sema' = m_sema + 1
    /\ signaller' = "idle"
    /\ UNCHANGED <<m_count, waiter, mode>>

Signaller == Post \/ \E n \in 1 .. MaxSignal : Signal(n)
-----------------------------------------------------------------------------
(* tryWait(), wait() and wait(timeout_usecs).                              *)

Call ==
    /\ waiter = "idle"
    /\ waiter' = "try"
    /\ mode' \in {"try", "wait", "timed"}
    /\ UNCHANGED <<m_count, m_sema, signaller>>

\* tryWait(), and an iteration of the spinning: m_count.load() > 0.
FindSignal ==
    /\ waiter \in {"try", "spin"}
    /\ m_count > 0
    /\ waiter' = "take"
    /\ UNCHANGED <<m_count, m_sema, signaller, mode>>

\* tryWait() finds nothing: it returns false, a wait goes on to spin.
FindNothing ==
    /\ waiter = "try"
    /\ m_count <= 0
    /\ waiter' = IF mode = "try" THEN "idle" ELSE "spin"
    /\ UNCHANGED <<m_count, m_sema, signaller, mode>>

Take ==
    /\ waiter = "take"
    /\ m_count' = m_count - 1
    /\ waiter' = "idle"
    /\ UNCHANGED <<m_sema, signaller, mode>>

\* Enough of spinning; the last load saw no signal.
StopSpinning ==
    /\ waiter = "spin"
    /\ m_count <= 0
    /\ waiter' = "claim"
    /\ UNCHANGED <<m_count, m_sema, signaller, mode>>

Claim ==
    /\ waiter = "claim"
    /\ m_count' = m_count - 1
    /\ waiter' = IF m_count > 0 THEN "idle" ELSE "block"
    /\ UNCHANGED <<m_sema, signaller, mode>>

\* sem_wait, sem_timedwait.
Wake ==
    /\ waiter = "block"
    /\ m_sema > 0
    /\ m_sema' = m_sema - 1
    /\ waiter' = "idle"
    /\ UNCHANGED <<m_count, signaller, mode>>

TimeOut ==
    /\ waiter = "block"
    /\ mode = "timed"
    /\ m_sema = 0
    /\ waiter' = "undo"
    /\ UNCHANGED <<m_count, m_sema, signaller, mode>>

\* Mutant: the claim is taken back whether or not a signal has seen it.
UndoAlways ==
    /\ waiter = "undo"
    /\ m_count' = m_count + 1
    /\ waiter' = "idle"
    /\ UNCHANGED <<m_sema, signaller, mode>>

\* Back from below zero no signal has seen the claim, and wait() returns false.
Undo ==
    /\ waiter = "undo"
    /\ m_count' = m_count + 1
    /\ waiter' = IF m_count < 0 THEN "idle" ELSE "redo"
    /\ UNCHANGED <<m_sema, signaller, mode>>

\* Mutant: the test of the old count is the wrong way round.
RedoBackwards ==
    /\ waiter = "redo"
    /\ m_count' = m_count - 1
    /\ waiter' = IF m_count > 0 THEN "undo" ELSE "trysem"
    /\ UNCHANGED <<m_sema, signaller, mode>>

\* "Oh, the producer thread just signaled the semaphore after all."
Redo ==
    /\ waiter = "redo"
    /\ m_count' = m_count - 1
    /\ waiter' = IF m_count > 0 THEN "trysem" ELSE "undo"
    /\ UNCHANGED <<m_sema, signaller, mode>>

TrySema ==
    /\ waiter = "trysem"
    /\ m_sema' = IF m_sema > 0 THEN m_sema - 1 ELSE m_sema
    /\ waiter' = IF m_sema > 0 THEN "idle" ELSE "undo"
    /\ UNCHANGED <<m_count, signaller, mode>>

\* The waiter inside a call.
Waiting ==
    \/ FindSignal \/ FindNothing \/ Take
    \/ StopSpinning \/ Claim \/ Wake
    \/ TimeOut \/ Undo \/ Redo \/ TrySema
-----------------------------------------------------------------------------
Next == Signaller \/ Call \/ Waiting

Safety == Init /\ [][Next]_vars

\* A thread inside an operation goes on; nobody has to begin one.  The spinning
\* is bounded by the code.
Spec == Safety /\ WF_vars(Post) /\ WF_vars(Waiting)
-----------------------------------------------------------------------------
(* Properties.                                                             *)

\* Type invariant, with the assertion oldCount >= -1 of signal().
TypeOK ==
    /\ m_count \in Int /\ m_count >= -1
    /\ m_sema \in Nat
    /\ signaller \in {"idle", "post"}
    /\ waiter \in {"idle", "try", "spin", "take", "claim", "block", "undo", "redo", "trysem"}
    /\ mode \in {"try", "wait", "timed"}

\* Signals of the operating system's semaphore, given or about to be.
Posts == m_sema + One(signaller = "post")

\* A wait that has come back, with a signal or without, leaves nothing behind: the
\* semaphore of the operating system is only used by the one wait that sleeps, and
\* exactly once if a signal has found it sleeping.
LeavesNoTrace ==
    /\ Posts = One(waiter = "redo" \/ (Claimed /\ m_count >= 0))
    /\ ~ Claimed => m_count >= 0
    /\ waiter \in {"take", "redo"} => m_count > 0
    /\ waiter \in {"undo", "redo", "trysem"} => mode = "timed"

\* The inductive invariant.
Inv == TypeOK /\ LeavesNoTrace

Semaphore == INSTANCE CountingSemaphore WITH
    value   <- Value,
    waiting <- waiter # "idle"

\* Steps as those of a counting semaphore: no signal is lost or taken twice, and a
\* wait comes back without one only at a moment when there is none.
Counts == Semaphore!Safety

\* The same, and a wait does not go on while there is a signal for it.
ImplementsSemaphore == Semaphore!Spec

\* A wait with a timeout comes back: its loop behind the timeout ends.
TimedWaitReturns == (waiter # "idle" /\ mode = "timed") ~> waiter = "idle"
=============================================================================
