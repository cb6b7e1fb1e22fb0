------------------------------ MODULE Topology ------------------------------
(***************************************************************************)
(* The thread wiring that every program of the repository sets up in its   *)
(* main.cpp: one producer thread feeds the first stream, every other       *)
(* thread subscribes to exactly one stream, and a transformer feeds a      *)
(* second stream with what it reads from its own.                          *)
(*                                                                         *)
(* run_6threads is the instance                                            *)
(*    Streams   = {prodStream, transStream},                               *)
(*    Consumers = {consumer_fast, consumer_slow, consumer_instant,         *)
(*                 transformer, consumer_tfo};                             *)
(* run_overcapacity has the same shape with more plain consumers.          *)
(***************************************************************************)
EXTENDS Naturals

CONSTANTS
    Streams,    \* the stream objects of one run
    Producer,   \* the producer thread
    Consumers,  \* the threads that subscribe, transformers included
    In,         \* In[c]: the stream consumer c subscribes to
    Out,        \* Out[t]: the stream thread t pushes to, or NoStream
    NoStream,
    N           \* N_OF_DATAFRAMES, the frames the producer creates

Threads == Consumers \cup {Producer}

\* The one thread that pushes to s and terminates it.
Feeder(s) == CHOOSE t \in Threads : Out[t] = s

Feeders == {t \in Threads : Out[t] # NoStream}

(***************************************************************************)
(* What main.cpp guarantees of the wiring: each stream has exactly one     *)
(* feeder, the producer is one of the feeders and subscribes to nothing,   *)
(* and no thread reads the stream it writes.                               *)
(***************************************************************************)
ASSUME TopologyAssumption ==
    /\ Producer \notin Consumers
    /\ NoStream \notin Streams
    /\ In \in [Consumers -> Streams]
    /\ Out \in [Threads -> Streams \cup {NoStream}]
    /\ Out[Producer] # NoStream
    /\ \A s \in Streams : \E t \in Threads : Out[t] = s
    /\ \A t, u \in Feeders : Out[t] = Out[u] => t = u
    /\ \A c \in Consumers : In[c] # Out[c]
    /\ N \in Nat \ {0}
=============================================================================
