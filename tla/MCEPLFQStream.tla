--------------------------- MODULE MCEPLFQStream ---------------------------
(***************************************************************************)
(* A producer, a plain consumer and the transformer on prodStream, and a   *)
(* consumer on transStream where Consumers has it.                         *)
(***************************************************************************)
EXTENDS EPLFQStream

CONSTANTS prod, trans, producer, consumer, transformer, consumer_tfo

MCStreams == {prod, trans}
Pair      == {consumer, transformer}
Chain     == {transformer, consumer_tfo}
AllKinds  == Pair \cup Chain
MCIn  == [c \in Consumers |-> IF c = consumer_tfo THEN trans ELSE prod]
MCOut == [t \in Threads |-> CASE t = producer    -> prod
                              [] t = transformer -> trans
                              [] OTHER           -> NoStream]
=============================================================================
