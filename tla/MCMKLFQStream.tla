--------------------------- MODULE MCMKLFQStream ---------------------------
(***************************************************************************)
(* The smallest wiring with every kind of thread of run_6threads, and a    *)
(* queue whose first block holds Capacity elements.                        *)
(***************************************************************************)
EXTENDS MKLFQStream

CONSTANTS prod, trans, producer, consumer, transformer, consumer_tfo

MCStreams   == {prod, trans}
MCConsumers == {consumer, transformer, consumer_tfo}
MCIn  == [c \in MCConsumers |-> IF c = consumer_tfo THEN trans ELSE prod]
MCOut == [t \in MCConsumers \cup {producer} |->
            CASE t = producer    -> prod
              [] t = transformer -> trans
              [] OTHER           -> NoStream]
=============================================================================
