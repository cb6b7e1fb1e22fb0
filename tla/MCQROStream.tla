---------------------------- MODULE MCQROStream ----------------------------
(***************************************************************************)
(* A producer, the transformer and a consumer of the second stream.        *)
(***************************************************************************)
EXTENDS QROStream

CONSTANTS prod, trans, producer, transformer, consumer_tfo

MCStreams   == {prod, trans}
MCConsumers == {transformer, consumer_tfo}
MCIn  == [c \in MCConsumers |-> IF c = consumer_tfo THEN trans ELSE prod]
MCOut == [t \in MCConsumers \cup {producer} |->
            CASE t = producer    -> prod
              [] t = transformer -> trans
              [] OTHER           -> NoStream]
=============================================================================
