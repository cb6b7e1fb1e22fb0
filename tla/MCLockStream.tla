---------------------------- MODULE MCLockStream ----------------------------
(***************************************************************************)
(* The smallest wiring with every kind of thread of run_6threads: the      *)
(* producer, a consumer and the transformer on prodStream, a consumer on   *)
(* transStream.                                                            *)
(***************************************************************************)
EXTENDS LockStream

CONSTANTS prod, trans, producer, consumer, transformer, consumer_tfo

MCStreams   == {prod, trans}
MCConsumers == {consumer, transformer, consumer_tfo}
MCIn  == [c \in MCConsumers |-> IF c = consumer_tfo THEN trans ELSE prod]
MCOut == [t \in MCConsumers \cup {producer} |->
            CASE t = producer    -> prod
              [] t = transformer -> trans
              [] OTHER           -> NoStream]
=============================================================================
