---------------------------- MODULE MCLFQStream ----------------------------
(***************************************************************************)
(* Two wirings of the lfq program.  AllKinds has every kind of thread of   *)
(* run_6threads: a consumer and the transformer on prodStream, a consumer  *)
(* on transStream.  Chain leaves the plain consumer out, which makes room  *)
(* for more frames where liveness is checked.                              *)
(***************************************************************************)
EXTENDS LFQStream

CONSTANTS prod, trans, producer, consumer, transformer, consumer_tfo

MCStreams == {prod, trans}
AllKinds  == {consumer, transformer, consumer_tfo}
Chain     == {transformer, consumer_tfo}
MCIn  == [c \in Consumers |-> IF c = consumer_tfo THEN trans ELSE prod]
MCOut == [t \in Threads |-> CASE t = producer    -> prod
                              [] t = transformer -> trans
                              [] OTHER           -> NoStream]
=============================================================================
