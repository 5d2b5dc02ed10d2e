---------------------------- MODULE MCOutputQueue ----------------------------
(* Instances of OutputQueue for TLC.                                       *)
EXTENDS OutputQueue
CONSTANTS p1, p2
OneProducer == {p1}
TwoProducers == {p1, p2}
=============================================================================
