---------------------------- MODULE MCSignalQueue ---------------------------
(* Finite instances of the signal queue for TLC.                            *)
EXTENDS SignalQueue, TLC

CONSTANTS p1, p2, p3, c1, c2

MCProducers == {p1, p2}
MCThreeProducers == {p1, p2, p3}
MCOneConsumer == {c1}
MCTwoConsumers == {c1, c2}
MCOneConsumerProcs == {p1, p2, p3, c1}
MCTwoConsumersProcs == {p1, p2, c1, c2}
MCOnePusher == {p2}
MCNoPusher == {}
MCEvents == {Enqueued, Updated}
MCSigs == {Signal}
MCChain == [e \in MCEvents |-> {}]
=============================================================================
