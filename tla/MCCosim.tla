------------------------------- MODULE MCCosim -------------------------------
(* Finite instances of the cosimulation for TLC.                            *)
EXTENDS Cosim, TLC

CONSTANTS p1, p2, v0, v1

MCProcs == {p1}
MCTwoProcs == {p1, p2}
MCVals == {v0, v1}
MCEvents == {OutEvent}
MCSigs == {InSig}
MCChain == [e \in MCEvents |-> {}]
=============================================================================
