----------------------------- MODULE MCSimulator ----------------------------
(* Finite instances of the kernel for TLC.                                  *)
EXTENDS Simulator, TLC

CONSTANTS p1, p2, eMaster, eSlave, sig

MCProcs2 == {p1, p2}
MCEvents == {eMaster, eSlave}
MCSigs == {sig}

\* an event of a slave interface is subscribed to that of its master
MCChain == (eMaster :> {eSlave}) @@ (eSlave :> {})
=============================================================================
