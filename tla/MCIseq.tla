------------------------------- MODULE MCIseq -------------------------------
(* The sequential interface in a finite instance for TLC.                   *)
EXTENDS Iseq

MCEvents == {"data.enqueued", "data.updated", "clk.posedge", "_dout.updated"}
MCSigs   == {"data", "valid", "ready", "last", "clk", "_dout"}
MCChain  == [e \in MCEvents |-> {}]
=============================================================================
