------------------------------ MODULE MCDesigns -----------------------------
(***************************************************************************)
(* Elaboration of designs, and connection of interfaces, in finite         *)
(* instances for TLC.  `part', chosen initially, says which of them runs;  *)
(* the others stay as they are.                                            *)
(***************************************************************************)
EXTENDS Elaboration, Wiring

(* A generator with one output, a unit with an active and a passive          *)
(* architecture that read what is generated and drive channels of their own, *)
(* and a block that holds another generator.  A block drives channels of its *)
(* own and of the design around it.                                          *)

MCClasses == {"Top", "Gen", "Unit", "Block"}
MCArchs   == [c \in MCClasses |-> IF c = "Unit" THEN <<"rtl", "tlm">> ELSE <<c>>]
MCKids    == [c \in MCClasses |-> CASE c = "Top" -> {"Gen", "Block", "Unit"}
                                    [] c = "Block" -> {"Gen"}
                                    [] OTHER -> {}]

Out == [side |-> "master", shared |-> FALSE]
In  == [side |-> "slave", shared |-> FALSE]
MCPorts == [c \in MCClasses |-> CASE c = "Gen" -> <<Out>> [] c = "Unit" -> <<In, Out>> [] OTHER -> <<>>]

\* The passive architecture reads the type that is generated, the active one bits.
T(kind, array, dtype) == [kind |-> kind, array |-> array, dtype |-> dtype]
MCType == [a \in {"Top", "Gen", "Block", "rtl", "tlm"} |->
             CASE a = "Gen" -> <<T("tlm", TRUE, "bit8")>>
               [] a = "rtl" -> <<T("seq", FALSE, "bit8"), T("seq", FALSE, "bit32")>>
               [] a = "tlm" -> <<T("tlm", TRUE, "bit8"), T("tlm", FALSE, "bit32")>>
               [] OTHER -> <<>>]
MCAcquires == [a \in {"Top", "Gen", "Block", "rtl", "tlm"} |-> IF a = "tlm" THEN 1 ELSE 0]

MCModNames == {"g1", "g2", "u1"}
MCChop  == [n \in MCModNames \cup {"x", "y", "z", "w", "top"} |->
              CASE n \in {"g1", "g2"} -> "g" [] n = "u1" -> "u" [] n = "top" -> "to" [] OTHER -> ""]

Plain(names) == { [abs |-> FALSE, up |-> 0, segs |-> <<n>>] : n \in names }
Above(S)     == { [x EXCEPT !.up = 1] : x \in S }
MCConfs == [c \in MCClasses |-> CASE c = "Gen" -> <<Plain({"x", "y"}) \cup Above(Plain({"x"}))>>
                                  [] c = "Unit" -> <<Plain({"x", "y"}), Plain({"z"})>>
                                  [] OTHER -> <<>>]

(* Wiring, two designs.  Signals: m is written; a and e share its type, c and *)
(* d have another one, q (with qd and qo) is sequential.  m feeds a and c, c   *)
(* feeds q, q feeds d and a feeds e, over four channels.  Transactions: u is   *)
(* written and feeds t, a transaction interface of another type; t feeds the   *)
(* signal x and x feeds y.                                                     *)

Signals      == {"m", "a", "e", "c", "q", "qd", "qo", "d"}
Transactions == {"u", "t", "x", "y"}
WIntfs   == Signals \cup Transactions
WKind    == [i \in WIntfs |-> CASE i = "q" -> "iseq" [] i \in {"u", "t"} -> "itlm" [] OTHER -> "isig"]
WDtype   == [i \in WIntfs |-> IF i \in {"m", "a", "e", "u"} THEN "array" ELSE "bit8"]
WData    == [i \in {"q"} |-> "qd"]
WDout    == [i \in {"q"} |-> "qo"]

SignalPlan == { <<"sink", "c1", "m">>, <<"drive", "c1", "a">>, <<"drive", "c1", "c">>,
                <<"sink", "c2", "c">>, <<"drive", "c2", "q">>,
                <<"sink", "c3", "q">>, <<"drive", "c3", "d">>,
                <<"sink", "c4", "a">>, <<"drive", "c4", "e">> }
TransactionPlan == { <<"sink", "c5", "u">>, <<"drive", "c5", "t">>,
                     <<"sink", "c6", "t">>, <<"drive", "c6", "x">>,
                     <<"sink", "c7", "x">>, <<"drive", "c7", "y">> }
WPlan    == SignalPlan \cup TransactionPlan
WWrites  == { <<"push", "m">>, <<"write", "u">> }

ASSUME OneDrive
ASSUME Ranks([i \in WIntfs |-> CASE i \in {"a", "qd", "x"} -> 1 [] i \in {"e", "d", "y"} -> 2 [] OTHER -> 0])

OfSignals      == INSTANCE Wiring WITH Plan <- SignalPlan, Writes <- { <<"push", "m">> }
OfTransactions == INSTANCE Wiring WITH Plan <- TransactionPlan, Writes <- { <<"write", "u">> }

VARIABLE part

mcvars == <<part, wvars, vars>>

-----------------------------------------------------------------------------
MCInit ==
  /\ EInit
  /\ \/ part \in {"elaborated", "signals"} /\ OfSignals!WInit
     \/ part = "transactions" /\ OfTransactions!WInit

\* A design has no interfaces but its own.
MCNext ==
  /\ UNCHANGED part
  /\ \/ part = "elaborated" /\ ENext /\ UNCHANGED wvars
     \/ part = "signals" /\ OfSignals!WNext /\ used' \subseteq Signals \X Names /\ UNCHANGED vars
     \/ part = "transactions" /\ OfTransactions!WNext /\ used' \subseteq Transactions \X Names
        /\ UNCHANGED vars

MCSpec == MCInit /\ [][MCNext]_mcvars

\* Each slave receives all that its master was given, with the types of Wiring.
SlavesReceive == WTypeOK /\ EachSlaveReceives
=============================================================================
