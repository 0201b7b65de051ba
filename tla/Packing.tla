------------------------------ MODULE Packing -------------------------------
(***************************************************************************)
(* The process _pfunc_dtype_convgen (intfs/isig.py), which a connection of *)
(* two interfaces of different types makes: it takes one value after the   *)
(* other from the master and pushes what convgen makes of it to the slave. *)
(***************************************************************************)
EXTENDS Convgen

CONSTANTS
  Targets,     \* the types of the slave
  Sources,     \* the values the master may send
  MaxValues    \* bound on the number of values sent

VARIABLES
  type,        \* the type of the slave
  sent,        \* the values taken from the master
  pending,     \* what convgen has still to yield of the last one
  got          \* the values pushed to the slave

pvars == <<type, sent, pending, got>>

PInit ==
  /\ type \in Targets
  /\ sent = <<>> /\ pending = <<>> /\ got = <<>>

\* bpop, and the start of the generator; what it returns is pushed last.
Recv(v) ==
  LET g == Gen(type, v, Nil) IN
  /\ pending = <<>> /\ Len(sent) < MaxValues
  /\ sent' = Append(sent, v)
  /\ pending' = [i \in 1 .. Len(g.out) |-> g.out[i].data] \o
                IF IsNil(g.ret) THEN <<>> ELSE <<g.ret>>
  /\ UNCHANGED <<type, got>>

\* bpush, where the process may wait for the slave's queue
Push ==
  /\ pending # <<>>
  /\ got' = Append(got, Head(pending))
  /\ pending' = Tail(pending)
  /\ UNCHANGED <<type, sent>>

PNext == (\E v \in Sources : Recv(v)) \/ Push \/ (UNCHANGED pvars /\ Len(sent) = MaxValues)

PSpec == PInit /\ [][PNext]_pvars

-----------------------------------------------------------------------------
(* Properties *)

\* Whatever is converted, what the slave gets has the slave's type.
PTypeOK ==
  /\ \A i \in DOMAIN got : HasType(got[i], type)
  /\ \A i \in DOMAIN pending : HasType(pending[i], type)

\* The known bits of a value, lowest first
RECURSIVE Known(_)
Known(v) ==
  IF IsBit(v) THEN [i \in 1 .. SetBits(v) |-> Low(v.val, i - 1) % 2]
  ELSE FlattenSeq([i \in DOMAIN Elements(v) |-> Known(Elements(v)[i])])

KnownOf(vs) == FlattenSeq([i \in DOMAIN vs |-> Known(vs[i])])

\* The bits of the values that the master sends come out at the slave, all of them,
\* each once and in order, however they are cut into values of the slave's type.
BitsKept == pending = <<>> => KnownOf(got) = KnownOf(sent)

\* conv and convgen agree on words: a value that conv accepts (so that a design may
\* write it to the slave itself) is what convgen makes of the same source, alone.
ConvAgrees ==
  type.cls = "bit" /\ sent # <<>> /\ got = <<>> /\ Len(sent) = 1 =>
    LET c == Conv(type, sent[1]) IN ~Failed(c) => pending = <<c>>
=============================================================================
