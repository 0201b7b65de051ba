------------------------------ MODULE MCLibrary -----------------------------
(***************************************************************************)
(* Transactions with a scoreboard and the tracing of signals, and beside   *)
(* them values, conversions and random values, in finite instances for     *)
(* TLC.  `part', chosen initially, says which of them runs.  The variables *)
(* of Transactions and of Tracing stay as they are while another one does; *)
(* the instances share theirs, and a variable that the chosen one does not *)
(* have is <<>>.                                                           *)
(***************************************************************************)
EXTENDS Transactions, Tracing

(* Three transactions through a design of one stage that may stall.          *)

TlmChain  == [e \in Events |-> {}]
BurstLens == <<2, 1, 2>>

(* Two traced signals, one of them declared, and two callbacks of the user.  *)

TwoCalls == [e \in SimEvents |-> IF e = "timestep_start" THEN <<"u1", "u2">> ELSE <<>>]

VARIABLES
  part,
  item, call,                      \* Bits, Composites
  type, given, pending, got,       \* Packing
  gens, stream                     \* Rnd

bits    == <<item, call>>
packing == <<type, given, pending, got>>
rnd     == <<gens, stream>>
mcvars  == <<allvars, vvars, part, bits, packing, rnd>>

NoBits    == item = <<>> /\ call = <<>>
NoPacking == type = <<>> /\ given = <<>> /\ pending = <<>> /\ got = <<>>
NoRnd     == gens = <<>> /\ stream = <<>>

-----------------------------------------------------------------------------
(* Every operator on values of up to three bits; the text of wider ones.     *)

Operated == INSTANCE Bits WITH
  value <- item, MaxW <- 3, Ints <- {0, 1, 3, 9},
  Ops <- {"getitem", "setitem", "replace", "concat", "add", "sub", "mul", "div",
          "shr", "shl", "and", "xor", "invert", "or", "neg"}

Texts == INSTANCE Bits WITH value <- item, MaxW <- 5, Ints <- {1}, Ops <- {"add"}

(* Words to words and arrays of words; words to records and vectors whose    *)
(* fields are wider than one bit.                                            *)

Conv == INSTANCE Convgen

\* Values of w bits, all known, whose bits tell if one is moved or missing
Some(w)     == { Conv!Bit(w, v, Conv!Mask(w)) : v \in {1, 2, Conv!Mask(w) - 1} }
Words       == UNION { Some(w) : w \in {2, 3, 4, 6, 9} }
Lists(w, n) == { Conv!List(s) : s \in [1 .. n -> Some(w)] }
Arrays(w)   == { Conv!Make(Conv!ArrayType(Conv!BitType(w)), Conv!List(s)) :
                   s \in [1 .. 3 -> {Conv!Bit(w, 1, Conv!Mask(w)), Conv!Bit(w, 2, Conv!Mask(w))}] }

WordTargets == { Conv!BitType(2), Conv!BitType(3), Conv!BitType(4),
                 Conv!ArrayType(Conv!BitType(2)), Conv!ArrayType(Conv!BitType(3)) }
WordSources == Words \cup Lists(2, 2) \cup Lists(3, 2) \cup Lists(2, 3) \cup Arrays(2) \cup Arrays(3)

Pairs        == Conv!VectorType(2, Conv!BitType(2))
Packet       == Conv!StructType(<<Conv!BitType(2), Conv!BitType(3)>>)
FieldTargets == { Pairs, Conv!VectorType(3, Conv!BitType(2)), Packet, Conv!VectorType(2, Packet),
                  Conv!StructType(<<Pairs, Conv!BitType(3)>>), Conv!ArrayType(Pairs) }

ToWords  == INSTANCE Packing WITH
  sent <- given, Targets <- WordTargets, Sources <- WordSources, MaxValues <- 2
ToFields == INSTANCE Packing WITH
  sent <- given, Targets <- FieldTargets, Sources <- Words, MaxValues <- 2

(* The items of arrays, vectors and a struct, and an enum of three members.   *)

OneWord   == Conv!VectorType(1, Conv!BitType(2))
Composite == INSTANCE Composites WITH
  value <- item,
  Types  <- { Conv!ArrayType(Conv!BitType(2)), Conv!VectorType(3, Conv!BitType(1)), OneWord,
              Conv!StructType(<<Conv!BitType(2), OneWord>>), Conv!ArrayType(OneWord),
              [cls |-> "enum", n |-> 3] },
  Operands <- { Conv!Nil, Conv!Plain(3), Conv!Bit(2, 2, 2), Conv!List(<<Conv!Plain(1)>>) },
  MaxLen <- 2

(* Two generators of packets of up to two bits, with random delays.          *)

OneBit == [kind |-> "bit", w |-> 1]
Random == INSTANCE Rnd WITH
  DType <- [kind |-> "struct", fields |-> <<[kind |-> "array", dtype |-> OneBit, max |-> 2]>>],
  Seeds <- {1, 2}, Raw <- {0, 1}, Delay <- <<0, 2>>,
  MaxGens <- 2, MaxItems <- 2, MaxDraws <- 6

ASSUME TransactionsAssumption
ASSUME Operated!BitsAssumption /\ Texts!BitsAssumption
ASSUME Composite!CompositesAssumption
ASSUME Random!RndAssumption

-----------------------------------------------------------------------------
Untraced == ~ traceDeltas /\ \A s \in Signals : value[s] = 0

MCInit ==
  /\ TInit /\ VInit
  /\ \/ part \in {"checked", "traced"} /\ NoBits /\ NoPacking /\ NoRnd
     \/ part = "operated" /\ Operated!BInit /\ NoPacking /\ NoRnd
     \/ part = "texts" /\ Texts!BInit /\ NoPacking /\ NoRnd
     \/ part = "composites" /\ Composite!CInit /\ NoPacking /\ NoRnd
     \/ part = "words" /\ ToWords!PInit /\ NoBits /\ NoRnd
     \/ part = "fields" /\ ToFields!PInit /\ NoBits /\ NoRnd
     \/ part = "random" /\ Random!RInit /\ NoBits /\ NoPacking
  /\ part # "traced" => Untraced

Beside ==
  \/ part = "operated" /\ Operated!BNext /\ UNCHANGED <<packing, rnd>>
  \/ part = "texts" /\ Texts!BNext /\ UNCHANGED <<packing, rnd>>
  \/ part = "composites" /\ Composite!CNext /\ UNCHANGED <<packing, rnd>>
  \/ part = "words" /\ ToWords!PNext /\ UNCHANGED <<bits, rnd>>
  \/ part = "fields" /\ ToFields!PNext /\ UNCHANGED <<bits, rnd>>
  \/ part = "random" /\ Random!RNext /\ UNCHANGED <<bits, packing>>

MCNext ==
  /\ UNCHANGED part
  /\ \/ part = "checked" /\ TNext /\ UNCHANGED <<vvars, bits, packing, rnd>>
     \/ part = "traced" /\ VNext /\ UNCHANGED <<allvars, bits, packing, rnd>>
     \/ UNCHANGED <<allvars, vvars>> /\ Beside

MCSpec == MCInit /\ [][MCNext]_mcvars

-----------------------------------------------------------------------------
(* The properties of the components, each in the instances it is about, and  *)
(* with the type invariant of its component where that is all it adds to.    *)
(* Those of Transactions and of Tracing are their own.                       *)

\* Slices read and write the bits they name and no other, a concatenation can be
\* taken apart again, a value is read back from its text; the same for the items of
\* arrays and structs, of which a write that fails half way leaves the first ones.
BitsExact ==
  /\ part = "operated" => /\ Operated!BTypeOK /\ Operated!SlicesExact
                          /\ Operated!WriteThrough /\ Operated!ConcatSplits
                          /\ Operated!OrderExact
  /\ part = "texts" => Texts!TextExact
  /\ part = "composites" => /\ Composite!ItemsTyped /\ Composite!ItemsReplaced /\ Composite!CutExact
                            /\ Composite!EqualExact /\ Composite!EnumExact

\* A valid bit of a result never depends on what an unknown bit happens to hold.
ValidityHonest == part = "operated" => Operated!ValidityHonest

\* The bits that a master sends come out at a slave of another type, each once and in
\* order, in values of the slave's type; and conv and convgen agree on words.
BitsKept ==
  /\ part = "words" => ToWords!PTypeOK /\ ToWords!BitsKept /\ ToWords!ConvAgrees
  /\ part = "fields" => ToFields!PTypeOK /\ ToFields!BitsKept

\* Two generators of one seed give the same items, whatever the other draws meanwhile,
\* and each is a value of its type.
SameSeedSameItems == part = "random" => Random!ValuesLegal /\ Random!SameSeedSameItems
=============================================================================
