-------------------------------- MODULE Rnd --------------------------------
(***************************************************************************)
(* Random values of the data types (sydpy/rnd/rnd.py and the _rnd of the   *)
(* types) and the generator of BasicRndSeq, which draws a value and then a *)
(* delay from the same source.  random.Random is a stream that its seed    *)
(* determines: stream[s], of which MaxDraws numbers are looked at.         *)
(***************************************************************************)
EXTENDS Integers, Sequences, SequencesExt, FiniteSets

CONSTANTS
  DType,      \* the type of the values, nested: [kind, ...]
  Seeds,
  Raw,        \* what the source yields before it is brought into a range
  Delay,      \* the argument delay: <<lo, hi>> or <<fixed>>
  MaxGens, MaxItems, MaxDraws

RndAssumption ==
  /\ Raw \subseteq Nat /\ Len(Delay) \in {1, 2}
  /\ {MaxGens, MaxItems, MaxDraws} \subseteq Nat

VARIABLES
  gens,     \* the generators: [seed, pos, out]
  stream

vars == <<gens, stream>>

RInit == gens = <<>> /\ stream \in [Seeds -> [1 .. MaxDraws -> Raw]]

\* rnd(dtype, seed): without a seed the source takes one from the system; with one it
\* does too, for then __init__ calls randomize().
Create ==
  /\ Len(gens) < MaxGens
  /\ \E s \in Seeds : gens' = Append(gens, [seed |-> s, pos |-> 0, out |-> <<>>])
  /\ UNCHANGED stream

\* A source that goes on where it was
PosKept(g) == gens[g].pos

\* random.Random(seed) starts anew.
PosAfterSeed(g) == 0

\* set_seed
SetSeed(g, s) ==
  /\ gens' = [gens EXCEPT ![g] = [seed |-> s, pos |-> PosAfterSeed(g), out |-> <<>>]]
  /\ UNCHANGED stream

\* randint(lo, hi) of the source r at the position k
RndInt(r, k, lo, hi) == lo + (r[(k % MaxDraws) + 1] % (hi - lo + 1))

\* The upper bound that _rnd of an enum draws with
EnumTop(n) == n

\* The size of an array of at most n elements
SizeOf(r, k, n) == RndInt(r, k, 1, n)

\* _rnd of a type: the value, and the position after it.  The elements of a vector, an
\* array and a struct are drawn one after the other.
RECURSIVE RndOf(_, _, _)
RndOf(t, r, k) ==
  LET Drawn(acc, u) == LET x == RndOf(u, r, acc.pos)
                       IN [val |-> Append(acc.val, x.val), pos |-> x.pos]
      All(ts, j)    == FoldLeft(Drawn, [val |-> <<>>, pos |-> j], ts)
  IN  CASE t.kind = "bit"    -> [val |-> RndInt(r, k, 0, 2 ^ t.w - 1), pos |-> k + 1]
        [] t.kind = "enum"   -> [val |-> RndInt(r, k, 0, EnumTop(t.n)), pos |-> k + 1]
        [] t.kind = "vector" -> All([i \in 1 .. t.w |-> t.dtype], k)
        [] t.kind = "struct" -> All(t.fields, k)
        [] t.kind = "array"  -> All([i \in 1 .. SizeOf(r, k, t.max) |-> t.dtype], k + 1)

\* The delay of the next transaction, a random one from a range
DelayAfter(r, k) ==
  IF Len(Delay) = 2 THEN [val |-> RndInt(r, k, Delay[1], Delay[2]), pos |-> k + 1]
  ELSE [val |-> Delay[1], pos |-> k]

\* The next item of rnd_gen: a value, then a delay
Next(g) ==
  /\ Len(gens[g].out) < MaxItems
  /\ LET r == stream[gens[g].seed]
         x == RndOf(DType, r, gens[g].pos)
         d == DelayAfter(r, x.pos)
     IN  /\ d.pos <= MaxDraws
         /\ gens' = [gens EXCEPT ![g].pos = d.pos, ![g].out = Append(@, <<x.val, d.val>>)]
  /\ UNCHANGED stream

RNext ==
  \/ Create
  \/ \E g \in DOMAIN gens : Next(g) \/ \E s \in Seeds : SetSeed(g, s)

RSpec == RInit /\ [][RNext]_vars

-----------------------------------------------------------------------------
(* Properties *)

RECURSIVE Legal(_, _)
Legal(t, v) ==
  CASE t.kind = "bit"    -> v \in 0 .. 2 ^ t.w - 1
    [] t.kind = "enum"   -> v \in 0 .. t.n - 1
    [] t.kind = "vector" -> Len(v) = t.w /\ \A i \in DOMAIN v : Legal(t.dtype, v[i])
    [] t.kind = "struct" -> DOMAIN v = DOMAIN t.fields /\ \A i \in DOMAIN v : Legal(t.fields[i], v[i])
    [] t.kind = "array"  -> Len(v) \in 1 .. t.max /\ \A i \in DOMAIN v : Legal(t.dtype, v[i])

\* Every value generated is one of its type; an array is never empty and never longer
\* than its type allows.
ValuesLegal == \A g \in DOMAIN gens : \A i \in DOMAIN gens[g].out : Legal(DType, gens[g].out[i][1])

\* Two generators of the same seed give the same items, whatever the others draw in
\* between.
SameSeedSameItems ==
  \A g, h \in DOMAIN gens : gens[g].seed = gens[h].seed =>
    \A i \in DOMAIN gens[g].out \cap DOMAIN gens[h].out : gens[g].out[i] = gens[h].out[i]
=============================================================================
