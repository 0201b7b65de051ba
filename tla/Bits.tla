-------------------------------- MODULE Bits --------------------------------
(***************************************************************************)
(* A value of the data type bit that a design takes through any sequence   *)
(* of the operators of module BitOps.                                      *)
(***************************************************************************)
EXTENDS BitOps

CONSTANTS
  MaxW,     \* the widest value
  Ints,     \* the plain integers that occur as operands
  Ops       \* the operators the design calls

\* Operators that ask the operand for read(), which interfaces have and values have
\* not: they always raise.
Raising == {"or", "ror", "rand", "neg", "pos", "abs", "float"}

BitsAssumption ==
  /\ MaxW \in Nat \ {0} /\ Ints \subseteq Nat
  /\ Ops \subseteq {"getitem", "setitem", "replace", "concat", "add", "sub", "mul", "div",
                     "shr", "shl", "and", "xor", "invert"} \cup Raising

Values(w) == [w : {w}, val : 0 .. Mask(w), vld : 0 .. Mask(w)]
Value     == UNION { Values(w) : w \in 1 .. MaxW }
Operand   == Value \cup { Plain(n) : n \in Ints } \cup {Nil}

-----------------------------------------------------------------------------
(* A value under a sequence of operators *)

VARIABLES
  value,  \* the value
  call    \* the last call: operator, the value it was applied to, its operand, hi, lo

bvars == <<value, call>>

\* The calls that do not raise
Legal(op, a, y, hi, lo) ==
  CASE op \in Raising                       -> FALSE
    [] op = "getitem"                      -> y = Nil /\ lo <= hi /\ hi < a.w
    [] op \in {"setitem", "replace"}       -> lo <= hi /\ hi < a.w /\ y.w <= hi - lo + 1
    [] OTHER -> /\ hi = 0 /\ lo = 0
                /\ CASE op = "concat"      -> y.w > 0 /\ a.w + y.w <= MaxW
                     [] op = "div"         -> y.w >= 0 /\ y.val # 0
                     [] op \in {"shr", "shl"} -> y.w = 0 /\ y.val <= a.w
                     [] op = "invert"      -> y = Nil
                     [] OTHER              -> y.w >= 0

Result(op, a, y, hi, lo) ==
  CASE op = "getitem" -> GetItem(a, hi, lo)
    [] op = "setitem" -> SetItem(a, hi, lo, y)
    [] op = "replace" -> Replace(a, hi, lo, y)
    [] op = "concat"  -> Concat(a, y)
    [] op = "add"     -> Add(a, y)
    [] op = "sub"     -> Sub(a, y)
    [] op = "mul"     -> Mul(a, y)
    [] op = "div"     -> Div(a, y)
    [] op = "shr"     -> Shr(a, y.val)
    [] op = "shl"     -> Shl(a, y.val)
    [] op = "and"     -> BitAnd(a, y)
    [] op = "xor"     -> BitXor(a, y)
    [] op = "invert"  -> Invert(a)

NoCall == <<"none", Nil, Nil, 0, 0>>

BInit ==
  /\ value \in { Unset(w) : w \in 1 .. MaxW }
  /\ call = NoCall

Call(op, y, hi, lo) ==
  /\ Legal(op, value, y, hi, lo)
  /\ value' = Result(op, value, y, hi, lo)
  /\ call' = <<op, value, y, hi, lo>>

\* The caller has the result.
Return ==
  /\ call # NoCall
  /\ call' = NoCall
  /\ UNCHANGED value

Slices == {"getitem", "setitem", "replace"}

BNext ==
  \/ /\ call = NoCall
     /\ \/ \E op \in Ops \cap Slices, y \in Operand, hi \in 0 .. MaxW - 1, lo \in 0 .. MaxW - 1 :
             Call(op, y, hi, lo)
        \/ \E op \in Ops \ Slices, y \in Operand : Call(op, y, 0, 0)
  \/ Return

BSpec == BInit /\ [][BNext]_bvars

-----------------------------------------------------------------------------
(* Properties *)

\* A value stays within its width, whatever is written into it: the integers val and
\* vld are never larger than the mask.
BTypeOK == value \in Value

\* Bit i of a value as logic has it: 0, 1 or unknown (2)
At(a, i) == IF Low(a.vld, i) % 2 = 0 THEN 2 ELSE Low(a.val, i) % 2

\* Slices address the bits they name: reading takes exactly the bits lo to hi, and
\* writing a value puts its bits there, makes the rest of the slice unknown and
\* touches no bit outside.
SlicesExact ==
  LET a == call[2]  y == call[3]  hi == call[4]  lo == call[5] IN
    /\ call[1] = "getitem" =>
         value.w = Deref(hi, lo) /\ \A i \in 0 .. hi - lo : At(value, i) = At(a, lo + i)
    /\ call[1] = "setitem" /\ y.w > 0 =>
         \A i \in 0 .. a.w - 1 :
           At(value, i) = IF i \notin lo .. hi THEN At(a, i)
                      ELSE IF i - lo < y.w THEN At(y, i - lo) ELSE 2

\* A concatenation can be taken apart again.
ConcatSplits ==
  call[1] = "concat" =>
    LET a == call[2]  y == call[3] IN
      Equal(GetItem(value, a.w + y.w - 1, y.w), a) /\ Equal(GetItem(value, y.w - 1, 0), y)

\* The values that a may stand for: its unknown bits may be anything.
Meanings(a) ==
  IF a.w <= 0 THEN {a}
  ELSE { b \in [w : {a.w}, val : 0 .. Mask(a.w), vld : {a.vld}] : (b.val & a.vld) = (a.val & a.vld) }

\* The operators that keep track of validity (arithmetic does not: its results are
\* all valid; nor does writing an integer, which takes the validity from before)
Tracking == {"getitem", "setitem", "concat", "shr", "shl", "and", "xor", "invert"}

\* What is known is known: a valid bit of a result never depends on what an unknown
\* bit of an operand happens to hold.
ValidityHonest ==
  call[1] \in Tracking =>
    \A a \in Meanings(call[2]), y \in Meanings(call[3]) :
      LET r == Result(call[1], a, y, call[4], call[5]) IN
        (r.val & value.vld) = (value.val & value.vld)

\* A value without unknown bits survives being printed and read back.
TextExact ==
  call = NoCall /\ Full(value) =>
    /\ Parses(HexText(value)) /\ HexParse(value.w, HexText(value)) = value
    /\ Parses(BinText(value)) /\ BinParse(value.w, BinText(value)) = value

\* Of two values at most one is less than the other, and then they are not equal; where
\* neither is less they are equal, unless it is not known of the same bits.
OrderExact ==
  call = NoCall =>
    \A y \in Operand \ {Nil} :
      /\ ~(Less(value, y) /\ Less(y, value))
      /\ Equal(value, y) => ~Less(value, y) /\ ~Less(y, value)
      /\ ~Less(value, y) /\ ~Less(y, value) /\ ~Equal(value, y) =>
           value.vld # IF y.w = 0 THEN Mask(value.w) ELSE y.vld

\* What is written is read: a slice takes the lowest bits of the integer or value
\* written to it, through __setitem__ as through _replace, and the bits outside keep
\* theirs, whatever is known of either.
WriteThrough ==
  LET a == call[2]  y == call[3]  hi == call[4]  lo == call[5] IN
    call[1] \in {"setitem", "replace"} /\ y.w # -1 =>
      /\ GetItem(value, hi, lo).val = y.val % 2^(hi - lo + 1)
      /\ (value.val & Outside(a, hi, lo)) = (a.val & Outside(a, hi, lo))
=============================================================================
