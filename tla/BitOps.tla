------------------------------- MODULE BitOps -------------------------------
(***************************************************************************)
(* The data type bit (sydpy/types/bit.py): w bits held as the integers val *)
(* and vld, where a bit whose vld is 0 is unknown.                         *)
(***************************************************************************)
EXTENDS Integers, Sequences, Bitwise

\* A value, a plain integer (w = 0) and None (w = -1)
Mask(w)          == 2^w - 1
Bit(w, val, vld) == [w |-> w, val |-> val % 2^w, vld |-> vld % 2^w]
Plain(n)         == [w |-> 0, val |-> n, vld |-> 0]
Nil              == [w |-> -1, val |-> 0, vld |-> 0]

\* The bits of v from lo on, and v moved up by lo
Low(v, lo)  == v \div 2^lo
High(v, lo) == v * 2^lo

-----------------------------------------------------------------------------
(* Construction, slices *)

\* Bit(w)(): every bit unknown
Unset(w) == Bit(w, 0, 0)

Full(x)  == x.vld = Mask(x.w)
Truth(x) == x.val & x.vld # 0
Equal(x, y) == IF y.w > 0 THEN x.val = y.val /\ x.vld = y.vld
               ELSE y.w = 0 /\ x.val = y.val /\ Full(x)

\* <, which looks at the numbers only
Less(x, y) == x.val < y.val

Deref(hi, lo)       == hi - lo + 1
GetItem(x, hi, lo)  == Bit(Deref(hi, lo), Low(x.val, lo), Low(x.vld, lo))

\* The bits of x outside the slice
Outside(x, hi, lo) == Mask(x.w) ^^ High(Mask(hi - lo + 1), lo)

SetVal(x, hi, lo, n) == (x.val & Outside(x, hi, lo)) + High(n % 2^(hi - lo + 1), lo)

\* A slice whose validity is added to what was there
VldKept(x, hi, lo, y) == x.vld | High(y.vld, lo)

SetVld(x, hi, lo, y) == (x.vld & Outside(x, hi, lo)) + High(y.vld, lo)

\* None takes the validity of the slice away, an integer leaves it as it is, and a
\* value brings its own (the bits of the slice above a narrower value become unknown).
SetItem(x, hi, lo, y) ==
  CASE y.w = -1 -> [x EXCEPT !.vld = @ & Outside(x, hi, lo)]
    [] y.w = 0  -> [x EXCEPT !.val = SetVal(x, hi, lo, y.val)]
    [] OTHER    -> [x EXCEPT !.val = SetVal(x, hi, lo, y.val), !.vld = SetVld(x, hi, lo, y)]

\* _replace returns a new value.  Here None makes the slice valid, and an integer
\* brings the validity of the whole of x, moved up to the slice.
Replace(x, hi, lo, y) ==
  IF y.w = -1 THEN Bit(x.w, x.val, x.vld | High(Mask(hi - lo + 1), lo))
  ELSE Bit(x.w, SetVal(x, hi, lo, y.val),
           (x.vld & Outside(x, hi, lo)) | High(IF y.w = 0 THEN x.vld ELSE y.vld, lo))

-----------------------------------------------------------------------------
(* Operators *)

ConcatVld(x, y) == High(x.vld, y.w) + y.vld

Concat(x, y) == Bit(x.w + y.w, High(x.val, y.w) + y.val, ConcatVld(x, y))

Add(x, y) == Bit(x.w, x.val + y.val, Mask(x.w))
Sub(x, y) == Bit(x.w, x.val - y.val, Mask(x.w))
Mul(x, y) == Bit(x.w, x.val * y.val, Mask(x.w))
Div(x, y) == Bit(x.w, x.val \div y.val, Mask(x.w))

Shr(x, n) == Bit(x.w, Low(x.val, n), Low(x.vld, n) | High(Mask(n), x.w - n))
Shl(x, n) == Bit(x.w, High(x.val, n), High(x.vld, n) | Mask(n))

\* bit_normalization: the narrower operand is extended with valid zeros.
Width(x, y)     == IF y.w > x.w THEN y.w ELSE x.w
ValidTo(w, x)   == IF x.w = 0 THEN Mask(w) ELSE x.vld + (Mask(w) - Mask(x.w))

\* An operator that is valid where either operand is
EitherValid(x, y) == ValidTo(Width(x, y), x) | ValidTo(Width(x, y), y)

BothValid(x, y) == ValidTo(Width(x, y), x) & ValidTo(Width(x, y), y)

BitAnd(x, y) == Bit(Width(x, y), x.val & y.val, BothValid(x, y))
BitXor(x, y) == Bit(Width(x, y), x.val ^^ y.val, BothValid(x, y))
Invert(x) == Bit(x.w, x.val ^^ Mask(x.w), x.vld)

-----------------------------------------------------------------------------
(* Text *)

\* The digits of __str__, of four bits each, lowest first; Unknown stands for 'U',
\* which is printed for four unknown bits.
Unknown == 16

Digits(w) == (w + 3) \div 4
Nibble(v, k) == Low(v, 4 * k) % 16
HexText(x) ==
  [k \in 1 .. Digits(x.w) |->
     IF Nibble(x.vld, k - 1) = 0 THEN Unknown ELSE Nibble(x.val, k - 1)]

\* bitstr, one digit for each bit, lowest first
BinText(x) == [k \in 1 .. x.w |-> IF Low(x.vld, k - 1) % 2 = 0 THEN Unknown
                                  ELSE Low(x.val, k - 1) % 2]

FromDigits(base, t) ==
  LET sum[k \in 0 .. Len(t)] == IF k = 0 THEN 0 ELSE sum[k - 1] + t[k] * base^(k - 1)
  IN  sum[Len(t)]

\* Bit(w)("0x...") and Bit(w)("0b..."): an 'U' is no digit, and raises.
Parses(t)      == \A k \in DOMAIN t : t[k] # Unknown
HexParse(w, t) == Bit(w, FromDigits(16, t), Mask(w))
BinParse(w, t) == Bit(w, FromDigits(2, t), Mask(Len(t) + 1))
=============================================================================
