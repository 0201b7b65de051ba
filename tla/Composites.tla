----------------------------- MODULE Composites -----------------------------
(***************************************************************************)
(* The items of arrays, vectors and structs (types/array.py, vector.py,    *)
(* struct.py), and enums (enum.py): a value that a design takes through    *)
(* any sequence of replacing, appending, slicing, comparing and assigning  *)
(* to the bits of an item.  Items count from 0 in the code, from 1 here; a *)
(* field's name is its number.                                             *)
(***************************************************************************)
EXTENDS Convgen

CONSTANTS
  Types,     \* the composite types
  Operands,  \* what a design stores in their values, convertible or not
  MaxLen     \* the longest array, and the longest list of items

CompositesAssumption == MaxLen \in Nat \ {0}

VARIABLES
  value,     \* the value
  call       \* the last call: operation, value before, operand, slice, result

cvars == <<value, call>>

Given  == UNION { [1 .. n -> Operands] : n \in 0 .. MaxLen }
NoCall == <<"none", Nil, Nil, 0, 0, Nil>>

-----------------------------------------------------------------------------
(* Arrays are changed in place, item by item: an item that cannot be         *)
(* converted, a list that is too short or an index past the end raises when  *)
(* the items before it are stored already.                                   *)

\* The value of an array with other items
WithItems(a, el) == Made(a.type, el, el)

\* How many of ys are stored where there is room for that many
Stored(a, ys, room) ==
  LET bad == SelectInSeq(ys, LAMBDA y : Failed(MakeItem(a.type.of, y)))
  IN  CHOOSE k \in 0 .. room :
        /\ k <= Len(ys) /\ (bad > 0 => k < bad)
        /\ k \in {room, Len(ys), bad - 1}

Room(a, hi, lo) == Cardinality((lo .. hi) \cap (0 .. Len(a.val) - 1))

Replaced(a, hi, lo, ys) ==
  WithItems(a, [i \in DOMAIN a.val |->
                  IF i - 1 \in lo .. lo + Stored(a, ys, Room(a, hi, lo)) - 1
                  THEN MakeItem(a.type.of, ys[i - lo]) ELSE a.val[i]])

ReplaceRaises(a, hi, lo, ys) == Stored(a, ys, Room(a, hi, lo)) < hi - lo + 1

\* += appends
Extended(a, ys) ==
  WithItems(a, a.val \o [i \in 1 .. Stored(a, ys, Len(ys)) |-> MakeItem(a.type.of, ys[i])])

ExtendRaises(a, ys) == Stored(a, ys, Len(ys)) < Len(ys)

\* A new value from other items raises for all but vectors of one item, which are made
\* anew from their own item: vector passes its items as so many arguments, struct asks
\* for a width it does not have, and neither sets `high' for a single index.
ReplaceVector(a, hi) ==
  IF a.type.n = 1 /\ hi = 0 THEN Make(a.type, Make(a.type.of, a.val[1])) ELSE Fail

\* array.__eq__ compares items of equal number; vectors and structs have no __eq__, so
\* that two of them are never equal, nor arrays that hold them.
RECURSIVE Same(_, _)
Same(x, y) ==
  CASE IsBit(x) -> IsBit(y) /\ Equal(x, y)
    [] IsObject(x) /\ x.type.cls = "array" ->
         /\ IsObject(y) /\ Len(x.val) = Len(y.val)
         /\ \A i \in DOMAIN x.val : Same(x.val[i], y.val[i])
    [] OTHER -> FALSE

-----------------------------------------------------------------------------
(* Structs *)

\* s[lo:hi] is a struct of the fields lo .. hi - 1, made anew; s.name and s[i] are the
\* object itself.
SubStruct(a, hi, lo) ==
  Make(StructType(SubSeq(a.type.of, lo + 1, hi)), List(SubSeq(a.val, lo + 1, hi)))

\* _from_dict stores what it is given, unconverted, and takes each item for complete.
OfDict(T, d) ==
  IF DOMAIN d \subseteq 1 .. T.n
  THEN [type |-> T, vld |-> [i \in 1 .. T.n |-> i \in DOMAIN d],
        val |-> [i \in 1 .. T.n |-> IF i \in DOMAIN d THEN d[i] ELSE Make(FieldType(T, i), Nil)]]
  ELSE Fail

\* Dictionaries of one field or two, one of them perhaps unknown
Dicts(T) == UNION { [{i, j} -> Operands] : i \in 1 .. T.n, j \in 1 .. T.n + 1 }

-----------------------------------------------------------------------------
(* Enums: ord is the number of the member, -1 for None *)

EnumType(n) == [cls |-> "enum", n |-> n]
Name(i)     == [name |-> i]
IsName(y)   == "name" \in DOMAIN y
IsEnum(y)   == "ord" \in DOMAIN y

\* An integer is not checked against the number of members, nor a bit for validity.
NewEnum(T, y) ==
  CASE IsName(y) /\ y.name \in 1 .. T.n -> [type |-> T, ord |-> y.name - 1]
    [] IsBit(y) \/ IsInt(y)             -> [type |-> T, ord |-> y.val]
    [] IsNil(y)                         -> [type |-> T, ord |-> -1]
    [] OTHER                            -> Fail

\* __eq__: a name; one of several values, to which a bit wider than one belongs, as its
\* bits; a number.  A number without a name raises when a name is asked for.
RECURSIVE EqEnum(_, _)
EqEnum(e, y) ==
  CASE IsName(y) /\ e.ord >= e.type.n  -> Fail
    [] IsName(y) /\ e.ord < e.type.n   -> [eq |-> e.ord + 1 = y.name]
    [] IsEnum(y)                       -> [eq |-> e.ord = y.ord]
    [] Iterable(y) ->
         LET first == SelectInSeq(Elements(y), LAMBDA v : EqEnum(e, v) # [eq |-> FALSE])
         IN  IF first = 0 THEN [eq |-> FALSE] ELSE EqEnum(e, Elements(y)[first])
    [] IsBit(y) /\ y.w = 1 -> [eq |-> Equal(y, Plain(e.ord))]
    [] OTHER               -> [eq |-> IF IsNil(y) THEN e.ord = -1 ELSE e.ord = y.val]

\* str(e), 0 for the empty text
TextEnum(e) == IF e.ord >= e.type.n THEN Fail ELSE Name(e.ord + 1)

-----------------------------------------------------------------------------
(* A value under a sequence of operations *)

Comparable(e) == {Name(i) : i \in 1 .. e.type.n} \cup Operands

CInit ==
  /\ \/ \E T \in Types, s \in Given : T.cls # "enum" /\ value = Make(T, List(s))
     \/ \E T \in Types : /\ T.cls = "enum"
                        /\ \E y \in Operands \cup {Name(i) : i \in 1 .. T.n + 1} : value = NewEnum(T, y)
  /\ ~Failed(value)
  /\ call = NoCall

Is(cls) == call = NoCall /\ value.type.cls = cls

Called(op, y, hi, lo, now, res) ==
  /\ value' = now
  /\ call' = <<op, value, y, hi, lo, res>>

ReplaceItems(ys, hi, lo) ==
  \/ /\ Is("array")
     /\ Called("replace", ys, hi, lo, Replaced(value, hi, lo, ys),
               IF ReplaceRaises(value, hi, lo, ys) THEN Fail ELSE Nil)
  \/ Is("vector") /\ Called("replace", ys, hi, lo, value, ReplaceVector(value, hi))
  \/ Is("struct") /\ Called("replace", ys, hi, lo, value, Fail)

Extend(ys) ==
  /\ Is("array") /\ Len(value.val) + Len(ys) <= MaxLen
  /\ Called("extend", ys, 0, 0, Extended(value, ys),
            IF ExtendRaises(value, ys) THEN Fail ELSE Nil)

Compare(ys) ==
  /\ Is("array")
  /\ \E T \in Types :
       /\ T.cls # "enum" /\ ~Failed(Make(T, List(ys)))
       /\ Called("eq", Make(T, List(ys)), 0, 0, value, [eq |-> Same(value, Make(T, List(ys)))])

Take(hi, lo) ==
  /\ Is("struct") /\ hi <= value.type.n
  /\ Called("sub", Nil, hi, lo, value, SubStruct(value, hi, lo))

FromDict(d) ==
  /\ Is("struct")
  /\ LET s == OfDict(value.type, d)
     IN  Called("dict", Nil, 0, 0, IF Failed(s) THEN value ELSE s, s)

\* x.name[hi:lo] = y, or the same for an item that an iteration gives: what is known of
\* the item changes, what the value remembers of it does not.
SetItemBits(i, hi, lo, y) ==
  /\ Is("array") \/ Is("vector") \/ Is("struct")
  /\ IsBit(value.val[i]) /\ hi < value.val[i].w /\ "w" \in DOMAIN y /\ y.w <= hi - lo + 1
  /\ Called("bits", y, hi, lo, [value EXCEPT !.val[i] = SetItem(@, hi, lo, y)], Nil)

CompareEnum(y) == Is("enum") /\ Called("enum", y, 0, 0, value, EqEnum(value, y))

Return ==
  /\ call # NoCall
  /\ call' = NoCall
  /\ UNCHANGED value

CNext ==
  \/ \E lo \in 0 .. MaxLen, hi \in 0 .. MaxLen :
       /\ lo <= hi
       /\ \/ \E ys \in Given : ReplaceItems(ys, hi, lo)
          \/ Take(hi, lo)
          \/ /\ value.type.cls # "enum"
             /\ \E y \in Operands, i \in DOMAIN value.val : SetItemBits(i, hi, lo, y)
  \/ \E ys \in Given : Extend(ys) \/ Compare(ys)
  \/ value.type.cls = "struct" /\ \E d \in Dicts(value.type) : FromDict(d)
  \/ value.type.cls = "enum" /\ \E y \in Comparable(value) : CompareEnum(y)
  \/ Return

CSpec == CInit /\ [][CNext]_cvars
-----------------------------------------------------------------------------
(* Properties *)

RECURSIVE AllKnown(_)
AllKnown(v) == IF IsBit(v) THEN Full(v)
               ELSE v.type.cls # "array" /\ \A i \in DOMAIN v.val : AllKnown(v.val[i])

\* Every item has the type of its place, but for those that a dictionary has brought
\* to a struct, which takes them for complete.
ItemsTyped ==
  ~IsEnum(value) =>
    \A i \in DOMAIN value.val :
      \/ HasType(value.val[i], FieldType(value.type, i))
      \/ value.type.cls = "struct" /\ value.vld[i]

\* An array that is replaced in part holds what conv makes of the new items, where conv
\* accepts them; if an item is refused, those before it are in place, and no item
\* behind it or outside the slice has changed.
ItemsReplaced ==
  LET a == call[2]  ys == call[3]  hi == call[4]  lo == call[5] IN
    call[1] = "replace" /\ a.type.cls = "array" =>
      /\ Len(value.val) = Len(a.val)
      /\ \A i \in DOMAIN a.val : i - 1 \notin lo .. hi => value.val[i] = a.val[i]
      /\ \A i \in DOMAIN a.val \cap (lo + 1 .. hi + 1) :
           LET before == SubSeq(ys, 1, i - lo)
               raised == \/ i - lo > Len(ys)
                         \/ \E k \in DOMAIN before : Failed(MakeItem(a.type.of, before[k]))
           IN  IF raised THEN value.val[i] = a.val[i]
               ELSE LET y == Conv(a.type.of, ys[i - lo]) IN Failed(y) \/ value.val[i] = y
      /\ ~Failed(call[6]) => Len(ys) > hi - lo /\ Len(a.val) > hi

\* What is cut out of a struct is the struct's items, each of its type even where the
\* struct's is not, and knows whether it is complete, even where the struct is wrong
\* about it; cutting raises only where a dictionary has left what has not the type.
CutExact ==
  LET a == call[2]  s == call[6] IN
    call[1] = "sub" =>
      \/ Failed(s) /\ \E i \in DOMAIN a.val : ~HasType(a.val[i], FieldType(a.type, i))
      \/ /\ ~Failed(s)
         /\ HasType(s, StructType(SubSeq(a.type.of, call[5] + 1, call[4])))
         /\ IsFull(s) <=> AllKnown(s)
         /\ \A i \in DOMAIN s.val :
              IsBit(s.val[i]) /\ HasType(a.val[call[5] + i], FieldType(a.type, call[5] + i)) =>
                s.val[i] = a.val[call[5] + i]

\* Comparing arrays is symmetric, and what is equal is equal bit by bit and known to
\* the same extent; an array equals another one made from its items unless they are
\* vectors or structs.
EqualExact ==
  LET a == call[2]  b == call[3] IN
    call[1] = "eq" =>
      /\ b.type.cls = "array" => (Same(a, b) <=> Same(b, a))
      /\ call[6].eq => \A i \in DOMAIN a.val : IsBit(a.val[i]) => Equal(a.val[i], b.val[i])
      /\ a.val = b.val /\ (\A i \in DOMAIN a.val : IsBit(a.val[i])) => call[6].eq

\* A member of an enum equals its own name and number, and no other one's; a wider bit
\* is compared by its bits, not by its number.
EnumExact ==
  LET e == call[2]  y == call[3] IN
    /\ call[1] = "enum" /\ IsName(y) /\ e.ord < e.type.n =>
         /\ call[6].eq <=> e.ord >= 0 /\ TextEnum(e) = y
         /\ call[6].eq <=> EqEnum(e, NewEnum(e.type, y)).eq
    /\ call[1] = "enum" /\ ~IsName(y) /\ IsBit(y) /\ y.w > 1 /\ call[6].eq => e.ord \in {0, 1}
=============================================================================
