------------------------------ MODULE Convgen -------------------------------
(***************************************************************************)
(* Conversion between data types: conv and the generator _convgen of       *)
(* types/_type_base.py, with the _icon ("what fits in is concatenated")    *)
(* of bit, array, vector and struct.                                       *)
(*                                                                         *)
(* A type is [cls, w] for bit and [cls, of, n] for the others: array has   *)
(* elements of type of, vector has n of them, and of a struct, of is the   *)
(* sequence of the types of its n fields.                                  *)
(***************************************************************************)
EXTENDS BitOps, SequencesExt

BitType(w)       == [cls |-> "bit", w |-> w]
ArrayType(T)     == [cls |-> "array", of |-> T, n |-> 0]
VectorType(n, T) == [cls |-> "vector", of |-> T, n |-> n]
StructType(Ts)   == [cls |-> "struct", of |-> Ts, n |-> Len(Ts)]

\* A Python list; a bit value, an integer and None are those of BitOps.
List(s)     == [items |-> s]
IsBit(v)    == "w" \in DOMAIN v /\ v.w > 0
IsInt(v)    == "w" \in DOMAIN v /\ v.w = 0
IsNil(v)    == "w" \in DOMAIN v /\ v.w = -1
IsList(v)   == "items" \in DOMAIN v
IsObject(v) == "type" \in DOMAIN v

\* What raises ConversionError or TypeError gives Fail.
Fail == [fail |-> TRUE]
Failed(v) == "fail" \in DOMAIN v

FieldType(T, i) == IF T.cls = "struct" THEN T.of[i] ELSE T.of

\* v is a value of type T.
RECURSIVE HasType(_, _)
HasType(v, T) ==
  IF T.cls = "bit" THEN IsBit(v) /\ v.w = T.w /\ v = Bit(v.w, v.val, v.vld)
  ELSE /\ IsObject(v) /\ v.type = T
       /\ T.cls # "array" => Len(v.val) = T.n
       /\ \A i \in DOMAIN v.val : HasType(v.val[i], FieldType(T, i))

\* list(v) and the iteration over v, for the values that have one
Iterable(v) == (IsBit(v) /\ v.w > 1) \/ IsList(v) \/ IsObject(v)
Elements(v) ==
  CASE IsList(v)   -> v.items
    [] IsObject(v) -> v.val
    [] OTHER       -> [i \in 1 .. v.w |-> GetItem(v, i - 1, i - 1)]

-----------------------------------------------------------------------------
(* Construction and completeness *)

\* _full
IsFull(v) ==
  IF IsBit(v) THEN Full(v)
  ELSE v.type.cls # "array" /\ \A i \in DOMAIN v.vld : v.vld[i]

\* T(v), where Nil stands for no argument: the value of which nothing is set; an array
\* and the fields of a vector or struct are made from the elements of v, as many as
\* there are and fit.
Made(T, given, el) ==
  IF \E i \in DOMAIN el : Failed(el[i]) THEN Fail
  ELSE [type |-> T, val |-> el, vld |-> [i \in DOMAIN el |-> i <= Len(given) /\ IsFull(el[i])]]

RECURSIVE Make(_, _), MakeFrom(_, _)

\* T(y) of an item y that is given: None is no composite.
MakeItem(T, y) == IF IsNil(y) /\ T.cls # "bit" THEN Fail ELSE Make(T, y)

Make(T, v) ==
  CASE T.cls = "bit" /\ IsNil(v)  -> Unset(T.w)
    [] T.cls = "bit" /\ IsInt(v)  -> Bit(T.w, v.val, Mask(T.w))
    [] T.cls = "bit" /\ IsBit(v)  -> Bit(T.w, v.val, v.vld)
    [] T.cls # "bit" /\ IsNil(v)    -> MakeFrom(T, <<>>)
    [] T.cls # "bit" /\ Iterable(v) -> MakeFrom(T, Elements(v))
    [] OTHER -> Fail

MakeFrom(T, given) ==
  Made(T, given, [i \in 1 .. (IF T.cls = "array" THEN Len(given) ELSE T.n) |->
                    IF i <= Len(given) THEN MakeItem(FieldType(T, i), given[i])
                                       ELSE Make(FieldType(T, i), Nil)])

\* _conv_direct: the methods _from_bit, _from_int and array._from_NoneType
Direct(T, v) ==
  CASE T.cls = "bit" /\ IsBit(v) /\ T.w = v.w -> v
    [] T.cls = "bit" /\ IsInt(v)              -> Make(T, v)
    [] T.cls = "array" /\ IsNil(v)            -> Make(T, v)
    [] OTHER                                  -> Fail

-----------------------------------------------------------------------------
(* _icon: the value with as much of v as fits, and what is left of v *)

Icon(a, rest) == [new |-> a, rest |-> rest]

\* The number of bits of a up to its highest valid one, or of its fields
SetBits(a)   == CHOOSE n \in 0 .. a.w : (n = 0 \/ Low(a.vld, n - 1) % 2 = 1) /\ Low(a.vld, n) = 0
SetFields(a) == CHOOSE n \in 0 .. Len(a.vld) :
                  (n = 0 \/ a.vld[n]) /\ \A i \in n + 1 .. Len(a.vld) : ~a.vld[i]

\* What is left of a value wider than the space, from one bit too high
RestOffByOne(v, space) == Bit(v.w - space, Low(v.val, space + 1), Low(v.vld, space + 1))

RestBits(v, space) == Bit(v.w - space, Low(v.val, space), Low(v.vld, space))

\* bit._icon
IconBit(a, v) ==
  LET n == SetBits(a)  space == a.w - n IN
  IF ~IsBit(v) THEN Fail
  ELSE Icon(Bit(a.w, High(v.val % 2^space, n) + (a.val % 2^n), High(v.vld % 2^space, n) | a.vld),
            IF v.w > space THEN RestBits(v, space) ELSE Nil)

RECURSIVE Gen(_, _, _)

\* What g has yielded and returned
Values(g) == [i \in 1 .. Len(g.out) |-> g.out[i].data] \o (IF IsNil(g.ret) THEN <<>> ELSE <<g.ret>>)

\* array._icon takes all of v; a partly set last element is never completed, as the
\* code asks for the method _full and does not call it.
IconArray(a, v) == Icon(MakeFrom(a.type, a.val \o Values(Gen(a.type.of, v, Nil))), Nil)

\* vector._icon converts v to the elements that are missing; the first one starts
\* from what is set of it.
Filled(a, n, g) ==
  LET k == IF Len(g.out) < a.type.n - n THEN Len(g.out) ELSE a.type.n - n
  IN  Icon(MakeFrom(a.type, [i \in 1 .. a.type.n |->
                               CASE i \in n + 1 .. n + k           -> g.out[i - n].data
                                 [] i = n + k + 1 /\ ~IsNil(g.ret) -> g.ret
                                 [] OTHER                          -> a.val[i]]),
           IF n + k = a.type.n THEN g.out[k].rest ELSE Nil)

IconVector(a, v) == Filled(a, SetFields(a), Gen(a.type.of, v, a.val[SetFields(a) + 1]))

\* struct._icon converts what is left of v to one field after the other.
RECURSIVE Fields(_, _, _, _)

AfterField(a, i, val, g) ==
  CASE g.out # <<>>  -> Fields(a, i + 1, [val EXCEPT ![i] = g.out[1].data], g.out[1].rest)
    [] IsNil(g.ret)  -> Icon(MakeFrom(a.type, val), Nil)
    [] OTHER         -> Icon(MakeFrom(a.type, [val EXCEPT ![i] = g.ret]), Nil)

Fields(a, i, val, rest) ==
  IF i > a.type.n THEN Icon(MakeFrom(a.type, val), rest)
  ELSE AfterField(a, i, val, Gen(FieldType(a.type, i), rest, a.val[i]))

IconStruct(a, v) == Fields(a, SetFields(a) + 1, a.val, v)

IconOf(a, v) ==
  CASE IsBit(a)               -> IconBit(a, v)
    [] a.type.cls = "array"   -> IconArray(a, v)
    [] a.type.cls = "vector"  -> IconVector(a, v)
    [] a.type.cls = "struct"  -> IconStruct(a, v)

-----------------------------------------------------------------------------
(* _convgen: what it yields, with what is left over each time, and what it returns *)

Result(out, ret)  == [out |-> out, ret |-> ret]
Yield(data, rest) == [data |-> data, rest |-> rest]

Broken(out) == [fail |-> TRUE, out |-> out]

\* Concatenation of v to a, over and over until nothing is left
RECURSIVE Pack(_, _, _, _, _)

Packed(T, ic, out) ==
  CASE Failed(ic)     -> Broken(out)
    [] IsFull(ic.new) -> Pack(T, Make(T, Nil), ic.rest, Append(out, Yield(ic.new, ic.rest)), TRUE)
    [] OTHER          -> Pack(T, ic.new, ic.rest, out, FALSE)

Pack(T, a, v, out, full) ==
  IF IsNil(v) THEN Result(out, IF full THEN Nil ELSE a)
  ELSE Packed(T, IconOf(a, v), out)

\* The same for the elements of vs, each as far as it goes
RECURSIVE PackAll(_, _, _, _, _)

Prepended(rest, vs) == IF IsNil(rest) THEN vs ELSE <<rest>> \o vs

PackedAll(T, ic, vs, out) ==
  CASE Failed(ic)     -> Broken(out)
    [] IsFull(ic.new) -> PackAll(T, Make(T, Nil), Prepended(ic.rest, vs),
                                 Append(out, Yield(ic.new, List(Prepended(ic.rest, vs)))), TRUE)
    [] OTHER          -> PackAll(T, ic.new, Prepended(ic.rest, vs), out, FALSE)

PackAll(T, a, vs, out, full) ==
  IF vs = <<>> THEN Result(out, IF full THEN Nil ELSE a)
  ELSE PackedAll(T, IconOf(a, Head(vs)), Tail(vs), out)

\* Each element on its own, what one leaves over starting the next
RECURSIVE GenEach(_, _, _, _)

Continued(T, vs, out, g) == GenEach(T, vs, g.ret, out \o g.out)

GenEach(T, vs, rem, out) ==
  IF vs = <<>> THEN Result(out, rem)
  ELSE Continued(T, Tail(vs), out, Gen(T, Head(vs), rem))

\* The elements that are converted directly, up to the first that is not
Directly(T, vs) ==
  LET bad == SelectInSeq(vs, LAMBDA e : Failed(Direct(T, e)))
  IN  [i \in 1 .. (IF bad = 0 THEN Len(vs) ELSE bad - 1) |-> Yield(Direct(T, vs[i]), Nil)]

\* A direct conversion; else one of each element; else concatenation of the value;
\* else concatenation of its elements; else a conversion of each.  What an attempt
\* has yielded before it failed stays yielded.
AfterPackAll(T, v, rem, pa) ==
  IF Failed(pa) THEN GenEach(T, Elements(v), rem, pa.out) ELSE pa

AfterPack(T, v, rem, pk) ==
  CASE ~Failed(pk)  -> pk
    [] ~Iterable(v) -> Result(pk.out, Nil)
    [] OTHER        -> AfterPackAll(T, v, rem, PackAll(T, Make(T, rem), Elements(v), pk.out, FALSE))

AfterDirectly(T, v, rem, each) ==
  IF Iterable(v) /\ Len(each) = Len(Elements(v)) THEN Result(each, Nil)
  ELSE AfterPack(T, v, rem, Pack(T, Make(T, rem), v, each, FALSE))

Gen(T, v, rem) ==
  IF Failed(Direct(T, v))
  THEN AfterDirectly(T, v, rem, IF Iterable(v) THEN Directly(T, Elements(v)) ELSE <<>>)
  ELSE Result(<<Yield(Direct(T, v), Nil)>>, Nil)

-----------------------------------------------------------------------------
(* conv: one value from one source *)

RECURSIVE ConvEach(_, _)

Overflows(ic) == IsFull(ic.new) /\ ~IsNil(ic.rest)

ConvEach(a, vs) ==
  IF vs = <<>> THEN a
  ELSE IF IsFull(a) THEN Fail
  ELSE LET ic == IconOf(a, Head(vs)) IN
       IF Failed(ic) \/ Overflows(ic) THEN Fail
       ELSE ConvEach(ic.new, Tail(vs))

\* A bit value of another width is refused at once.
Conv(T, v) ==
  CASE ~Failed(Direct(T, v))         -> Direct(T, v)
    [] T.cls = "bit" /\ IsBit(v)     -> Fail
    [] ~Failed(Make(T, v))           -> Make(T, v)
    [] Iterable(v)                   -> ConvEach(Make(T, Nil), Elements(v))
    [] OTHER                         -> Fail
=============================================================================
