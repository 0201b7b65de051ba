---------------------------- MODULE DesignProofs ----------------------------
(***************************************************************************)
(* Proofs about how a design comes together: the elaboration by name of    *)
(* the previous architecture (module Elaboration), for every set of module *)
(* classes, and the connection of interfaces (module Wiring), for every    *)
(* set of interfaces of any kinds and types and every order of the calls.  *)
(***************************************************************************)
EXTENDS Elaboration, Wiring, FiniteSetTheorems, TLAPS

-----------------------------------------------------------------------------
(* Induction, as a fact about sets of numbers.  The recursions of the two modules run over
   intervals 0 .. n; what holds of their values is proved from these lemmas, for every n. *)
\* A set of natural numbers has a smallest element.
LEMMA SmallestNumber ==
  ASSUME NEW S \in SUBSET Nat, S # {}
  PROVE  \E x \in S : \A y \in S : x <= y
<1>1. PICK x \in S : \A y \in S : ~ (<<y, x>> \in OpToRel(<, Nat))
  BY NatLessThanWellFounded, WFMin, Zenon
<1>2. \A y \in S : ~ (y < x)
  BY <1>1, Zenon DEF OpToRel
<1> QED
  BY <1>2

\* What holds at 0 and passes from k to k + 1 holds up to n.
LEMMA Reaches ==
  ASSUME NEW n \in Nat, NEW S, 0 \in S, \A k \in 0 .. n - 1 : k \in S => k + 1 \in S
  PROVE  0 .. n \subseteq S
<1> SUFFICES ASSUME ~ (0 .. n \subseteq S)
             PROVE  FALSE
  OBVIOUS
<1> DEFINE Gaps == (0 .. n) \ S
<1>1. PICK x \in Gaps : \A y \in Gaps : x <= y
  BY SmallestNumber, Gaps \in SUBSET Nat, Gaps # {}
<1>2. x \in 1 .. n
  BY <1>1
<1>3. x - 1 \in S
  BY <1>1, <1>2
<1> QED
  BY <1>1, <1>2, <1>3

\* The function that starts with `first' and goes on by the functions `step'
Computes(f, n, first, step) == \A k \in 0 .. n : f[k] = IF k = 0 THEN first ELSE step[k][f[k - 1]]

\* A recursion over 0 .. n with values in V defines a function.
LEMMA Recursion ==
  ASSUME NEW n \in Nat, NEW V, NEW first \in V, NEW step \in [1 .. n -> [V -> V]]
  PROVE  \E f \in [0 .. n -> V] : Computes(f, n, first, step)
<1> DEFINE Defined(f, j) == \A k \in 0 .. j : f[k] = IF k = 0 THEN first ELSE step[k][f[k - 1]]
           S == { j \in 0 .. n : \E f \in [0 .. j -> V] : Defined(f, j) }
<1>1. 0 \in S
  <2> DEFINE f == [k \in 0 .. 0 |-> first]
  <2>1. f \in [0 .. 0 -> V] /\ Defined(f, 0)
    OBVIOUS
  <2> HIDE DEF f, Defined
  <2> QED
    BY <2>1
<1>2. ASSUME NEW j \in 0 .. n - 1, j \in S
      PROVE  j + 1 \in S
  <2>1. PICK f \in [0 .. j -> V] : Defined(f, j)
    BY <1>2
  <2> DEFINE g == [k \in 0 .. j + 1 |-> IF k = j + 1 THEN step[j + 1][f[j]] ELSE f[k]]
  <2>2. step[j + 1][f[j]] \in V
    BY j + 1 \in 1 .. n, j \in 0 .. j
  <2>3. g \in [0 .. j + 1 -> V]
    BY <2>2
  <2>4. ASSUME NEW k \in 0 .. j + 1
        PROVE  g[k] = IF k = 0 THEN first ELSE step[k][g[k - 1]]
    <3>1. CASE k = j + 1
      BY <3>1
    <3>2. CASE k # j + 1
      <4>1. k \in 0 .. j /\ g[k] = f[k] /\ (k # 0 => g[k - 1] = f[k - 1])
        BY <3>2
      <4>2. f[k] = IF k = 0 THEN first ELSE step[k][f[k - 1]]
        BY <2>1, <4>1
      <4> QED
        BY <4>1, <4>2
    <3> QED
      BY <3>1, <3>2
  <2>5. Defined(g, j + 1)
    BY <2>4
  <2> HIDE DEF g, Defined
  <2> QED
    BY <2>3, <2>5
<1> HIDE DEF S
<1>3. 0 .. n \subseteq S
  BY <1>1, <1>2, Reaches
<1>4. n \in S
  BY <1>3
<1> QED
  BY <1>4 DEF S, Computes

\* What holds of an element once it holds of those ranked below it holds of all.
LEMMA RankInduction ==
  ASSUME NEW D, NEW R \in [D -> Nat], NEW S,
         \A j \in D : (\A l \in D : R[l] < R[j] => l \in S) => j \in S
  PROVE  D \subseteq S
<1> SUFFICES ASSUME ~ (D \subseteq S)
             PROVE  FALSE
  OBVIOUS
<1> DEFINE left == { R[j] : j \in D \ S }
<1>1. PICK x \in left : \A y \in left : x <= y
  BY SmallestNumber, left \in SUBSET Nat, left # {}
<1>2. PICK j \in D \ S : x = R[j]
  BY <1>1
<1>3. ASSUME NEW l \in D, R[l] < R[j]
      PROVE  l \in S
  <2>1. R[j] <= R[l] => ~ (R[l] < R[j])
    OBVIOUS
  <2>2. l \notin S => R[l] \in left
    OBVIOUS
  <2> QED
    BY <1>1, <1>2, <1>3, <2>1, <2>2
<1> QED
  BY <1>2, <1>3

\* What f is at j by its recursion: the value `ends' where the recursion ends, and elsewhere
\* what `goes' makes of its value at the element `to'.
Unfolds(f, j, P, to, goes, ends) == f[j] = IF j \in P THEN goes[j][f[to[j]]] ELSE ends[j]

GoesDown(D, h, R, P, to, V, ends, goes) ==
  /\ h \in Nat /\ R \in [D -> 0 .. h]
  /\ P \subseteq D /\ to \in [P -> D] /\ \A j \in P : R[to[j]] < R[j]
  /\ ends \in [D -> V] /\ goes \in [P -> [V -> V]]

\* A recursion that goes down the ranks defines a function.
LEMMA RankedRecursion ==
  ASSUME NEW D, NEW h, NEW R, NEW P, NEW to, NEW V, NEW ends, NEW goes,
         GoesDown(D, h, R, P, to, V, ends, goes)
  PROVE  \E f \in [D -> V] : \A j \in D : Unfolds(f, j, P, to, goes, ends)
<1> USE DEF GoesDown
<1> DEFINE Once(f) == [j \in D |-> IF j \in P THEN goes[j][f[to[j]]] ELSE ends[j]]
           W       == [D -> V]
           step    == [k \in 1 .. h + 1 |-> [f \in W |-> Once(f)]]
<1>1. \A f \in W : Once(f) \in W
  OBVIOUS
<1>2. /\ step \in [1 .. h + 1 -> [W -> W]]
      /\ \A k \in 1 .. h + 1, f \in W : step[k][f] = Once(f)
  BY <1>1
<1> HIDE DEF step
<1>3. PICK F \in [0 .. h + 1 -> W] : Computes(F, h + 1, ends, step)
  <2>1. h + 1 \in Nat /\ ends \in W
    OBVIOUS
  <2> HIDE DEF Once, W
  <2> QED
    BY <1>2, <2>1, Recursion
<1>4. ASSUME NEW k \in 0 .. h
      PROVE  F[k] \in W /\ F[k + 1] = Once(F[k])
  <2>1. F[k] \in W /\ k + 1 \in 1 .. h + 1 /\ k + 1 \in 0 .. h + 1 /\ k + 1 # 0 /\ (k + 1) - 1 = k
    OBVIOUS
  <2>2. F[k + 1] = step[k + 1][F[k]]
    BY <1>3, <2>1 DEF Computes
  <2> QED
    BY <1>2, <2>1, <2>2
<1>5. F[0] = ends
  BY <1>3 DEF Computes
<1> DEFINE S == { k \in 0 .. h : \A j \in D : R[j] <= k => F[k + 1][j] = F[k][j] }
<1>6. 0 \in S
  <2>1. ASSUME NEW j \in D, R[j] <= 0
        PROVE  F[1][j] = F[0][j]
    <3>1. j \notin P
      BY <2>1
    <3>2. F[1] = Once(F[0])
      BY <1>4
    <3> QED
      BY <1>5, <3>1, <3>2
  <2> QED
    BY <2>1
<1>7. ASSUME NEW k \in 0 .. h - 1, k \in S
      PROVE  k + 1 \in S
  <2>1. ASSUME NEW j \in D, R[j] <= k + 1
        PROVE  F[(k + 1) + 1][j] = F[k + 1][j]
    <3>1. F[(k + 1) + 1] = Once(F[k + 1]) /\ F[k + 1] = Once(F[k])
      <4> HIDE DEF Once
      <4> QED
        BY <1>4, k \in 0 .. h, k + 1 \in 0 .. h
    <3>2. CASE j \in P
      <4>1. to[j] \in D /\ R[to[j]] <= k
        BY <2>1, <3>2
      <4>2. F[k + 1][to[j]] = F[k][to[j]]
        BY <1>7, <4>1
      <4>3. F[(k + 1) + 1][j] = goes[j][F[k + 1][to[j]]] /\ F[k + 1][j] = goes[j][F[k][to[j]]]
        BY <3>1, <3>2
      <4> QED
        BY <4>2, <4>3
    <3>3. CASE j \notin P
      BY <3>1, <3>3
    <3> QED
      BY <3>2, <3>3
  <2> QED
    BY <2>1
<1> HIDE DEF S
<1>8. 0 .. h \subseteq S
  BY <1>6, <1>7, Reaches
<1>9. \A j \in D : F[h + 1][j] = F[h][j]
  BY <1>8, h \in 0 .. h DEF S
<1>10. F[h] \in W /\ F[h + 1] = Once(F[h])
  BY <1>4
<1>11. ASSUME NEW j \in D
       PROVE  F[h][j] = IF j \in P THEN goes[j][F[h][to[j]]] ELSE ends[j]
  BY <1>9, <1>10
<1> QED
  BY <1>10, <1>11 DEF Unfolds

\* A recursion over all natural numbers defines a function too.
LEMMA Iteration ==
  ASSUME NEW V, NEW first \in V, NEW step \in [V -> V]
  PROVE  \E f \in [Nat -> V] : \A k \in Nat : f[k] = IF k = 0 THEN first ELSE step[f[k - 1]]
<1> DEFINE Upto(f, n) == \A k \in 0 .. n : f[k] = IF k = 0 THEN first ELSE step[f[k - 1]]
<1>1. ASSUME NEW n \in Nat
      PROVE  \E f \in [0 .. n -> V] : Upto(f, n)
  <2> DEFINE steps == [k \in 1 .. n |-> step]
  <2>1. steps \in [1 .. n -> [V -> V]] /\ \A k \in 1 .. n : steps[k] = step
    OBVIOUS
  <2> HIDE DEF steps
  <2>2. PICK f \in [0 .. n -> V] : Computes(f, n, first, steps)
    BY <2>1, Recursion
  <2>3. ASSUME NEW k \in 0 .. n
        PROVE  f[k] = IF k = 0 THEN first ELSE step[f[k - 1]]
    BY <2>1, <2>2 DEF Computes
  <2> QED
    BY <2>3
<1> HIDE DEF Upto
<1> DEFINE F(n) == CHOOSE f \in [0 .. n -> V] : Upto(f, n)
           g    == [n \in Nat |-> F(n)[n]]
<1>2. \A n \in Nat : F(n) \in [0 .. n -> V] /\ Upto(F(n), n)
  BY <1>1
<1> HIDE DEF F
<1>3. ASSUME NEW n \in Nat
      PROVE  F(n + 1)[n] = F(n)[n]
  <2> DEFINE S == { k \in 0 .. n : F(n + 1)[k] = F(n)[k] }
  <2>1. Upto(F(n), n) /\ Upto(F(n + 1), n + 1)
    BY <1>2
  <2>2. 0 \in S
    BY <2>1 DEF Upto
  <2>3. ASSUME NEW k \in 0 .. n - 1, k \in S
        PROVE  k + 1 \in S
    <3>1. k + 1 \in 0 .. n /\ k + 1 \in 0 .. n + 1 /\ k + 1 # 0 /\ (k + 1) - 1 = k
      OBVIOUS
    <3>2. F(n)[k + 1] = step[F(n)[k]] /\ F(n + 1)[k + 1] = step[F(n + 1)[k]]
      BY <2>1, <3>1 DEF Upto
    <3> QED
      BY <2>3, <3>1, <3>2
  <2> HIDE DEF S
  <2>4. 0 .. n \subseteq S
    BY <2>2, <2>3, Reaches
  <2> QED
    BY <2>4, n \in 0 .. n DEF S
<1>4. g \in [Nat -> V]
  BY <1>2
<1>5. ASSUME NEW k \in Nat
      PROVE  g[k] = IF k = 0 THEN first ELSE step[g[k - 1]]
  <2>1. F(k)[k] = IF k = 0 THEN first ELSE step[F(k)[k - 1]]
    BY <1>2 DEF Upto
  <2>2. CASE k = 0
    BY <2>1, <2>2
  <2>3. CASE k # 0
    <3>1. k - 1 \in Nat /\ (k - 1) + 1 = k
      BY <2>3
    <3>2. F(k)[k - 1] = F(k - 1)[k - 1]
      BY <1>3, <3>1
    <3> QED
      BY <2>1, <2>3, <3>1, <3>2
  <2> QED
    BY <2>2, <2>3
<1> QED
  BY <1>4, <1>5

-----------------------------------------------------------------------------
(* Elaboration: the numbers of components *)
\* The largest element of a set of numbers up to n
LEMMA LargestNumber ==
  ASSUME NEW n \in Nat, NEW S \in SUBSET (1 .. n), S # {}
  PROVE  Max(S) \in S
<1> DEFINE D == { n - x : x \in S }
<1>1. PICK d \in D : \A y \in D : d <= y
  BY SmallestNumber, D \in SUBSET Nat, D # {}
<1>2. PICK m \in S : d = n - m
  BY <1>1
<1>3. \A y \in S : m >= y
  <2> TAKE y \in S
  <2>1. n - y \in D
    OBVIOUS
  <2>2. d <= n - y
    BY <1>1, <2>1
  <2> QED
    BY <1>2, <2>2
<1> QED
  BY <1>3, Zenon DEF Max

-----------------------------------------------------------------------------
(* Component.find *)

\* Strings; that the literals are among them is not known to the provers.
Word == STRING \cup {"top", "conv", ""}
Name == [segs : Seq(Word), tag : Word]
Comp == [parent : Nat, name : Name, kind : {"module", "channel"}, cls : Classes]

\* The components: each comes after its parent.
CompsOK ==
  /\ comps \in Seq(Comp)
  /\ \A x \in DOMAIN comps : comps[x].parent \in 0 .. x - 1

\* components[n] is a component, or there is none.
LEMMA ChildTyped ==
  ASSUME CompsOK, NEW c, NEW n
  PROVE  Child(c, n) \in 0 .. Len(comps)
<1> DEFINE S == { x \in DOMAIN comps : comps[x].parent = c /\ comps[x].name = n }
<1>1. Len(comps) \in Nat /\ S \in SUBSET (1 .. Len(comps))
  BY DEF CompsOK
<1>2. S # {} => Max(S) \in S
  BY <1>1, LargestNumber
<1> QED
  BY <1>1, <1>2 DEF Child

\* Some parents up there is a component, or None.
LEMMA ClimbTyped ==
  ASSUME CompsOK, NEW c \in 0 .. Len(comps), NEW n \in Nat
  PROVE  Climb(c, n) \in 0 .. Len(comps)
<1> DEFINE V        == 0 .. Len(comps)
           Above(x) == IF x = 0 THEN 0 ELSE comps[x].parent
           step     == [k \in 1 .. n |-> [x \in V |-> Above(x)]]
           Is(f)    == f = [k \in 0 .. n |-> IF k = 0 THEN c ELSE IF f[k - 1] = 0 THEN 0
                                              ELSE comps[f[k - 1]].parent]
           up       == CHOOSE f : Is(f)
<1>1. Len(comps) \in Nat /\ \A x \in V : Above(x) \in V
  BY DEF CompsOK
<1>2. /\ step \in [1 .. n -> [V -> V]]
      /\ \A k \in 1 .. n, x \in V : step[k][x] = IF x = 0 THEN 0 ELSE comps[x].parent
  BY <1>1
<1> HIDE DEF step, V
<1>3. PICK f \in [0 .. n -> V] : Computes(f, n, c, step)
  <2>1. c \in V
    BY DEF V
  <2> QED
    BY <1>2, <2>1, Recursion
<1>4. \A k \in 0 .. n : f[k] = IF k = 0 THEN c ELSE IF f[k - 1] = 0 THEN 0 ELSE comps[f[k - 1]].parent
  <2> TAKE k \in 0 .. n
  <2>1. CASE k = 0
    BY <1>3, <2>1 DEF Computes
  <2>2. CASE k # 0
    <3>1. k \in 1 .. n /\ f[k - 1] \in V
      BY <2>2
    <3>2. f[k] = step[k][f[k - 1]]
      BY <1>3, <2>2 DEF Computes
    <3> QED
      BY <1>2, <2>2, <3>1, <3>2
  <2> QED
    BY <2>1, <2>2
<1>5. Is(f)
  BY <1>3, <1>4
<1>6. Is(up)
  BY <1>5
<1> HIDE DEF up
<1>7. \A k \in 0 .. n : up[k] = IF k = 0 THEN c ELSE Above(up[k - 1])
  BY <1>6
<1> DEFINE S == { k \in 0 .. n : up[k] \in V }
<1>8. 0 \in S
  <2>1. up[0] = c /\ 0 \in 0 .. n
    BY <1>7
  <2>2. c \in V
    BY DEF V
  <2> QED
    BY <2>1, <2>2
<1>9. ASSUME NEW k \in 0 .. n - 1, k \in S
      PROVE  k + 1 \in S
  <2>1. up[k + 1] = Above(up[k])
    BY <1>7, k + 1 \in 0 .. n, k + 1 # 0, (k + 1) - 1 = k
  <2>2. Above(up[k]) \in V
    BY <1>1, <1>9
  <2> QED
    BY <2>1, <2>2
<1> HIDE DEF S
<1>10. 0 .. n \subseteq S
  BY <1>8, <1>9, Reaches
<1>11. up[n] \in V
  BY <1>10 DEF S
<1>12. Climb(c, n) = up[n]
  BY DEF Climb, up
<1> QED
  BY <1>11, <1>12

\* find gives a component, the last one that it could trace, and segments.
LEMMA DescendTyped ==
  ASSUME CompsOK, NEW c \in DOMAIN comps, NEW segs \in Seq(Word), NEW tag
  PROVE  Descend(c, segs, tag) \in [comp : DOMAIN comps, rest : Seq(Word)]
<1> DEFINE last    == Len(segs)
           V       == [comp : DOMAIN comps, rest : Seq(Word)]
           name(k) == IF k = last THEN [segs |-> <<segs[k]>>, tag |-> tag]
                      ELSE ModuleName(CompName(segs[k]))
           Go(w, k) == IF Len(w.rest) = last - k + 1 /\ Child(w.comp, name(k)) # 0
                       THEN [comp |-> Child(w.comp, name(k)), rest |-> Tail(w.rest)] ELSE w
           step    == [k \in 1 .. last |-> [w \in V |-> Go(w, k)]]
           first   == [comp |-> c, rest |-> segs]
           Is(f)   == f = [k \in 0 .. last |-> IF k = 0 THEN first ELSE Go(f[k - 1], k)]
           down    == CHOOSE f : Is(f)
<1>1. last \in Nat /\ first \in V
  OBVIOUS
<1>2. ASSUME NEW k \in 1 .. last, NEW w \in V
      PROVE  Go(w, k) \in V
  <2>1. CASE Len(w.rest) = last - k + 1 /\ Child(w.comp, name(k)) # 0
    <3>1. Child(w.comp, name(k)) \in DOMAIN comps
      <4> DEFINE m == name(k)
      <4> HIDE DEF m
      <4>1. Child(w.comp, m) \in 0 .. Len(comps)
        BY ChildTyped
      <4> QED
        BY <2>1, <4>1 DEF CompsOK, m
    <3>2. Len(w.rest) > 0 /\ w.rest \in Seq(Word)
      BY <2>1
    <3>3. Tail(w.rest) \in Seq(Word)
      BY <3>2
    <3> QED
      BY <2>1, <3>1, <3>3
  <2>2. CASE ~ (Len(w.rest) = last - k + 1 /\ Child(w.comp, name(k)) # 0)
    BY <2>2
  <2> QED
    BY <2>1, <2>2
<1> HIDE DEF Go, V, first, last
<1>3. /\ step \in [1 .. last -> [V -> V]]
      /\ \A k \in 1 .. last, w \in V : step[k][w] = Go(w, k)
  BY <1>2
<1> HIDE DEF step
<1>4. PICK f \in [0 .. last -> V] : Computes(f, last, first, step)
  BY <1>1, <1>3, Recursion
<1>5. \A k \in 0 .. last : f[k] = IF k = 0 THEN first ELSE Go(f[k - 1], k)
  <2> TAKE k \in 0 .. last
  <2>1. CASE k = 0
    BY <1>4, <2>1 DEF Computes
  <2>2. CASE k # 0
    <3>1. k \in 1 .. last /\ f[k - 1] \in V
      BY <1>1, <2>2
    <3>2. f[k] = step[k][f[k - 1]]
      BY <1>4, <2>2 DEF Computes
    <3> QED
      BY <1>3, <2>2, <3>1, <3>2
  <2> QED
    BY <2>1, <2>2
<1>6. Is(f)
  BY <1>4, <1>5
<1>7. Is(down)
  BY <1>6
<1> HIDE DEF down
<1>8. \A k \in 0 .. last : down[k] = IF k = 0 THEN first ELSE Go(down[k - 1], k)
  BY <1>7
<1> DEFINE S == { k \in 0 .. last : down[k] \in V }
<1>9. 0 \in S
  BY <1>1, <1>8
<1>10. \A k \in 0 .. last - 1 : k \in S => k + 1 \in S
  BY <1>1, <1>2, <1>8
<1> HIDE DEF S
<1>11. 0 .. last \subseteq S
  BY <1>1, <1>9, <1>10, Reaches
<1>12. down[last] \in V
  BY <1>1, <1>11 DEF S
<1>13. Descend(c, segs, tag) = down[last]
  BY DEF Descend, down, last, first, Go
<1> QED
  BY <1>12, <1>13 DEF V

-----------------------------------------------------------------------------
(* Types *)

Given  == {<<>>} \cup UNION { [DOMAIN Ports[c] -> PortName] : c \in Classes }
Frames == [mod : Ids, arch : Nat, port : Nat, body : BOOLEAN, conf : Given]

\* An architecture of a component under way
FrameOK(cs, g) ==
  /\ g.mod \in DOMAIN cs
  /\ g.arch \in DOMAIN Archs[cs[g.mod].cls]
  /\ g.port \in 1 .. Len(Ports[cs[g.mod].cls]) + 1
  /\ \A k \in DOMAIN Ports[cs[g.mod].cls] : g.conf[k] \in PortName

StackOK ==
  /\ stack \in Seq(Frames)
  /\ \A s \in DOMAIN stack : FrameOK(comps, stack[s])
  /\ \A s \in DOMAIN stack : s > 1 => comps[stack[s].mod].parent = stack[s - 1].mod

TablesOK ==
  /\ chan \in [Proxies -> [Sides -> 0 .. MaxComps]]
  /\ src \in [Proxies -> Proxies \cup {NoIntf}]
  /\ conv \in [Proxies -> SUBSET Proxies]
  /\ slavesOf \in [Ids -> Seq(Proxies)]
  /\ masterOf \in [Ids -> Proxies \cup {NoIntf}]
  /\ raised \in BOOLEAN

\* Interfaces belong to components, and masters come to channels.
CurrentOK == current \in [Ids -> [arch : Word, active : BOOLEAN]]
OwnersOK  == owner \in [Proxies -> 0 .. Len(comps)]
MastersOK == \A c \in Ids : masterOf[c] # NoIntf => c \in DOMAIN comps /\ comps[c].kind = "channel"

TypeInv ==
  /\ CompsOK /\ Len(comps) \in 1 .. MaxComps
  /\ StackOK /\ TablesOK /\ CurrentOK /\ OwnersOK /\ MastersOK

\* A slave is in the list of the channel it was registered with; an interface that is in
\* no list has no source, and one in a list has the one that it should have.
Served ==
  /\ \A c \in Ids : \A s \in DOMAIN slavesOf[c] : chan[slavesOf[c][s]]["slave"] = c
  /\ \A i \in Proxies : chan[i]["slave"] = 0 => src[i] = NoIntf /\ conv[i] = {}
  /\ EverySlaveServed

\* What a slave i of a channel should have as its source, given the channel's master
RightSource(i, m, so, co) ==
  IF m = NoIntf THEN so[i] = NoIntf /\ co[i] = {}
  ELSE \/ so[i] = m /\ co[i] = {}
       \/ so[i] = NoIntf /\ co[i] = {m}

LEMMA ServedAs ==
  /\ EverySlaveServed <=>
       \A c \in Ids : \A s \in DOMAIN slavesOf[c] : RightSource(slavesOf[c][s], masterOf[c], src, conv)
  /\ EverySlaveServed' <=>
       \A c \in Ids : \A s \in DOMAIN slavesOf'[c] : RightSource(slavesOf'[c][s], masterOf'[c], src', conv')
  BY DEF EverySlaveServed, RightSource

LEMMA ServedStays ==
  ASSUME EverySlaveServed, UNCHANGED <<slavesOf, masterOf, src, conv>>
  PROVE  EverySlaveServed'
BY DEF EverySlaveServed

\* What the assumptions on the classes come to
LEMMA ClassFacts ==
  /\ MaxComps \in Nat \ {0} /\ Ids = 1 .. MaxComps /\ Top \in Classes /\ Classes \subseteq STRING
  /\ \A c \in Classes : /\ Archs[c] \in Seq(STRING) /\ Len(Archs[c]) \in Nat \ {0}
                        /\ Ports[c] \in Seq([side : Sides, shared : BOOLEAN])
                        /\ Kids[c] \subseteq Classes
                        /\ \A k \in DOMAIN Ports[c] : Confs[c][k] \subseteq PortName
  /\ Ports[Top] = <<>>
<1> USE ElaborationAssumption DEF ElaborationAssumption
<1>1. /\ MaxComps \in Nat \ {0} /\ Ids = 1 .. MaxComps /\ Top \in Classes /\ Classes \subseteq STRING
      /\ Ports[Top] = <<>>
  BY DEF Ids
<1>2. ASSUME NEW c \in Classes
      PROVE  /\ Archs[c] \in Seq(STRING) /\ Len(Archs[c]) \in Nat \ {0}
             /\ Ports[c] \in Seq([side : Sides, shared : BOOLEAN])
             /\ Kids[c] \subseteq Classes
             /\ \A k \in DOMAIN Ports[c] : Confs[c][k] \subseteq PortName
  <2>1. Archs[c] \in Seq(STRING) /\ Archs[c] # <<>>
    OBVIOUS
  <2>2. Len(Archs[c]) \in Nat \ {0}
    BY <2>1
  <2>3. Ports[c] \in Seq([side : Sides, shared : BOOLEAN])
    OBVIOUS
  <2>4. Kids[c] \subseteq Classes
    OBVIOUS
  <2> QED
    BY <2>1, <2>2, <2>3, <2>4
<1> QED
  BY <1>1, <1>2

\* What stands in a sequence over S is in S.
LEMMA ElementOf ==
  ASSUME NEW S, NEW q \in Seq(S), NEW k \in DOMAIN q
  PROVE  q[k] \in S
  OBVIOUS

LEMMA SequencesOver ==
  ASSUME NEW S, NEW T, S \subseteq T, NEW q \in Seq(S)
  PROVE  q \in Seq(T)
  OBVIOUS

\* A sequence of one element
LEMMA Single ==
  ASSUME NEW S, NEW e \in S
  PROVE  <<e>> \in Seq(S)
  OBVIOUS

LEMMA Product ==
  ASSUME NEW a \in Nat, NEW b \in Nat
  PROVE  a * b \in Nat
  OBVIOUS

LEMMA NoIntfIsNone == NoIntf \notin Proxies
<1> SUFFICES ASSUME NEW c \in Classes, NEW m \in 0 .. MaxComps, NEW a \in DOMAIN Archs[c],
                    NEW k \in DOMAIN Ports[c], NoIntf = <<m, c, Archs[c][a], k>>
             PROVE  FALSE
  BY DEF Proxies
<1>1. k # 0
  BY ClassFacts
<1> QED
  BY <1>1 DEF NoIntf

LEMMA InitOK == EInit => TypeInv /\ Served
<1> SUFFICES ASSUME EInit
             PROVE  TypeInv /\ Served
  OBVIOUS
<1> DEFINE top == [parent |-> 0, name |-> ModuleName("top"), kind |-> "module", cls |-> Top]
<1>1. top \in Comp
  <2>1. ModuleName("top") \in Name
    <3>1. <<"top">> \in Seq(Word) /\ "" \in Word
      BY DEF Word
    <3> QED
      BY <3>1 DEF Name, ModuleName
  <2> QED
    BY <2>1, ClassFacts DEF Comp
<1>2. comps = <<top>> /\ Len(comps) = 1 /\ DOMAIN comps = {1} /\ comps[1] = top
  BY DEF EInit
<1>3. CompsOK
  BY <1>1, <1>2 DEF CompsOK
<1>4. StackOK
  <2>1. Frame(1, <<>>) \in Frames
    <3>1. <<>> \in Given
      BY DEF Given
    <3> QED
      BY <3>1, ClassFacts DEF Frame, Frames
  <2>2. FrameOK(comps, Frame(1, <<>>))
    <3>1. /\ Frame(1, <<>>).mod = 1 /\ Frame(1, <<>>).arch = 1 /\ Frame(1, <<>>).port = 1
          /\ comps[1].cls = Top
      BY <1>2 DEF Frame
    <3>2. 1 \in DOMAIN Archs[Top]
      <4>1. Archs[Top] \in Seq(STRING) /\ Len(Archs[Top]) \in Nat \ {0}
        BY ClassFacts
      <4> QED
        BY <4>1
    <3>3. Len(Ports[Top]) = 0 /\ DOMAIN Ports[Top] = {}
      <4>1. Ports[Top] = <<>>
        BY ClassFacts
      <4> QED
        BY <4>1
    <3> QED
      BY <1>2, <3>1, <3>2, <3>3 DEF FrameOK
  <2> QED
    BY <2>1, <2>2 DEF StackOK, EInit
<1>5. TablesOK
  <2>1. chan \in [Proxies -> [Sides -> 0 .. MaxComps]]
    BY ClassFacts DEF EInit
  <2>2. slavesOf \in [Ids -> Seq(Proxies)]
    BY DEF EInit
  <2> QED
    BY <2>1, <2>2 DEF TablesOK, EInit
<1>6. OwnersOK /\ MastersOK
  BY <1>2 DEF OwnersOK, MastersOK, EInit
<1>7. CurrentOK
  BY ClassFacts, ElementOf, 1 \in DOMAIN Archs[Top] DEF CurrentOK, EInit, Word
<1>8. Served
  BY DEF Served, EverySlaveServed, Sides, EInit
<1> QED
  BY <1>2, <1>3, <1>4, <1>5, <1>6, <1>7, <1>8, ClassFacts DEF TypeInv

-----------------------------------------------------------------------------
(* What the actions are made of *)

\* The architecture under way
LEMMA RunningOK ==
  ASSUME TypeInv, stack # <<>>
  PROVE  /\ Len(stack) \in DOMAIN stack /\ Running \in Frames /\ FrameOK(comps, Running)
         /\ Class \in Classes /\ Arch \in STRING /\ Running.mod \in Ids
         /\ Running.arch \in DOMAIN Archs[Class] /\ Arch = Archs[Class][Running.arch]
<1>1. Len(stack) \in DOMAIN stack /\ Running \in Frames
  BY DEF TypeInv, StackOK, Running
<1>2. FrameOK(comps, Running)
  BY <1>1 DEF TypeInv, StackOK, Running
<1>3. Running.mod \in Ids
  BY <1>1 DEF Frames
<1>4. Running.mod \in DOMAIN comps /\ Class \in Classes
  <2>1. Running.mod \in DOMAIN comps
    BY <1>2 DEF FrameOK
  <2>2. comps[Running.mod] \in Comp
    BY <2>1 DEF TypeInv, CompsOK
  <2> QED
    BY <2>1, <2>2 DEF Comp, Class
<1>5. Running.arch \in DOMAIN Archs[Class]
  BY <1>2 DEF FrameOK, Class
<1>6. Arch \in STRING
  <2>1. Archs[Class] \in Seq(STRING)
    BY <1>4, ClassFacts
  <2> QED
    BY <2>1, <1>5 DEF Arch
<1> QED
  BY <1>1, <1>2, <1>3, <1>4, <1>5, <1>6 DEF Arch

\* The interface of the next port
LEMMA PortTyped ==
  ASSUME TypeInv, stack # <<>>, Running.port <= Len(Ports[Class])
  PROVE  /\ Running.port \in DOMAIN Ports[Class]
         /\ Ports[Class][Running.port].side \in Sides
         /\ Intf(Running.mod, Arch, Running.port) \in Proxies
         /\ Running.conf[Running.port] \in PortName
<1>1. Class \in Classes /\ Running.arch \in DOMAIN Archs[Class] /\ Arch = Archs[Class][Running.arch]
      /\ Running.mod \in Ids /\ FrameOK(comps, Running) /\ Class = comps[Running.mod].cls
  BY RunningOK DEF Class
<1>2. Ports[Class] \in Seq([side : Sides, shared : BOOLEAN])
  BY <1>1, ClassFacts
<1>3. Running.port \in DOMAIN Ports[Class]
  BY <1>1, <1>2 DEF FrameOK
<1>4. Ports[Class][Running.port].side \in Sides
  <2>1. Ports[Class][Running.port] \in [side : Sides, shared : BOOLEAN]
    BY <1>2, <1>3, ElementOf
  <2> QED
    BY <2>1
<1>5. Running.conf[Running.port] \in PortName
  BY <1>1, <1>3 DEF FrameOK
<1> DEFINE owned == IF Ports[Class][Running.port].shared THEN 0 ELSE Running.mod
<1>6. owned \in 0 .. MaxComps
  BY <1>1, ClassFacts
<1>7. Intf(Running.mod, Arch, Running.port) = <<owned, Class, Archs[Class][Running.arch], Running.port>>
  BY <1>1 DEF Intf
<1> HIDE DEF owned
<1> DEFINE here == <<owned, Class, Archs[Class][Running.arch], Running.port>>
<1>8. \E m \in 0 .. MaxComps, a \in DOMAIN Archs[Class], k \in DOMAIN Ports[Class] :
        here = <<m, Class, Archs[Class][a], k>>
  BY <1>1, <1>3, <1>6
<1> HIDE DEF here
<1>9. here \in Proxies
  BY <1>1, <1>8 DEF Proxies
<1>10. Intf(Running.mod, Arch, Running.port) \in Proxies
  BY <1>7, <1>9 DEF here
<1> QED
  BY <1>3, <1>4, <1>5, <1>10

\* A component added under one that is there
LEMMA Added ==
  ASSUME CompsOK, NEW x \in Comp, x.parent \in DOMAIN comps, comps' = Append(comps, x)
  PROVE  /\ CompsOK' /\ Len(comps') = Len(comps) + 1 /\ comps'[Len(comps) + 1] = x
         /\ \A c \in DOMAIN comps : c \in DOMAIN comps' /\ comps'[c] = comps[c]
<1>1. comps \in Seq(Comp) /\ Len(comps) \in Nat
  BY DEF CompsOK
<1>2. /\ comps' \in Seq(Comp) /\ Len(comps') = Len(comps) + 1 /\ comps'[Len(comps) + 1] = x
      /\ \A c \in DOMAIN comps : c \in DOMAIN comps' /\ comps'[c] = comps[c]
  BY <1>1
<1>3. ASSUME NEW c \in DOMAIN comps'
      PROVE  comps'[c].parent \in 0 .. c - 1
  <2>1. CASE c \in DOMAIN comps
    BY <1>2, <2>1 DEF CompsOK
  <2>2. CASE c \notin DOMAIN comps
    <3>1. c = Len(comps) + 1
      BY <1>1, <1>2, <2>2
    <3> QED
      BY <1>1, <1>2, <3>1
  <2> QED
    BY <2>1, <2>2
<1> QED
  BY <1>2, <1>3 DEF CompsOK

\* Architectures that are under way stay what they are when components are added.
LEMMA FramesStay ==
  ASSUME NEW g, FrameOK(comps, g),
         \A c \in DOMAIN comps : c \in DOMAIN comps' /\ comps'[c] = comps[c]
  PROVE  FrameOK(comps', g)
<1>1. g.mod \in DOMAIN comps' /\ comps'[g.mod] = comps[g.mod]
  BY DEF FrameOK
<1> QED
  BY <1>1 DEF FrameOK

\* The interfaces S are connected to the master mst: each of them is sourced from it, or
\* converted from it, and no other interface is touched.
LEMMA ConnectEffect ==
  ASSUME TablesOK, NEW S \in SUBSET Proxies, NEW mst \in Proxies, ConnToIntf(S, mst)
  PROVE  /\ src' \in [Proxies -> Proxies \cup {NoIntf}] /\ conv' \in [Proxies -> SUBSET Proxies]
         /\ \A i \in Proxies \ S : src'[i] = src[i] /\ conv'[i] = conv[i]
         /\ \A i \in S : \/ src'[i] = mst /\ conv'[i] = conv[i]
                         \/ src'[i] = src[i] /\ conv'[i] = conv[i] \cup {mst}
<1> DEFINE C == { i \in S : ~IntfEq(i, mst) }
<1>1. /\ src' = [i \in Proxies |-> IF i \in S \ C THEN mst ELSE src[i]]
      /\ conv' = [i \in Proxies |-> IF i \in C THEN conv[i] \cup {mst} ELSE conv[i]]
  BY DEF ConnToIntf
<1>2. C \subseteq S
  OBVIOUS
<1> HIDE DEF C
<1>3. src' \in [Proxies -> Proxies \cup {NoIntf}] /\ conv' \in [Proxies -> SUBSET Proxies]
  BY <1>1, <1>2 DEF TablesOK
<1>4. \A i \in Proxies \ S : src'[i] = src[i] /\ conv'[i] = conv[i]
  BY <1>1, <1>2
<1>5. \A i \in S : \/ src'[i] = mst /\ conv'[i] = conv[i]
                   \/ src'[i] = src[i] /\ conv'[i] = conv[i] \cup {mst}
  <2> TAKE i \in S
  <2>1. i \in Proxies
    OBVIOUS
  <2>2. /\ src'[i] = IF i \in S \ C THEN mst ELSE src[i]
        /\ conv'[i] = IF i \in C THEN conv[i] \cup {mst} ELSE conv[i]
    BY <1>1, <2>1
  <2> QED
    BY <2>2
<1> QED
  BY <1>3, <1>4, <1>5

\* An interface that is new to the channel c registers with it.
LEMMA Registered ==
  ASSUME TablesOK, Served, NEW i \in Proxies, NEW side \in Sides, NEW c \in Ids,
         chan[i][side] = 0, chan' = [chan EXCEPT ![i][side] = c], Register(i, side, c)
  PROVE  /\ TablesOK' /\ Served'
         /\ \A d \in Ids : masterOf'[d] = masterOf[d] \/ (d = c /\ masterOf'[d] # NoIntf)
<1>1. chan' \in [Proxies -> [Sides -> 0 .. MaxComps]] /\ c # 0
      /\ \A j \in Proxies : chan'[j]["slave"] = IF j = i /\ side = "slave" THEN c ELSE chan[j]["slave"]
  <2>1. c \in 1 .. MaxComps /\ chan \in [Proxies -> [Sides -> 0 .. MaxComps]] /\ MaxComps \in Nat
    BY ClassFacts DEF TablesOK
  <2>2. c \in 0 .. MaxComps /\ c # 0
    BY <2>1
  <2>3. chan' \in [Proxies -> [Sides -> 0 .. MaxComps]]
    BY <2>1, <2>2
  <2> QED
    BY <2>1, <2>2, <2>3 DEF Sides
<1>2. CASE side = "slave"
  <2>1. /\ slavesOf' = [slavesOf EXCEPT ![c] = Append(@, i)] /\ UNCHANGED <<masterOf, raised>>
        /\ IF masterOf[c] # NoIntf THEN ConnToIntf({i}, masterOf[c]) ELSE Unconnected
    BY <1>2 DEF Register
  <2>2. /\ slavesOf' \in [Ids -> Seq(Proxies)]
        /\ \A d \in Ids : d # c => slavesOf'[d] = slavesOf[d]
        /\ slavesOf'[c] = Append(slavesOf[c], i)
    BY <2>1 DEF TablesOK
  <2>3. \A s \in DOMAIN slavesOf'[c] : \/ s \in DOMAIN slavesOf[c] /\ slavesOf'[c][s] = slavesOf[c][s]
                                     \/ slavesOf'[c][s] = i
    BY <2>2 DEF TablesOK
  <2>4. src[i] = NoIntf /\ conv[i] = {}
    BY <1>2 DEF Served
  <2>5. \A d \in Ids : \A s \in DOMAIN slavesOf[d] : slavesOf[d][s] # i /\ slavesOf[d][s] \in Proxies
    <3> SUFFICES ASSUME NEW d \in Ids, NEW s \in DOMAIN slavesOf[d]
                 PROVE  slavesOf[d][s] # i /\ slavesOf[d][s] \in Proxies
      OBVIOUS
    <3>1. slavesOf[d] \in Seq(Proxies)
      BY DEF TablesOK
    <3>2. slavesOf[d][s] \in Proxies
      BY <3>1, ElementOf
    <3>3. chan[slavesOf[d][s]]["slave"] = d
      BY DEF Served
    <3>4. d # 0
      BY ClassFacts
    <3> QED
      BY <1>2, <3>2, <3>3, <3>4
  <2>6. /\ src' \in [Proxies -> Proxies \cup {NoIntf}] /\ conv' \in [Proxies -> SUBSET Proxies]
        /\ \A j \in Proxies \ {i} : src'[j] = src[j] /\ conv'[j] = conv[j]
        /\ RightSource(i, masterOf[c], src', conv')
    <3>1. CASE masterOf[c] = NoIntf
      BY <2>1, <2>4, <3>1 DEF Unconnected, TablesOK, RightSource
    <3>2. CASE masterOf[c] # NoIntf
      <4>1. masterOf[c] \in Proxies /\ ConnToIntf({i}, masterOf[c])
        BY <2>1, <3>2 DEF TablesOK
      <4>2. /\ src' \in [Proxies -> Proxies \cup {NoIntf}] /\ conv' \in [Proxies -> SUBSET Proxies]
            /\ \A j \in Proxies \ {i} : src'[j] = src[j] /\ conv'[j] = conv[j]
            /\ \A j \in {i} : \/ src'[j] = masterOf[c] /\ conv'[j] = conv[j]
                              \/ src'[j] = src[j] /\ conv'[j] = conv[j] \cup {masterOf[c]}
        BY <4>1, ConnectEffect
      <4> QED
        BY <2>4, <3>2, <4>2 DEF RightSource
    <3> QED
      BY <3>1, <3>2
  <2>7. TablesOK'
    BY <1>1, <2>1, <2>2, <2>6 DEF TablesOK
  <2>8. ASSUME NEW d \in Ids, NEW s \in DOMAIN slavesOf'[d]
        PROVE  /\ chan'[slavesOf'[d][s]]["slave"] = d
               /\ RightSource(slavesOf'[d][s], masterOf'[d], src', conv')
    <3>1. CASE s \in DOMAIN slavesOf[d] /\ slavesOf'[d][s] = slavesOf[d][s]
      <4>1. slavesOf[d][s] # i /\ slavesOf[d][s] \in Proxies
        BY <2>5, <3>1
      <4>2. RightSource(slavesOf[d][s], masterOf[d], src, conv)
        BY <3>1, ServedAs DEF Served
      <4>3. chan[slavesOf[d][s]]["slave"] = d
        BY <3>1 DEF Served
      <4> DEFINE j == slavesOf[d][s]
      <4>4. /\ j \in Proxies \ {i} /\ slavesOf'[d][s] = j /\ masterOf'[d] = masterOf[d]
            /\ RightSource(j, masterOf[d], src, conv) /\ chan[j]["slave"] = d
        BY <2>1, <3>1, <4>1, <4>2, <4>3
      <4> HIDE DEF j
      <4>5. src'[j] = src[j] /\ conv'[j] = conv[j] /\ chan'[j]["slave"] = d
        BY <1>1, <2>6, <4>4
      <4> QED
        BY <4>4, <4>5 DEF RightSource
    <3>2. CASE d = c /\ slavesOf'[d][s] = i
      BY <1>1, <1>2, <2>1, <2>6, <3>2
    <3> QED
      BY <2>2, <2>3, <3>1, <3>2
  <2>9. \A j \in Proxies : chan'[j]["slave"] = 0 => src'[j] = NoIntf /\ conv'[j] = {}
    BY <1>1, <1>2, <2>6 DEF Served
  <2> QED
    BY <2>1, <2>7, <2>8, <2>9, ServedAs DEF Served
<1>3. CASE side = "master" /\ masterOf[c] # NoIntf
  <2>1. raised' = TRUE /\ UNCHANGED <<masterOf, slavesOf, src, conv, current>>
    BY <1>3 DEF Register, Unconnected
  <2> QED
    BY <1>1, <1>3, <2>1 DEF TablesOK, Served, EverySlaveServed
<1>4. CASE side = "master" /\ masterOf[c] = NoIntf
  <2> DEFINE S == { s \in Waiting(c) : src[s] = NoIntf }
  <2>1. masterOf' = [masterOf EXCEPT ![c] = i] /\ ConnToIntf(S, i) /\ UNCHANGED <<slavesOf, raised>>
    BY <1>4 DEF Register
  <2>2. S \in SUBSET Proxies /\ \A s \in DOMAIN slavesOf[c] : slavesOf[c][s] \in S
    BY <1>4, ElementOf DEF Waiting, TablesOK, Served, EverySlaveServed
  <2>3. \A j \in S : chan[j]["slave"] = c /\ src[j] = NoIntf /\ conv[j] = {}
    BY <1>4 DEF Waiting, Served, EverySlaveServed
  <2> HIDE DEF S
  <2>4. /\ src' \in [Proxies -> Proxies \cup {NoIntf}] /\ conv' \in [Proxies -> SUBSET Proxies]
        /\ \A j \in Proxies \ S : src'[j] = src[j] /\ conv'[j] = conv[j]
        /\ \A j \in S : \/ src'[j] = i /\ conv'[j] = {}
                        \/ src'[j] = NoIntf /\ conv'[j] = {i}
    <3>1. /\ src' \in [Proxies -> Proxies \cup {NoIntf}] /\ conv' \in [Proxies -> SUBSET Proxies]
          /\ \A j \in Proxies \ S : src'[j] = src[j] /\ conv'[j] = conv[j]
          /\ \A j \in S : \/ src'[j] = i /\ conv'[j] = conv[j]
                          \/ src'[j] = src[j] /\ conv'[j] = conv[j] \cup {i}
      BY <2>1, <2>2, ConnectEffect
    <3> QED
      BY <2>3, <3>1
  <2>5. TablesOK'
    <3>1. masterOf' \in [Ids -> Proxies \cup {NoIntf}]
      BY <2>1 DEF TablesOK
    <3>2. slavesOf' = slavesOf /\ raised' = raised
      BY <2>1
    <3> QED
      BY <1>1, <2>4, <3>1, <3>2 DEF TablesOK
  <2>6. ASSUME NEW d \in Ids, NEW s \in DOMAIN slavesOf[d]
        PROVE  RightSource(slavesOf[d][s], masterOf'[d], src', conv')
    <3>1. CASE d = c
      <4>1. slavesOf[d][s] \in S /\ masterOf'[d] = i /\ i # NoIntf
        BY <2>1, <2>2, <3>1, NoIntfIsNone DEF TablesOK
      <4> QED
        BY <2>4, <4>1 DEF RightSource
    <3>2. CASE d # c
      <4> DEFINE j == slavesOf[d][s]
      <4>1. j \in Proxies /\ masterOf'[d] = masterOf[d]
        BY <2>1, <3>2, ElementOf DEF TablesOK
      <4>2. chan[j]["slave"] = d /\ RightSource(j, masterOf[d], src, conv)
        BY ServedAs DEF Served
      <4> HIDE DEF j
      <4>3. src'[j] = src[j] /\ conv'[j] = conv[j]
        BY <2>3, <2>4, <3>2, <4>1, <4>2
      <4>4. RightSource(j, masterOf'[d], src', conv')
        BY <4>1, <4>2, <4>3 DEF RightSource
      <4> QED
        BY <4>4 DEF j
    <3> QED
      BY <3>1, <3>2
  <2>7. \A j \in Proxies : chan'[j]["slave"] = 0 => src'[j] = NoIntf /\ conv'[j] = {}
    BY <1>1, <1>4, <2>3, <2>4 DEF Served
  <2>8. \A d \in Ids : \A s \in DOMAIN slavesOf[d] : chan'[slavesOf[d][s]]["slave"] = d
    BY <1>1, <1>4, ElementOf DEF Served, TablesOK
  <2>9. \A d \in Ids : masterOf'[d] = masterOf[d] \/ (d = c /\ masterOf'[d] # NoIntf)
    BY <2>1, NoIntfIsNone DEF TablesOK
  <2> QED
    BY <2>1, <2>5, <2>6, <2>7, <2>8, <2>9, ServedAs DEF Served
<1> QED
  BY <1>2, <1>3, <1>4 DEF Sides

\* The architecture under way goes on as g.
LEMMA ReplacedOK ==
  ASSUME StackOK, stack # <<>>, NEW g \in Frames, g.mod = Running.mod,
         stack' = Replaced(g), FrameOK(comps', g),
         \A c \in DOMAIN comps : c \in DOMAIN comps' /\ comps'[c] = comps[c]
  PROVE  StackOK'
<1> DEFINE n == Len(stack)
<1>1. stack \in Seq(Frames) /\ n \in DOMAIN stack /\ stack' = [stack EXCEPT ![n] = g]
  BY DEF StackOK, Replaced
<1>2. /\ stack' \in Seq(Frames) /\ DOMAIN stack' = DOMAIN stack /\ stack'[n] = g
      /\ \A s \in DOMAIN stack : s # n => stack'[s] = stack[s]
  BY <1>1
<1>3. \A s \in DOMAIN stack : stack'[s].mod = stack[s].mod
  BY <1>1, <1>2 DEF Running
<1>4. \A s \in DOMAIN stack' : FrameOK(comps', stack'[s])
  BY <1>2, FramesStay DEF StackOK
<1>5. \A s \in DOMAIN stack' : s > 1 => comps'[stack'[s].mod].parent = stack'[s - 1].mod
  <2> SUFFICES ASSUME NEW s \in DOMAIN stack, s > 1
               PROVE  comps'[stack'[s].mod].parent = stack'[s - 1].mod
    BY <1>2
  <2>1. s - 1 \in DOMAIN stack /\ stack[s].mod \in DOMAIN comps
    BY <1>1 DEF StackOK, FrameOK
  <2> QED
    BY <1>3, <2>1 DEF StackOK
<1> QED
  BY <1>2, <1>4, <1>5 DEF StackOK

LEMMA InstStep ==
  ASSUME TypeInv, Served, Inst
  PROVE  TypeInv' /\ Served'
<1>1. PICK c \in Kids[Class], n \in ModNames :
        \E conf \in [DOMAIN Ports[c] -> UNION { Confs[c][k] : k \in DOMAIN Ports[c] }] :
          /\ Len(comps) + 1 + Len(Ports[c]) * Len(Archs[c]) <= MaxComps
          /\ \A k \in DOMAIN conf : conf[k] \in Confs[c][k]
          /\ comps' = Append(comps, [parent |-> Holder, name |-> ModuleName(n),
                                     kind |-> "module", cls |-> c])
          /\ stack' = Append(stack, Frame(Len(comps) + 1, conf))
          /\ current' = [current EXCEPT ![Len(comps) + 1] = [arch |-> Archs[c][1], active |-> TRUE]]
  BY DEF Inst
<1>2. PICK conf \in [DOMAIN Ports[c] -> UNION { Confs[c][k] : k \in DOMAIN Ports[c] }] :
        /\ Len(comps) + 1 + Len(Ports[c]) * Len(Archs[c]) <= MaxComps
        /\ \A k \in DOMAIN conf : conf[k] \in Confs[c][k]
        /\ comps' = Append(comps, [parent |-> Holder, name |-> ModuleName(n),
                                   kind |-> "module", cls |-> c])
        /\ stack' = Append(stack, Frame(Len(comps) + 1, conf))
        /\ current' = [current EXCEPT ![Len(comps) + 1] = [arch |-> Archs[c][1], active |-> TRUE]]
  BY <1>1
<1>3. stack # <<>> /\ UNCHANGED <<owner, chan, src, conv, masterOf, slavesOf, raised>>
  BY DEF Inst
<1>4. Class \in Classes /\ Running.mod \in DOMAIN comps /\ Len(stack) \in DOMAIN stack
  BY <1>3, RunningOK DEF FrameOK
<1>5. /\ c \in Classes /\ Archs[c] \in Seq(STRING) /\ Len(Archs[c]) \in Nat \ {0}
      /\ Ports[c] \in Seq([side : Sides, shared : BOOLEAN])
      /\ \A k \in DOMAIN Ports[c] : Confs[c][k] \subseteq PortName
  BY <1>4, ClassFacts
<1> DEFINE m == Len(comps) + 1
           x == [parent |-> Holder, name |-> ModuleName(n), kind |-> "module", cls |-> c]
           g == Frame(m, conf)
<1>6. x \in Comp /\ x.parent \in DOMAIN comps /\ x.cls = c /\ x.parent = Running.mod
  <2>1. ModuleName(n) \in Name
    <3>1. n \in Word /\ "" \in Word
      BY ElaborationAssumption DEF ElaborationAssumption, Word
    <3>2. <<n>> \in Seq(Word)
      BY <3>1, Single
    <3> QED
      BY <3>1, <3>2 DEF Name, ModuleName
  <2>2. Holder \in Nat
    BY <1>4 DEF Holder, TypeInv, CompsOK
  <2> QED
    BY <1>4, <1>5, <2>1, <2>2 DEF Comp, Holder
<1> HIDE DEF x
<1>7. /\ CompsOK' /\ Len(comps') = m /\ comps'[m] = x
      /\ \A d \in DOMAIN comps : d \in DOMAIN comps' /\ comps'[d] = comps[d]
  BY <1>2, <1>6, Added DEF TypeInv, x
<1>8. m \in Ids /\ m \in DOMAIN comps' /\ Len(comps) \in Nat
  <2>1. Len(Ports[c]) * Len(Archs[c]) \in Nat
    BY <1>5, Product, Len(Ports[c]) \in Nat, Len(Archs[c]) \in Nat
  <2>2. Len(comps) \in Nat /\ Len(comps') \in Nat /\ MaxComps \in Nat
    BY <1>7, ClassFacts DEF TypeInv, CompsOK
  <2> DEFINE k == Len(Ports[c]) * Len(Archs[c])
  <2>3. m + k <= MaxComps /\ k \in Nat
    BY <1>2, <2>1
  <2> HIDE DEF k
  <2>4. m <= MaxComps
    BY <2>2, <2>3
  <2> QED
    BY <1>7, <2>2, <2>4, ClassFacts DEF CompsOK
<1>9. g \in Frames /\ g.mod = m /\ FrameOK(comps', g)
  <2>1. \A k \in DOMAIN Ports[c] : conf[k] \in PortName
    BY <1>2, <1>5
  <2>2. conf \in Given
    BY <1>5, <2>1 DEF Given
  <2>3. g \in Frames
    BY <1>8, <2>2 DEF Frame, Frames
  <2>4. g.mod = m /\ g.arch = 1 /\ g.port = 1 /\ g.conf = conf
    BY DEF Frame
  <2>5. 1 \in DOMAIN Archs[c] /\ 1 \in 1 .. Len(Ports[c]) + 1
    BY <1>5
  <2> HIDE DEF g
  <2> QED
    BY <1>6, <1>7, <1>8, <2>1, <2>3, <2>4, <2>5 DEF FrameOK
<1>10. StackOK'
  <2> DEFINE l == Len(stack)
  <2>1. stack \in Seq(Frames) /\ l \in Nat /\ l \in DOMAIN stack
    BY <1>4 DEF TypeInv, StackOK
  <2> HIDE DEF g
  <2>2. /\ stack' \in Seq(Frames) /\ DOMAIN stack' = 1 .. l + 1 /\ stack'[l + 1] = g
        /\ \A s \in 1 .. l : stack'[s] = stack[s] /\ s \in DOMAIN stack
    BY <1>2, <1>9, <2>1 DEF g
  <2>3. ASSUME NEW s \in DOMAIN stack'
        PROVE  FrameOK(comps', stack'[s])
    <3>1. CASE s = l + 1
      BY <1>9, <2>2, <3>1
    <3>2. CASE s # l + 1
      BY <1>7, <2>1, <2>2, <3>2, FramesStay DEF TypeInv, StackOK
    <3> QED
      BY <3>1, <3>2
  <2>4. ASSUME NEW s \in DOMAIN stack', s > 1
        PROVE  comps'[stack'[s].mod].parent = stack'[s - 1].mod
    <3>1. CASE s = l + 1
      <4>1. stack'[s].mod = m /\ stack'[s - 1] = Running
        BY <1>9, <2>1, <2>2, <3>1 DEF Running
      <4> QED
        BY <1>6, <1>7, <4>1
    <3>2. CASE s # l + 1
      <4>1. s \in DOMAIN stack /\ s - 1 \in 1 .. l /\ stack'[s] = stack[s] /\ stack'[s - 1] = stack[s - 1]
        BY <2>1, <2>2, <2>4, <3>2
      <4>2. stack[s].mod \in DOMAIN comps /\ comps[stack[s].mod].parent = stack[s - 1].mod
        BY <2>4, <4>1 DEF TypeInv, StackOK, FrameOK
      <4> QED
        BY <1>7, <4>1, <4>2
    <3> QED
      BY <3>1, <3>2
  <2> QED
    BY <2>2, <2>3, <2>4 DEF StackOK
<1>11. CurrentOK'
  <2>1. Archs[c][1] \in Word
    BY <1>5, ElementOf, 1 \in DOMAIN Archs[c] DEF Word
  <2> QED
    BY <1>2, <2>1 DEF TypeInv, CurrentOK
<1>12. TablesOK' /\ Served'
  BY <1>3 DEF TypeInv, TablesOK, Served, EverySlaveServed
<1>13. OwnersOK' /\ MastersOK'
  BY <1>3, <1>7, <1>8 DEF TypeInv, OwnersOK, MastersOK
<1> QED
  BY <1>7, <1>8, <1>10, <1>11, <1>12, <1>13, ClassFacts DEF TypeInv

LEMMA StartStep ==
  ASSUME TypeInv, Served, StartArch
  PROVE  TypeInv' /\ Served'
<1>1. /\ stack # <<>> /\ stack' = Replaced([Running EXCEPT !.body = TRUE])
      /\ UNCHANGED <<comps, current, owner, chan, src, conv, masterOf, slavesOf, raised>>
  BY DEF StartArch
<1> DEFINE g == [Running EXCEPT !.body = TRUE]
<1>2. /\ g \in Frames /\ g.mod = Running.mod /\ g.arch = Running.arch /\ g.port = Running.port
      /\ g.conf = Running.conf
  BY <1>1, RunningOK DEF Frames
<1> HIDE DEF g
<1>3. FrameOK(comps', g)
  BY <1>1, <1>2, RunningOK DEF FrameOK
<1>4. StackOK'
  BY <1>1, <1>2, <1>3, ReplacedOK DEF TypeInv, g
<1> QED
  BY <1>1, <1>4 DEF TypeInv, CompsOK, TablesOK, CurrentOK, OwnersOK, MastersOK, Served, EverySlaveServed

LEMMA ReturnStep ==
  ASSUME TypeInv, Served, Return
  PROVE  TypeInv' /\ Served'
<1>1. stack # <<>> /\ UNCHANGED <<comps, owner, chan, src, conv, masterOf, slavesOf, raised>>
  BY DEF Return
<1>2. /\ Running \in Frames /\ FrameOK(comps, Running) /\ Class \in Classes /\ Running.mod \in Ids
      /\ Running.arch \in DOMAIN Archs[Class] /\ Class = comps[Running.mod].cls
      /\ Archs[Class] \in Seq(STRING)
  BY <1>1, RunningOK, ClassFacts DEF Class
<1>3. StackOK' /\ CurrentOK'
  <2>1. CASE Running.arch < Len(Archs[Class])
    <3> DEFINE g == [Frame(Running.mod, Running.conf) EXCEPT !.arch = Running.arch + 1]
    <3>1. /\ stack' = Replaced(g)
          /\ current' = [current EXCEPT ![Running.mod] =
                           [arch |-> Archs[Class][Running.arch + 1], active |-> FALSE]]
      BY <2>1 DEF Return
    <3>2. Running.arch + 1 \in DOMAIN Archs[Class] /\ Running.arch + 1 \in Nat
      BY <1>2, <2>1
    <3>3. /\ g \in Frames /\ g.mod = Running.mod /\ g.arch = Running.arch + 1 /\ g.port = 1
          /\ g.conf = Running.conf
      BY <1>2, <3>2 DEF Frame, Frames
    <3> HIDE DEF g
    <3>4. FrameOK(comps', g)
      <4>1. 1 \in 1 .. Len(Ports[Class]) + 1
        BY <1>2, ClassFacts
      <4> QED
        BY <1>1, <1>2, <3>2, <3>3, <4>1 DEF FrameOK
    <3>5. StackOK'
      BY <1>1, <3>1, <3>3, <3>4, ReplacedOK DEF TypeInv
    <3>6. Archs[Class][Running.arch + 1] \in Word
      BY <1>2, <3>2, ElementOf DEF Word
    <3>7. CurrentOK'
      BY <3>1, <3>6 DEF TypeInv, CurrentOK
    <3> QED
      BY <3>5, <3>7
  <2>2. CASE ~ (Running.arch < Len(Archs[Class]))
    <3>1. stack' = SubSeq(stack, 1, Len(stack) - 1) /\ UNCHANGED current
      BY <2>2 DEF Return
    <3>2. stack \in Seq(Frames)
      BY DEF TypeInv, StackOK
    <3>3. /\ stack' \in Seq(Frames) /\ DOMAIN stack' = 1 .. Len(stack) - 1
          /\ \A s \in DOMAIN stack' : s \in DOMAIN stack /\ stack'[s] = stack[s]
      BY <1>1, <3>1, <3>2
    <3>4. \A s \in DOMAIN stack' : s > 1 => s - 1 \in DOMAIN stack'
      BY <3>2, <3>3
    <3> QED
      BY <1>1, <3>1, <3>3, <3>4 DEF TypeInv, StackOK, CurrentOK
  <2> QED
    BY <2>1, <2>2
<1> QED
  BY <1>1, <1>3 DEF TypeInv, CompsOK, TablesOK, OwnersOK, MastersOK, Served, EverySlaveServed

\* What registering makes of the current architectures
LEMMA RegisterCurrent ==
  ASSUME CurrentOK, NEW i, NEW side, NEW c, Register(i, side, c)
  PROVE  CurrentOK'
<1>1. \/ UNCHANGED current
      \/ \E S : \E mst : ConnToIntf(S, mst)
  BY DEF Register, Unconnected
<1>2. ASSUME NEW S, NEW mst, ConnToIntf(S, mst)
      PROVE  CurrentOK'
  <2> DEFINE C == { j \in S : ~IntfEq(j, mst) }
  <2>1. current' = [m \in Ids |-> IF \E j \in C : owner'[j] = m
                                  THEN [arch |-> "conv", active |-> TRUE] ELSE current[m]]
    BY <1>2 DEF ConnToIntf
  <2> HIDE DEF C
  <2> QED
    BY <2>1 DEF CurrentOK, Word
<1> QED
  BY <1>1, <1>2 DEF CurrentOK

\* The channel that a port is connected to is a component already, or one that is made.
LEMMA ConnectStep ==
  ASSUME TypeInv, Served, ConnectPort
  PROVE  TypeInv' /\ Served'
<1> DEFINE i    == Intf(Running.mod, Arch, Running.port)
           side == Ports[Class][Running.port].side
           x    == Running.conf[Running.port]
           m    == owner'[i]
           tag  == TagOf(m, side)
           hit  == Find(m, x, tag)
           c    == IF hit.rest = <<>> THEN hit.comp ELSE Len(comps) + 1
           ch   == [parent |-> hit.comp, cls |-> Top, kind |-> "channel",
                    name |-> [segs |-> hit.rest, tag |-> tag]]
           Kept == UNCHANGED <<comps, chan, masterOf, slavesOf, src, conv, pops, current>>
<1>1. /\ stack # <<>> /\ Running.port <= Len(Ports[Class]) /\ c <= MaxComps
      /\ stack' = Replaced([Running EXCEPT !.port = @ + 1])
      /\ owner' = [owner EXCEPT ![i] = IF @ = 0 THEN Running.mod ELSE @]
      /\ \/ chan[i][side] # 0 /\ Kept /\ UNCHANGED raised
         \/ chan[i][side] = 0 /\ From(m, x) = 0 /\ Kept /\ raised' = TRUE
         \/ /\ chan[i][side] = 0 /\ From(m, x) # 0
            /\ comps' = IF hit.rest = <<>> THEN comps ELSE Append(comps, ch)
            /\ chan' = [chan EXCEPT ![i][side] = c]
            /\ IF comps'[c].kind = "channel" THEN Register(i, side, c)
               ELSE raised' = TRUE /\ Unconnected /\ UNCHANGED <<masterOf, slavesOf>>
  BY Zenon DEF ConnectPort, Unconnected
<1>2. /\ Running \in Frames /\ FrameOK(comps, Running) /\ Class \in Classes /\ Running.mod \in Ids
      /\ Running.mod \in DOMAIN comps /\ Class = comps[Running.mod].cls
      /\ Ports[Class] \in Seq([side : Sides, shared : BOOLEAN])
  BY <1>1, RunningOK, ClassFacts DEF Class, FrameOK
<1>3. i \in Proxies /\ side \in Sides /\ x \in PortName /\ Running.port \in DOMAIN Ports[Class]
  BY <1>1, PortTyped
<1>4. CompsOK /\ Len(comps) \in 1 .. MaxComps /\ DOMAIN comps = 1 .. Len(comps) /\ MaxComps \in Nat
  BY ClassFacts DEF TypeInv, CompsOK
<1> HIDE DEF i, side, x
<1>5. owner' \in [Proxies -> 0 .. Len(comps)] /\ m \in DOMAIN comps
  BY <1>1, <1>2, <1>3, <1>4 DEF TypeInv, OwnersOK
<1>6. tag \in Word
  <2>1. current[m].arch \in Word
    BY <1>4, <1>5, ClassFacts DEF TypeInv, CurrentOK
  <2> QED
    BY <2>1 DEF TagOf, Word
<1> HIDE DEF m, tag
\* The running architecture goes on with its next port, whatever becomes of the others.
<1>7. ASSUME \A d \in DOMAIN comps : d \in DOMAIN comps' /\ comps'[d] = comps[d]
      PROVE  StackOK'
  <2> DEFINE g == [Running EXCEPT !.port = @ + 1]
  <2>1. /\ g \in Frames /\ g.mod = Running.mod /\ g.arch = Running.arch
        /\ g.port = Running.port + 1 /\ g.conf = Running.conf
    BY <1>2 DEF Frames
  <2> HIDE DEF g
  <2>2. FrameOK(comps, g)
    <3>1. g.port \in 1 .. Len(Ports[Class]) + 1
      BY <1>2, <1>3, <2>1
    <3> QED
      BY <1>2, <2>1, <3>1 DEF FrameOK
  <2>3. FrameOK(comps', g)
    BY <1>7, <2>2, FramesStay
  <2> QED
    BY <1>1, <1>7, <2>1, <2>3, ReplacedOK DEF TypeInv, g
<1>8. ASSUME Kept, raised' \in BOOLEAN
      PROVE  TypeInv' /\ Served'
  <2>1. StackOK'
    BY <1>7, <1>8
  <2>2. OwnersOK'
    BY <1>5, <1>8 DEF OwnersOK
  <2> QED
    BY <1>8, <2>1, <2>2 DEF TypeInv, CompsOK, TablesOK, CurrentOK, MastersOK, Served, EverySlaveServed
<1>9. CASE chan[i][side] # 0 /\ Kept /\ UNCHANGED raised
  BY <1>8, <1>9 DEF TypeInv, TablesOK
<1>10. CASE chan[i][side] = 0 /\ From(m, x) = 0 /\ Kept /\ raised' = TRUE
  BY <1>8, <1>10
<1>11. CASE /\ chan[i][side] = 0 /\ From(m, x) # 0
            /\ comps' = IF hit.rest = <<>> THEN comps ELSE Append(comps, ch)
            /\ chan' = [chan EXCEPT ![i][side] = c]
            /\ IF comps'[c].kind = "channel" THEN Register(i, side, c)
               ELSE raised' = TRUE /\ Unconnected /\ UNCHANGED <<masterOf, slavesOf>>
  <2>1. hit.comp \in DOMAIN comps /\ hit.rest \in Seq(Word)
    <3>1. From(m, x) \in DOMAIN comps
      <4>1. x.up + 1 \in Nat /\ m \in 0 .. Len(comps) /\ 1 \in DOMAIN comps
        BY <1>3, <1>4, <1>5 DEF PortName
      <4> DEFINE up == x.up + 1
      <4> HIDE DEF up
      <4>2. Climb(m, up) \in 0 .. Len(comps)
        BY <1>4, <4>1, ClimbTyped DEF up
      <4>3. From(m, x) = IF x.abs THEN 1 ELSE Climb(m, up)
        BY DEF From, up
      <4> QED
        BY <1>4, <1>11, <4>1, <4>2, <4>3
    <3>2. x.segs \in Seq(Word)
      <4>1. x.segs \in Seq(STRING) /\ STRING \subseteq Word
        BY <1>3 DEF PortName, Word
      <4> QED
        BY <4>1, SequencesOver
    <3>3. hit \in [comp : DOMAIN comps, rest : Seq(Word)]
      BY <1>4, <3>1, <3>2, DescendTyped DEF Find
    <3> QED
      BY <3>3
  <2> HIDE DEF hit
  <2>2. ch \in Comp /\ ch.parent \in DOMAIN comps /\ ch.kind = "channel"
    <3>1. [segs |-> hit.rest, tag |-> tag] \in Name
      BY <1>6, <2>1 DEF Name
    <3>2. hit.comp \in Nat
      BY <1>4, <2>1
    <3> QED
      BY <2>1, <3>1, <3>2, ClassFacts DEF Comp
  <2> HIDE DEF ch
  <2>3. /\ CompsOK' /\ c \in DOMAIN comps' /\ c \in Ids /\ Len(comps') \in 1 .. MaxComps
        /\ \A d \in DOMAIN comps : d \in DOMAIN comps' /\ comps'[d] = comps[d]
        /\ Len(comps') >= Len(comps)
    <3>1. CASE hit.rest = <<>>
      <4>1. comps' = comps /\ c = hit.comp
        BY <1>11, <3>1
      <4> QED
        BY <1>4, <2>1, <4>1, ClassFacts DEF CompsOK
    <3>2. CASE hit.rest # <<>>
      <4>1. comps' = Append(comps, ch) /\ c = Len(comps) + 1
        BY <1>11, <3>2
      <4>2. /\ CompsOK' /\ Len(comps') = Len(comps) + 1
            /\ \A d \in DOMAIN comps : d \in DOMAIN comps' /\ comps'[d] = comps[d]
        BY <1>4, <2>2, <4>1, Added
      <4>3. DOMAIN comps' = 1 .. Len(comps')
        BY <4>2 DEF CompsOK
      <4>4. Len(comps) + 1 <= MaxComps
        BY <1>1, <4>1
      <4>5. c \in DOMAIN comps' /\ c \in Ids
        BY <1>4, <4>1, <4>2, <4>3, <4>4, ClassFacts
      <4> QED
        BY <1>4, <4>2, <4>4, <4>5
    <3> QED
      BY <3>1, <3>2
  <2>4. StackOK' /\ OwnersOK'
    <3>1. owner' \in [Proxies -> 0 .. Len(comps')]
      BY <1>4, <1>5, <2>3
    <3> QED
      BY <1>7, <2>3, <3>1 DEF OwnersOK
  <2> HIDE DEF c
  <2>5. CASE comps'[c].kind = "channel"
    <3>1. Register(i, side, c) /\ chan' = [chan EXCEPT ![i][side] = c] /\ chan[i][side] = 0
      BY <1>11, <2>5
    <3>2. /\ TablesOK' /\ Served'
          /\ \A d \in Ids : masterOf'[d] = masterOf[d] \/ (d = c /\ masterOf'[d] # NoIntf)
      BY <1>3, <2>3, <3>1, Registered DEF TypeInv
    <3>3. MastersOK'
      <4> SUFFICES ASSUME NEW d \in Ids, masterOf'[d] # NoIntf
                   PROVE  d \in DOMAIN comps' /\ comps'[d].kind = "channel"
        BY DEF MastersOK
      <4>1. CASE d = c
        BY <2>3, <2>5, <4>1
      <4>2. CASE d # c
        BY <2>3, <3>2, <4>2 DEF TypeInv, MastersOK
      <4> QED
        BY <4>1, <4>2
    <3>4. CurrentOK'
      BY <3>1, RegisterCurrent DEF TypeInv
    <3> QED
      BY <2>3, <2>4, <3>2, <3>3, <3>4 DEF TypeInv
  <2>6. CASE comps'[c].kind # "channel"
    <3>1. /\ raised' = TRUE /\ UNCHANGED <<masterOf, slavesOf, src, conv, current>>
          /\ chan' = [chan EXCEPT ![i][side] = c]
      BY <1>11, <2>6 DEF Unconnected
    <3>2. /\ chan' \in [Proxies -> [Sides -> 0 .. MaxComps]] /\ c # 0
          /\ \A j \in Proxies : chan'[j]["slave"] = IF j = i /\ side = "slave" THEN c ELSE chan[j]["slave"]
      <4>1. chan \in [Proxies -> [Sides -> 0 .. MaxComps]] /\ c \in 1 .. MaxComps
        BY <2>3, ClassFacts DEF TypeInv, TablesOK
      <4> QED
        BY <1>3, <3>1, <4>1 DEF Sides
    <3>3. TablesOK' /\ CurrentOK'
      BY <3>1, <3>2 DEF TypeInv, TablesOK, CurrentOK
    <3>4. MastersOK'
      BY <2>3, <3>1 DEF TypeInv, MastersOK
    <3>5. Served'
      <4>1. \A d \in Ids : \A s \in DOMAIN slavesOf[d] : slavesOf[d][s] \in Proxies
        BY ElementOf DEF TypeInv, TablesOK
      <4>2. \A d \in Ids : \A s \in DOMAIN slavesOf'[d] : chan'[slavesOf'[d][s]]["slave"] = d
        BY <1>11, <3>1, <3>2, <4>1, ClassFacts DEF Served
      <4>3. \A j \in Proxies : chan'[j]["slave"] = 0 => src'[j] = NoIntf /\ conv'[j] = {}
        BY <3>1, <3>2 DEF Served
      <4>4. slavesOf' = slavesOf /\ masterOf' = masterOf /\ src' = src /\ conv' = conv
        BY <3>1
      <4>5. EverySlaveServed'
        BY <4>4, ServedStays DEF Served
      <4> QED
        BY <4>2, <4>3, <4>5 DEF Served
    <3> QED
      BY <2>3, <2>4, <3>3, <3>4, <3>5 DEF TypeInv
  <2> QED
    BY <2>5, <2>6
<1> QED
  BY <1>1, <1>9, <1>10, <1>11

LEMMA NextOK == TypeInv /\ Served /\ [ENext]_vars => TypeInv' /\ Served'
<1> SUFFICES ASSUME TypeInv, Served, [ENext]_vars
             PROVE  TypeInv' /\ Served'
  OBVIOUS
<1>1. CASE Inst
  BY <1>1, InstStep
<1>2. CASE StartArch
  BY <1>2, StartStep
<1>3. CASE Return
  BY <1>3, ReturnStep
<1>4. CASE ConnectPort
  BY <1>4, ConnectStep
<1>5. CASE UNCHANGED vars
  BY <1>5 DEF vars, TypeInv, CompsOK, StackOK, TablesOK, CurrentOK, OwnersOK, MastersOK, Served,
              EverySlaveServed
<1> QED
  BY <1>1, <1>2, <1>3, <1>4, <1>5 DEF ENext, Done

\* The components form a tree that grows from the top and never beyond its bound, the
\* architectures under way are a path down it, only channels have a master, and a slave is
\* in the list of the channel that it knows as its own: sydpy/_component.py,
\* sydpy/_channel.py and sydpy/_module.py, for every set of classes.
THEOREM ETypeCorrect == ESpec => []ETypeOK
<1>1. TypeInv /\ Served => ETypeOK
  BY DEF TypeInv, Served, CompsOK, StackOK, MastersOK, ETypeOK
<1> QED
  BY InitOK, NextOK, <1>1, PTL DEF ESpec

\* Whichever comes first, the master of a channel or a slave, the slave is connected to
\* the master, once, directly or by one conversion: Channel.register_proxy and
\* conn_to_intf, for every design and every order of elaboration.
THEOREM SlavesServed == ESpec => []EverySlaveServed
<1>1. Served => EverySlaveServed
  BY DEF Served
<1> QED
  BY InitOK, NextOK, <1>1, PTL DEF ESpec

-----------------------------------------------------------------------------
(* Wiring: the types *)
Bridge == Intfs \X Intfs \X {"convgen", "tlm_to_sig", "fifo"}
AllWires == [source : [Intfs -> Intfs \cup {None, Own}], bridges : SUBSET Bridge, raised : BOOLEAN]

-----------------------------------------------------------------------------
(* What a connection consists of *)

Sourcing(w, s, m) ==
  IF Dtype[s] = Dtype[m] THEN w.source[s] = m ELSE <<m, s, "convgen">> \in w.bridges

\* The slave s is connected to the master m in w.
Joined(w, s, m) ==
  /\ Kind[s] = "isig" /\ Kind[m] = "iseq" => Sourcing(w, s, Dout[m])
  /\ Kind[s] = "isig" /\ Kind[m] = "itlm" => <<m, s, "tlm_to_sig">> \in w.bridges
  /\ Kind[m] = "isig" => Sourcing(w, Input(s), m)
  /\ Kind[s] = "itlm" /\ Kind[m] = "itlm" => Dtype[s] # Dtype[m] /\ <<m, s, "convgen">> \in w.bridges
  /\ Kind[m] = "iseq" => Kind[s] = "isig"

LEMMA Kinds ==
  ASSUME NEW s \in Intfs
  PROVE  /\ Kind[s] \in {"isig", "itlm", "iseq"} /\ Input(s) \in Intfs
         /\ Kind[s] = "iseq" => Dout[s] \in Intfs
BY WiringAssumption DEF WiringAssumption, Input, Seqs

\* v has what w has, except that x may be sourced otherwise.
Extends(v, w, x) ==
  /\ \A j \in Intfs : j # x => v.source[j] = w.source[j]
  /\ w.bridges \subseteq v.bridges

\* SourceOrConvert sources s from m or makes a bridge, and disturbs nothing else.
LEMMA SourcingDone ==
  ASSUME NEW w \in AllWires, NEW s \in Intfs, NEW m \in Intfs
  PROVE  /\ SourceOrConvert(w, s, m) \in AllWires /\ SourceOrConvert(w, s, m).raised = w.raised
         /\ Sourcing(SourceOrConvert(w, s, m), s, m)
         /\ Extends(SourceOrConvert(w, s, m), w, s)
<1>1. CASE Dtype[s] = Dtype[m]
  BY <1>1 DEF SourceOrConvert, Sourcing, Extends, AllWires
<1>2. CASE Dtype[s] # Dtype[m]
  <2>1. <<m, s, "convgen">> \in Bridge
    BY DEF Bridge
  <2> QED
    BY <1>2, <2>1 DEF SourceOrConvert, Sourcing, Extends, AllWires
<1> QED
  BY <1>1, <1>2

\* Doing once more what is done changes nothing.
LEMMA SourcingTwice ==
  ASSUME NEW w \in AllWires, NEW s \in Intfs, NEW m \in Intfs, Sourcing(w, s, m)
  PROVE  SourceOrConvert(w, s, m) = w
<1>1. CASE Dtype[s] = Dtype[m]
  <2>1. [w.source EXCEPT ![s] = m] = w.source
    BY <1>1 DEF Sourcing, AllWires
  <2>2. SourceOrConvert(w, s, m) = [w EXCEPT !.source = w.source]
    BY <1>1, <2>1 DEF SourceOrConvert
  <2> QED
    BY <2>2 DEF AllWires
<1>2. CASE Dtype[s] # Dtype[m]
  <2>1. w.bridges \cup {<<m, s, "convgen">>} = w.bridges
    BY <1>2 DEF Sourcing
  <2>2. SourceOrConvert(w, s, m) = [w EXCEPT !.bridges = w.bridges]
    BY <1>2, <2>1 DEF SourceOrConvert
  <2> QED
    BY <2>2 DEF AllWires
<1> QED
  BY <1>1, <1>2

\* A call of _connect that does not raise joins the slave to the master, and disturbs
\* no interface but the one it sources.
LEMMA Connecting ==
  ASSUME NEW w \in AllWires, NEW s \in Intfs, NEW m \in Intfs
  PROVE  /\ Connect(w, s, m) \in AllWires
         /\ ~Connect(w, s, m).raised =>
              /\ ~w.raised /\ Joined(Connect(w, s, m), s, m)
              /\ Extends(Connect(w, s, m), w, Input(s))
<1>1. CASE w.raised
  BY <1>1 DEF Connect
<1>2. CASE ~w.raised /\ Kind[s] = "isig" /\ Kind[m] = "iseq"
  <2>1. Connect(w, s, m) = SourceOrConvert(w, s, Dout[m]) /\ Input(s) = s /\ Dout[m] \in Intfs
    BY <1>2, Kinds DEF Connect, Input
  <2> QED
    BY <1>2, <2>1, SourcingDone DEF Joined
<1>3. CASE ~w.raised /\ Kind[s] = "isig" /\ Kind[m] = "itlm"
  <2>1. Connect(w, s, m) = [w EXCEPT !.bridges = @ \cup {<<m, s, "tlm_to_sig">>}]
    BY <1>3 DEF Connect
  <2>2. <<m, s, "tlm_to_sig">> \in Bridge
    BY DEF Bridge
  <2> QED
    BY <1>3, <2>1, <2>2 DEF Joined, Extends, AllWires
<1>4. CASE ~w.raised /\ Kind[m] = "isig"
  <2>1. Connect(w, s, m) = SourceOrConvert(w, Input(s), m) /\ Input(s) \in Intfs
    BY <1>4, Kinds DEF Connect
  <2> QED
    BY <1>4, <2>1, SourcingDone DEF Joined
<1>5. CASE ~w.raised /\ Kind[s] = "iseq" /\ Kind[m] = "itlm"
  <2>1. Connect(w, s, m) = w
    BY <1>5 DEF Connect
  <2> QED
    BY <1>5, <2>1 DEF Joined, Extends
<1>6. CASE ~w.raised /\ Kind[s] = "itlm" /\ Kind[m] = "itlm" /\ Dtype[s] # Dtype[m]
  <2>1. Connect(w, s, m) = [w EXCEPT !.bridges = @ \cup {<<m, s, "convgen">>}]
    BY <1>6 DEF Connect
  <2>2. <<m, s, "convgen">> \in Bridge
    BY DEF Bridge
  <2> QED
    BY <1>6, <2>1, <2>2 DEF Joined, Extends, AllWires
<1>7. CASE \/ ~w.raised /\ Kind[s] # "isig" /\ Kind[m] = "iseq"
           \/ ~w.raised /\ Kind[s] = "itlm" /\ Kind[m] = "itlm" /\ Dtype[s] = Dtype[m]
  <2>1. Connect(w, s, m) = [w EXCEPT !.raised = TRUE]
    BY <1>7, Kinds DEF Connect
  <2> QED
    BY <2>1 DEF AllWires
<1> QED
  BY <1>1, <1>2, <1>3, <1>4, <1>5, <1>6, <1>7, Kinds

\* Connecting what is connected changes nothing.
LEMMA JoinedTwice ==
  ASSUME NEW w \in AllWires, ~w.raised, NEW s \in Intfs, NEW m \in Intfs, Joined(w, s, m)
  PROVE  Connect(w, s, m) = w
<1>1. CASE Kind[s] = "isig" /\ Kind[m] = "iseq"
  <2>1. Connect(w, s, m) = SourceOrConvert(w, s, Dout[m]) /\ Dout[m] \in Intfs
    BY <1>1, Kinds DEF Connect
  <2> QED
    BY <1>1, <2>1, SourcingTwice DEF Joined
<1>2. CASE Kind[s] = "isig" /\ Kind[m] = "itlm"
  <2>1. Connect(w, s, m) = [w EXCEPT !.bridges = @ \cup {<<m, s, "tlm_to_sig">>}]
    BY <1>2 DEF Connect
  <2>2. w.bridges \cup {<<m, s, "tlm_to_sig">>} = w.bridges
    BY <1>2 DEF Joined
  <2> QED
    BY <2>1, <2>2 DEF AllWires
<1>3. CASE Kind[m] = "isig"
  <2>1. Connect(w, s, m) = SourceOrConvert(w, Input(s), m) /\ Input(s) \in Intfs
    BY <1>3, Kinds DEF Connect
  <2> QED
    BY <1>3, <2>1, SourcingTwice DEF Joined
<1>4. CASE Kind[s] = "iseq" /\ Kind[m] = "itlm"
  BY <1>4 DEF Connect
<1>5. CASE Kind[s] = "itlm" /\ Kind[m] = "itlm"
  <2>1. Connect(w, s, m) = [w EXCEPT !.bridges = @ \cup {<<m, s, "convgen">>}]
    BY <1>5 DEF Connect, Joined
  <2>2. w.bridges \cup {<<m, s, "convgen">>} = w.bridges
    BY <1>5 DEF Joined
  <2> QED
    BY <2>1, <2>2 DEF AllWires
<1> QED
  BY <1>1, <1>2, <1>3, <1>4, <1>5, Kinds DEF Joined

\* What is joined stays so while its input is not sourced otherwise.
LEMMA StaysJoined ==
  ASSUME NEW w, NEW v, NEW s \in Intfs, NEW m, Joined(w, s, m),
         v.source[Input(s)] = w.source[Input(s)], w.bridges \subseteq v.bridges
  PROVE  Joined(v, s, m)
<1>1. \A n : Sourcing(w, Input(s), n) => Sourcing(v, Input(s), n)
  BY DEF Sourcing
<1>2. Kind[s] = "isig" => Input(s) = s
  BY DEF Input
<1> QED
  BY <1>1, <1>2 DEF Joined

-----------------------------------------------------------------------------
(* The invariant *)

WiringTypes ==
  /\ todo \subseteq Plan
  /\ slaves \in [Channels -> Seq(Intfs)]
  /\ master \in [Channels -> Intfs \cup {None}]
  /\ source \in [Intfs -> Intfs \cup {None, Own}]
  /\ bridges \subseteq Bridge

\* A slave is one that the plan drives, by a call that has been made.
Driven ==
  \A c \in Channels, k \in Nat : k \in DOMAIN slaves[c] => <<"drive", c, slaves[c][k]>> \in Plan \ todo

\* The slaves of a channel that has a master are connected to it.
AllJoined ==
  pc = "elaborate" =>
    \A c \in Channels : master[c] # None =>
      \A k \in DOMAIN slaves[c] : Joined(Wires, slaves[c][k], master[c])

LEMMA SlaveTyped ==
  ASSUME WiringTypes, NEW c \in Channels, NEW k \in DOMAIN slaves[c]
  PROVE  slaves[c][k] \in Intfs /\ k \in Nat
BY DEF WiringTypes

LEMMA WiresTyped == WiringTypes => Wires \in AllWires /\ ~Wires.raised
BY DEF WiringTypes, Wires, AllWires

\* Up to the slave k of the channel c they are joined to i in w, and only what they source
\* is sourced otherwise.
UpTo(w, k, c, i) ==
  /\ w \in AllWires
  /\ ~w.raised =>
       /\ \A l \in 1 .. k : Joined(w, slaves[c][l], i)
       /\ \A j \in Intfs : (\A l \in 1 .. k : Input(slaves[c][l]) # j) => w.source[j] = source[j]
       /\ bridges \subseteq w.bridges

\* One more slave of the channel is connected.
LEMMA OneMore ==
  ASSUME WiringTypes, Driven, OneDrive, NEW c \in Channels, NEW i \in Intfs,
         NEW k \in Nat, k + 1 \in DOMAIN slaves[c], NEW w, UpTo(w, k, c, i)
  PROVE  UpTo(Connect(w, slaves[c][k + 1], i), k + 1, c, i)
<1> DEFINE s == slaves[c][k + 1]
           v == Connect(w, s, i)
<1>1. s \in Intfs /\ w \in AllWires
  BY SlaveTyped DEF UpTo
<1> HIDE DEF s
<1>2. v \in AllWires /\ (~v.raised => ~w.raised /\ Joined(v, s, i) /\ Extends(v, w, Input(s)))
  BY <1>1, Connecting
<1> SUFFICES ASSUME ~v.raised
             PROVE  /\ \A l \in 1 .. k + 1 : Joined(v, slaves[c][l], i)
                    /\ \A j \in Intfs : (\A l \in 1 .. k + 1 : Input(slaves[c][l]) # j)
                                        => v.source[j] = source[j]
                    /\ bridges \subseteq v.bridges
  BY <1>2 DEF UpTo, s
<1> HIDE DEF v
<1>3. ASSUME NEW l \in 1 .. k
      PROVE  Joined(w, slaves[c][l], i) /\ l \in DOMAIN slaves[c]
  <2>1. slaves[c] \in Seq(Intfs)
    BY DEF WiringTypes
  <2>2. l \in DOMAIN slaves[c]
    BY <2>1
  <2> QED
    BY <1>2, <2>2 DEF UpTo
<1>4. ASSUME NEW l \in 1 .. k + 1
      PROVE  Joined(v, slaves[c][l], i)
  <2>1. CASE slaves[c][l] = s
    BY <1>2, <2>1
  <2>2. CASE slaves[c][l] # s
    <3>1. l \in 1 .. k
      BY <2>2 DEF s
    <3>2. slaves[c][l] \in Intfs /\ Joined(w, slaves[c][l], i)
      BY <1>3, <3>1, SlaveTyped
    <3>3. <<"drive", c, slaves[c][l]>> \in Plan /\ <<"drive", c, s>> \in Plan
      BY <1>3, <3>1 DEF Driven, s
    <3>4. Input(slaves[c][l]) # Input(s)
      BY <1>1, <2>2, <3>2, <3>3 DEF OneDrive
    <3>5. v.source[Input(slaves[c][l])] = w.source[Input(slaves[c][l])] /\ w.bridges \subseteq v.bridges
      BY <1>2, <3>2, <3>4, Kinds DEF Extends
    <3> QED
      BY <3>2, <3>5, StaysJoined
  <2> QED
    BY <2>1, <2>2
<1>5. ASSUME NEW j \in Intfs, \A l \in 1 .. k + 1 : Input(slaves[c][l]) # j
      PROVE  v.source[j] = source[j]
  <2>1. Input(s) # j
    BY <1>5 DEF s
  <2>2. v.source[j] = w.source[j]
    BY <1>2, <2>1 DEF Extends
  <2>3. w.source[j] = source[j]
    BY <1>2, <1>5 DEF UpTo
  <2> QED
    BY <2>2, <2>3
<1>6. bridges \subseteq v.bridges
  BY <1>2 DEF UpTo, Extends
<1> QED
  BY <1>4, <1>5, <1>6

\* SinkConnects goes through the slaves of its channel in order.
LEMMA SinkUnrolled ==
  ASSUME WiringTypes, NEW c \in Channels, NEW i \in Intfs
  PROVE  \E wired : /\ wired[0] = Wires
                    /\ \A k \in 1 .. Len(slaves[c]) : wired[k] = Connect(wired[k - 1], slaves[c][k], i)
                    /\ SinkConnects(c, i) = wired[Len(slaves[c])]
<1> DEFINE n     == Len(slaves[c])
           V     == AllWires
           step  == [k \in 1 .. n |-> [w \in V |-> Connect(w, slaves[c][k], i)]]
           first == Wires
           Is(f) == f = [k \in 0 .. n |-> IF k = 0 THEN Wires ELSE Connect(f[k - 1], slaves[c][k], i)]
           wired == CHOOSE f : Is(f)
<1>1. n \in Nat /\ DOMAIN slaves[c] = 1 .. n /\ first \in V
  BY WiresTyped DEF WiringTypes
<1> HIDE DEF n
<1>2. \A k \in 1 .. n, w \in V : Connect(w, slaves[c][k], i) \in V
  BY <1>1, SlaveTyped, Connecting
<1> HIDE DEF V, first
<1>3. /\ step \in [1 .. n -> [V -> V]]
      /\ \A k \in 1 .. n, w \in V : step[k][w] = Connect(w, slaves[c][k], i)
  BY <1>2
<1> HIDE DEF step
<1>4. PICK f \in [0 .. n -> V] : Computes(f, n, first, step)
  BY <1>1, <1>3, Recursion
<1>5. \A k \in 0 .. n : f[k] = IF k = 0 THEN Wires ELSE Connect(f[k - 1], slaves[c][k], i)
  <2> TAKE k \in 0 .. n
  <2>1. CASE k = 0
    BY <1>4, <2>1 DEF Computes, first
  <2>2. CASE k # 0
    <3>1. k \in 1 .. n /\ f[k - 1] \in V
      BY <1>1, <2>2
    <3>2. f[k] = step[k][f[k - 1]]
      BY <1>4, <2>2 DEF Computes
    <3> QED
      BY <1>3, <2>2, <3>1, <3>2
  <2> QED
    BY <2>1, <2>2
<1>6. Is(f)
  BY <1>4, <1>5
<1>7. Is(wired)
  BY <1>6
<1> HIDE DEF wired
<1>8. \A k \in 0 .. n : wired[k] = IF k = 0 THEN Wires ELSE Connect(wired[k - 1], slaves[c][k], i)
  BY <1>7
<1>9. wired[0] = Wires /\ \A k \in 1 .. n : wired[k] = Connect(wired[k - 1], slaves[c][k], i)
  BY <1>1, <1>8
<1>10. SinkConnects(c, i) = wired[n]
  BY DEF SinkConnects, wired, n
<1> QED
  BY <1>9, <1>10 DEF n

\* Channel.sink connects all that are there.
LEMMA SinkEffect ==
  ASSUME WiringTypes, Driven, OneDrive, NEW c \in Channels, NEW i \in Intfs
  PROVE  UpTo(SinkConnects(c, i), Len(slaves[c]), c, i)
<1> DEFINE n == Len(slaves[c])
<1>1. n \in Nat /\ DOMAIN slaves[c] = 1 .. n
  BY DEF WiringTypes
<1>2. PICK wired : /\ wired[0] = Wires
                   /\ \A k \in 1 .. n : wired[k] = Connect(wired[k - 1], slaves[c][k], i)
                   /\ SinkConnects(c, i) = wired[n]
  BY SinkUnrolled
<1> HIDE DEF n
<1> DEFINE S == { k \in 0 .. n : UpTo(wired[k], k, c, i) }
<1>3. 0 \in S
  <2>1. UpTo(Wires, 0, c, i)
    BY WiresTyped DEF UpTo, Wires
  <2> QED
    BY <1>1, <1>2, <2>1
<1>4. ASSUME NEW k \in 0 .. n - 1, k \in S
      PROVE  k + 1 \in S
  <2>1. /\ k \in Nat /\ k + 1 \in 0 .. n /\ k + 1 \in DOMAIN slaves[c]
        /\ wired[k + 1] = Connect(wired[k], slaves[c][k + 1], i)
    BY <1>1, <1>2
  <2>2. UpTo(wired[k], k, c, i)
    BY <1>4
  <2>3. UpTo(Connect(wired[k], slaves[c][k + 1], i), k + 1, c, i)
    BY <2>1, <2>2, OneMore
  <2> QED
    BY <2>1, <2>3
<1> HIDE DEF S
<1>5. 0 .. n \subseteq S
  BY <1>1, <1>3, <1>4, Reaches
<1>6. UpTo(wired[n], n, c, i)
  BY <1>1, <1>5 DEF S
<1> QED
  BY <1>2, <1>6 DEF n

-----------------------------------------------------------------------------
(* The steps *)

WiringInv == WiringTypes /\ Driven /\ AllJoined

LEMMA WInitOK == WInit => WiringInv
<1> SUFFICES ASSUME WInit
             PROVE  WiringInv
  OBVIOUS
<1>1. \A q \in Seqs : <<Data[q], Dout[q], "fifo">> \in Bridge
  BY WiringAssumption DEF WiringAssumption, Bridge
<1>2. WiringTypes
  BY <1>1 DEF WiringTypes, WInit
<1> QED
  BY <1>2 DEF WiringInv, Driven, AllJoined, WInit

\* What Wire makes of the wires v
LEMMA Wired ==
  ASSUME NEW v \in AllWires, Wire(v)
  PROVE  /\ source' \in [Intfs -> Intfs \cup {None, Own}] /\ bridges' \subseteq Bridge
         /\ pc' = "elaborate" => Wires' = v /\ ~v.raised /\ pc = "elaborate"
BY DEF Wire, Wires, AllWires

LEMMA SinkStep ==
  ASSUME WiringInv, OneDrive, NEW c \in Channels, NEW i \in Intfs, Sink(c, i)
  PROVE  WiringInv'
<1>1. WiringTypes /\ Driven /\ AllJoined /\ todo' \subseteq todo /\ slaves' = slaves
  BY DEF WiringInv, Sink, graph
<1>2. Driven'
  BY <1>1 DEF Driven
<1>3. CASE master[c] # None
  <2>1. pc' = "raised" /\ UNCHANGED <<master, source, bridges>>
    BY <1>3 DEF Sink, graph
  <2> QED
    BY <1>1, <1>2, <2>1 DEF WiringInv, WiringTypes, AllJoined
<1>4. CASE master[c] = None
  <2> DEFINE v == SinkConnects(c, i)
  <2>1. master' = [master EXCEPT ![c] = i] /\ Wire(v)
    BY <1>4 DEF Sink
  <2>2. UpTo(v, Len(slaves[c]), c, i)
    BY <1>1, SinkEffect
  <2> HIDE DEF v
  <2>3. /\ source' \in [Intfs -> Intfs \cup {None, Own}] /\ bridges' \subseteq Bridge
        /\ pc' = "elaborate" => Wires' = v /\ ~v.raised /\ pc = "elaborate"
    BY <2>1, <2>2, Wired DEF UpTo
  <2>4. WiringTypes'
    BY <1>1, <2>1, <2>3 DEF WiringTypes
  <2>5. ASSUME pc' = "elaborate", NEW d \in Channels, master'[d] # None, NEW k \in DOMAIN slaves[d]
        PROVE  Joined(v, slaves[d][k], master'[d])
    <3>1. ~v.raised /\ slaves[d][k] \in Intfs /\ DOMAIN slaves[c] = 1 .. Len(slaves[c])
      BY <1>1, <2>3, <2>5, SlaveTyped DEF WiringTypes
    <3>2. CASE d = c
      BY <1>1, <2>1, <2>2, <3>1, <3>2 DEF UpTo, WiringTypes
    <3>3. CASE d # c
      <4>1. master'[d] = master[d]
        BY <1>1, <2>1, <3>3 DEF WiringTypes
      <4>2. Joined(Wires, slaves[d][k], master[d])
        BY <1>1, <2>3, <2>5, <4>1 DEF AllJoined
      <4>3. \A l \in 1 .. Len(slaves[c]) : Input(slaves[c][l]) # Input(slaves[d][k])
        <5> TAKE l \in 1 .. Len(slaves[c])
        <5>1. slaves[c][l] \in Intfs /\ l \in Nat /\ l \in DOMAIN slaves[c] /\ k \in Nat
          BY <1>1, <3>1, SlaveTyped
        <5>2. <<"drive", c, slaves[c][l]>> \in Plan /\ <<"drive", d, slaves[d][k]>> \in Plan
          BY <1>1, <5>1 DEF Driven
        <5> QED
          BY <3>1, <3>3, <5>1, <5>2 DEF OneDrive
      <4>4. v.source[Input(slaves[d][k])] = source[Input(slaves[d][k])] /\ bridges \subseteq v.bridges
        BY <2>2, <3>1, <4>3, Kinds DEF UpTo
      <4> QED
        BY <3>1, <4>1, <4>2, <4>4, StaysJoined DEF Wires
    <3> QED
      BY <3>2, <3>3
  <2>6. AllJoined'
    BY <1>1, <2>3, <2>5 DEF AllJoined
  <2> QED
    BY <1>2, <2>4, <2>6 DEF WiringInv
<1> QED
  BY <1>3, <1>4

LEMMA DriveStep ==
  ASSUME WiringInv, OneDrive, NEW c \in Channels, NEW i \in Intfs, Drive(c, i)
  PROVE  WiringInv'
<1> DEFINE v == IF master[c] = None THEN Wires ELSE Connect(Wires, i, master[c])
           n == Len(slaves[c]) + 1
<1>1. /\ WiringTypes /\ Driven /\ AllJoined /\ <<"drive", c, i>> \in todo
      /\ todo' = todo \ {<<"drive", c, i>>} /\ slaves' = [slaves EXCEPT ![c] = Append(@, i)]
      /\ Wire(v) /\ master' = master
  BY DEF WiringInv, Drive
<1>2. /\ v \in AllWires
      /\ ~v.raised => /\ master[c] # None => Joined(v, i, master[c])
                      /\ Extends(v, Wires, Input(i))
  <2>1. CASE master[c] = None
    BY <1>1, <2>1, WiresTyped DEF Extends
  <2>2. CASE master[c] # None
    <3>1. master[c] \in Intfs
      BY <1>1, <2>2 DEF WiringTypes
    <3> QED
      BY <1>1, <2>2, <3>1, WiresTyped, Connecting
  <2> QED
    BY <2>1, <2>2
<1> HIDE DEF v
<1>3. /\ slaves' \in [Channels -> Seq(Intfs)] /\ n \in DOMAIN slaves'[c] /\ slaves'[c][n] = i
      /\ \A d \in Channels, k \in Nat : k \in DOMAIN slaves'[d] =>
           \/ d = c /\ k = n
           \/ k \in DOMAIN slaves[d] /\ slaves'[d][k] = slaves[d][k]
  BY <1>1 DEF WiringTypes
<1> HIDE DEF n
<1>4. /\ source' \in [Intfs -> Intfs \cup {None, Own}] /\ bridges' \subseteq Bridge
      /\ pc' = "elaborate" => Wires' = v /\ ~v.raised /\ pc = "elaborate"
  BY <1>1, <1>2, Wired
<1>5. WiringTypes'
  BY <1>1, <1>3, <1>4 DEF WiringTypes
<1>6. Driven'
  <2> SUFFICES ASSUME NEW d \in Channels, NEW k \in Nat, k \in DOMAIN slaves'[d]
               PROVE  <<"drive", d, slaves'[d][k]>> \in Plan \ todo'
    BY DEF Driven
  <2>1. CASE d = c /\ k = n
    BY <1>1, <1>3, <2>1 DEF WiringTypes
  <2>2. CASE k \in DOMAIN slaves[d] /\ slaves'[d][k] = slaves[d][k]
    BY <1>1, <2>2 DEF Driven
  <2> QED
    BY <1>3, <2>1, <2>2
<1>7. ASSUME pc' = "elaborate", NEW d \in Channels, master[d] # None, NEW k \in DOMAIN slaves'[d]
      PROVE  Joined(v, slaves'[d][k], master[d])
  <2>1. k \in Nat /\ ~v.raised
    BY <1>3, <1>4, <1>7
  <2>2. CASE d = c /\ k = n
    BY <1>2, <1>3, <1>7, <2>1, <2>2
  <2>3. CASE k \in DOMAIN slaves[d] /\ slaves'[d][k] = slaves[d][k]
    <3>1. slaves[d][k] \in Intfs /\ Joined(Wires, slaves[d][k], master[d])
      BY <1>1, <1>4, <1>7, <2>3, SlaveTyped DEF AllJoined
    <3>2. <<"drive", d, slaves[d][k]>> \in Plan \ todo /\ <<"drive", c, i>> \in Plan
      BY <1>1, <2>1, <2>3 DEF Driven, WiringTypes
    <3>3. Input(slaves[d][k]) # Input(i)
      BY <1>1, <3>1, <3>2 DEF OneDrive
    <3>4. v.source[Input(slaves[d][k])] = source[Input(slaves[d][k])] /\ bridges \subseteq v.bridges
      BY <1>2, <2>1, <3>1, <3>3, Kinds DEF Extends, Wires
    <3> QED
      BY <2>3, <3>1, <3>4, StaysJoined DEF Wires
  <2> QED
    BY <1>3, <2>1, <2>2, <2>3
<1>8. AllJoined'
  BY <1>1, <1>4, <1>7 DEF AllJoined
<1> QED
  BY <1>5, <1>6, <1>8 DEF WiringInv

\* While the design runs nothing is connected any more.
LEMMA RunStep ==
  ASSUME WiringInv, pc' # "elaborate", UNCHANGED <<todo, slaves, master, bridges>>,
         source' = source \/ \E i : source' = Sourced(i)
  PROVE  WiringInv'
<1>1. source' \in [Intfs -> Intfs \cup {None, Own}]
  BY DEF Sourced, WiringInv, WiringTypes
<1> QED
  BY <1>1 DEF WiringInv, WiringTypes, Driven, AllJoined

LEMMA WNextOK == OneDrive /\ WiringInv /\ [WNext]_wvars => WiringInv'
<1> SUFFICES ASSUME OneDrive, WiringInv, [WNext]_wvars
             PROVE  WiringInv'
  OBVIOUS
<1>1. ASSUME NEW c \in Channels, NEW i \in Intfs, Sink(c, i) \/ Drive(c, i)
      PROVE  WiringInv'
  BY <1>1, SinkStep, DriveStep
<1>2. ASSUME NEW i \in Intfs, NEW n \in Names, UseEvent(i, n)
      PROVE  WiringInv'
  BY <1>2 DEF UseEvent, graph, WiringInv, WiringTypes, Driven, AllJoined, Wires
<1>3. CASE Start
  BY <1>3, RunStep DEF Start, graph
<1>4. ASSUME NEW w \in Writes, WriteItem(w[1], w[2])
      PROVE  WiringInv'
  BY <1>4, RunStep DEF WriteItem
<1>5. ASSUME NEW b \in bridges, Carry(b)
      PROVE  WiringInv'
  BY <1>5, RunStep DEF Carry
<1>6. CASE UNCHANGED wvars
  BY <1>6 DEF wvars, graph, WiringInv, WiringTypes, Driven, AllJoined, Wires
<1> QED
  BY <1>1, <1>2, <1>3, <1>4, <1>5, <1>6 DEF WNext, Ended

\* As soon as a channel has a master, each of its slaves is connected to it, in whichever
\* order Channel.sink and Channel.drive are called, and connecting it once more would
\* change nothing: for any number of channels and any kinds and types of interfaces, if
\* no interface is driven twice.  A connection that raises ends the elaboration; a
\* sequential slave of a transaction interface, which the code connects by doing
\* nothing, is connected in that sense.
THEOREM SlavesAreConnected ==
  ASSUME OneDrive
  PROVE  WSpec => []SlavesConnected
<1>1. WiringInv => SlavesConnected
  <2> SUFFICES ASSUME WiringInv, pc = "elaborate", NEW c \in Channels, master[c] # None,
                      NEW k \in 1 .. Len(slaves[c])
               PROVE  Connected(slaves[c][k], master[c])
    BY DEF SlavesConnected
  <2>1. slaves[c][k] \in Intfs /\ master[c] \in Intfs /\ k \in DOMAIN slaves[c]
    BY DEF WiringInv, WiringTypes
  <2>2. Joined(Wires, slaves[c][k], master[c]) /\ Wires \in AllWires /\ ~Wires.raised
    BY <2>1, WiresTyped DEF WiringInv, AllJoined
  <2>3. Connect(Wires, slaves[c][k], master[c]) = Wires
    BY <2>1, <2>2, JoinedTwice
  <2> QED
    BY <2>3 DEF Connected, Wires
<1> QED
  BY WInitOK, WNextOK, <1>1, OneDrive, PTL DEF WSpec

-----------------------------------------------------------------------------
(* What leads up the sources *)

\* The sources so follow the ranks R.
Ranked(R, so) == \A j \in Intfs : so[j] \in Intfs => R[so[j]] < R[j]

Ranking == [Intfs -> 0 .. Cardinality(Intfs)]

LEMMA SizeOfIntfs == Cardinality(Intfs) \in Nat /\ None \notin Intfs /\ Own \notin Intfs
BY WiringAssumption, FS_CardinalityType DEF WiringAssumption

\* What a recursion up the sources consists of: it goes on from the interfaces in P and
\* ends at the others, with values in V.
UpSources(P, V, ends, goes) ==
  /\ P \subseteq Intfs /\ \A j \in P : source[j] \in Intfs
  /\ ends \in [Intfs -> V] /\ goes \in [P -> [V -> V]]

\* Under ranks it defines a function.
LEMMA UpTheSources ==
  ASSUME NEW R \in Ranking, Ranked(R, source), NEW P, NEW V, NEW ends, NEW goes,
         UpSources(P, V, ends, goes)
  PROVE  \E f \in [Intfs -> V] :
           \A j \in Intfs : f[j] = IF j \in P THEN goes[j][f[source[j]]] ELSE ends[j]
<1> DEFINE to == [j \in P |-> source[j]]
           h  == Cardinality(Intfs)
<1>1. to \in [P -> Intfs] /\ \A j \in P : to[j] = source[j]
  BY DEF UpSources
<1>2. \A j \in P : R[to[j]] < R[j]
  BY <1>1 DEF Ranked, UpSources
<1>3. h \in Nat /\ R \in [Intfs -> 0 .. h]
  BY SizeOfIntfs DEF Ranking
<1> HIDE DEF to, h
<1>4. GoesDown(Intfs, h, R, P, to, V, ends, goes)
  BY <1>1, <1>2, <1>3 DEF GoesDown, UpSources
<1>5. PICK f \in [Intfs -> V] : \A j \in Intfs : Unfolds(f, j, P, to, goes, ends)
  BY <1>4, RankedRecursion
<1>6. \A j \in Intfs : f[j] = IF j \in P THEN goes[j][f[source[j]]] ELSE ends[j]
  BY <1>1, <1>5 DEF Unfolds
<1> QED
  BY <1>6

LEMMA RootUnfolds ==
  ASSUME NEW R \in Ranking, Ranked(R, source), NEW i \in Intfs
  PROVE  Root(i) = IF source[i] \in Intfs THEN Root(source[i]) ELSE i
<1> DEFINE P     == { j \in Intfs : source[j] \in Intfs }
           Is(f) == f = [j \in Intfs |-> IF source[j] \in Intfs THEN f[source[j]] ELSE j]
           up    == CHOOSE f : Is(f)
           ends  == [j \in Intfs |-> j]
           goes  == [j \in P |-> [x \in Intfs |-> x]]
<1>1. PICK f \in [Intfs -> Intfs] :
        \A j \in Intfs : f[j] = IF j \in P THEN goes[j][f[source[j]]] ELSE ends[j]
  <2>1. UpSources(P, Intfs, ends, goes)
    BY DEF UpSources
  <2> HIDE DEF P, ends, goes
  <2> QED
    BY <2>1, UpTheSources
<1>2. Is(f)
  BY <1>1
<1>3. Is(up)
  BY <1>2
<1> HIDE DEF up
<1>4. up[i] = IF source[i] \in Intfs THEN up[source[i]] ELSE i
  BY <1>3
<1>5. Root(i) = up[i] /\ Root(source[i]) = up[source[i]]
  BY DEF Root, up
<1> QED
  BY <1>4, <1>5

LEMMA PathUnfolds ==
  ASSUME NEW R \in Ranking, Ranked(R, source), NEW i \in Intfs
  PROVE  Path(i) = {i} \cup IF source[i] \in Intfs THEN Path(source[i]) ELSE {}
<1> DEFINE P     == { j \in Intfs : source[j] \in Intfs }
           Is(f) == f = [j \in Intfs |-> {j} \cup IF source[j] \in Intfs THEN f[source[j]] ELSE {}]
           up    == CHOOSE f : Is(f)
           ends  == [j \in Intfs |-> {j}]
           goes  == [j \in P |-> [x \in SUBSET Intfs |-> {j} \cup x]]
<1>1. PICK f \in [Intfs -> SUBSET Intfs] :
        \A j \in Intfs : f[j] = IF j \in P THEN goes[j][f[source[j]]] ELSE ends[j]
  <2>1. UpSources(P, SUBSET Intfs, ends, goes)
    BY DEF UpSources
  <2> HIDE DEF P, ends, goes
  <2> QED
    BY <2>1, UpTheSources
<1>2. Is(f)
  BY <1>1
<1>3. Is(up)
  BY <1>2
<1> HIDE DEF up
<1>4. up[i] = {i} \cup IF source[i] \in Intfs THEN up[source[i]] ELSE {}
  BY <1>3
<1>5. Path(i) = up[i] /\ Path(source[i]) = up[source[i]]
  BY DEF Path, up
<1> QED
  BY <1>4, <1>5

LEMMA MissingUnfolds ==
  ASSUME NEW R \in Ranking, Ranked(R, source), NEW i \in Intfs, NEW n
  PROVE  Missing(i, n) = IF <<i, n>> \in used THEN {}
                         ELSE {i} \cup IF source[i] \in Intfs THEN Missing(source[i], n) ELSE {}
<1> DEFINE P     == { j \in Intfs : <<j, n>> \notin used /\ source[j] \in Intfs }
           Is(f) == f = [j \in Intfs |->
                           IF <<j, n>> \in used THEN {}
                           ELSE {j} \cup IF ChainsTo(j) = None THEN {} ELSE f[ChainsTo(j)]]
           up    == CHOOSE f : Is(f)
           ends  == [j \in Intfs |-> IF <<j, n>> \in used THEN {} ELSE {j}]
           goes  == [j \in P |-> [x \in SUBSET Intfs |-> {j} \cup x]]
<1>1. PICK f \in [Intfs -> SUBSET Intfs] :
        \A j \in Intfs : f[j] = IF j \in P THEN goes[j][f[source[j]]] ELSE ends[j]
  <2>1. UpSources(P, SUBSET Intfs, ends, goes)
    BY DEF UpSources
  <2> HIDE DEF P, ends, goes
  <2> QED
    BY <2>1, UpTheSources
<1>2. \A j \in Intfs : IF source[j] \in Intfs THEN ChainsTo(j) = source[j] /\ ChainsTo(j) # None
                       ELSE ChainsTo(j) = None
  BY SizeOfIntfs DEF ChainsTo
<1>3. Is(f)
  BY <1>1, <1>2
<1>4. Is(up)
  BY <1>3
<1> HIDE DEF up
<1>5. up[i] = IF <<i, n>> \in used THEN {}
              ELSE {i} \cup IF source[i] \in Intfs THEN up[source[i]] ELSE {}
  BY <1>2, <1>4
<1>6. Missing(i, n) = up[i] /\ Missing(source[i], n) = up[source[i]]
  BY DEF Missing, up
<1> QED
  BY <1>5, <1>6

\* The events made on first use go up the sources as far as they are missing.
LEMMA MissingGoesUp ==
  ASSUME NEW R \in Ranking, Ranked(R, source), NEW i \in Intfs, NEW n, <<i, n>> \notin used
  PROVE  /\ i \in Missing(i, n) /\ Missing(i, n) \subseteq Intfs
         /\ \A j \in Missing(i, n) : source[j] \in Intfs =>
              source[j] \in Missing(i, n) \/ <<source[j], n>> \in used
<1> DEFINE Goes(x) == /\ Missing(x, n) \subseteq Intfs
                      /\ <<x, n>> \notin used => x \in Missing(x, n)
                      /\ \A j \in Missing(x, n) : source[j] \in Intfs =>
                           source[j] \in Missing(x, n) \/ <<source[j], n>> \in used
           S == { x \in Intfs : Goes(x) }
<1>1. ASSUME NEW x \in Intfs, \A y \in Intfs : R[y] < R[x] => y \in S
      PROVE  x \in S
  <2>1. Missing(x, n) = IF <<x, n>> \in used THEN {}
                        ELSE {x} \cup IF source[x] \in Intfs THEN Missing(source[x], n) ELSE {}
    BY MissingUnfolds
  <2>2. source[x] \in Intfs => Goes(source[x])
    BY <1>1 DEF Ranked
  <2> QED
    BY <2>1, <2>2
<1> HIDE DEF S
<1>2. R \in [Intfs -> Nat]
  BY SizeOfIntfs DEF Ranking
<1>3. Intfs \subseteq S
  BY <1>1, <1>2, RankInduction
<1>4. Goes(i)
  BY <1>3 DEF S
<1> QED
  BY <1>4

-----------------------------------------------------------------------------
(* Whatever is connected, the sources follow the ranks. *)

LEMMA ConnectRanked ==
  ASSUME NEW R, NEW w \in AllWires, NEW s \in Intfs, NEW m \in Intfs, Ranked(R, w.source),
         Dtype[Input(s)] = Dtype[Output(m)] => R[Output(m)] < R[Input(s)]
  PROVE  Ranked(R, Connect(w, s, m).source)
<1>1. ASSUME Dtype[Input(s)] = Dtype[Output(m)], Input(s) \in Intfs
      PROVE  Ranked(R, [w EXCEPT !.source[Input(s)] = Output(m)].source)
  BY <1>1 DEF Ranked, AllWires
<1>2. Input(s) \in Intfs => Ranked(R, SourceOrConvert(w, Input(s), Output(m)).source)
  BY <1>1 DEF SourceOrConvert, AllWires
<1>3. /\ Input(s) \in Intfs /\ (Kind[s] = "isig" => Input(s) = s)
      /\ Kind[m] = "iseq" => Output(m) = Dout[m]
      /\ Kind[m] # "iseq" => Output(m) = m
  BY Kinds DEF Input, Output
<1>4. \/ Connect(w, s, m).source = w.source
      \/ Connect(w, s, m) = SourceOrConvert(w, Input(s), Output(m))
  BY <1>3 DEF Connect, AllWires
<1> QED
  BY <1>2, <1>3, <1>4

LEMMA SinkRanked ==
  ASSUME WiringTypes, Driven, NEW R, Ranks(R), Ranked(R, source),
         NEW c \in Channels, NEW i \in Intfs, <<"sink", c, i>> \in Plan
  PROVE  SinkConnects(c, i) \in AllWires /\ Ranked(R, SinkConnects(c, i).source)
<1> DEFINE n == Len(slaves[c])
<1>1. n \in Nat /\ DOMAIN slaves[c] = 1 .. n
  BY DEF WiringTypes
<1>2. PICK wired : /\ wired[0] = Wires
                   /\ \A k \in 1 .. n : wired[k] = Connect(wired[k - 1], slaves[c][k], i)
                   /\ SinkConnects(c, i) = wired[n]
  BY SinkUnrolled
<1> HIDE DEF n
<1> DEFINE S == { k \in 0 .. n : wired[k] \in AllWires /\ Ranked(R, wired[k].source) }
<1>3. 0 \in S
  BY <1>1, <1>2, WiresTyped DEF Wires
<1>4. ASSUME NEW k \in 0 .. n - 1, k \in S
      PROVE  k + 1 \in S
  <2>1. k + 1 \in DOMAIN slaves[c] /\ wired[k + 1] = Connect(wired[k], slaves[c][k + 1], i)
    BY <1>1, <1>2
  <2>2. slaves[c][k + 1] \in Intfs /\ <<"drive", c, slaves[c][k + 1]>> \in Plan
    BY <2>1, SlaveTyped DEF Driven
  <2>3. Dtype[Input(slaves[c][k + 1])] = Dtype[Output(i)] => R[Output(i)] < R[Input(slaves[c][k + 1])]
    BY <2>2 DEF Ranks
  <2>4. wired[k + 1] \in AllWires /\ Ranked(R, wired[k + 1].source)
    BY <1>4, <2>1, <2>2, <2>3, ConnectRanked, Connecting
  <2> QED
    BY <1>1, <2>4
<1> HIDE DEF S
<1>5. 0 .. n \subseteq S
  BY <1>1, <1>3, <1>4, Reaches
<1>6. n \in S
  BY <1>1, <1>5
<1> QED
  BY <1>2, <1>6 DEF S

-----------------------------------------------------------------------------
(* The events *)

\* The master of a channel is one that the plan connects to it.
Sunk == \A c \in Channels : master[c] # None => <<"sink", c, master[c]>> \in Plan

\* The event n of a sourced interface is chained to that of its source, except where it
\* was in use early.
ChainedUp ==
  \A i \in Intfs, n \in Names :
    <<i, n>> \in used \ early /\ source[i] \in Intfs =>
      <<source[i], n>> \in used /\ <<<<source[i], n>>, <<i, n>>>> \in chained

EventsInv(R) ==
  /\ WiringTypes /\ Driven /\ Sunk
  /\ Ranked(R, source)
  /\ used \subseteq Intfs \X Names
  /\ ChainedUp

LEMMA EventsInitOK ==
  ASSUME NEW R, WInit
  PROVE  EventsInv(R)
<1>1. WiringTypes /\ Driven
  BY WInitOK DEF WiringInv
<1>2. Sunk /\ ChainedUp /\ used \subseteq Intfs \X Names
  BY DEF WInit, Sunk, ChainedUp
<1>3. Ranked(R, source)
  BY SizeOfIntfs DEF WInit, Ranked
<1> QED
  BY <1>1, <1>2, <1>3 DEF EventsInv

\* A connection that changes the source of an interface leaves its events behind, early.
LEMMA WireEvents ==
  ASSUME NEW R, EventsInv(R), NEW v \in AllWires, Ranked(R, v.source), Wire(v),
         UNCHANGED <<used, chained>>
  PROVE  Ranked(R, source') /\ ChainedUp' /\ (used \subseteq Intfs \X Names)'
<1>1. source' = v.source /\ early' = early \cup NewlyEarly(v)
  BY DEF Wire
<1>2. ASSUME NEW i \in Intfs, NEW n \in Names, <<i, n>> \in used \ early', source'[i] \in Intfs
      PROVE  <<source'[i], n>> \in used /\ <<<<source'[i], n>>, <<i, n>>>> \in chained
  <2>1. <<i, n>> \notin early /\ source'[i] = source[i]
    BY <1>1, <1>2 DEF NewlyEarly
  <2> QED
    BY <1>2, <2>1 DEF EventsInv, ChainedUp
<1> QED
  BY <1>1, <1>2 DEF EventsInv, ChainedUp

LEMMA SinkEvents ==
  ASSUME NEW R, Ranks(R), EventsInv(R), NEW c \in Channels, NEW i \in Intfs, Sink(c, i)
  PROVE  EventsInv(R)'
<1>1. /\ WiringTypes /\ Driven /\ Sunk /\ Ranked(R, source) /\ <<"sink", c, i>> \in Plan
      /\ todo' \subseteq todo /\ slaves' = slaves /\ UNCHANGED <<used, chained>>
  BY DEF EventsInv, Sink, WiringTypes, graph
<1>2. Driven'
  BY <1>1 DEF Driven
<1>3. CASE master[c] # None
  <2>1. UNCHANGED <<master, source, bridges, early>>
    BY <1>3 DEF Sink, graph
  <2> QED
    BY <1>1, <1>2, <2>1 DEF EventsInv, WiringTypes, Sunk, ChainedUp
<1>4. CASE master[c] = None
  <2> DEFINE v == SinkConnects(c, i)
  <2>1. master' = [master EXCEPT ![c] = i] /\ Wire(v)
    BY <1>4 DEF Sink
  <2>2. v \in AllWires /\ Ranked(R, v.source)
    BY <1>1, SinkRanked
  <2> HIDE DEF v
  <2>3. WiringTypes' /\ Sunk'
    BY <1>1, <2>1, <2>2, Wired DEF WiringTypes, Sunk
  <2>4. Ranked(R, source') /\ ChainedUp' /\ (used \subseteq Intfs \X Names)'
    BY <1>1, <2>1, <2>2, WireEvents
  <2> QED
    BY <1>2, <2>3, <2>4 DEF EventsInv
<1> QED
  BY <1>3, <1>4

LEMMA DriveEvents ==
  ASSUME NEW R, Ranks(R), EventsInv(R), NEW c \in Channels, NEW i \in Intfs, Drive(c, i)
  PROVE  EventsInv(R)'
<1> DEFINE v == IF master[c] = None THEN Wires ELSE Connect(Wires, i, master[c])
<1>1. /\ WiringTypes /\ Driven /\ Sunk /\ Ranked(R, source) /\ <<"drive", c, i>> \in Plan \cap todo
      /\ todo' = todo \ {<<"drive", c, i>>} /\ slaves' = [slaves EXCEPT ![c] = Append(@, i)]
      /\ Wire(v) /\ UNCHANGED <<master, used, chained>>
  BY DEF EventsInv, Drive, WiringTypes
<1>2. v \in AllWires /\ Ranked(R, v.source)
  <2>1. Wires \in AllWires /\ Wires.source = source
    BY <1>1, WiresTyped DEF Wires
  <2>2. ASSUME master[c] # None
        PROVE  Connect(Wires, i, master[c]) \in AllWires /\ Ranked(R, Connect(Wires, i, master[c]).source)
    <3>1. master[c] \in Intfs /\ <<"sink", c, master[c]>> \in Plan
      BY <1>1, <2>2 DEF WiringTypes, Sunk
    <3>2. Dtype[Input(i)] = Dtype[Output(master[c])] => R[Output(master[c])] < R[Input(i)]
      BY <1>1, <3>1 DEF Ranks
    <3> QED
      BY <1>1, <2>1, <3>1, <3>2, ConnectRanked, Connecting
  <2> QED
    BY <1>1, <2>1, <2>2
<1> HIDE DEF v
<1>3. /\ slaves' \in [Channels -> Seq(Intfs)]
      /\ \A d \in Channels, k \in Nat : k \in DOMAIN slaves'[d] =>
           \/ d = c /\ slaves'[d][k] = i
           \/ k \in DOMAIN slaves[d] /\ slaves'[d][k] = slaves[d][k] /\ slaves[d][k] \in Intfs
  BY <1>1 DEF WiringTypes
<1>4. WiringTypes' /\ Sunk'
  BY <1>1, <1>2, <1>3, Wired DEF WiringTypes, Sunk
<1>5. Driven'
  BY <1>1, <1>3 DEF Driven
<1>6. Ranked(R, source') /\ ChainedUp' /\ (used \subseteq Intfs \X Names)'
  BY <1>1, <1>2, WireEvents
<1> QED
  BY <1>4, <1>5, <1>6 DEF EventsInv

\* A new event is made with those missing above it and chained to them.
LEMMA UseEventStep ==
  ASSUME NEW R \in Ranking, EventsInv(R), NEW x \in Intfs, NEW n \in Names, UseEvent(x, n)
  PROVE  EventsInv(R)'
<1>1. /\ WiringTypes /\ Driven /\ Sunk /\ Ranked(R, source) /\ used \subseteq Intfs \X Names /\ ChainedUp
      /\ <<x, n>> \notin used /\ UNCHANGED <<todo, slaves, master, source, bridges, early, pc>>
      /\ used' = used \cup (Missing(x, n) \X {n})
      /\ chained' = chained \cup
           { <<<<ChainsTo(j), n>>, <<j, n>>>> : j \in { l \in Missing(x, n) : ChainsTo(l) # None } }
  BY DEF EventsInv, UseEvent, graph
<1>2. /\ Missing(x, n) \subseteq Intfs
      /\ \A j \in Missing(x, n) : source[j] \in Intfs =>
           source[j] \in Missing(x, n) \/ <<source[j], n>> \in used
  BY <1>1, MissingGoesUp
<1>3. WiringTypes' /\ Driven' /\ Sunk' /\ Ranked(R, source') /\ (used \subseteq Intfs \X Names)'
  BY <1>1, <1>2 DEF WiringTypes, Driven, Sunk
<1>4. ASSUME NEW i \in Intfs, NEW k \in Names, <<i, k>> \in used' \ early', source'[i] \in Intfs
      PROVE  <<source'[i], k>> \in used' /\ <<<<source'[i], k>>, <<i, k>>>> \in chained'
  <2>1. source'[i] = source[i] /\ source[i] \in Intfs /\ <<i, k>> \notin early
    BY <1>1, <1>4
  <2>2. CASE <<i, k>> \in used
    BY <1>1, <2>1, <2>2 DEF ChainedUp
  <2>3. CASE <<i, k>> \notin used
    <3>1. i \in Missing(x, n) /\ k = n
      BY <1>1, <1>4, <2>3
    <3>2. ChainsTo(i) = source[i] /\ ChainsTo(i) # None
      BY <2>1, SizeOfIntfs DEF ChainsTo
    <3>3. <<source[i], n>> \in used'
      BY <1>1, <1>2, <2>1, <3>1
    <3>4. <<<<source[i], n>>, <<i, n>>>> \in chained'
      BY <1>1, <3>1, <3>2
    <3> QED
      BY <2>1, <3>1, <3>3, <3>4
  <2> QED
    BY <2>2, <2>3
<1>5. ChainedUp'
  BY <1>4 DEF ChainedUp
<1> QED
  BY <1>3, <1>5 DEF EventsInv

\* A write that gives the root a Signal of its own takes no chain away.
LEMMA SourcedEvents ==
  ASSUME NEW R, EventsInv(R), NEW i, source' = Sourced(i),
         UNCHANGED <<todo, slaves, master, bridges, used, chained, early>>
  PROVE  EventsInv(R)'
<1>1. \A j \in Intfs : source'[j] \in Intfs => source'[j] = source[j]
  BY SizeOfIntfs DEF Sourced, EventsInv, WiringTypes
<1>2. WiringTypes' /\ Driven' /\ Sunk' /\ (used \subseteq Intfs \X Names)'
  BY DEF EventsInv, WiringTypes, Driven, Sunk, Sourced
<1>3. Ranked(R, source') /\ ChainedUp'
  BY <1>1 DEF EventsInv, Ranked, ChainedUp
<1> QED
  BY <1>2, <1>3 DEF EventsInv

LEMMA EventsNextOK ==
  ASSUME NEW R \in Ranking, Ranks(R), EventsInv(R), [WNext]_wvars
  PROVE  EventsInv(R)'
<1>1. ASSUME NEW c \in Channels, NEW i \in Intfs, Sink(c, i) \/ Drive(c, i)
      PROVE  EventsInv(R)'
  BY <1>1, SinkEvents, DriveEvents
<1>2. ASSUME NEW i \in Intfs, NEW n \in Names, UseEvent(i, n)
      PROVE  EventsInv(R)'
  BY <1>2, UseEventStep
<1>3. ASSUME UNCHANGED <<todo, graph, evvars>>
      PROVE  EventsInv(R)'
  BY <1>3 DEF EventsInv, WiringTypes, Driven, Sunk, ChainedUp, graph, evvars
<1>4. ASSUME NEW w \in Writes, WriteItem(w[1], w[2])
      PROVE  EventsInv(R)'
  BY <1>4, SourcedEvents DEF WriteItem, evvars
<1>5. ASSUME NEW b \in bridges, Carry(b)
      PROVE  EventsInv(R)'
  BY <1>5, SourcedEvents DEF Carry, evvars
<1> QED
  BY <1>1, <1>2, <1>3, <1>4, <1>5 DEF WNext, Start, Ended, wvars

\* The events that Reached goes through, in so many steps
LEMMA ReachedUnfolds ==
  ASSUME NEW e
  PROVE  \E f : /\ f[0] = {e}
                /\ \A k \in Nat : f[k + 1] = f[k] \cup { y \in used : \E g \in f[k] : <<g, y>> \in chained }
                /\ Reached(e) = f[Cardinality(Intfs)]
<1> DEFINE step(S) == S \cup { y \in used : \E g \in S : <<g, y>> \in chained }
           V       == SUBSET (used \cup {e})
           steps   == [S \in V |-> step(S)]
           Is(f)   == f = [k \in Nat |-> IF k = 0 THEN {e} ELSE step(f[k - 1])]
           n       == CHOOSE f : Is(f)
<1>1. PICK f \in [Nat -> V] : \A k \in Nat : f[k] = IF k = 0 THEN {e} ELSE steps[f[k - 1]]
  <2>1. {e} \in V /\ steps \in [V -> V]
    OBVIOUS
  <2> HIDE DEF V, steps
  <2> QED
    BY <2>1, Iteration
<1>2. \A k \in Nat : f[k] = IF k = 0 THEN {e} ELSE step(f[k - 1])
  <2> TAKE k \in Nat
  <2>1. CASE k = 0
    BY <1>1, <2>1
  <2>2. CASE k # 0
    <3>1. k - 1 \in Nat /\ f[k - 1] \in V
      BY <2>2
    <3> HIDE DEF V, step
    <3> QED
      BY <1>1, <2>2, <3>1
  <2> QED
    BY <2>1, <2>2
<1>3. Is(f)
  <2> HIDE DEF step
  <2>1. f = [k \in Nat |-> f[k]]
    BY <1>1
  <2>2. [k \in Nat |-> f[k]] = [k \in Nat |-> IF k = 0 THEN {e} ELSE step(f[k - 1])]
    BY <1>2, Zenon
  <2> QED
    BY <2>1, <2>2, Zenon
<1>4. Is(n)
  <2> HIDE DEF Is
  <2> QED
    BY <1>3, Zenon
<1> HIDE DEF n
<1>5. n[0] = {e} /\ \A k \in Nat : n[k + 1] = step(n[k])
  <2> HIDE DEF step
  <2>1. \A k \in Nat : n[k] = IF k = 0 THEN {e} ELSE step(n[k - 1])
    BY <1>4
  <2>2. \A k \in Nat : k + 1 \in Nat /\ k + 1 # 0 /\ (k + 1) - 1 = k
    OBVIOUS
  <2> QED
    BY <2>1, <2>2
<1>6. Reached(e) = n[Cardinality(Intfs)]
  BY DEF Reached, n
<1> QED
  BY <1>5, <1>6

\* A trigger at the root comes down to interface x in as many steps as x has ranks.
LEMMA ComesDown ==
  ASSUME NEW R \in Ranking, EventsInv(R), NEW x \in Intfs, NEW n \in Names,
         <<x, n>> \in used, \A j \in Path(x) : <<j, n>> \notin early
  PROVE  <<x, n>> \in Reached(<<Root(x), n>>)
<1>1. /\ Ranked(R, source) /\ ChainedUp /\ R \in [Intfs -> Nat]
      /\ Cardinality(Intfs) \in Nat /\ R[x] <= Cardinality(Intfs)
  BY SizeOfIntfs DEF EventsInv, Ranking
<1> DEFINE e == <<Root(x), n>>
<1>2. PICK f : /\ f[0] = {e}
               /\ \A k \in Nat : f[k + 1] = f[k] \cup { y \in used : \E g \in f[k] : <<g, y>> \in chained }
               /\ Reached(e) = f[Cardinality(Intfs)]
  BY ReachedUnfolds
<1>3. ASSUME NEW k \in Nat
      PROVE  e \in f[k]
  <2> DEFINE S == { l \in 0 .. k : e \in f[l] }
  <2>1. 0 \in S /\ \A l \in 0 .. k - 1 : l \in S => l + 1 \in S
    BY <1>2
  <2> HIDE DEF S
  <2>2. 0 .. k \subseteq S
    BY <2>1, Reaches
  <2> QED
    BY <2>2, k \in 0 .. k DEF S
<1> DEFINE Late(j)  == \A l \in Path(j) : <<l, n>> \notin early
           Comes(j) == (<<j, n>> \in used /\ Root(j) = Root(x) /\ Late(j)) =>
                         \A k \in Nat : R[j] <= k => <<j, n>> \in f[k]
           T        == { j \in Intfs : Comes(j) }
<1>4. ASSUME NEW j \in Intfs, \A l \in Intfs : R[l] < R[j] => l \in T
      PROVE  j \in T
  <2> SUFFICES ASSUME <<j, n>> \in used, Root(j) = Root(x), \A l \in Path(j) : <<l, n>> \notin early,
                      NEW k \in Nat, R[j] <= k
               PROVE  <<j, n>> \in f[k]
    OBVIOUS
  <2>1. /\ Root(j) = IF source[j] \in Intfs THEN Root(source[j]) ELSE j
        /\ Path(j) = {j} \cup IF source[j] \in Intfs THEN Path(source[j]) ELSE {}
    BY <1>1, RootUnfolds, PathUnfolds
  <2>2. CASE source[j] \notin Intfs
    BY <1>3, <2>1, <2>2
  <2>3. CASE source[j] \in Intfs
    <3>1. <<source[j], n>> \in used /\ <<<<source[j], n>>, <<j, n>>>> \in chained
      BY <1>1, <2>1, <2>3 DEF ChainedUp
    <3>2. R[source[j]] < R[j] /\ R[source[j]] \in Nat /\ R[j] \in Nat
      BY <1>1, <2>3 DEF Ranked
    <3>3. k - 1 \in Nat /\ R[source[j]] <= k - 1 /\ (k - 1) + 1 = k
      BY <3>2
    <3>4. Comes(source[j])
      BY <1>4, <2>3, <3>2
    <3>5. <<source[j], n>> \in f[k - 1]
      BY <2>1, <2>3, <3>1, <3>3, <3>4
    <3> QED
      BY <1>2, <3>1, <3>3, <3>5
  <2> QED
    BY <2>2, <2>3
<1> HIDE DEF T
<1>5. Intfs \subseteq T
  BY <1>1, <1>4, RankInduction
<1>6. Comes(x)
  BY <1>5 DEF T
<1>7. <<x, n>> \in f[Cardinality(Intfs)]
  BY <1>1, <1>6
<1> QED
  BY <1>2, <1>7

\* An event used on a slave, directly or over any number of slaves in a row, is notified by
\* the signal at the root, whenever it was first used (EventSet.__getitem__ and isig._missing_event),
\* unless an interface between them had it in use before it was connected: for any design
\* whose connections, in whichever order they are made, can be ranked.
THEOREM EventsAreReached ==
  ASSUME NEW R \in [Intfs -> 0 .. Cardinality(Intfs)], Ranks(R)
  PROVE  WSpec => []EventsReach
<1> R \in Ranking
  BY DEF Ranking
<1>1. EventsInv(R) => EventsReach
  <2> SUFFICES ASSUME EventsInv(R), NEW e \in used, \A j \in Path(e[1]) : <<j, e[2]>> \notin early
               PROVE  e \in Reached(<<Root(e[1]), e[2]>>)
    BY DEF EventsReach
  <2>1. e[1] \in Intfs /\ e[2] \in Names /\ e = <<e[1], e[2]>>
    BY DEF EventsInv
  <2> QED
    BY <2>1, ComesDown
<1>2. WInit => EventsInv(R)
  BY EventsInitOK
<1>3. EventsInv(R) /\ [WNext]_wvars => EventsInv(R)'
  BY EventsNextOK
<1> QED
  BY <1>1, <1>2, <1>3, PTL DEF WSpec
=============================================================================
