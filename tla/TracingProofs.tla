--------------------------- MODULE TracingProofs ----------------------------
(***************************************************************************)
(* Proofs about module Tracing, for any signals, callbacks, step, letters  *)
(* and limits: no callback is lost, the codes of the traces differ, and    *)
(* the file that is written replays to the values the signals had.         *)
(***************************************************************************)
EXTENDS Tracing, WellFoundedInduction, TLAPS

-----------------------------------------------------------------------------
(* The invariant *)

Stamps == Nat \X Nat

Line == [kind : {"stamp"}, at : Stamps] \cup [kind : {"value"}, code : Code, val : TraceValues]

Records == [at : Stamps, val : UNION { [A -> TraceValues] : A \in SUBSET Signals }]

Shapes == tmp \in Seq(Line) /\ truth \in Seq(Records)

\* The callbacks that have left are the user's, and the header's at the end.
HooksKept ==
  /\ hooks \in [SimEvents -> Seq(UserCalls \cup Extensions)]
  /\ \A e \in SimEvents : hooks[e] = Without(Listed(e), ended[e])
  /\ ended \in [SimEvents -> SUBSET (UserCalls \cup Extensions)]
  /\ phase # "finished" => \A e \in SimEvents : ended[e] \subseteq UserCalls

Limited == phase # "finished" => delta <= MaxDeltas

Near == oldTime <= now /\ (phase \in {"loop", "evaluate"} => now <= oldTime + Step)

\* Codes are given in their order.
Below(c, d) == c[1] < d[1] \/ (c[1] = d[1] /\ (c[2] < d[2] \/ (c[2] = d[2] /\ c[3] < d[3])))

CodesOrdered ==
  /\ \A i, j \in DOMAIN traces : traces[i] = traces[j] => i = j
  /\ \A s \in Range(traces) : Below(codes[s], lastCode)
  /\ CodesDiffer

\* The last line of the code c has the value v.
LastLine(q, c, v) ==
  \E i \in DOMAIN q : Gives(q, i, c) /\ q[i].val = v /\ \A j \in i + 1 .. Len(q) : ~ Gives(q, j, c)

\* The lines q are of signals that are traced, and end with the values noted in sh.
TracedIn(q, sh) ==
  /\ \A i \in DOMAIN q : q[i].kind = "value" => \E s \in Range(traces) : q[i].code = codes[s]
  /\ \A s \in Signals : sh[s] # NoValue => s \in Range(traces) /\ LastLine(q, codes[s], sh[s])

LinesTraced == TracedIn(tmp, shown)

\* The timestamp under which lines are written, from the start of a time step on
Stamp == <<now, IF ~ traceDeltas THEN 0 ELSE IF phase = "evaluate" THEN delta
                ELSE IF delta = 0 THEN 0 ELSE delta - 1>>

IsStamp(q, i) == q[i].kind = "stamp"

RecordsOrdered == \A i, j \in DOMAIN truth : i <= j => NotAfter(truth[i].at, truth[j].at)

StampsOrdered ==
  /\ phase = "init" => tmp = <<>> /\ truth = <<>>
  /\ phase \in {"init", "timestep_start"} =>
       /\ \A i \in DOMAIN tmp : IsStamp(tmp, i) => tmp[i].at[1] < now
       /\ \A i \in DOMAIN truth : truth[i].at[1] < now
  /\ phase \notin {"init", "timestep_start"} =>
       /\ \E i \in DOMAIN tmp : IsStamp(tmp, i) /\ tmp[i].at = Stamp
       /\ \A i \in DOMAIN tmp : IsStamp(tmp, i) => NotAfter(tmp[i].at, Stamp)
       /\ \A i \in DOMAIN truth : NotAfter(truth[i].at, Stamp)
  /\ RecordsOrdered

TruthReplayed ==
  \A i \in DOMAIN truth : \A s \in DOMAIN truth[i].val :
    s \in Range(traces) /\ (LastOf(i) => Replayed(tmp, truth[i].at, codes[s], truth[i].val[s]))

FileKept == phase = "finished" => file = Without(tmp, Undeclared(tmp))

VInv == /\ VTypeOK /\ Limited /\ Shapes /\ HooksKept /\ Near
        /\ CodesOrdered /\ LinesTraced /\ StampsOrdered /\ TruthReplayed /\ FileKept

-----------------------------------------------------------------------------
(* Induction over numbers, and from it over sequences *)

\* A set of natural numbers has a smallest element.
LEMMA SmallestNumber ==
  ASSUME NEW S \in SUBSET Nat, S # {}
  PROVE  \E x \in S : \A y \in S : x <= y
<1>1. PICK x \in S : \A y \in S : ~ (<<y, x>> \in OpToRel(<, Nat))
  BY NatLessThanWellFounded, WFMin, Zenon
<1>2. \A y \in S : ~ (y < x)
  BY <1>1, Zenon DEF OpToRel
<1> QED
  BY <1>2

\* What holds at 0 and passes from k to k + 1 holds up to n.
LEMMA Reaches ==
  ASSUME NEW n \in Nat, NEW S, 0 \in S, \A k \in 0 .. n - 1 : k \in S => k + 1 \in S
  PROVE  0 .. n \subseteq S
<1> SUFFICES ASSUME ~ (0 .. n \subseteq S)
             PROVE  FALSE
  OBVIOUS
<1> DEFINE Gaps == (0 .. n) \ S
<1>1. PICK x \in Gaps : \A y \in Gaps : x <= y
  BY SmallestNumber, Gaps \in SUBSET Nat, Gaps # {}
<1>2. x \in 1 .. n
  BY <1>1
<1>3. x - 1 \in S
  BY <1>1, <1>2
<1> QED
  BY <1>1, <1>2, <1>3

\* The function that starts with `first' and goes on by the functions `step'
Computes(f, n, first, step) == \A k \in 0 .. n : f[k] = IF k = 0 THEN first ELSE step[k][f[k - 1]]

\* A recursion over 0 .. n with values in V defines a function.
LEMMA Recursion ==
  ASSUME NEW n \in Nat, NEW V, NEW first \in V, NEW step \in [1 .. n -> [V -> V]]
  PROVE  \E f \in [0 .. n -> V] : Computes(f, n, first, step)
<1> DEFINE Defined(f, j) == \A k \in 0 .. j : f[k] = IF k = 0 THEN first ELSE step[k][f[k - 1]]
           S == { j \in 0 .. n : \E f \in [0 .. j -> V] : Defined(f, j) }
<1>1. 0 \in S
  <2> DEFINE f == [k \in 0 .. 0 |-> first]
  <2>1. f \in [0 .. 0 -> V] /\ Defined(f, 0)
    OBVIOUS
  <2> HIDE DEF f, Defined
  <2> QED
    BY <2>1
<1>2. ASSUME NEW j \in 0 .. n - 1, j \in S
      PROVE  j + 1 \in S
  <2>1. PICK f \in [0 .. j -> V] : Defined(f, j)
    BY <1>2
  <2> DEFINE g == [k \in 0 .. j + 1 |-> IF k = j + 1 THEN step[j + 1][f[j]] ELSE f[k]]
  <2>2. step[j + 1][f[j]] \in V
    BY j + 1 \in 1 .. n, j \in 0 .. j
  <2>3. g \in [0 .. j + 1 -> V]
    BY <2>2
  <2>4. ASSUME NEW k \in 0 .. j + 1
        PROVE  g[k] = IF k = 0 THEN first ELSE step[k][g[k - 1]]
    <3>1. CASE k = j + 1
      BY <3>1
    <3>2. CASE k # j + 1
      <4>1. k \in 0 .. j /\ g[k] = f[k] /\ (k # 0 => g[k - 1] = f[k - 1])
        BY <3>2
      <4>2. f[k] = IF k = 0 THEN first ELSE step[k][f[k - 1]]
        BY <2>1, <4>1
      <4> QED
        BY <4>1, <4>2
    <3> QED
      BY <3>1, <3>2
  <2>5. Defined(g, j + 1)
    BY <2>4
  <2> HIDE DEF g, Defined
  <2> QED
    BY <2>3, <2>5
<1> HIDE DEF S
<1>3. 0 .. n \subseteq S
  BY <1>1, <1>2, Reaches
<1>4. n \in S
  BY <1>3
<1> QED
  BY <1>4 DEF S, Computes

\* A set of sequences that grows at the end has all of them.
Grows(G, S) == <<>> \in G /\ \A p \in Seq(S), x \in S : p \in G => Append(p, x) \in G

LEMMA SequencesReach ==
  ASSUME NEW S, NEW G, Grows(G, S)
  PROVE  Seq(S) \subseteq G
<1> SUFFICES ASSUME NEW q \in Seq(S)
             PROVE  q \in G
  OBVIOUS
<1> DEFINE K == { k \in 0 .. Len(q) : SubSeq(q, 1, k) \in G }
<1>1. 0 \in K
  <2>1. SubSeq(q, 1, 0) = <<>> /\ 0 \in 0 .. Len(q)
    OBVIOUS
  <2> QED
    BY <2>1, Zenon DEF Grows
<1>2. ASSUME NEW k \in 0 .. Len(q) - 1, k \in K
      PROVE  k + 1 \in K
  <2>1. SubSeq(q, 1, k) \in Seq(S) /\ q[k + 1] \in S
    OBVIOUS
  <2>2. SubSeq(q, 1, k + 1) = Append(SubSeq(q, 1, k), q[k + 1])
    OBVIOUS
  <2>3. SubSeq(q, 1, k) \in G /\ k + 1 \in 0 .. Len(q)
    BY <1>2
  <2>4. SubSeq(q, 1, k + 1) \in G
    BY <2>1, <2>2, <2>3, Zenon DEF Grows
  <2> QED
    BY <2>3, <2>4
<1>3. Len(q) \in K
  <2>1. Len(q) \in Nat
    OBVIOUS
  <2> HIDE DEF K
  <2>2. 0 .. Len(q) \subseteq K
    BY <1>1, <1>2, <2>1, Reaches
  <2> QED
    BY <2>1, <2>2
<1>4. SubSeq(q, 1, Len(q)) = q
  OBVIOUS
<1> QED
  BY <1>3, <1>4

-----------------------------------------------------------------------------
(* Lists with items left out *)

\* What Without collects after k items
Collects(w, q, R) ==
  \A k \in 0 .. Len(q) :
    w[k] = IF k = 0 THEN <<>> ELSE IF q[k] \in R THEN w[k - 1] ELSE Append(w[k - 1], q[k])

LEMMA WithoutCollects ==
  ASSUME NEW S, NEW q \in Seq(S), NEW R
  PROVE  \E w \in [0 .. Len(q) -> Seq(S)] : Collects(w, q, R) /\ Without(q, R) = w[Len(q)]
<1> DEFINE n == Len(q)
           V == Seq(S)
           step == [k \in 1 .. n |-> [u \in V |-> IF q[k] \in R THEN u ELSE Append(u, q[k])]]
           body(w) == [k \in 0 .. n |-> IF k = 0 THEN <<>> ELSE IF q[k] \in R THEN w[k - 1]
                                        ELSE Append(w[k - 1], q[k])]
<1>1. n \in Nat /\ <<>> \in V
  OBVIOUS
<1>2. step \in [1 .. n -> [V -> V]]
  OBVIOUS
<1>3. PICK f \in [0 .. n -> V] : Computes(f, n, <<>>, step)
  <2> HIDE DEF step, V, n
  <2> QED
    BY <1>1, <1>2, Recursion
<1>4. f = body(f)
  <2>1. ASSUME NEW k \in 0 .. n
        PROVE  f[k] = body(f)[k]
    <3>1. k # 0 => k \in 1 .. n /\ k - 1 \in 0 .. n
      OBVIOUS
    <3> QED
      BY <1>3, <2>1, <3>1 DEF Computes
  <2> QED
    BY <2>1
<1> DEFINE w == CHOOSE u : u = body(u)
<1>5. w = body(w)
  BY <1>4
<1>6. Without(q, R) = w[n]
  BY DEF Without
<1> HIDE DEF w
<1> DEFINE K == { k \in 0 .. n : w[k] = f[k] }
<1>7. 0 \in K
  BY <1>1, <1>4, <1>5
<1>8. ASSUME NEW k \in 0 .. n - 1, k \in K
      PROVE  k + 1 \in K
  <2>1. k + 1 \in 0 .. n /\ k + 1 # 0 /\ (k + 1) - 1 = k
    OBVIOUS
  <2>2. w[k + 1] = body(w)[k + 1] /\ f[k + 1] = body(f)[k + 1]
    BY <1>4, <1>5
  <2> QED
    BY <1>8, <2>1, <2>2
<1>9. \A k \in 0 .. n : w[k] = f[k]
  <2> HIDE DEF K
  <2>1. 0 .. n \subseteq K
    BY <1>1, <1>7, <1>8, Reaches
  <2> QED
    BY <2>1 DEF K
<1>10. Collects(f, q, R)
  <2>1. ASSUME NEW k \in 0 .. n
        PROVE  f[k] = IF k = 0 THEN <<>> ELSE IF q[k] \in R THEN f[k - 1] ELSE Append(f[k - 1], q[k])
    <3>1. f[k] = body(f)[k]
      BY <1>4
    <3> QED
      BY <3>1
  <2> QED
    BY <2>1 DEF Collects
<1> QED
  BY <1>1, <1>6, <1>9, <1>10

LEMMA WithoutTyped ==
  ASSUME NEW S, NEW q \in Seq(S), NEW R
  PROVE  Without(q, R) \in Seq(S) /\ (q = <<>> => Without(q, R) = <<>>)
<1>1. PICK w \in [0 .. Len(q) -> Seq(S)] : Collects(w, q, R) /\ Without(q, R) = w[Len(q)]
  BY WithoutCollects
<1>2. Len(q) \in 0 .. Len(q)
  OBVIOUS
<1>3. ASSUME q = <<>>
      PROVE  w[Len(q)] = <<>>
  <2>1. Len(q) = 0
    BY <1>3
  <2> QED
    BY <1>1, <1>2, <2>1 DEF Collects
<1> QED
  BY <1>1, <1>2, <1>3

LEMMA WithoutAppend ==
  ASSUME NEW S, NEW q \in Seq(S), NEW x \in S, NEW R
  PROVE  Without(Append(q, x), R) = IF x \in R THEN Without(q, R) ELSE Append(Without(q, R), x)
<1> DEFINE n == Len(q)
           p == Append(q, x)
<1>1. /\ p \in Seq(S) /\ n \in Nat /\ Len(p) = n + 1
      /\ \A k \in 1 .. n : p[k] = q[k]
      /\ p[n + 1] = x
  OBVIOUS
<1> HIDE DEF p
<1>2. PICK w \in [0 .. n -> Seq(S)] : Collects(w, q, R) /\ Without(q, R) = w[n]
  BY WithoutCollects
<1>3. PICK u \in [0 .. n + 1 -> Seq(S)] : Collects(u, p, R) /\ Without(p, R) = u[n + 1]
  BY <1>1, WithoutCollects
<1>4. \A k \in 0 .. n : w[k] = IF k = 0 THEN <<>> ELSE IF q[k] \in R THEN w[k - 1] ELSE Append(w[k - 1], q[k])
  BY <1>2 DEF Collects
<1>5. \A k \in 0 .. n + 1 : u[k] = IF k = 0 THEN <<>> ELSE IF p[k] \in R THEN u[k - 1] ELSE Append(u[k - 1], p[k])
  BY <1>1, <1>3 DEF Collects
<1> HIDE DEF n
<1> DEFINE K == { k \in 0 .. n : u[k] = w[k] }
<1>6. 0 \in K
  BY <1>1, <1>4, <1>5
<1>7. ASSUME NEW k \in 0 .. n - 1, k \in K
      PROVE  k + 1 \in K
  <2>1. k + 1 \in 0 .. n /\ k + 1 \in 0 .. n + 1 /\ k + 1 # 0 /\ (k + 1) - 1 = k /\ k + 1 \in 1 .. n
    BY <1>1
  <2>2. p[k + 1] = q[k + 1] /\ u[k] = w[k]
    BY <1>1, <1>7, <2>1
  <2>3. w[k + 1] = IF q[k + 1] \in R THEN w[k] ELSE Append(w[k], q[k + 1])
    BY <1>4, <2>1
  <2>4. u[k + 1] = IF p[k + 1] \in R THEN u[k] ELSE Append(u[k], p[k + 1])
    BY <1>5, <2>1
  <2> QED
    BY <2>1, <2>2, <2>3, <2>4
<1>8. u[n] = w[n]
  <2> HIDE DEF K
  <2>1. 0 .. n \subseteq K
    BY <1>1, <1>6, <1>7, Reaches
  <2>2. n \in 0 .. n
    BY <1>1
  <2> QED
    BY <2>1, <2>2 DEF K
<1>9. n + 1 \in 0 .. n + 1 /\ n + 1 # 0 /\ (n + 1) - 1 = n
  BY <1>1
<1>10. u[n + 1] = IF p[n + 1] \in R THEN u[n] ELSE Append(u[n], p[n + 1])
  BY <1>5, <1>9
<1>11. u[n + 1] = IF x \in R THEN w[n] ELSE Append(w[n], x)
  BY <1>1, <1>8, <1>10
<1> QED
  BY <1>2, <1>3, <1>11 DEF p

LEMMA WithoutConcat ==
  ASSUME NEW S, NEW q \in Seq(S), NEW r \in Seq(S), NEW R
  PROVE  Without(q \o r, R) = Without(q, R) \o Without(r, R)
<1> DEFINE G == { p \in Seq(S) : Without(q \o p, R) = Without(q, R) \o Without(p, R) }
<1>1. <<>> \in G
  <2>0. <<>> \in Seq(S)
    OBVIOUS
  <2>1. Without(<<>>, R) = <<>> /\ Without(q, R) \in Seq(S)
    BY <2>0, WithoutTyped, Zenon
  <2>2. q \o <<>> = q /\ Without(q, R) \o <<>> = Without(q, R)
    BY <2>1
  <2> QED
    BY <2>0, <2>1, <2>2
<1>2. ASSUME NEW p \in Seq(S), NEW x \in S, p \in G
      PROVE  Append(p, x) \in G
  <2>1. /\ Without(q, R) \in Seq(S) /\ Without(p, R) \in Seq(S)
        /\ q \o p \in Seq(S) /\ Append(p, x) \in Seq(S) /\ q \o Append(p, x) = Append(q \o p, x)
    BY WithoutTyped
  <2>2. Without(Append(q \o p, x), R) = IF x \in R THEN Without(q \o p, R) ELSE Append(Without(q \o p, R), x)
    <3> DEFINE y == q \o p
    <3>1. y \in Seq(S)
      BY <2>1
    <3> HIDE DEF y
    <3>2. Without(Append(y, x), R) = IF x \in R THEN Without(y, R) ELSE Append(Without(y, R), x)
      BY <3>1, WithoutAppend, Zenon
    <3> QED
      BY <3>2 DEF y
  <2>3. Without(Append(p, x), R) = IF x \in R THEN Without(p, R) ELSE Append(Without(p, R), x)
    BY WithoutAppend
  <2>4. Without(q, R) \o Append(Without(p, R), x) = Append(Without(q, R) \o Without(p, R), x)
    BY <2>1
  <2> QED
    BY <1>2, <2>1, <2>2, <2>3, <2>4
<1>3. Grows(G, S)
  BY <1>1, <1>2, Zenon DEF Grows
<1> HIDE DEF G
<1>4. r \in G
  BY <1>3, SequencesReach
<1> QED
  BY <1>4 DEF G

LEMMA WithoutTwice ==
  ASSUME NEW S, NEW q \in Seq(S), NEW A, NEW B
  PROVE  Without(Without(q, A), B) = Without(q, A \cup B)
<1> DEFINE G == { p \in Seq(S) : Without(Without(p, A), B) = Without(p, A \cup B) }
<1>1. <<>> \in G
  <2>1. <<>> \in Seq(S)
    OBVIOUS
  <2>2. Without(<<>>, A) = <<>> /\ Without(<<>>, B) = <<>> /\ Without(<<>>, A \cup B) = <<>>
    BY <2>1, WithoutTyped
  <2> QED
    BY <2>1, <2>2
<1>2. ASSUME NEW p \in Seq(S), NEW x \in S, p \in G
      PROVE  Append(p, x) \in G
  <2>1. Append(p, x) \in Seq(S) /\ Without(p, A) \in Seq(S)
    BY WithoutTyped
  <2>2. Without(Append(p, x), A) = IF x \in A THEN Without(p, A) ELSE Append(Without(p, A), x)
    BY WithoutAppend
  <2>3. Without(Append(p, x), A \cup B) = IF x \in A \cup B THEN Without(p, A \cup B)
                                          ELSE Append(Without(p, A \cup B), x)
    BY WithoutAppend
  <2>4. Without(Append(Without(p, A), x), B) = IF x \in B THEN Without(Without(p, A), B)
                                               ELSE Append(Without(Without(p, A), B), x)
    BY <2>1, WithoutAppend
  <2>5. Without(Without(p, A), B) = Without(p, A \cup B)
    BY <1>2
  <2>6. x \in A \cup B <=> x \in A \/ x \in B
    OBVIOUS
  <2>7. Without(Without(Append(p, x), A), B) = Without(Append(p, x), A \cup B)
    <3>1. CASE x \in A
      BY <2>2, <2>3, <2>5, <2>6, <3>1, Zenon
    <3>2. CASE x \notin A
      <4>1. Without(Append(p, x), A) = Append(Without(p, A), x)
        BY <2>2, <3>2, Zenon
      <4>2. CASE x \in B
        BY <2>3, <2>4, <2>5, <2>6, <4>1, <4>2, Zenon
      <4>3. CASE x \notin B
        BY <2>3, <2>4, <2>5, <2>6, <3>2, <4>1, <4>3, Zenon
      <4> QED
        BY <4>2, <4>3
    <3> QED
      BY <3>1, <3>2
  <2> QED
    BY <2>1, <2>7
<1>3. Grows(G, S)
  BY <1>1, <1>2, Zenon DEF Grows
<1> HIDE DEF G
<1>4. q \in G
  BY <1>3, SequencesReach
<1> QED
  BY <1>4 DEF G

\* Where the items that are left stood
Places(g, q, R) ==
  LET u == Without(q, R)
  IN  /\ g \in [1 .. Len(u) -> 1 .. Len(q)]
      /\ \A j \in 1 .. Len(u) : u[j] = q[g[j]] /\ q[g[j]] \notin R
      /\ \A i, j \in 1 .. Len(u) : i < j => g[i] < g[j]
      /\ \A k \in 1 .. Len(q) : q[k] \notin R => \E j \in 1 .. Len(u) : g[j] = k

LEMMA WithoutPlaces ==
  ASSUME NEW S, NEW q \in Seq(S), NEW R
  PROVE  \E g : Places(g, q, R)
<1> DEFINE G == { p \in Seq(S) : \E g : Places(g, p, R) }
<1>1. <<>> \in G
  <2>1. <<>> \in Seq(S) /\ Without(<<>>, R) = <<>>
    BY WithoutTyped, <<>> \in Seq(S)
  <2>2. Places(<<>>, <<>>, R)
    BY <2>1 DEF Places
  <2> QED
    BY <2>1, <2>2
<1>2. ASSUME NEW p \in Seq(S), NEW x \in S, p \in G
      PROVE  Append(p, x) \in G
  <2> DEFINE u == Without(p, R)
             n == Len(p)
             m == Len(u)
             p2 == Append(p, x)
  <2>1. PICK g : Places(g, p, R)
    BY <1>2
  <2>2. u \in Seq(S) /\ n \in Nat /\ m \in Nat
    BY WithoutTyped
  <2>3. p2 \in Seq(S) /\ Len(p2) = n + 1 /\ (\A k \in 1 .. n : p2[k] = p[k]) /\ p2[n + 1] = x
    OBVIOUS
  <2>4. Without(p2, R) = IF x \in R THEN u ELSE Append(u, x)
    BY WithoutAppend
  <2>5. /\ g \in [1 .. m -> 1 .. n]
        /\ \A j \in 1 .. m : u[j] = p[g[j]] /\ p[g[j]] \notin R
        /\ \A i, j \in 1 .. m : i < j => g[i] < g[j]
        /\ \A k \in 1 .. n : p[k] \notin R => \E j \in 1 .. m : g[j] = k
    BY <2>1 DEF Places
  <2> HIDE DEF u, n, m, p2
  <2>6. CASE x \in R
    <3>1. Without(p2, R) = u
      BY <2>4, <2>6
    <3>2. g \in [1 .. m -> 1 .. n + 1]
      BY <2>2, <2>5
    <3>3. \A j \in 1 .. m : u[j] = p2[g[j]] /\ p2[g[j]] \notin R
      BY <2>2, <2>3, <2>5
    <3>4. \A k \in 1 .. n + 1 : p2[k] \notin R => \E j \in 1 .. m : g[j] = k
      BY <2>2, <2>3, <2>5, <2>6
    <3>5. Places(g, p2, R)
      BY <2>3, <2>5, <3>1, <3>2, <3>3, <3>4 DEF Places, m
    <3> QED
      BY <2>3, <3>5 DEF p2
  <2>7. CASE x \notin R
    <3> DEFINE h == [j \in 1 .. m + 1 |-> IF j = m + 1 THEN n + 1 ELSE g[j]]
    <3>1. Without(p2, R) = Append(u, x)
      BY <2>4, <2>7
    <3>2. Len(Append(u, x)) = m + 1 /\ (\A j \in 1 .. m : Append(u, x)[j] = u[j]) /\ Append(u, x)[m + 1] = x
      BY <2>2 DEF m
    <3>3. h \in [1 .. m + 1 -> 1 .. n + 1]
      BY <2>2, <2>5
    <3>4. ASSUME NEW j \in 1 .. m + 1
          PROVE  Append(u, x)[j] = p2[h[j]] /\ p2[h[j]] \notin R
      <4>1. CASE j = m + 1
        BY <2>3, <2>7, <3>2, <4>1
      <4>2. CASE j # m + 1
        <5>1. j \in 1 .. m /\ g[j] \in 1 .. n /\ h[j] = g[j]
          BY <2>2, <2>5, <4>2
        <5>2. p2[g[j]] = p[g[j]] /\ Append(u, x)[j] = u[j]
          BY <2>3, <3>2, <5>1
        <5> QED
          BY <2>5, <5>1, <5>2, Zenon
      <4> QED
        BY <4>1, <4>2
    <3>5. ASSUME NEW i \in 1 .. m + 1, NEW j \in 1 .. m + 1, i < j
          PROVE  h[i] < h[j]
      <4>1. i \in 1 .. m /\ g[i] \in 1 .. n
        BY <2>2, <2>5, <3>5
      <4>2. CASE j = m + 1
        BY <2>2, <4>1, <4>2
      <4>3. CASE j # m + 1
        BY <2>2, <2>5, <3>5, <4>1, <4>3
      <4> QED
        BY <4>2, <4>3
    <3>6. ASSUME NEW k \in 1 .. n + 1, p2[k] \notin R
          PROVE  \E j \in 1 .. m + 1 : h[j] = k
      <4>1. CASE k = n + 1
        BY <2>2, <4>1
      <4>2. CASE k # n + 1
        <5>1. k \in 1 .. n /\ p[k] \notin R
          BY <2>2, <2>3, <3>6, <4>2
        <5>2. PICK j \in 1 .. m : g[j] = k
          BY <2>5, <5>1
        <5>3. j \in 1 .. m + 1 /\ h[j] = k
          BY <2>2, <5>2
        <5> QED
          BY <5>3
      <4> QED
        BY <4>1, <4>2
    <3> HIDE DEF h
    <3>7. Places(h, p2, R)
      BY <2>3, <3>1, <3>2, <3>3, <3>4, <3>5, <3>6 DEF Places
    <3> QED
      BY <2>3, <3>7 DEF p2
  <2> QED
    BY <2>6, <2>7
<1>3. Grows(G, S)
  BY <1>1, <1>2, Zenon DEF Grows
<1> HIDE DEF G
<1>4. q \in G
  BY <1>3, SequencesReach
<1> QED
  BY <1>4 DEF G

LEMMA WithoutOthers ==
  ASSUME NEW S, NEW q \in Seq(S), NEW R, \A i \in DOMAIN q : q[i] \notin R
  PROVE  Without(q, R) = q
<1>1. PICK w \in [0 .. Len(q) -> Seq(S)] : Collects(w, q, R) /\ Without(q, R) = w[Len(q)]
  BY WithoutCollects
<1> DEFINE n == Len(q)
           K == { k \in 0 .. n : w[k] = SubSeq(q, 1, k) }
<1>2. n \in Nat /\ DOMAIN q = 1 .. n
  OBVIOUS
<1>3. 0 \in K
  <2>1. SubSeq(q, 1, 0) = <<>> /\ w[0] = <<>>
    BY <1>1, <1>2 DEF Collects
  <2> QED
    BY <1>2, <2>1
<1>4. ASSUME NEW k \in 0 .. n - 1, k \in K
      PROVE  k + 1 \in K
  <2>1. k + 1 \in 0 .. n /\ k + 1 \in 1 .. n /\ k + 1 # 0 /\ (k + 1) - 1 = k /\ w[k] = SubSeq(q, 1, k)
    BY <1>2, <1>4
  <2>2. w[k + 1] = Append(w[k], q[k + 1])
    BY <1>1, <1>2, <2>1 DEF Collects
  <2>3. SubSeq(q, 1, k + 1) = Append(SubSeq(q, 1, k), q[k + 1])
    BY <2>1
  <2> QED
    BY <2>1, <2>2, <2>3
<1>5. n \in K
  <2> HIDE DEF K, n
  <2>1. 0 .. n \subseteq K
    BY <1>2, <1>3, <1>4, Reaches
  <2> QED
    BY <1>2, <2>1
<1>6. SubSeq(q, 1, n) = q
  OBVIOUS
<1> QED
  BY <1>1, <1>5, <1>6

LEMMA WithoutOne ==
  ASSUME NEW S, NEW x \in S, NEW R
  PROVE  Without(<<x>>, R) = IF x \in R THEN <<>> ELSE <<x>>
<1>1. <<>> \in Seq(S) /\ Append(<<>>, x) = <<x>>
  OBVIOUS
<1>2. Without(Append(<<>>, x), R) = IF x \in R THEN Without(<<>>, R) ELSE Append(Without(<<>>, R), x)
  <2>1. PICK none \in Seq(S) : none = <<>>
    BY <1>1
  <2>2. Without(Append(none, x), R) = IF x \in R THEN Without(none, R) ELSE Append(Without(none, R), x)
    BY WithoutAppend
  <2> QED
    BY <2>1, <2>2, Zenon
<1>3. Without(<<>>, R) = <<>>
  BY <1>1, WithoutTyped, Zenon
<1> QED
  BY <1>1, <1>2, <1>3

LEMMA WithoutFirst ==
  ASSUME NEW S, NEW x \in S, NEW r \in Seq(S), NEW R
  PROVE  Without(<<x>> \o r, R) = IF x \in R THEN Without(r, R) ELSE <<x>> \o Without(r, R)
<1>1. Without(<<x>> \o r, R) = Without(<<x>>, R) \o Without(r, R)
  <2>0. <<x>> \in Seq(S)
    OBVIOUS
  <2>1. PICK p \in Seq(S) : p = <<x>>
    BY <2>0
  <2>2. Without(p \o r, R) = Without(p, R) \o Without(r, R)
    BY WithoutConcat
  <2> QED
    BY <2>1, <2>2
<1>2. Without(<<x>>, R) = IF x \in R THEN <<>> ELSE <<x>>
  BY WithoutOne
<1>3. Without(r, R) \in Seq(S)
  BY WithoutTyped
<1>4. <<>> \o Without(r, R) = Without(r, R)
  BY <1>3
<1> QED
  BY <1>1, <1>2, <1>4

LEMMA RemoveMiddle ==
  ASSUME NEW S, NEW p \in Seq(S), NEW x \in S, NEW r \in Seq(S)
  PROVE  RemoveAt((p \o <<x>>) \o r, Len(p) + 1) = p \o r
<1> DEFINE a == p \o <<x>>
           v == a \o r
           n == Len(p)
<1>1. a \in Seq(S) /\ Len(a) = n + 1 /\ (\A k \in 1 .. n : a[k] = p[k]) /\ n \in Nat
  OBVIOUS
<1> HIDE DEF a
<1>2. /\ v \in Seq(S) /\ Len(v) = n + 1 + Len(r)
      /\ \A k \in 1 .. n + 1 : v[k] = a[k]
      /\ \A k \in 1 .. Len(r) : v[n + 1 + k] = r[k]
  BY <1>1
<1> HIDE DEF v
<1>3. SubSeq(v, 1, (n + 1) - 1) = p
  BY <1>1, <1>2
<1>4. SubSeq(v, (n + 1) + 1, Len(v)) = r
  BY <1>1, <1>2
<1> QED
  BY <1>3, <1>4, Zenon DEF RemoveAt, v, a

LEMMA WithoutCons ==
  ASSUME NEW S, NEW x \in S, NEW r \in Seq(S), NEW R
  PROVE  Without(Cons(x, r), R) = IF x \in R THEN Without(r, R) ELSE Cons(x, Without(r, R))
BY WithoutFirst DEF Cons

LEMMA RemoveCons ==
  ASSUME NEW S, NEW p \in Seq(S), NEW x \in S, NEW r \in Seq(S)
  PROVE  RemoveAt(p \o Cons(x, r), Len(p) + 1) = p \o r
<1>1. p \o Cons(x, r) = (p \o <<x>>) \o r
  BY DEF Cons
<1>2. RemoveAt((p \o <<x>>) \o r, Len(p) + 1) = p \o r
  BY RemoveMiddle
<1> QED
  BY <1>1, <1>2, Zenon

\* Deleting the expired callbacks by their places, from the last on, takes out just these.
LEMMA DeletedIsWithout ==
  ASSUME NEW S, NEW q \in Seq(S), NEW R
  PROVE  Deleted(q, R) = Without(q, R)
<1> DEFINE n == Len(q)
           body(d) == [k \in 0 .. n |-> IF k = 0 THEN q ELSE IF q[n + 1 - k] \in R
                                        THEN RemoveAt(d[k - 1], n + 1 - k) ELSE d[k - 1]]
           done(i) == SubSeq(q, 1, i) \o Without(SubSeq(q, i + 1, n), R)
           f == [k \in 0 .. n |-> done(n - k)]
<1>1. n \in Nat
  OBVIOUS
<1>2. \A i \in 0 .. n : SubSeq(q, i + 1, n) \in Seq(S) /\ Without(SubSeq(q, i + 1, n), R) \in Seq(S)
  <2>1. \A i \in 0 .. n : SubSeq(q, i + 1, n) \in Seq(S)
    OBVIOUS
  <2> QED
    BY <2>1, WithoutTyped
<1>3. done(n) = q
  <2>1. SubSeq(q, n + 1, n) = <<>> /\ SubSeq(q, 1, n) = q /\ <<>> \in Seq(S)
    OBVIOUS
  <2>2. Without(<<>>, R) = <<>>
    BY <2>1, WithoutTyped, Zenon
  <2>3. q \o <<>> = q
    OBVIOUS
  <2> QED
    BY <2>1, <2>2, <2>3, Zenon
<1>4. ASSUME NEW i \in 1 .. n
      PROVE  done(i - 1) = IF q[i] \in R THEN RemoveAt(done(i), i) ELSE done(i)
  <2>1. PICK p \in Seq(S) : p = SubSeq(q, 1, i - 1)
    <3>1. i - 1 \in 0 .. Len(q)
      OBVIOUS
    <3>2. SubSeq(q, 1, i - 1) \in Seq(S)
      BY <3>1
    <3> QED
      BY <3>2
  <2>2. PICK r \in Seq(S) : r = SubSeq(q, i + 1, n)
    BY <1>2, i \in 0 .. n
  <2>3. PICK u \in Seq(S) : u = Without(r, R)
    BY WithoutTyped
  <2>4. PICK x \in S : x = q[i]
    OBVIOUS
  <2>5. SubSeq(q, i, n) = Cons(x, r) /\ SubSeq(q, 1, i) = p \o <<x>> /\ Len(p) + 1 = i
    BY <2>1, <2>2, <2>4 DEF Cons
  <2>6. (p \o <<x>>) \o u = p \o Cons(x, u)
    BY DEF Cons
  <2>7. done(i - 1) = p \o Without(Cons(x, r), R)
    BY <2>1, <2>5, (i - 1) + 1 = i
  <2>8. done(i) = p \o Cons(x, u)
    BY <2>2, <2>3, <2>5, <2>6
  <2> HIDE DEF done
  <2>9. Without(Cons(x, r), R) = IF x \in R THEN u ELSE Cons(x, u)
    <3>1. Without(Cons(x, r), R) = IF x \in R THEN Without(r, R) ELSE Cons(x, Without(r, R))
      BY WithoutCons
    <3> QED
      BY <2>3, <3>1
  <2>10. RemoveAt(done(i), i) = p \o u
    <3>1. RemoveAt(p \o Cons(x, u), Len(p) + 1) = p \o u
      BY RemoveCons
    <3> QED
      BY <2>5, <2>8, <3>1, Zenon
  <2>11. CASE x \in R
    BY <2>4, <2>7, <2>9, <2>10, <2>11
  <2>12. CASE x \notin R
    BY <2>4, <2>7, <2>8, <2>9, <2>12
  <2> QED
    BY <2>11, <2>12
<1>5. done(0) = Without(q, R)
  <2>1. SubSeq(q, 1, 0) = <<>> /\ SubSeq(q, 0 + 1, n) = q
    OBVIOUS
  <2>2. <<>> \o Without(q, R) = Without(q, R)
    BY WithoutTyped
  <2> QED
    BY <2>1, <2>2
<1> HIDE DEF done
<1>6. f = body(f)
  <2>1. ASSUME NEW k \in 0 .. n
        PROVE  f[k] = body(f)[k]
    <3>1. CASE k = 0
      BY <1>1, <1>3, <3>1
    <3>2. CASE k # 0
      <4> DEFINE i == n + 1 - k
      <4>1. i \in 1 .. n /\ k - 1 \in 0 .. n /\ n - k = i - 1 /\ n - (k - 1) = i
        BY <1>1, <3>2
      <4>2. f[k] = done(i - 1) /\ f[k - 1] = done(i)
        BY <4>1
      <4>3. done(i - 1) = IF q[i] \in R THEN RemoveAt(done(i), i) ELSE done(i)
        BY <1>4, <4>1
      <4> QED
        BY <3>2, <4>2, <4>3
    <3> QED
      BY <3>1, <3>2
  <2> QED
    BY <2>1
<1> DEFINE d == CHOOSE u : u = body(u)
<1>7. d = body(d)
  BY <1>6
<1>8. Deleted(q, R) = d[n]
  BY DEF Deleted
<1> HIDE DEF d
<1> DEFINE K == { k \in 0 .. n : d[k] = f[k] }
<1>9. 0 \in K
  <2>1. 0 \in 0 .. n /\ d[0] = q
    BY <1>1, <1>7
  <2>2. f[0] = done(n)
    BY <1>1
  <2> HIDE DEF f
  <2> QED
    BY <1>3, <2>1, <2>2
<1>10. ASSUME NEW k \in 0 .. n - 1, k \in K
       PROVE  k + 1 \in K
  <2>1. k + 1 \in 0 .. n /\ k + 1 # 0 /\ (k + 1) - 1 = k /\ d[k] = f[k]
    BY <1>1, <1>10
  <2>2. d[k + 1] = body(d)[k + 1] /\ f[k + 1] = body(f)[k + 1]
    BY <1>6, <1>7
  <2> HIDE DEF f
  <2> QED
    BY <2>1, <2>2
<1>11. d[n] = f[n]
  <2> HIDE DEF K, n
  <2>1. 0 .. n \subseteq K
    BY <1>1, <1>9, <1>10, Reaches
  <2>2. n \in K
    BY <1>1, <2>1
  <2> QED
    BY <2>2 DEF K
<1>12. f[n] = done(0)
  BY <1>1
<1> QED
  BY <1>5, <1>8, <1>11, <1>12

-----------------------------------------------------------------------------
(* The callbacks of an event *)

\* What Called computes up to n
Calls(f, n, q, st) == f = [k \in 0 .. n |-> IF k = 0 THEN st ELSE Effect(f[k - 1], q[k])]

LEMMA CalledComputes ==
  ASSUME NEW n \in Nat, NEW q, NEW st
  PROVE  \E f : Calls(f, n, q, st)
<1> DEFINE Defined(f, j) == f = [k \in 0 .. j |-> IF k = 0 THEN st ELSE Effect(f[k - 1], q[k])]
           S == { j \in 0 .. n : \E f : Defined(f, j) }
<1>1. 0 \in S
  <2> DEFINE f == [k \in 0 .. 0 |-> st]
  <2>1. f = [k \in 0 .. 0 |-> IF k = 0 THEN st ELSE Effect(f[k - 1], q[k])]
    OBVIOUS
  <2>2. Defined(f, 0)
    BY <2>1
  <2> HIDE DEF f, Defined
  <2> QED
    BY <2>2
<1>2. ASSUME NEW j \in 0 .. n - 1, j \in S
      PROVE  j + 1 \in S
  <2>1. PICK f : Defined(f, j)
    BY <1>2
  <2> DEFINE g == [k \in 0 .. j + 1 |-> IF k = j + 1 THEN Effect(f[j], q[j + 1]) ELSE f[k]]
             body == [k \in 0 .. j + 1 |-> IF k = 0 THEN st ELSE Effect(g[k - 1], q[k])]
  <2>2. ASSUME NEW k \in 0 .. j + 1
        PROVE  g[k] = IF k = 0 THEN st ELSE Effect(g[k - 1], q[k])
    <3>1. CASE k = j + 1
      <4>1. g[k] = Effect(f[j], q[j + 1]) /\ g[k - 1] = f[j] /\ k # 0
        BY <3>1
      <4> QED
        BY <3>1, <4>1
    <3>2. CASE k # j + 1
      <4>1. k \in 0 .. j /\ g[k] = f[k] /\ (k # 0 => g[k - 1] = f[k - 1])
        BY <3>2
      <4> HIDE DEF g
      <4>2. f[k] = IF k = 0 THEN st ELSE Effect(f[k - 1], q[k])
        BY <2>1, <4>1
      <4> QED
        BY <4>1, <4>2
    <3> QED
      BY <3>1, <3>2
  <2>3. g = body
    BY <2>2
  <2>4. Defined(g, j + 1)
    BY <2>3
  <2> HIDE DEF g, Defined, body
  <2> QED
    BY <2>4
<1> HIDE DEF S
<1>3. 0 .. n \subseteq S
  BY <1>1, <1>2, Reaches
<1>4. n \in S
  BY <1>3
<1> QED
  BY <1>4 DEF S, Calls

\* The state after k callbacks
CallsDone(f, q, st) ==
  \A k \in 0 .. Len(q) : f[k] = IF k = 0 THEN st ELSE Effect(f[k - 1], q[k])

LEMMA CalledIs ==
  ASSUME NEW S, NEW q \in Seq(S), NEW st
  PROVE  \E f : CallsDone(f, q, st) /\ Called(q, st) = f[Len(q)]
<1> DEFINE n == Len(q)
           body(f) == [k \in 0 .. n |-> IF k = 0 THEN st ELSE Effect(f[k - 1], q[k])]
           f == CHOOSE u : u = body(u)
<1>1. PICK u : Calls(u, n, q, st)
  <2>1. n \in Nat
    OBVIOUS
  <2> QED
    BY <2>1, CalledComputes, Zenon
<1>2. f = body(f)
  <2>1. u = body(u)
    BY <1>1, Zenon DEF Calls
  <2> QED
    BY <2>1, Zenon
<1>3. Called(q, st) = f[n]
  BY DEF Called
<1> HIDE DEF f
<1>4. CallsDone(f, q, st)
  <2>1. ASSUME NEW k \in 0 .. n
        PROVE  f[k] = IF k = 0 THEN st ELSE Effect(f[k - 1], q[k])
    <3>1. f[k] = body(f)[k]
      BY <1>2
    <3> QED
      BY <3>1
  <2> QED
    BY <2>1 DEF CallsDone
<1> QED
  BY <1>3, <1>4

LEMMA CalledNone ==
  ASSUME NEW st
  PROVE  Called(<<>>, st) = st
<1>1. PICK f : CallsDone(f, <<>>, st) /\ Called(<<>>, st) = f[Len(<<>>)]
  BY CalledIs, <<>> \in Seq({})
<1> QED
  BY <1>1 DEF CallsDone

LEMMA CalledAppend ==
  ASSUME NEW S, NEW q \in Seq(S), NEW x \in S, NEW st
  PROVE  Called(Append(q, x), st) = Effect(Called(q, st), x)
<1>1. PICK n \in Nat : n = Len(q)
  OBVIOUS
<1>2. PICK p \in Seq(S) : p = Append(q, x)
  <2>1. Append(q, x) \in Seq(S)
    OBVIOUS
  <2> QED
    BY <2>1
<1>3. Len(p) = n + 1 /\ (\A k \in 1 .. n : p[k] = q[k]) /\ p[n + 1] = x
  BY <1>1, <1>2
<1>4. PICK f : CallsDone(f, q, st) /\ Called(q, st) = f[n]
  BY <1>1, CalledIs
<1>5. PICK g : CallsDone(g, p, st) /\ Called(p, st) = g[n + 1]
  BY <1>3, CalledIs
<1>6. \A k \in 0 .. n : f[k] = IF k = 0 THEN st ELSE Effect(f[k - 1], q[k])
  BY <1>1, <1>4 DEF CallsDone
<1>7. \A k \in 0 .. n + 1 : g[k] = IF k = 0 THEN st ELSE Effect(g[k - 1], p[k])
  BY <1>3, <1>5 DEF CallsDone
<1> DEFINE K == { k \in 0 .. n : g[k] = f[k] }
<1>8. 0 \in K
  BY <1>6, <1>7
<1>9. ASSUME NEW k \in 0 .. n - 1, k \in K
      PROVE  k + 1 \in K
  <2>1. k + 1 \in 0 .. n /\ k + 1 \in 0 .. n + 1 /\ k + 1 # 0 /\ (k + 1) - 1 = k /\ k + 1 \in 1 .. n
    OBVIOUS
  <2>2. p[k + 1] = q[k + 1] /\ g[k] = f[k]
    BY <1>3, <1>9, <2>1
  <2>3. f[k + 1] = Effect(f[k], q[k + 1])
    BY <1>6, <2>1
  <2>4. g[k + 1] = Effect(g[k], p[k + 1])
    BY <1>7, <2>1
  <2> QED
    BY <2>1, <2>2, <2>3, <2>4
<1>10. g[n] = f[n]
  <2> HIDE DEF K
  <2>1. 0 .. n \subseteq K
    BY <1>8, <1>9, Reaches
  <2> QED
    BY <2>1 DEF K
<1>11. g[n + 1] = Effect(g[n], p[n + 1])
  BY <1>7, n + 1 \in 0 .. n + 1, n + 1 # 0, (n + 1) - 1 = n
<1> QED
  BY <1>2, <1>3, <1>4, <1>5, <1>10, <1>11

\* The user's callbacks write nothing.
LEMMA CalledUsers ==
  ASSUME NEW q \in Seq(UserCalls), NEW st
  PROVE  Called(q, st) = st
<1> DEFINE G == { p \in Seq(UserCalls) : Called(p, st) = st }
<1>1. <<>> \in G
  BY CalledNone
<1>2. ASSUME NEW p \in Seq(UserCalls), NEW x \in UserCalls, p \in G
      PROVE  Append(p, x) \in G
  <2>1. Called(Append(p, x), st) = Effect(Called(p, st), x)
    BY CalledAppend
  <2>2. Effect(st, x) = st
    BY TracingAssumption DEF Effect, Extensions
  <2>3. Append(p, x) \in Seq(UserCalls)
    OBVIOUS
  <2> QED
    BY <1>2, <2>1, <2>2, <2>3
<1>3. Grows(G, UserCalls)
  BY <1>1, <1>2, Zenon DEF Grows
<1> HIDE DEF G
<1>4. q \in G
  BY <1>3, SequencesReach
<1> QED
  BY <1>4 DEF G

\* One or two callbacks of the extensions behind those of the user
LEMMA CalledOne ==
  ASSUME NEW q \in Seq(UserCalls), NEW st, NEW a
  PROVE  Called(q \o <<a>>, st) = Effect(st, a)
<1> DEFINE S == UserCalls \cup {a}
<1>1. q \in Seq(S) /\ a \in S
  OBVIOUS
<1>2. q \o <<a>> = Append(q, a)
  OBVIOUS
<1> HIDE DEF S
<1>3. Called(Append(q, a), st) = Effect(Called(q, st), a)
  BY <1>1, CalledAppend
<1>4. Called(q, st) = st
  BY CalledUsers
<1> QED
  BY <1>2, <1>3, <1>4

LEMMA CalledTwo ==
  ASSUME NEW q \in Seq(UserCalls), NEW st, NEW a, NEW b
  PROVE  Called(q \o <<a, b>>, st) = Effect(Effect(st, a), b)
<1> DEFINE S == UserCalls \cup {a, b}
<1>1. q \in Seq(S) /\ a \in S /\ b \in S
  OBVIOUS
<1>2. PICK p \in Seq(S) : p = q \o <<a>>
  <2>1. Append(q, a) \in Seq(S) /\ q \o <<a>> = Append(q, a)
    BY <1>1
  <2> QED
    BY <2>1
<1>3. q \o <<a, b>> = Append(p, b)
  BY <1>2
<1> HIDE DEF S
<1>4. Called(Append(p, b), st) = Effect(Called(p, st), b)
  BY <1>1, CalledAppend
<1>5. Called(p, st) = Effect(st, a)
  BY <1>2, CalledOne
<1> QED
  BY <1>3, <1>4, <1>5

\* What has been noted when the changes are written
ShownNow(sh) == [s \in Signals |-> IF s \in Range(Changed(sh)) THEN value[s] ELSE sh[s]]

LEMMA EventsKnown == ASSUME NEW e \in SimEvents
                     PROVE  e \in {"timestep_start", "delta_start", "timestep_end", "run_end"}
BY DEF SimEvents

LEMMA OwnIs ==
  /\ Own("timestep_start") = <<"write_timestamp", "log_begin_timestep">>
  /\ traceDeltas => Own("delta_start") = <<"write_delta_traces">>
  /\ ~ traceDeltas => Own("delta_start") = <<>>
  /\ Own("timestep_end") = <<"write_traces">>
  /\ Own("run_end") = <<"writeVcdHeader">>
BY DEF Own

LEMMA OwnTyped ==
  ASSUME NEW e \in SimEvents
  PROVE  /\ Own(e) \in Seq(Extensions)
         /\ e # "run_end" => \A i \in DOMAIN Own(e) : Own(e)[i] # "writeVcdHeader"
<1>1. CASE e = "timestep_start"
  BY <1>1 DEF Own, Extensions
<1>2. CASE e = "delta_start"
  <2>1. CASE traceDeltas
    <3>1. Own(e) = <<"write_delta_traces">>
      BY <1>2, <2>1, OwnIs
    <3> QED
      BY <3>1 DEF Extensions
  <2>2. CASE ~ traceDeltas
    <3>1. Own(e) = <<>>
      BY <1>2, <2>2, OwnIs
    <3> QED
      BY <3>1 DEF Extensions
  <2> QED
    BY <2>1, <2>2
<1>3. CASE e = "timestep_end"
  BY <1>3 DEF Own, Extensions
<1>4. CASE e = "run_end"
  BY <1>4 DEF Own, Extensions
<1> QED
  BY <1>1, <1>2, <1>3, <1>4, EventsKnown

LEMMA ListedTyped ==
  ASSUME NEW e \in SimEvents
  PROVE  /\ Hooked[e] \in Seq(UserCalls)
         /\ Listed(e) \in Seq(UserCalls \cup Extensions)
<1>1. Hooked[e] \in Seq(UserCalls)
  BY TracingAssumption
<1>2. PICK p \in Seq(UserCalls \cup Extensions) : p = Hooked[e]
  BY <1>1
<1>3. PICK o \in Seq(UserCalls \cup Extensions) : o = Own(e)
  BY OwnTyped
<1>4. p \o o \in Seq(UserCalls \cup Extensions)
  OBVIOUS
<1> QED
  BY <1>1, <1>2, <1>3, <1>4 DEF Listed

\* The user's callbacks that are left, then those of the extensions
LEMMA OwnStay ==
  ASSUME HooksKept, phase # "finished", NEW e \in SimEvents
  PROVE  \E p \in Seq(UserCalls) : hooks[e] = p \o Own(e)
<1> DEFINE S == UserCalls \cup Extensions
           p == Without(Hooked[e], ended[e])
<1>1. PICK h \in Seq(UserCalls) : h = Hooked[e]
  BY ListedTyped
<1>2. PICK o \in Seq(Extensions) : o = Own(e)
  BY OwnTyped
<1>3. hooks[e] = Without(h \o o, ended[e]) /\ ended[e] \subseteq UserCalls
  BY <1>1, <1>2 DEF HooksKept, Listed
<1>4. Without(h \o o, ended[e]) = Without(h, ended[e]) \o Without(o, ended[e])
  <2>1. h \in Seq(S) /\ o \in Seq(S)
    OBVIOUS
  <2> HIDE DEF S
  <2> QED
    BY <2>1, WithoutConcat
<1>5. Without(o, ended[e]) = o
  <2>1. \A i \in DOMAIN o : o[i] \notin ended[e]
    BY <1>3, TracingAssumption
  <2> QED
    BY <2>1, WithoutOthers
<1>6. p \in Seq(UserCalls)
  BY <1>1, WithoutTyped
<1> QED
  BY <1>1, <1>2, <1>3, <1>4, <1>5, <1>6, Zenon

LEMMA WithoutAbsent ==
  ASSUME NEW S, NEW q \in Seq(S), NEW A, NEW x, \A i \in DOMAIN q : q[i] # x
  PROVE  Without(q, A \cup {x}) = Without(q, A)
<1>1. Without(q, {x}) = q
  <2>1. \A i \in DOMAIN q : q[i] \notin {x}
    OBVIOUS
  <2> QED
    BY <2>1, WithoutOthers
<1>2. Without(Without(q, {x}), A) = Without(q, {x} \cup A)
  BY WithoutTwice
<1>3. {x} \cup A = A \cup {x}
  OBVIOUS
<1> QED
  BY <1>1, <1>2, <1>3

LEMMA EventHooks ==
  ASSUME HooksKept, phase # "finished", NEW e \in SimEvents, Event(e)
  PROVE  /\ hooks' \in [SimEvents -> Seq(UserCalls \cup Extensions)]
         /\ \A ev \in SimEvents : hooks'[ev] = Without(Listed(ev), ended'[ev])
         /\ ended' \in [SimEvents -> SUBSET (UserCalls \cup Extensions)]
         /\ e # "run_end" => \A ev \in SimEvents : ended'[ev] \subseteq UserCalls
         /\ traceDeltas' = traceDeltas
<1> DEFINE S == UserCalls \cup Extensions
           w == "writeVcdHeader"
<1>1. PICK R \in SUBSET (UserCalls \cap Range(hooks[e])) :
        /\ Fire(e, R \cup {w})
        /\ ended' = [ended EXCEPT ![e] = @ \cup R \cup ({w} \cap Range(hooks[e]))]
        /\ UNCHANGED traceDeltas
  BY DEF Event
<1>2. PICK h \in Seq(S) : h = hooks[e]
  BY DEF HooksKept
<1>3. hooks' = [hooks EXCEPT ![e] = Without(h, R \cup {w})]
  <2>1. hooks' = [hooks EXCEPT ![e] = Deleted(h, R \cup {w})]
    BY <1>1, <1>2 DEF Fire
  <2>2. Deleted(h, R \cup {w}) = Without(h, R \cup {w})
    BY DeletedIsWithout
  <2> QED
    BY <2>1, <2>2
<1>4. PICK D : D = R \cup ({w} \cap Range(h))
  OBVIOUS
<1>5. Without(h, R \cup {w}) = Without(h, D)
  <2>1. CASE w \in Range(h)
    BY <1>4, <2>1
  <2>2. CASE w \notin Range(h)
    <3>1. \A i \in DOMAIN h : h[i] # w
      BY <2>2 DEF Range
    <3>2. D = R
      BY <1>4, <2>2
    <3>3. Without(h, R \cup {w}) = Without(h, R)
      BY <3>1, WithoutAbsent
    <3> QED
      BY <3>2, <3>3
  <2> QED
    BY <2>1, <2>2
<1>6. PICK l \in Seq(S) : l = Listed(e)
  BY ListedTyped
<1>7. Without(h, D) = Without(l, ended[e] \cup D)
  <2>1. h = Without(l, ended[e])
    BY <1>2, <1>6 DEF HooksKept
  <2>2. Without(Without(l, ended[e]), D) = Without(l, ended[e] \cup D)
    BY WithoutTwice
  <2> QED
    BY <2>1, <2>2
<1>8. ended' = [ended EXCEPT ![e] = ended[e] \cup D]
  <2>1. (ended[e] \cup R) \cup ({w} \cap Range(hooks[e])) = ended[e] \cup D
    BY <1>2, <1>4
  <2> QED
    BY <1>1, <2>1
<1>9. D \subseteq S /\ w \in Extensions
  BY <1>4 DEF Extensions
<1>10. Without(h, D) \in Seq(S)
  BY WithoutTyped
<1>11. hooks' \in [SimEvents -> Seq(S)]
  BY <1>3, <1>5, <1>10 DEF HooksKept
<1>12. ended' \in [SimEvents -> SUBSET S]
  BY <1>8, <1>9 DEF HooksKept
<1>13. ASSUME NEW ev \in SimEvents
       PROVE  hooks'[ev] = Without(Listed(ev), ended'[ev])
  <2>1. CASE ev = e
    <3>1. hooks'[e] = Without(h, D) /\ ended'[e] = ended[e] \cup D
      BY <1>3, <1>5, <1>8 DEF HooksKept
    <3> QED
      BY <1>6, <1>7, <2>1, <3>1
  <2>2. CASE ev # e
    <3>1. hooks'[ev] = hooks[ev] /\ ended'[ev] = ended[ev]
      BY <1>3, <1>8, <2>2 DEF HooksKept
    <3> QED
      BY <3>1 DEF HooksKept
  <2> QED
    BY <2>1, <2>2
<1>14. ASSUME e # "run_end", NEW ev \in SimEvents
       PROVE  ended'[ev] \subseteq UserCalls
  <2>1. PICK p \in Seq(UserCalls) : hooks[e] = p \o Own(e)
    BY OwnStay
  <2>2. PICK o \in Seq(Extensions) : o = Own(e)
    BY OwnTyped
  <2>3. \A i \in DOMAIN o : o[i] # w
    BY <1>14, <2>2, OwnTyped
  <2>4. \A i \in DOMAIN p : p[i] # w
    BY <1>9, TracingAssumption
  <2>5. w \notin Range(p \o o)
    <3> SUFFICES ASSUME NEW i \in DOMAIN (p \o o)
                 PROVE  (p \o o)[i] # w
      BY DEF Range
    <3>1. CASE i \in 1 .. Len(p)
      BY <2>4, <3>1
    <3>2. CASE i \notin 1 .. Len(p)
      <4>1. i - Len(p) \in DOMAIN o /\ (p \o o)[i] = o[i - Len(p)]
        BY <3>2
      <4> QED
        BY <2>3, <4>1
    <3> QED
      BY <3>1, <3>2
  <2>6. h = p \o o
    BY <1>2, <2>1, <2>2
  <2>7. D \subseteq UserCalls
    BY <1>4, <2>5, <2>6
  <2> QED
    BY <1>8, <2>7 DEF HooksKept
<1> QED
  BY <1>1, <1>11, <1>12, <1>13, <1>14

LEMMA EffectIs ==
  ASSUME NEW st
  PROVE  /\ Effect(st, "write_timestamp") = Stamped(st, 0)
         /\ Effect(st, "write_traces") = PrintChanged(st)
         /\ Effect(st, "write_delta_traces") = IF delta = 0 THEN st ELSE PrintChanged(Stamped(st, delta))
         /\ Effect(st, "writeVcdHeader") = [st EXCEPT !.file = Without(st.tmp, Undeclared(st.tmp))]
         /\ Effect(st, "log_begin_timestep") = IF now > st.old + Step THEN [st EXCEPT !.old = Progress(now)]
                                               ELSE st
<1>1. Effect(st, "write_timestamp") = Stamped(st, 0) /\ Effect(st, "write_traces") = PrintChanged(st)
  BY DEF Effect
<1>2. Effect(st, "write_delta_traces") = IF delta = 0 THEN st ELSE PrintChanged(Stamped(st, delta))
  BY DEF Effect
<1>3. Effect(st, "writeVcdHeader") = [st EXCEPT !.file = Without(st.tmp, Undeclared(st.tmp))]
  BY DEF Effect
<1>4. Effect(st, "log_begin_timestep") = IF now > st.old + Step THEN [st EXCEPT !.old = Progress(now)]
                                         ELSE st
  BY DEF Effect
<1> QED
  BY <1>1, <1>2, <1>3, <1>4

\* The lines t written and the values sh noted
Having(t, sh) == [tmp |-> t, shown |-> sh, file |-> file, old |-> oldTime]

LEMMA StampedIs ==
  ASSUME NEW t, NEW sh, NEW k
  PROVE  Stamped(Having(t, sh), k) = Having(Append(t, StampLine(k)), sh)
<1>1. Having(t, sh).tmp = t /\ [Having(t, sh) EXCEPT !.tmp = Append(t, StampLine(k))] = Having(Append(t, StampLine(k)), sh)
  BY DEF Having
<1> QED
  BY <1>1, Zenon DEF Stamped

LEMMA PrintedIs ==
  ASSUME NEW t, NEW sh
  PROVE  PrintChanged(Having(t, sh)) = Having(t \o Lines(Changed(sh)), ShownNow(sh))
<1>1. PICK st : st = Having(t, sh)
  OBVIOUS
<1>2. st.tmp = t /\ st.shown = sh
  BY <1>1 DEF Having
<1>3. PICK x : x = t \o Lines(Changed(sh))
  OBVIOUS
<1>4. PrintChanged(st) = [[st EXCEPT !.tmp = x] EXCEPT !.shown = [s \in Signals |->
        IF s \in Range(Changed(sh)) THEN value[s] ELSE [st EXCEPT !.tmp = x].shown[s]]]
  BY <1>2, <1>3, Zenon DEF PrintChanged
<1>5. [st EXCEPT !.tmp = x] = Having(x, sh)
  BY <1>1 DEF Having
<1>6. PrintChanged(st) = [[st EXCEPT !.tmp = x] EXCEPT !.shown = ShownNow(sh)]
  BY <1>4, <1>5 DEF ShownNow, Having
<1>7. [Having(x, sh) EXCEPT !.shown = ShownNow(sh)] = Having(x, ShownNow(sh))
  BY DEF Having
<1> QED
  BY <1>1, <1>3, <1>5, <1>6, <1>7, Zenon

\* What an event leaves in the files
Leaves(st) == tmp' = st.tmp /\ shown' = st.shown /\ file' = st.file /\ oldTime' = st.old

LEMMA EventOutputs ==
  ASSUME HooksKept, phase # "finished", NEW e \in SimEvents, Event(e)
  PROVE  \E p \in Seq(UserCalls) : Leaves(Called(p \o Own(e), Having(tmp, shown)))
<1>1. PICK p \in Seq(UserCalls) : hooks[e] = p \o Own(e)
  BY OwnStay
<1>2. PICK R : Fire(e, R)
  BY DEF Event
<1> QED
  BY <1>1, <1>2 DEF Fire, Having, Leaves

LEMMA StartWrites ==
  ASSUME HooksKept, phase # "finished", Event("timestep_start")
  PROVE  /\ tmp' = Append(tmp, StampLine(0)) /\ shown' = shown /\ file' = file
         /\ oldTime' = IF now > oldTime + Step THEN Progress(now) ELSE oldTime
<1>1. PICK p \in Seq(UserCalls) : Leaves(Called(p \o Own("timestep_start"), Having(tmp, shown)))
  BY EventOutputs, "timestep_start" \in SimEvents DEF SimEvents
<1>2. PICK st : st = Having(Append(tmp, StampLine(0)), shown)
  OBVIOUS
<1>3. Called(p \o Own("timestep_start"), Having(tmp, shown)) = Effect(st, "log_begin_timestep")
  <2>1. Own("timestep_start") = <<"write_timestamp", "log_begin_timestep">>
    BY OwnIs
  <2>2. Called(p \o <<"write_timestamp", "log_begin_timestep">>, Having(tmp, shown))
          = Effect(Effect(Having(tmp, shown), "write_timestamp"), "log_begin_timestep")
    BY CalledTwo
  <2>3. Effect(Having(tmp, shown), "write_timestamp") = Stamped(Having(tmp, shown), 0)
    BY EffectIs, Zenon
  <2>4. Stamped(Having(tmp, shown), 0) = st
    BY <1>2, StampedIs, Zenon
  <2> QED
    BY <2>1, <2>2, <2>3, <2>4, Zenon
<1>4. Effect(st, "log_begin_timestep") = IF now > st.old + Step THEN [st EXCEPT !.old = Progress(now)] ELSE st
  BY EffectIs, Zenon
<1>5. st.old = oldTime
  BY <1>2 DEF Having
<1>6. Leaves(IF now > oldTime + Step THEN [st EXCEPT !.old = Progress(now)] ELSE st)
  BY <1>1, <1>3, <1>4, <1>5, Zenon
<1>7. CASE now > oldTime + Step
  <2>1. Leaves([st EXCEPT !.old = Progress(now)])
    BY <1>6, <1>7, Zenon
  <2> QED
    BY <1>2, <1>7, <2>1 DEF Leaves, Having
<1>8. CASE ~ (now > oldTime + Step)
  <2>1. Leaves(st)
    BY <1>6, <1>8, Zenon
  <2> QED
    BY <1>2, <1>8, <2>1 DEF Leaves, Having
<1> QED
  BY <1>7, <1>8

LEMMA DeltaWrites ==
  ASSUME HooksKept, phase # "finished", Event("delta_start")
  PROVE  /\ file' = file /\ oldTime' = oldTime
         /\ traceDeltas /\ delta # 0 =>
              /\ tmp' = Append(tmp, StampLine(delta)) \o Lines(Changed(shown))
              /\ shown' = ShownNow(shown)
         /\ ~ (traceDeltas /\ delta # 0) => tmp' = tmp /\ shown' = shown
<1>1. PICK p \in Seq(UserCalls) : Leaves(Called(p \o Own("delta_start"), Having(tmp, shown)))
  BY EventOutputs, "delta_start" \in SimEvents DEF SimEvents
<1>2. CASE traceDeltas
  <2>1. Called(p \o Own("delta_start"), Having(tmp, shown))
          = IF delta = 0 THEN Having(tmp, shown) ELSE PrintChanged(Stamped(Having(tmp, shown), delta))
    <3>1. Own("delta_start") = <<"write_delta_traces">>
      BY <1>2, OwnIs
    <3>2. Called(p \o <<"write_delta_traces">>, Having(tmp, shown))
            = Effect(Having(tmp, shown), "write_delta_traces")
      BY CalledOne, Zenon
    <3> QED
      BY <3>1, <3>2, EffectIs, Zenon
  <2>2. PICK t : t = Append(tmp, StampLine(delta))
    OBVIOUS
  <2>3. Stamped(Having(tmp, shown), delta) = Having(t, shown)
    BY <2>2, StampedIs, Zenon
  <2>4. PrintChanged(Stamped(Having(tmp, shown), delta)) = Having(t \o Lines(Changed(shown)), ShownNow(shown))
    BY <2>3, PrintedIs, Zenon
  <2>5. CASE delta = 0
    BY <1>1, <2>1, <2>5 DEF Leaves, Having
  <2>6. CASE delta # 0
    <3>1. Leaves(Having(t \o Lines(Changed(shown)), ShownNow(shown)))
      BY <1>1, <2>1, <2>4, <2>6, Zenon
    <3> QED
      BY <1>2, <2>2, <2>6, <3>1 DEF Leaves, Having
  <2> QED
    BY <2>5, <2>6
<1>3. CASE ~ traceDeltas
  <2>1. p \o Own("delta_start") = p
    BY <1>3, OwnIs
  <2>2. Called(p, Having(tmp, shown)) = Having(tmp, shown)
    BY CalledUsers
  <2>3. Leaves(Having(tmp, shown))
    BY <1>1, <2>1, <2>2, Zenon
  <2> QED
    BY <1>3, <2>3 DEF Leaves, Having
<1> QED
  BY <1>2, <1>3

LEMMA EndWrites ==
  ASSUME HooksKept, phase # "finished", Event("timestep_end")
  PROVE  /\ tmp' = tmp \o Lines(Changed(shown)) /\ shown' = ShownNow(shown)
         /\ file' = file /\ oldTime' = oldTime
<1>1. PICK p \in Seq(UserCalls) : Leaves(Called(p \o Own("timestep_end"), Having(tmp, shown)))
  BY EventOutputs, "timestep_end" \in SimEvents DEF SimEvents
<1>2. Called(p \o Own("timestep_end"), Having(tmp, shown)) = PrintChanged(Having(tmp, shown))
  <2>1. Own("timestep_end") = <<"write_traces">>
    BY OwnIs
  <2>2. Called(p \o <<"write_traces">>, Having(tmp, shown)) = Effect(Having(tmp, shown), "write_traces")
    BY CalledOne, Zenon
  <2> QED
    BY <2>1, <2>2, EffectIs, Zenon
<1>3. PrintChanged(Having(tmp, shown)) = Having(tmp \o Lines(Changed(shown)), ShownNow(shown))
  BY PrintedIs, Zenon
<1>4. Leaves(Having(tmp \o Lines(Changed(shown)), ShownNow(shown)))
  BY <1>1, <1>2, <1>3, Zenon
<1> QED
  BY <1>4 DEF Leaves, Having

LEMMA RunEndWrites ==
  ASSUME HooksKept, phase # "finished", Event("run_end")
  PROVE  /\ tmp' = tmp /\ shown' = shown /\ oldTime' = oldTime
         /\ file' = Without(tmp, Undeclared(tmp))
<1>1. PICK p \in Seq(UserCalls) : Leaves(Called(p \o Own("run_end"), Having(tmp, shown)))
  BY EventOutputs, "run_end" \in SimEvents DEF SimEvents
<1>2. PICK st : st = Having(tmp, shown)
  OBVIOUS
<1>3. Called(p \o Own("run_end"), st) = [st EXCEPT !.file = Without(st.tmp, Undeclared(st.tmp))]
  <2>1. Own("run_end") = <<"writeVcdHeader">>
    BY OwnIs
  <2>2. Called(p \o <<"writeVcdHeader">>, st) = Effect(st, "writeVcdHeader")
    BY CalledOne, Zenon
  <2> QED
    BY <2>1, <2>2, EffectIs, Zenon
<1>4. st.tmp = tmp
  BY <1>2 DEF Having
<1>5. PICK x : x = Without(tmp, Undeclared(tmp))
  OBVIOUS
<1>6. Leaves([st EXCEPT !.file = x])
  BY <1>1, <1>2, <1>3, <1>4, <1>5, Zenon
<1> QED
  BY <1>2, <1>5, <1>6 DEF Leaves, Having

-----------------------------------------------------------------------------
(* The lines that are written *)

\* What is to be written are the traced signals with a new value, each once.
LEMMA ChangedIs ==
  ASSUME VTypeOK, NEW sh
  PROVE  /\ Changed(sh) \in Seq(Signals)
         /\ Range(Changed(sh)) = { s \in Range(traces) : sh[s] # value[s] }
         /\ CodesOrdered => \A i, j \in DOMAIN Changed(sh) : Changed(sh)[i] = Changed(sh)[j] => i = j
<1> DEFINE same == {s \in Signals : sh[s] = value[s]}
<1>1. PICK q \in Seq(Signals) : q = traces
  BY DEF VTypeOK
<1>2. PICK u \in Seq(Signals) : u = Without(q, same)
  BY WithoutTyped
<1>3. PICK g : Places(g, q, same)
  BY WithoutPlaces
<1>4. PICK m \in Nat, n \in Nat : m = Len(u) /\ n = Len(q)
  OBVIOUS
<1>5. /\ g \in [1 .. m -> 1 .. n]
      /\ \A j \in 1 .. m : u[j] = q[g[j]] /\ q[g[j]] \notin same
      /\ \A i, j \in 1 .. m : i < j => g[i] < g[j]
      /\ \A k \in 1 .. n : q[k] \notin same => \E j \in 1 .. m : g[j] = k
  BY <1>2, <1>3, <1>4 DEF Places
<1>6. Changed(sh) = u
  BY <1>1, <1>2 DEF Changed
<1>7. DOMAIN u = 1 .. m /\ DOMAIN q = 1 .. n
  BY <1>4
<1>8. Range(u) = { s \in Range(q) : sh[s] # value[s] }
  <2>1. ASSUME NEW j \in 1 .. m
        PROVE  u[j] \in Range(q) /\ sh[u[j]] # value[u[j]]
    <3>1. u[j] = q[g[j]] /\ g[j] \in 1 .. n /\ u[j] \notin same
      BY <1>5
    <3>2. u[j] \in Signals
      BY <1>7
    <3> QED
      BY <1>7, <3>1, <3>2 DEF Range
  <2>2. ASSUME NEW k \in 1 .. n, sh[q[k]] # value[q[k]]
        PROVE  q[k] \in Range(u)
    <3>1. q[k] \notin same
      BY <2>2
    <3>2. PICK j \in 1 .. m : g[j] = k
      BY <1>5, <3>1
    <3>3. u[j] = q[k]
      BY <1>5, <3>2
    <3> QED
      BY <1>7, <3>3 DEF Range
  <2> QED
    BY <1>7, <2>1, <2>2 DEF Range
<1>9. ASSUME CodesOrdered, NEW i \in 1 .. m, NEW j \in 1 .. m, u[i] = u[j]
      PROVE  i = j
  <2>1. g[i] \in 1 .. n /\ g[j] \in 1 .. n /\ q[g[i]] = q[g[j]]
    BY <1>5, <1>9
  <2>2. g[i] = g[j]
    BY <1>1, <1>7, <1>9, <2>1 DEF CodesOrdered
  <2> QED
    BY <1>5, <2>1, <2>2
<1> QED
  BY <1>1, <1>6, <1>7, <1>8, <1>9

LEMMA LinesAre ==
  ASSUME VTypeOK, NEW sh
  PROVE  /\ Lines(Changed(sh)) \in Seq(Line)
         /\ Len(Lines(Changed(sh))) = Len(Changed(sh))
         /\ \A i \in 1 .. Len(Changed(sh)) :
              /\ Changed(sh)[i] \in Range(traces)
              /\ Lines(Changed(sh))[i] = ValueLine(Changed(sh)[i])
<1>1. PICK u \in Seq(Signals) : u = Changed(sh)
  BY ChangedIs
<1>2. PICK m \in Nat : m = Len(u)
  OBVIOUS
<1>3. \A i \in 1 .. m : u[i] \in Range(traces)
  <2>1. Range(u) \subseteq Range(traces)
    BY <1>1, ChangedIs
  <2>2. \A i \in 1 .. m : u[i] \in Range(u)
    BY <1>2 DEF Range
  <2> QED
    BY <2>1, <2>2
<1>4. \A s \in Range(traces) : ValueLine(s) \in Line
  <2> SUFFICES ASSUME NEW s \in Range(traces)
               PROVE  ValueLine(s) \in Line
    OBVIOUS
  <2>1. s \in Signals
    BY DEF Range, VTypeOK
  <2>2. codes[s] \in Code
    BY <2>1 DEF VTypeOK
  <2>3. value[s] \in TraceValues
    BY <2>1 DEF VTypeOK
  <2> QED
    BY <2>2, <2>3 DEF ValueLine, Line
<1>5. Lines(u) = [i \in 1 .. m |-> ValueLine(u[i])]
  BY <1>2 DEF Lines
<1>6. \A i \in 1 .. m : ValueLine(u[i]) \in Line
  BY <1>3, <1>4
<1>7. Lines(u) \in Seq(Line) /\ Len(Lines(u)) = m
  BY <1>5, <1>6
<1> QED
  BY <1>1, <1>2, <1>3, <1>5, <1>7

-----------------------------------------------------------------------------
(* The codes *)

LEMMA CodesGrow ==
  ASSUME NEW c \in Code
  PROVE  NextCode(c) \in Code /\ Below(c, NextCode(c))
<1>1. c[1] \in Nat /\ c[2] \in 0 .. Letters - 1 /\ c[3] \in 0 .. Letters - 1 /\ Letters \in Nat \ {0}
  BY TracingAssumption DEF Code
<1>2. CASE c[3] # Letters - 1
  <2>1. NextCode(c) = <<c[1], c[2], c[3] + 1>>
    BY <1>2 DEF NextCode
  <2> QED
    BY <1>1, <1>2, <2>1 DEF Code, Below
<1>3. CASE c[3] = Letters - 1 /\ c[2] # Letters - 1
  <2>1. NextCode(c) = <<c[1], c[2] + 1, 0>>
    BY <1>3 DEF NextCode
  <2> QED
    BY <1>1, <1>3, <2>1 DEF Code, Below
<1>4. CASE c[3] = Letters - 1 /\ c[2] = Letters - 1
  <2>1. NextCode(c) = <<c[1] + 1, 0, 0>>
    BY <1>4 DEF NextCode
  <2> QED
    BY <1>1, <1>4, <2>1 DEF Code, Below
<1> QED
  BY <1>2, <1>3, <1>4

LEMMA BelowIsOrder ==
  ASSUME NEW b \in Code, NEW c \in Code, NEW d \in Code
  PROVE  /\ ~ Below(c, c)
         /\ Below(b, c) /\ Below(c, d) => Below(b, d)
<1>1. \A x \in Code : x[1] \in Nat /\ x[2] \in Int /\ x[3] \in Int
  BY DEF Code
<1> QED
  BY <1>1 DEF Below

LEMMA CodesNotEmpty ==
  ASSUME NEW c \in Code
  PROVE  c # <<>>
<1>1. c = <<c[1], c[2], c[3]>>
  BY DEF Code
<1>2. <<c[1], c[2], c[3]>> # <<>>
  OBVIOUS
<1> QED
  BY <1>1, <1>2

\* What a write of a signal does to the traces and their codes
LEMMA WrittenTypes ==
  ASSUME VTypeOK, CodesOrdered, Written
  PROVE  /\ value' \in [Signals -> TraceValues]
         /\ traces' \in Seq(Signals) /\ lastCode' \in Code
         /\ codes' \in [Signals -> Code \cup {<<>>}]
         /\ \A s \in Signals : codes'[s] # <<>> <=> s \in Range(traces')
         /\ CodesOrdered'
         /\ Range(traces) \subseteq Range(traces')
         /\ \A s \in Range(traces) : codes'[s] = codes[s]
<1>1. PICK s \in Signals, v \in TraceValues : value' = [value EXCEPT ![s] = v] /\ AddTrace(s)
  BY DEF Written
<1>2. value' \in [Signals -> TraceValues]
  BY <1>1 DEF VTypeOK
<1>3. CASE s \in Range(traces)
  <2>1. UNCHANGED tracevars
    BY <1>1, <1>3 DEF AddTrace
  <2>2. traces' = traces /\ codes' = codes /\ lastCode' = lastCode
    BY <2>1 DEF tracevars
  <2>3. CodesOrdered'
    BY <2>2 DEF CodesOrdered, CodesDiffer
  <2> QED
    BY <1>2, <2>2, <2>3 DEF VTypeOK
<1>4. CASE s \notin Range(traces)
  <2>1. /\ traces' = Append(traces, s)
        /\ codes' = [codes EXCEPT ![s] = lastCode]
        /\ lastCode' = NextCode(lastCode)
    BY <1>1, <1>4 DEF AddTrace
  <2>2. PICK q \in Seq(Signals) : q = traces
    BY DEF VTypeOK
  <2>3. PICK n \in Nat : n = Len(q)
    OBVIOUS
  <2>4. /\ Append(q, s) \in Seq(Signals) /\ DOMAIN q = 1 .. n /\ DOMAIN Append(q, s) = 1 .. n + 1
        /\ \A i \in 1 .. n : Append(q, s)[i] = q[i]
        /\ Append(q, s)[n + 1] = s
    BY <2>3
  <2>5. Range(traces') = Range(traces) \cup {s}
    <3>1. ASSUME NEW x \in Range(q)
          PROVE  x \in Range(Append(q, s))
      <4>1. PICK i \in 1 .. n : x = q[i]
        BY <2>4 DEF Range
      <4>2. i \in DOMAIN Append(q, s) /\ Append(q, s)[i] = x
        BY <2>4, <4>1
      <4> QED
        BY <4>2 DEF Range
    <3>2. s \in Range(Append(q, s))
      <4>1. n + 1 \in DOMAIN Append(q, s)
        BY <2>4
      <4> QED
        BY <2>4, <4>1, Zenon DEF Range
    <3>3. ASSUME NEW x \in Range(Append(q, s))
          PROVE  x \in Range(q) \cup {s}
      <4>1. PICK i \in 1 .. n + 1 : x = Append(q, s)[i]
        BY <2>4 DEF Range
      <4>2. CASE i = n + 1
        BY <2>4, <4>1, <4>2
      <4>3. CASE i # n + 1
        <5>1. i \in DOMAIN q /\ x = q[i]
          BY <2>4, <4>1, <4>3
        <5> QED
          BY <5>1 DEF Range
      <4> QED
        BY <4>2, <4>3
    <3> QED
      BY <2>1, <2>2, <3>1, <3>2, <3>3
  <2>6. Range(traces) \subseteq Signals
    BY <2>2, <2>4 DEF Range
  <2>7. lastCode \in Code /\ lastCode' \in Code /\ Below(lastCode, lastCode')
    BY <2>1, CodesGrow DEF VTypeOK
  <2>8. codes' \in [Signals -> Code \cup {<<>>}]
    BY <2>1, <2>7 DEF VTypeOK
  <2>9. \A t \in Range(traces) : codes'[t] = codes[t] /\ codes[t] \in Code /\ t # s
    <3>1. \A t \in Range(traces) : t \in Signals /\ codes[t] # <<>> /\ t # s
      BY <1>4, <2>6 DEF VTypeOK
    <3> QED
      BY <2>1, <3>1 DEF VTypeOK
  <2>10. codes'[s] = lastCode /\ lastCode # <<>>
    <3>1. codes'[s] = lastCode
      BY <2>1 DEF VTypeOK
    <3> QED
      BY <2>7, <3>1, CodesNotEmpty
  <2>11. \A t \in Signals : codes'[t] # <<>> <=> t \in Range(traces')
    <3>1. \A t \in Signals \ {s} : codes'[t] = codes[t]
      BY <2>1 DEF VTypeOK
    <3>2. \A t \in Signals : codes[t] # <<>> <=> t \in Range(traces)
      BY DEF VTypeOK
    <3> QED
      BY <2>5, <2>10, <3>1, <3>2
  <2>12. CodesOrdered'
    <3>1. ASSUME NEW i \in DOMAIN traces', NEW j \in DOMAIN traces', traces'[i] = traces'[j]
          PROVE  i = j
      <4>1. \A k \in 1 .. n : q[k] # s
        BY <1>4, <2>2, <2>4 DEF Range
      <4>2. \A k, l \in 1 .. n : q[k] = q[l] => k = l
        BY <2>2, <2>4 DEF CodesOrdered
      <4> QED
        BY <2>1, <2>2, <2>4, <3>1, <4>1, <4>2
    <3>2. ASSUME NEW t \in Range(traces')
          PROVE  Below(codes'[t], lastCode')
      <4>1. CASE t = s
        BY <2>7, <2>10, <4>1
      <4>2. CASE t # s
        <5>1. t \in Range(traces) /\ codes'[t] = codes[t] /\ codes[t] \in Code
          BY <2>5, <2>9, <3>2, <4>2
        <5>2. Below(codes[t], lastCode)
          BY <5>1 DEF CodesOrdered
        <5> QED
          BY <2>7, <5>1, <5>2, BelowIsOrder
      <4> QED
        BY <4>1, <4>2
    <3>3. ASSUME NEW t \in Range(traces'), NEW u \in Range(traces'), t # u
          PROVE  codes'[t] # codes'[u]
      <4>1. \A x \in Range(traces) : codes[x] # lastCode
        BY <2>7, <2>9, BelowIsOrder DEF CodesOrdered
      <4>2. CASE t # s /\ u # s
        BY <2>5, <2>9, <3>3, <4>2 DEF CodesOrdered, CodesDiffer
      <4>3. CASE t = s
        BY <2>5, <2>9, <2>10, <3>3, <4>1, <4>3
      <4>4. CASE u = s
        BY <2>5, <2>9, <2>10, <3>3, <4>1, <4>4
      <4> QED
        BY <4>2, <4>3, <4>4
    <3> QED
      BY <3>1, <3>2, <3>3 DEF CodesOrdered, CodesDiffer
  <2> QED
    BY <1>2, <2>1, <2>2, <2>4, <2>5, <2>7, <2>8, <2>9, <2>11, <2>12
<1> QED
  BY <1>3, <1>4

-----------------------------------------------------------------------------
(* Reading the file *)

LEMMA LaterIsLast ==
  ASSUME NEW S, NEW q \in Seq(S), NEW r \in Seq(S), NEW c, NEW v, LastLine(q, c, v),
         \A j \in DOMAIN r : ~ Gives(r, j, c)
  PROVE  LastLine(q \o r, c, v)
<1>1. PICK m \in Nat, n \in Nat, p \in Seq(S) : m = Len(q) /\ n = Len(r) /\ p = q \o r
  <2>1. Len(q) \in Nat /\ Len(r) \in Nat /\ q \o r \in Seq(S)
    OBVIOUS
  <2> QED
    BY <2>1
<1>2. /\ Len(p) = m + n /\ DOMAIN p = 1 .. m + n /\ DOMAIN q = 1 .. m /\ DOMAIN r = 1 .. n
      /\ \A k \in 1 .. m : p[k] = q[k]
      /\ \A k \in 1 .. n : p[m + k] = r[k]
  BY <1>1
<1>3. PICK i \in 1 .. m : Gives(q, i, c) /\ q[i].val = v /\ \A j \in i + 1 .. m : ~ Gives(q, j, c)
  BY <1>1, <1>2 DEF LastLine
<1>4. Gives(p, i, c) /\ p[i].val = v
  BY <1>2, <1>3 DEF Gives
<1>5. ASSUME NEW j \in i + 1 .. m + n
      PROVE  ~ Gives(p, j, c)
  <2>1. CASE j <= m
    <3>1. j \in i + 1 .. m /\ p[j] = q[j]
      BY <1>2, <2>1
    <3> QED
      BY <1>3, <3>1 DEF Gives
  <2>2. CASE j > m
    <3>1. j - m \in 1 .. n /\ j = m + (j - m)
      BY <2>2
    <3>2. p[j] = r[j - m]
      BY <1>2, <3>1
    <3> QED
      BY <1>2, <3>1, <3>2 DEF Gives
  <2> QED
    BY <2>1, <2>2
<1>6. i \in 1 .. m + n
  OBVIOUS
<1> QED
  BY <1>1, <1>2, <1>4, <1>5, <1>6 DEF LastLine

LEMMA NewIsLast ==
  ASSUME NEW S, NEW q \in Seq(S), NEW r \in Seq(S), NEW c, NEW v, NEW i \in DOMAIN r,
         Gives(r, i, c), r[i].val = v, \A j \in DOMAIN r : Gives(r, j, c) => j = i
  PROVE  LastLine(q \o r, c, v)
<1>1. PICK m \in Nat, n \in Nat, p \in Seq(S) : m = Len(q) /\ n = Len(r) /\ p = q \o r
  <2>1. Len(q) \in Nat /\ Len(r) \in Nat /\ q \o r \in Seq(S)
    OBVIOUS
  <2> QED
    BY <2>1
<1>2. /\ Len(p) = m + n /\ DOMAIN p = 1 .. m + n /\ DOMAIN r = 1 .. n
      /\ \A k \in 1 .. n : p[m + k] = r[k]
  BY <1>1
<1>3. m + i \in 1 .. m + n /\ Gives(p, m + i, c) /\ p[m + i].val = v
  BY <1>2 DEF Gives
<1>4. ASSUME NEW j \in (m + i) + 1 .. m + n
      PROVE  ~ Gives(p, j, c)
  <2>1. j - m \in 1 .. n /\ j = m + (j - m) /\ j - m # i
    BY <1>2
  <2>2. p[j] = r[j - m]
    BY <1>2, <2>1
  <2> QED
    BY <1>2, <2>1, <2>2 DEF Gives
<1> QED
  BY <1>1, <1>2, <1>3, <1>4 DEF LastLine

\* Read up to its end, the file gives the last lines.
LEMMA ReplayNow ==
  ASSUME NEW S, NEW q \in Seq(S), NEW t, NEW c, NEW v, LastLine(q, c, v),
         \A i \in DOMAIN q : IsStamp(q, i) => NotAfter(q[i].at, t)
  PROVE  Replayed(q, t, c, v)
<1>1. PICK i \in DOMAIN q : Gives(q, i, c) /\ q[i].val = v /\ \A j \in i + 1 .. Len(q) : ~ Gives(q, j, c)
  BY DEF LastLine
<1>2. UpTo(q, i, t)
  <2>1. \A j \in 1 .. i : j \in DOMAIN q
    OBVIOUS
  <2> QED
    BY <2>1 DEF UpTo, IsStamp
<1> QED
  BY <1>1, <1>2 DEF Replayed

\* Lines under later timestamps change nothing.
LEMMA ReplayGrows ==
  ASSUME NEW S, NEW q \in Seq(S), NEW r \in Seq(S), NEW t, NEW c, NEW v, Replayed(q, t, c, v),
         \A j \in DOMAIN r : r[j].kind = "value" => \E i \in DOMAIN q : IsStamp(q, i) /\ ~ NotAfter(q[i].at, t)
  PROVE  Replayed(q \o r, t, c, v)
<1>1. PICK m \in Nat, n \in Nat, p \in Seq(S) : m = Len(q) /\ n = Len(r) /\ p = q \o r
  <2>1. Len(q) \in Nat /\ Len(r) \in Nat /\ q \o r \in Seq(S)
    OBVIOUS
  <2> QED
    BY <2>1
<1>2. /\ Len(p) = m + n /\ DOMAIN p = 1 .. m + n /\ DOMAIN q = 1 .. m /\ DOMAIN r = 1 .. n
      /\ \A k \in 1 .. m : p[k] = q[k]
      /\ \A k \in 1 .. n : p[m + k] = r[k]
  BY <1>1
<1>3. PICK i \in 1 .. m : /\ Gives(q, i, c) /\ q[i].val = v /\ UpTo(q, i, t)
                          /\ \A j \in i + 1 .. m : Gives(q, j, c) => ~ UpTo(q, j, t)
  BY <1>1, <1>2 DEF Replayed
<1>4. \A k \in 1 .. m : Gives(p, k, c) <=> Gives(q, k, c)
  BY <1>2 DEF Gives
<1>5. ASSUME NEW k \in 1 .. m
      PROVE  UpTo(p, k, t) <=> UpTo(q, k, t)
  <2>1. \A j \in 1 .. k : j \in 1 .. m
    OBVIOUS
  <2> QED
    BY <1>2, <2>1 DEF UpTo
<1>6. ASSUME NEW j \in i + 1 .. m + n, Gives(p, j, c)
      PROVE  ~ UpTo(p, j, t)
  <2>1. CASE j <= m
    BY <1>3, <1>4, <1>5, <1>6, <2>1
  <2>2. CASE j > m
    <3>1. j - m \in 1 .. n /\ j = m + (j - m)
      BY <2>2
    <3>2. r[j - m].kind = "value"
      BY <1>2, <1>6, <3>1 DEF Gives
    <3>3. PICK k \in 1 .. m : IsStamp(q, k) /\ ~ NotAfter(q[k].at, t)
      BY <1>2, <3>1, <3>2
    <3>4. k \in 1 .. j /\ p[k] = q[k]
      BY <1>2, <2>2
    <3> QED
      BY <3>3, <3>4 DEF UpTo, IsStamp
  <2> QED
    BY <2>1, <2>2
<1>7. i \in 1 .. m + n /\ p[i] = q[i]
  BY <1>2
<1> QED
  BY <1>1, <1>2, <1>3, <1>4, <1>5, <1>6, <1>7 DEF Replayed

\* Nor do lines of other codes that are left out.
LEMMA ReplayKept ==
  ASSUME NEW S, NEW q \in Seq(S), NEW R, NEW t, NEW c, NEW v, Replayed(q, t, c, v),
         \A i \in DOMAIN q : IsStamp(q, i) \/ Gives(q, i, c) => q[i] \notin R
  PROVE  Replayed(Without(q, R), t, c, v)
<1>1. PICK p \in Seq(S) : p = Without(q, R)
  BY WithoutTyped
<1>2. PICK m \in Nat, n \in Nat : m = Len(p) /\ n = Len(q)
  OBVIOUS
<1>3. DOMAIN p = 1 .. m /\ DOMAIN q = 1 .. n
  BY <1>2
<1>4. PICK g : Places(g, q, R)
  BY WithoutPlaces
<1>5. /\ g \in [1 .. m -> 1 .. n]
      /\ \A j \in 1 .. m : p[j] = q[g[j]]
      /\ \A i, j \in 1 .. m : i < j => g[i] < g[j]
      /\ \A k \in 1 .. n : q[k] \notin R => \E j \in 1 .. m : g[j] = k
  BY <1>1, <1>2, <1>4 DEF Places
<1>6. \A j \in 1 .. m : Gives(p, j, c) <=> Gives(q, g[j], c)
  BY <1>5 DEF Gives
<1>7. ASSUME NEW j \in 1 .. m
      PROVE  UpTo(p, j, t) <=> UpTo(q, g[j], t)
  <2>1. ASSUME UpTo(q, g[j], t), NEW k \in 1 .. j, p[k].kind = "stamp"
        PROVE  NotAfter(p[k].at, t)
    <3>1. k \in 1 .. m /\ g[k] \in 1 .. n /\ g[j] \in 1 .. n /\ (k = j \/ g[k] < g[j])
      BY <1>5
    <3>2. g[k] \in 1 .. g[j] /\ p[k] = q[g[k]]
      BY <1>5, <3>1
    <3> QED
      BY <2>1, <3>2 DEF UpTo
  <2>2. ASSUME UpTo(p, j, t), NEW k \in 1 .. g[j], q[k].kind = "stamp"
        PROVE  NotAfter(q[k].at, t)
    <3>1. g[j] \in 1 .. n /\ k \in 1 .. n
      BY <1>5
    <3>2. q[k] \notin R
      BY <1>3, <2>2, <3>1 DEF IsStamp
    <3>3. PICK l \in 1 .. m : g[l] = k
      BY <1>5, <3>1, <3>2
    <3>4. l \in 1 .. j
      <4>1. ~ (j < l)
        BY <1>5, <3>1, <3>3
      <4> QED
        BY <4>1
    <3>5. p[l] = q[k]
      BY <1>5, <3>3
    <3> QED
      BY <2>2, <3>4, <3>5 DEF UpTo
  <2> QED
    BY <2>1, <2>2 DEF UpTo
<1>8. PICK i \in 1 .. n : /\ Gives(q, i, c) /\ q[i].val = v /\ UpTo(q, i, t)
                          /\ \A j \in i + 1 .. n : Gives(q, j, c) => ~ UpTo(q, j, t)
  BY <1>2, <1>3 DEF Replayed
<1>9. PICK l \in 1 .. m : g[l] = i
  BY <1>3, <1>5, <1>8
<1>10. Gives(p, l, c) /\ p[l].val = v /\ UpTo(p, l, t)
  BY <1>5, <1>6, <1>7, <1>8, <1>9
<1>11. ASSUME NEW j \in l + 1 .. m, Gives(p, j, c)
       PROVE  ~ UpTo(p, j, t)
  <2>1. j \in 1 .. m /\ g[j] \in i + 1 .. n
    <3>1. j \in 1 .. m /\ l < j
      OBVIOUS
    <3>2. g[l] < g[j] /\ g[j] \in 1 .. n
      BY <1>5, <3>1
    <3> QED
      BY <1>9, <3>1, <3>2
  <2> QED
    BY <1>6, <1>7, <1>8, <1>11, <2>1
<1> QED
  BY <1>1, <1>2, <1>3, <1>10, <1>11 DEF Replayed

LEMMA StampsAreOrdered ==
  ASSUME NEW s \in Stamps, NEW t \in Stamps, NEW u \in Stamps
  PROVE  /\ NotAfter(s, s)
         /\ NotAfter(s, t) \/ NotAfter(t, s)
         /\ NotAfter(s, t) /\ NotAfter(t, u) => NotAfter(s, u)
         /\ NotAfter(s, t) /\ NotAfter(t, s) => s = t
<1>1. \A x \in Stamps : x[1] \in Nat /\ x[2] \in Nat /\ x = <<x[1], x[2]>>
  BY DEF Stamps
<1>2. NotAfter(s, t) /\ NotAfter(t, s) => s[1] = t[1] /\ s[2] = t[2]
  BY <1>1 DEF NotAfter
<1>3. NotAfter(s, t) /\ NotAfter(t, s) => s = t
  BY <1>1, <1>2
<1>4. /\ NotAfter(s, s)
      /\ NotAfter(s, t) \/ NotAfter(t, s)
      /\ NotAfter(s, t) /\ NotAfter(t, u) => NotAfter(s, u)
  BY <1>1 DEF NotAfter
<1> QED
  BY <1>3, <1>4

\* After the changes have been written the last lines give all traced signals their values.
LEMMA Printing ==
  ASSUME VTypeOK, CodesOrdered, NEW q \in Seq(Line), TracedIn(q, shown)
  PROVE  LET q2 == q \o Lines(Changed(shown))
         IN  /\ q2 \in Seq(Line)
             /\ ShownNow(shown) \in [Signals -> TraceValues \cup {NoValue}]
             /\ TracedIn(q2, ShownNow(shown))
             /\ \A s \in Range(traces) : LastLine(q2, codes[s], value[s])
             /\ \A i \in DOMAIN q2 : IsStamp(q2, i) => i \in DOMAIN q /\ q2[i] = q[i]
             /\ \A i \in DOMAIN q : i \in DOMAIN q2 /\ q2[i] = q[i]
<1>1. PICK u \in Seq(Signals), r \in Seq(Line) : u = Changed(shown) /\ r = Lines(Changed(shown))
  BY ChangedIs, LinesAre
<1>2. PICK m \in Nat, n \in Nat, q2 \in Seq(Line) : m = Len(q) /\ n = Len(r) /\ q2 = q \o r
  <2>1. Len(q) \in Nat /\ Len(r) \in Nat /\ q \o r \in Seq(Line)
    OBVIOUS
  <2> QED
    BY <2>1
<1>3. /\ Len(q2) = m + n /\ DOMAIN q2 = 1 .. m + n /\ DOMAIN q = 1 .. m /\ DOMAIN r = 1 .. n
      /\ \A k \in 1 .. m : q2[k] = q[k]
      /\ \A k \in 1 .. n : q2[m + k] = r[k]
  BY <1>2
<1>4. /\ DOMAIN u = 1 .. n
      /\ \A i \in 1 .. n : u[i] \in Range(traces) /\ r[i] = ValueLine(u[i])
  BY <1>1, <1>2, LinesAre
<1>5. /\ Range(u) = { s \in Range(traces) : shown[s] # value[s] }
      /\ \A i, j \in 1 .. n : u[i] = u[j] => i = j
  BY <1>1, <1>4, ChangedIs
<1>6. \A s \in Range(traces) : s \in Signals /\ value[s] \in Nat /\ value[s] # NoValue
  <2>1. \A s \in Range(traces) : s \in Signals
    BY DEF Range, VTypeOK
  <2>2. value \in [Signals -> TraceValues] /\ TraceValues \subseteq Nat
    BY TracingAssumption DEF VTypeOK
  <2>3. \A x \in Nat : x # NoValue
    BY DEF NoValue
  <2> QED
    BY <2>1, <2>2, <2>3
<1>7. ASSUME NEW i \in 1 .. n
      PROVE  r[i].kind = "value" /\ r[i].code = codes[u[i]] /\ r[i].val = value[u[i]]
  <2>1. r[i] = ValueLine(u[i])
    BY <1>4
  <2> QED
    BY <2>1 DEF ValueLine
<1>8. ASSUME NEW s \in Range(traces)
      PROVE  LastLine(q2, codes[s], value[s])
  <2>1. \A j \in DOMAIN r : Gives(r, j, codes[s]) => u[j] = s
    BY <1>3, <1>4, <1>7 DEF Gives, CodesOrdered, CodesDiffer
  <2>2. CASE shown[s] = value[s]
    <3>1. s \notin Range(u)
      BY <1>5, <2>2
    <3>2. \A j \in 1 .. n : u[j] # s
      BY <1>4, <3>1 DEF Range
    <3>3. \A j \in DOMAIN r : ~ Gives(r, j, codes[s])
      BY <1>3, <2>1, <3>2
    <3>4. LastLine(q, codes[s], value[s])
      BY <1>6, <2>2 DEF TracedIn
    <3>5. LastLine(q \o r, codes[s], value[s])
      BY <3>3, <3>4, LaterIsLast
    <3> QED
      BY <1>2, <3>5
  <2>3. CASE shown[s] # value[s]
    <3>1. s \in Range(u)
      BY <1>5, <2>3
    <3>2. PICK i \in 1 .. n : u[i] = s
      BY <1>4, <3>1 DEF Range
    <3>3. Gives(r, i, codes[s]) /\ r[i].val = value[s]
      BY <1>7, <3>2 DEF Gives
    <3>4. \A j \in DOMAIN r : Gives(r, j, codes[s]) => j = i
      BY <1>3, <1>5, <2>1, <3>2
    <3>5. LastLine(q \o r, codes[s], value[s])
      BY <1>3, <3>3, <3>4, NewIsLast
    <3> QED
      BY <1>2, <3>5
  <2> QED
    BY <2>2, <2>3
<1>9. ShownNow(shown) \in [Signals -> TraceValues \cup {NoValue}]
  BY DEF ShownNow, VTypeOK
<1>10. ASSUME NEW s \in Signals, ShownNow(shown)[s] # NoValue
       PROVE  s \in Range(traces) /\ LastLine(q2, codes[s], ShownNow(shown)[s])
  <2>1. s \in Range(traces) /\ ShownNow(shown)[s] = value[s]
    <3>1. CASE s \in Range(u)
      BY <1>1, <1>5, <3>1 DEF ShownNow
    <3>2. CASE s \notin Range(u)
      <4>1. ShownNow(shown)[s] = shown[s]
        BY <1>1, <3>2 DEF ShownNow
      <4>2. s \in Range(traces)
        BY <1>10, <4>1 DEF TracedIn
      <4> QED
        BY <1>5, <3>2, <4>1, <4>2
    <3> QED
      BY <3>1, <3>2
  <2> QED
    BY <1>8, <2>1
<1>11. ASSUME NEW i \in DOMAIN q2, q2[i].kind = "value"
       PROVE  \E s \in Range(traces) : q2[i].code = codes[s]
  <2>1. CASE i \in 1 .. m
    BY <1>3, <1>11, <2>1 DEF TracedIn
  <2>2. CASE i \notin 1 .. m
    <3>1. i - m \in 1 .. n /\ i = m + (i - m)
      BY <1>3, <2>2
    <3>2. q2[i] = r[i - m]
      BY <1>3, <3>1
    <3> QED
      BY <1>4, <1>7, <3>1, <3>2
  <2> QED
    BY <2>1, <2>2
<1>12. ASSUME NEW i \in DOMAIN q2, IsStamp(q2, i)
       PROVE  i \in DOMAIN q /\ q2[i] = q[i]
  <2>1. CASE i \in 1 .. m
    BY <1>3, <2>1
  <2>2. CASE i \notin 1 .. m
    <3>1. i - m \in 1 .. n /\ i = m + (i - m)
      BY <1>3, <2>2
    <3>2. q2[i].kind = "value"
      BY <1>3, <1>7, <3>1
    <3> QED
      BY <1>12, <3>2 DEF IsStamp
  <2> QED
    BY <2>1, <2>2
<1>13. TracedIn(q2, ShownNow(shown))
  BY <1>10, <1>11 DEF TracedIn
<1>14. \A i \in DOMAIN q : i \in DOMAIN q2 /\ q2[i] = q[i]
  BY <1>3
<1> QED
  BY <1>1, <1>2, <1>8, <1>9, <1>12, <1>13, <1>14

\* The values of the traced signals, recorded for the timestamp t
Record(t) == [at |-> t, val |-> [s \in Range(traces) |-> value[s]]]

LEMMA RecordTyped ==
  ASSUME VTypeOK, NEW t \in Stamps
  PROVE  Record(t) \in Records
<1> DEFINE A == Range(traces)
           f == [s \in A |-> value[s]]
<1>1. A \subseteq Signals
  BY DEF Range, VTypeOK
<1>2. f \in [A -> TraceValues]
  BY <1>1 DEF VTypeOK
<1>3. f \in UNION { [B -> TraceValues] : B \in SUBSET Signals }
  BY <1>1, <1>2
<1> QED
  BY <1>3 DEF Record, Records

\* Lines added to the file change nothing of what is recorded for earlier timestamps.
Preserves(t) ==
  \A c, v : \A u \in Stamps : Replayed(tmp, u, c, v) /\ ~ NotAfter(t, u) => Replayed(tmp', u, c, v)

\* A step that records the values for the timestamp t
Recording(t) ==
  /\ truth' = Append(truth, Record(t))
  /\ traces' = traces /\ codes' = codes
  /\ \A i \in DOMAIN truth : NotAfter(truth[i].at, t)
  /\ Preserves(t)
  /\ \A s \in Range(traces) : Replayed(tmp', t, codes[s], value[s])

LEMMA TruthGrows ==
  ASSUME VTypeOK, Shapes, RecordsOrdered, TruthReplayed, NEW t \in Stamps, Recording(t)
  PROVE  /\ truth' \in Seq(Records)
         /\ RecordsOrdered'
         /\ \A i \in DOMAIN truth' : NotAfter(truth'[i].at, t)
         /\ TruthReplayed'
<1>1. PICK q \in Seq(Records) : q = truth
  BY DEF Shapes
<1>2. PICK n \in Nat, r \in Seq(Records) : n = Len(q) /\ r = Append(q, Record(t))
  <2>1. Len(q) \in Nat /\ Append(q, Record(t)) \in Seq(Records)
    BY RecordTyped
  <2> QED
    BY <2>1
<1>3. /\ DOMAIN q = 1 .. n /\ DOMAIN r = 1 .. n + 1 /\ Len(r) = n + 1 /\ r = truth'
      /\ \A i \in 1 .. n : r[i] = q[i]
      /\ r[n + 1] = Record(t)
  BY <1>1, <1>2 DEF Recording
<1>4. ASSUME NEW i \in 1 .. n + 1
      PROVE  r[i].at \in Stamps
  <2>1. r[i] \in Records
    BY <1>3
  <2> QED
    BY <2>1 DEF Records
<1>5. Record(t).at = t /\ Record(t).val = [s \in Range(traces) |-> value[s]]
  BY DEF Record
<1>6. \A i \in 1 .. n + 1 : NotAfter(r[i].at, t)
  <2>1. NotAfter(t, t)
    BY StampsAreOrdered
  <2>2. \A i \in 1 .. n : NotAfter(q[i].at, t)
    BY <1>1, <1>3 DEF Recording
  <2> QED
    BY <1>3, <1>5, <2>1, <2>2
<1>7. RecordsOrdered'
  <2> SUFFICES ASSUME NEW i \in 1 .. n + 1, NEW j \in 1 .. n + 1, i <= j
               PROVE  NotAfter(r[i].at, r[j].at)
    BY <1>3 DEF RecordsOrdered
  <2>1. CASE j = n + 1
    BY <1>3, <1>5, <1>6, <2>1
  <2>2. CASE j # n + 1
    <3>1. i \in 1 .. n /\ j \in 1 .. n
      BY <2>2
    <3> QED
      BY <1>1, <1>3, <3>1 DEF RecordsOrdered
  <2> QED
    BY <2>1, <2>2
<1>8. ASSUME NEW i \in 1 .. n + 1, NEW s \in DOMAIN r[i].val
      PROVE  s \in Range(traces) /\ (LastOf(i)' => Replayed(tmp', r[i].at, codes[s], r[i].val[s]))
  <2>1. CASE i = n + 1
    <3>1. s \in Range(traces) /\ r[i].val[s] = value[s] /\ r[i].at = t
      BY <1>3, <1>5, <1>8, <2>1
    <3> QED
      BY <3>1 DEF Recording
  <2>2. CASE i # n + 1
    <3>1. i \in 1 .. n /\ r[i] = q[i] /\ s \in DOMAIN q[i].val
      BY <1>3, <1>8, <2>2
    <3>2. s \in Range(traces) /\ (LastOf(i) => Replayed(tmp, q[i].at, codes[s], q[i].val[s]))
      BY <1>1, <1>3, <3>1 DEF TruthReplayed
    <3>3. ASSUME LastOf(i)'
          PROVE  LastOf(i) /\ ~ NotAfter(t, q[i].at)
      <4>1. i + 1 \in 1 .. n + 1 /\ r[i + 1].at # r[i].at
        BY <1>3, <3>1, <3>3 DEF LastOf
      <4>2. LastOf(i)
        <5>1. CASE i = n
          BY <1>1, <1>2, <5>1 DEF LastOf
        <5>2. CASE i # n
          <6>1. i + 1 \in 1 .. n /\ r[i + 1] = q[i + 1]
            BY <1>3, <3>1, <5>2
          <6> QED
            BY <1>1, <3>1, <4>1, <6>1 DEF LastOf
        <5> QED
          BY <5>1, <5>2
      <4>3. NotAfter(r[i].at, r[i + 1].at)
        BY <1>3, <1>7, <3>1, <4>1 DEF RecordsOrdered
      <4>4. NotAfter(r[i + 1].at, t)
        BY <1>6, <4>1
      <4>5. r[i].at \in Stamps /\ r[i + 1].at \in Stamps
        BY <1>4, <4>1
      <4>6. ASSUME NotAfter(t, r[i].at)
            PROVE  FALSE
        <5>1. NotAfter(r[i + 1].at, r[i].at)
          BY <4>4, <4>5, <4>6, StampsAreOrdered
        <5>2. r[i].at = r[i + 1].at
          BY <4>3, <4>5, <5>1, StampsAreOrdered
        <5> QED
          BY <4>1, <5>2
      <4> QED
        BY <3>1, <4>2, <4>6
    <3>4. q[i].at \in Stamps
      BY <1>4, <3>1
    <3> QED
      BY <3>1, <3>2, <3>3, <3>4 DEF Recording, Preserves
  <2> QED
    BY <2>1, <2>2
<1>9. TruthReplayed'
  BY <1>3, <1>8 DEF TruthReplayed, Recording
<1> QED
  BY <1>3, <1>6, <1>7, <1>9

-----------------------------------------------------------------------------
(* The invariant *)

LEMMA ListedSame ==
  ASSUME traceDeltas' = traceDeltas
  PROVE  \A e : Listed(e)' = Listed(e)
BY DEF Listed, Own

LEMMA HooksStay ==
  ASSUME HooksKept, UNCHANGED hookvars, phase # "finished"
  PROVE  HooksKept'
<1>1. hooks' = hooks /\ ended' = ended /\ traceDeltas' = traceDeltas
  BY DEF hookvars
<1>2. \A e : Listed(e)' = Listed(e)
  BY <1>1, ListedSame
<1> QED
  BY <1>1, <1>2 DEF HooksKept

LEMMA HooksLeave ==
  ASSUME HooksKept, phase # "finished", NEW e \in SimEvents, Event(e),
         e = "run_end" <=> phase' = "finished"
  PROVE  HooksKept' /\ traceDeltas' = traceDeltas
<1>1. /\ hooks' \in [SimEvents -> Seq(UserCalls \cup Extensions)]
      /\ \A ev \in SimEvents : hooks'[ev] = Without(Listed(ev), ended'[ev])
      /\ ended' \in [SimEvents -> SUBSET (UserCalls \cup Extensions)]
      /\ e # "run_end" => \A ev \in SimEvents : ended'[ev] \subseteq UserCalls
      /\ traceDeltas' = traceDeltas
  BY EventHooks
<1>2. \A ev : Listed(ev)' = Listed(ev)
  BY <1>1, ListedSame
<1> QED
  BY <1>1, <1>2 DEF HooksKept

LEMMA InitInv ==
  ASSUME VInit
  PROVE  VInv
<1> USE DEF VInit
<1>1. <<>> \in Seq(Signals) /\ <<>> \in Seq(Line) /\ <<>> \in Seq(Records)
  OBVIOUS
<1>2. <<0, 0, 0>> \in Code /\ Range(traces) = {}
  BY TracingAssumption DEF Code, Range
<1>3. VTypeOK
  <2>1. 0 \in 0 .. MaxTime /\ 0 \in 0 .. MaxDeltas + 1
    BY TracingAssumption
  <2>2. shown \in [Signals -> TraceValues \cup {NoValue}] /\ codes \in [Signals -> Code \cup {<<>>}]
    OBVIOUS
  <2> QED
    BY <1>1, <1>2, <2>1, <2>2 DEF VTypeOK
<1>4. Limited /\ Near
  BY TracingAssumption DEF Limited, Near
<1>5. Shapes
  BY <1>1 DEF Shapes
<1>6. HooksKept
  <2>1. \A e \in SimEvents : hooks[e] = Listed(e) /\ ended[e] = {}
    OBVIOUS
  <2>2. \A e \in SimEvents : Listed(e) \in Seq(UserCalls \cup Extensions)
    BY ListedTyped
  <2>3. ASSUME NEW e \in SimEvents
        PROVE  Without(Listed(e), {}) = Listed(e)
    <3>1. PICK q \in Seq(UserCalls \cup Extensions) : q = Listed(e)
      BY <2>2
    <3>2. \A i \in DOMAIN q : q[i] \notin {}
      OBVIOUS
    <3>3. Without(q, {}) = q
      BY <3>2, WithoutOthers
    <3> QED
      BY <3>1, <3>3
  <2> QED
    BY <2>1, <2>2, <2>3 DEF HooksKept
<1>7. CodesOrdered
  BY <1>2 DEF CodesOrdered, CodesDiffer
<1>8. LinesTraced
  <2>1. \A s \in Signals : shown[s] = NoValue
    OBVIOUS
  <2> QED
    BY <2>1 DEF LinesTraced, TracedIn
<1>9. StampsOrdered
  BY DEF StampsOrdered, RecordsOrdered
<1>10. TruthReplayed /\ FileKept
  BY DEF TruthReplayed, FileKept
<1> QED
  BY <1>3, <1>4, <1>5, <1>6, <1>7, <1>8, <1>9, <1>10 DEF VInv

\* A write disturbs neither the lines nor what is recorded.
LEMMA WrittenKeeps ==
  ASSUME VInv, Written \/ UNCHANGED <<value, tracevars>>, UNCHANGED <<outvars, truth>>
  PROVE  /\ value' \in [Signals -> TraceValues] /\ shown' \in [Signals -> TraceValues \cup {NoValue}] /\ oldTime' \in Nat
         /\ traces' \in Seq(Signals) /\ lastCode' \in Code
         /\ codes' \in [Signals -> Code \cup {<<>>}]
         /\ \A s \in Signals : codes'[s] # <<>> <=> s \in Range(traces')
         /\ Shapes' /\ CodesOrdered' /\ LinesTraced' /\ TruthReplayed'
         /\ tmp' = tmp /\ truth' = truth /\ oldTime' = oldTime
<1> USE DEF VInv
<1>1. tmp' = tmp /\ truth' = truth /\ oldTime' = oldTime /\ shown' = shown
  BY DEF outvars
<1>2. /\ value' \in [Signals -> TraceValues]
      /\ traces' \in Seq(Signals) /\ lastCode' \in Code
      /\ codes' \in [Signals -> Code \cup {<<>>}]
      /\ \A s \in Signals : codes'[s] # <<>> <=> s \in Range(traces')
      /\ CodesOrdered'
      /\ Range(traces) \subseteq Range(traces')
      /\ \A s \in Range(traces) : codes'[s] = codes[s]
  <2>1. CASE Written
    BY <2>1, WrittenTypes
  <2>2. CASE UNCHANGED <<value, tracevars>>
    <3>1. value' = value /\ traces' = traces /\ codes' = codes /\ lastCode' = lastCode
      BY <2>2 DEF tracevars
    <3> QED
      BY <3>1 DEF VTypeOK, CodesOrdered, CodesDiffer
  <2> QED
    BY <2>1, <2>2
<1>3. LinesTraced'
  <2>1. \A i \in DOMAIN tmp : tmp[i].kind = "value" => \E s \in Range(traces') : tmp[i].code = codes'[s]
    BY <1>2 DEF LinesTraced, TracedIn
  <2>2. ASSUME NEW s \in Signals, shown[s] # NoValue
        PROVE  s \in Range(traces') /\ LastLine(tmp, codes'[s], shown[s])
    BY <1>2, <2>2 DEF LinesTraced, TracedIn
  <2> QED
    BY <1>1, <2>1, <2>2 DEF LinesTraced, TracedIn
<1>4. TruthReplayed'
  <2>1. ASSUME NEW i \in DOMAIN truth, NEW s \in DOMAIN truth[i].val
        PROVE  s \in Range(traces') /\ (LastOf(i) => Replayed(tmp, truth[i].at, codes'[s], truth[i].val[s]))
    BY <1>2, <2>1 DEF TruthReplayed
  <2>2. \A i : LastOf(i)' <=> LastOf(i)
    BY <1>1 DEF LastOf
  <2> QED
    BY <1>1, <2>1, <2>2 DEF TruthReplayed
<1>5. Shapes'
  BY <1>1 DEF Shapes
<1> QED
  BY <1>1, <1>2, <1>3, <1>4, <1>5 DEF VTypeOK

\* Neither lines nor records: the stamps are as before.
LEMMA StampsStay ==
  ASSUME VInv, tmp' = tmp, truth' = truth, Stamp' = Stamp,
         phase \notin {"init", "timestep_start"}, phase' \notin {"init", "timestep_start"}
  PROVE  StampsOrdered'
<1> USE DEF VInv
<1>1. /\ \E i \in DOMAIN tmp : IsStamp(tmp, i) /\ tmp[i].at = Stamp
      /\ \A i \in DOMAIN tmp : IsStamp(tmp, i) => NotAfter(tmp[i].at, Stamp)
      /\ \A i \in DOMAIN truth : NotAfter(truth[i].at, Stamp)
  BY DEF StampsOrdered
<1>2. RecordsOrdered'
  BY DEF StampsOrdered, RecordsOrdered
<1> QED
  BY <1>1, <1>2 DEF StampsOrdered

LEMMA InitializeKeeps ==
  ASSUME VInv, Initialize
  PROVE  VInv'
<1> USE DEF VInv, Initialize
<1>1. UNCHANGED <<outvars, truth>> /\ UNCHANGED hookvars /\ phase' = phase /\ now' = now /\ delta' = delta
  OBVIOUS
<1>2. /\ value' \in [Signals -> TraceValues] /\ shown' \in [Signals -> TraceValues \cup {NoValue}] /\ oldTime' \in Nat
      /\ traces' \in Seq(Signals) /\ lastCode' \in Code
      /\ codes' \in [Signals -> Code \cup {<<>>}]
      /\ \A s \in Signals : codes'[s] # <<>> <=> s \in Range(traces')
      /\ Shapes' /\ CodesOrdered' /\ LinesTraced' /\ TruthReplayed'
      /\ tmp' = tmp /\ truth' = truth /\ oldTime' = oldTime
  BY <1>1, WrittenKeeps
<1>3. traceDeltas' = traceDeltas
  BY <1>1 DEF hookvars
<1>4. VTypeOK'
  BY <1>1, <1>2, <1>3 DEF VTypeOK
<1>5. HooksKept'
  BY <1>1, HooksStay
<1>6. Limited' /\ Near'
  BY <1>1, <1>2 DEF Limited, Near
<1>7. StampsOrdered'
  BY <1>1, <1>2 DEF StampsOrdered, RecordsOrdered, IsStamp
<1>8. FileKept'
  BY <1>1 DEF FileKept
<1> QED
  BY <1>2, <1>4, <1>5, <1>6, <1>7, <1>8

LEMMA RunStartKeeps ==
  ASSUME VInv, RunStart
  PROVE  VInv'
<1> USE DEF VInv, RunStart
<1>1. UNCHANGED <<value, tracevars>> /\ UNCHANGED <<outvars, truth>> /\ UNCHANGED hookvars
  OBVIOUS
<1>2. /\ value' \in [Signals -> TraceValues] /\ shown' \in [Signals -> TraceValues \cup {NoValue}] /\ oldTime' \in Nat
      /\ traces' \in Seq(Signals) /\ lastCode' \in Code
      /\ codes' \in [Signals -> Code \cup {<<>>}]
      /\ \A s \in Signals : codes'[s] # <<>> <=> s \in Range(traces')
      /\ Shapes' /\ CodesOrdered' /\ LinesTraced' /\ TruthReplayed'
      /\ tmp' = tmp /\ truth' = truth /\ oldTime' = oldTime
  BY <1>1, WrittenKeeps
<1>3. traceDeltas' = traceDeltas
  BY <1>1 DEF hookvars
<1>4. VTypeOK'
  BY <1>2, <1>3 DEF VTypeOK
<1>5. HooksKept'
  BY <1>1, HooksStay
<1>6. Limited' /\ Near'
  BY <1>2 DEF Limited, Near
<1>7. StampsOrdered'
  BY <1>2 DEF StampsOrdered, RecordsOrdered
<1>8. FileKept'
  BY DEF FileKept
<1> QED
  BY <1>2, <1>4, <1>5, <1>6, <1>7, <1>8

LEMMA SettleKeeps ==
  ASSUME VInv, Settle
  PROVE  VInv'
<1> USE DEF VInv, Settle
<1>1. Written \/ UNCHANGED <<value, tracevars>>
  OBVIOUS
<1>2. UNCHANGED <<outvars, truth>> /\ UNCHANGED hookvars /\ now' = now
  OBVIOUS
<1>3. /\ value' \in [Signals -> TraceValues] /\ shown' \in [Signals -> TraceValues \cup {NoValue}] /\ oldTime' \in Nat
      /\ traces' \in Seq(Signals) /\ lastCode' \in Code
      /\ codes' \in [Signals -> Code \cup {<<>>}]
      /\ \A s \in Signals : codes'[s] # <<>> <=> s \in Range(traces')
      /\ Shapes' /\ CodesOrdered' /\ LinesTraced' /\ TruthReplayed'
      /\ tmp' = tmp /\ truth' = truth /\ oldTime' = oldTime
  BY <1>1, <1>2, WrittenKeeps
<1>4. traceDeltas' = traceDeltas
  BY <1>2 DEF hookvars
<1>5. delta \in Nat /\ MaxDeltas \in Nat /\ delta' \in 0 .. MaxDeltas
  BY TracingAssumption DEF VTypeOK
<1>6. VTypeOK'
  BY <1>2, <1>3, <1>4, <1>5 DEF VTypeOK
<1>7. HooksKept'
  BY <1>2, HooksStay
<1>8. Limited' /\ Near'
  BY <1>2, <1>3, <1>5 DEF Limited, Near
<1>9. StampsOrdered'
  <2>1. Stamp' = Stamp
    BY <1>2, <1>4, <1>5 DEF Stamp
  <2> QED
    BY <1>3, <2>1, StampsStay
<1>10. FileKept'
  BY DEF FileKept
<1> QED
  BY <1>3, <1>6, <1>7, <1>8, <1>9, <1>10

LEMMA NextTimestepKeeps ==
  ASSUME VInv, NextTimestep
  PROVE  VInv'
<1> USE DEF VInv, NextTimestep
<1>1. UNCHANGED <<value, tracevars>> /\ UNCHANGED <<outvars, truth>> /\ UNCHANGED hookvars
  OBVIOUS
<1>2. /\ value' \in [Signals -> TraceValues] /\ shown' \in [Signals -> TraceValues \cup {NoValue}] /\ oldTime' \in Nat
      /\ traces' \in Seq(Signals) /\ lastCode' \in Code
      /\ codes' \in [Signals -> Code \cup {<<>>}]
      /\ \A s \in Signals : codes'[s] # <<>> <=> s \in Range(traces')
      /\ Shapes' /\ CodesOrdered' /\ LinesTraced' /\ TruthReplayed'
      /\ tmp' = tmp /\ truth' = truth /\ oldTime' = oldTime
  BY <1>1, WrittenKeeps
<1>3. traceDeltas' = traceDeltas
  BY <1>1 DEF hookvars
<1>4. now \in Nat /\ MaxTime \in Nat /\ now' \in 0 .. MaxTime /\ now' > now
  BY TracingAssumption DEF VTypeOK
<1>5. VTypeOK'
  BY <1>2, <1>3, <1>4 DEF VTypeOK
<1>6. HooksKept'
  BY <1>1, HooksStay
<1>7. Limited' /\ Near'
  BY <1>2, <1>4 DEF Limited, Near, VTypeOK
<1>8. StampsOrdered'
  <2>1. Stamp[1] = now
    BY DEF Stamp
  <2>2. ASSUME NEW i \in DOMAIN tmp, IsStamp(tmp, i)
        PROVE  tmp[i].at[1] < now'
    <3>1. NotAfter(tmp[i].at, Stamp)
      BY <2>2 DEF StampsOrdered
    <3>2. tmp[i].at[1] \in Nat
      <4>1. tmp[i] \in Line
        BY DEF Shapes
      <4>2. tmp[i].at \in Stamps
        BY <2>2, <4>1 DEF Line, IsStamp
      <4> QED
        BY <4>2 DEF Stamps
    <3> QED
      BY <1>4, <2>1, <3>1, <3>2 DEF NotAfter
  <2>3. ASSUME NEW i \in DOMAIN truth
        PROVE  truth[i].at[1] < now'
    <3>1. NotAfter(truth[i].at, Stamp)
      BY DEF StampsOrdered
    <3>2. truth[i].at[1] \in Nat
      <4>1. truth[i] \in Records
        BY DEF Shapes
      <4>2. truth[i].at \in Stamps
        BY <4>1 DEF Records
      <4> QED
        BY <4>2 DEF Stamps
    <3> QED
      BY <1>4, <2>1, <3>1, <3>2 DEF NotAfter
  <2>4. RecordsOrdered'
    BY <1>2 DEF StampsOrdered, RecordsOrdered
  <2> QED
    BY <1>2, <2>2, <2>3, <2>4 DEF StampsOrdered, IsStamp
<1>9. FileKept'
  BY DEF FileKept
<1> QED
  BY <1>2, <1>5, <1>6, <1>7, <1>8, <1>9

LEMMA StutterKeeps ==
  ASSUME VInv, UNCHANGED vvars
  PROVE  VInv'
<1>1. /\ phase' = phase /\ now' = now /\ delta' = delta /\ value' = value
      /\ hooks' = hooks /\ ended' = ended /\ traceDeltas' = traceDeltas
      /\ traces' = traces /\ codes' = codes /\ lastCode' = lastCode
      /\ shown' = shown /\ tmp' = tmp /\ file' = file /\ oldTime' = oldTime
      /\ truth' = truth
  BY DEF vvars, hookvars, tracevars, outvars
<1>2. VTypeOK' /\ Limited' /\ Near'
  BY <1>1 DEF VInv, VTypeOK, Limited, Near
<1>3. Shapes' /\ CodesOrdered'
  BY <1>1 DEF VInv, Shapes, CodesOrdered, CodesDiffer
<1>4. HooksKept'
  <2>1. \A e : Listed(e)' = Listed(e)
    BY <1>1, ListedSame
  <2> QED
    BY <1>1, <2>1 DEF VInv, HooksKept
<1>5. LinesTraced' /\ TruthReplayed'
  <2>1. \A i : LastOf(i)' <=> LastOf(i)
    BY <1>1 DEF LastOf
  <2> QED
    BY <1>1, <2>1 DEF VInv, LinesTraced, TracedIn, TruthReplayed
<1>6. StampsOrdered'
  <2>1. Stamp' = Stamp
    BY <1>1 DEF Stamp
  <2> QED
    BY <1>1, <2>1 DEF VInv, StampsOrdered, RecordsOrdered
<1>7. FileKept'
  <2>1. Undeclared(tmp)' = Undeclared(tmp)
    BY <1>1 DEF Undeclared
  <2> QED
    BY <1>1, <2>1 DEF VInv, FileKept
<1> QED
  BY <1>2, <1>3, <1>4, <1>5, <1>6, <1>7 DEF VInv

\* A timestamp is added.
LEMMA Stamping ==
  ASSUME VInv, NEW k \in Nat
  PROVE  LET q == Append(tmp, StampLine(k))
         IN  /\ q \in Seq(Line)
             /\ TracedIn(q, shown)
             /\ \A u, c, v : Replayed(tmp, u, c, v) => Replayed(q, u, c, v)
             /\ \E i \in DOMAIN q : IsStamp(q, i) /\ q[i].at = <<now, k>>
             /\ \A i \in DOMAIN q : q[i].at = <<now, k>> \/ (i \in DOMAIN tmp /\ q[i] = tmp[i])
<1>1. PICK p \in Seq(Line) : p = tmp
  BY DEF VInv, Shapes
<1>2. StampLine(k) \in Line /\ StampLine(k).kind = "stamp" /\ StampLine(k).at = <<now, k>>
  <2>1. now \in Nat
    BY TracingAssumption DEF VInv, VTypeOK
  <2> QED
    BY <2>1 DEF StampLine, Line, Stamps
<1>3. PICK r \in Seq(Line), q \in Seq(Line), n \in Nat :
        r = <<StampLine(k)>> /\ q = p \o r /\ n = Len(p) /\ q = Append(p, StampLine(k))
  <2>1. PICK x \in Line : x = StampLine(k)
    BY <1>2
  <2>2. <<x>> \in Seq(Line) /\ p \o <<x>> \in Seq(Line) /\ Len(p) \in Nat /\ p \o <<x>> = Append(p, x)
    OBVIOUS
  <2> QED
    BY <2>1, <2>2
<1>4. /\ DOMAIN r = 1 .. 1 /\ r[1] = StampLine(k)
      /\ DOMAIN p = 1 .. n /\ DOMAIN q = 1 .. n + 1
      /\ \A i \in 1 .. n : q[i] = p[i]
      /\ q[n + 1] = StampLine(k)
  BY <1>3
<1>5. \A i \in DOMAIN r : r[i].kind # "value"
  BY <1>2, <1>4
<1>6. TracedIn(q, shown)
  <2>1. ASSUME NEW i \in DOMAIN q, q[i].kind = "value"
        PROVE  \E s \in Range(traces) : q[i].code = codes[s]
    <3>1. i \in DOMAIN p /\ q[i] = p[i]
      BY <1>2, <1>4, <2>1
    <3> QED
      BY <1>1, <2>1, <3>1 DEF VInv, LinesTraced, TracedIn
  <2>2. ASSUME NEW s \in Signals, shown[s] # NoValue
        PROVE  s \in Range(traces) /\ LastLine(q, codes[s], shown[s])
    <3>1. s \in Range(traces) /\ LastLine(p, codes[s], shown[s])
      BY <1>1, <2>2 DEF VInv, LinesTraced, TracedIn
    <3>2. \A j \in DOMAIN r : ~ Gives(r, j, codes[s])
      BY <1>5 DEF Gives
    <3>3. LastLine(p \o r, codes[s], shown[s])
      BY <3>1, <3>2, LaterIsLast
    <3> QED
      BY <1>3, <3>1, <3>3
  <2> QED
    BY <2>1, <2>2 DEF TracedIn
<1>7. ASSUME NEW u, NEW c, NEW v, Replayed(p, u, c, v)
      PROVE  Replayed(q, u, c, v)
  <2>1. Replayed(p \o r, u, c, v)
    BY <1>5, <1>7, ReplayGrows
  <2> QED
    BY <1>3, <2>1
<1>8. n + 1 \in DOMAIN q /\ IsStamp(q, n + 1) /\ q[n + 1].at = <<now, k>>
  BY <1>2, <1>4 DEF IsStamp
<1>9. \A i \in DOMAIN q : q[i].at = <<now, k>> \/ (i \in DOMAIN p /\ q[i] = p[i])
  BY <1>2, <1>4
<1> QED
  BY <1>1, <1>3, <1>6, <1>7, <1>8, <1>9

\* The state of the file when the changes are written under the timestamp t
ReadyFor(q, t) ==
  /\ q \in Seq(Line) /\ TracedIn(q, shown)
  /\ \A u, c, v : Replayed(tmp, u, c, v) => Replayed(q, u, c, v)
  /\ \E i \in DOMAIN q : IsStamp(q, i) /\ q[i].at = t
  /\ \A i \in DOMAIN q : IsStamp(q, i) => NotAfter(q[i].at, t)
  /\ \A i \in DOMAIN truth : NotAfter(truth[i].at, t)

\* The changes are written and recorded.
LEMMA PrintsRecord ==
  ASSUME VInv, NEW t \in Stamps, NEW q, ReadyFor(q, t),
         tmp' = q \o Lines(Changed(shown)), shown' = ShownNow(shown),
         traces' = traces, codes' = codes, truth' = Append(truth, Record(t))
  PROVE  /\ shown' \in [Signals -> TraceValues \cup {NoValue}]
         /\ Shapes' /\ LinesTraced' /\ TruthReplayed' /\ RecordsOrdered'
         /\ \E i \in DOMAIN tmp' : IsStamp(tmp', i) /\ tmp'[i].at = t
         /\ \A i \in DOMAIN tmp' : IsStamp(tmp', i) => NotAfter(tmp'[i].at, t)
         /\ \A i \in DOMAIN truth' : NotAfter(truth'[i].at, t)
<1>1. PICK p \in Seq(Line) : p = q
  BY DEF ReadyFor
<1>2. PICK r \in Seq(Line) : r = Lines(Changed(shown))
  BY LinesAre DEF VInv
<1>3. PICK q2 \in Seq(Line) : q2 = p \o r
  <2>1. p \o r \in Seq(Line)
    OBVIOUS
  <2> QED
    BY <2>1
<1>4. q2 = tmp'
  BY <1>1, <1>2, <1>3
<1>5. /\ ShownNow(shown) \in [Signals -> TraceValues \cup {NoValue}]
      /\ TracedIn(q2, ShownNow(shown))
      /\ \A s \in Range(traces) : LastLine(q2, codes[s], value[s])
      /\ \A i \in DOMAIN q2 : IsStamp(q2, i) => i \in DOMAIN p /\ q2[i] = p[i]
      /\ \A i \in DOMAIN p : i \in DOMAIN q2 /\ q2[i] = p[i]
  <2>1. TracedIn(p, shown)
    BY <1>1 DEF ReadyFor
  <2>2. p \o Lines(Changed(shown)) = q2
    BY <1>2, <1>3
  <2> QED
    BY <2>1, <2>2, Printing DEF VInv
<1>6. \A i \in DOMAIN q2 : IsStamp(q2, i) => NotAfter(q2[i].at, t)
  <2> SUFFICES ASSUME NEW i \in DOMAIN q2, IsStamp(q2, i)
               PROVE  NotAfter(q2[i].at, t)
    OBVIOUS
  <2>1. i \in DOMAIN p /\ q2[i] = p[i]
    BY <1>5
  <2> QED
    BY <1>1, <2>1 DEF ReadyFor, IsStamp
<1>7. PICK j \in DOMAIN p : IsStamp(p, j) /\ p[j].at = t
  BY <1>1 DEF ReadyFor
<1>8. j \in DOMAIN q2 /\ IsStamp(q2, j) /\ q2[j].at = t
  BY <1>5, <1>7 DEF IsStamp
<1>9. Preserves(t)
  <2> SUFFICES ASSUME NEW c, NEW v, NEW u \in Stamps, Replayed(tmp, u, c, v), ~ NotAfter(t, u)
               PROVE  Replayed(q2, u, c, v)
    BY <1>4 DEF Preserves
  <2>1. Replayed(p, u, c, v)
    BY <1>1 DEF ReadyFor
  <2>2. \A l \in DOMAIN r : r[l].kind = "value" => \E i \in DOMAIN p : IsStamp(p, i) /\ ~ NotAfter(p[i].at, u)
    BY <1>7
  <2>3. Replayed(p \o r, u, c, v)
    BY <2>1, <2>2, ReplayGrows
  <2> QED
    BY <1>3, <2>3
<1>10. \A s \in Range(traces) : Replayed(q2, t, codes[s], value[s])
  BY <1>5, <1>6, ReplayNow
<1>11. Recording(t)
  BY <1>4, <1>9, <1>10 DEF Recording, ReadyFor
<1>12. /\ truth' \in Seq(Records)
       /\ RecordsOrdered'
       /\ \A i \in DOMAIN truth' : NotAfter(truth'[i].at, t)
       /\ TruthReplayed'
  BY <1>11, TruthGrows DEF VInv, StampsOrdered
<1>13. LinesTraced'
  <2>1. tmp' = q2 /\ shown' = ShownNow(shown)
    BY <1>4
  <2>2. TracedIn(q2, ShownNow(shown))
    BY <1>5
  <2> QED
    BY <2>1, <2>2 DEF LinesTraced, TracedIn
<1> QED
  BY <1>4, <1>5, <1>6, <1>8, <1>12, <1>13 DEF Shapes

LEMMA ProgressNear ==
  ASSUME NEW t \in Nat
  PROVE  Progress(t) \in Nat /\ Progress(t) <= t /\ t <= Progress(t) + Step
<1>1. Step \in Nat /\ Step > 0
  BY TracingAssumption
<1>2. PICK d \in Int : d = t \div Step
  BY <1>1
<1>3. Step * d <= t /\ t < Step * d + Step
  BY <1>1, <1>2
<1>4. d >= 0
  BY <1>1, <1>3
<1>5. Progress(t) = Step * d
  BY <1>1, <1>2 DEF Progress
<1>6. Step * d \in Nat
  BY <1>1, <1>4
<1> QED
  BY <1>1, <1>3, <1>5, <1>6

LEMMA NothingWritten ==
  ASSUME VInv, UNCHANGED <<value, tracevars>>, tmp' = tmp, shown' = shown, truth' = truth
  PROVE  Shapes' /\ CodesOrdered' /\ LinesTraced' /\ TruthReplayed'
<1>1. traces' = traces /\ codes' = codes /\ lastCode' = lastCode
  BY DEF tracevars
<1>2. Shapes' /\ CodesOrdered' /\ LinesTraced'
  BY <1>1 DEF VInv, Shapes, CodesOrdered, CodesDiffer, LinesTraced, TracedIn
<1>3. \A i : LastOf(i)' <=> LastOf(i)
  BY DEF LastOf
<1> QED
  BY <1>1, <1>2, <1>3 DEF VInv, TruthReplayed

LEMMA TimestepStartKeeps ==
  ASSUME VInv, TimestepBegins
  PROVE  VInv'
<1> USE DEF VInv, TimestepBegins
<1>1. /\ tmp' = Append(tmp, StampLine(0)) /\ shown' = shown /\ file' = file
      /\ oldTime' = IF now > oldTime + Step THEN Progress(now) ELSE oldTime
  BY StartWrites
<1>2. HooksKept' /\ traceDeltas' = traceDeltas
  <2>1. "timestep_start" \in SimEvents
    BY DEF SimEvents
  <2>2. "timestep_start" = "run_end" <=> phase' = "finished"
    OBVIOUS
  <2> QED
    BY <2>1, <2>2, HooksLeave
<1>3. traces' = traces /\ codes' = codes /\ lastCode' = lastCode
  BY DEF tracevars
<1>4. now \in Nat /\ MaxTime \in Nat /\ MaxDeltas \in Nat /\ Step \in Nat
  BY TracingAssumption DEF VTypeOK
<1>5. Near' /\ oldTime' \in Nat
  BY <1>1, <1>4, ProgressNear DEF Near, VTypeOK
<1>6. VTypeOK' /\ Limited'
  BY <1>1, <1>2, <1>3, <1>4, <1>5 DEF VTypeOK, Limited
<1>7. PICK q \in Seq(Line) : q = tmp'
  BY <1>1, <1>4, Stamping
<1>8. /\ TracedIn(q, shown)
      /\ \A u, c, v : Replayed(tmp, u, c, v) => Replayed(q, u, c, v)
      /\ \E i \in DOMAIN q : IsStamp(q, i) /\ q[i].at = <<now, 0>>
      /\ \A i \in DOMAIN q : q[i].at = <<now, 0>> \/ (i \in DOMAIN tmp /\ q[i] = tmp[i])
  BY <1>1, <1>4, <1>7, Stamping
<1>9. Shapes' /\ CodesOrdered'
  BY <1>3, <1>7 DEF Shapes, CodesOrdered, CodesDiffer
<1>10. LinesTraced'
  BY <1>1, <1>3, <1>7, <1>8 DEF LinesTraced, TracedIn
<1>11. TruthReplayed'
  <2>1. \A i : LastOf(i)' <=> LastOf(i)
    BY DEF LastOf
  <2>2. ASSUME NEW i \in DOMAIN truth, NEW s \in DOMAIN truth[i].val
        PROVE  s \in Range(traces) /\ (LastOf(i) => Replayed(q, truth[i].at, codes[s], truth[i].val[s]))
    BY <1>8, <2>2 DEF TruthReplayed
  <2> QED
    BY <1>3, <1>7, <2>1, <2>2 DEF TruthReplayed
<1>12. StampsOrdered'
  <2>1. Stamp' = <<now, 0>>
    BY DEF Stamp
  <2>2. \A x : x[1] < now => NotAfter(x, <<now, 0>>)
    BY DEF NotAfter
  <2>3. NotAfter(<<now, 0>>, <<now, 0>>)
    BY <1>4 DEF NotAfter
  <2>4. ASSUME NEW i \in DOMAIN q, IsStamp(q, i)
        PROVE  NotAfter(q[i].at, <<now, 0>>)
    <3>1. CASE q[i].at = <<now, 0>>
      BY <2>3, <3>1
    <3>2. CASE i \in DOMAIN tmp /\ q[i] = tmp[i]
      BY <2>2, <2>4, <3>2 DEF StampsOrdered, IsStamp
    <3> QED
      BY <1>8, <3>1, <3>2
  <2>5. \A i \in DOMAIN truth : NotAfter(truth[i].at, <<now, 0>>)
    BY <2>2 DEF StampsOrdered
  <2>6. RecordsOrdered'
    BY DEF StampsOrdered, RecordsOrdered
  <2> QED
    BY <1>7, <1>8, <2>1, <2>4, <2>5, <2>6 DEF StampsOrdered
<1>13. FileKept'
  BY DEF FileKept
<1> QED
  BY <1>2, <1>5, <1>6, <1>9, <1>10, <1>11, <1>12, <1>13

LEMMA DeltaStartKeeps ==
  ASSUME VInv, DeltaBegins
  PROVE  VInv'
<1> USE DEF VInv, DeltaBegins
<1>1. /\ file' = file /\ oldTime' = oldTime
      /\ traceDeltas /\ delta # 0 =>
           /\ tmp' = Append(tmp, StampLine(delta)) \o Lines(Changed(shown))
           /\ shown' = ShownNow(shown)
      /\ ~ (traceDeltas /\ delta # 0) => tmp' = tmp /\ shown' = shown
  BY DeltaWrites
<1>2. HooksKept' /\ traceDeltas' = traceDeltas
  <2>1. "delta_start" \in SimEvents
    BY DEF SimEvents
  <2>2. "delta_start" = "run_end" <=> phase' = "finished"
    OBVIOUS
  <2> QED
    BY <2>1, <2>2, HooksLeave
<1>3. traces' = traces /\ codes' = codes /\ lastCode' = lastCode
  BY DEF tracevars
<1>4. now \in Nat /\ delta \in Nat
  BY TracingAssumption DEF VTypeOK
<1>5. Near' /\ Limited' /\ FileKept'
  BY <1>1 DEF Near, Limited, FileKept
<1>6. ASSUME shown' \in [Signals -> TraceValues \cup {NoValue}]
      PROVE  VTypeOK'
  BY <1>1, <1>2, <1>3, <1>6 DEF VTypeOK
<1>7. CodesOrdered'
  BY <1>3 DEF CodesOrdered, CodesDiffer
<1>8. CASE traceDeltas /\ delta # 0
  <2> DEFINE t == <<now, delta>>
  <2>1. t \in Stamps /\ Stamp' = t
    BY <1>2, <1>4, <1>8 DEF Stamps, Stamp
  <2>2. truth' = Append(truth, Record(t))
    BY <1>4, <1>8 DEF Recorded, Record
  <2>3. PICK q \in Seq(Line) : q = Append(tmp, StampLine(delta))
    BY <1>4, Stamping
  <2>4. /\ TracedIn(q, shown)
        /\ \A u, c, v : Replayed(tmp, u, c, v) => Replayed(q, u, c, v)
        /\ \E i \in DOMAIN q : IsStamp(q, i) /\ q[i].at = t
        /\ \A i \in DOMAIN q : q[i].at = t \/ (i \in DOMAIN tmp /\ q[i] = tmp[i])
    BY <1>4, <2>3, Stamping
  <2>5. Stamp \in Stamps /\ NotAfter(Stamp, t) /\ NotAfter(t, t)
    BY <1>4, <1>8 DEF Stamp, Stamps, NotAfter
  <2>6. ASSUME NEW i \in DOMAIN q, IsStamp(q, i)
        PROVE  NotAfter(q[i].at, t)
    <3>1. CASE q[i].at = t
      BY <2>5, <3>1
    <3>2. CASE i \in DOMAIN tmp /\ q[i] = tmp[i]
      <4>1. NotAfter(tmp[i].at, Stamp)
        BY <2>6, <3>2 DEF StampsOrdered, IsStamp
      <4>2. tmp[i].at \in Stamps
        <5>1. tmp[i] \in Line
          BY <3>2 DEF Shapes
        <5> QED
          BY <2>6, <3>2, <5>1 DEF Line, IsStamp
      <4> QED
        BY <2>1, <2>5, <3>2, <4>1, <4>2, StampsAreOrdered
    <3> QED
      BY <2>4, <3>1, <3>2
  <2>7. ASSUME NEW i \in DOMAIN truth
        PROVE  NotAfter(truth[i].at, t)
    <3>1. NotAfter(truth[i].at, Stamp)
      BY DEF StampsOrdered
    <3>2. truth[i].at \in Stamps
      <4>1. truth[i] \in Records
        BY DEF Shapes
      <4> QED
        BY <4>1 DEF Records
    <3> QED
      BY <2>1, <2>5, <3>1, <3>2, StampsAreOrdered
  <2>8. ReadyFor(q, t)
    BY <2>3, <2>4, <2>6, <2>7 DEF ReadyFor
  <2>9. tmp' = q \o Lines(Changed(shown)) /\ shown' = ShownNow(shown)
    BY <1>1, <1>8, <2>3
  <2> HIDE DEF t
  <2>10. /\ shown' \in [Signals -> TraceValues \cup {NoValue}]
         /\ Shapes' /\ LinesTraced' /\ TruthReplayed' /\ RecordsOrdered'
         /\ \E i \in DOMAIN tmp' : IsStamp(tmp', i) /\ tmp'[i].at = t
         /\ \A i \in DOMAIN tmp' : IsStamp(tmp', i) => NotAfter(tmp'[i].at, t)
         /\ \A i \in DOMAIN truth' : NotAfter(truth'[i].at, t)
    BY <1>3, <2>1, <2>2, <2>8, <2>9, PrintsRecord
  <2>11. StampsOrdered'
    BY <2>1, <2>10 DEF StampsOrdered
  <2> QED
    BY <1>2, <1>5, <1>6, <1>7, <2>10, <2>11
<1>9. CASE ~ (traceDeltas /\ delta # 0)
  <2>1. tmp' = tmp /\ shown' = shown /\ truth' = truth
    BY <1>1, <1>4, <1>9
  <2>2. Shapes' /\ LinesTraced' /\ TruthReplayed'
    BY <2>1, NothingWritten
  <2>3. Stamp' = Stamp
    BY <1>2, <1>9 DEF Stamp
  <2>4. StampsOrdered'
    BY <2>1, <2>3, StampsStay
  <2>5. shown' \in [Signals -> TraceValues \cup {NoValue}]
    BY <2>1 DEF VTypeOK
  <2> QED
    BY <1>2, <1>5, <1>6, <1>7, <2>2, <2>4, <2>5
<1> QED
  BY <1>8, <1>9

LEMMA TimestepEndKeeps ==
  ASSUME VInv, TimestepEnds
  PROVE  VInv'
<1> USE DEF VInv, TimestepEnds
<1>1. /\ tmp' = tmp \o Lines(Changed(shown)) /\ shown' = ShownNow(shown)
      /\ file' = file /\ oldTime' = oldTime
  BY EndWrites
<1>2. HooksKept' /\ traceDeltas' = traceDeltas
  <2>1. "timestep_end" \in SimEvents
    BY DEF SimEvents
  <2>2. "timestep_end" = "run_end" <=> phase' = "finished"
    OBVIOUS
  <2> QED
    BY <2>1, <2>2, HooksLeave
<1>3. traces' = traces /\ codes' = codes /\ lastCode' = lastCode
  BY DEF tracevars
<1>4. now \in Nat /\ delta \in Nat
  BY TracingAssumption DEF VTypeOK
<1>5. Near' /\ Limited' /\ FileKept'
  BY <1>1 DEF Near, Limited, FileKept
<1>0. PICK k \in Nat : k = IF traceDeltas /\ delta > 0 THEN delta - 1 ELSE 0
  BY <1>4
<1>6. PICK t \in Stamps : t = <<now, k>>
  BY <1>4 DEF Stamps
<1>7. Stamp = t /\ Stamp' = t
  BY <1>0, <1>2, <1>4, <1>6 DEF Stamp
<1>8. truth' = Append(truth, Record(t))
  BY <1>0, <1>6 DEF Recorded, Record
<1>9. ReadyFor(tmp, t)
  BY <1>7 DEF ReadyFor, Shapes, LinesTraced, StampsOrdered
<1>10. /\ shown' \in [Signals -> TraceValues \cup {NoValue}]
       /\ Shapes' /\ LinesTraced' /\ TruthReplayed' /\ RecordsOrdered'
       /\ \E i \in DOMAIN tmp' : IsStamp(tmp', i) /\ tmp'[i].at = t
       /\ \A i \in DOMAIN tmp' : IsStamp(tmp', i) => NotAfter(tmp'[i].at, t)
       /\ \A i \in DOMAIN truth' : NotAfter(truth'[i].at, t)
  BY <1>1, <1>3, <1>8, <1>9, PrintsRecord
<1>11. StampsOrdered'
  BY <1>7, <1>10 DEF StampsOrdered
<1>12. VTypeOK' /\ CodesOrdered'
  BY <1>1, <1>2, <1>3, <1>10 DEF VTypeOK, CodesOrdered, CodesDiffer
<1> QED
  BY <1>2, <1>5, <1>10, <1>11, <1>12

\* The end of the run, after a time step or at the limit of delta cycles
LEMMA EndKeeps ==
  ASSUME VInv, RunEnd \/ TooManyDeltas
  PROVE  VInv'
<1> USE DEF VInv, RunEnd, TooManyDeltas
<1>1. /\ phase \in {"advance", "evaluate"} /\ phase' = "finished" /\ Event("run_end")
      /\ now' = now /\ value' = value /\ truth' = truth /\ UNCHANGED tracevars
  OBVIOUS
<1>2. /\ tmp' = tmp /\ shown' = shown /\ oldTime' = oldTime
      /\ file' = Without(tmp, Undeclared(tmp))
  BY <1>1, RunEndWrites
<1>3. HooksKept' /\ traceDeltas' = traceDeltas
  <2>1. "run_end" \in SimEvents
    BY DEF SimEvents
  <2> QED
    BY <1>1, <2>1, HooksLeave
<1>4. traces' = traces /\ codes' = codes /\ lastCode' = lastCode
  BY <1>1 DEF tracevars
<1>5. delta' \in 0 .. MaxDeltas + 1 /\ Stamp' = Stamp
  <2>1. delta \in Nat /\ delta <= MaxDeltas /\ MaxDeltas \in Nat
    BY <1>1, TracingAssumption DEF VTypeOK, Limited
  <2>2. CASE RunEnd
    BY <1>1, <1>3, <2>1, <2>2 DEF Stamp
  <2>3. CASE TooManyDeltas
    BY <1>1, <1>3, <2>1, <2>3 DEF Stamp
  <2> QED
    BY <2>2, <2>3
<1>6. VTypeOK' /\ Limited' /\ Near'
  BY <1>1, <1>2, <1>3, <1>4, <1>5 DEF VTypeOK, Limited, Near
<1>7. Shapes' /\ CodesOrdered' /\ LinesTraced' /\ TruthReplayed'
  BY <1>1, <1>2, NothingWritten
<1>8. StampsOrdered'
  BY <1>1, <1>2, <1>5, StampsStay
<1>9. FileKept'
  <2>1. Undeclared(tmp)' = Undeclared(tmp)
    BY <1>2, <1>4 DEF Undeclared
  <2> QED
    BY <1>2, <2>1 DEF FileKept
<1> QED
  BY <1>3, <1>6, <1>7, <1>8, <1>9

LEMMA NextKeeps ==
  ASSUME VInv, [VNext]_vvars
  PROVE  VInv'
<1>1. CASE Initialize
  BY <1>1, InitializeKeeps
<1>2. CASE RunStart
  BY <1>2, RunStartKeeps
<1>3. CASE TimestepBegins
  BY <1>3, TimestepStartKeeps
<1>4. CASE DeltaBegins
  BY <1>4, DeltaStartKeeps
<1>5. CASE Settle
  BY <1>5, SettleKeeps
<1>6. CASE TimestepEnds
  BY <1>6, TimestepEndKeeps
<1>7. CASE NextTimestep
  BY <1>7, NextTimestepKeeps
<1>8. CASE RunEnd \/ TooManyDeltas
  BY <1>8, EndKeeps
<1>9. CASE UNCHANGED vvars
  BY <1>9, StutterKeeps
<1> QED
  BY <1>1, <1>2, <1>3, <1>4, <1>5, <1>6, <1>7, <1>8, <1>9 DEF VNext

LEMMA Invariance ==
  VSpec => []VInv
<1>1. VInit => VInv
  BY InitInv
<1>2. VInv /\ [VNext]_vvars => VInv'
  BY NextKeeps
<1> QED
  BY <1>1, <1>2, PTL DEF VSpec

-----------------------------------------------------------------------------
(* Theorems *)

\* VTypeOK: the variables have their types; in particular a signal has a code exactly when it
\* is traced.
THEOREM VTypeCorrect ==
  VSpec => []VTypeOK
<1>1. VInv => VTypeOK
  BY DEF VInv
<1> QED
  BY <1>1, Invariance, PTL

\* HooksExact: deleting the expired callbacks by index, from the end, takes out just these
\* (SimEvent.__call__), whatever the user's callbacks return and whenever; and the time that
\* SimtimeProgress has reported is never more than a step behind.
THEOREM HooksCorrect ==
  VSpec => []HooksExact
<1>1. VInv => HooksExact
  BY DEF VInv, HooksKept, Near, HooksExact
<1> QED
  BY <1>1, Invariance, PTL

\* What is read from the lines that are left at the end is what was recorded.
LEMMA FileReplays ==
  ASSUME VInv
  PROVE  FileExact
<1> USE DEF VInv
<1>1. CodesDiffer
  BY DEF CodesOrdered
<1> SUFFICES ASSUME phase = "finished", NEW i \in DOMAIN truth, LastOf(i),
                    NEW s \in Declared \cap DOMAIN truth[i].val
             PROVE  Replayed(file, truth[i].at, codes[s], truth[i].val[s])
  BY <1>1 DEF FileExact
<1>2. s \in Range(traces) /\ Replayed(tmp, truth[i].at, codes[s], truth[i].val[s])
  BY DEF TruthReplayed
<1>3. PICK q \in Seq(Line) : q = tmp
  BY DEF Shapes
<1>4. ASSUME NEW j \in DOMAIN q, IsStamp(q, j) \/ Gives(q, j, codes[s])
      PROVE  q[j] \notin Undeclared(q)
  <2>1. CASE IsStamp(q, j)
    BY <2>1 DEF IsStamp, Undeclared
  <2>2. CASE Gives(q, j, codes[s])
    BY <2>2 DEF Gives, Undeclared
  <2> QED
    BY <1>4, <2>1, <2>2
<1>5. Replayed(Without(q, Undeclared(q)), truth[i].at, codes[s], truth[i].val[s])
  BY <1>2, <1>3, <1>4, ReplayKept
<1> QED
  BY <1>3, <1>5 DEF FileKept

\* FileExact: no two signals share a code, and reading the file up to a timestamp gives each
\* declared signal the value it had then, although only changes are written and lines of
\* undeclared signals are left out (VCDTracer).
THEOREM FileCorrect ==
  VSpec => []FileExact
<1>1. VInv => FileExact
  BY FileReplays
<1> QED
  BY <1>1, Invariance, PTL
=============================================================================
