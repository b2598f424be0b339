--------------------------- MODULE SequenceFolds ----------------------------
(***************************************************************************)
(* Folds over a sequence, as FoldLeft of the community modules defines     *)
(* them: what every step keeps holds at the end.  This is induction over   *)
(* the steps of the fold, by the least one that fails.  Step and what it   *)
(* keeps (Holds, of the value, the number of steps made and a context c)   *)
(* are constants: an instance of this module for each loop.                *)
(***************************************************************************)
EXTENDS Naturals, Sequences, TLAPS

(* One step of the fold, and what it keeps.                                *)
CONSTANTS Step(_, _, _), Holds(_, _, _)

(* The greatest element of S.                                              *)
Last(S) == CHOOSE x \in S : \A y \in S : x >= y

(* FoldLeft(Step, base, s), with the definitions it rests on put in; iter  *)
(* is defined on sets of places, the last of which is taken last.          *)
After(base, s, c) ==
  LET iter[S \in SUBSET DOMAIN s] ==
        IF S = {} THEN base
        ELSE LET k == Last(S) IN Step(iter[S \ {k}], s[k], c)
  IN iter[DOMAIN s]

(* Every set of naturals has a least element: a theorem (Least) of the     *)
(* modules that use this one, an assumption of its lemmas to keep what an  *)
(* instance of the module brings in small.                                 *)
LeastNumber == \A S \in SUBSET Nat : S # {} => \E n \in S : \A m \in S : n <= m

(* g is the function that After defines, on the sets of places up to m.    *)
IsIter(g, m, base, s, c) ==
  g = [S \in SUBSET (1 .. m) |->
         IF S = {} THEN base
         ELSE LET k == Last(S) IN Step(g[S \ {k}], s[k], c)]

(* The last of some places up to m that include m.                         *)
LEMMA MaxIs ==
  ASSUME NEW m \in Nat, NEW S \in SUBSET (1 .. m), m \in S
  PROVE  Last(S) = m
<1>1. \A y \in S : m >= y  OBVIOUS
<1>2. PICK x \in S : x = Last(S) /\ \A y \in S : x >= y
  BY <1>1 DEF Last
<1> QED  BY <1>1, <1>2

(* The recursion defines a function, by the least m for which it does not. *)
LEMMA IterExists ==
  ASSUME LeastNumber, NEW n \in Nat, NEW base, NEW s, NEW c
  PROVE  \E g : IsIter(g, n, base, s, c)
<1> DEFINE Bad == {m \in Nat : ~ \E g : IsIter(g, m, base, s, c)}
<1> SUFFICES ASSUME Bad # {} PROVE FALSE
  OBVIOUS
<1>1. PICK m \in Bad : \A l \in Bad : m <= l
  <2>1. Bad \in SUBSET Nat  OBVIOUS
  <2> HIDE DEF Bad
  <2> QED  BY <2>1 DEF LeastNumber
<1>2. m \in Nat /\ ~ \E g : IsIter(g, m, base, s, c)  BY <1>1
<1>3. m # 0
  <2>1. \A S \in SUBSET (1 .. 0) : S = {}  OBVIOUS
  <2>2. IsIter([S \in SUBSET (1 .. 0) |-> base], 0, base, s, c)  BY <2>1 DEF IsIter
  <2> QED  BY <2>2, <1>2
<1>4. PICK g : IsIter(g, m - 1, base, s, c)
  <2>1. m - 1 \in Nat /\ ~(m <= m - 1)  BY <1>2, <1>3
  <2> QED  BY <2>1, <1>1
<1> HIDE DEF Bad
<1> DEFINE h == [S \in SUBSET (1 .. m) |->
                   IF m \in S THEN Step(g[S \ {m}], s[m], c) ELSE g[S]]
<1>5. \A S \in SUBSET (1 .. m - 1) : h[S] = g[S] /\ S \in SUBSET (1 .. m) /\ m \notin S
  BY <1>2, <1>3
<1>6. ASSUME NEW S \in SUBSET (1 .. m)
      PROVE  h[S] = IF S = {} THEN base
                    ELSE LET k == Last(S) IN Step(h[S \ {k}], s[k], c)
  <2>1. CASE m \in S
    <3>1. Last(S) = m  BY <1>2, <2>1, MaxIs
    <3>2. S \ {m} \in SUBSET (1 .. m - 1)  BY <1>2
    <3>3. h[S \ {m}] = g[S \ {m}]  BY <3>2, <1>5
    <3>4. h[S] = Step(g[S \ {m}], s[m], c)  BY <2>1
    <3> HIDE DEF h
    <3> QED  BY <3>1, <3>3, <3>4, <2>1
  <2>2. CASE m \notin S
    <3>1. S \in SUBSET (1 .. m - 1)  BY <2>2, <1>2, <1>3
    <3>2. g[S] = IF S = {} THEN base
                 ELSE LET k == Last(S) IN Step(g[S \ {k}], s[k], c)
      BY <3>1, <1>4 DEF IsIter
    <3>3. h[S] = g[S] /\ h[S \ {Last(S)}] = g[S \ {Last(S)}]
      <4>1. S \ {Last(S)} \in SUBSET (1 .. m - 1)  BY <3>1
      <4> QED  BY <3>1, <4>1, <1>5
    <3> HIDE DEF h
    <3> QED  BY <3>2, <3>3
  <2> QED  BY <2>1, <2>2
<1>7. h = [S \in SUBSET (1 .. m) |-> h[S]]  OBVIOUS
<1> HIDE DEF h
<1>8. IsIter(h, m, base, s, c)  BY <1>6, <1>7 DEF IsIter
<1> QED  BY <1>2, <1>8

(* A fold is a sequence of values, each one Step from the one before.      *)
LEMMA Unfolds ==
  ASSUME LeastNumber, NEW base, NEW s, NEW c, NEW T, s \in Seq(T)
  PROVE  \E f : /\ f[0] = base
                /\ \A k \in 1 .. Len(s) : f[k] = Step(f[k - 1], s[k], c)
                /\ After(base, s, c) = f[Len(s)]
<1> DEFINE n == Len(s)
           g == CHOOSE h : IsIter(h, n, base, s, c)
           f == [k \in 0 .. n |-> g[1 .. k]]
<1>1. n \in Nat /\ DOMAIN s = 1 .. n  OBVIOUS
<1>2. IsIter(g, n, base, s, c)  BY <1>1, IterExists
<1>3. After(base, s, c) = g[1 .. n]
  BY <1>1 DEF After, IsIter
<1> HIDE DEF g
<1>4. f[0] = base
  <2>1. 1 .. 0 = {} /\ {} \in SUBSET (1 .. n)  OBVIOUS
  <2>2. g[{}] = base
    <3> HIDE DEF n
    <3>1. ASSUME NEW S \in SUBSET (1 .. n), S = {}  PROVE  g[S] = base
      BY <3>1, <1>2 DEF IsIter
    <3> HIDE DEF g
    <3>2. {} \in SUBSET (1 .. n)  OBVIOUS
    <3> QED  BY ONLY <3>1, <3>2
  <2> QED  BY <2>1, <2>2, <1>1
<1>5. ASSUME NEW k \in 1 .. n  PROVE  f[k] = Step(f[k - 1], s[k], c)
  <2>1. 1 .. k \in SUBSET (1 .. n) /\ k \in 1 .. k /\ 1 .. k # {} /\ k \in Nat
    <3>1. k \in Nat /\ k >= 1 /\ k <= n  BY <1>1
    <3>2. \A i \in 1 .. k : i \in 1 .. n  BY <3>1, <1>1
    <3>3. k \in 1 .. k  BY <3>1
    <3> QED  BY <3>1, <3>2, <3>3
  <2>2. Last(1 .. k) = k  BY <2>1, MaxIs
  <2>3. (1 .. k) \ {k} = 1 .. k - 1  BY <2>1
  <2>4. g[1 .. k] = Step(g[1 .. k - 1], s[k], c)
    <3> HIDE DEF n
    <3> QED  BY <1>2, <2>1, <2>2, <2>3 DEF IsIter
  <2>5. f[k] = g[1 .. k] /\ f[k - 1] = g[1 .. k - 1]  BY <1>1
  <2> QED  BY <2>4, <2>5
<1>6. f[n] = g[1 .. n]  BY <1>1
<1> HIDE DEF f
<1> QED  BY <1>3, <1>4, <1>5, <1>6

(* What holds at the start and is kept by each step holds at the end.      *)
LEMMA Kept ==
  ASSUME LeastNumber, NEW base, NEW T, NEW s \in Seq(T), NEW c, Holds(base, 0, c),
         \A x : \A k \in DOMAIN s : Holds(x, k - 1, c) => Holds(Step(x, s[k], c), k, c)
  PROVE  Holds(After(base, s, c), Len(s), c)
<1> DEFINE n == Len(s)
<1>1. PICK f :  /\ f[0] = base
                /\ \A k \in 1 .. n : f[k] = Step(f[k - 1], s[k], c)
                /\ After(base, s, c) = f[n]
  BY Unfolds
<1>2. n \in Nat /\ DOMAIN s = 1 .. n  OBVIOUS
<1> DEFINE Bad == {k \in 0 .. n : ~Holds(f[k], k, c)}
<1> SUFFICES ASSUME Bad # {} PROVE FALSE
  BY <1>1, <1>2
<1>3. PICK k \in Bad : \A l \in Bad : k <= l
  <2>1. Bad \in SUBSET Nat  BY <1>2
  <2> HIDE DEF Bad
  <2> QED  BY <2>1 DEF LeastNumber
<1>4. k \in 0 .. n /\ ~Holds(f[k], k, c)  BY <1>3
<1>5. k # 0  BY <1>4, <1>1
<1>6. k \in 1 .. n /\ k - 1 \in 0 .. n /\ ~(k <= k - 1)  BY <1>2, <1>4, <1>5
<1>7. Holds(f[k - 1], k - 1, c)  BY <1>3, <1>6
<1>8. Holds(Step(f[k - 1], s[k], c), k, c)  BY <1>2, <1>6, <1>7
<1> QED  BY <1>1, <1>4, <1>6, <1>8

=============================================================================
