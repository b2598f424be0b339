------------------------- MODULE BufferTabs_proofs --------------------------
(***************************************************************************)
(* What BufferTabs and PaneLayout promise, for any files, limits and       *)
(* bounds: the types; one tab per file; the buffer store and the pane      *)
(* store in agreement after every step, with the active buffer on top; no  *)
(* unsaved and no pinned buffer taken out of the tabs but in the ways the  *)
(* code allows.                                                            *)
(*                                                                         *)
(* Fine says what holds of the list of buffers, GoodLay of the panes, and  *)
(* Sound that the two agree.  An operation goes through stores that are    *)
(* only Fine and Half, when the active buffer is gone and its successor is *)
(* not shown yet.  Cut and Loses say which buffers an operation may take   *)
(* out; they are what the two action properties rest on.  Loops over tabs  *)
(* and panes are folds: SequenceFolds.                                     *)
(***************************************************************************)
EXTENDS BufferTabs, FiniteSetTheorems, TLAPS

(* Some of the buffers as, each at most once.                              *)
Thinner(as, bs) ==
  /\ bs \in Seq(Buffer)
  /\ \A k \in DOMAIN bs : \E j \in DOMAIN as : bs[k] = as[j]
  /\ \A j, k \in DOMAIN bs : bs[j].id = bs[k].id => j = k

(* What the list of open buffers satisfies when n is the next id: an id    *)
(* has one buffer and a file too, unless one was given the path of         *)
(* another, an editor has a path, and what is pinned is neither a preview  *)
(* nor the new-tab page.                                                   *)
GoodBufs(bs, n) ==
  /\ bs \in Seq(Buffer)
  /\ \A j, k \in DOMAIN bs :
       /\ bs[j].id = bs[k].id => j = k
       /\ bs[j].path = bs[k].path /\ bs[j].type = "editor"
            => j = k \/ bs[j].twin \/ bs[k].twin
  /\ \A k \in DOMAIN bs :
       /\ bs[k].id < n
       /\ bs[k].type = "editor" <=> bs[k].path # None
       /\ bs[k].pinned => ~bs[k].preview /\ bs[k].type # "newTab"

(* Typing of a store as a record with these five fields.                   *)
IsStore(t) == t = [bufs |-> t.bufs, active |-> t.active, pending |-> t.pending,
                   closed |-> t.closed, lay |-> t.lay]

(* The part of the invariant that holds of every store an operation goes   *)
(* through, with n the next id.                                            *)
Fine(t, n) ==
  /\ IsStore(t)
  /\ GoodBufs(t.bufs, n)
  /\ t.closed \in Seq(ClosedTab)

(* The step from t to u takes buffers of S out, and changes none.          *)
Cut(t, u, S) ==
  /\ Thinner(t.bufs, u.bufs)
  /\ ToSet(t.bufs) \ ToSet(u.bufs) \subseteq S

WithIds(t, I) == {b \in ToSet(t.bufs) : b.id \in I}

(* The buffers that make room for another one are kept below a limit.      *)
Evictable(t) == Where(t.bufs, LAMBDA b : ~b.pinned /\ b.type # "terminal")
Full(t) == Len(Evictable(t)) >= StoreMax

(* What any operation may take out of the tabs.                            *)
Spared(t) == {b \in ToSet(t.bufs) : ~b.pinned /\ ~IsDirty(b)}

(* What opening a buffer may take out of the tabs.                         *)
Expendable(t) ==
  {b \in ToSet(t.bufs) : ~b.pinned /\ (IsDirty(b) => Full(t) \/ b.preview)}

(* Every buffer of t that is not in S stays, if not as it was.             *)
Loses(t, u, S) == \A b \in ToSet(t.bufs) : b.id \in OpenIds(u) \/ b \in S

(* The same buffers in the same places, changed in what is no identity.    *)
SameOnes(bs, cs) ==
  /\ bs \in Seq(Buffer) /\ cs \in Seq(Buffer) /\ DOMAIN cs = DOMAIN bs
  /\ \A k \in DOMAIN bs : /\ cs[k].id = bs[k].id /\ cs[k].path = bs[k].path
                          /\ cs[k].type = bs[k].type /\ cs[k].twin = bs[k].twin

(* The same, but for their paths.                                          *)
SamePlaces(bs, cs) ==
  /\ bs \in Seq(Buffer) /\ cs \in Seq(Buffer) /\ DOMAIN cs = DOMAIN bs
  /\ \A k \in DOMAIN bs : cs[k].id = bs[k].id

(* The folds over tab ids, with what each of their steps keeps: c has the  *)
(* store the fold starts from, the next id and the ids.                    *)
ForceStep(x, y, c) == CloseForce(x, y)
ForceHolds(x, k, c) ==
  /\ Fine(x, c.n) /\ x.pending = c.t.pending
  /\ Cut(c.t, x, WithIds(c.t, c.ids))
CF == INSTANCE SequenceFolds WITH Step <- ForceStep, Holds <- ForceHolds

AskStep(x, y, c) == CloseAsking(x, y)
AskHolds(x, k, c) ==
  /\ Fine(x, c.n)
  /\ Cut(c.t, x, {b \in WithIds(c.t, c.ids) : ~IsDirty(b)})
CA == INSTANCE SequenceFolds WITH Step <- AskStep, Holds <- AskHolds

-----------------------------------------------------------------------------
LEMMA Least ==
  ASSUME NEW T \in SUBSET Nat, T # {}
  PROVE  \E n \in T : \A m \in T : n <= m
<1>1. IsWellFoundedOn(OpToRel(<, Nat), Nat)  BY NatLessThanWellFounded
<1>2. PICK n \in T : \A m \in T : ~(<<m, n>> \in OpToRel(<, Nat))
  BY <1>1, WFMin
<1>3. \A m \in T : ~(m < n)  BY <1>2 DEF OpToRel
<1> QED  BY <1>3

(* g is the function that Only defines, up to m.  It exists: by its least  *)
(* counterexample.                                                         *)
KeptUpTo(s, S, m, g) ==
  g = [k \in 0 .. m |->
         IF k = 0 THEN <<>>
         ELSE IF s[k] \in S THEN Append(g[k - 1], s[k]) ELSE g[k - 1]]

LEMMA KeptExists ==
  ASSUME NEW s, NEW S, NEW n \in Nat
  PROVE  \E g : KeptUpTo(s, S, n, g)
<1> DEFINE Bad == {m \in Nat : ~ \E g : KeptUpTo(s, S, m, g)}
<1> SUFFICES ASSUME Bad # {} PROVE FALSE
  OBVIOUS
<1>1. PICK m \in Bad : \A l \in Bad : m <= l
  BY Least
<1> HIDE DEF Bad
<1>2. m \in Nat /\ ~ \E g : KeptUpTo(s, S, m, g)  BY <1>1 DEF Bad
<1>3. m # 0
  <2>1. KeptUpTo(s, S, 0, [k \in 0 .. 0 |-> <<>>])  BY DEF KeptUpTo
  <2> QED  BY <2>1, <1>2
<1>4. PICK g : KeptUpTo(s, S, m - 1, g)
  <2>1. m - 1 \in Nat /\ ~(m <= m - 1)  BY <1>2, <1>3
  <2> QED  BY <2>1, <1>1 DEF Bad
<1> DEFINE h == [k \in 0 .. m |->
                   IF k < m THEN g[k]
                   ELSE IF s[m] \in S THEN Append(g[m - 1], s[m]) ELSE g[m - 1]]
<1>5. KeptUpTo(s, S, m, h)
  <2>1. \A k \in 0 .. m - 1 : h[k] = g[k]  BY <1>2
  <2>2. ASSUME NEW k \in 0 .. m
        PROVE  h[k] = IF k = 0 THEN <<>>
                      ELSE IF s[k] \in S THEN Append(h[k - 1], s[k]) ELSE h[k - 1]
    <3>1. CASE k = m
      BY <3>1, <2>1, <1>2, <1>3
    <3>2. CASE k # m
      <4>1. k \in 0 .. m - 1  BY <3>2, <1>2
      <4>2. g[k] = IF k = 0 THEN <<>>
                   ELSE IF s[k] \in S THEN Append(g[k - 1], s[k]) ELSE g[k - 1]
        BY <4>1, <1>4 DEF KeptUpTo
      <4>3. k # 0 => h[k - 1] = g[k - 1]
        BY <2>1, <4>1, <1>2
      <4> HIDE DEF h
      <4> QED  BY <4>1, <4>2, <4>3, <2>1
    <3> QED  BY <3>1, <3>2
  <2>3. h = [k \in 0 .. m |-> h[k]]  OBVIOUS
  <2> HIDE DEF h
  <2> QED  BY <2>2, <2>3 DEF KeptUpTo
<1> QED  BY <1>2, <1>5

(* at picks, in order, the places of s that hold an element of S up to k.  *)
Picks(at, r, s, S, k) ==
  /\ at \in [1 .. Len(r) -> 1 .. k]
  /\ \A j \in 1 .. Len(r) : r[j] = s[at[j]] /\ s[at[j]] \in S
  /\ \A i, j \in 1 .. Len(r) : i < j => at[i] < at[j]
  /\ \A i \in 1 .. k : s[i] \in S => \E j \in 1 .. Len(r) : at[j] = i

(* Only(s, S) has the elements of s that are in S, in their order.         *)
LEMMA OnlyPicks ==
  ASSUME NEW T, NEW s \in Seq(T), NEW S
  PROVE  /\ Only(s, S) \in Seq(T)
         /\ \E at : Picks(at, Only(s, S), s, S, Len(s))
<1> DEFINE n == Len(s)
           kept == CHOOSE g : KeptUpTo(s, S, n, g)
<1>1. n \in Nat  OBVIOUS
<1>2. KeptUpTo(s, S, n, kept)  BY <1>1, KeptExists
<1>3. Only(s, S) = kept[n]  BY DEF Only, KeptUpTo
<1> HIDE DEF kept
<1>0. kept[0] = <<>>  BY <1>2, <1>1 DEF KeptUpTo
<1>4. \A k \in 1 .. n : kept[k] = IF s[k] \in S THEN Append(kept[k - 1], s[k])
                                  ELSE kept[k - 1]
  <2> TAKE k \in 1 .. n
  <2>1. k \in 0 .. n /\ k # 0  BY <1>1
  <2> HIDE DEF n
  <2> QED  BY <1>2, <2>1 DEF KeptUpTo
<1> DEFINE Ok(k) == /\ kept[k] \in Seq(T)
                    /\ \E at : Picks(at, kept[k], s, S, k)
           Bad == {k \in 0 .. n : ~Ok(k)}
<1> SUFFICES ASSUME Bad # {} PROVE FALSE
  BY <1>1, <1>3
<1>5. PICK k \in Bad : \A l \in Bad : k <= l
  <2>1. Bad \in SUBSET Nat  BY <1>1
  <2> HIDE DEF Bad
  <2> QED  BY <2>1, Least
<1>6. k \in 0 .. n /\ ~Ok(k)  BY <1>5
<1>7. k # 0
  <2>1. kept[0] \in Seq(T) /\ Len(kept[0]) = 0  BY <1>0
  <2>2. Picks([i \in 1 .. 0 |-> 1], kept[0], s, S, 0)  BY <2>1 DEF Picks
  <2> QED  BY <2>1, <2>2, <1>6
<1>8. Ok(k - 1)
  <2>1. k - 1 \in 0 .. n /\ ~(k <= k - 1)  BY <1>1, <1>6, <1>7
  <2>2. k - 1 \notin Bad  BY <2>1, <1>5
  <2> QED  BY <2>1, <2>2
<1> HIDE DEF Bad
<1>9. PICK at : Picks(at, kept[k - 1], s, S, k - 1)  BY <1>8
<1> DEFINE r == kept[k - 1]
<1>10. r \in Seq(T) /\ Len(r) \in Nat  BY <1>8
<1>11. k \in 1 .. n /\ k \in Nat /\ k - 1 \in Nat  BY <1>1, <1>6, <1>7
<1>12. CASE s[k] \in S
  <2>1. kept[k] = Append(r, s[k])  BY <1>12, <1>4, <1>11
  <2>2. s[k] \in T  BY <1>11
  <2>3. kept[k] \in Seq(T) /\ Len(kept[k]) = Len(r) + 1 /\ kept[k][Len(r) + 1] = s[k]
        /\ \A j \in 1 .. Len(r) : kept[k][j] = r[j]
    BY <2>1, <2>2, <1>10
  <2> DEFINE bt == [j \in 1 .. Len(r) + 1 |-> IF j = Len(r) + 1 THEN k ELSE at[j]]
  <2> HIDE DEF r
  <2>4. \A j \in 1 .. Len(r) : bt[j] = at[j] /\ at[j] \in 1 .. k - 1
    <3>1. at \in [1 .. Len(r) -> 1 .. k - 1]  BY <1>9 DEF Picks, r
    <3> QED  BY <3>1, <1>10
  <2>5. bt[Len(r) + 1] = k  BY <1>10
  <2>6. bt \in [1 .. Len(kept[k]) -> 1 .. k]
    <3>1. \A j \in 1 .. Len(r) + 1 : j = Len(r) + 1 \/ j \in 1 .. Len(r)  BY <1>10
    <3>2. bt = [j \in 1 .. Len(r) + 1 |-> bt[j]]  OBVIOUS
    <3> HIDE DEF bt
    <3>3. \A j \in 1 .. Len(r) : bt[j] \in 1 .. k  BY <2>4, <1>11
    <3>4. \A j \in 1 .. Len(r) + 1 : bt[j] \in 1 .. k
      BY <3>1, <3>3, <2>5, <1>11
    <3> QED  BY <3>2, <3>4, <2>3
  <2> HIDE DEF bt
  <2>7. \A j \in 1 .. Len(r) : r[j] = s[at[j]] /\ s[at[j]] \in S
    BY <1>9 DEF Picks, r
  <2>8. \A j \in 1 .. Len(kept[k]) : kept[k][j] = s[bt[j]] /\ s[bt[j]] \in S
    BY <2>3, <2>4, <2>5, <2>7, <1>10, <1>12
  <2>9. \A i, j \in 1 .. Len(kept[k]) : i < j => bt[i] < bt[j]
    <3>1. \A i, j \in 1 .. Len(r) : i < j => at[i] < at[j]  BY <1>9 DEF Picks, r
    <3> QED  BY <3>1, <2>3, <2>4, <2>5, <1>10, <1>11
  <2>10. \A i \in 1 .. k : s[i] \in S => \E j \in 1 .. Len(kept[k]) : bt[j] = i
    <3>1. \A i \in 1 .. k - 1 : s[i] \in S => \E j \in 1 .. Len(r) : at[j] = i
      BY <1>9 DEF Picks, r
    <3> TAKE i \in 1 .. k
    <3>2. CASE i = k  BY <3>2, <2>3, <2>5, <1>10
    <3>3. CASE i # k
      <4>1. i \in 1 .. k - 1  BY <3>3, <1>11
      <4>2. \A j \in 1 .. Len(r) : j \in 1 .. Len(kept[k]) /\ bt[j] = at[j]
        BY <2>3, <2>4, <1>10
      <4> QED  BY <3>1, <4>1, <4>2
    <3> QED  BY <3>2, <3>3
  <2>11. Picks(bt, kept[k], s, S, k)  BY <2>6, <2>8, <2>9, <2>10 DEF Picks
  <2> QED  BY <2>3, <2>11, <1>6
<1>13. CASE s[k] \notin S
  <2>1. kept[k] = r  BY <1>13, <1>4, <1>11
  <2>2. Picks(at, r, s, S, k)
    <3> HIDE DEF r
    <3>1. Picks(at, r, s, S, k - 1)  BY <1>9 DEF r
    <3>2. at \in [1 .. Len(r) -> 1 .. k]  BY <3>1, <1>11 DEF Picks
    <3>3. \A i \in 1 .. k : i = k \/ i \in 1 .. k - 1  BY <1>11
    <3> QED  BY <3>1, <3>2, <3>3, <1>13 DEF Picks
  <2> QED  BY <2>1, <2>2, <1>10, <1>6
<1> QED  BY <1>12, <1>13

(* What most proofs need of it: its elements, and that it repeats none of  *)
(* the places of s.                                                        *)
LEMMA OnlyFacts ==
  ASSUME NEW T, NEW s \in Seq(T), NEW S
  PROVE  /\ Only(s, S) \in Seq(T)
         /\ ToSet(Only(s, S)) = ToSet(s) \cap S
         /\ \A j, k \in DOMAIN Only(s, S) : j # k =>
              \E a, b \in DOMAIN s : a # b /\ Only(s, S)[j] = s[a] /\ Only(s, S)[k] = s[b]
<1> DEFINE r == Only(s, S)
<1>1. r \in Seq(T)  BY OnlyPicks
<1>2. PICK at : Picks(at, r, s, S, Len(s))  BY OnlyPicks
<1> HIDE DEF r
<1>3. DOMAIN r = 1 .. Len(r) /\ DOMAIN s = 1 .. Len(s) /\ Len(r) \in Nat
  BY <1>1
<1>4. ToSet(r) = ToSet(s) \cap S
  <2>1. \A x \in ToSet(r) : x \in ToSet(s) \cap S
    BY <1>2, <1>3 DEF ToSet, Picks
  <2>2. \A x \in ToSet(s) \cap S : x \in ToSet(r)
    BY <1>2, <1>3 DEF ToSet, Picks
  <2> QED  BY <2>1, <2>2
<1>5. \A j, k \in DOMAIN r : j # k =>
        \E a, b \in DOMAIN s : a # b /\ r[j] = s[a] /\ r[k] = s[b]
  <2> SUFFICES ASSUME NEW j \in DOMAIN r, NEW k \in DOMAIN r, j # k
               PROVE  \E a, b \in DOMAIN s : a # b /\ r[j] = s[a] /\ r[k] = s[b]
    OBVIOUS
  <2>1. at[j] \in DOMAIN s /\ at[k] \in DOMAIN s  BY <1>2, <1>3 DEF Picks
  <2>2. j < k \/ k < j  BY <1>3
  <2>3. at[j] < at[k] \/ at[k] < at[j]  BY <2>2, <1>2, <1>3 DEF Picks
  <2>4. at[j] # at[k]  BY <2>1, <2>3, <1>3
  <2> QED  BY <2>1, <2>4, <1>2, <1>3 DEF Picks
<1> QED  BY <1>1, <1>4, <1>5 DEF r

(* Taking buffers out keeps what the list of buffers satisfies.            *)
LEMMA ThinnerGood ==
  ASSUME NEW as, NEW bs, NEW n, GoodBufs(as, n), Thinner(as, bs)
  PROVE  GoodBufs(bs, n)
<1>1. bs \in Seq(Buffer)  BY DEF Thinner
<1>2. \A k \in DOMAIN bs : \E j \in DOMAIN as : bs[k] = as[j]  BY DEF Thinner
<1>3. \A j, k \in DOMAIN bs : bs[j].id = bs[k].id => j = k  BY DEF Thinner
<1>4. ASSUME NEW j \in DOMAIN bs, NEW k \in DOMAIN bs,
             bs[j].path = bs[k].path, bs[j].type = "editor"
      PROVE  j = k \/ bs[j].twin \/ bs[k].twin
  <2>1. PICK a \in DOMAIN as, b \in DOMAIN as : bs[j] = as[a] /\ bs[k] = as[b]
    BY <1>2
  <2>2. a = b \/ as[a].twin \/ as[b].twin  BY <2>1, <1>4 DEF GoodBufs
  <2> QED  BY <2>1, <2>2, <1>3
<1>5. ASSUME NEW k \in DOMAIN bs
      PROVE  /\ bs[k].id < n
             /\ bs[k].type = "editor" <=> bs[k].path # None
             /\ bs[k].pinned => ~bs[k].preview /\ bs[k].type # "newTab"
  <2>1. PICK j \in DOMAIN as : bs[k] = as[j]  BY <1>2
  <2> QED  BY <2>1 DEF GoodBufs
<1> QED  BY <1>1, <1>3, <1>4, <1>5 DEF GoodBufs

(* Cuts compose and widen.                                                 *)
LEMMA CutTrans ==
  ASSUME NEW t, NEW u, NEW v, NEW S, NEW U, Cut(t, u, S), Cut(u, v, U)
  PROVE  Cut(t, v, S \cup U)
<1>1. \A k \in DOMAIN v.bufs : \E j \in DOMAIN t.bufs : v.bufs[k] = t.bufs[j]
  BY DEF Cut, Thinner
<1>2. Thinner(t.bufs, v.bufs)  BY <1>1 DEF Cut, Thinner
<1> QED  BY <1>2 DEF Cut

LEMMA CutSame ==
  ASSUME NEW t, NEW n, NEW S, Fine(t, n)
  PROVE  Cut(t, t, S)
BY DEF Fine, Cut, Thinner, GoodBufs

LEMMA CutWider ==
  ASSUME NEW t, NEW u, NEW S, NEW U, Cut(t, u, S), S \subseteq U
  PROVE  Cut(t, u, U)
BY DEF Cut

LEMMA CutSubset ==
  ASSUME NEW t, NEW u, NEW S, Cut(t, u, S)
  PROVE  ToSet(u.bufs) \subseteq ToSet(t.bufs)
BY DEF Cut, Thinner, ToSet

(* Filtering a list of buffers takes buffers out.                          *)
LEMMA OnlyThins ==
  ASSUME NEW t, NEW n, Fine(t, n), NEW S
  PROVE  /\ Thinner(t.bufs, Only(t.bufs, S))
         /\ ToSet(Only(t.bufs, S)) = ToSet(t.bufs) \cap S
<1> DEFINE bs == t.bufs
           r  == Only(bs, S)
<1>1. bs \in Seq(Buffer) /\ \A j, k \in DOMAIN bs : bs[j].id = bs[k].id => j = k
  BY DEF Fine, GoodBufs
<1> HIDE DEF bs
<1>2. /\ r \in Seq(Buffer)
      /\ ToSet(r) = ToSet(bs) \cap S
      /\ \A j, k \in DOMAIN r : j # k =>
           \E a, b \in DOMAIN bs : a # b /\ r[j] = bs[a] /\ r[k] = bs[b]
  BY <1>1, OnlyFacts
<1> HIDE DEF r
<1>3. \A k \in DOMAIN r : \E j \in DOMAIN bs : r[k] = bs[j]
  BY <1>2 DEF ToSet
<1>4. \A j, k \in DOMAIN r : r[j].id = r[k].id => j = k
  BY <1>1, <1>2
<1> QED  BY <1>2, <1>3, <1>4 DEF Thinner, r, bs

LEMMA DropBufferThins ==
  ASSUME NEW t, NEW n, Fine(t, n), NEW id
  PROVE  /\ Thinner(t.bufs, DropBuffer(t.bufs, id))
         /\ \A b : b \in ToSet(DropBuffer(t.bufs, id))
                    <=> b \in ToSet(t.bufs) /\ b.id # id
<1> DEFINE S == {b \in ToSet(t.bufs) : b.id # id}
<1>1. DropBuffer(t.bufs, id) = Only(t.bufs, S)  BY DEF DropBuffer, Where
<1>2. ToSet(t.bufs) \cap S = S  OBVIOUS
<1> HIDE DEF S
<1>3. /\ Thinner(t.bufs, DropBuffer(t.bufs, id))
      /\ ToSet(DropBuffer(t.bufs, id)) = S
  BY <1>1, <1>2, OnlyThins
<1> QED  BY <1>3 DEF S

(* BufferOf(t, id) is the open buffer with that id.                        *)
LEMMA BufferOfIs ==
  ASSUME NEW t, NEW id, id \in OpenIds(t)
  PROVE  BufferOf(t, id) \in ToSet(t.bufs) /\ BufferOf(t, id).id = id
<1>1. PICK k \in DOMAIN t.bufs : t.bufs[k].id = id  BY DEF OpenIds, IdsOf, ToSet
<1> QED  BY <1>1 DEF BufferOf, ToSet

LEMMA BufferIsOpen ==
  ASSUME NEW t, NEW b \in ToSet(t.bufs)
  PROVE  b.id \in OpenIds(t)
BY DEF OpenIds, IdsOf, ToSet

LEMMA OneBuffer ==
  ASSUME NEW t, NEW n, Fine(t, n), NEW b \in ToSet(t.bufs), NEW c \in ToSet(t.bufs),
         b.id = c.id
  PROVE  b = c
BY DEF Fine, GoodBufs, ToSet

(* What closing, evicting and replacing a buffer have in common.           *)
LEMMA DropFine ==
  ASSUME NEW t, NEW n, Fine(t, n), NEW id, NEW u, IsStore(u),
         u.bufs = DropBuffer(t.bufs, id), u.closed \in Seq(ClosedTab)
  PROVE  Fine(u, n) /\ Cut(t, u, WithIds(t, {id}))
<1>1. Thinner(t.bufs, DropBuffer(t.bufs, id))  BY DropBufferThins
<1>2. \A b : b \in ToSet(u.bufs) <=> b \in ToSet(t.bufs) /\ b.id # id
  BY DropBufferThins
<1>3. GoodBufs(u.bufs, n)  BY <1>1, ThinnerGood DEF Fine
<1>4. Fine(u, n)  BY <1>3 DEF Fine
<1>5. Cut(t, u, WithIds(t, {id}))  BY <1>1, <1>2 DEF Cut, WithIds
<1> QED  BY <1>4, <1>5

(* closeBufferForce takes out one buffer; closeBuffer does it only if the  *)
(* buffer has no edits, whether or not it asks.                            *)
LEMMA CloseForceCuts ==
  ASSUME NEW t, NEW n, Fine(t, n), NEW id
  PROVE  LET u == CloseForce(t, id)
         IN Fine(u, n) /\ u.pending = t.pending /\ Cut(t, u, WithIds(t, {id}))
<1>1. CASE id \notin OpenIds(t)
  <2>1. CloseForce(t, id) = t  BY <1>1 DEF CloseForce
  <2> QED  BY <2>1, CutSame
<1>2. CASE id \in OpenIds(t)
  <2> DEFINE b   == BufferOf(t, id)
             act == IF t.active = id THEN Replacement(t, id) ELSE t.active
             lay == FocusIfAny(RemoveEverywhere(t.lay, id, FALSE), act)
             all == <<[path |-> b.path, pinned |-> b.pinned]>> \o t.closed
             closed == IF ~IsFile(b) THEN t.closed
                       ELSE SubSeq(all, 1, IF Len(all) > MaxHistory THEN MaxHistory
                                           ELSE Len(all))
  <2>1. CloseForce(t, id) = [t EXCEPT !.bufs = DropBuffer(t.bufs, id), !.active = act,
                                      !.lay = lay, !.closed = closed]
    BY <1>2 DEF CloseForce
  <2>2. b \in ToSet(t.bufs)  BY <1>2, BufferOfIs
  <2>3. closed \in Seq(ClosedTab)
    <3>1. t.closed \in Seq(ClosedTab)  BY DEF Fine
    <3>2. CASE IsFile(b)
      <4>1. b \in Buffer /\ b.path # None /\ b.path \notin Untitled
        <5>1. b.type = "editor" /\ b.path \notin Untitled  BY <3>2 DEF IsFile, IsUntitled
        <5> QED  BY <2>2, <5>1 DEF Fine, GoodBufs, ToSet
      <4>2. [path |-> b.path, pinned |-> b.pinned] \in ClosedTab
        BY <4>1 DEF Buffer, ClosedTab
      <4> HIDE DEF b
      <4>3. all \in Seq(ClosedTab)  BY <3>1, <4>2
      <4>4. (IF Len(all) > MaxHistory THEN MaxHistory ELSE Len(all)) \in 0 .. Len(all)
        BY <4>3, BoundsAssumption
      <4> HIDE DEF all
      <4>5. SubSeq(all, 1, IF Len(all) > MaxHistory THEN MaxHistory ELSE Len(all))
              \in Seq(ClosedTab)
        BY <4>3, <4>4
      <4> QED  BY <4>5, <3>2
    <3> QED  BY <3>1, <3>2
  <2> HIDE DEF act, lay, closed
  <2>4. CloseForce(t, id) = [bufs |-> DropBuffer(t.bufs, id), active |-> act,
                             pending |-> t.pending, closed |-> closed, lay |-> lay]
    BY <2>1 DEF Fine, IsStore
  <2> DEFINE u == CloseForce(t, id)
  <2>5. /\ IsStore(u) /\ u.pending = t.pending
        /\ u.bufs = DropBuffer(t.bufs, id) /\ u.closed = closed
    BY <2>4 DEF IsStore
  <2> HIDE DEF u
  <2>6. Fine(u, n) /\ Cut(t, u, WithIds(t, {id}))  BY <2>3, <2>5, DropFine
  <2> QED  BY <2>5, <2>6 DEF u
<1> QED  BY <1>1, <1>2

LEMMA CloseAskingCuts ==
  ASSUME NEW t, NEW n, Fine(t, n), NEW id
  PROVE  LET u == CloseAsking(t, id)
         IN Fine(u, n) /\ Cut(t, u, {b \in WithIds(t, {id}) : ~IsDirty(b)})
<1>1. CASE id \in OpenIds(t) /\ IsDirty(BufferOf(t, id))
  <2> DEFINE pen == [id |-> id, type |-> "single", anchor |-> None]
             u   == CloseAsking(t, id)
  <2>1. u = [t EXCEPT !.pending = pen]  BY <1>1 DEF CloseAsking
  <2> HIDE DEF pen, u
  <2>2. u = [bufs |-> t.bufs, active |-> t.active, pending |-> pen,
             closed |-> t.closed, lay |-> t.lay]
    BY <2>1 DEF Fine, IsStore
  <2>3. Fine(u, n) /\ u.bufs = t.bufs  BY <2>2 DEF Fine, IsStore
  <2> QED  BY <2>3, CutSame DEF Cut, u
<1>2. CASE ~(id \in OpenIds(t) /\ IsDirty(BufferOf(t, id)))
  <2> DEFINE u == CloseAsking(t, id)
  <2>1. u = CloseForce(t, id)  BY <1>2 DEF CloseAsking
  <2> HIDE DEF u
  <2>2. Fine(u, n) /\ Cut(t, u, WithIds(t, {id}))  BY <2>1, CloseForceCuts
  <2>3. ASSUME NEW b \in WithIds(t, {id})  PROVE ~IsDirty(b)
    <3>1. b \in ToSet(t.bufs) /\ b.id = id  BY <2>3 DEF WithIds
    <3>2. id \in OpenIds(t)  BY <3>1 DEF OpenIds, IdsOf, ToSet
    <3>3. b = BufferOf(t, id)  BY <3>1, <3>2, BufferOfIs, OneBuffer
    <3> QED  BY <1>2, <3>2, <3>3
  <2>4. WithIds(t, {id}) \subseteq {b \in WithIds(t, {id}) : ~IsDirty(b)}  BY <2>3
  <2> QED  BY <2>2, <2>4, CutWider DEF u
<1> QED  BY <1>1, <1>2

(* closeBuffersForce, one id after the other.                              *)
LEMMA CloseForceAllCuts ==
  ASSUME NEW t, NEW n, Fine(t, n), NEW T, NEW ids \in Seq(T)
  PROVE  LET u == CloseForceAll(t, ids)
         IN Fine(u, n) /\ u.pending = t.pending /\ Cut(t, u, WithIds(t, ToSet(ids)))
<1> DEFINE c == [t |-> t, n |-> n, ids |-> ToSet(ids)]
<1>1. ForceHolds(t, 0, c)  BY CutSame DEF ForceHolds
<1>2. ASSUME NEW x, NEW k \in DOMAIN ids, ForceHolds(x, k - 1, c)
      PROVE  ForceHolds(ForceStep(x, ids[k], c), k, c)
  <2> DEFINE y == CloseForce(x, ids[k])
  <2>1. Fine(x, n) /\ x.pending = t.pending /\ Cut(t, x, WithIds(t, ToSet(ids)))
    BY <1>2 DEF ForceHolds
  <2>2. Fine(y, n) /\ y.pending = x.pending /\ Cut(x, y, WithIds(x, {ids[k]}))
    BY <2>1, CloseForceCuts
  <2>3. WithIds(x, {ids[k]}) \subseteq WithIds(t, ToSet(ids))
    BY <2>1, CutSubset DEF WithIds, ToSet
  <2>4. Cut(t, y, WithIds(t, ToSet(ids)))
    <3> HIDE DEF y
    <3>1. Cut(t, y, WithIds(t, ToSet(ids)) \cup WithIds(x, {ids[k]}))
      BY <2>1, <2>2, CutTrans
    <3> QED  BY <3>1, <2>3, CutWider
  <2> HIDE DEF y
  <2>5. ForceHolds(y, k, c)  BY <2>1, <2>2, <2>4 DEF ForceHolds
  <2> QED  BY <2>5 DEF ForceStep, y
<1> HIDE DEF c
<1>3. ForceHolds(CF!After(t, ids, c), Len(ids), c)  BY <1>1, <1>2, Least, CF!Kept DEF CF!LeastNumber
<1>4. CloseForceAll(t, ids) = CF!After(t, ids, c)
  BY DEF CloseForceAll, CF!After, ForceStep, FoldLeft, MapThenFoldSet, Max,
         CF!Last
<1> QED  BY <1>3, <1>4 DEF ForceHolds, c

(* The tab limit's effect.                                                 *)
LEMMA CloseAskingAllCuts ==
  ASSUME NEW t, NEW n, Fine(t, n), NEW T, NEW ids \in Seq(T)
  PROVE  LET u == FoldLeft(CloseAsking, t, ids)
         IN Fine(u, n) /\ Cut(t, u, {b \in WithIds(t, ToSet(ids)) : ~IsDirty(b)})
<1> DEFINE c == [t |-> t, n |-> n, ids |-> ToSet(ids)]
           Clean(z, I) == {b \in WithIds(z, I) : ~IsDirty(b)}
<1>1. AskHolds(t, 0, c)  BY CutSame DEF AskHolds
<1>2. ASSUME NEW x, NEW k \in DOMAIN ids, AskHolds(x, k - 1, c)
      PROVE  AskHolds(AskStep(x, ids[k], c), k, c)
  <2> DEFINE y == CloseAsking(x, ids[k])
  <2>1. Fine(x, n) /\ Cut(t, x, Clean(t, ToSet(ids)))
    BY <1>2 DEF AskHolds
  <2>2. Fine(y, n) /\ Cut(x, y, Clean(x, {ids[k]}))
    BY <2>1, CloseAskingCuts
  <2>3. Clean(x, {ids[k]}) \subseteq Clean(t, ToSet(ids))
    BY <2>1, CutSubset DEF WithIds, ToSet
  <2>4. Cut(t, y, Clean(t, ToSet(ids)))
    <3> HIDE DEF y, Clean
    <3>1. Cut(t, y, Clean(t, ToSet(ids)) \cup Clean(x, {ids[k]}))
      BY <2>1, <2>2, CutTrans
    <3> QED  BY <3>1, <2>3, CutWider
  <2> HIDE DEF y
  <2>5. AskHolds(y, k, c)  BY <2>1, <2>2, <2>4 DEF AskHolds
  <2> QED  BY <2>5 DEF AskStep, y
<1> HIDE DEF c
<1>3. AskHolds(CA!After(t, ids, c), Len(ids), c)  BY <1>1, <1>2, Least, CA!Kept DEF CA!LeastNumber
<1>4. FoldLeft(CloseAsking, t, ids) = CA!After(t, ids, c)
  BY DEF CA!After, AskStep, FoldLeft, MapThenFoldSet, Max,
         CA!Last
<1> QED  BY <1>3, <1>4 DEF AskHolds, c

-----------------------------------------------------------------------------
(* How many elements a sequence without duplicates has.                    *)
LEMMA LenIsCardinality ==
  ASSUME NEW T, NEW s \in Seq(T), \A j, k \in DOMAIN s : s[j] = s[k] => j = k
  PROVE  IsFiniteSet(ToSet(s)) /\ Cardinality(ToSet(s)) = Len(s)
<1>1. Len(s) \in Nat /\ DOMAIN s = 1 .. Len(s)  OBVIOUS
<1>2. s \in Bijection(1 .. Len(s), ToSet(s))
  BY <1>1 DEF Bijection, Injection, Surjection, IsInjective, ToSet
<1>3. ExistsBijection(1 .. Len(s), ToSet(s))  BY <1>2 DEF ExistsBijection
<1> QED  BY <1>1, <1>3, FS_NatBijection, FS_CountingElements

(* A shorter set, a shorter sequence: the store's limit counts buffers.    *)
LEMMA LenMonotone ==
  ASSUME NEW T, NEW r \in Seq(T), NEW s \in Seq(T), ToSet(r) \subseteq ToSet(s),
         \A j, k \in DOMAIN r : r[j] = r[k] => j = k,
         \A j, k \in DOMAIN s : s[j] = s[k] => j = k
  PROVE  Len(r) <= Len(s)
<1>1. Cardinality(ToSet(r)) = Len(r)  BY LenIsCardinality
<1>2. IsFiniteSet(ToSet(s)) /\ Cardinality(ToSet(s)) = Len(s)  BY LenIsCardinality
<1>3. Cardinality(ToSet(r)) <= Cardinality(ToSet(s))  BY <1>2, FS_Subset
<1> QED  BY <1>1, <1>2, <1>3

LEMMA ThinnerInjective ==
  ASSUME NEW as, NEW bs, Thinner(as, bs)
  PROVE  bs \in Seq(Buffer) /\ \A j, k \in DOMAIN bs : bs[j] = bs[k] => j = k
BY DEF Thinner

(* The buffers that the store's limit counts, and that taking buffers out  *)
(* never makes a buffer expendable.                                        *)
LEMMA EvictableIs ==
  ASSUME NEW t, NEW n, Fine(t, n)
  PROVE  /\ Thinner(t.bufs, Evictable(t))
         /\ \A b : b \in ToSet(Evictable(t))
                     <=> b \in ToSet(t.bufs) /\ ~b.pinned /\ b.type # "terminal"
<1> DEFINE S == {b \in ToSet(t.bufs) : ~b.pinned /\ b.type # "terminal"}
<1>1. Evictable(t) = Only(t.bufs, S)  BY DEF Evictable, Where
<1>2. \A b : b \in ToSet(t.bufs) \cap S
               <=> b \in ToSet(t.bufs) /\ ~b.pinned /\ b.type # "terminal"
  OBVIOUS
<1> HIDE DEF S
<1> QED  BY <1>1, <1>2, OnlyThins

LEMMA ExpendableShrinks ==
  ASSUME NEW t, NEW u, NEW n, Fine(t, n), Fine(u, n), NEW S, Cut(t, u, S)
  PROVE  Expendable(u) \subseteq Expendable(t)
<1>1. ToSet(u.bufs) \subseteq ToSet(t.bufs)  BY CutSubset
<1>2. Full(u) => Full(t)
  <2> DEFINE a == Evictable(t)
             b == Evictable(u)
  <2>1. Thinner(t.bufs, a) /\ Thinner(u.bufs, b)  BY EvictableIs
  <2>2. ToSet(b) \subseteq ToSet(a)  BY <1>1, EvictableIs
  <2> HIDE DEF a, b
  <2>3. /\ a \in Seq(Buffer) /\ \A j, k \in DOMAIN a : a[j] = a[k] => j = k
        /\ b \in Seq(Buffer) /\ \A j, k \in DOMAIN b : b[j] = b[k] => j = k
    BY <2>1, ThinnerInjective
  <2>4. Len(b) <= Len(a)  BY <2>2, <2>3, LenMonotone
  <2>5. Len(a) \in Nat /\ Len(b) \in Nat  BY <2>3
  <2>6. Len(b) >= StoreMax => Len(a) >= StoreMax  BY <2>4, <2>5, BoundsAssumption
  <2> QED  BY <2>6 DEF Full, a, b
<1> QED  BY <1>1, <1>2 DEF Expendable

(* find, where the code takes the first buffer of a kind.                  *)
LEMMA HeadOfOnly ==
  ASSUME NEW T, NEW s \in Seq(T), NEW S, Only(s, S) # <<>>
  PROVE  Head(Only(s, S)) \in ToSet(s) /\ Head(Only(s, S)) \in S
<1> DEFINE r == Only(s, S)
<1>1. r \in Seq(T) /\ ToSet(r) = ToSet(s) \cap S  BY OnlyFacts
<1> HIDE DEF r
<1>2. r # <<>>  BY DEF r
<1>3. Head(r) = r[1] /\ 1 \in DOMAIN r  BY <1>1, <1>2
<1>4. Head(r) \in ToSet(r)  BY <1>3 DEF ToSet
<1> QED  BY <1>1, <1>4 DEF r

(* Opening a buffer: the new-tab page goes, one buffer is evicted at the   *)
(* limit, a preview is replaced; in whatever order, what may go was        *)
(* expendable at the start.                                                *)
LEMMA CloseNewTabCuts ==
  ASSUME NEW t, NEW n, Fine(t, n)
  PROVE  LET u == CloseNewTab(t)
         IN Fine(u, n) /\ Cut(t, u, Spared(t)) /\ Cut(t, u, Expendable(t))
<1> DEFINE S   == {b \in ToSet(t.bufs) : /\ b.type = "newTab"
                                         /\ b.id \in ToSet(InFront(t.lay).ids)}
           new == Only(t.bufs, S)
           u   == CloseNewTab(t)
<1>1. u = IF new = <<>> THEN t
          ELSE [t EXCEPT !.bufs = DropBuffer(t.bufs, Head(new).id),
                         !.lay = RemoveEverywhere(t.lay, Head(new).id, TRUE)]
  BY DEF CloseNewTab, Where
<1> HIDE DEF new, u
<1>2. CASE new = <<>>
  BY <1>1, <1>2, CutSame DEF u
<1>3. CASE new # <<>>
  <2>1. Head(new) \in ToSet(t.bufs) /\ Head(new) \in S
    BY <1>3, HeadOfOnly DEF new, Fine, GoodBufs
  <2>2. Head(new).type = "newTab"  BY <2>1
  <2> HIDE DEF S
  <2> DEFINE id == Head(new).id
  <2>3. u = [bufs |-> DropBuffer(t.bufs, id), active |-> t.active,
             pending |-> t.pending, closed |-> t.closed,
             lay |-> RemoveEverywhere(t.lay, id, TRUE)]
    BY <1>1, <1>3 DEF Fine, IsStore
  <2>4. IsStore(u) /\ u.bufs = DropBuffer(t.bufs, id) /\ u.closed \in Seq(ClosedTab)
    BY <2>3 DEF IsStore, Fine
  <2>5. Fine(u, n) /\ Cut(t, u, WithIds(t, {id}))  BY <2>4, DropFine
  <2>6. ASSUME NEW b \in WithIds(t, {id})  PROVE  b \in Spared(t)
    <3>1. b \in ToSet(t.bufs) /\ b.id = id  BY DEF WithIds
    <3>2. b = Head(new)  BY <3>1, <2>1, OneBuffer
    <3>3. ~b.pinned  BY <2>2, <3>1, <3>2 DEF Fine, GoodBufs, ToSet
    <3>4. ~IsDirty(b)  BY <2>2, <3>2 DEF IsDirty
    <3> QED  BY <3>1, <3>3, <3>4 DEF Spared
  <2>7. WithIds(t, {id}) \subseteq Spared(t)  BY <2>6
  <2>8. Spared(t) \subseteq Expendable(t)  BY DEF Spared, Expendable
  <2> QED  BY <2>5, <2>7, <2>8, CutWider DEF u
<1> QED  BY <1>2, <1>3

LEMMA EvictOneCuts ==
  ASSUME NEW t, NEW n, Fine(t, n), NEW includePreviews
  PROVE  LET u == EvictOne(t, includePreviews)
         IN Fine(u, n) /\ Cut(t, u, Expendable(t))
<1> DEFINE S     == {b \in ToSet(t.bufs) : /\ ~b.pinned
                                           /\ includePreviews \/ ~b.preview
                                           /\ b.type # "terminal"}
           cands == Only(t.bufs, S)
           old   == Head(cands).id
           u     == EvictOne(t, includePreviews)
<1>1. u = IF Len(cands) < StoreMax THEN t
          ELSE [t EXCEPT !.bufs = DropBuffer(t.bufs, old),
                         !.lay = RemoveEverywhere(t.lay, old, FALSE)]
  BY DEF EvictOne, Where
<1>2. t.bufs \in Seq(Buffer)  BY DEF Fine, GoodBufs
<1>3. cands \in Seq(Buffer) /\ ToSet(cands) = ToSet(t.bufs) \cap S
      /\ Thinner(t.bufs, cands)
  BY <1>2, OnlyFacts, OnlyThins
<1>4. cands # <<>> => Head(cands) \in ToSet(t.bufs) /\ Head(cands) \in S
  BY <1>2, HeadOfOnly
<1>5. \A b \in S : ~b.pinned /\ b.type # "terminal"  OBVIOUS
<1> HIDE DEF S, cands, u
<1>6. CASE Len(cands) < StoreMax
  BY <1>1, <1>6, CutSame DEF u
<1>7. CASE ~(Len(cands) < StoreMax)
  <2>1. cands # <<>>  BY <1>3, <1>7, BoundsAssumption
  <2>2. Full(t)
    <3> DEFINE all == Evictable(t)
    <3>1. Thinner(t.bufs, all)  BY EvictableIs
    <3>2. ToSet(cands) \subseteq ToSet(all)  BY <1>3, <1>5, EvictableIs
    <3> HIDE DEF all
    <3>3. /\ all \in Seq(Buffer) /\ \A j, k \in DOMAIN all : all[j] = all[k] => j = k
          /\ \A j, k \in DOMAIN cands : cands[j] = cands[k] => j = k
      BY <3>1, <1>3, ThinnerInjective
    <3>4. Len(cands) <= Len(all)  BY <1>3, <3>2, <3>3, LenMonotone
    <3>5. Len(all) \in Nat /\ Len(cands) \in Nat  BY <1>3, <3>3
    <3>6. Len(all) >= StoreMax  BY <3>4, <3>5, <1>7, BoundsAssumption
    <3> QED  BY <3>6 DEF Full, all
  <2>3. u = [bufs |-> DropBuffer(t.bufs, old), active |-> t.active,
             pending |-> t.pending, closed |-> t.closed,
             lay |-> RemoveEverywhere(t.lay, old, FALSE)]
    BY <1>1, <1>7 DEF Fine, IsStore
  <2>4. IsStore(u) /\ u.bufs = DropBuffer(t.bufs, old) /\ u.closed \in Seq(ClosedTab)
    BY <2>3 DEF IsStore, Fine
  <2>5. Fine(u, n) /\ Cut(t, u, WithIds(t, {old}))  BY <2>4, DropFine
  <2>6. ASSUME NEW b \in WithIds(t, {old})  PROVE  b \in Expendable(t)
    <3>1. b \in ToSet(t.bufs) /\ b.id = old  BY DEF WithIds
    <3>2. b = Head(cands)  BY <3>1, <2>1, <1>4, OneBuffer
    <3>3. ~b.pinned  BY <3>2, <2>1, <1>4, <1>5
    <3> QED  BY <3>1, <3>3, <2>2 DEF Expendable
  <2>7. WithIds(t, {old}) \subseteq Expendable(t)  BY <2>6
  <2> QED  BY <2>5, <2>7, CutWider DEF u
<1> QED  BY <1>6, <1>7

LEMMA ReplacePreviewCuts ==
  ASSUME NEW t, NEW n, Fine(t, n), NEW preview
  PROVE  LET u == ReplacePreview(t, preview)
         IN Fine(u, n) /\ Cut(t, u, Expendable(t))
<1> DEFINE old == InFront(t.lay).preview
           u   == ReplacePreview(t, preview)
<1>1. u = IF preview /\ old \in OpenIds(t) /\ BufferOf(t, old).preview
          THEN [t EXCEPT !.bufs = DropBuffer(t.bufs, old),
                         !.lay = RemoveEverywhere(t.lay, old, TRUE)]
          ELSE t
  BY DEF ReplacePreview
<1> HIDE DEF old, u
<1>2. CASE ~(preview /\ old \in OpenIds(t) /\ BufferOf(t, old).preview)
  <2>1. u = t  BY <1>1, <1>2
  <2> QED  BY <2>1, CutSame DEF u
<1>3. CASE preview /\ old \in OpenIds(t) /\ BufferOf(t, old).preview
  <2>1. BufferOf(t, old) \in ToSet(t.bufs) /\ BufferOf(t, old).id = old
    BY <1>3, BufferOfIs
  <2>2. u = [t EXCEPT !.bufs = DropBuffer(t.bufs, old),
                      !.lay = RemoveEverywhere(t.lay, old, TRUE)]
    BY <1>1, <1>3
  <2>3. u = [bufs |-> DropBuffer(t.bufs, old), active |-> t.active,
             pending |-> t.pending, closed |-> t.closed,
             lay |-> RemoveEverywhere(t.lay, old, TRUE)]
    BY <2>2 DEF Fine, IsStore
  <2>4. IsStore(u) /\ u.bufs = DropBuffer(t.bufs, old) /\ u.closed \in Seq(ClosedTab)
    BY <2>3 DEF IsStore, Fine
  <2>5. Fine(u, n) /\ Cut(t, u, WithIds(t, {old}))  BY <2>4, DropFine
  <2>6. ASSUME NEW b \in WithIds(t, {old})  PROVE  b \in Expendable(t)
    <3>1. b \in ToSet(t.bufs) /\ b.id = old  BY DEF WithIds
    <3>2. b = BufferOf(t, old)  BY <3>1, <2>1, OneBuffer
    <3>3. b.preview  BY <3>2, <1>3
    <3>4. ~b.pinned  BY <3>1, <3>3 DEF Fine, GoodBufs, ToSet
    <3> QED  BY <3>1, <3>3, <3>4 DEF Expendable
  <2>7. WithIds(t, {old}) \subseteq Expendable(t)  BY <2>6
  <2> QED  BY <2>5, <2>7, CutWider DEF u
<1> QED  BY <1>2, <1>3

LEMMA ExpendableTrans ==
  ASSUME NEW t, NEW u, NEW v, NEW n, Fine(t, n), Fine(u, n),
         Cut(t, u, Expendable(t)), Cut(u, v, Expendable(u))
  PROVE  Cut(t, v, Expendable(t))
<1>1. Expendable(u) \subseteq Expendable(t)  BY ExpendableShrinks
<1>2. Cut(t, v, Expendable(t) \cup Expendable(u))  BY CutTrans
<1> QED  BY <1>1, <1>2, CutWider

LEMMA CutLoses ==
  ASSUME NEW t, NEW u, NEW S, Cut(t, u, S)
  PROVE  Loses(t, u, S)
BY DEF Loses, Cut, OpenIds, IdsOf, ToSet

(* A new buffer, with the next id, for a file that has no tab yet.         *)
LEMMA AppendBufferGood ==
  ASSUME NEW t, NEW n, Fine(t, n), n \in Ids, NEW b \in Buffer, b.id = n,
         b.type = "editor" <=> b.path # None, ~b.pinned,
         b.type = "editor" => \A k \in DOMAIN t.bufs : t.bufs[k].path # b.path
  PROVE  /\ Fine(AppendBuffer(t, b), n + 1)
         /\ ToSet(AppendBuffer(t, b).bufs) = ToSet(t.bufs) \cup {b}
<1> DEFINE u == AppendBuffer(t, b)
<1>1. u = [bufs |-> Append(t.bufs, b), active |-> b.id, pending |-> t.pending,
           closed |-> t.closed, lay |-> ToFront(t.lay, b.id)]
  <2>1. u = [t EXCEPT !.bufs = Append(t.bufs, b), !.active = b.id,
                      !.lay = ToFront(t.lay, b.id)]
    BY DEF AppendBuffer
  <2>2. IsStore(t)  BY DEF Fine
  <2> HIDE DEF u
  <2> QED  BY ONLY <2>1, <2>2 DEF IsStore
<1> HIDE DEF u
<1>2. IsStore(u) /\ u.bufs = Append(t.bufs, b) /\ u.closed \in Seq(ClosedTab)
  BY <1>1 DEF IsStore, Fine
<1> DEFINE bs == t.bufs
           cs == Append(bs, b)
           m  == Len(bs)
<1>3. bs \in Seq(Buffer)  BY DEF Fine, GoodBufs
<1>4. GoodBufs(bs, n)  BY DEF Fine
<1> HIDE DEF bs
<1>5. /\ m \in Nat /\ DOMAIN bs = 1 .. m /\ DOMAIN cs = 1 .. m + 1
      /\ cs \in Seq(Buffer) /\ cs[m + 1] = b /\ \A k \in 1 .. m : cs[k] = bs[k]
  BY <1>3
<1> HIDE DEF cs, m
<1>6. \A k \in DOMAIN cs : (k \in DOMAIN bs /\ cs[k] = bs[k]) \/ (k = m + 1 /\ cs[k] = b)
  BY <1>5
<1>7. \A k \in DOMAIN bs : bs[k].id < n /\ bs[k].id # n
  <2>1. \A k \in DOMAIN bs : bs[k].id < n /\ bs[k].id \in Ids
    <3> TAKE k \in DOMAIN bs
    <3>1. bs[k] \in Buffer  BY <1>3
    <3>2. bs[k].id \in Ids  BY <3>1 DEF Buffer
    <3> QED  BY <3>2, <1>4 DEF GoodBufs
  <2> QED  BY <2>1 DEF Ids
<1>8. \A j, k \in DOMAIN cs : cs[j].id = cs[k].id => j = k
  BY <1>4, <1>6, <1>7 DEF GoodBufs
<1>9. ASSUME NEW j \in DOMAIN cs, NEW k \in DOMAIN cs,
             cs[j].path = cs[k].path, cs[j].type = "editor"
      PROVE  j = k \/ cs[j].twin \/ cs[k].twin
  <2>1. CASE j \in DOMAIN bs /\ k \in DOMAIN bs
    BY <2>1, <1>4, <1>5, <1>9 DEF GoodBufs
  <2>2. CASE j \in DOMAIN bs /\ k = m + 1
    <3>1. bs[j].type = "editor" /\ bs[j].path = b.path  BY <2>2, <1>5, <1>9
    <3>2. b.type = "editor"  BY <3>1, <2>2, <1>4 DEF GoodBufs
    <3> QED  BY <3>1, <3>2, <2>2 DEF bs
  <2>3. CASE j = m + 1 /\ k \in DOMAIN bs
    BY <2>3, <1>5, <1>9 DEF bs
  <2> QED  BY <2>1, <2>2, <2>3, <1>6
<1>10. ASSUME NEW k \in DOMAIN cs
       PROVE  /\ cs[k].id < n + 1
              /\ cs[k].type = "editor" <=> cs[k].path # None
              /\ cs[k].pinned => ~cs[k].preview /\ cs[k].type # "newTab"
  <2>1. CASE k \in DOMAIN bs /\ cs[k] = bs[k]
    <3>1. bs[k].id < n /\ bs[k].id \in Nat
      <4>1. bs[k] \in Buffer  BY <2>1, <1>3
      <4>2. bs[k].id \in Ids  BY <4>1 DEF Buffer
      <4> QED  BY <2>1, <4>2, <1>7 DEF Ids
    <3>2. bs[k].id < n + 1  BY <3>1 DEF Ids
    <3> QED  BY <2>1, <3>2, <1>4 DEF GoodBufs
  <2>2. CASE cs[k] = b
    BY <2>2 DEF Ids
  <2> QED  BY <2>1, <2>2, <1>6
<1>11. GoodBufs(cs, n + 1)  BY <1>5, <1>8, <1>9, <1>10 DEF GoodBufs
<1>12. ToSet(cs) = ToSet(bs) \cup {b}
  <2>1. \A x \in ToSet(cs) : x \in ToSet(bs) \cup {b}  BY <1>6 DEF ToSet
  <2>2. \A x \in ToSet(bs) \cup {b} : x \in ToSet(cs)  BY <1>5 DEF ToSet
  <2> QED  BY <2>1, <2>2
<1> QED  BY <1>2, <1>11, <1>12 DEF Fine, u, bs, cs

-----------------------------------------------------------------------------
(* Changing buffers in place.                                              *)
LEMMA SameOnesGood ==
  ASSUME NEW bs, NEW cs, NEW n, GoodBufs(bs, n), SameOnes(bs, cs),
         \A k \in DOMAIN bs : cs[k].pinned => ~cs[k].preview /\ cs[k].type # "newTab"
  PROVE  GoodBufs(cs, n)
<1>1. cs \in Seq(Buffer) /\ DOMAIN cs = DOMAIN bs  BY DEF SameOnes
<1>2. ASSUME NEW j \in DOMAIN cs, NEW k \in DOMAIN cs
      PROVE  /\ cs[j].id = cs[k].id => j = k
             /\ cs[j].path = cs[k].path /\ cs[j].type = "editor"
                  => j = k \/ cs[j].twin \/ cs[k].twin
  BY <1>1 DEF GoodBufs, SameOnes
<1>3. ASSUME NEW k \in DOMAIN cs
      PROVE  /\ cs[k].id < n
             /\ cs[k].type = "editor" <=> cs[k].path # None
             /\ cs[k].pinned => ~cs[k].preview /\ cs[k].type # "newTab"
  BY <1>1 DEF GoodBufs, SameOnes
<1> QED  BY <1>1, <1>2, <1>3 DEF GoodBufs

(* Such a change opens and closes nothing.                                 *)
LEMMA SamePlacesIds ==
  ASSUME NEW t, NEW u, SamePlaces(t.bufs, u.bufs)
  PROVE  OpenIds(u) = OpenIds(t)
BY DEF SamePlaces, OpenIds, IdsOf, ToSet

LEMMA SameOnesPlaces ==
  ASSUME NEW bs, NEW cs, SameOnes(bs, cs)
  PROVE  SamePlaces(bs, cs)
BY DEF SameOnes, SamePlaces

LEMMA SameOnesIds ==
  ASSUME NEW t, NEW u, SameOnes(t.bufs, u.bufs)
  PROVE  OpenIds(u) = OpenIds(t)
BY SameOnesPlaces, SamePlacesIds

LEMMA SameOnesLoses ==
  ASSUME NEW t, NEW u, NEW S, SameOnes(t.bufs, u.bufs)
  PROVE  Loses(t, u, S)
<1>1. \A b \in ToSet(t.bufs) : b.id \in OpenIds(t)  BY BufferIsOpen
<1> QED  BY <1>1, SameOnesIds DEF Loses

LEMMA SameOnesSelf ==
  ASSUME NEW t, NEW n, Fine(t, n)
  PROVE  SameOnes(t.bufs, t.bufs)
BY DEF SameOnes, Fine, GoodBufs

LEMMA SameOnesTrans ==
  ASSUME NEW as, NEW bs, NEW cs, SameOnes(as, bs), SameOnes(bs, cs)
  PROVE  SameOnes(as, cs)
BY DEF SameOnes

(* A place by place change of the buffers, within their type.              *)
LEMMA PointwiseSeq ==
  ASSUME NEW bs \in Seq(Buffer), NEW cs, cs = [k \in DOMAIN bs |-> cs[k]],
         \A k \in DOMAIN bs : cs[k] \in Buffer
  PROVE  cs \in Seq(Buffer) /\ DOMAIN cs = DOMAIN bs
<1>1. DOMAIN bs = 1 .. Len(bs) /\ Len(bs) \in Nat  OBVIOUS
<1>2. cs \in [1 .. Len(bs) -> Buffer]  BY <1>1
<1> QED  BY <1>1, <1>2

(* The three fields that change in place.                                  *)
LEMMA WithDirty ==
  ASSUME NEW b \in Buffer, NEW d \in BOOLEAN, NEW c, c = [b EXCEPT !.dirty = d]
  PROVE  /\ c \in Buffer /\ c.id = b.id /\ c.path = b.path /\ c.type = b.type
         /\ c.twin = b.twin
         /\ c.dirty = d /\ c.preview = b.preview /\ c.pinned = b.pinned
BY DEF Buffer

LEMMA WithPreview ==
  ASSUME NEW b \in Buffer, NEW d \in BOOLEAN, NEW c, c = [b EXCEPT !.preview = d]
  PROVE  /\ c \in Buffer /\ c.id = b.id /\ c.path = b.path /\ c.type = b.type
         /\ c.twin = b.twin
         /\ c.preview = d /\ c.dirty = b.dirty /\ c.pinned = b.pinned
BY DEF Buffer

LEMMA WithPinned ==
  ASSUME NEW b \in Buffer, NEW d \in BOOLEAN, NEW c, c = [b EXCEPT !.pinned = d]
  PROVE  /\ c \in Buffer /\ c.id = b.id /\ c.path = b.path /\ c.type = b.type
         /\ c.twin = b.twin
         /\ c.pinned = d /\ c.dirty = b.dirty /\ c.preview = b.preview
BY DEF Buffer

(* Marking a buffer, making a preview definite and pinning.                *)
LEMMA SetDirtyIs ==
  ASSUME NEW t, NEW n, Fine(t, n), NEW id, NEW d \in BOOLEAN
  PROVE  LET u == SetDirty(t, id, d)
         IN /\ Fine(u, n) /\ SameOnes(t.bufs, u.bufs) /\ u.pending = t.pending
            /\ \A k \in DOMAIN t.bufs : u.bufs[k].pinned = t.bufs[k].pinned
<1> DEFINE u  == SetDirty(t, id, d)
           bs == t.bufs
           cs == Update(bs, id, LAMBDA b : [b EXCEPT !.dirty = d])
<1>1. bs \in Seq(Buffer) /\ GoodBufs(bs, n)  BY DEF Fine, GoodBufs
<1>2. u = [t EXCEPT !.bufs = cs]  BY DEF SetDirty
<1>3. cs = [k \in DOMAIN bs |-> IF bs[k].id = id THEN [bs[k] EXCEPT !.dirty = d]
                                ELSE bs[k]]
  BY DEF Update
<1> HIDE DEF u, bs, cs
<1>4. ASSUME NEW k \in DOMAIN bs
      PROVE  /\ cs[k] \in Buffer /\ cs[k].id = bs[k].id /\ cs[k].path = bs[k].path
             /\ cs[k].twin = bs[k].twin
             /\ cs[k].type = bs[k].type /\ cs[k].pinned = bs[k].pinned
             /\ cs[k].preview = bs[k].preview
  <2>1. bs[k] \in Buffer  BY <1>1
  <2>2. cs[k] = IF bs[k].id = id THEN [bs[k] EXCEPT !.dirty = d] ELSE bs[k]  BY <1>3
  <2>3. CASE bs[k].id = id  BY <2>1, <2>2, <2>3, WithDirty
  <2>4. CASE bs[k].id # id  BY <2>1, <2>2, <2>4
  <2> QED  BY <2>3, <2>4
<1>5. cs = [k \in DOMAIN bs |-> cs[k]]  BY <1>3
<1>6. cs \in Seq(Buffer) /\ DOMAIN cs = DOMAIN bs  BY <1>1, <1>4, <1>5, PointwiseSeq
<1>7. SameOnes(bs, cs)  BY <1>1, <1>4, <1>6 DEF SameOnes
<1>8. \A k \in DOMAIN bs : cs[k].pinned => ~cs[k].preview /\ cs[k].type # "newTab"
  BY <1>1, <1>4 DEF GoodBufs
<1>9. GoodBufs(cs, n)  BY <1>1, <1>7, <1>8, SameOnesGood
<1>10. u = [bufs |-> cs, active |-> t.active, pending |-> t.pending,
            closed |-> t.closed, lay |-> t.lay]
  BY <1>2 DEF Fine, IsStore
<1>11. IsStore(u) /\ u.bufs = cs /\ u.closed = t.closed /\ u.pending = t.pending
  BY <1>10 DEF IsStore
<1> QED  BY <1>4, <1>7, <1>9, <1>11 DEF Fine, u, bs

(* Another path: where it makes two tabs of a file, it says so.            *)
LEMMA GivePathIs ==
  ASSUME NEW t, NEW n, Fine(t, n), NEW id, NEW path \in Paths
  PROVE  LET u == GivePath(t, id, path)
         IN /\ Fine(u, n) /\ SamePlaces(t.bufs, u.bufs) /\ u.pending = t.pending
            /\ \A k \in DOMAIN t.bufs : u.bufs[k].pinned = t.bufs[k].pinned
<1> DEFINE u  == GivePath(t, id, path)
           bs == t.bufs
           d  == OpenElsewhere(t, id, path)
           cs == Update(bs, id, LAMBDA b : IF b.type # "editor" THEN b
                                           ELSE [b EXCEPT !.path = path, !.twin = d])
           Given(k) == bs[k].id = id /\ bs[k].type = "editor"
<1>1. bs \in Seq(Buffer) /\ GoodBufs(bs, n)  BY DEF Fine, GoodBufs
<1>2. u = [t EXCEPT !.bufs = cs]  BY DEF GivePath
<1>3. /\ DOMAIN cs = DOMAIN bs
      /\ cs = [k \in DOMAIN bs |-> cs[k]]
      /\ \A k \in DOMAIN bs : cs[k] = IF Given(k)
                                     THEN [bs[k] EXCEPT !.path = path, !.twin = d]
                                     ELSE bs[k]
  BY DEF Update
<1>4. d \in BOOLEAN /\ \A k \in DOMAIN bs : bs[k].id # id /\ bs[k].path = path => d
  BY DEF OpenElsewhere
<1> HIDE DEF u, bs, cs, d
<1>5. ASSUME NEW k \in DOMAIN bs
      PROVE  /\ cs[k] \in Buffer /\ cs[k].id = bs[k].id /\ cs[k].type = bs[k].type
             /\ cs[k].pinned = bs[k].pinned /\ cs[k].preview = bs[k].preview
             /\ cs[k].path = IF Given(k) THEN path ELSE bs[k].path
             /\ cs[k].twin = IF Given(k) THEN d ELSE bs[k].twin
  <2>1. bs[k] \in Buffer  BY <1>1
  <2>2. CASE Given(k)
    <3>1. cs[k] = [bs[k] EXCEPT !.path = path, !.twin = d]  BY <1>3, <2>2
    <3>2. /\ cs[k] \in Buffer /\ cs[k].id = bs[k].id /\ cs[k].path = path
          /\ cs[k].type = bs[k].type /\ cs[k].twin = d
          /\ cs[k].pinned = bs[k].pinned /\ cs[k].preview = bs[k].preview
      <4>1. d \in BOOLEAN /\ path \in Paths  BY <1>4
      <4> DEFINE b == bs[k]
                 c == cs[k]
      <4>2. b \in Buffer /\ c = [b EXCEPT !.path = path, !.twin = d]  BY <2>1, <3>1
      <4> HIDE DEF b, c
      <4>3. /\ c \in Buffer /\ c.id = b.id /\ c.path = path
            /\ c.type = b.type /\ c.twin = d
            /\ c.pinned = b.pinned /\ c.preview = b.preview
        BY ONLY <4>1, <4>2 DEF Buffer
      <4> QED  BY <4>3 DEF b, c
    <3> HIDE DEF Given
    <3> QED  BY <2>2, <3>2
  <2>3. CASE ~Given(k)
    <3>1. cs[k] = bs[k]  BY <1>3, <2>3
    <3> QED  BY <2>1, <2>3, <3>1
  <2> QED  BY <2>2, <2>3
<1>6. cs \in Seq(Buffer)  BY <1>1, <1>3, <1>5, PointwiseSeq
<1>7. SamePlaces(bs, cs)  BY <1>1, <1>3, <1>5, <1>6 DEF SamePlaces
<1>8. ASSUME NEW j \in DOMAIN bs, NEW k \in DOMAIN bs
      PROVE  /\ cs[j].id = cs[k].id => j = k
             /\ cs[j].path = cs[k].path /\ cs[j].type = "editor"
                  => j = k \/ cs[j].twin \/ cs[k].twin
  <2>1. cs[j].id = cs[k].id => j = k  BY <1>1, <1>5 DEF GoodBufs
  <2> SUFFICES ASSUME cs[j].path = cs[k].path, cs[j].type = "editor", j # k
               PROVE  cs[j].twin \/ cs[k].twin
    BY <2>1
  <2>2. CASE Given(j)
    <3>1. bs[k].id # id  BY <2>2, <1>1 DEF GoodBufs
    <3>2. bs[k].path = path  BY <2>2, <3>1, <1>5
    <3> QED  BY <2>2, <3>1, <3>2, <1>4, <1>5
  <2>3. CASE Given(k)
    <3>1. bs[j].id # id  BY <2>3, <1>1 DEF GoodBufs
    <3>2. bs[j].path = path  BY <2>3, <3>1, <1>5
    <3> QED  BY <2>3, <3>1, <3>2, <1>4, <1>5
  <2>4. CASE ~Given(j) /\ ~Given(k)
    BY <2>4, <1>1, <1>5 DEF GoodBufs
  <2> QED  BY <2>2, <2>3, <2>4
<1>9. ASSUME NEW k \in DOMAIN bs
      PROVE  /\ cs[k].id < n
             /\ cs[k].type = "editor" <=> cs[k].path # None
             /\ cs[k].pinned => ~cs[k].preview /\ cs[k].type # "newTab"
  BY <1>1, <1>5, BoundsAssumption DEF GoodBufs
<1>10. GoodBufs(cs, n)  BY <1>3, <1>6, <1>8, <1>9 DEF GoodBufs
<1>11. u = [bufs |-> cs, active |-> t.active, pending |-> t.pending,
            closed |-> t.closed, lay |-> t.lay]
  BY <1>2 DEF Fine, IsStore
<1>12. IsStore(u) /\ u.bufs = cs /\ u.closed = t.closed /\ u.pending = t.pending
  BY <1>11 DEF IsStore
<1> QED  BY <1>5, <1>7, <1>10, <1>12 DEF Fine, u, bs

LEMMA MakeDefiniteIs ==
  ASSUME NEW t, NEW n, Fine(t, n), NEW id
  PROVE  LET u == MakeDefinite(t, id)
         IN Fine(u, n) /\ SameOnes(t.bufs, u.bufs)
<1> DEFINE u  == MakeDefinite(t, id)
           bs == t.bufs
           cs == Update(bs, id, LAMBDA b : [b EXCEPT !.preview = FALSE])
<1>1. bs \in Seq(Buffer) /\ GoodBufs(bs, n)  BY DEF Fine, GoodBufs
<1>2. u = [t EXCEPT !.bufs = cs, !.lay = ClearPreview(t.lay, id)]  BY DEF MakeDefinite
<1>3. cs = [k \in DOMAIN bs |-> IF bs[k].id = id THEN [bs[k] EXCEPT !.preview = FALSE]
                                ELSE bs[k]]
  BY DEF Update
<1> HIDE DEF u, bs, cs
<1>4. ASSUME NEW k \in DOMAIN bs
      PROVE  /\ cs[k] \in Buffer /\ cs[k].id = bs[k].id /\ cs[k].path = bs[k].path
             /\ cs[k].twin = bs[k].twin
             /\ cs[k].type = bs[k].type /\ cs[k].pinned = bs[k].pinned
             /\ cs[k].preview => bs[k].preview
  <2>1. bs[k] \in Buffer  BY <1>1
  <2>2. cs[k] = IF bs[k].id = id THEN [bs[k] EXCEPT !.preview = FALSE] ELSE bs[k]
    BY <1>3
  <2>3. CASE bs[k].id = id  BY <2>1, <2>2, <2>3, WithPreview
  <2>4. CASE bs[k].id # id  BY <2>1, <2>2, <2>4
  <2> QED  BY <2>3, <2>4
<1>5. cs = [k \in DOMAIN bs |-> cs[k]]  BY <1>3
<1>6. cs \in Seq(Buffer) /\ DOMAIN cs = DOMAIN bs  BY <1>1, <1>4, <1>5, PointwiseSeq
<1>7. SameOnes(bs, cs)  BY <1>1, <1>4, <1>6 DEF SameOnes
<1>8. \A k \in DOMAIN bs : cs[k].pinned => ~cs[k].preview /\ cs[k].type # "newTab"
  BY <1>1, <1>4 DEF GoodBufs
<1>9. GoodBufs(cs, n)  BY <1>1, <1>7, <1>8, SameOnesGood
<1>10. u = [bufs |-> cs, active |-> t.active, pending |-> t.pending,
            closed |-> t.closed, lay |-> ClearPreview(t.lay, id)]
  BY <1>2 DEF Fine, IsStore
<1>11. IsStore(u) /\ u.bufs = cs /\ u.closed = t.closed
  BY <1>10 DEF IsStore
<1> QED  BY <1>7, <1>9, <1>11 DEF Fine, u, bs

LEMMA TogglePinIs ==
  ASSUME NEW t, NEW n, Fine(t, n), NEW id, id \in OpenIds(t),
         BufferOf(t, id).type # "newTab"
  PROVE  LET u == TogglePin(t, id)
         IN Fine(u, n) /\ SameOnes(t.bufs, u.bufs)
<1> DEFINE p  == ~BufferOf(t, id).pinned
           bs == t.bufs
           cs == Update(bs, id, LAMBDA b : [b EXCEPT !.pinned = p])
           ds == Update(cs, id, LAMBDA b : [b EXCEPT !.preview = FALSE])
           v  == [t EXCEPT !.bufs = cs]
           u  == TogglePin(t, id)
<1>1. bs \in Seq(Buffer) /\ GoodBufs(bs, n) /\ IsStore(t)  BY DEF Fine, GoodBufs
<1>2. u = IF p THEN MakeDefinite(v, id) ELSE v  BY DEF TogglePin
<1>3. MakeDefinite(v, id) =
        [v EXCEPT !.bufs = Update(v.bufs, id, LAMBDA b : [b EXCEPT !.preview = FALSE]),
                                      !.lay = ClearPreview(v.lay, id)]
  BY DEF MakeDefinite
<1>4. cs = [k \in DOMAIN bs |-> IF bs[k].id = id THEN [bs[k] EXCEPT !.pinned = p]
                                ELSE bs[k]]
  BY DEF Update
<1>5. ds = [k \in DOMAIN cs |-> IF cs[k].id = id THEN [cs[k] EXCEPT !.preview = FALSE]
                                ELSE cs[k]]
  BY DEF Update
<1>6. p \in BOOLEAN  OBVIOUS
<1>7. \A k \in DOMAIN bs : bs[k].id = id => bs[k].type # "newTab"
  <2> TAKE k \in DOMAIN bs
  <2>1. bs[k] \in ToSet(t.bufs)  BY DEF ToSet
  <2>2. bs[k].id = id => bs[k] = BufferOf(t, id)  BY <2>1, BufferOfIs, OneBuffer
  <2> QED  BY <2>2
<1> HIDE DEF ds
<1>8. v = [bufs |-> cs, active |-> t.active, pending |-> t.pending,
           closed |-> t.closed, lay |-> t.lay]
  BY <1>1 DEF IsStore
<1> HIDE DEF p, bs, cs, u, v
<1>9. ASSUME NEW k \in DOMAIN bs
      PROVE  /\ cs[k] \in Buffer /\ cs[k].id = bs[k].id /\ cs[k].path = bs[k].path
             /\ cs[k].twin = bs[k].twin
             /\ cs[k].type = bs[k].type /\ cs[k].preview = bs[k].preview
             /\ cs[k].pinned = IF bs[k].id = id THEN p ELSE bs[k].pinned
  <2>1. bs[k] \in Buffer  BY <1>1
  <2>2. cs[k] = IF bs[k].id = id THEN [bs[k] EXCEPT !.pinned = p] ELSE bs[k]  BY <1>4
  <2>3. CASE bs[k].id = id  BY <2>1, <2>2, <2>3, <1>6, WithPinned
  <2>4. CASE bs[k].id # id  BY <2>1, <2>2, <2>4
  <2> QED  BY <2>3, <2>4
<1>10. cs \in Seq(Buffer) /\ DOMAIN cs = DOMAIN bs
  <2>1. cs = [k \in DOMAIN bs |-> cs[k]]  BY <1>4
  <2> QED  BY <2>1, <1>1, <1>9, PointwiseSeq
<1>11. SameOnes(bs, cs)  BY <1>1, <1>9, <1>10 DEF SameOnes
<1>12. CASE ~p
  <2>1. \A k \in DOMAIN bs : cs[k].pinned => ~cs[k].preview /\ cs[k].type # "newTab"
    BY <1>1, <1>9, <1>12 DEF GoodBufs
  <2>2. GoodBufs(cs, n)  BY <1>1, <1>11, <2>1, SameOnesGood
  <2>3. IsStore(u) /\ u.bufs = cs /\ u.closed = t.closed
    BY <1>2, <1>8, <1>12 DEF IsStore
  <2> QED  BY <2>2, <2>3, <1>11 DEF Fine, u, bs
<1>13. CASE p
  <2>1. ASSUME NEW k \in DOMAIN bs
        PROVE  /\ ds[k] \in Buffer /\ ds[k].id = bs[k].id /\ ds[k].path = bs[k].path
               /\ ds[k].twin = bs[k].twin
               /\ ds[k].type = bs[k].type /\ ds[k].pinned = cs[k].pinned
               /\ ds[k].preview => bs[k].preview
               /\ bs[k].id = id => ~ds[k].preview
    <3>1. cs[k] \in Buffer /\ cs[k].id = bs[k].id /\ cs[k].path = bs[k].path
          /\ cs[k].twin = bs[k].twin
          /\ cs[k].type = bs[k].type /\ cs[k].preview = bs[k].preview
      BY <1>9
    <3>2. ds[k] = IF cs[k].id = id THEN [cs[k] EXCEPT !.preview = FALSE] ELSE cs[k]
      BY <1>5, <1>10
    <3>3. CASE cs[k].id = id
      <4>1. ds[k] = [cs[k] EXCEPT !.preview = FALSE]  BY <3>2, <3>3
      <4>2. /\ ds[k] \in Buffer /\ ds[k].id = cs[k].id /\ ds[k].path = cs[k].path
            /\ ds[k].twin = cs[k].twin
            /\ ds[k].type = cs[k].type /\ ds[k].pinned = cs[k].pinned
            /\ ~ds[k].preview
        <5>1. cs[k] \in Buffer  BY <3>1
        <5> DEFINE d == FALSE
        <5>2. d \in BOOLEAN /\ ds[k] = [cs[k] EXCEPT !.preview = d]  BY <4>1
        <5> HIDE DEF d
        <5>3. /\ ds[k] \in Buffer /\ ds[k].id = cs[k].id /\ ds[k].path = cs[k].path
              /\ ds[k].twin = cs[k].twin
              /\ ds[k].type = cs[k].type /\ ds[k].pinned = cs[k].pinned
              /\ ds[k].preview = d
          BY <5>1, <5>2, WithPreview
        <5> QED  BY <5>3 DEF d
      <4> QED  BY <4>2, <3>1
    <3>4. CASE cs[k].id # id  BY <3>1, <3>2, <3>4
    <3> QED  BY <3>3, <3>4
  <2>2. ds \in Seq(Buffer) /\ DOMAIN ds = DOMAIN bs
    <3>1. ds = [k \in DOMAIN bs |-> ds[k]]  BY <1>5, <1>10
    <3> QED  BY <3>1, <1>1, <2>1, PointwiseSeq
  <2>3. SameOnes(bs, ds)  BY <1>1, <2>1, <2>2 DEF SameOnes
  <2>4. \A k \in DOMAIN bs : ds[k].pinned => ~ds[k].preview /\ ds[k].type # "newTab"
    <3> TAKE k \in DOMAIN bs
    <3>1. CASE bs[k].id = id  BY <3>1, <2>1, <1>7 DEF bs
    <3>2. CASE bs[k].id # id
      <4>1. cs[k].pinned = bs[k].pinned  BY <3>2, <1>9
      <4>2. bs[k].pinned => ~bs[k].preview /\ bs[k].type # "newTab"
        BY <1>1 DEF GoodBufs
      <4> QED  BY <4>1, <4>2, <2>1
    <3> QED  BY <3>1, <3>2
  <2>5. GoodBufs(ds, n)  BY <1>1, <2>3, <2>4, SameOnesGood
  <2>6. u = [bufs |-> ds, active |-> t.active, pending |-> t.pending,
             closed |-> t.closed, lay |-> ClearPreview(v.lay, id)]
    <3>1. v.bufs = cs  BY <1>8
    <3>2. u = [v EXCEPT !.bufs = ds, !.lay = ClearPreview(v.lay, id)]
      BY <3>1, <1>2, <1>3, <1>13 DEF ds
    <3> QED  BY <3>2, <1>8
  <2>7. IsStore(u) /\ u.bufs = ds /\ u.closed = t.closed
    BY <2>6 DEF IsStore
  <2> QED  BY <2>3, <2>5, <2>7 DEF Fine, u, bs
<1> QED  BY <1>12, <1>13

(* Steps that leave the buffers and the closed tabs alone.                 *)
LEMMA SameBufs ==
  ASSUME NEW t, NEW n, Fine(t, n), NEW u, IsStore(u), u.bufs = t.bufs,
         u.closed = t.closed
  PROVE  Fine(u, n) /\ SameOnes(t.bufs, u.bufs)
BY SameOnesSelf DEF Fine

(* setActiveBuffer and the preview of a pane.                              *)
LEMMA SyncPreviewIs ==
  ASSUME NEW t, NEW n, Fine(t, n), NEW id, NEW preview
  PROVE  LET u == SyncPreview(t, id, preview)
         IN Fine(u, n) /\ u.bufs = t.bufs /\ u.active = t.active
<1> DEFINE u == SyncPreview(t, id, preview)
           lay == IF preview THEN SetPreview(t.lay, t.lay.front, id)
                  ELSE ClearPreview(t.lay, id)
<1>1. u = [t EXCEPT !.lay = lay]  BY DEF SyncPreview
<1> HIDE DEF u, lay
<1>2. u = [bufs |-> t.bufs, active |-> t.active, pending |-> t.pending,
           closed |-> t.closed, lay |-> lay]
  BY <1>1 DEF Fine, IsStore
<1>3. IsStore(u) /\ u.bufs = t.bufs /\ u.closed = t.closed /\ u.active = t.active
  BY <1>2 DEF IsStore
<1> QED  BY <1>3, SameBufs DEF u

LEMMA ActivateIs ==
  ASSUME NEW t, NEW n, Fine(t, n), NEW id
  PROVE  Fine(Activate(t, id), n) /\ SameOnes(t.bufs, Activate(t, id).bufs)
<1> DEFINE u == Activate(t, id)
           lay == Focus(t.lay, id)
<1>1. u = [t EXCEPT !.active = id, !.lay = lay]  BY DEF Activate
<1> HIDE DEF u, lay
<1>2. u = [bufs |-> t.bufs, active |-> id, pending |-> t.pending,
           closed |-> t.closed, lay |-> lay]
  BY <1>1 DEF Fine, IsStore
<1>3. IsStore(u) /\ u.bufs = t.bufs /\ u.closed = t.closed
  BY <1>2 DEF IsStore
<1> QED  BY <1>3, SameBufs DEF u

(* A path is none of the other buffers' lack of one.                       *)
LEMMA PathIsNotNone ==
  ASSUME NEW path \in Paths \cup Untitled
  PROVE  path # None
BY BoundsAssumption, PanesAssumption DEF Untitled

(* Opening a file.                                                         *)
LEMMA OpenEditorIs ==
  ASSUME NEW t, NEW n, Fine(t, n), n \in Ids, NEW path \in Paths \cup Untitled,
         NEW preview \in BOOLEAN
  PROVE  LET u == OpenEditor(t, path, preview, n)
         IN /\ Fine(u, IF Opened(t, path) THEN n ELSE n + 1)
            /\ Loses(t, u, Expendable(t))
            /\ u.active \in OpenIds(u) /\ BufferOf(u, u.active).type # "newTab"
<1> DEFINE S    == {b \in ToSet(t.bufs) : b.path = path}
           same == Only(t.bufs, S)
           old  == Head(same).id
           room == EvictOne(ReplacePreview(CloseNewTab(t), preview), FALSE)
           new  == NewBuffer(n, path, "editor", preview)
           bs   == t.bufs
           cs   == Update(bs, old, LAMBDA b : [b EXCEPT !.preview = @ /\ preview])
           lay  == ToFront(t.lay, old)
           u    == OpenEditor(t, path, preview, n)
<1>1. u = IF same # <<>>
          THEN SyncPreview([t EXCEPT !.active = old, !.bufs = cs, !.lay = lay],
                           old, preview)
          ELSE SyncPreview(AppendBuffer(room, new), n, preview)
  BY DEF OpenEditor, Where
<1>2. bs \in Seq(Buffer) /\ GoodBufs(bs, n) /\ IsStore(t)  BY DEF Fine, GoodBufs
<1>3. same \in Seq(Buffer) /\ ToSet(same) = ToSet(bs) \cap S
  BY <1>2, OnlyFacts
<1>4. same # <<>> => Head(same) \in ToSet(bs) /\ Head(same) \in S
  BY <1>2, HeadOfOnly
<1>5. \A b : b \in S <=> b \in ToSet(bs) /\ b.path = path  OBVIOUS
<1>6. cs = [k \in DOMAIN bs |-> IF bs[k].id = old
                                THEN [bs[k] EXCEPT !.preview = @ /\ preview] ELSE bs[k]]
  BY DEF Update
<1> HIDE DEF S, same, bs, cs, lay, u
<1>7. CASE same # <<>>
  <2>1. Head(same) \in ToSet(bs) /\ Head(same).path = path  BY <1>4, <1>5, <1>7
  <2>2. PICK h \in DOMAIN bs : bs[h] = Head(same)  BY <2>1 DEF ToSet
  <2>3. Opened(t, path)  BY <2>1, <2>2 DEF Opened, bs
  <2>4. ASSUME NEW k \in DOMAIN bs
        PROVE  /\ cs[k] \in Buffer /\ cs[k].id = bs[k].id /\ cs[k].path = bs[k].path
               /\ cs[k].twin = bs[k].twin
               /\ cs[k].type = bs[k].type /\ cs[k].pinned = bs[k].pinned
               /\ cs[k].preview => bs[k].preview
    <3>1. bs[k] \in Buffer  BY <1>2
    <3>2. CASE bs[k].id = old
      <4> DEFINE d == bs[k].preview /\ preview
      <4>1. cs[k] = [bs[k] EXCEPT !.preview = d]  BY <1>6, <3>2
      <4>2. d \in BOOLEAN  OBVIOUS
      <4>3. d => bs[k].preview  OBVIOUS
      <4> HIDE DEF d
      <4>4. /\ cs[k] \in Buffer /\ cs[k].id = bs[k].id /\ cs[k].path = bs[k].path
            /\ cs[k].twin = bs[k].twin
            /\ cs[k].type = bs[k].type /\ cs[k].pinned = bs[k].pinned
            /\ cs[k].preview = d
        BY <3>1, <4>1, <4>2, WithPreview
      <4> QED  BY <4>3, <4>4
    <3>3. CASE bs[k].id # old  BY <1>6, <3>1, <3>3
    <3> QED  BY <3>2, <3>3
  <2>5. cs \in Seq(Buffer) /\ DOMAIN cs = DOMAIN bs
    <3>1. cs = [k \in DOMAIN bs |-> cs[k]]  BY <1>6
    <3> QED  BY <3>1, <1>2, <2>4, PointwiseSeq
  <2>6. SameOnes(bs, cs)  BY <1>2, <2>4, <2>5 DEF SameOnes
  <2>7. \A k \in DOMAIN bs : cs[k].pinned => ~cs[k].preview /\ cs[k].type # "newTab"
    BY <1>2, <2>4 DEF GoodBufs
  <2>8. GoodBufs(cs, n)  BY <1>2, <2>6, <2>7, SameOnesGood
  <2> DEFINE v == [t EXCEPT !.active = old, !.bufs = cs, !.lay = lay]
  <2>9. v = [bufs |-> cs, active |-> old, pending |-> t.pending,
             closed |-> t.closed, lay |-> lay]
    <3>1. v = [t EXCEPT !.active = old, !.bufs = cs, !.lay = lay]  OBVIOUS
    <3> HIDE DEF v, old
    <3> QED  BY ONLY <3>1, <1>2 DEF IsStore
  <2>10. u = SyncPreview(v, old, preview)  BY <1>1, <1>7
  <2> HIDE DEF v
  <2>11. Fine(v, n) /\ v.bufs = cs /\ v.active = old
    BY <2>8, <2>9 DEF Fine, IsStore
  <2>12. Fine(u, n) /\ u.bufs = cs /\ u.active = old  BY <2>10, <2>11, SyncPreviewIs
  <2>13. Loses(t, u, Expendable(t))  BY <2>6, <2>12, SameOnesLoses DEF bs
  <2>14. cs[h] \in ToSet(u.bufs) /\ cs[h].id = old /\ cs[h].type = "editor"
    <3>1. cs[h].id = old /\ cs[h].path = path  BY <2>1, <2>2, <2>4
    <3>2. cs[h].type = "editor"
      BY <3>1, <2>5, <2>8, <2>2, PathIsNotNone DEF GoodBufs
    <3> QED  BY <3>1, <3>2, <2>2, <2>5, <2>12 DEF ToSet
  <2>15. old \in OpenIds(u)  BY <2>14, BufferIsOpen
  <2>16. BufferOf(u, old) = cs[h]  BY <2>12, <2>14, <2>15, BufferOfIs, OneBuffer
  <2> QED  BY <2>3, <2>12, <2>13, <2>14, <2>15, <2>16 DEF u
<1>8. CASE same = <<>>
  <2>1. \A k \in DOMAIN bs : bs[k].path # path
    <3>1. ToSet(same) = {}  BY <1>8 DEF ToSet
    <3>2. \A b \in ToSet(bs) : b.path # path  BY <3>1, <1>3, <1>5
    <3> QED  BY <3>2 DEF ToSet
  <2>2. ~Opened(t, path)  BY <2>1 DEF Opened, bs
  <2> DEFINE t1 == CloseNewTab(t)
             t2 == ReplacePreview(t1, preview)
  <2>3. Fine(t1, n) /\ Cut(t, t1, Expendable(t))  BY CloseNewTabCuts
  <2>4. Fine(t2, n) /\ Cut(t1, t2, Expendable(t1))  BY <2>3, ReplacePreviewCuts
  <2>5. Fine(room, n) /\ Cut(t2, room, Expendable(t2))  BY <2>4, EvictOneCuts
  <2>6. Cut(t, t2, Expendable(t))  BY <2>3, <2>4, ExpendableTrans
  <2>7. Cut(t, room, Expendable(t))  BY <2>4, <2>5, <2>6, ExpendableTrans
  <2> HIDE DEF t1, t2, room
  <2>8. \A k \in DOMAIN room.bufs : room.bufs[k].path # path
    <3>1. \A k \in DOMAIN room.bufs : \E j \in DOMAIN bs : room.bufs[k] = bs[j]
      BY <2>7 DEF Cut, Thinner, bs
    <3> QED  BY <3>1, <2>1
  <2>9. /\ new \in Buffer /\ new.id = n /\ new.path = path /\ new.type = "editor"
        /\ ~new.pinned
    BY DEF NewBuffer, Buffer, Types
  <2>10. path # None  BY PathIsNotNone
  <2> HIDE DEF new
  <2> DEFINE v == AppendBuffer(room, new)
  <2>11. Fine(v, n + 1) /\ ToSet(v.bufs) = ToSet(room.bufs) \cup {new}
    BY <2>5, <2>8, <2>9, <2>10, AppendBufferGood
  <2>12. v.active = n
    <3>1. v = [room EXCEPT !.bufs = Append(room.bufs, new), !.active = new.id,
                           !.lay = ToFront(room.lay, new.id)]
      BY DEF AppendBuffer
    <3>2. IsStore(room)  BY <2>5 DEF Fine
    <3> HIDE DEF v
    <3>3. v.active = new.id  BY ONLY <3>1, <3>2 DEF IsStore
    <3> QED  BY <3>3, <2>9
  <2>13. u = SyncPreview(v, n, preview)  BY <1>1, <1>8
  <2> HIDE DEF v
  <2>14. Fine(u, n + 1) /\ u.bufs = v.bufs /\ u.active = n
    BY <2>11, <2>12, <2>13, SyncPreviewIs
  <2>15. new \in ToSet(u.bufs)  BY <2>11, <2>14
  <2>16. n \in OpenIds(u)  BY <2>9, <2>15, BufferIsOpen
  <2>17. BufferOf(u, n) = new  BY <2>9, <2>14, <2>15, <2>16, BufferOfIs, OneBuffer
  <2>18. Loses(t, u, Expendable(t))
    <3> SUFFICES ASSUME NEW b \in ToSet(t.bufs), b \notin Expendable(t)
                 PROVE  b.id \in OpenIds(u)
      BY DEF Loses
    <3>1. b \in ToSet(room.bufs)  BY <2>7 DEF Cut
    <3>2. b \in ToSet(u.bufs)  BY <3>1, <2>11, <2>14
    <3> QED  BY <3>2, BufferIsOpen
  <2> QED  BY <2>2, <2>9, <2>14, <2>16, <2>17, <2>18 DEF u
<1> QED  BY <1>7, <1>8

-----------------------------------------------------------------------------
(* A pane: each buffer once, the same ones in the order of use, the last   *)
(* used on top.                                                            *)
GoodPane(g) ==
  /\ g \in Pane /\ IsInjective(g.ids) /\ IsInjective(g.mru)
  /\ Len(g.mru) = Len(g.ids) /\ ToSet(g.mru) = ToSet(g.ids)
  /\ g.active = HeadOr(g.mru) /\ g.preview \in ToSet(g.ids) \cup {None}

(* What Normalize starts from.                                             *)
RawPane(g) == g \in Pane /\ IsInjective(g.ids) /\ IsInjective(g.mru)

-----------------------------------------------------------------------------
LEMMA OnlyInjective ==
  ASSUME NEW T, NEW s \in Seq(T), NEW S, IsInjective(s)
  PROVE  IsInjective(Only(s, S))
<1>1. \A j, k \in DOMAIN Only(s, S) : j # k => Only(s, S)[j] # Only(s, S)[k]
  BY OnlyFacts DEF IsInjective
<1> QED  BY <1>1 DEF IsInjective

(* Sequences and the sets of their elements.                               *)
LEMMA ConcatFacts ==
  ASSUME NEW T, NEW r \in Seq(T), NEW s \in Seq(T)
  PROVE  /\ r \o s \in Seq(T)
         /\ ToSet(r \o s) = ToSet(r) \cup ToSet(s)
         /\ IsInjective(r) /\ IsInjective(s) /\ ToSet(r) \cap ToSet(s) = {}
              => IsInjective(r \o s)
<1> DEFINE m == Len(r)
           n == Len(s)
           q == r \o s
<1>1. /\ m \in Nat /\ n \in Nat /\ DOMAIN r = 1 .. m /\ DOMAIN s = 1 .. n
      /\ q \in Seq(T) /\ DOMAIN q = 1 .. m + n
  OBVIOUS
<1>2. \A k \in 1 .. m : q[k] = r[k]  OBVIOUS
<1>3. \A k \in 1 .. n : q[m + k] = s[k]  OBVIOUS
<1> HIDE DEF m, n, q
<1>4. \A k \in 1 .. m + n : k \in 1 .. m \/ (k - m \in 1 .. n /\ k = m + (k - m))
  BY <1>1
<1>5. ToSet(q) = ToSet(r) \cup ToSet(s)
  <2>1. ASSUME NEW k \in DOMAIN q  PROVE  q[k] \in ToSet(r) \cup ToSet(s)
    <3>1. CASE k \in 1 .. m  BY <3>1, <1>1, <1>2 DEF ToSet
    <3>2. CASE k \notin 1 .. m
      <4>1. k - m \in 1 .. n /\ k = m + (k - m)  BY <3>2, <1>1, <1>4
      <4>2. q[k] = s[k - m]  BY <4>1, <1>3
      <4> QED  BY <4>1, <4>2, <1>1 DEF ToSet
    <3> QED  BY <3>1, <3>2
  <2>2. ASSUME NEW k \in DOMAIN r  PROVE  r[k] \in ToSet(q)
    <3>1. k \in DOMAIN q  BY <1>1
    <3> QED  BY <3>1, <1>1, <1>2 DEF ToSet
  <2>3. ASSUME NEW k \in DOMAIN s  PROVE  s[k] \in ToSet(q)
    <3>1. m + k \in DOMAIN q  BY <1>1
    <3>2. q[m + k] = s[k]  BY <1>1, <1>3
    <3> QED  BY <3>1, <3>2 DEF ToSet
  <2>4. \A x \in ToSet(q) : x \in ToSet(r) \cup ToSet(s)  BY <2>1 DEF ToSet
  <2>5. \A x \in ToSet(r) : x \in ToSet(q)  BY <2>2 DEF ToSet
  <2>6. \A x \in ToSet(s) : x \in ToSet(q)  BY <2>3 DEF ToSet
  <2> QED  BY <2>4, <2>5, <2>6
<1>6. ASSUME IsInjective(r), IsInjective(s), ToSet(r) \cap ToSet(s) = {}
      PROVE  IsInjective(q)
  <2> SUFFICES ASSUME NEW j \in DOMAIN q, NEW k \in DOMAIN q, q[j] = q[k]
               PROVE  j = k
    BY DEF IsInjective
  <2>1. CASE j \in 1 .. m /\ k \in 1 .. m
    BY <2>1, <1>1, <1>2, <1>6 DEF IsInjective
  <2>2. CASE j \in 1 .. m /\ k \notin 1 .. m
    <3>1. q[j] \in ToSet(r)  BY <2>2, <1>1, <1>2 DEF ToSet
    <3>2. q[k] \in ToSet(s)
      <4>1. k - m \in 1 .. n /\ k = m + (k - m)  BY <2>2, <1>1, <1>4
      <4>2. q[k] = s[k - m]  BY <4>1, <1>3
      <4> QED  BY <4>1, <4>2, <1>1 DEF ToSet
    <3> QED  BY <3>1, <3>2, <1>6
  <2>3. CASE j \notin 1 .. m /\ k \in 1 .. m
    <3>1. q[k] \in ToSet(r)  BY <2>3, <1>1, <1>2 DEF ToSet
    <3>2. q[j] \in ToSet(s)
      <4>1. j - m \in 1 .. n /\ j = m + (j - m)  BY <2>3, <1>1, <1>4
      <4>2. q[j] = s[j - m]  BY <4>1, <1>3
      <4> QED  BY <4>1, <4>2, <1>1 DEF ToSet
    <3> QED  BY <3>1, <3>2, <1>6
  <2>4. CASE j \notin 1 .. m /\ k \notin 1 .. m
    <3>1. j - m \in 1 .. n /\ j = m + (j - m) /\ k - m \in 1 .. n /\ k = m + (k - m)
      BY <2>4, <1>1, <1>4
    <3>2. s[j - m] = s[k - m]  BY <3>1, <1>3
    <3>3. j - m = k - m  BY <3>1, <3>2, <1>1, <1>6 DEF IsInjective
    <3> QED  BY <3>1, <3>3
  <2> QED  BY <2>1, <2>2, <2>3, <2>4
<1> QED  BY <1>1, <1>5, <1>6 DEF q

LEMMA SingletonFacts ==
  ASSUME NEW T, NEW x \in T
  PROVE  /\ <<x>> \in Seq(T) /\ ToSet(<<x>>) = {x} /\ IsInjective(<<x>>)
         /\ Len(<<x>>) = 1 /\ DOMAIN <<x>> = {1}
BY DEF ToSet, IsInjective

LEMMA EmptyFacts ==
  /\ \A T : <<>> \in Seq(T)
  /\ ToSet(<<>>) = {} /\ IsInjective(<<>>) /\ Len(<<>>) = 0
BY DEF ToSet, IsInjective

LEMMA HeadOrIs ==
  ASSUME NEW T, NEW s \in Seq(T)
  PROVE  /\ s = <<>> => HeadOr(s) = None /\ ToSet(s) = {}
         /\ s # <<>> => HeadOr(s) = s[1] /\ HeadOr(s) = Head(s) /\ HeadOr(s) \in ToSet(s)
<1>1. CASE s = <<>>  BY <1>1, EmptyFacts DEF HeadOr
<1>2. CASE s # <<>>
  <2>1. Head(s) = s[1] /\ 1 \in DOMAIN s  BY <1>2
  <2> QED  BY <1>2, <2>1 DEF HeadOr, ToSet
<1> QED  BY <1>1, <1>2

LEMMA HeadOfConcat ==
  ASSUME NEW T, NEW x \in T, NEW s \in Seq(T)
  PROVE  <<x>> \o s # <<>> /\ Head(<<x>> \o s) = x
OBVIOUS

LEMMA NoneIsNoId == None \notin Ids /\ None \notin PaneIds
BY PanesAssumption DEF Ids, PaneIds

(* normalizeGroup makes a pane of whatever the operations hand it.         *)
LEMMA NormalizeGood ==
  ASSUME NEW g, RawPane(g)
  PROVE  LET h == Normalize(g)
         IN /\ GoodPane(h) /\ h.id = g.id /\ h.ids = g.ids
            /\ g.active \in ToSet(g.ids) => h.active = g.active
            /\ g.ids # <<>> => h.active \in ToSet(g.ids)
            /\ h.preview = IF g.preview \in ToSet(g.ids) THEN g.preview ELSE None
<1> DEFINE act  == IF g.active \in ToSet(g.ids) THEN g.active ELSE HeadOr(g.ids)
           U    == {x \in ToSet(g.mru) : x \in ToSet(g.ids) /\ x # act}
           used == Only(g.mru, U)
           R    == {x \in ToSet(g.ids) : x \notin ToSet(used) /\ x # act}
           rest == Only(g.ids, R)
           mru  == IF act = None THEN <<>> ELSE <<act>> \o used \o rest
           pre  == IF g.preview \in ToSet(g.ids) THEN g.preview ELSE None
           h    == Normalize(g)
<1>1. h = [g EXCEPT !.active = act, !.mru = mru, !.preview = pre]
  BY DEF Normalize, Where
<1>2. /\ g.ids \in Seq(Ids) /\ g.mru \in Seq(Ids) /\ g.active \in Ids \cup {None}
      /\ g.preview \in Ids \cup {None} /\ g.id \in PaneIds
      /\ g = [id |-> g.id, ids |-> g.ids, active |-> g.active, mru |-> g.mru,
              preview |-> g.preview]
      /\ IsInjective(g.ids) /\ IsInjective(g.mru)
  BY DEF RawPane, Pane
<1>3. ToSet(used) = ToSet(g.mru) \cap U /\ used \in Seq(Ids) /\ IsInjective(used)
  BY <1>2, OnlyFacts, OnlyInjective
<1>4. ToSet(rest) = ToSet(g.ids) \cap R /\ rest \in Seq(Ids) /\ IsInjective(rest)
  BY <1>2, OnlyFacts, OnlyInjective
<1>5. /\ \A x : x \in U <=> x \in ToSet(g.mru) /\ x \in ToSet(g.ids) /\ x # act
      /\ \A x : x \in R <=> x \in ToSet(g.ids) /\ x \notin ToSet(used) /\ x # act
  OBVIOUS
<1>6. /\ g.ids = <<>> => act = None /\ ToSet(g.ids) = {}
      /\ g.ids # <<>> => act \in ToSet(g.ids)
      /\ g.active \in ToSet(g.ids) => act = g.active
  BY <1>2, HeadOrIs
<1>7. ToSet(g.ids) \subseteq Ids  BY <1>2 DEF ToSet
<1> HIDE DEF act, U, R, used, rest
<1>8. mru \in Seq(Ids) /\ IsInjective(mru) /\ ToSet(mru) = ToSet(g.ids)
      /\ act = HeadOr(mru)
  <2>1. CASE g.ids = <<>>
    <3>1. mru = <<>>  BY <2>1, <1>6
    <3> QED  BY <3>1, <2>1, <1>6, EmptyFacts DEF HeadOr
  <2>2. CASE g.ids # <<>>
    <3>1. act \in Ids /\ act # None /\ act \in ToSet(g.ids)
      BY <2>2, <1>6, <1>7, NoneIsNoId
    <3> DEFINE a == <<act>>
               b == a \o used
               c == b \o rest
    <3>2. a \in Seq(Ids) /\ ToSet(a) = {act} /\ IsInjective(a)
      BY <3>1, SingletonFacts
    <3>3. Head(a) = act /\ a # <<>>  OBVIOUS
    <3> HIDE DEF a
    <3>4. b \in Seq(Ids) /\ ToSet(b) = {act} \cup ToSet(used) /\ IsInjective(b)
      BY <3>2, <1>3, <1>5, ConcatFacts
    <3>5. b # <<>> /\ Head(b) = act  BY <3>2, <3>3, <1>3
    <3> HIDE DEF b
    <3>6. c \in Seq(Ids) /\ ToSet(c) = {act} \cup ToSet(used) \cup ToSet(rest)
          /\ IsInjective(c)
      BY <3>4, <1>3, <1>4, <1>5, ConcatFacts
    <3>7. c # <<>> /\ Head(c) = act  BY <3>4, <3>5, <1>4
    <3>8. mru = c  BY <3>1 DEF a, b
    <3>9. ToSet(c) = ToSet(g.ids)  BY <3>1, <3>6, <1>3, <1>4, <1>5
    <3> QED  BY <3>6, <3>7, <3>8, <3>9 DEF HeadOr
  <2> QED  BY <2>1, <2>2
<1> HIDE DEF mru
<1>9. Len(mru) = Len(g.ids)
  <2>1. Cardinality(ToSet(mru)) = Len(mru)
    BY <1>8, LenIsCardinality DEF IsInjective
  <2>2. Cardinality(ToSet(g.ids)) = Len(g.ids)
    BY <1>2, LenIsCardinality DEF IsInjective
  <2> QED  BY <2>1, <2>2, <1>8
<1>10. act \in Ids \cup {None} /\ pre \in Ids \cup {None}
       /\ pre \in ToSet(g.ids) \cup {None}
  BY <1>2, <1>6, <1>7
<1> HIDE DEF pre, h
<1>11. h = [id |-> g.id, ids |-> g.ids, active |-> act, mru |-> mru, preview |-> pre]
  BY <1>1, <1>2
<1>12. /\ h.id = g.id /\ h.ids = g.ids /\ h.active = act /\ h.mru = mru
       /\ h.preview = pre /\ h \in Pane
  BY <1>2, <1>8, <1>10, <1>11 DEF Pane
<1>13. GoodPane(h)  BY <1>2, <1>8, <1>9, <1>10, <1>12 DEF GoodPane
<1> QED  BY <1>6, <1>12, <1>13 DEF h, pre

LEMMA EmptyPaneGood ==
  ASSUME NEW p \in PaneIds
  PROVE  GoodPane(EmptyPane(p)) /\ EmptyPane(p).ids = <<>> /\ EmptyPane(p).id = p
BY EmptyFacts DEF GoodPane, EmptyPane, Pane, HeadOr

(* What is on top of a pane is in it.                                      *)
LEMMA GoodIsRaw ==
  ASSUME NEW g, GoodPane(g)
  PROVE  /\ RawPane(g)
         /\ ToSet(g.ids) \subseteq Ids
         /\ g.active \in ToSet(g.ids) \cup {None}
         /\ g.ids # <<>> => g.active \in ToSet(g.ids)
         /\ g.ids = <<>> => g.active = None
<1>1. RawPane(g)  BY DEF GoodPane, RawPane
<1>2. g \in Pane  BY DEF GoodPane
<1>3. g.ids \in Seq(Ids) /\ g.mru \in Seq(Ids)  BY <1>2 DEF Pane
<1>4. ToSet(g.ids) \subseteq Ids  BY <1>3 DEF ToSet
<1>5. g.mru = <<>> => g.active = None  BY <1>3, HeadOrIs DEF GoodPane
<1>6. g.mru # <<>> => g.active \in ToSet(g.ids)  BY <1>3, HeadOrIs DEF GoodPane
<1>7. Len(g.mru) = Len(g.ids)  BY DEF GoodPane
<1>8. g.ids # <<>> => g.mru # <<>>  BY <1>3, <1>7
<1>9. g.ids = <<>> => g.mru = <<>>  BY <1>3, <1>7
<1> QED  BY <1>1, <1>4, <1>5, <1>6, <1>8, <1>9

(* Adding a buffer to a pane and showing it there, or changing what is on  *)
(* top: the pane is normalized afterwards.                                 *)
LEMMA WithActive ==
  ASSUME NEW g, RawPane(g), NEW a \in Ids \cup {None}
  PROVE  LET h == [g EXCEPT !.active = a]
         IN RawPane(h) /\ h.id = g.id /\ h.ids = g.ids /\ h.active = a
            /\ h.preview = g.preview
BY DEF RawPane, Pane

LEMMA WithIdsSeq ==
  ASSUME NEW g, RawPane(g), NEW s \in Seq(Ids), IsInjective(s)
  PROVE  LET h == [g EXCEPT !.ids = s]
         IN RawPane(h) /\ h.id = g.id /\ h.ids = s /\ h.active = g.active
            /\ h.preview = g.preview
BY DEF RawPane, Pane

(* Adding, showing and removing a buffer.                                  *)
LEMMA GroupAddGood ==
  ASSUME NEW g, RawPane(g), NEW id \in Ids
  PROVE  LET h == GroupAdd(g, id)
         IN /\ GoodPane(h) /\ h.id = g.id /\ ToSet(h.ids) = ToSet(g.ids) \cup {id}
            /\ g.active \in ToSet(g.ids) \cup {id} => h.active = g.active
<1> DEFINE s == IF id \in ToSet(g.ids) THEN g.ids ELSE Append(g.ids, id)
           k == [g EXCEPT !.ids = s]
           h == GroupAdd(g, id)
<1>1. h = Normalize(k)  BY DEF GroupAdd
<1>2. g.ids \in Seq(Ids) /\ IsInjective(g.ids)  BY DEF RawPane, Pane
<1>3. s \in Seq(Ids) /\ IsInjective(s) /\ ToSet(s) = ToSet(g.ids) \cup {id}
  <2>1. CASE id \in ToSet(g.ids)  BY <2>1, <1>2
  <2>2. CASE id \notin ToSet(g.ids)
    <3> DEFINE a == <<id>>
    <3>1. a \in Seq(Ids) /\ ToSet(a) = {id} /\ IsInjective(a)  BY SingletonFacts
    <3>2. Append(g.ids, id) = g.ids \o a  BY <1>2
    <3> HIDE DEF a
    <3> QED  BY <2>2, <3>1, <3>2, <1>2, ConcatFacts
  <2> QED  BY <2>1, <2>2
<1> HIDE DEF s
<1>4. RawPane(k) /\ k.id = g.id /\ k.ids = s /\ k.active = g.active
  BY <1>3, WithIdsSeq
<1> HIDE DEF k, h
<1>5. /\ GoodPane(h) /\ h.id = k.id /\ h.ids = k.ids
      /\ k.active \in ToSet(k.ids) => h.active = k.active
  BY <1>1, <1>4, NormalizeGood
<1> QED  BY <1>3, <1>4, <1>5 DEF h

LEMMA GroupShowGood ==
  ASSUME NEW g, RawPane(g), NEW id \in Ids
  PROVE  LET h == GroupShow(g, id)
         IN /\ GoodPane(h) /\ h.id = g.id /\ ToSet(h.ids) = ToSet(g.ids) \cup {id}
            /\ h.active = id
<1> DEFINE k == [g EXCEPT !.active = id]
           h == GroupShow(g, id)
<1>1. h = GroupAdd(k, id)  BY DEF GroupShow
<1>2. RawPane(k) /\ k.id = g.id /\ k.ids = g.ids /\ k.active = id  BY WithActive
<1> HIDE DEF k, h
<1> QED  BY <1>1, <1>2, GroupAddGood DEF h

LEMMA WithoutIs ==
  ASSUME NEW T, NEW s \in Seq(T), NEW x
  PROVE  /\ Without(s, x) \in Seq(T) /\ ToSet(Without(s, x)) = ToSet(s) \ {x}
         /\ IsInjective(s) => IsInjective(Without(s, x))
<1> DEFINE S == {y \in ToSet(s) : y # x}
<1>1. Without(s, x) = Only(s, S)  BY DEF Without, Where
<1>2. ToSet(s) \cap S = ToSet(s) \ {x}  OBVIOUS
<1> HIDE DEF S
<1> QED  BY <1>1, <1>2, OnlyFacts, OnlyInjective

(* removeBufferFromGroup                                                   *)
LEMMA GroupRemoveGood ==
  ASSUME NEW g, GoodPane(g), NEW id
  PROVE  LET h == GroupRemove(g, id)
         IN /\ GoodPane(h) /\ h.id = g.id /\ ToSet(h.ids) = ToSet(g.ids) \ {id}
            /\ g.active # id => h.active = g.active
<1> DEFINE rest == Without(g.ids, id)
           at   == CHOOSE k \in DOMAIN g.ids : g.ids[k] = id
           i    == IF at > Len(rest) THEN Len(rest) ELSE at
           act  == IF g.active # id THEN g.active
                   ELSE IF rest = <<>> THEN None ELSE rest[i]
           k    == [g EXCEPT !.ids = rest, !.active = act]
           h    == GroupRemove(g, id)
<1>1. h = Normalize(k)  BY DEF GroupRemove
<1>2. /\ RawPane(g) /\ ToSet(g.ids) \subseteq Ids
      /\ g.active \in ToSet(g.ids) \cup {None}
      /\ g.ids # <<>> => g.active \in ToSet(g.ids)
      /\ g.ids = <<>> => g.active = None
  BY GoodIsRaw
<1>3. g.ids \in Seq(Ids) /\ IsInjective(g.ids) /\ g.active \in Ids \cup {None}
  <2>1. g \in Pane /\ IsInjective(g.ids)  BY <1>2 DEF RawPane
  <2> QED  BY <2>1 DEF Pane
<1>4. rest \in Seq(Ids) /\ IsInjective(rest) /\ ToSet(rest) = ToSet(g.ids) \ {id}
  BY <1>3, WithoutIs
<1>5. act \in Ids \cup {None}
  <2>1. CASE g.active # id  BY <2>1, <1>3
  <2>2. CASE g.active = id /\ rest = <<>>  BY <2>2
  <2>3. CASE g.active = id /\ rest # <<>>
    <3>1. ToSet(rest) # {}  BY <2>3, <1>4, HeadOrIs
    <3>2. id \in ToSet(g.ids)
      <4>1. g.ids # <<>>  BY <3>1, <1>4, EmptyFacts
      <4> QED  BY <4>1, <2>3, <1>2
    <3>3. at \in DOMAIN g.ids  BY <3>2 DEF ToSet
    <3> HIDE DEF at, rest
    <3>4. at \in Nat /\ at >= 1  BY <3>3, <1>3
    <3>5. Len(rest) \in Nat /\ Len(rest) >= 1  BY <2>3, <1>4
    <3>6. i \in 1 .. Len(rest)  BY <3>4, <3>5
    <3> HIDE DEF i
    <3>7. rest[i] \in Ids  BY <3>6, <1>4
    <3>8. act = rest[i]  BY <2>3
    <3> QED  BY <3>7, <3>8
  <2> QED  BY <2>1, <2>2, <2>3
<1>6. g.active # id => act = g.active  OBVIOUS
<1> HIDE DEF rest, act
<1>7. RawPane(k) /\ k.id = g.id /\ k.ids = rest /\ k.active = act
  <2> DEFINE j == [g EXCEPT !.ids = rest]
  <2>1. RawPane(j) /\ j.id = g.id /\ j.ids = rest  BY <1>2, <1>4, WithIdsSeq
  <2>2. k = [j EXCEPT !.active = act]  OBVIOUS
  <2> HIDE DEF j, k
  <2> QED  BY <2>1, <2>2, <1>5, WithActive
<1> HIDE DEF k, h
<1>8. /\ GoodPane(h) /\ h.id = k.id /\ h.ids = k.ids
      /\ k.active \in ToSet(k.ids) => h.active = k.active
      /\ k.ids # <<>> => h.active \in ToSet(k.ids)
  BY <1>1, <1>7, NormalizeGood
<1>9. ASSUME g.active # id  PROVE h.active = g.active
  <2>1. CASE g.active \in ToSet(g.ids)
    BY <2>1, <1>4, <1>6, <1>7, <1>8, <1>9
  <2>2. CASE g.active = None /\ g.ids = <<>>
    <3>1. ToSet(g.ids) = {}  BY <2>2, EmptyFacts
    <3>2. ToSet(h.ids) = {}  BY <3>1, <1>4, <1>7, <1>8
    <3>3. h.active \in ToSet(h.ids) \cup {None}  BY <1>8, GoodIsRaw
    <3> QED  BY <3>2, <3>3, <2>2
  <2> QED  BY <2>1, <2>2, <1>2
<1> QED  BY <1>4, <1>7, <1>8, <1>9 DEF h

LEMMA WithPreviewGood ==
  ASSUME NEW g, GoodPane(g), NEW id, id \in ToSet(g.ids) \cup {None}
  PROVE  LET h == [g EXCEPT !.preview = id]
         IN GoodPane(h) /\ h.id = g.id /\ h.ids = g.ids /\ h.active = g.active
<1>1. id \in Ids \cup {None}  BY GoodIsRaw
<1>2. g \in Pane  BY DEF GoodPane
<1> DEFINE h == [g EXCEPT !.preview = id]
<1>3. /\ h \in Pane /\ h.id = g.id /\ h.ids = g.ids /\ h.active = g.active
      /\ h.mru = g.mru /\ h.preview = id
  BY <1>1, <1>2 DEF Pane
<1> HIDE DEF h
<1>4. GoodPane(h)  BY <1>3 DEF GoodPane
<1> QED  BY <1>3, <1>4 DEF h

-----------------------------------------------------------------------------
(* Layouts.  Panes are told apart by their ids: a layout is known by the   *)
(* panes it has (HasPane, PaneAt), the one in front, and their order of    *)
(* use.                                                                    *)
GoodGroups(gs) ==
  /\ gs \in Seq(Pane) /\ gs # <<>>
  /\ \A k \in DOMAIN gs : GoodPane(gs[k])
  /\ \A j, k \in DOMAIN gs : gs[j].id = gs[k].id => j = k

IsLay(lay) ==
  lay = [groups |-> lay.groups, front |-> lay.front, recent |-> lay.recent]

(* What the operations on a layout start from and go through: the pane in  *)
(* front may be gone.                                                      *)
LooseLay(lay) ==
  /\ IsLay(lay)
  /\ GoodGroups(lay.groups)
  /\ lay.front \in PaneIds
  /\ lay.recent \in Seq(PaneIds)

(* A layout between two operations.                                        *)
GoodLay(lay) ==
  /\ LooseLay(lay)
  /\ HasPane(lay, lay.front)
  /\ lay.recent # <<>> /\ Head(lay.recent) = lay.front

(* Pane p shows x; some pane shows x.                                      *)
InPane(lay, p, x) == HasPane(lay, p) /\ x \in ToSet(PaneAt(lay, p).ids)
Shows(lay, x) == \E p \in PaneIds : InPane(lay, p, x)

(* The panes of u are those of lay, as they were.                          *)
SamePanes(lay, u) ==
  /\ \A p : HasPane(u, p) <=> HasPane(lay, p)
  /\ \A p : HasPane(lay, p) => PaneAt(u, p) = PaneAt(lay, p)

(* The folds over panes and buffers, with what each of their steps keeps.  *)
RemoveStep(x, y, c) == RemoveFrom(x, y, c.id, c.keepEmpty)
RemoveHolds(x, k, c) ==
  /\ GoodLay(x)
  /\ \A r, y : InPane(x, r, y)
       <=> InPane(c.lay, r, y) /\ ~(y = c.id /\ \E i \in 1 .. k : c.ps[i] = r)
  /\ \A i \in DOMAIN c.ps : i > k => HasPane(x, c.ps[i])
CR == INSTANCE SequenceFolds WITH Step <- RemoveStep, Holds <- RemoveHolds

AddStep(x, y, c) == GroupAdd(x, y)
AddHolds(x, k, c) ==
  /\ GoodPane(x) /\ x.id = c.g.id
  /\ \A y : y \in ToSet(x.ids)
           <=> y \in ToSet(c.g.ids) \/ \E i \in 1 .. k : c.ids[i] = y
CAdd == INSTANCE SequenceFolds WITH Step <- AddStep, Holds <- AddHolds

CloseStep(x, y, c) == ClosePane(x, y)
CloseHolds(x, k, c) ==
  /\ GoodLay(x) /\ x.front = c.lay.front
  /\ \A y : Shows(x, y) <=> Shows(c.lay, y)
  /\ \A i \in DOMAIN c.ps : i > k => HasPane(x, c.ps[i])
CC == INSTANCE SequenceFolds WITH Step <- CloseStep, Holds <- CloseHolds

(* PaneAt and HasPane agree.                                               *)
LEMMA PaneAtIs ==
  ASSUME NEW lay, LooseLay(lay), NEW p, HasPane(lay, p)
  PROVE  /\ GoodPane(PaneAt(lay, p)) /\ PaneAt(lay, p).id = p /\ p \in PaneIds
         /\ \E k \in DOMAIN lay.groups : PaneAt(lay, p) = lay.groups[k]
<1> DEFINE i == CHOOSE k \in DOMAIN lay.groups : lay.groups[k].id = p
<1>1. i \in DOMAIN lay.groups /\ lay.groups[i].id = p  BY DEF HasPane
<1>2. PaneAt(lay, p) = lay.groups[i]  BY DEF PaneAt
<1> HIDE DEF i
<1>3. GoodPane(lay.groups[i])  BY <1>1 DEF LooseLay, GoodGroups
<1>4. lay.groups[i].id \in PaneIds  BY <1>3 DEF GoodPane, Pane
<1> QED  BY <1>1, <1>2, <1>3, <1>4

LEMMA PaneAtPlace ==
  ASSUME NEW lay, LooseLay(lay), NEW k \in DOMAIN lay.groups
  PROVE  /\ HasPane(lay, lay.groups[k].id)
         /\ PaneAt(lay, lay.groups[k].id) = lay.groups[k]
<1> DEFINE p == lay.groups[k].id
           i == CHOOSE j \in DOMAIN lay.groups : lay.groups[j].id = p
<1>1. i \in DOMAIN lay.groups /\ lay.groups[i].id = p  OBVIOUS
<1>2. PaneAt(lay, p) = lay.groups[i] /\ HasPane(lay, p)  BY DEF PaneAt, HasPane
<1> HIDE DEF i
<1>3. i = k  BY <1>1 DEF LooseLay, GoodGroups
<1> QED  BY <1>2, <1>3

(* PaneAt(lay, p) is the one pane with the id p.                           *)
LEMMA PaneAtUnique ==
  ASSUME NEW lay, LooseLay(lay), NEW p, NEW k \in DOMAIN lay.groups,
         lay.groups[k].id = p
  PROVE  HasPane(lay, p) /\ PaneAt(lay, p) = lay.groups[k]
BY PaneAtPlace

(* Layouts with the same panes show the same.                              *)
LEMMA SameGroups ==
  ASSUME NEW lay, NEW u, u.groups = lay.groups
  PROVE  SamePanes(lay, u)
BY DEF SamePanes, HasPane, PaneAt

LEMMA SamePanesIn ==
  ASSUME NEW lay, NEW u, SamePanes(lay, u)
  PROVE  \A p, x : InPane(u, p, x) <=> InPane(lay, p, x)
BY DEF SamePanes, InPane

(* The lists of panes have no duplicates.                                  *)
LEMMA AllPanesIs ==
  ASSUME NEW lay, LooseLay(lay)
  PROVE  /\ AllPanes(lay) \in Seq(PaneIds) /\ IsInjective(AllPanes(lay))
         /\ AllPanes(lay) # <<>>
         /\ \A p : p \in ToSet(AllPanes(lay)) <=> HasPane(lay, p)
<1> DEFINE gs == lay.groups
           all == AllPanes(lay)
<1>1. all = [k \in DOMAIN gs |-> gs[k].id]  BY DEF AllPanes
<1>2. gs \in Seq(Pane) /\ gs # <<>>  BY DEF LooseLay, GoodGroups
<1>3. \A k \in DOMAIN gs : gs[k].id \in PaneIds
  <2>1. \A k \in DOMAIN gs : gs[k] \in Pane  BY <1>2
  <2> QED  BY <2>1 DEF Pane
<1>4. DOMAIN gs = 1 .. Len(gs) /\ Len(gs) \in Nat  BY <1>2
<1> HIDE DEF all
<1>5. all \in Seq(PaneIds) /\ DOMAIN all = DOMAIN gs
  <2>1. all \in [1 .. Len(gs) -> PaneIds]  BY <1>1, <1>3, <1>4
  <2> QED  BY <2>1, <1>4
<1>6. all # <<>>  BY <1>2, <1>4, <1>5
<1>7. IsInjective(all)  BY <1>1, <1>5 DEF IsInjective, LooseLay, GoodGroups
<1>8. \A p : p \in ToSet(all) <=> HasPane(lay, p)
  BY <1>1, <1>5 DEF ToSet, HasPane
<1> QED  BY <1>5, <1>6, <1>7, <1>8 DEF all

LEMMA EditorPanesIs ==
  ASSUME NEW lay, LooseLay(lay)
  PROVE  /\ EditorPanes(lay) \in Seq(PaneIds) /\ IsInjective(EditorPanes(lay))
         /\ \A p : p \in ToSet(EditorPanes(lay)) <=> HasPane(lay, p) /\ p # Bottom
<1>1. /\ AllPanes(lay) \in Seq(PaneIds) /\ IsInjective(AllPanes(lay))
      /\ \A p : p \in ToSet(AllPanes(lay)) <=> HasPane(lay, p)
  BY AllPanesIs
<1>2. /\ EditorPanes(lay) \in Seq(PaneIds)
      /\ ToSet(EditorPanes(lay)) = ToSet(AllPanes(lay)) \ {Bottom}
      /\ IsInjective(EditorPanes(lay))
  BY <1>1, WithoutIs DEF EditorPanes
<1> QED  BY <1>1, <1>2

LEMMA PanesWithIs ==
  ASSUME NEW lay, LooseLay(lay), NEW x
  PROVE  /\ PanesWith(lay, x) \in Seq(PaneIds) /\ IsInjective(PanesWith(lay, x))
         /\ \A p : p \in ToSet(PanesWith(lay, x)) <=> InPane(lay, p, x)
<1> DEFINE gs == lay.groups
           S == {g \in ToSet(gs) : Contains(g.ids, x)}
           with == Only(gs, S)
           ps == PanesWith(lay, x)
<1>1. ps = [k \in DOMAIN with |-> with[k].id]  BY DEF PanesWith, Where
<1>2. gs \in Seq(Pane)  BY DEF LooseLay, GoodGroups
<1>3. with \in Seq(Pane) /\ ToSet(with) = ToSet(gs) \cap S  BY <1>2, OnlyFacts
<1>10. \A j, k \in DOMAIN with : j # k =>
          \E a, b \in DOMAIN gs : a # b /\ with[j] = gs[a] /\ with[k] = gs[b]
  <2> HIDE DEF S, gs
  <2> QED  BY <1>2, OnlyFacts
<1>4. \A g : g \in S <=> g \in ToSet(gs) /\ x \in ToSet(g.ids)
  <2>1. ASSUME NEW g \in ToSet(gs)  PROVE  Contains(g.ids, x) <=> x \in ToSet(g.ids)
    <3>1. g \in Pane  BY <1>2 DEF ToSet
    <3>2. g.ids \in Seq(Ids)  BY <3>1 DEF Pane
    <3>3. DOMAIN g.ids = 1 .. Len(g.ids)  BY <3>2
    <3> QED  BY <3>3 DEF Contains, ToSet
  <2> QED  BY <2>1
<1> HIDE DEF S, with, ps
<1>5. \A k \in DOMAIN with : with[k].id \in PaneIds
  <2>1. \A k \in DOMAIN with : with[k] \in Pane  BY <1>3
  <2> QED  BY <2>1 DEF Pane
<1>6. DOMAIN with = 1 .. Len(with) /\ Len(with) \in Nat  BY <1>3
<1>7. ps \in Seq(PaneIds) /\ DOMAIN ps = DOMAIN with
  <2>1. ps \in [1 .. Len(with) -> PaneIds]  BY <1>1, <1>5, <1>6
  <2> QED  BY <2>1, <1>6
<1>8. ASSUME NEW p, p \in ToSet(ps)  PROVE  InPane(lay, p, x)
  <2>1. PICK k \in DOMAIN with : p = with[k].id  BY <1>8, <1>1, <1>7 DEF ToSet
  <2>2. with[k] \in ToSet(gs) /\ x \in ToSet(with[k].ids)
    BY <1>3, <1>4 DEF ToSet
  <2>3. PICK j \in DOMAIN gs : with[k] = gs[j]  BY <2>2 DEF ToSet
  <2>4. HasPane(lay, p) /\ PaneAt(lay, p) = gs[j]  BY <2>1, <2>3, PaneAtPlace
  <2> QED  BY <2>2, <2>3, <2>4 DEF InPane
<1>9. ASSUME NEW p, InPane(lay, p, x)  PROVE  p \in ToSet(ps)
  <2>1. HasPane(lay, p) /\ x \in ToSet(PaneAt(lay, p).ids)  BY <1>9 DEF InPane
  <2>2. PaneAt(lay, p).id = p /\ \E k \in DOMAIN gs : PaneAt(lay, p) = gs[k]
    BY <2>1, PaneAtIs
  <2>3. PaneAt(lay, p) \in ToSet(with)  BY <2>1, <2>2, <1>3, <1>4 DEF ToSet
  <2>4. PICK k \in DOMAIN with : with[k] = PaneAt(lay, p)  BY <2>3 DEF ToSet
  <2> QED  BY <2>2, <2>4, <1>1, <1>7 DEF ToSet
<1>11. IsInjective(ps)
  BY <1>1, <1>7, <1>10 DEF IsInjective, LooseLay, GoodGroups
<1> QED  BY <1>7, <1>8, <1>9, <1>11 DEF ps

(* One pane in the place of another.                                       *)
PutPane(lay, p, g) ==
  [lay EXCEPT !.groups = [k \in DOMAIN @ |-> IF @[k].id = p THEN g ELSE @[k]]]

LEMMA PutPaneIs ==
  ASSUME NEW lay, LooseLay(lay), NEW p, HasPane(lay, p), NEW g, GoodPane(g),
         g.id = p \/ ~HasPane(lay, g.id)
  PROVE  LET u == PutPane(lay, p, g)
         IN /\ LooseLay(u) /\ u.front = lay.front /\ u.recent = lay.recent
            /\ \A r : HasPane(u, r) <=> r = g.id \/ (HasPane(lay, r) /\ r # p)
            /\ PaneAt(u, g.id) = g
            /\ \A r : HasPane(lay, r) /\ r # p => PaneAt(u, r) = PaneAt(lay, r)
<1> DEFINE gs == lay.groups
           hs == [k \in DOMAIN gs |-> IF gs[k].id = p THEN g ELSE gs[k]]
           u  == PutPane(lay, p, g)
<1>1. u = [lay EXCEPT !.groups = hs]  BY DEF PutPane
<1>2. IsLay(lay)  BY DEF LooseLay
<1> HIDE DEF hs, u
<1>3. IsLay(u) /\ u.groups = hs /\ u.front = lay.front /\ u.recent = lay.recent
  BY ONLY <1>1, <1>2 DEF IsLay
<1>4. gs \in Seq(Pane) /\ gs # <<>>  BY DEF LooseLay, GoodGroups
<1>5. DOMAIN gs = 1 .. Len(gs) /\ Len(gs) \in Nat  BY <1>4
<1>6. \A k \in DOMAIN gs : hs[k] = IF gs[k].id = p THEN g ELSE gs[k]  BY DEF hs
<1>7. hs \in Seq(Pane) /\ DOMAIN hs = DOMAIN gs /\ hs # <<>>
  <2>1. \A k \in DOMAIN gs : hs[k] \in Pane  BY <1>4, <1>6 DEF GoodPane
  <2>2. hs \in [1 .. Len(gs) -> Pane]  BY <2>1, <1>5 DEF hs
  <2> QED  BY <2>2, <1>4, <1>5
<1>8. \A k \in DOMAIN hs : GoodPane(hs[k])
  BY <1>6, <1>7 DEF LooseLay, GoodGroups
<1>9. PICK i \in DOMAIN gs : gs[i].id = p  BY DEF HasPane
<1>10. \A j \in DOMAIN gs : gs[j].id = p => j = i
  BY <1>9 DEF LooseLay, GoodGroups
<1>11. \A j \in DOMAIN gs : j # i => hs[j] = gs[j] /\ gs[j].id # p /\ gs[j].id # g.id
  BY <1>6, <1>10 DEF HasPane
<1>12. hs[i] = g  BY <1>6, <1>9
<1>13. \A j, k \in DOMAIN hs : hs[j].id = hs[k].id => j = k
  BY <1>7, <1>11, <1>12 DEF LooseLay, GoodGroups
<1>14. LooseLay(u)
  BY <1>3, <1>7, <1>8, <1>13 DEF LooseLay, GoodGroups
<1>15. ASSUME NEW r
       PROVE  HasPane(u, r) <=> r = g.id \/ (HasPane(lay, r) /\ r # p)
  <2>1. HasPane(u, r) <=> \E k \in DOMAIN hs : hs[k].id = r  BY <1>3 DEF HasPane
  <2>2. HasPane(lay, r) <=> \E k \in DOMAIN gs : gs[k].id = r  BY DEF HasPane
  <2> QED  BY <2>1, <2>2, <1>7, <1>9, <1>10, <1>11, <1>12
<1>16. PaneAt(u, g.id) = g
  BY <1>3, <1>7, <1>9, <1>12, <1>14, PaneAtUnique
<1>17. ASSUME NEW r, HasPane(lay, r), r # p  PROVE  PaneAt(u, r) = PaneAt(lay, r)
  <2>1. PICK k \in DOMAIN gs : gs[k].id = r  BY <1>17 DEF HasPane
  <2>2. PaneAt(lay, r) = gs[k]  BY <2>1, PaneAtUnique
  <2>3. hs[k] = gs[k]  BY <2>1, <1>9, <1>11, <1>17
  <2>4. PaneAt(u, r) = hs[k]  BY <2>1, <2>3, <1>3, <1>7, <1>14, PaneAtUnique
  <2> QED  BY <2>2, <2>3, <2>4
<1> QED  BY <1>3, <1>14, <1>15, <1>16, <1>17 DEF u

LEMMA PutPaneShows ==
  ASSUME NEW lay, LooseLay(lay), NEW p, HasPane(lay, p), NEW g, GoodPane(g),
         g.id = p \/ ~HasPane(lay, g.id)
  PROVE  \A r, x : InPane(PutPane(lay, p, g), r, x)
                     <=> \/ r = g.id /\ x \in ToSet(g.ids)
                         \/ r # p /\ InPane(lay, r, x)
<1> DEFINE u == PutPane(lay, p, g)
<1>1. /\ \A r : HasPane(u, r) <=> r = g.id \/ (HasPane(lay, r) /\ r # p)
      /\ PaneAt(u, g.id) = g
      /\ \A r : HasPane(lay, r) /\ r # p => PaneAt(u, r) = PaneAt(lay, r)
  BY PutPaneIs
<1> HIDE DEF u
<1>2. \A r : r = g.id => r = p \/ ~HasPane(lay, r)  OBVIOUS
<1> QED  BY <1>1, <1>2 DEF InPane, u

(* Leaving out one pane of several.                                        *)
DropPane(lay, p) == [lay EXCEPT !.groups = Where(@, LAMBDA g : g.id # p)]

LEMMA DropPaneIs ==
  ASSUME NEW lay, LooseLay(lay), NEW p, NEW q, HasPane(lay, q), q # p
  PROVE  LET u == DropPane(lay, p)
         IN /\ LooseLay(u) /\ u.front = lay.front /\ u.recent = lay.recent
            /\ \A r : HasPane(u, r) <=> HasPane(lay, r) /\ r # p
            /\ \A r : HasPane(u, r) => PaneAt(u, r) = PaneAt(lay, r)
<1> DEFINE gs == lay.groups
           S  == {g \in ToSet(gs) : g.id # p}
           hs == Only(gs, S)
           u  == DropPane(lay, p)
<1>1. u = [lay EXCEPT !.groups = hs]  BY DEF DropPane, Where
<1>2. IsLay(lay)  BY DEF LooseLay
<1>3. gs \in Seq(Pane) /\ gs # <<>>  BY DEF LooseLay, GoodGroups
<1>4. /\ hs \in Seq(Pane) /\ ToSet(hs) = ToSet(gs) \cap S
      /\ \A j, k \in DOMAIN hs : j # k =>
           \E a, b \in DOMAIN gs : a # b /\ hs[j] = gs[a] /\ hs[k] = gs[b]
  <2> HIDE DEF S, gs
  <2>1. hs \in Seq(Pane) /\ ToSet(hs) = ToSet(gs) \cap S
    BY <1>3, OnlyFacts
  <2>2. \A j, k \in DOMAIN hs : j # k =>
           \E a, b \in DOMAIN gs : a # b /\ hs[j] = gs[a] /\ hs[k] = gs[b]
    BY <1>3, OnlyFacts
  <2> QED  BY <2>1, <2>2
<1>5. \A g : g \in ToSet(hs) <=> g \in ToSet(gs) /\ g.id # p
  <2>1. \A g : g \in S <=> g \in ToSet(gs) /\ g.id # p  OBVIOUS
  <2> HIDE DEF S, hs
  <2> QED  BY <1>4, <2>1
<1> HIDE DEF S, hs, u
<1>6. IsLay(u) /\ u.groups = hs /\ u.front = lay.front /\ u.recent = lay.recent
  BY ONLY <1>1, <1>2 DEF IsLay
<1>7. \A k \in DOMAIN hs : \E j \in DOMAIN gs : hs[k] = gs[j] /\ gs[j].id # p
  BY <1>5 DEF ToSet
<1>8. \A j \in DOMAIN gs : gs[j].id # p => \E k \in DOMAIN hs : hs[k] = gs[j]
  BY <1>5 DEF ToSet
<1>9. \A k \in DOMAIN hs : GoodPane(hs[k])  BY <1>7 DEF LooseLay, GoodGroups
<1>10. \A j, k \in DOMAIN hs : hs[j].id = hs[k].id => j = k
  BY <1>4 DEF LooseLay, GoodGroups
<1>11. \A r : HasPane(u, r) <=> HasPane(lay, r) /\ r # p
  BY <1>6, <1>7, <1>8 DEF HasPane
<1>12. hs # <<>>
  <2>1. HasPane(u, q)  BY <1>11
  <2>2. \E k \in DOMAIN hs : TRUE  BY <2>1, <1>6 DEF HasPane
  <2> QED  BY <2>2, <1>4
<1>13. LooseLay(u)
  BY <1>4, <1>6, <1>9, <1>10, <1>12 DEF LooseLay, GoodGroups
<1>14. ASSUME NEW r, HasPane(u, r)  PROVE  PaneAt(u, r) = PaneAt(lay, r)
  <2>1. PICK k \in DOMAIN hs : hs[k].id = r  BY <1>6, <1>14 DEF HasPane
  <2>2. PICK j \in DOMAIN gs : hs[k] = gs[j]  BY <1>7, <2>1
  <2>3. PaneAt(u, r) = hs[k]  BY <2>1, <1>6, <1>13, PaneAtUnique
  <2>4. PaneAt(lay, r) = gs[j]  BY <2>1, <2>2, PaneAtUnique
  <2> QED  BY <2>2, <2>3, <2>4
<1> QED  BY <1>6, <1>11, <1>13, <1>14 DEF u

(* setMostRecentActivePane and setActivePane change no pane.               *)
LEMMA MarkRecentIs ==
  ASSUME NEW lay, LooseLay(lay), NEW p, HasPane(lay, p)
  PROVE  LET u == MarkRecent(lay, p)
         IN /\ LooseLay(u) /\ u.front = lay.front /\ SamePanes(lay, u)
            /\ u.recent # <<>> /\ Head(u.recent) = p
            /\ u.groups = lay.groups
<1> DEFINE S == {q \in ToSet(lay.recent) : q # p /\ HasPane(lay, q)}
           R == {q \in ToSet(AllPanes(lay)) : q # p /\ q \notin ToSet(lay.recent)}
           a == <<p>>
           b == Only(lay.recent, S)
           c == Only(AllPanes(lay), R)
           d == a \o b
           e == d \o c
           u == MarkRecent(lay, p)
<1>1. u = [lay EXCEPT !.recent = e]  BY DEF MarkRecent, Where
<1>2. IsLay(lay) /\ lay.recent \in Seq(PaneIds)  BY DEF LooseLay
<1>3. p \in PaneIds  BY PaneAtIs
<1>4. a \in Seq(PaneIds) /\ a # <<>> /\ Head(a) = p  BY <1>3
<1>5. b \in Seq(PaneIds)  BY <1>2, OnlyFacts
<1>6. c \in Seq(PaneIds)  BY AllPanesIs, OnlyFacts
<1> HIDE DEF S, R, a, b, c, u
<1>7. d \in Seq(PaneIds) /\ d # <<>> /\ Head(d) = p  BY <1>4, <1>5
<1> HIDE DEF d
<1>8. e \in Seq(PaneIds) /\ e # <<>> /\ Head(e) = p  BY <1>6, <1>7
<1> HIDE DEF e
<1>9. IsLay(u) /\ u.groups = lay.groups /\ u.front = lay.front /\ u.recent = e
  BY ONLY <1>1, <1>2 DEF IsLay
<1>10. LooseLay(u)  BY <1>8, <1>9 DEF LooseLay
<1>11. SamePanes(lay, u)  BY <1>9, SameGroups
<1> QED  BY <1>8, <1>9, <1>10, <1>11 DEF u

LEMMA BringIs ==
  ASSUME NEW lay, LooseLay(lay), NEW p, HasPane(lay, p)
  PROVE  LET u == Bring(lay, p)
         IN GoodLay(u) /\ u.front = p /\ SamePanes(lay, u)
<1> DEFINE v == [lay EXCEPT !.front = p]
           u == Bring(lay, p)
<1>1. u = MarkRecent(v, p)  BY DEF Bring
<1>2. IsLay(lay) /\ p \in PaneIds  BY PaneAtIs DEF LooseLay
<1>3. v = [lay EXCEPT !.front = p]  OBVIOUS
<1> HIDE DEF v, u
<1>4. IsLay(v) /\ v.groups = lay.groups /\ v.front = p /\ v.recent = lay.recent
  BY ONLY <1>2, <1>3 DEF IsLay
<1>5. LooseLay(v) /\ SamePanes(lay, v)  BY <1>2, <1>4, SameGroups DEF LooseLay
<1>6. HasPane(v, p)  BY <1>5 DEF SamePanes
<1>7. /\ LooseLay(u) /\ u.front = p /\ SamePanes(v, u)
      /\ u.recent # <<>> /\ Head(u.recent) = p
  BY <1>1, <1>4, <1>5, <1>6, MarkRecentIs
<1>8. SamePanes(lay, u)  BY <1>5, <1>7 DEF SamePanes
<1>9. GoodLay(u)  BY <1>7, <1>8 DEF GoodLay, SamePanes
<1> QED  BY <1>7, <1>8, <1>9 DEF u

(* ensureBufferInPane                                                      *)
LEMMA ShowInIs ==
  ASSUME NEW lay, LooseLay(lay), NEW p, HasPane(lay, p), NEW id \in Ids
  PROVE  LET u == ShowIn(lay, p, id)
         IN /\ GoodLay(u) /\ u.front = p /\ PaneAt(u, p).active = id
            /\ \A r : HasPane(u, r) <=> HasPane(lay, r)
            /\ \A r, x : InPane(u, r, x) <=> InPane(lay, r, x) \/ (r = p /\ x = id)
<1> DEFINE g == GroupShow(PaneAt(lay, p), id)
           v == PutPane(lay, p, g)
           u == ShowIn(lay, p, id)
<1>1. GoodPane(PaneAt(lay, p)) /\ PaneAt(lay, p).id = p  BY PaneAtIs
<1>2. /\ GoodPane(g) /\ g.id = p /\ g.active = id
      /\ ToSet(g.ids) = ToSet(PaneAt(lay, p).ids) \cup {id}
  BY <1>1, GoodIsRaw, GroupShowGood
<1>3. \A k \in DOMAIN lay.groups : lay.groups[k].id = p => lay.groups[k] = PaneAt(lay, p)
  BY PaneAtUnique
<1>4. OnPane(lay, p, LAMBDA h : GroupShow(h, id)) = v
  BY <1>3 DEF OnPane, PutPane
<1>5. u = Bring(v, p)  BY <1>4 DEF ShowIn
<1> HIDE DEF g
<1>6. /\ LooseLay(v) /\ PaneAt(v, p) = g
      /\ \A r : HasPane(v, r) <=> r = p \/ (HasPane(lay, r) /\ r # p)
  BY <1>2, PutPaneIs
<1>7. \A r, x : InPane(v, r, x) <=> \/ r = p /\ x \in ToSet(g.ids)
                                    \/ r # p /\ InPane(lay, r, x)
  BY <1>2, PutPaneShows
<1> HIDE DEF u, v
<1>8. GoodLay(u) /\ u.front = p /\ SamePanes(v, u)
  BY <1>5, <1>6, BringIs
<1>9. \A r : HasPane(u, r) <=> HasPane(lay, r)  BY <1>6, <1>8 DEF SamePanes
<1>10. PaneAt(u, p).active = id  BY <1>2, <1>6, <1>8 DEF SamePanes
<1>11. \A r, x : InPane(u, r, x) <=> InPane(v, r, x)  BY <1>8, SamePanesIn
<1>12. \A x : InPane(lay, p, x) <=> x \in ToSet(PaneAt(lay, p).ids)  BY DEF InPane
<1> QED  BY <1>2, <1>7, <1>8, <1>9, <1>10, <1>11, <1>12 DEF u

(* There is another editor pane unless this is the only one.               *)
LEMMA OtherPane ==
  ASSUME NEW lay, LooseLay(lay), NEW p, HasPane(lay, p), p # Bottom,
         EditorPanes(lay) # <<p>>
  PROVE  \E q : HasPane(lay, q) /\ q # p /\ q # Bottom
<1> DEFINE s == EditorPanes(lay)
<1>1. /\ s \in Seq(PaneIds) /\ IsInjective(s)
      /\ \A q : q \in ToSet(s) <=> HasPane(lay, q) /\ q # Bottom
  BY EditorPanesIs
<1> HIDE DEF s
<1>2. PICK k \in DOMAIN s : s[k] = p  BY <1>1 DEF ToSet
<1>3. s # <<p>>  BY DEF s
<1>4. \E j \in DOMAIN s : j # k
  <2> SUFFICES ASSUME \A j \in DOMAIN s : j = k  PROVE FALSE
    OBVIOUS
  <2>1. DOMAIN s = 1 .. Len(s) /\ Len(s) \in Nat  BY <1>1
  <2>2. Len(s) >= 1  BY <2>1, <1>2
  <2>3. 1 \in DOMAIN s /\ Len(s) \in DOMAIN s  BY <2>1, <2>2
  <2>4. Len(s) = 1 /\ s[1] = p  BY <2>3, <1>2
  <2>5. s = <<p>>  BY <2>4, <1>1
  <2> QED  BY <2>5, <1>3
<1>5. PICK j \in DOMAIN s : j # k  BY <1>4
<1>6. s[j] # p /\ s[j] \in ToSet(s)  BY <1>1, <1>2, <1>5 DEF IsInjective, ToSet
<1> QED  BY <1>1, <1>6

(* collapseEmptyPaneInTree takes out only an empty pane.                   *)
LEMMA CollapseIs ==
  ASSUME NEW lay, LooseLay(lay), NEW p, HasPane(lay, p), NEW keepEmpty
  PROVE  LET u == Collapse(lay, p, keepEmpty)
         IN /\ LooseLay(u) /\ u.front = lay.front /\ u.recent = lay.recent
            /\ \A r, x : InPane(u, r, x) <=> InPane(lay, r, x)
            /\ \A r : HasPane(lay, r) /\ (r # p \/ PaneAt(lay, p).ids # <<>>)
                        => HasPane(u, r) /\ PaneAt(u, r) = PaneAt(lay, r)
<1> DEFINE u == Collapse(lay, p, keepEmpty)
           stays == keepEmpty \/ p = Bottom \/ PaneAt(lay, p).ids # <<>>
<1>1. CASE stays
  <2>1. u = lay  BY <1>1 DEF Collapse
  <2> HIDE DEF u
  <2> QED  BY <2>1 DEF u
<1>2. CASE ~stays
  <2>1. PaneAt(lay, p).ids = <<>> /\ p # Bottom  BY <1>2
  <2>2. ToSet(PaneAt(lay, p).ids) = {}  BY <2>1, EmptyFacts
  <2>3. \A x : ~InPane(lay, p, x)  BY <2>2 DEF InPane
  <2>4. CASE EditorPanes(lay) = <<p>>
    <3> DEFINE g == EmptyPane(Root)
    <3>1. u = PutPane(lay, p, g)
      BY <1>2, <2>4 DEF Collapse, OnPane, PutPane
    <3>2. GoodPane(g) /\ g.id = Root /\ ToSet(g.ids) = {}
      BY EmptyPaneGood, EmptyFacts, PanesAssumption DEF PaneIds, Root
    <3>3. p = Root \/ ~HasPane(lay, Root)
      <4>1. ToSet(<<p>>) = {p}  BY SingletonFacts
      <4>2. HasPane(lay, Root) /\ Root # Bottom => Root \in {p}
        BY <4>1, <2>4, EditorPanesIs
      <4> QED  BY <4>2 DEF Root, Bottom
    <3> HIDE DEF g, u
    <3>4. /\ LooseLay(u) /\ u.front = lay.front /\ u.recent = lay.recent
          /\ \A r : HasPane(u, r) <=> r = Root \/ (HasPane(lay, r) /\ r # p)
          /\ \A r : HasPane(lay, r) /\ r # p => PaneAt(u, r) = PaneAt(lay, r)
      BY <3>1, <3>2, <3>3, PutPaneIs
    <3>5. \A r, x : InPane(u, r, x) <=> r # p /\ InPane(lay, r, x)
      BY <3>1, <3>2, <3>3, PutPaneShows
    <3>6. \A r, x : InPane(u, r, x) <=> InPane(lay, r, x)  BY <3>5, <2>3
    <3> QED  BY <3>4, <3>6, <2>1 DEF u
  <2>5. CASE EditorPanes(lay) # <<p>>
    <3>1. u = DropPane(lay, p)  BY <1>2, <2>5 DEF Collapse, DropPane
    <3>2. PICK q : HasPane(lay, q) /\ q # p  BY <2>1, <2>5, OtherPane
    <3> HIDE DEF u
    <3>3. /\ LooseLay(u) /\ u.front = lay.front /\ u.recent = lay.recent
          /\ \A r : HasPane(u, r) <=> HasPane(lay, r) /\ r # p
          /\ \A r : HasPane(u, r) => PaneAt(u, r) = PaneAt(lay, r)
      BY <3>1, <3>2, DropPaneIs
    <3>4. \A r, x : InPane(u, r, x) <=> InPane(lay, r, x)
      BY <3>3, <2>3 DEF InPane
    <3> QED  BY <3>3, <3>4, <2>1 DEF u
  <2> QED  BY <2>4, <2>5
<1> QED  BY <1>1, <1>2

(* getFallbackActivePaneId                                                 *)
LEMMA KeepFrontIs ==
  ASSUME NEW lay, LooseLay(lay)
  PROVE  LET u == KeepFront(lay)
         IN /\ GoodLay(u) /\ SamePanes(lay, u)
            /\ HasPane(lay, lay.front) => u.front = lay.front
<1> DEFINE all == lay.recent \o AllPanes(lay)
           S == {q \in ToSet(all) : HasPane(lay, q)}
           left == Only(all, S)
           next == Head(left)
           front == IF HasPane(lay, lay.front) THEN lay.front ELSE next
           v == [lay EXCEPT !.front = front]
           u == KeepFront(lay)
<1>1. u = MarkRecent(v, front)  BY DEF KeepFront, Where
<1>2. IsLay(lay) /\ lay.recent \in Seq(PaneIds) /\ lay.front \in PaneIds
  BY DEF LooseLay
<1>3. /\ AllPanes(lay) \in Seq(PaneIds) /\ AllPanes(lay) # <<>>
      /\ \A p : p \in ToSet(AllPanes(lay)) <=> HasPane(lay, p)
  BY AllPanesIs
<1>4. all \in Seq(PaneIds) /\ ToSet(all) = ToSet(lay.recent) \cup ToSet(AllPanes(lay))
  BY <1>2, <1>3, ConcatFacts
<1>5. \A q : q \in S <=> q \in ToSet(all) /\ HasPane(lay, q)  OBVIOUS
<1> HIDE DEF all, S
<1>6. HasPane(lay, next)
  <2>1. left \in Seq(PaneIds) /\ ToSet(left) = ToSet(all) \cap S
    BY <1>4, OnlyFacts
  <2>2. HeadOr(AllPanes(lay)) \in ToSet(AllPanes(lay))  BY <1>3, HeadOrIs
  <2>3. ToSet(left) # {}  BY <2>1, <2>2, <1>3, <1>4, <1>5
  <2>4. left # <<>>  BY <2>3, EmptyFacts
  <2>5. Head(left) \in S  BY <2>4, <1>4, HeadOfOnly
  <2> QED  BY <2>5, <1>5
<1> HIDE DEF next, left
<1>7. HasPane(lay, front) /\ front \in PaneIds  BY <1>6, PaneAtIs
<1>8. v = [lay EXCEPT !.front = front]  OBVIOUS
<1>9. HasPane(lay, lay.front) => front = lay.front  OBVIOUS
<1> HIDE DEF front, u, v
<1>10. IsLay(v) /\ v.groups = lay.groups /\ v.front = front /\ v.recent = lay.recent
  BY ONLY <1>2, <1>8 DEF IsLay
<1>11. LooseLay(v) /\ SamePanes(lay, v)  BY <1>7, <1>10, SameGroups DEF LooseLay
<1>12. HasPane(v, front)  BY <1>7, <1>11 DEF SamePanes
<1>13. /\ LooseLay(u) /\ u.front = front /\ SamePanes(v, u)
       /\ u.recent # <<>> /\ Head(u.recent) = front
  BY <1>1, <1>10, <1>11, <1>12, MarkRecentIs
<1>14. SamePanes(lay, u)  BY <1>11, <1>13 DEF SamePanes
<1>15. GoodLay(u)  BY <1>7, <1>13, <1>14 DEF GoodLay, SamePanes
<1> QED  BY <1>9, <1>13, <1>14, <1>15 DEF u

(* removeBufferFromPane                                                    *)
LEMMA RemoveFromIs ==
  ASSUME NEW lay, LooseLay(lay), NEW p, HasPane(lay, p), NEW id, NEW keepEmpty
  PROVE  LET u == RemoveFrom(lay, p, id, keepEmpty)
         IN /\ GoodLay(u)
            /\ \A r, x : InPane(u, r, x) <=> InPane(lay, r, x) /\ ~(r = p /\ x = id)
            /\ \A r : HasPane(lay, r) /\ r # p => HasPane(u, r)
<1> DEFINE g == GroupRemove(PaneAt(lay, p), id)
           v == PutPane(lay, p, g)
           w == Collapse(v, p, keepEmpty)
           u == RemoveFrom(lay, p, id, keepEmpty)
<1>1. GoodPane(PaneAt(lay, p)) /\ PaneAt(lay, p).id = p  BY PaneAtIs
<1>2. /\ GoodPane(g) /\ g.id = p
      /\ ToSet(g.ids) = ToSet(PaneAt(lay, p).ids) \ {id}
  BY <1>1, GroupRemoveGood
<1>3. \A k \in DOMAIN lay.groups : lay.groups[k].id = p => lay.groups[k] = PaneAt(lay, p)
  BY PaneAtUnique
<1>4. OnPane(lay, p, LAMBDA h : GroupRemove(h, id)) = v
  BY <1>3 DEF OnPane, PutPane
<1>5. u = KeepFront(w)  BY <1>4 DEF RemoveFrom
<1> HIDE DEF g
<1>6. LooseLay(v) /\ \A r : HasPane(v, r) <=> r = p \/ (HasPane(lay, r) /\ r # p)
  BY <1>2, PutPaneIs
<1>7. \A r, x : InPane(v, r, x) <=> \/ r = p /\ x \in ToSet(g.ids)
                                    \/ r # p /\ InPane(lay, r, x)
  BY <1>2, PutPaneShows
<1> HIDE DEF u, v, w
<1>8. /\ LooseLay(w)
      /\ \A r, x : InPane(w, r, x) <=> InPane(v, r, x)
      /\ \A r : HasPane(v, r) /\ r # p => HasPane(w, r)
  <2>1. HasPane(v, p)  BY <1>6
  <2> QED  BY <1>6, <2>1, CollapseIs DEF w
<1>9. GoodLay(u) /\ SamePanes(w, u)  BY <1>5, <1>8, KeepFrontIs
<1>10. \A r, x : InPane(u, r, x) <=> InPane(w, r, x)  BY <1>9, SamePanesIn
<1>11. \A x : InPane(lay, p, x) <=> x \in ToSet(PaneAt(lay, p).ids)  BY DEF InPane
<1>12. \A r : HasPane(lay, r) /\ r # p => HasPane(u, r)
  BY <1>6, <1>8, <1>9 DEF SamePanes
<1>13. \A r, x : InPane(u, r, x) <=> InPane(lay, r, x) /\ ~(r = p /\ x = id)
  BY <1>2, <1>7, <1>8, <1>10, <1>11
<1> QED  BY <1>9, <1>12, <1>13 DEF u

(* removeBufferFromPanes                                                   *)
LEMMA RemoveEverywhereIs ==
  ASSUME NEW lay, GoodLay(lay), NEW id, NEW keepEmpty
  PROVE  LET u == RemoveEverywhere(lay, id, keepEmpty)
         IN /\ GoodLay(u)
            /\ \A r, x : InPane(u, r, x) <=> InPane(lay, r, x) /\ x # id
<1> DEFINE ps == PanesWith(lay, id)
           c == [lay |-> lay, id |-> id, keepEmpty |-> keepEmpty, ps |-> ps]
           u == RemoveEverywhere(lay, id, keepEmpty)
<1>1. /\ ps \in Seq(PaneIds) /\ IsInjective(ps)
      /\ \A p : p \in ToSet(ps) <=> InPane(lay, p, id)
  BY PanesWithIs DEF GoodLay
<1> HIDE DEF ps
<1>2. c.lay = lay /\ c.id = id /\ c.keepEmpty = keepEmpty /\ c.ps = ps  OBVIOUS
<1>3. u = CR!After(lay, ps, c)
  <2>1. u = FoldLeft(LAMBDA l, p : RemoveFrom(l, p, c.id, c.keepEmpty), lay, ps)
    BY DEF RemoveEverywhere, ps
  <2> QED
    BY <2>1 DEF CR!After, RemoveStep, FoldLeft, MapThenFoldSet, Max,
                CR!Last
<1> HIDE DEF c, u
<1>4. DOMAIN ps = 1 .. Len(ps) /\ Len(ps) \in Nat  BY <1>1
<1>5. RemoveHolds(lay, 0, c)
  <2>1. \A i \in DOMAIN ps : HasPane(lay, ps[i])  BY <1>1 DEF ToSet, InPane
  <2>2. 1 .. 0 = {}  OBVIOUS
  <2> QED  BY <2>1, <2>2, <1>2 DEF RemoveHolds
<1>6. ASSUME NEW x, NEW k \in DOMAIN ps, RemoveHolds(x, k - 1, c)
      PROVE  RemoveHolds(RemoveStep(x, ps[k], c), k, c)
  <2> DEFINE p == ps[k]
             y == RemoveFrom(x, p, id, keepEmpty)
  <2>1. /\ GoodLay(x)
        /\ \A r, z : InPane(x, r, z)
             <=> InPane(lay, r, z) /\ ~(z = id /\ \E i \in 1 .. k - 1 : ps[i] = r)
        /\ \A i \in DOMAIN ps : i > k - 1 => HasPane(x, ps[i])
    BY <1>2, <1>6 DEF RemoveHolds
  <2>2. k \in Nat /\ k >= 1 /\ k <= Len(ps)  BY <1>4
  <2>3. HasPane(x, p)  BY <2>1, <2>2
  <2>4. /\ GoodLay(y)
        /\ \A r, z : InPane(y, r, z) <=> InPane(x, r, z) /\ ~(r = p /\ z = id)
        /\ \A r : HasPane(x, r) /\ r # p => HasPane(y, r)
    BY <2>1, <2>3, RemoveFromIs DEF GoodLay
  <2> HIDE DEF y
  <2>5. ASSUME NEW r
        PROVE  (\E i \in 1 .. k : ps[i] = r) <=> (\E i \in 1 .. k - 1 : ps[i] = r) \/ r = p
    <3>1. \A i \in 1 .. k : i \in 1 .. k - 1 \/ i = k  BY <2>2
    <3>2. k \in 1 .. k /\ \A i \in 1 .. k - 1 : i \in 1 .. k  BY <2>2
    <3> QED  BY <3>1, <3>2
  <2>6. \A i \in DOMAIN ps : i > k => HasPane(y, ps[i])
    <3> SUFFICES ASSUME NEW i \in DOMAIN ps, i > k  PROVE  HasPane(y, ps[i])
      OBVIOUS
    <3>1. i > k - 1 /\ i # k  BY <1>4, <2>2
    <3>2. ps[i] # p  BY <3>1, <1>1 DEF IsInjective
    <3> QED  BY <3>1, <3>2, <2>1, <2>4
  <2>7. RemoveStep(x, ps[k], c) = y  BY <1>2 DEF RemoveStep, y
  <2> HIDE DEF p
  <2>8. \A r, z : InPane(y, r, z)
          <=> InPane(lay, r, z) /\ ~(z = id /\ \E i \in 1 .. k : ps[i] = r)
    BY <2>1, <2>4, <2>5
  <2>9. RemoveHolds(y, k, c)  BY <1>2, <2>4, <2>6, <2>8 DEF RemoveHolds
  <2> QED  BY <2>7, <2>9
<1>7. RemoveHolds(u, Len(ps), c)  BY <1>1, <1>3, <1>5, <1>6, Least, CR!Kept DEF CR!LeastNumber
<1>8. GoodLay(u) /\ \A r, z : InPane(u, r, z)
             <=> InPane(lay, r, z) /\ ~(z = id /\ \E i \in 1 .. Len(ps) : ps[i] = r)
  BY <1>2, <1>7 DEF RemoveHolds
<1>9. \A r : InPane(lay, r, id) <=> \E i \in 1 .. Len(ps) : ps[i] = r
  BY <1>1, <1>4 DEF ToSet
<1> QED  BY <1>8, <1>9 DEF u

(* What showing a buffer and bringing it to the front establishes: the     *)
(* buffer is shown as well as those that were, and is on top in front.     *)
Fronted(lay, u, id) ==
  /\ GoodLay(u)
  /\ \A r : HasPane(u, r) <=> HasPane(lay, r)
  /\ \A x : Shows(u, x) <=> Shows(lay, x) \/ x = id
  /\ InFront(u).active = id
  /\ InPane(u, u.front, id)

(* ensureBufferInPane establishes it.                                      *)
LEMMA ShowInFronts ==
  ASSUME NEW lay, LooseLay(lay), NEW p, HasPane(lay, p), NEW id \in Ids
  PROVE  Fronted(lay, ShowIn(lay, p, id), id)
<1> DEFINE u == ShowIn(lay, p, id)
<1>1. /\ GoodLay(u) /\ u.front = p /\ PaneAt(u, p).active = id
      /\ \A r : HasPane(u, r) <=> HasPane(lay, r)
      /\ \A r, x : InPane(u, r, x) <=> InPane(lay, r, x) \/ (r = p /\ x = id)
  BY ShowInIs
<1>2. p \in PaneIds  BY PaneAtIs
<1> HIDE DEF u
<1>3. \A x : Shows(u, x) <=> Shows(lay, x) \/ x = id  BY <1>1, <1>2 DEF Shows
<1>4. InPane(u, u.front, id)  BY <1>1
<1>5. InFront(u).active = id  BY <1>1 DEF InFront
<1> QED  BY <1>1, <1>3, <1>4, <1>5 DEF Fronted, u

(* syncBufferToPane and syncAndFocusBufferInPane                           *)
LEMMA ToFrontIs ==
  ASSUME NEW lay, GoodLay(lay), NEW id \in Ids
  PROVE  Fronted(lay, ToFront(lay, id), id)
<1>1. LooseLay(lay) /\ HasPane(lay, lay.front)  BY DEF GoodLay
<1> QED  BY <1>1, ShowInFronts DEF ToFront

LEMMA FocusIs ==
  ASSUME NEW lay, GoodLay(lay), NEW id \in Ids
  PROVE  Fronted(lay, Focus(lay, id), id)
<1> DEFINE a == PanesWith(lay, id)
           b == <<lay.front>>
           q == a \o b
           p == HeadOr(q)
<1>1. LooseLay(lay) /\ HasPane(lay, lay.front) /\ lay.front \in PaneIds
  BY DEF GoodLay, LooseLay
<1>2. a \in Seq(PaneIds) /\ \A r : r \in ToSet(a) <=> InPane(lay, r, id)
  BY <1>1, PanesWithIs
<1>3. b \in Seq(PaneIds) /\ ToSet(b) = {lay.front} /\ Len(b) = 1
  BY <1>1, SingletonFacts
<1>4. Focus(lay, id) = ShowIn(lay, p, id)  BY DEF Focus
<1> HIDE DEF a, b
<1>5. q \in Seq(PaneIds) /\ ToSet(q) = ToSet(a) \cup ToSet(b) /\ q # <<>>
  <2>1. q \in Seq(PaneIds) /\ ToSet(q) = ToSet(a) \cup ToSet(b)
    BY <1>2, <1>3, ConcatFacts
  <2> QED  BY <2>1, <1>3, EmptyFacts
<1> HIDE DEF q
<1>6. p \in ToSet(q)  BY <1>5, HeadOrIs
<1>7. HasPane(lay, p)  BY <1>1, <1>2, <1>3, <1>5, <1>6 DEF InPane
<1> QED  BY <1>1, <1>4, <1>7, ShowInFronts

(* The panes change in nothing but their previews.                         *)
SameShown(lay, u) ==
  /\ GoodLay(u) /\ u.front = lay.front
  /\ \A r : HasPane(u, r) <=> HasPane(lay, r)
  /\ \A r : HasPane(lay, r) => /\ PaneAt(u, r).ids = PaneAt(lay, r).ids
                               /\ PaneAt(u, r).active = PaneAt(lay, r).active

LEMMA SameShownShows ==
  ASSUME NEW lay, GoodLay(lay), NEW u, SameShown(lay, u)
  PROVE  /\ \A x : Shows(u, x) <=> Shows(lay, x)
         /\ InFront(u).active = InFront(lay).active
BY DEF SameShown, Shows, InPane, InFront, GoodLay

(* setPanePreviewBuffer and clearPreviewBufferEverywhere                   *)
LEMMA SetPreviewIs ==
  ASSUME NEW lay, GoodLay(lay), NEW id, InPane(lay, lay.front, id)
  PROVE  SameShown(lay, SetPreview(lay, lay.front, id))
<1> DEFINE p == lay.front
           g == [PaneAt(lay, p) EXCEPT !.preview = id]
           u == SetPreview(lay, p, id)
<1>1. LooseLay(lay) /\ HasPane(lay, p)  BY DEF GoodLay
<1>2. GoodPane(PaneAt(lay, p)) /\ PaneAt(lay, p).id = p  BY <1>1, PaneAtIs
<1>3. id \in ToSet(PaneAt(lay, p).ids)  BY DEF InPane
<1>4. /\ GoodPane(g) /\ g.id = p /\ g.ids = PaneAt(lay, p).ids
      /\ g.active = PaneAt(lay, p).active
  BY <1>2, <1>3, WithPreviewGood
<1>5. \A k \in DOMAIN lay.groups : lay.groups[k].id = p => lay.groups[k] = PaneAt(lay, p)
  BY <1>1, PaneAtUnique
<1>6. u = PutPane(lay, p, g)  BY <1>5 DEF SetPreview, OnPane, PutPane
<1> HIDE DEF g, u
<1>7. /\ LooseLay(u) /\ u.front = lay.front /\ u.recent = lay.recent
      /\ \A r : HasPane(u, r) <=> r = p \/ (HasPane(lay, r) /\ r # p)
      /\ PaneAt(u, p) = g
      /\ \A r : HasPane(lay, r) /\ r # p => PaneAt(u, r) = PaneAt(lay, r)
  BY <1>1, <1>4, <1>6, PutPaneIs
<1> QED  BY <1>1, <1>4, <1>7 DEF SameShown, GoodLay, u

LEMMA ClearPreviewIs ==
  ASSUME NEW lay, GoodLay(lay), NEW id
  PROVE  SameShown(lay, ClearPreview(lay, id))
<1> DEFINE gs == lay.groups
           Cleared(g) == [g EXCEPT !.preview = None]
           hs == [k \in DOMAIN gs |-> IF gs[k].preview = id THEN Cleared(gs[k]) ELSE gs[k]]
           u  == ClearPreview(lay, id)
<1>1. u = [lay EXCEPT !.groups = hs]  BY DEF ClearPreview
<1>2. IsLay(lay) /\ LooseLay(lay)  BY DEF LooseLay, GoodLay
<1>3. gs \in Seq(Pane) /\ gs # <<>>  BY <1>2 DEF LooseLay, GoodGroups
<1>4. DOMAIN gs = 1 .. Len(gs) /\ Len(gs) \in Nat  BY <1>3
<1>5. \A k \in DOMAIN gs : GoodPane(gs[k])  BY <1>2 DEF LooseLay, GoodGroups
<1>6. ASSUME NEW k \in DOMAIN gs
      PROVE  /\ GoodPane(hs[k]) /\ hs[k].id = gs[k].id
             /\ hs[k].ids = gs[k].ids /\ hs[k].active = gs[k].active
  <2>1. CASE gs[k].preview = id
    <3>1. hs[k] = [gs[k] EXCEPT !.preview = None]  BY <2>1
    <3>2. None \in ToSet(gs[k].ids) \cup {None}  OBVIOUS
    <3> HIDE DEF hs
    <3> QED  BY <3>1, <3>2, <1>5, WithPreviewGood
  <2>2. CASE gs[k].preview # id
    <3>1. hs[k] = gs[k]  BY <2>2
    <3> HIDE DEF hs
    <3> QED  BY <3>1, <1>5
  <2> QED  BY <2>1, <2>2
<1>7. DOMAIN hs = DOMAIN gs  OBVIOUS
<1>13. hs = [k \in DOMAIN gs |-> hs[k]]  OBVIOUS
<1> HIDE DEF hs, u
<1>8. IsLay(u) /\ u.groups = hs /\ u.front = lay.front /\ u.recent = lay.recent
  BY ONLY <1>1, <1>2 DEF IsLay
<1>9. hs \in Seq(Pane) /\ hs # <<>>
  <2>1. \A k \in DOMAIN gs : hs[k] \in Pane  BY <1>6 DEF GoodPane
  <2>2. hs \in [1 .. Len(gs) -> Pane]  BY <2>1, <1>4, <1>13
  <2> QED  BY <2>2, <1>3, <1>4, <1>7
<1>10. LooseLay(u)
  BY <1>2, <1>6, <1>7, <1>8, <1>9 DEF LooseLay, GoodGroups
<1>11. \A r : HasPane(u, r) <=> HasPane(lay, r)
  BY <1>6, <1>7, <1>8 DEF HasPane
<1>12. ASSUME NEW r, HasPane(lay, r)
       PROVE  /\ PaneAt(u, r).ids = PaneAt(lay, r).ids
              /\ PaneAt(u, r).active = PaneAt(lay, r).active
  <2>1. PICK k \in DOMAIN gs : gs[k].id = r  BY <1>12 DEF HasPane
  <2>2. PaneAt(lay, r) = gs[k]  BY <2>1, <1>2, PaneAtUnique
  <2>3. PaneAt(u, r) = hs[k]
    BY <2>1, <1>6, <1>7, <1>8, <1>10, PaneAtUnique
  <2> QED  BY <2>1, <2>2, <2>3, <1>6
<1> QED  BY <1>8, <1>10, <1>11, <1>12 DEF SameShown, GoodLay, u

(* moveBufferToPane                                                        *)
LEMMA MoveToIs ==
  ASSUME NEW lay, LooseLay(lay), NEW from, HasPane(lay, from), NEW to, HasPane(lay, to),
         NEW id \in Ids, NEW keepEmpty
  PROVE  LET u == MoveTo(lay, id, from, to, keepEmpty)
         IN /\ GoodLay(u) /\ u.front = to /\ HasPane(u, to) /\ InFront(u).active = id
            /\ \A r, x : InPane(u, r, x)
                 <=> (InPane(lay, r, x) /\ ~(r = from /\ x = id)) \/ (r = to /\ x = id)
<1> DEFINE g == GroupRemove(PaneAt(lay, from), id)
           v == PutPane(lay, from, g)
           h == GroupShow(PaneAt(v, to), id)
           w == PutPane(v, to, h)
           z == Collapse(w, from, keepEmpty)
           u == MoveTo(lay, id, from, to, keepEmpty)
<1>1. GoodPane(PaneAt(lay, from)) /\ PaneAt(lay, from).id = from  BY PaneAtIs
<1>2. /\ GoodPane(g) /\ g.id = from
      /\ ToSet(g.ids) = ToSet(PaneAt(lay, from).ids) \ {id}
  BY <1>1, GroupRemoveGood
<1>3. \A k \in DOMAIN lay.groups :
        lay.groups[k].id = from => lay.groups[k] = PaneAt(lay, from)
  BY PaneAtUnique
<1>4. OnPane(lay, from, LAMBDA y : GroupRemove(y, id)) = v
  BY <1>3 DEF OnPane, PutPane
<1> HIDE DEF g
<1>5. LooseLay(v) /\ \A r : HasPane(v, r) <=> r = from \/ (HasPane(lay, r) /\ r # from)
  BY <1>2, PutPaneIs
<1>6. \A r, x : InPane(v, r, x) <=> \/ r = from /\ x \in ToSet(g.ids)
                                    \/ r # from /\ InPane(lay, r, x)
  BY <1>2, PutPaneShows
<1>7. OnPane(v, to, LAMBDA y : GroupShow(y, id)) = w
  <2> HIDE DEF v
  <2>1. \A k \in DOMAIN v.groups : v.groups[k].id = to => v.groups[k] = PaneAt(v, to)
    BY <1>5, PaneAtUnique
  <2> QED  BY <2>1 DEF OnPane, PutPane
<1>8. u = Bring(z, to)  BY <1>4, <1>7 DEF MoveTo
<1> HIDE DEF v
<1>9. HasPane(v, to)  BY <1>5
<1>10. GoodPane(PaneAt(v, to)) /\ PaneAt(v, to).id = to  BY <1>5, <1>9, PaneAtIs
<1>11. /\ GoodPane(h) /\ h.id = to /\ h.active = id
       /\ ToSet(h.ids) = ToSet(PaneAt(v, to).ids) \cup {id}
  BY <1>10, GoodIsRaw, GroupShowGood
<1> HIDE DEF h
<1>12. /\ LooseLay(w) /\ PaneAt(w, to) = h
       /\ \A r : HasPane(w, r) <=> r = to \/ (HasPane(v, r) /\ r # to)
  BY <1>5, <1>9, <1>11, PutPaneIs
<1>13. \A r, x : InPane(w, r, x) <=> \/ r = to /\ x \in ToSet(h.ids)
                                     \/ r # to /\ InPane(v, r, x)
  BY <1>5, <1>9, <1>11, PutPaneShows
<1> HIDE DEF w
<1>14. HasPane(w, from) /\ HasPane(w, to)  BY <1>5, <1>12
<1>15. PaneAt(w, to).ids # <<>>  BY <1>11, <1>12, EmptyFacts
<1>16. /\ LooseLay(z)
       /\ \A r, x : InPane(z, r, x) <=> InPane(w, r, x)
       /\ HasPane(z, to) /\ PaneAt(z, to) = PaneAt(w, to)
  <2>1. /\ LooseLay(z)
        /\ \A r, x : InPane(z, r, x) <=> InPane(w, r, x)
        /\ \A r : HasPane(w, r) /\ (r # from \/ PaneAt(w, from).ids # <<>>)
                    => HasPane(z, r) /\ PaneAt(z, r) = PaneAt(w, r)
    BY <1>12, <1>14, CollapseIs
  <2> HIDE DEF z
  <2> QED  BY <2>1, <1>14, <1>15
<1> HIDE DEF z, u
<1>17. GoodLay(u) /\ u.front = to /\ SamePanes(z, u)  BY <1>8, <1>16, BringIs
<1>18. HasPane(u, to) /\ PaneAt(u, to).active = id
  BY <1>11, <1>12, <1>16, <1>17 DEF SamePanes
<1>19. \A r, x : InPane(u, r, x) <=> InPane(w, r, x)  BY <1>16, <1>17, SamePanesIn
<1>20. /\ \A x : InPane(v, to, x) <=> x \in ToSet(PaneAt(v, to).ids)
       /\ \A x : InPane(lay, from, x) <=> x \in ToSet(PaneAt(lay, from).ids)
  BY <1>9 DEF InPane
<1>21. \A r, x : InPane(u, r, x)
         <=> (InPane(lay, r, x) /\ ~(r = from /\ x = id)) \/ (r = to /\ x = id)
  BY <1>2, <1>6, <1>11, <1>13, <1>19, <1>20
<1> QED  BY <1>17, <1>18, <1>21 DEF u, InFront

(* Sequences by place.                                                     *)
LEMMA ConcatAt ==
  ASSUME NEW T, NEW a \in Seq(T), NEW b \in Seq(T)
  PROVE  /\ a \o b \in Seq(T) /\ Len(a \o b) = Len(a) + Len(b)
         /\ \A k \in 1 .. Len(a) : (a \o b)[k] = a[k]
         /\ \A k \in 1 .. Len(b) : (a \o b)[Len(a) + k] = b[k]
OBVIOUS

LEMMA InsertAtIs ==
  ASSUME NEW T, NEW s \in Seq(T), NEW i \in 1 .. Len(s) + 1, NEW e \in T,
         NEW r, r = InsertAt(s, i, e)
  PROVE  /\ r \in Seq(T) /\ DOMAIN r = 1 .. Len(s) + 1 /\ r[i] = e
         /\ \A k \in 1 .. Len(s) : k < i => r[k] = s[k]
         /\ \A k \in 1 .. Len(s) : k >= i => r[k + 1] = s[k]
<1> DEFINE a == SubSeq(s, 1, i - 1)
           b == <<e>>
           c == SubSeq(s, i, Len(s))
           d == a \o b
<1>1. r = d \o c  BY DEF InsertAt
<1>2. Len(s) \in Nat /\ i \in Nat /\ i >= 1 /\ i <= Len(s) + 1  OBVIOUS
<1>3. a \in Seq(T) /\ Len(a) = i - 1 /\ \A k \in 1 .. i - 1 : a[k] = s[k]
  BY <1>2
<1>4. b \in Seq(T) /\ Len(b) = 1 /\ b[1] = e  OBVIOUS
<1>5. c \in Seq(T) /\ Len(c) = Len(s) + 1 - i
      /\ \A k \in 1 .. Len(s) + 1 - i : c[k] = s[i + k - 1]
  BY <1>2
<1> HIDE DEF a, b, c
<1>6. d \in Seq(T) /\ Len(d) = i /\ d[i] = e /\ \A k \in 1 .. i - 1 : d[k] = s[k]
  <2>4. d = a \o b  OBVIOUS
  <2> HIDE DEF d
  <2>1. /\ d \in Seq(T) /\ Len(d) = Len(a) + Len(b)
        /\ \A k \in 1 .. Len(a) : d[k] = a[k]
        /\ \A k \in 1 .. Len(b) : d[Len(a) + k] = b[k]
    <3>1. a \in Seq(T) /\ b \in Seq(T)  BY <1>3, <1>4
    <3> QED  BY ONLY <2>4, <3>1, ConcatAt
  <2>2. Len(d) = i  BY <2>1, <1>2, <1>3, <1>4
  <2>3. d[i] = e
    <3>1. 1 \in 1 .. Len(b) /\ Len(a) + 1 = i  BY <1>2, <1>3, <1>4
    <3> QED  BY <3>1, <2>1, <1>4
  <2> QED  BY <2>1, <2>2, <2>3, <1>3
<1> HIDE DEF d
<1>10. /\ r \in Seq(T) /\ Len(r) = Len(d) + Len(c)
       /\ \A k \in 1 .. Len(d) : r[k] = d[k]
       /\ \A k \in 1 .. Len(c) : r[Len(d) + k] = c[k]
  BY <1>1, <1>5, <1>6, ConcatAt
<1>7. r \in Seq(T) /\ Len(r) = Len(s) + 1 /\ r[i] = e
  <2>1. Len(r) = Len(s) + 1  BY <1>2, <1>5, <1>6, <1>10
  <2>2. i \in 1 .. Len(d)  BY <1>2, <1>6
  <2> QED  BY <2>1, <2>2, <1>6, <1>10
<1>8. ASSUME NEW k \in 1 .. Len(s), k < i  PROVE  r[k] = s[k]
  <2>1. k \in 1 .. Len(d) /\ k \in 1 .. i - 1  BY <1>2, <1>6, <1>8
  <2> QED  BY <2>1, <1>6, <1>10
<1>9. ASSUME NEW k \in 1 .. Len(s), k >= i  PROVE  r[k + 1] = s[k]
  <2>1. k + 1 - i \in 1 .. Len(s) + 1 - i /\ k + 1 = i + (k + 1 - i)
        /\ i + (k + 1 - i) - 1 = k
    BY <1>2, <1>9
  <2>2. r[k + 1] = c[k + 1 - i]  BY <2>1, <1>5, <1>6, <1>10
  <2>3. c[k + 1 - i] = s[k]  BY <2>1, <1>5
  <2> QED  BY <2>2, <2>3
<1> QED  BY <1>7, <1>8, <1>9

(* A pane more, anywhere among the others.                                 *)
LEMMA InsertPaneIs ==
  ASSUME NEW lay, LooseLay(lay), NEW g, GoodPane(g), ~HasPane(lay, g.id),
         NEW i \in 1 .. Len(lay.groups) + 1,
         NEW u, u = [lay EXCEPT !.groups = InsertAt(lay.groups, i, g)]
  PROVE  /\ LooseLay(u) /\ u.front = lay.front /\ u.recent = lay.recent
         /\ \A r : HasPane(u, r) <=> r = g.id \/ HasPane(lay, r)
         /\ PaneAt(u, g.id) = g
         /\ \A r : HasPane(lay, r) => PaneAt(u, r) = PaneAt(lay, r)
<1> DEFINE gs == lay.groups
           hs == InsertAt(gs, i, g)
<1>1. u = [lay EXCEPT !.groups = hs]  OBVIOUS
<1>2. IsLay(lay)  BY DEF LooseLay
<1>3. gs \in Seq(Pane) /\ gs # <<>>  BY DEF LooseLay, GoodGroups
<1>4. g \in Pane  BY DEF GoodPane
<1>5. /\ hs \in Seq(Pane) /\ DOMAIN hs = 1 .. Len(gs) + 1 /\ hs[i] = g
      /\ \A k \in 1 .. Len(gs) : k < i => hs[k] = gs[k]
      /\ \A k \in 1 .. Len(gs) : k >= i => hs[k + 1] = gs[k]
  BY <1>3, <1>4, InsertAtIs
<1>6. DOMAIN gs = 1 .. Len(gs) /\ Len(gs) \in Nat /\ i \in Nat /\ i >= 1
  BY <1>3
<1> HIDE DEF hs
<1>7. IsLay(u) /\ u.groups = hs /\ u.front = lay.front /\ u.recent = lay.recent
  BY ONLY <1>1, <1>2 DEF IsLay
<1> DEFINE Was(k) == IF k < i THEN k ELSE k - 1
<1>8. \A k \in DOMAIN hs : k # i => Was(k) \in DOMAIN gs /\ hs[k] = gs[Was(k)]
  <2> SUFFICES ASSUME NEW k \in DOMAIN hs, k # i
               PROVE  Was(k) \in DOMAIN gs /\ hs[k] = gs[Was(k)]
    OBVIOUS
  <2>1. CASE k < i  BY <2>1, <1>5, <1>6
  <2>2. CASE k > i
    <3>1. k - 1 \in 1 .. Len(gs) /\ k - 1 >= i /\ (k - 1) + 1 = k
      BY <2>2, <1>5, <1>6
    <3>2. hs[(k - 1) + 1] = gs[k - 1]  BY <3>1, <1>5
    <3> QED  BY <3>1, <3>2, <2>2, <1>6
  <2> QED  BY <2>1, <2>2, <1>5, <1>6
<1>9. \A k \in DOMAIN gs : \E j \in DOMAIN hs : hs[j] = gs[k]
  <2> TAKE k \in DOMAIN gs
  <2>1. CASE k < i  BY <2>1, <1>5, <1>6
  <2>2. CASE k >= i
    <3>1. k + 1 \in DOMAIN hs  BY <1>5, <1>6
    <3> QED  BY <2>2, <3>1, <1>5, <1>6
  <2> QED  BY <2>1, <2>2, <1>6
<1>10. \A k \in DOMAIN hs : k # i => hs[k].id # g.id  BY <1>8 DEF HasPane
<1>11. \A j, k \in DOMAIN hs : j # i /\ k # i /\ j # k => Was(j) # Was(k)
  BY <1>5, <1>6
<1>12. \A j, k \in DOMAIN hs : hs[j].id = hs[k].id => j = k
  <2> SUFFICES ASSUME NEW j \in DOMAIN hs, NEW k \in DOMAIN hs,
                      hs[j].id = hs[k].id, j # k
               PROVE  FALSE
    OBVIOUS
  <2>1. j # i /\ k # i  BY <1>5, <1>10
  <2>2. gs[Was(j)].id = gs[Was(k)].id /\ Was(j) \in DOMAIN gs /\ Was(k) \in DOMAIN gs
    BY <2>1, <1>8
  <2>3. Was(j) = Was(k)  BY <2>2 DEF LooseLay, GoodGroups
  <2> QED  BY <2>1, <2>3, <1>11
<1> HIDE DEF Was
<1>13. \A k \in DOMAIN hs : GoodPane(hs[k])
  BY <1>5, <1>8 DEF LooseLay, GoodGroups
<1>14. i \in DOMAIN hs  BY <1>5, <1>6
<1>15. hs # <<>>  BY <1>5, <1>14
<1>16. LooseLay(u)
  BY <1>5, <1>7, <1>12, <1>13, <1>15 DEF LooseLay, GoodGroups
<1>17. \A r : HasPane(u, r) <=> r = g.id \/ HasPane(lay, r)
  BY <1>5, <1>7, <1>8, <1>9, <1>14 DEF HasPane
<1>18. PaneAt(u, g.id) = g
  <2>1. i \in DOMAIN u.groups /\ u.groups[i] = g  BY <1>5, <1>7, <1>14
  <2> QED  BY ONLY <2>1, <1>16, PaneAtUnique
<1>19. ASSUME NEW r, HasPane(lay, r)  PROVE  PaneAt(u, r) = PaneAt(lay, r)
  <2>1. PICK k \in DOMAIN gs : gs[k].id = r  BY <1>19 DEF HasPane
  <2>2. PaneAt(lay, r) = gs[k]  BY <2>1, PaneAtUnique
  <2>3. PICK j \in DOMAIN hs : hs[j] = gs[k]  BY <1>9
  <2>4. PaneAt(u, r) = hs[j]
    <3>1. j \in DOMAIN u.groups /\ u.groups[j] = hs[j] /\ hs[j].id = r
      BY <2>1, <2>3, <1>7
    <3> QED  BY ONLY <3>1, <1>16, PaneAtUnique
  <2> QED  BY <2>2, <2>3, <2>4
<1> QED  BY <1>7, <1>16, <1>17, <1>18, <1>19

(* Below the bound there is an unused pane id.                             *)
LEMMA FreshPaneIs ==
  ASSUME NEW lay, LooseLay(lay), Len(EditorPanes(lay)) < MaxPanes
  PROVE  /\ FreshPane(lay) \in PaneIds /\ FreshPane(lay) # Bottom
         /\ ~HasPane(lay, FreshPane(lay))
<1> DEFINE N == 2 .. MaxPanes + 1
           s == EditorPanes(lay)
<1>1. MaxPanes \in Nat /\ MaxPanes >= 1  BY PanesAssumption
<1>2. \E q \in N : ~HasPane(lay, q)
  <2> SUFFICES ASSUME \A q \in N : HasPane(lay, q)  PROVE FALSE
    OBVIOUS
  <2>1. /\ s \in Seq(PaneIds) /\ IsInjective(s)
        /\ \A q : q \in ToSet(s) <=> HasPane(lay, q) /\ q # Bottom
    BY EditorPanesIs
  <2>2. IsFiniteSet(ToSet(s)) /\ Cardinality(ToSet(s)) = Len(s)
    BY <2>1, LenIsCardinality DEF IsInjective
  <2>3. \A q \in N : q # Bottom  BY DEF Bottom
  <2>4. N \subseteq ToSet(s)  BY <2>1, <2>3
  <2>5. Cardinality(N) = MaxPanes
    <3>1. 2 \in Int /\ MaxPanes + 1 \in Int /\ ~(2 > MaxPanes + 1)  BY <1>1
    <3> DEFINE m == MaxPanes + 1
    <3> HIDE DEF m
    <3>2. m \in Int /\ ~(2 > m)  BY <3>1 DEF m
    <3>3. Cardinality(2 .. m) = m - 2 + 1  BY <3>2, FS_Interval
    <3> QED  BY <3>3, <1>1 DEF m
  <2>6. Cardinality(N) <= Cardinality(ToSet(s))  BY <2>2, <2>4, FS_Subset
  <2> QED  BY <2>2, <2>5, <2>6, <2>1, <1>1
<1>3. FreshPane(lay) \in N /\ ~HasPane(lay, FreshPane(lay))
  BY <1>2 DEF FreshPane
<1>4. \A q \in N : q \in PaneIds /\ q # Bottom  BY <1>1 DEF PaneIds, Bottom
<1> QED  BY <1>3, <1>4

(* splitPane                                                               *)
LEMMA SplitBesideIs ==
  ASSUME NEW lay, LooseLay(lay), NEW p, HasPane(lay, p),
         Len(EditorPanes(lay)) < MaxPanes, NEW shared \in Ids \cup {None}, NEW before
  PROVE  LET u == SplitBeside(lay, p, shared, before)
             q == FreshPane(lay)
         IN /\ GoodLay(u) /\ u.front = q /\ ~HasPane(lay, q)
            /\ \A r : HasPane(u, r) <=> r = q \/ HasPane(lay, r)
            /\ \A r, x : InPane(u, r, x)
                 <=> InPane(lay, r, x) \/ (r = q /\ x = shared /\ shared # None)
            /\ shared = None => PaneAt(u, q).active = None
<1> DEFINE q   == FreshPane(lay)
           new == EmptyPane(q)
           g   == IF shared = None THEN new ELSE GroupShow(new, shared)
           at  == CHOOSE k \in DOMAIN lay.groups : lay.groups[k].id = p
           i   == IF before THEN at ELSE at + 1
           v   == [lay EXCEPT !.groups = InsertAt(lay.groups, i, g)]
           u   == SplitBeside(lay, p, shared, before)
<1>1. u = Bring(v, g.id)  BY DEF SplitBeside
<1>2. q \in PaneIds /\ ~HasPane(lay, q)  BY FreshPaneIs
<1>3. GoodPane(new) /\ new.ids = <<>> /\ new.id = q /\ new.active = None
  BY <1>2, EmptyPaneGood DEF EmptyPane
<1> HIDE DEF q, new
<1>4. /\ GoodPane(g) /\ g.id = q
      /\ \A x : x \in ToSet(g.ids) <=> x = shared /\ shared # None
      /\ shared = None => g.active = None
  <2>1. ToSet(new.ids) = {}  BY <1>3, EmptyFacts
  <2>2. CASE shared = None  BY <2>1, <2>2, <1>3
  <2>3. CASE shared # None
    <3>1. shared \in Ids /\ RawPane(new)  BY <2>3, <1>3, GoodIsRaw
    <3>2. /\ GoodPane(GroupShow(new, shared)) /\ GroupShow(new, shared).id = new.id
          /\ ToSet(GroupShow(new, shared).ids) = ToSet(new.ids) \cup {shared}
      BY <3>1, GroupShowGood
    <3> QED  BY <2>1, <2>3, <3>2, <1>3
  <2> QED  BY <2>2, <2>3
<1>5. i \in 1 .. Len(lay.groups) + 1
  <2>1. at \in DOMAIN lay.groups  BY DEF HasPane
  <2>2. lay.groups \in Seq(Pane)  BY DEF LooseLay, GoodGroups
  <2> HIDE DEF at
  <2> QED  BY <2>1, <2>2
<1> HIDE DEF g, i
<1>6. /\ LooseLay(v)
      /\ \A r : HasPane(v, r) <=> r = q \/ HasPane(lay, r)
      /\ PaneAt(v, q) = g
      /\ \A r : HasPane(lay, r) => PaneAt(v, r) = PaneAt(lay, r)
  BY <1>2, <1>4, <1>5, InsertPaneIs
<1> HIDE DEF u, v
<1>7. GoodLay(u) /\ u.front = q /\ SamePanes(v, u)  BY <1>1, <1>4, <1>6, BringIs
<1>8. \A r : HasPane(u, r) <=> r = q \/ HasPane(lay, r)
  BY <1>6, <1>7 DEF SamePanes
<1>9. \A r, x : InPane(u, r, x)
        <=> InPane(lay, r, x) \/ (r = q /\ x = shared /\ shared # None)
  BY <1>2, <1>4, <1>6, <1>7 DEF SamePanes, InPane
<1>10. PaneAt(u, q) = g  BY <1>6, <1>7 DEF SamePanes
<1> QED  BY <1>2, <1>4, <1>7, <1>8, <1>9, <1>10 DEF u, q

LEMMA UpTo ==
  ASSUME NEW s, NEW k \in Nat \ {0}, NEW y
  PROVE  (\E i \in 1 .. k : s[i] = y) <=> (\E i \in 1 .. k - 1 : s[i] = y) \/ s[k] = y
<1>1. \A i \in 1 .. k : i \in 1 .. k - 1 \/ i = k  OBVIOUS
<1>2. k \in 1 .. k /\ \A i \in 1 .. k - 1 : i \in 1 .. k  OBVIOUS
<1> QED  BY <1>1, <1>2

(* addBufferToGroup for all buffers of a closed pane.                      *)
LEMMA AddAllIs ==
  ASSUME NEW g, GoodPane(g), NEW ids \in Seq(Ids)
  PROVE  LET u == FoldLeft(GroupAdd, g, ids)
         IN GoodPane(u) /\ u.id = g.id /\ ToSet(u.ids) = ToSet(g.ids) \cup ToSet(ids)
<1> DEFINE c == [g |-> g, ids |-> ids]
           u == FoldLeft(GroupAdd, g, ids)
<1>1. c.g = g /\ c.ids = ids  OBVIOUS
<1>2. u = CAdd!After(g, ids, c)
  BY DEF CAdd!After, AddStep, FoldLeft, MapThenFoldSet, Max,
         CAdd!Last
<1> HIDE DEF c, u
<1>3. DOMAIN ids = 1 .. Len(ids) /\ Len(ids) \in Nat  OBVIOUS
<1>4. AddHolds(g, 0, c)
  <2>1. 1 .. 0 = {}  OBVIOUS
  <2> QED  BY <2>1, <1>1 DEF AddHolds
<1>5. ASSUME NEW x, NEW k \in DOMAIN ids, AddHolds(x, k - 1, c)
      PROVE  AddHolds(AddStep(x, ids[k], c), k, c)
  <2> DEFINE y == GroupAdd(x, ids[k])
  <2>1. /\ GoodPane(x) /\ x.id = g.id
        /\ \A z : z \in ToSet(x.ids)
             <=> z \in ToSet(g.ids) \/ \E i \in 1 .. k - 1 : ids[i] = z
    BY <1>1, <1>5 DEF AddHolds
  <2>2. ids[k] \in Ids /\ k \in Nat \ {0}  BY <1>3
  <2>3. GoodPane(y) /\ y.id = x.id /\ ToSet(y.ids) = ToSet(x.ids) \cup {ids[k]}
    BY <2>1, <2>2, GoodIsRaw, GroupAddGood
  <2> HIDE DEF y
  <2>4. \A z : (\E i \in 1 .. k : ids[i] = z)
                 <=> (\E i \in 1 .. k - 1 : ids[i] = z) \/ ids[k] = z
    BY <2>2, UpTo
  <2>5. \A z : z \in ToSet(y.ids) <=> z \in ToSet(g.ids) \/ \E i \in 1 .. k : ids[i] = z
    BY <2>1, <2>3, <2>4
  <2>6. AddHolds(y, k, c)  BY <1>1, <2>1, <2>3, <2>5 DEF AddHolds
  <2> QED  BY <2>6 DEF AddStep, y
<1>6. AddHolds(u, Len(ids), c)  BY <1>2, <1>4, <1>5, Least, CAdd!Kept DEF CAdd!LeastNumber
<1>7. /\ GoodPane(u) /\ u.id = g.id
      /\ \A z : z \in ToSet(u.ids)
           <=> z \in ToSet(g.ids) \/ \E i \in 1 .. Len(ids) : ids[i] = z
  BY <1>1, <1>6 DEF AddHolds
<1>8. \A z : z \in ToSet(ids) <=> \E i \in 1 .. Len(ids) : ids[i] = z
  BY <1>3 DEF ToSet
<1> QED  BY <1>7, <1>8 DEF u

(* closePane, with another editor pane to take over the buffers            *)
LEMMA ClosePaneIs ==
  ASSUME NEW lay, GoodLay(lay), NEW p, HasPane(lay, p),
         NEW q, HasPane(lay, q), q # p, q # Bottom
  PROVE  LET u == ClosePane(lay, p)
         IN /\ GoodLay(u)
            /\ \A r : HasPane(u, r) <=> HasPane(lay, r) /\ r # p
            /\ lay.front # p => u.front = lay.front
            /\ \A x : Shows(u, x) <=> Shows(lay, x)
<1> DEFINE old  == PaneAt(lay, p)
           left == DropPane(lay, p)
           eds  == EditorPanes(left)
           both == lay.recent \o eds
           S    == {r \in ToSet(both) : r \in ToSet(eds)}
           into == Head(Only(both, S))
           g    == PaneAt(left, into)
           all  == FoldLeft(GroupAdd, g, old.ids)
           h    == IF lay.front = p /\ old.active # None
                   THEN GroupShow(all, old.active) ELSE all
           front == IF lay.front = p THEN into ELSE lay.front
           v    == PutPane(left, into, h)
           w    == [v EXCEPT !.front = front]
           u    == ClosePane(lay, p)
<1>1. LooseLay(lay) /\ HasPane(lay, lay.front)  BY DEF GoodLay
<1>2. GoodPane(old) /\ old.id = p  BY <1>1, PaneAtIs
<1>3. /\ LooseLay(left) /\ left.front = lay.front /\ left.recent = lay.recent
      /\ \A r : HasPane(left, r) <=> HasPane(lay, r) /\ r # p
      /\ \A r : HasPane(left, r) => PaneAt(left, r) = PaneAt(lay, r)
  BY <1>1, DropPaneIs
<1>4. u = MarkRecent([OnPane(left, into, LAMBDA y :
                        IF lay.front = p /\ old.active # None
                        THEN GroupShow(FoldLeft(GroupAdd, y, old.ids), old.active)
                        ELSE FoldLeft(GroupAdd, y, old.ids)) EXCEPT !.front = front],
                     front)
  BY DEF ClosePane, Where, DropPane
<1> HIDE DEF left, old
<1>5. /\ eds \in Seq(PaneIds)
      /\ \A r : r \in ToSet(eds) <=> HasPane(left, r) /\ r # Bottom
  BY <1>3, EditorPanesIs
<1> HIDE DEF eds
<1>6. lay.recent \in Seq(PaneIds)  BY <1>1 DEF LooseLay
<1>7. both \in Seq(PaneIds) /\ ToSet(both) = ToSet(lay.recent) \cup ToSet(eds)
  BY <1>5, <1>6, ConcatFacts
<1>8. \A r : r \in S <=> r \in ToSet(both) /\ r \in ToSet(eds)  OBVIOUS
<1> HIDE DEF both, S
<1>9. HasPane(left, into) /\ into # Bottom
  <2>1. Only(both, S) \in Seq(PaneIds) /\ ToSet(Only(both, S)) = ToSet(both) \cap S
    BY <1>7, OnlyFacts
  <2>2. q \in ToSet(Only(both, S))  BY <2>1, <1>3, <1>5, <1>7, <1>8
  <2>3. Only(both, S) # <<>>  BY <2>2, EmptyFacts
  <2>4. into \in S  BY <2>3, <1>7, HeadOfOnly
  <2> QED  BY <2>4, <1>5, <1>8
<1> HIDE DEF into
<1>10. \A k \in DOMAIN left.groups : left.groups[k].id = into => left.groups[k] = g
  BY <1>3, PaneAtUnique
<1>11. u = MarkRecent(w, front)
  BY <1>4, <1>10 DEF OnPane, PutPane
<1>12. GoodPane(g) /\ g.id = into  BY <1>3, <1>9, PaneAtIs
<1>13. old.ids \in Seq(Ids) /\ (old.active # None => old.active \in ToSet(old.ids))
       /\ ToSet(old.ids) \subseteq Ids
  <2>1. old \in Pane  BY <1>2 DEF GoodPane
  <2>2. old.ids \in Seq(Ids)  BY <2>1 DEF Pane
  <2>3. old.active \in ToSet(old.ids) \cup {None} /\ ToSet(old.ids) \subseteq Ids
    BY <1>2, GoodIsRaw
  <2> QED  BY <2>2, <2>3
<1> HIDE DEF g
<1>14. GoodPane(all) /\ all.id = into
       /\ ToSet(all.ids) = ToSet(g.ids) \cup ToSet(old.ids)
  BY <1>12, <1>13, AddAllIs
<1> HIDE DEF all
<1>15. GoodPane(h) /\ h.id = into /\ ToSet(h.ids) = ToSet(g.ids) \cup ToSet(old.ids)
  <2>1. CASE lay.front = p /\ old.active # None
    <3> DEFINE j == GroupShow(all, old.active)
    <3>1. h = j  BY <2>1
    <3>2. old.active \in Ids /\ old.active \in ToSet(old.ids)  BY <2>1, <1>13
    <3>3. GoodPane(j) /\ j.id = all.id /\ ToSet(j.ids) = ToSet(all.ids) \cup {old.active}
      BY <3>2, <1>14, GoodIsRaw, GroupShowGood
    <3> HIDE DEF h, j
    <3> QED  BY <3>1, <3>2, <3>3, <1>14
  <2>2. CASE ~(lay.front = p /\ old.active # None)
    <3>1. h = all  BY <2>2
    <3> HIDE DEF h
    <3> QED  BY <3>1, <1>14
  <2> QED  BY <2>1, <2>2
<1> HIDE DEF h
<1>16. /\ LooseLay(v)
       /\ \A r : HasPane(v, r) <=> r = into \/ (HasPane(left, r) /\ r # into)
  BY <1>3, <1>9, <1>15, PutPaneIs
<1>17. \A r, x : InPane(v, r, x) <=> \/ r = into /\ x \in ToSet(h.ids)
                                     \/ r # into /\ InPane(left, r, x)
  BY <1>3, <1>9, <1>15, PutPaneShows
<1>18. HasPane(left, front) /\ front \in PaneIds
  <2>1. HasPane(left, front)  BY <1>1, <1>3, <1>9
  <2> QED  BY <2>1, <1>3, PaneAtIs
<1>19. lay.front # p => front = lay.front  OBVIOUS
<1>20. w = [v EXCEPT !.front = front] /\ IsLay(v)  BY <1>16 DEF LooseLay
<1> HIDE DEF front, v, w, u
<1>21. IsLay(w) /\ w.groups = v.groups /\ w.front = front /\ w.recent = v.recent
  BY ONLY <1>20 DEF IsLay
<1>22. LooseLay(w) /\ SamePanes(v, w)
  BY <1>16, <1>18, <1>21, SameGroups DEF LooseLay
<1>23. HasPane(w, front)  BY <1>16, <1>18, <1>22 DEF SamePanes
<1>24. /\ LooseLay(u) /\ u.front = front /\ SamePanes(w, u)
       /\ u.recent # <<>> /\ Head(u.recent) = front
  BY <1>11, <1>21, <1>22, <1>23, MarkRecentIs
<1>25. GoodLay(u)  BY <1>23, <1>24 DEF GoodLay, SamePanes
<1>26. \A r : HasPane(u, r) <=> HasPane(lay, r) /\ r # p
  BY <1>3, <1>9, <1>16, <1>22, <1>24 DEF SamePanes
<1>27. \A r, x : InPane(u, r, x) <=> InPane(v, r, x)
  BY <1>22, <1>24, SamePanesIn
<1>28. \A x : Shows(u, x) <=> Shows(lay, x)
  <2>1. \A x : InPane(left, into, x) <=> x \in ToSet(g.ids)
    BY <1>9 DEF InPane, g
  <2>2. \A x : InPane(lay, p, x) <=> x \in ToSet(old.ids)  BY DEF InPane, old
  <2>3. \A r, x : InPane(left, r, x) <=> r # p /\ InPane(lay, r, x)
    BY <1>3 DEF InPane
  <2>4. \A r, x : InPane(u, r, x)
          <=> \/ r = into /\ (InPane(left, into, x) \/ InPane(lay, p, x))
              \/ r # into /\ InPane(left, r, x)
    BY <2>1, <2>2, <1>15, <1>17, <1>27
  <2>5. into \in PaneIds /\ p \in PaneIds  BY <1>1, <1>3, <1>9, PaneAtIs
  <2> QED  BY <2>3, <2>4, <2>5 DEF Shows
<1> QED  BY <1>19, <1>24, <1>25, <1>26, <1>28 DEF u

(* closeOtherEditorGroups                                                  *)
LEMMA CloseOthersIs ==
  ASSUME NEW lay, GoodLay(lay), lay.front # Bottom
  PROVE  LET u == FoldLeft(ClosePane, Bring(lay, lay.front),
                           Without(EditorPanes(lay), lay.front))
         IN GoodLay(u) /\ \A x : Shows(u, x) <=> Shows(lay, x)
<1> DEFINE f    == lay.front
           eds  == EditorPanes(lay)
           ps   == Without(eds, f)
           base == Bring(lay, f)
           c    == [lay |-> base, ps |-> ps]
           u    == FoldLeft(ClosePane, base, ps)
<1>1. LooseLay(lay) /\ HasPane(lay, f)  BY DEF GoodLay
<1>2. GoodLay(base) /\ base.front = f /\ SamePanes(lay, base)  BY <1>1, BringIs
<1>3. /\ eds \in Seq(PaneIds) /\ IsInjective(eds)
      /\ \A q : q \in ToSet(eds) <=> HasPane(lay, q) /\ q # Bottom
  BY <1>1, EditorPanesIs
<1> HIDE DEF eds, base
<1>4. ps \in Seq(PaneIds) /\ ToSet(ps) = ToSet(eds) \ {f} /\ IsInjective(ps)
  BY <1>3, WithoutIs
<1> HIDE DEF ps, f
<1>5. c.lay = base /\ c.ps = ps  OBVIOUS
<1>6. u = CC!After(base, ps, c)
  BY DEF CC!After, CloseStep, FoldLeft, MapThenFoldSet, Max,
         CC!Last
<1> HIDE DEF c, u
<1>7. DOMAIN ps = 1 .. Len(ps) /\ Len(ps) \in Nat  BY <1>4
<1>8. CloseHolds(base, 0, c)
  <2>1. \A i \in DOMAIN ps : HasPane(base, ps[i])
    BY <1>2, <1>3, <1>4 DEF ToSet, SamePanes
  <2> QED  BY <2>1, <1>2, <1>5 DEF CloseHolds
<1>9. ASSUME NEW x, NEW k \in DOMAIN ps, CloseHolds(x, k - 1, c)
      PROVE  CloseHolds(CloseStep(x, ps[k], c), k, c)
  <2> DEFINE p == ps[k]
             y == ClosePane(x, p)
  <2>1. /\ GoodLay(x) /\ x.front = f
        /\ \A z : Shows(x, z) <=> Shows(base, z)
        /\ \A i \in DOMAIN ps : i > k - 1 => HasPane(x, ps[i])
    BY <1>2, <1>5, <1>9 DEF CloseHolds
  <2>2. k \in Nat /\ k >= 1 /\ k <= Len(ps)  BY <1>7
  <2>3. HasPane(x, p)  BY <2>1, <2>2
  <2>4. p # f  BY <1>4 DEF ToSet
  <2>5. HasPane(x, f) /\ f # Bottom  BY <2>1 DEF GoodLay, f
  <2>6. /\ GoodLay(y)
        /\ \A r : HasPane(y, r) <=> HasPane(x, r) /\ r # p
        /\ y.front = f
        /\ \A z : Shows(y, z) <=> Shows(x, z)
    BY <2>1, <2>3, <2>4, <2>5, ClosePaneIs
  <2> HIDE DEF y
  <2>7. \A i \in DOMAIN ps : i > k => HasPane(y, ps[i])
    <3> SUFFICES ASSUME NEW i \in DOMAIN ps, i > k  PROVE  HasPane(y, ps[i])
      OBVIOUS
    <3>1. i > k - 1 /\ i # k  BY <1>7, <2>2
    <3>2. ps[i] # p  BY <3>1, <1>4 DEF IsInjective
    <3> QED  BY <3>1, <3>2, <2>1, <2>6
  <2>8. CloseHolds(y, k, c)  BY <1>2, <1>5, <2>1, <2>6, <2>7 DEF CloseHolds
  <2> QED  BY <2>8 DEF CloseStep, y
<1>10. CloseHolds(u, Len(ps), c)  BY <1>4, <1>6, <1>8, <1>9, Least, CC!Kept DEF CC!LeastNumber
<1>11. GoodLay(u) /\ \A x : Shows(u, x) <=> Shows(base, x)
  BY <1>5, <1>10 DEF CloseHolds
<1>12. \A x : Shows(base, x) <=> Shows(lay, x)
  BY <1>2, SamePanesIn DEF Shows
<1> QED  BY <1>11, <1>12 DEF u, ps, base, eds, f

(* The window starts with two empty panes.                                 *)
LEMMA InitialLayoutGood ==
  GoodLay(InitialLayout) /\ \A x : ~Shows(InitialLayout, x)
<1> DEFINE lay == InitialLayout
           a == EmptyPane(Root)
           b == EmptyPane(Bottom)
           gs == <<a, b>>
<1>1. Root \in PaneIds /\ Bottom \in PaneIds /\ Root # Bottom
  BY PanesAssumption DEF Root, Bottom, PaneIds
<1>2. /\ GoodPane(a) /\ a.id = Root /\ a.ids = <<>>
      /\ GoodPane(b) /\ b.id = Bottom /\ b.ids = <<>>
  BY <1>1, EmptyPaneGood
<1>3. lay = [groups |-> gs, front |-> Root, recent |-> <<Root>>]
  BY DEF InitialLayout
<1> HIDE DEF a, b, lay
<1>4. /\ IsLay(lay) /\ lay.groups = gs /\ lay.front = Root /\ lay.recent = <<Root>>
  BY <1>3 DEF IsLay
<1>5. gs \in Seq(Pane) /\ gs # <<>> /\ DOMAIN gs = {1, 2} /\ gs[1] = a /\ gs[2] = b
  BY <1>2 DEF GoodPane
<1> HIDE DEF gs
<1>6. GoodGroups(gs)  BY <1>1, <1>2, <1>5 DEF GoodGroups
<1>7. lay.recent \in Seq(PaneIds) /\ lay.recent # <<>> /\ Head(lay.recent) = Root
  BY <1>1, <1>4
<1>8. HasPane(lay, Root)  BY <1>2, <1>4, <1>5 DEF HasPane
<1>9. LooseLay(lay)  BY <1>1, <1>4, <1>6, <1>7 DEF LooseLay
<1>10. GoodLay(lay)  BY <1>4, <1>7, <1>8, <1>9 DEF GoodLay
<1>11. ASSUME NEW x, NEW p, InPane(lay, p, x)  PROVE  FALSE
  <2>1. HasPane(lay, p) /\ x \in ToSet(PaneAt(lay, p).ids)  BY <1>11 DEF InPane
  <2>2. PICK k \in DOMAIN gs : PaneAt(lay, p) = gs[k]  BY <2>1, <1>4, <1>9, PaneAtIs
  <2>3. PaneAt(lay, p).ids = <<>>  BY <2>2, <1>2, <1>5
  <2> QED  BY <2>1, <2>3, EmptyFacts
<1> QED  BY <1>10, <1>11 DEF Shows, lay

-----------------------------------------------------------------------------
(* The two stores together: the panes show exactly the open buffers.       *)
Whole(t) == GoodLay(t.lay) /\ \A x : Shows(t.lay, x) <=> x \in OpenIds(t)

(* In the middle of an operation, when the active buffer may be gone.      *)
Half(t) ==
  /\ Whole(t)
  /\ t.pending \in PendingClose \cup {None}
  /\ Len(t.closed) <= MaxHistory

(* Between two operations: something is active as long as something is     *)
(* open.                                                                   *)
ActiveOk(t) ==
  /\ t.bufs = <<>> => t.active = None
  /\ t.bufs # <<>> => t.active \in OpenIds(t)

Sound(t) == Half(t) /\ ActiveOk(t)

(* The buffer on top of the pane in front is the active one, if any.       *)
OnTop(t) == InFront(t.lay).active \in {None, t.active}

KeepsTop(t, u) == OnTop(t) => OnTop(u)

(* The folds that close, again with what their steps keep.                 *)
SoundStep(x, y, c) == CloseForce(x, y)
SoundHolds(x, k, c) == Fine(x, c.n) /\ Sound(x) /\ KeepsTop(c.t, x)
CS == INSTANCE SequenceFolds WITH Step <- SoundStep, Holds <- SoundHolds

SoundAskStep(x, y, c) == CloseAsking(x, y)
CSA == INSTANCE SequenceFolds WITH Step <- SoundAskStep, Holds <- SoundHolds

(* The open ids, said in three ways.                                       *)
LEMMA OpenIdsIs ==
  ASSUME NEW t, NEW n, Fine(t, n)
  PROVE  /\ \A x : x \in OpenIds(t) <=> \E b \in ToSet(t.bufs) : b.id = x
         /\ \A x : x \in OpenIds(t) <=> \E k \in DOMAIN t.bufs : t.bufs[k].id = x
         /\ OpenIds(t) \subseteq Ids /\ IdsOf(t.bufs) \in Seq(Ids)
         /\ t.bufs = <<>> <=> OpenIds(t) = {}
<1> DEFINE bs == t.bufs
           is == IdsOf(bs)
<1>1. bs \in Seq(Buffer)  BY DEF Fine, GoodBufs
<1>2. DOMAIN bs = 1 .. Len(bs) /\ Len(bs) \in Nat  BY <1>1
<1>3. \A k \in DOMAIN bs : bs[k].id \in Ids
  <2>1. \A k \in DOMAIN bs : bs[k] \in Buffer  BY <1>1
  <2> QED  BY <2>1 DEF Buffer
<1>4. is = [k \in DOMAIN bs |-> bs[k].id] /\ OpenIds(t) = ToSet(is)
  BY DEF IdsOf, OpenIds
<1> HIDE DEF is
<1>5. is \in Seq(Ids) /\ DOMAIN is = DOMAIN bs
  <2>1. is \in [1 .. Len(bs) -> Ids]  BY <1>2, <1>3, <1>4
  <2> QED  BY <2>1, <1>2
<1>6. \A x : x \in OpenIds(t) <=> \E k \in DOMAIN bs : bs[k].id = x
  BY <1>4, <1>5 DEF ToSet
<1>7. \A x : (\E b \in ToSet(bs) : b.id = x) <=> \E k \in DOMAIN bs : bs[k].id = x
  BY DEF ToSet
<1>8. OpenIds(t) \subseteq Ids  BY <1>3, <1>6
<1>9. bs = <<>> <=> OpenIds(t) = {}
  <2>1. bs = <<>> => DOMAIN bs = {}  OBVIOUS
  <2>2. ASSUME DOMAIN bs = {}  PROVE  bs = <<>>
    <3>1. 1 \notin 1 .. Len(bs)  BY <2>2, <1>2
    <3>2. Len(bs) = 0  BY <3>1, <1>2
    <3> QED  BY <3>2, <1>1
  <2>3. OpenIds(t) = {} <=> DOMAIN bs = {}  BY <1>6
  <2> QED  BY <2>1, <2>2, <2>3
<1> QED  BY <1>5, <1>6, <1>7, <1>8, <1>9 DEF is

(* Dropping a buffer drops its id.                                         *)
LEMMA DropIds ==
  ASSUME NEW t, NEW n, Fine(t, n), NEW id, NEW u, u.bufs = DropBuffer(t.bufs, id),
         Fine(u, n)
  PROVE  \A x : x \in OpenIds(u) <=> x \in OpenIds(t) /\ x # id
<1>1. \A b : b \in ToSet(u.bufs) <=> b \in ToSet(t.bufs) /\ b.id # id
  BY DropBufferThins
<1>2. \A x : x \in OpenIds(t) <=> \E b \in ToSet(t.bufs) : b.id = x  BY OpenIdsIs
<1>3. \A x : x \in OpenIds(u) <=> \E b \in ToSet(u.bufs) : b.id = x  BY OpenIdsIs
<1> QED  BY <1>1, <1>2, <1>3

(* Taking a buffer out of both stores.                                     *)
LEMMA DropWhole ==
  ASSUME NEW t, NEW n, Fine(t, n), Whole(t), NEW id, NEW u, Fine(u, n),
         u.bufs = DropBuffer(t.bufs, id), NEW keepEmpty,
         u.lay = RemoveEverywhere(t.lay, id, keepEmpty)
  PROVE  Whole(u)
<1>1. /\ GoodLay(u.lay)
      /\ \A r, x : InPane(u.lay, r, x) <=> InPane(t.lay, r, x) /\ x # id
  BY RemoveEverywhereIs DEF Whole
<1>2. \A x : Shows(u.lay, x) <=> Shows(t.lay, x) /\ x # id  BY <1>1 DEF Shows
<1>3. \A x : x \in OpenIds(u) <=> x \in OpenIds(t) /\ x # id  BY DropIds
<1> QED  BY <1>1, <1>2, <1>3 DEF Whole

LEMMA DropHalf ==
  ASSUME NEW t, NEW n, Fine(t, n), Half(t), NEW id, NEW u, Fine(u, n),
         u.bufs = DropBuffer(t.bufs, id), NEW keepEmpty,
         u.lay = RemoveEverywhere(t.lay, id, keepEmpty),
         u.pending = t.pending, u.closed = t.closed
  PROVE  Half(u)
BY DropWhole DEF Half

(* getPaneReplacementBufferId: some other open buffer, if there is one.    *)
LEMMA ReplacementIs ==
  ASSUME NEW t, NEW n, Fine(t, n), Whole(t), NEW id
  PROVE  \/ Replacement(t, id) \in OpenIds(t) \ {id}
         \/ Replacement(t, id) = None /\ OpenIds(t) \subseteq {id}
<1> DEFINE a == PanesWith(t.lay, id)
           b == <<t.lay.front>>
           q == a \o b
           p == HeadOr(q)
           g == PaneAt(t.lay, p)
           stays == OpenIds(t) \ {id}
           gids == g.mru \o g.ids
           all == gids \o IdsOf(t.bufs)
           S == {x \in ToSet(all) : x \in stays}
           left == Only(all, S)
           r == Replacement(t, id)
<1>1. r = HeadOr(left)  BY DEF Replacement, Where
<1>2. LooseLay(t.lay) /\ HasPane(t.lay, t.lay.front) /\ t.lay.front \in PaneIds
  BY DEF Whole, GoodLay, LooseLay
<1>3. a \in Seq(PaneIds) /\ \A x : x \in ToSet(a) <=> InPane(t.lay, x, id)
  BY <1>2, PanesWithIs
<1>4. b \in Seq(PaneIds) /\ ToSet(b) = {t.lay.front} /\ Len(b) = 1
  BY <1>2, SingletonFacts
<1> HIDE DEF a, b
<1>5. q \in Seq(PaneIds) /\ ToSet(q) = ToSet(a) \cup ToSet(b) /\ q # <<>>
  <2>1. q \in Seq(PaneIds) /\ ToSet(q) = ToSet(a) \cup ToSet(b)
    BY <1>3, <1>4, ConcatFacts
  <2> QED  BY <2>1, <1>4, EmptyFacts
<1> HIDE DEF q
<1>6. p \in ToSet(q)  BY <1>5, HeadOrIs
<1>7. HasPane(t.lay, p)  BY <1>2, <1>3, <1>4, <1>5, <1>6 DEF InPane
<1> HIDE DEF p
<1>8. g \in Pane  BY <1>2, <1>7, PaneAtIs DEF GoodPane
<1>9. g.mru \in Seq(Ids) /\ g.ids \in Seq(Ids)  BY <1>8 DEF Pane
<1> HIDE DEF g
<1>10. gids \in Seq(Ids)  BY <1>9, ConcatFacts
<1>11. IdsOf(t.bufs) \in Seq(Ids) /\ ToSet(IdsOf(t.bufs)) = OpenIds(t)
  BY OpenIdsIs DEF OpenIds
<1> HIDE DEF gids
<1>12. all \in Seq(Ids) /\ ToSet(all) = ToSet(gids) \cup OpenIds(t)
  BY <1>10, <1>11, ConcatFacts
<1>13. \A x : x \in S <=> x \in ToSet(all) /\ x \in OpenIds(t) /\ x # id  OBVIOUS
<1> HIDE DEF all, S
<1>14. left \in Seq(Ids) /\ ToSet(left) = ToSet(all) \cap S  BY <1>12, OnlyFacts
<1> HIDE DEF left, r
<1>15. CASE left = <<>>
  <2>1. r = None /\ ToSet(left) = {}  BY <1>1, <1>14, <1>15, HeadOrIs
  <2>2. \A x \in OpenIds(t) : x = id  BY <2>1, <1>12, <1>13, <1>14
  <2> QED  BY <2>1, <2>2 DEF r
<1>16. CASE left # <<>>
  <2>1. r \in ToSet(left)  BY <1>1, <1>14, <1>16, HeadOrIs
  <2> QED  BY <2>1, <1>13, <1>14 DEF r
<1> QED  BY <1>15, <1>16

(* What it takes to be sound and on top after Focus or ToFront.            *)
LEMMA FrontedWhole ==
  ASSUME NEW t, Whole(t), NEW u, NEW id, Fronted(t.lay, u.lay, id),
         \A x : x \in OpenIds(u) <=> x \in OpenIds(t) \/ x = id, u.active = id
  PROVE  Whole(u) /\ OnTop(u)
BY DEF Whole, Fronted, OnTop

-----------------------------------------------------------------------------
(* Closing.                                                                *)
LEMMA CloseForceSound ==
  ASSUME NEW t, NEW n, Fine(t, n), Sound(t), NEW id
  PROVE  LET u == CloseForce(t, id)
         IN Sound(u) /\ KeepsTop(t, u)
<1> DEFINE u == CloseForce(t, id)
<1>1. CASE id \notin OpenIds(t)
  <2>1. u = t  BY <1>1 DEF CloseForce
  <2> HIDE DEF u
  <2> QED  BY <2>1 DEF u, KeepsTop
<1>2. CASE id \in OpenIds(t)
  <2> DEFINE act == IF t.active = id THEN Replacement(t, id) ELSE t.active
             lay == RemoveEverywhere(t.lay, id, FALSE)
             b   == BufferOf(t, id)
             new == [path |-> b.path, pinned |-> b.pinned]
             all == <<new>> \o t.closed
             m   == IF Len(all) > MaxHistory THEN MaxHistory ELSE Len(all)
             closed == IF ~IsFile(b) THEN t.closed ELSE SubSeq(all, 1, m)
             fin == FocusIfAny(lay, act)
             rest == DropBuffer(t.bufs, id)
  <2>1. u = [t EXCEPT !.bufs = rest, !.active = act, !.lay = fin, !.closed = closed]
    BY <1>2 DEF CloseForce
  <2>2. IsStore(t) /\ t.closed \in Seq(ClosedTab)  BY DEF Fine
  <2>3. Fine(u, n) /\ u.pending = t.pending  BY CloseForceCuts
  <2>4. Whole(t) /\ Len(t.closed) <= MaxHistory  BY DEF Sound, Half
  <2>5. Len(closed) <= MaxHistory
    <3> HIDE DEF new, b
    <3>1. MaxHistory \in Nat  BY BoundsAssumption
    <3>2. CASE ~IsFile(b)  BY <3>2, <2>4
    <3>3. CASE IsFile(b)
      <4>1. closed = SubSeq(all, 1, m)  BY <3>3
      <4>2. Len(all) \in Nat
        <5>1. <<new>> \in Seq(ClosedTab \cup {new}) /\ t.closed \in Seq(ClosedTab \cup {new})
          BY <2>2
        <5> QED  BY <5>1, ConcatFacts
      <4> HIDE DEF all
      <4>3. m \in Nat /\ m <= MaxHistory /\ m <= Len(all)  BY <3>1, <4>2
      <4> HIDE DEF m, closed
      <4>4. Len(closed) = m  BY <4>1, <4>3 DEF m, all
      <4> QED  BY <4>3, <4>4
    <3> QED  BY <3>2, <3>3
  <2> HIDE DEF act, lay, fin, closed, rest, u
  <2>6. u.bufs = rest /\ u.active = act /\ u.lay = fin /\ u.closed = closed
    BY ONLY <2>1, <2>2 DEF IsStore
  <2>7. \A x : x \in OpenIds(u) <=> x \in OpenIds(t) /\ x # id
    BY <2>3, <2>6, DropIds DEF rest
  <2>8. /\ GoodLay(lay) /\ \A x : Shows(lay, x) <=> x \in OpenIds(u)
    <3>1. /\ GoodLay(lay)
          /\ \A r, x : InPane(lay, r, x) <=> InPane(t.lay, r, x) /\ x # id
      BY <2>4, RemoveEverywhereIs DEF Whole, lay
    <3>2. \A x : Shows(lay, x) <=> Shows(t.lay, x) /\ x # id  BY <3>1 DEF Shows
    <3> QED  BY <3>1, <3>2, <2>4, <2>7 DEF Whole
  <2>9. \/ act \in OpenIds(u) /\ act \in Ids
        \/ act = None /\ OpenIds(u) = {}
    <3>1. OpenIds(t) \subseteq Ids  BY OpenIdsIs
    <3>2. CASE t.active = id
      <4>1. act = Replacement(t, id)  BY <3>2 DEF act
      <4>2. \/ act \in OpenIds(t) \ {id}
            \/ act = None /\ OpenIds(t) \subseteq {id}
        BY <4>1, <2>4, ReplacementIs
      <4> QED  BY <4>2, <3>1, <2>7
    <3>3. CASE t.active # id
      <4>1. act = t.active  BY <3>3 DEF act
      <4>2. t.bufs # <<>>  BY <1>2, OpenIdsIs
      <4>3. act \in OpenIds(t)  BY <4>1, <4>2 DEF Sound, ActiveOk
      <4> QED  BY <4>1, <4>3, <3>1, <3>3, <2>7
    <3> QED  BY <3>2, <3>3
  <2>10. Whole(u) /\ ActiveOk(u) /\ OnTop(u)
    <3>1. u.bufs = <<>> <=> OpenIds(u) = {}  BY <2>3, OpenIdsIs
    <3>2. CASE act = None /\ OpenIds(u) = {}
      <4>1. u.lay = lay  BY <3>2, <2>6 DEF FocusIfAny, fin
      <4>2. Whole(u)  BY <4>1, <2>8 DEF Whole
      <4>3. InFront(u.lay).active = None
        <5>1. LooseLay(lay) /\ HasPane(lay, lay.front)  BY <2>8 DEF GoodLay
        <5>2. GoodPane(InFront(lay)) /\ lay.front \in PaneIds
          BY <5>1, PaneAtIs DEF InFront
        <5>3. \A x : ~Shows(lay, x)  BY <2>8, <3>2
        <5>4. \A x : x \notin ToSet(InFront(lay).ids)
          BY <5>1, <5>2, <5>3 DEF Shows, InPane, InFront
        <5>5. InFront(lay).active \in ToSet(InFront(lay).ids) \cup {None}
          BY <5>2, GoodIsRaw
        <5> QED  BY <5>4, <5>5, <4>1
      <4> QED  BY <4>2, <4>3, <3>1, <3>2, <2>6 DEF ActiveOk, OnTop
    <3>3. CASE act \in OpenIds(u) /\ act \in Ids
      <4>1. act # None  BY <3>3, NoneIsNoId
      <4>2. u.lay = Focus(lay, act)  BY <4>1, <2>6 DEF FocusIfAny, fin
      <4>3. Fronted(lay, u.lay, act)  BY <4>2, <3>3, <2>8, FocusIs
      <4>4. Whole(u)  BY <4>3, <2>8, <3>3 DEF Fronted, Whole
      <4>5. OnTop(u)  BY <4>3, <2>6 DEF Fronted, OnTop
      <4> QED  BY <4>4, <4>5, <3>1, <3>3, <2>6 DEF ActiveOk
    <3> QED  BY <3>2, <3>3, <2>9
  <2>11. Half(u)  BY <2>3, <2>5, <2>6, <2>10 DEF Half, Sound
  <2> QED  BY <2>10, <2>11 DEF Sound, KeepsTop, u
<1> QED  BY <1>1, <1>2

(* Closing buffers one after the other.                                    *)
LEMMA CloseForceAllSound ==
  ASSUME NEW t, NEW n, Fine(t, n), Sound(t), NEW T, NEW ids \in Seq(T)
  PROVE  LET u == CloseForceAll(t, ids)
         IN Sound(u) /\ KeepsTop(t, u)
<1> DEFINE c == [t |-> t, n |-> n]
<1>1. SoundHolds(t, 0, c)  BY DEF SoundHolds, KeepsTop
<1>2. ASSUME NEW x, NEW k \in DOMAIN ids, SoundHolds(x, k - 1, c)
      PROVE  SoundHolds(SoundStep(x, ids[k], c), k, c)
  <2> DEFINE y == CloseForce(x, ids[k])
  <2>1. Fine(x, n) /\ Sound(x) /\ KeepsTop(t, x)  BY <1>2 DEF SoundHolds
  <2>2. Fine(y, n)  BY <2>1, CloseForceCuts
  <2>3. Sound(y) /\ KeepsTop(x, y)  BY <2>1, CloseForceSound
  <2> HIDE DEF y
  <2>4. SoundHolds(y, k, c)  BY <2>1, <2>2, <2>3 DEF SoundHolds, KeepsTop
  <2> QED  BY <2>4 DEF SoundStep, y
<1> HIDE DEF c
<1>3. SoundHolds(CS!After(t, ids, c), Len(ids), c)  BY <1>1, <1>2, Least, CS!Kept DEF CS!LeastNumber
<1>4. CloseForceAll(t, ids) = CS!After(t, ids, c)
  BY DEF CloseForceAll, CS!After, SoundStep, FoldLeft, MapThenFoldSet, Max,
         CS!Last
<1> QED  BY <1>3, <1>4 DEF SoundHolds, c

(* closeBuffer, and the tab limit's effect, which calls it repeatedly.     *)
LEMMA CloseAskingSound ==
  ASSUME NEW t, NEW n, Fine(t, n), Sound(t), NEW id
  PROVE  LET u == CloseAsking(t, id)
         IN Sound(u) /\ KeepsTop(t, u)
<1> DEFINE u == CloseAsking(t, id)
           asks == id \in OpenIds(t) /\ IsDirty(BufferOf(t, id))
           p == [id |-> id, type |-> "single", anchor |-> None]
<1>1. CASE asks
  <2>1. u = [t EXCEPT !.pending = p]  BY <1>1 DEF CloseAsking
  <2>2. IsStore(t)  BY DEF Fine
  <2>3. p \in PendingClose
    <3>1. id \in Ids  BY <1>1, OpenIdsIs
    <3> QED  BY <3>1 DEF PendingClose, BatchTypes
  <2> HIDE DEF u, p
  <2>4. /\ u.bufs = t.bufs /\ u.active = t.active /\ u.lay = t.lay
        /\ u.closed = t.closed /\ u.pending = p
    BY ONLY <2>1, <2>2 DEF IsStore
  <2>5. OpenIds(u) = OpenIds(t)  BY <2>4 DEF OpenIds
  <2> QED
    BY <2>3, <2>4, <2>5 DEF Sound, Half, Whole, ActiveOk, KeepsTop, OnTop, u
<1>2. CASE ~asks
  <2>1. u = CloseForce(t, id)  BY <1>2 DEF CloseAsking
  <2> HIDE DEF u
  <2> QED  BY <2>1, CloseForceSound DEF u
<1> QED  BY <1>1, <1>2

LEMMA CloseAskingAllSound ==
  ASSUME NEW t, NEW n, Fine(t, n), Sound(t), NEW T, NEW ids \in Seq(T)
  PROVE  LET u == FoldLeft(CloseAsking, t, ids)
         IN Sound(u) /\ KeepsTop(t, u)
<1> DEFINE c == [t |-> t, n |-> n]
<1>1. SoundHolds(t, 0, c)  BY DEF SoundHolds, KeepsTop
<1>2. ASSUME NEW x, NEW k \in DOMAIN ids, SoundHolds(x, k - 1, c)
      PROVE  SoundHolds(SoundAskStep(x, ids[k], c), k, c)
  <2> DEFINE y == CloseAsking(x, ids[k])
  <2>1. Fine(x, n) /\ Sound(x) /\ KeepsTop(t, x)  BY <1>2 DEF SoundHolds
  <2>2. Fine(y, n)  BY <2>1, CloseAskingCuts
  <2>3. Sound(y) /\ KeepsTop(x, y)  BY <2>1, CloseAskingSound
  <2> HIDE DEF y
  <2>4. SoundHolds(y, k, c)  BY <2>1, <2>2, <2>3 DEF SoundHolds, KeepsTop
  <2> QED  BY <2>4 DEF SoundAskStep, y
<1> HIDE DEF c
<1>3. SoundHolds(CSA!After(t, ids, c), Len(ids), c)
  BY <1>1, <1>2, Least, CSA!Kept DEF CSA!LeastNumber
<1>4. FoldLeft(CloseAsking, t, ids) = CSA!After(t, ids, c)
  BY DEF CSA!After, SoundAskStep, FoldLeft, MapThenFoldSet, Max,
         CSA!Last
<1> QED  BY <1>3, <1>4 DEF SoundHolds, c

(* Lists of ids and buffers.                                               *)
LEMMA SubSeqIs ==
  ASSUME NEW T, NEW s \in Seq(T), NEW a \in Nat \ {0}, NEW b \in Nat, b <= Len(s)
  PROVE  /\ SubSeq(s, a, b) \in Seq(T)
         /\ \A x \in ToSet(SubSeq(s, a, b)) : x \in ToSet(s)
<1> DEFINE r == SubSeq(s, a, b)
<1>1. Len(s) \in Nat /\ DOMAIN s = 1 .. Len(s)  OBVIOUS
<1>2. CASE b < a
  <2>1. r = <<>>  BY <1>1, <1>2
  <2> HIDE DEF r
  <2> QED  BY <2>1, EmptyFacts DEF r
<1>3. CASE b >= a
  <2>1. r \in Seq(T) /\ Len(r) = b - a + 1
        /\ \A k \in 1 .. b - a + 1 : r[k] = s[a + k - 1]
    BY <1>1, <1>3
  <2> HIDE DEF r
  <2>2. \A k \in 1 .. b - a + 1 : a + k - 1 \in DOMAIN s  BY <1>1, <1>3
  <2>3. DOMAIN r = 1 .. b - a + 1  BY <2>1
  <2> QED  BY <2>1, <2>2, <2>3 DEF ToSet, r
<1> QED  BY <1>2, <1>3

LEMMA IdsOfIs ==
  ASSUME NEW bs \in Seq(Buffer)
  PROVE  /\ IdsOf(bs) \in Seq(Ids)
         /\ \A x : x \in ToSet(IdsOf(bs)) <=> \E b \in ToSet(bs) : b.id = x
<1> DEFINE is == IdsOf(bs)
<1>1. DOMAIN bs = 1 .. Len(bs) /\ Len(bs) \in Nat  OBVIOUS
<1>2. \A k \in DOMAIN bs : bs[k].id \in Ids
  <2>1. \A k \in DOMAIN bs : bs[k] \in Buffer  OBVIOUS
  <2> QED  BY <2>1 DEF Buffer
<1>3. is = [k \in DOMAIN bs |-> bs[k].id]  BY DEF IdsOf
<1> HIDE DEF is
<1>4. is \in Seq(Ids) /\ DOMAIN is = DOMAIN bs
  <2>1. is \in [1 .. Len(bs) -> Ids]  BY <1>1, <1>2, <1>3
  <2> QED  BY <2>1, <1>1
<1>5. \A x : x \in ToSet(is) <=> \E b \in ToSet(bs) : b.id = x
  BY <1>3, <1>4 DEF ToSet
<1> QED  BY <1>4, <1>5 DEF is

(* The buffers with the ids of some of the open ones are these.            *)
LEMMA WithIdsOf ==
  ASSUME NEW t, NEW n, Fine(t, n), NEW bs \in Seq(Buffer),
         \A b \in ToSet(bs) : b \in ToSet(t.bufs)
  PROVE  \A b \in WithIds(t, ToSet(IdsOf(bs))) : b \in ToSet(bs)
<1> SUFFICES ASSUME NEW b \in WithIds(t, ToSet(IdsOf(bs)))  PROVE  b \in ToSet(bs)
  OBVIOUS
<1>1. b \in ToSet(t.bufs) /\ b.id \in ToSet(IdsOf(bs))  BY DEF WithIds
<1>2. PICK a \in ToSet(bs) : a.id = b.id  BY <1>1, IdsOfIs
<1>3. a = b  BY <1>1, <1>2, OneBuffer
<1> QED  BY <1>2, <1>3

(* handleCloseOtherTabs and its like never take a pinned tab.              *)
LEMMA BatchIs ==
  ASSUME NEW t, NEW n, Fine(t, n), NEW type \in BatchTypes \ {"single"}, NEW anchor
  PROVE  /\ Batch(t, type, anchor) \in Seq(Buffer)
         /\ \A b \in ToSet(Batch(t, type, anchor)) : b \in ToSet(t.bufs) /\ ~b.pinned
<1> DEFINE bs == t.bufs
           m  == Len(bs)
           at == CHOOSE k \in 1 .. m : bs[k].id = anchor
           inBatch ==
             IF type \in {"others", "all"} THEN bs
             ELSE IF anchor \notin OpenIds(t) THEN <<>>
             ELSE IF type = "to-left" THEN SubSeq(bs, 1, at - 1)
             ELSE SubSeq(bs, at + 1, m)
           S == {b \in ToSet(inBatch) : ~b.pinned /\ ~(type = "others" /\ b.id = anchor)}
           batch == Batch(t, type, anchor)
<1>1. batch = Only(inBatch, S)  BY DEF Batch, Where
<1>2. bs \in Seq(Buffer)  BY DEF Fine, GoodBufs
<1>3. m \in Nat /\ DOMAIN bs = 1 .. m  BY <1>2
<1>4. anchor \in OpenIds(t) => at \in 1 .. m
  <2>1. anchor \in OpenIds(t) => \E k \in 1 .. m : bs[k].id = anchor
    BY <1>3, OpenIdsIs
  <2> QED  BY <2>1
<1> HIDE DEF at
<1>5. inBatch \in Seq(Buffer) /\ \A b \in ToSet(inBatch) : b \in ToSet(bs)
  <2>1. CASE type \in {"others", "all"}
    <3>1. inBatch = bs  BY <2>1
    <3> HIDE DEF inBatch
    <3> QED  BY <3>1, <1>2
  <2>2. CASE type \notin {"others", "all"} /\ anchor \notin OpenIds(t)
    <3>1. inBatch = <<>>  BY <2>2
    <3> HIDE DEF inBatch
    <3> QED  BY <3>1, EmptyFacts
  <2>3. CASE type = "to-left" /\ anchor \in OpenIds(t)
    <3>1. inBatch = SubSeq(bs, 1, at - 1)  BY <2>3
    <3>2. at - 1 \in Nat /\ at - 1 <= m  BY <2>3, <1>3, <1>4
    <3> HIDE DEF inBatch, bs
    <3> QED  BY <3>1, <3>2, <1>2, SubSeqIs
  <2>4. CASE type = "to-right" /\ anchor \in OpenIds(t)
    <3>1. inBatch = SubSeq(bs, at + 1, m)  BY <2>4
    <3>2. at + 1 \in Nat \ {0}  BY <2>4, <1>3, <1>4
    <3> HIDE DEF inBatch, bs
    <3> QED  BY <3>1, <3>2, <1>2, <1>3, SubSeqIs
  <2> QED  BY <2>1, <2>2, <2>3, <2>4 DEF BatchTypes
<1>6. \A b : b \in S => b \in ToSet(inBatch) /\ ~b.pinned  OBVIOUS
<1> HIDE DEF inBatch, S, batch
<1>7. batch \in Seq(Buffer) /\ ToSet(batch) = ToSet(inBatch) \cap S
  BY <1>1, <1>5, OnlyFacts
<1> QED  BY <1>5, <1>6, <1>7 DEF batch

(* Closing several tabs: those that are not pinned, if none of them asks   *)
(* to be saved.                                                            *)
LEMMA CloseBatchIs ==
  ASSUME NEW t, NEW n, Fine(t, n), Sound(t), NEW type \in BatchTypes \ {"single"},
         NEW anchor \in Ids \cup {None}
  PROVE  LET u == CloseBatch(t, type, anchor)
         IN /\ Fine(u, n) /\ Sound(u) /\ KeepsTop(t, u)
            /\ Cut(t, u, {b \in ToSet(t.bufs) : ~b.pinned /\ ~IsDirty(b)})
<1> DEFINE batch == Batch(t, type, anchor)
           S     == {b \in ToSet(batch) : IsDirty(b)}
           asked == Only(batch, S)
           p     == [id |-> Head(asked).id, type |-> type, anchor |-> anchor]
           C     == {b \in ToSet(t.bufs) : ~b.pinned /\ ~IsDirty(b)}
           u     == CloseBatch(t, type, anchor)
<1>1. u = IF asked = <<>> THEN CloseForceAll(t, IdsOf(batch))
          ELSE [t EXCEPT !.pending = p]
  BY DEF CloseBatch, Where
<1>2. batch \in Seq(Buffer) /\ \A b \in ToSet(batch) : b \in ToSet(t.bufs) /\ ~b.pinned
  BY BatchIs
<1> HIDE DEF batch, u
<1>3. \A b : b \in S <=> b \in ToSet(batch) /\ IsDirty(b)  OBVIOUS
<1> HIDE DEF S
<1>4. asked \in Seq(Buffer) /\ ToSet(asked) = ToSet(batch) \cap S
  BY <1>2, OnlyFacts
<1>5. CASE asked = <<>>
  <2>1. u = CloseForceAll(t, IdsOf(batch))  BY <1>1, <1>5
  <2>2. IdsOf(batch) \in Seq(Ids)  BY <1>2, IdsOfIs
  <2>3. Fine(u, n) /\ Cut(t, u, WithIds(t, ToSet(IdsOf(batch))))
    BY <2>1, <2>2, CloseForceAllCuts
  <2>4. Sound(u) /\ KeepsTop(t, u)  BY <2>1, <2>2, CloseForceAllSound
  <2>5. \A b \in WithIds(t, ToSet(IdsOf(batch))) : b \in ToSet(batch)
    BY <1>2, WithIdsOf
  <2>6. \A b \in ToSet(batch) : ~IsDirty(b)  BY <1>3, <1>4, <1>5, EmptyFacts
  <2>7. WithIds(t, ToSet(IdsOf(batch))) \subseteq C  BY <2>5, <2>6, <1>2
  <2>8. Cut(t, u, C)
    <3> HIDE DEF C
    <3> QED  BY <2>3, <2>7, CutWider
  <2> QED  BY <2>3, <2>4, <2>8 DEF u
<1>6. CASE asked # <<>>
  <2>1. u = [t EXCEPT !.pending = p] /\ IsStore(t)  BY <1>1, <1>6 DEF Fine
  <2>2. p \in PendingClose
    <3>1. Head(asked) \in Buffer  BY <1>4, <1>6
    <3>2. Head(asked).id \in Ids  BY <3>1 DEF Buffer
    <3> QED  BY <3>2 DEF PendingClose
  <2> HIDE DEF p
  <2>3. /\ u.bufs = t.bufs /\ u.active = t.active /\ u.lay = t.lay
        /\ u.closed = t.closed /\ u.pending = p /\ IsStore(u)
    BY ONLY <2>1 DEF IsStore
  <2>4. OpenIds(u) = OpenIds(t)  BY <2>3 DEF OpenIds
  <2>5. Sound(u) /\ KeepsTop(t, u)
    BY <2>2, <2>3, <2>4 DEF Sound, Half, Whole, ActiveOk, KeepsTop, OnTop
  <2>6. Fine(u, n)  BY <2>3 DEF Fine
  <2>7. Cut(t, u, C)
    <3> HIDE DEF C
    <3>1. Cut(t, t, C)  BY CutSame
    <3> QED  BY <3>1, <2>3 DEF Cut
  <2> QED  BY <2>5, <2>6, <2>7 DEF u
<1> QED  BY <1>5, <1>6

(* The answer "close without saving".                                      *)
LEMMA ConfirmIs ==
  ASSUME NEW t, NEW n, Fine(t, n), Sound(t)
  PROVE  LET u == Confirm(t)
         IN /\ Fine(u, n) /\ Sound(u) /\ KeepsTop(t, u)
            /\ Cut(t, u, {b \in ToSet(t.bufs) :
                            \/ t.pending.type = "single" /\ b.id = t.pending.id
                            \/ ~b.pinned})
<1> DEFINE p == t.pending
           v == [t EXCEPT !.pending = None]
           ids == IF p.type = "single" THEN <<p.id>>
                  ELSE IdsOf(Batch(v, p.type, p.anchor))
           C == {b \in ToSet(t.bufs) : \/ t.pending.type = "single" /\ b.id = t.pending.id
                                       \/ ~b.pinned}
           u == Confirm(t)
<1>1. u = IF p = None THEN t ELSE CloseForceAll(v, ids)  BY DEF Confirm
<1>2. CASE p = None
  <2>1. u = t  BY <1>1, <1>2
  <2> HIDE DEF C, u
  <2>2. Cut(t, t, C)  BY CutSame
  <2> QED  BY <2>1, <2>2 DEF KeepsTop, C, u
<1>3. CASE p # None
  <2>1. u = CloseForceAll(v, ids)  BY <1>1, <1>3
  <2>2. p \in PendingClose  BY <1>3 DEF Sound, Half
  <2>3. p.id \in Ids /\ p.type \in BatchTypes  BY <2>2 DEF PendingClose
  <2>4. v = [t EXCEPT !.pending = None] /\ IsStore(t)  BY DEF Fine
  <2> HIDE DEF v, u
  <2>5. /\ v.bufs = t.bufs /\ v.active = t.active /\ v.lay = t.lay
        /\ v.closed = t.closed /\ v.pending = None /\ IsStore(v)
    BY ONLY <2>4 DEF IsStore
  <2>6. OpenIds(v) = OpenIds(t)  BY <2>5 DEF OpenIds
  <2>7. Sound(v) /\ (OnTop(t) => OnTop(v))
    BY <2>5, <2>6 DEF Sound, Half, Whole, ActiveOk, OnTop
  <2>8. Fine(v, n)  BY <2>5 DEF Fine
  <2>9. /\ ids \in Seq(Ids)
        /\ \A b \in WithIds(v, ToSet(ids)) : b \in C
    <3>1. CASE p.type = "single"
      <4>1. ids = <<p.id>>  BY <3>1
      <4>2. ids \in Seq(Ids) /\ ToSet(ids) = {p.id}  BY <4>1, <2>3, SingletonFacts
      <4> HIDE DEF ids
      <4> QED  BY <4>2, <3>1, <2>5 DEF WithIds
    <3>2. CASE p.type # "single"
      <4> DEFINE batch == Batch(v, p.type, p.anchor)
      <4>1. ids = IdsOf(batch)  BY <3>2
      <4>2. batch \in Seq(Buffer) /\ \A b \in ToSet(batch) : b \in ToSet(v.bufs) /\ ~b.pinned
        BY <3>2, <2>3, <2>8, BatchIs
      <4> HIDE DEF batch, ids
      <4>3. ids \in Seq(Ids)  BY <4>1, <4>2, IdsOfIs
      <4>4. \A b \in WithIds(v, ToSet(ids)) : b \in ToSet(batch)
        BY <4>1, <4>2, <2>8, WithIdsOf
      <4> QED  BY <4>2, <4>3, <4>4, <2>5
    <3> QED  BY <3>1, <3>2
  <2> HIDE DEF ids, C
  <2>10. Fine(u, n) /\ Cut(v, u, WithIds(v, ToSet(ids)))
    BY <2>1, <2>8, <2>9, CloseForceAllCuts
  <2>11. Sound(u) /\ KeepsTop(v, u)  BY <2>1, <2>7, <2>8, <2>9, CloseForceAllSound
  <2>12. Cut(v, u, C)
    <3>1. WithIds(v, ToSet(ids)) \subseteq C  BY <2>9
    <3> QED  BY <3>1, <2>10, CutWider
  <2>13. Cut(t, u, C)  BY <2>5, <2>12 DEF Cut
  <2> QED  BY <2>7, <2>10, <2>11, <2>13 DEF KeepsTop, C, u
<1> QED  BY <1>2, <1>3

-----------------------------------------------------------------------------
(* Opening.                                                                *)
LEMMA RoomHalf ==
  ASSUME NEW t, NEW n, Fine(t, n), Half(t), NEW id, NEW keepEmpty, NEW u,
         u = [t EXCEPT !.bufs = DropBuffer(t.bufs, id),
                       !.lay = RemoveEverywhere(t.lay, id, keepEmpty)],
         Fine(u, n)
  PROVE  Half(u)
<1> DEFINE bs  == DropBuffer(t.bufs, id)
           lay == RemoveEverywhere(t.lay, id, keepEmpty)
<1>1. u = [t EXCEPT !.bufs = bs, !.lay = lay]  OBVIOUS
<1>2. IsStore(t)  BY DEF Fine
<1> HIDE DEF bs, lay
<1>3. u.bufs = bs /\ u.lay = lay /\ u.pending = t.pending /\ u.closed = t.closed
  BY ONLY <1>1, <1>2 DEF IsStore
<1> QED  BY <1>3, DropHalf DEF bs, lay

(* The three ways of making room.                                          *)
LEMMA CloseNewTabHalf ==
  ASSUME NEW t, NEW n, Fine(t, n), Half(t)
  PROVE  Half(CloseNewTab(t))
<1> DEFINE new == Where(t.bufs, LAMBDA b : b.type = "newTab"
                                           /\ b.id \in ToSet(InFront(t.lay).ids))
           id == Head(new).id
           u == CloseNewTab(t)
<1>1. u = IF new = <<>> THEN t
          ELSE [t EXCEPT !.bufs = DropBuffer(t.bufs, id),
                         !.lay = RemoveEverywhere(t.lay, id, TRUE)]
  BY DEF CloseNewTab
<1>2. Fine(u, n)  BY CloseNewTabCuts
<1> HIDE DEF new, u
<1>3. CASE new = <<>>  BY <1>1, <1>3 DEF u
<1>4. CASE new # <<>>
  <2>1. u = [t EXCEPT !.bufs = DropBuffer(t.bufs, id),
                      !.lay = RemoveEverywhere(t.lay, id, TRUE)]
    BY <1>1, <1>4
  <2> HIDE DEF id
  <2> QED  BY <2>1, <1>2, RoomHalf DEF u
<1> QED  BY <1>3, <1>4

LEMMA EvictOneHalf ==
  ASSUME NEW t, NEW n, Fine(t, n), Half(t), NEW includePreviews
  PROVE  Half(EvictOne(t, includePreviews))
<1> DEFINE cands == Where(t.bufs, LAMBDA b : /\ ~b.pinned
                                             /\ includePreviews \/ ~b.preview
                                             /\ b.type # "terminal")
           old == Head(cands).id
           u == EvictOne(t, includePreviews)
<1>1. u = IF Len(cands) < StoreMax THEN t
          ELSE [t EXCEPT !.bufs = DropBuffer(t.bufs, old),
                         !.lay = RemoveEverywhere(t.lay, old, FALSE)]
  BY DEF EvictOne
<1>2. Fine(u, n)  BY EvictOneCuts
<1> HIDE DEF cands, u
<1>3. CASE Len(cands) < StoreMax  BY <1>1, <1>3 DEF u
<1>4. CASE ~(Len(cands) < StoreMax)
  <2>1. u = [t EXCEPT !.bufs = DropBuffer(t.bufs, old),
                      !.lay = RemoveEverywhere(t.lay, old, FALSE)]
    BY <1>1, <1>4
  <2> HIDE DEF old
  <2> QED  BY <2>1, <1>2, RoomHalf DEF u
<1> QED  BY <1>3, <1>4

LEMMA ReplacePreviewHalf ==
  ASSUME NEW t, NEW n, Fine(t, n), Half(t), NEW preview
  PROVE  Half(ReplacePreview(t, preview))
<1> DEFINE old == InFront(t.lay).preview
           u == ReplacePreview(t, preview)
           goes == preview /\ old \in OpenIds(t) /\ BufferOf(t, old).preview
<1>1. u = IF goes THEN [t EXCEPT !.bufs = DropBuffer(t.bufs, old),
                                 !.lay = RemoveEverywhere(t.lay, old, TRUE)]
          ELSE t
  BY DEF ReplacePreview
<1>2. Fine(u, n)  BY ReplacePreviewCuts
<1> HIDE DEF goes, u
<1>3. CASE ~goes  BY <1>1, <1>3 DEF u
<1>4. CASE goes
  <2>1. u = [t EXCEPT !.bufs = DropBuffer(t.bufs, old),
                      !.lay = RemoveEverywhere(t.lay, old, TRUE)]
    BY <1>1, <1>4
  <2> HIDE DEF old
  <2> QED  BY <2>1, <1>2, RoomHalf DEF u
<1> QED  BY <1>3, <1>4

(* The new buffer is active and on top in front.                           *)
LEMMA AppendBufferSound ==
  ASSUME NEW t, NEW n, Fine(t, n), Half(t), n \in Ids, NEW b, b.id = n,
         NEW u, u = AppendBuffer(t, b), Fine(u, n + 1),
         ToSet(u.bufs) = ToSet(t.bufs) \cup {b}
  PROVE  Sound(u) /\ OnTop(u) /\ u.active = n /\ InPane(u.lay, u.lay.front, n)
<1> DEFINE bs == Append(t.bufs, b)
           lay == ToFront(t.lay, n)
<1>1. u = [t EXCEPT !.bufs = bs, !.active = n, !.lay = lay]  BY DEF AppendBuffer
<1>2. IsStore(t)  BY DEF Fine
<1> HIDE DEF bs, lay
<1>3. /\ u.active = n /\ u.lay = lay /\ u.pending = t.pending /\ u.closed = t.closed
  BY ONLY <1>1, <1>2 DEF IsStore
<1>4. Fronted(t.lay, lay, n)  BY ToFrontIs DEF Half, Whole, lay
<1>5. \A x : x \in OpenIds(u) <=> x \in OpenIds(t) \/ x = n
  <2>1. \A x : x \in OpenIds(t) <=> \E c \in ToSet(t.bufs) : c.id = x  BY OpenIdsIs
  <2>2. \A x : x \in OpenIds(u) <=> \E c \in ToSet(u.bufs) : c.id = x  BY OpenIdsIs
  <2> QED  BY <2>1, <2>2
<1>6. Whole(u) /\ OnTop(u)  BY <1>3, <1>4, <1>5, FrontedWhole DEF Half
<1>7. ActiveOk(u)
  <2>1. OpenIds(u) # {}  BY <1>5
  <2>2. u.bufs # <<>>  BY <2>1, OpenIdsIs
  <2> QED  BY <2>2, <1>3, <1>5 DEF ActiveOk
<1>8. Half(u)  BY <1>3, <1>6 DEF Half
<1> QED  BY <1>3, <1>4, <1>6, <1>7, <1>8 DEF Sound, Fronted

(* Changes that leave the buffers where they are and the panes showing     *)
(* what they showed.                                                       *)
LEMMA SameShownSelf ==
  ASSUME NEW lay, GoodLay(lay)
  PROVE  SameShown(lay, lay)
BY DEF SameShown

(* Changes in place keep the stores in agreement.                          *)
LEMMA PlacesSound ==
  ASSUME NEW t, NEW u, Sound(t), SamePlaces(t.bufs, u.bufs), SameShown(t.lay, u.lay),
         u.active = t.active, u.pending = t.pending, u.closed = t.closed
  PROVE  Sound(u) /\ KeepsTop(t, u)
<1>1. OpenIds(u) = OpenIds(t)  BY SamePlacesIds
<1>2. u.bufs = <<>> <=> t.bufs = <<>>
  <2>1. /\ t.bufs \in Seq(Buffer) /\ u.bufs \in Seq(Buffer)
        /\ DOMAIN u.bufs = DOMAIN t.bufs
    BY DEF SamePlaces
  <2>2. \A s \in Seq(Buffer) : s = <<>> <=> 1 \notin DOMAIN s  OBVIOUS
  <2> QED  BY <2>1, <2>2
<1>3. GoodLay(t.lay)  BY DEF Sound, Half, Whole
<1>4. /\ \A x : Shows(u.lay, x) <=> Shows(t.lay, x)
      /\ InFront(u.lay).active = InFront(t.lay).active
  BY <1>3, SameShownShows
<1>5. Whole(u)  BY <1>1, <1>4 DEF Whole, Sound, Half, SameShown
<1> QED  BY <1>1, <1>2, <1>4, <1>5 DEF Sound, Half, ActiveOk, KeepsTop, OnTop

LEMMA InPlaceSound ==
  ASSUME NEW t, NEW u, Sound(t), SameOnes(t.bufs, u.bufs), SameShown(t.lay, u.lay),
         u.active = t.active, u.pending = t.pending, u.closed = t.closed
  PROVE  Sound(u) /\ KeepsTop(t, u)
BY SameOnesPlaces, PlacesSound

LEMMA SyncPreviewSound ==
  ASSUME NEW t, NEW n, Fine(t, n), Sound(t), NEW id, InPane(t.lay, t.lay.front, id),
         NEW preview
  PROVE  LET u == SyncPreview(t, id, preview)
         IN Sound(u) /\ KeepsTop(t, u)
<1> DEFINE lay == IF preview THEN SetPreview(t.lay, t.lay.front, id)
                  ELSE ClearPreview(t.lay, id)
           u == SyncPreview(t, id, preview)
<1>1. u = [t EXCEPT !.lay = lay] /\ IsStore(t)  BY DEF SyncPreview, Fine
<1>2. GoodLay(t.lay)  BY DEF Sound, Half, Whole
<1>3. SameShown(t.lay, lay)  BY <1>2, SetPreviewIs, ClearPreviewIs
<1> HIDE DEF lay, u
<1>4. /\ u.bufs = t.bufs /\ u.active = t.active /\ u.pending = t.pending
      /\ u.closed = t.closed /\ u.lay = lay
  BY ONLY <1>1 DEF IsStore
<1>5. SameOnes(t.bufs, u.bufs)  BY <1>4, SameOnesSelf
<1> QED  BY <1>3, <1>4, <1>5, InPlaceSound DEF u

LEMMA MakeDefiniteSound ==
  ASSUME NEW t, NEW n, Fine(t, n), Sound(t), NEW id
  PROVE  LET u == MakeDefinite(t, id)
         IN Sound(u) /\ KeepsTop(t, u)
<1> DEFINE bs == Update(t.bufs, id, LAMBDA b : [b EXCEPT !.preview = FALSE])
           lay == ClearPreview(t.lay, id)
           u == MakeDefinite(t, id)
<1>1. u = [t EXCEPT !.bufs = bs, !.lay = lay] /\ IsStore(t)  BY DEF MakeDefinite, Fine
<1>2. GoodLay(t.lay)  BY DEF Sound, Half, Whole
<1>3. SameShown(t.lay, lay)  BY <1>2, ClearPreviewIs
<1>4. SameOnes(t.bufs, u.bufs)  BY MakeDefiniteIs
<1> HIDE DEF bs, lay, u
<1>5. /\ u.active = t.active /\ u.pending = t.pending /\ u.closed = t.closed
      /\ u.lay = lay
  BY ONLY <1>1 DEF IsStore
<1> QED  BY <1>3, <1>4, <1>5, InPlaceSound DEF u

LEMMA SetDirtySound ==
  ASSUME NEW t, NEW n, Fine(t, n), Sound(t), NEW id, NEW d \in BOOLEAN
  PROVE  LET u == SetDirty(t, id, d)
         IN Sound(u) /\ KeepsTop(t, u) /\ u.active = t.active
<1> DEFINE bs == Update(t.bufs, id, LAMBDA b : [b EXCEPT !.dirty = d])
           u == SetDirty(t, id, d)
<1>1. u = [t EXCEPT !.bufs = bs] /\ IsStore(t)  BY DEF SetDirty, Fine
<1>2. SameShown(t.lay, t.lay)  BY SameShownSelf DEF Sound, Half, Whole
<1>3. SameOnes(t.bufs, u.bufs)  BY SetDirtyIs
<1> HIDE DEF bs, u
<1>4. /\ u.active = t.active /\ u.pending = t.pending /\ u.closed = t.closed
      /\ u.lay = t.lay
  BY ONLY <1>1 DEF IsStore
<1> QED  BY <1>2, <1>3, <1>4, InPlaceSound DEF u

LEMMA GivePathSound ==
  ASSUME NEW t, NEW n, Fine(t, n), Sound(t), NEW id, NEW path \in Paths
  PROVE  LET u == GivePath(t, id, path)
         IN Sound(u) /\ KeepsTop(t, u)
<1> DEFINE twin == OpenElsewhere(t, id, path)
           bs == Update(t.bufs, id, LAMBDA b :
                          IF b.type # "editor" THEN b
                          ELSE [b EXCEPT !.path = path, !.twin = twin])
           u == GivePath(t, id, path)
<1>1. u = [t EXCEPT !.bufs = bs] /\ IsStore(t)  BY DEF GivePath, Fine
<1>2. SameShown(t.lay, t.lay)  BY SameShownSelf DEF Sound, Half, Whole
<1>3. SamePlaces(t.bufs, u.bufs)  BY GivePathIs
<1> HIDE DEF bs, u
<1>4. /\ u.active = t.active /\ u.pending = t.pending /\ u.closed = t.closed
      /\ u.lay = t.lay
  BY ONLY <1>1 DEF IsStore
<1> QED  BY <1>2, <1>3, <1>4, PlacesSound DEF u

(* The first save of an untitled buffer.                                   *)
LEMMA SaveAsIs ==
  ASSUME NEW t, NEW n, Fine(t, n), Sound(t), NEW id, NEW path \in Paths
  PROVE  LET u == SaveAs(t, id, path)
         IN /\ Fine(u, n) /\ SamePlaces(t.bufs, u.bufs) /\ u.pending = t.pending
            /\ \A k \in DOMAIN t.bufs : u.bufs[k].pinned = t.bufs[k].pinned
            /\ Sound(u) /\ KeepsTop(t, u)
<1> DEFINE v == GivePath(t, id, path)
           u == SaveAs(t, id, path)
           d == FALSE
<1>1. /\ Fine(v, n) /\ SamePlaces(t.bufs, v.bufs) /\ v.pending = t.pending
      /\ \A k \in DOMAIN t.bufs : v.bufs[k].pinned = t.bufs[k].pinned
      /\ Sound(v) /\ KeepsTop(t, v)
  BY GivePathIs, GivePathSound
<1>2. u = SetDirty(v, id, d) /\ d \in BOOLEAN  BY DEF SaveAs
<1> HIDE DEF u, v, d
<1>3. /\ Fine(u, n) /\ SameOnes(v.bufs, u.bufs) /\ u.pending = v.pending
      /\ \A k \in DOMAIN v.bufs : u.bufs[k].pinned = v.bufs[k].pinned
      /\ Sound(u) /\ KeepsTop(v, u)
  BY <1>1, <1>2, SetDirtyIs, SetDirtySound
<1>4. SamePlaces(t.bufs, u.bufs) /\ DOMAIN v.bufs = DOMAIN t.bufs
  BY <1>1, <1>3 DEF SamePlaces, SameOnes
<1> QED  BY <1>1, <1>3, <1>4 DEF u, KeepsTop

LEMMA TogglePinSound ==
  ASSUME NEW t, NEW n, Fine(t, n), Sound(t), NEW id, id \in OpenIds(t),
         BufferOf(t, id).type # "newTab"
  PROVE  LET u == TogglePin(t, id)
         IN Sound(u) /\ KeepsTop(t, u)
<1> DEFINE pinned == ~BufferOf(t, id).pinned
           bs == Update(t.bufs, id, LAMBDA b : [b EXCEPT !.pinned = pinned])
           v == [t EXCEPT !.bufs = bs]
           u == TogglePin(t, id)
<1>1. u = IF pinned THEN MakeDefinite(v, id) ELSE v  BY DEF TogglePin
<1>2. IsStore(t) /\ v = [t EXCEPT !.bufs = bs]  BY DEF Fine
<1>3. SameOnes(t.bufs, u.bufs)  BY TogglePinIs
<1>4. GoodLay(t.lay)  BY DEF Sound, Half, Whole
<1> HIDE DEF bs, v, u, pinned
<1>5. /\ v.active = t.active /\ v.pending = t.pending /\ v.closed = t.closed
      /\ v.lay = t.lay /\ IsStore(v)
  BY ONLY <1>2 DEF IsStore
<1>6. CASE pinned
  <2> DEFINE cs == Update(v.bufs, id, LAMBDA b : [b EXCEPT !.preview = FALSE])
             lay == ClearPreview(t.lay, id)
  <2>1. u = [v EXCEPT !.bufs = cs, !.lay = lay]
    BY <1>1, <1>5, <1>6 DEF MakeDefinite
  <2>2. SameShown(t.lay, lay)  BY <1>4, ClearPreviewIs
  <2> HIDE DEF cs, lay
  <2>3. /\ u.active = v.active /\ u.pending = v.pending /\ u.closed = v.closed
        /\ u.lay = lay
    BY ONLY <2>1, <1>5 DEF IsStore
  <2> QED  BY <2>2, <2>3, <1>3, <1>5, InPlaceSound DEF u
<1>7. CASE ~pinned
  <2>1. u = v  BY <1>1, <1>7
  <2>2. SameShown(t.lay, u.lay)  BY <2>1, <1>4, <1>5, SameShownSelf
  <2> QED  BY <2>1, <2>2, <1>3, <1>5, InPlaceSound DEF u
<1> QED  BY <1>6, <1>7

(* setActiveBuffer shows the buffer and brings it to the front.            *)
LEMMA ActivateSound ==
  ASSUME NEW t, NEW n, Fine(t, n), Sound(t), NEW id, id \in OpenIds(t)
  PROVE  LET u == Activate(t, id)
         IN Sound(u) /\ OnTop(u)
<1> DEFINE lay == Focus(t.lay, id)
           u == Activate(t, id)
<1>1. u = [t EXCEPT !.active = id, !.lay = lay] /\ IsStore(t)  BY DEF Activate, Fine
<1>2. id \in Ids /\ OpenIds(t) # {}  BY OpenIdsIs
<1>3. Fronted(t.lay, lay, id)  BY <1>2, FocusIs DEF Sound, Half, Whole
<1> HIDE DEF lay, u
<1>4. /\ u.bufs = t.bufs /\ u.active = id /\ u.pending = t.pending
      /\ u.closed = t.closed /\ u.lay = lay
  BY ONLY <1>1 DEF IsStore
<1>5. OpenIds(u) = OpenIds(t)  BY <1>4 DEF OpenIds
<1>6. Whole(u) /\ OnTop(u)  BY <1>3, <1>4, <1>5, FrontedWhole DEF Sound, Half
<1>7. t.bufs # <<>>  BY <1>2, OpenIdsIs
<1> QED  BY <1>4, <1>5, <1>6, <1>7 DEF Sound, Half, ActiveOk, u

(* openContent, for a file that has a tab and for one that has none.       *)
LEMMA OpenEditorSound ==
  ASSUME NEW t, NEW n, Fine(t, n), Sound(t), n \in Ids, NEW path \in Paths \cup Untitled,
         NEW preview \in BOOLEAN
  PROVE  LET u == OpenEditor(t, path, preview, n)
         IN Sound(u) /\ OnTop(u)
<1> DEFINE S    == {b \in ToSet(t.bufs) : b.path = path}
           same == Only(t.bufs, S)
           old  == Head(same).id
           room == EvictOne(ReplacePreview(CloseNewTab(t), preview), FALSE)
           new  == NewBuffer(n, path, "editor", preview)
           bs   == t.bufs
           cs   == Update(bs, old, LAMBDA b : [b EXCEPT !.preview = @ /\ preview])
           lay  == ToFront(t.lay, old)
           v    == [t EXCEPT !.active = old, !.bufs = cs, !.lay = lay]
           u    == OpenEditor(t, path, preview, n)
<1>1. u = IF same # <<>> THEN SyncPreview(v, old, preview)
          ELSE SyncPreview(AppendBuffer(room, new), n, preview)
  BY DEF OpenEditor, Where
<1>2. bs \in Seq(Buffer) /\ GoodBufs(bs, n) /\ IsStore(t)  BY DEF Fine, GoodBufs
<1>3. same \in Seq(Buffer) /\ ToSet(same) = ToSet(bs) \cap S
  BY <1>2, OnlyFacts
<1>4. same # <<>> => Head(same) \in ToSet(bs) /\ Head(same) \in S
  BY <1>2, HeadOfOnly
<1>5. \A b : b \in S <=> b \in ToSet(bs) /\ b.path = path  OBVIOUS
<1>6. cs = [k \in DOMAIN bs |-> IF bs[k].id = old
                                THEN [bs[k] EXCEPT !.preview = @ /\ preview] ELSE bs[k]]
  BY DEF Update
<1>7. v = [t EXCEPT !.active = old, !.bufs = cs, !.lay = lay]  OBVIOUS
<1>8. \A b : b \in ToSet(same) => b.path = path  BY <1>3, <1>5
<1> HIDE DEF S, same, bs, cs, lay, v, u, room
<1>9. CASE same # <<>>
  <2>1. old \in OpenIds(t)  BY <1>4, <1>9, BufferIsOpen DEF bs
  <2>2. ASSUME NEW k \in DOMAIN bs
        PROVE  /\ cs[k] \in Buffer /\ cs[k].id = bs[k].id /\ cs[k].path = bs[k].path
               /\ cs[k].twin = bs[k].twin
               /\ cs[k].type = bs[k].type /\ cs[k].pinned = bs[k].pinned
               /\ cs[k].preview => bs[k].preview
    <3>1. bs[k] \in Buffer  BY <1>2
    <3>2. CASE bs[k].id = old
      <4> DEFINE d == bs[k].preview /\ preview
      <4>1. cs[k] = [bs[k] EXCEPT !.preview = d]  BY <1>6, <3>2
      <4>2. d \in BOOLEAN  OBVIOUS
      <4>3. d => bs[k].preview  OBVIOUS
      <4> HIDE DEF d
      <4>4. /\ cs[k] \in Buffer /\ cs[k].id = bs[k].id /\ cs[k].path = bs[k].path
            /\ cs[k].twin = bs[k].twin
            /\ cs[k].type = bs[k].type /\ cs[k].pinned = bs[k].pinned
            /\ cs[k].preview = d
        BY <3>1, <4>1, <4>2, WithPreview
      <4> QED  BY <4>3, <4>4
    <3>3. CASE bs[k].id # old  BY <1>6, <3>1, <3>3
    <3> QED  BY <3>2, <3>3
  <2>3. cs \in Seq(Buffer) /\ DOMAIN cs = DOMAIN bs
    <3>1. cs = [k \in DOMAIN bs |-> cs[k]]  BY <1>6
    <3> QED  BY <3>1, <1>2, <2>2, PointwiseSeq
  <2>4. SameOnes(bs, cs)  BY <1>2, <2>2, <2>3 DEF SameOnes
  <2>5. \A k \in DOMAIN bs : cs[k].pinned => ~cs[k].preview /\ cs[k].type # "newTab"
    BY <1>2, <2>2 DEF GoodBufs
  <2>6. GoodBufs(cs, n)  BY <1>2, <2>4, <2>5, SameOnesGood
  <2> HIDE DEF old
  <2>7. v = [bufs |-> cs, active |-> old, pending |-> t.pending,
             closed |-> t.closed, lay |-> lay]
    BY ONLY <1>7, <1>2 DEF IsStore
  <2>8. Fine(v, n)  BY <2>6, <2>7 DEF Fine, IsStore
  <2>9. OpenIds(v) = OpenIds(t)
    <3>1. SameOnes(t.bufs, v.bufs)  BY <2>4, <2>7 DEF bs
    <3> QED  BY <3>1, SameOnesIds
  <2>10. old \in Ids  BY <2>1, OpenIdsIs
  <2>11. Fronted(t.lay, lay, old)  BY <2>10, ToFrontIs DEF Sound, Half, Whole, lay
  <2>12. Whole(v) /\ OnTop(v)
    BY <2>1, <2>7, <2>9, <2>11, FrontedWhole DEF Sound, Half
  <2>13. v.bufs # <<>>
    <3>1. OpenIds(v) # {}  BY <2>1, <2>9
    <3> QED  BY <3>1, <2>8, OpenIdsIs
  <2>14. Sound(v)  BY <2>1, <2>7, <2>9, <2>12, <2>13 DEF Sound, Half, ActiveOk
  <2>15. InPane(v.lay, v.lay.front, old)  BY <2>7, <2>11 DEF Fronted
  <2>16. u = SyncPreview(v, old, preview)  BY <1>1, <1>9
  <2> QED  BY <2>8, <2>12, <2>14, <2>15, <2>16, SyncPreviewSound DEF u, KeepsTop
<1>10. CASE same = <<>>
  <2>1. \A k \in DOMAIN bs : bs[k].path # path
    <3>1. ToSet(same) = {}  BY <1>10, EmptyFacts
    <3>2. \A b \in ToSet(bs) : b.path # path  BY <3>1, <1>3, <1>5
    <3> QED  BY <3>2 DEF ToSet
  <2> DEFINE t1 == CloseNewTab(t)
             t2 == ReplacePreview(t1, preview)
  <2>2. Fine(t1, n) /\ Half(t1) /\ Cut(t, t1, Expendable(t))
    BY CloseNewTabCuts, CloseNewTabHalf DEF Sound
  <2>3. Fine(t2, n) /\ Half(t2) /\ Cut(t1, t2, Expendable(t1))
    BY <2>2, ReplacePreviewCuts, ReplacePreviewHalf
  <2>4. Fine(room, n) /\ Half(room) /\ Cut(t2, room, Expendable(t2))
    BY <2>3, EvictOneCuts, EvictOneHalf DEF room
  <2>5. \A k \in DOMAIN room.bufs : room.bufs[k].path # path
    <3>1. /\ ToSet(t1.bufs) \subseteq ToSet(t.bufs)
          /\ ToSet(t2.bufs) \subseteq ToSet(t1.bufs)
          /\ ToSet(room.bufs) \subseteq ToSet(t2.bufs)
      BY <2>2, <2>3, <2>4, CutSubset
    <3>2. \A b \in ToSet(room.bufs) : b \in ToSet(bs)  BY <3>1 DEF bs
    <3> QED  BY <3>2, <2>1 DEF ToSet
  <2>6. /\ new \in Buffer /\ new.id = n /\ new.path = path /\ new.type = "editor"
        /\ ~new.pinned
    BY DEF NewBuffer, Buffer, Types
  <2>7. path # None  BY PathIsNotNone
  <2> HIDE DEF new, t1, t2
  <2> DEFINE w == AppendBuffer(room, new)
  <2>8. Fine(w, n + 1) /\ ToSet(w.bufs) = ToSet(room.bufs) \cup {new}
    BY <2>4, <2>5, <2>6, <2>7, AppendBufferGood
  <2> HIDE DEF w
  <2>9. Sound(w) /\ OnTop(w) /\ w.active = n /\ InPane(w.lay, w.lay.front, n)
    BY <2>4, <2>6, <2>8, AppendBufferSound DEF w
  <2>10. u = SyncPreview(w, n, preview)  BY <1>1, <1>10 DEF w
  <2> QED  BY <2>8, <2>9, <2>10, SyncPreviewSound DEF u, KeepsTop
<1> QED  BY <1>9, <1>10

(* Another buffer becomes the active one and comes to the front.           *)
LEMMA FrontedSound ==
  ASSUME NEW t, NEW n, Fine(t, n), Half(t), NEW id, id \in OpenIds(t),
         NEW u, IsStore(u), u.bufs = t.bufs, u.pending = t.pending,
         u.closed = t.closed, u.active = id, Fronted(t.lay, u.lay, id)
  PROVE  Fine(u, n) /\ SameOnes(t.bufs, u.bufs) /\ Sound(u) /\ OnTop(u)
<1>1. OpenIds(u) = OpenIds(t)  BY DEF OpenIds
<1>2. Whole(u) /\ OnTop(u)  BY <1>1, FrontedWhole DEF Half
<1>3. t.bufs # <<>>
  <2>1. OpenIds(t) # {}  OBVIOUS
  <2> QED  BY <2>1, OpenIdsIs
<1>4. Fine(u, n) /\ SameOnes(t.bufs, u.bufs)  BY SameBufs
<1> QED  BY <1>1, <1>2, <1>3, <1>4 DEF Sound, Half, ActiveOk

(* The panes change, and show the same buffers.                            *)
LEMMA RelaidSound ==
  ASSUME NEW t, NEW n, Fine(t, n), Sound(t), NEW lay, GoodLay(lay),
         \A x : Shows(lay, x) <=> Shows(t.lay, x)
  PROVE  LET u == [t EXCEPT !.lay = lay]
         IN /\ Fine(u, n) /\ SameOnes(t.bufs, u.bufs) /\ Sound(u)
            /\ u.lay = lay /\ u.active = t.active /\ OpenIds(u) = OpenIds(t)
            /\ IsStore(u) /\ u.bufs = t.bufs /\ u.pending = t.pending
            /\ u.closed = t.closed
<1> DEFINE u == [t EXCEPT !.lay = lay]
<1>1. u = [t EXCEPT !.lay = lay] /\ IsStore(t)  BY DEF Fine
<1> HIDE DEF u
<1>2. /\ u.bufs = t.bufs /\ u.active = t.active /\ u.pending = t.pending
      /\ u.closed = t.closed /\ u.lay = lay /\ IsStore(u)
  BY ONLY <1>1 DEF IsStore
<1>3. Fine(u, n) /\ SameOnes(t.bufs, u.bufs)  BY <1>2, SameBufs
<1>4. OpenIds(u) = OpenIds(t)  BY <1>2 DEF OpenIds
<1> QED  BY <1>2, <1>3, <1>4 DEF u, Sound, Half, Whole, ActiveOk

(* What a pane shows is open.                                              *)
LEMMA ShownIsOpen ==
  ASSUME NEW t, Whole(t), NEW p, HasPane(t.lay, p), NEW id,
         id \in ToSet(PaneAt(t.lay, p).ids)
  PROVE  InPane(t.lay, p, id) /\ id \in OpenIds(t)
<1>1. InPane(t.lay, p, id)  BY DEF InPane
<1>2. p \in PaneIds  BY PaneAtIs DEF Whole, GoodLay
<1> QED  BY <1>1, <1>2 DEF Whole, Shows

(* activateBufferInPaneAndSync                                             *)
LEMMA ShowHereSound ==
  ASSUME NEW t, NEW n, Fine(t, n), Sound(t), NEW p, HasPane(t.lay, p),
         NEW id, id \in OpenIds(t)
  PROVE  LET u == ShowHere(t, p, id)
         IN Fine(u, n) /\ SameOnes(t.bufs, u.bufs) /\ Sound(u) /\ OnTop(u)
<1> DEFINE lay == ShowIn(t.lay, p, id)
           v == [t EXCEPT !.lay = lay]
           u == ShowHere(t, p, id)
<1>1. u = IF t.active = id THEN v ELSE Activate(v, id)  BY DEF ShowHere
<1>2. Whole(t) /\ Half(t) /\ LooseLay(t.lay)  BY DEF Sound, Half, Whole, GoodLay
<1>3. id \in Ids  BY OpenIdsIs
<1>4. Fronted(t.lay, lay, id)  BY <1>2, <1>3, ShowInFronts
<1>5. GoodLay(lay) /\ \A x : Shows(lay, x) <=> Shows(t.lay, x)
  BY <1>2, <1>4 DEF Fronted, Whole
<1> HIDE DEF lay
<1>6. /\ Fine(v, n) /\ SameOnes(t.bufs, v.bufs) /\ Sound(v)
      /\ v.lay = lay /\ v.active = t.active /\ OpenIds(v) = OpenIds(t)
      /\ IsStore(v) /\ v.bufs = t.bufs /\ v.pending = t.pending
      /\ v.closed = t.closed
  BY <1>5, RelaidSound
<1> HIDE DEF v, u
<1>7. CASE t.active = id
  <2>1. u = v  BY <1>1, <1>7
  <2>2. Fine(v, n) /\ SameOnes(t.bufs, v.bufs) /\ Sound(v) /\ OnTop(v)
    BY <1>2, <1>4, <1>6, <1>7, FrontedSound
  <2> QED  BY <2>1, <2>2 DEF u
<1>8. CASE t.active # id
  <2>1. u = Activate(v, id)  BY <1>1, <1>8
  <2>2. Fine(u, n) /\ SameOnes(v.bufs, u.bufs)  BY <2>1, <1>6, ActivateIs
  <2>3. Sound(u) /\ OnTop(u)  BY <2>1, <1>6, ActivateSound
  <2> QED  BY <2>2, <2>3, <1>6 DEF u
<1> QED  BY <1>7, <1>8

(* Pinning a reopened tab again.                                           *)
LEMMA RepinIs ==
  ASSUME NEW t, NEW n, Fine(t, n), Sound(t), t.active \in OpenIds(t),
         BufferOf(t, t.active).type # "newTab", NEW pinned
  PROVE  LET u == Repin(t, pinned)
         IN Fine(u, n) /\ SameOnes(t.bufs, u.bufs) /\ Sound(u) /\ KeepsTop(t, u)
<1>1. CASE pinned
  <2>1. Repin(t, pinned) = TogglePin(t, t.active)  BY <1>1 DEF Repin
  <2> QED  BY <2>1, TogglePinIs, TogglePinSound
<1>2. CASE ~pinned
  <2>1. Repin(t, pinned) = t  BY <1>2 DEF Repin
  <2> QED  BY <2>1, SameOnesSelf DEF KeepsTop
<1> QED  BY <1>1, <1>2

(* The tabs are put in another order.                                      *)
LEMMA RemoveAtIs ==
  ASSUME NEW T, NEW s \in Seq(T), NEW i \in 1 .. Len(s)
  PROVE  LET r == RemoveAt(s, i)
         IN /\ r \in Seq(T) /\ Len(r) = Len(s) - 1
            /\ \A k \in 1 .. Len(s) - 1 : k < i => r[k] = s[k]
            /\ \A k \in 1 .. Len(s) - 1 : k >= i => r[k] = s[k + 1]
<1> DEFINE a == SubSeq(s, 1, i - 1)
           b == SubSeq(s, i + 1, Len(s))
           r == RemoveAt(s, i)
<1>1. Len(s) \in Nat /\ DOMAIN s = 1 .. Len(s) /\ i \in Nat  OBVIOUS
<1>2. r = a \o b  BY DEF RemoveAt
<1>3. /\ a \in Seq(T) /\ Len(a) = i - 1
      /\ \A k \in 1 .. i - 1 : a[k] = s[k]
  BY <1>1
<1>4. /\ b \in Seq(T) /\ Len(b) = Len(s) - i
      /\ \A k \in 1 .. Len(s) - i : b[k] = s[i + k]
  <2> DEFINE h == i + 1
             m == Len(s)
  <2>1. h \in Nat \ {0} /\ m \in Nat /\ h <= m + 1  BY <1>1
  <2>2. SubSeq(s, h, m) \in Seq(T) /\ Len(SubSeq(s, h, m)) = m - h + 1
        /\ \A k \in 1 .. m - h + 1 : SubSeq(s, h, m)[k] = s[h + k - 1]
    <3> HIDE DEF h
    <3>1. CASE h <= m  BY <2>1, <3>1
    <3>2. CASE h = m + 1
      <4>1. SubSeq(s, h, m) = <<>>  BY <2>1, <3>2
      <4>2. 1 .. m - h + 1 = {} /\ m - h + 1 = 0  BY <2>1, <3>2
      <4> HIDE DEF m
      <4> QED  BY <4>1, <4>2, EmptyFacts
    <3> QED  BY <2>1, <3>1, <3>2
  <2>3. m - h + 1 = Len(s) - i /\ \A k \in 1 .. Len(s) - i : h + k - 1 = i + k
    BY <1>1
  <2> QED  BY <2>2, <2>3
<1> HIDE DEF a, b, r
<1>5. /\ r \in Seq(T) /\ Len(r) = Len(s) - 1
      /\ \A k \in 1 .. i - 1 : r[k] = a[k]
      /\ \A k \in 1 .. Len(s) - i : r[i - 1 + k] = b[k]
  <2>1. r \in Seq(T) /\ Len(r) = Len(a) + Len(b)
        /\ (\A k \in 1 .. Len(a) : r[k] = a[k])
        /\ (\A k \in 1 .. Len(b) : r[Len(a) + k] = b[k])
    <3>1. a \in Seq(T) /\ b \in Seq(T)  BY <1>3, <1>4
    <3> QED  BY ONLY <3>1, <1>2, ConcatAt
  <2>2. i - 1 + (Len(s) - i) = Len(s) - 1  BY <1>1
  <2> QED  BY <2>1, <2>2, <1>3, <1>4
<1>6. \A k \in 1 .. Len(s) - 1 : k < i => r[k] = s[k]  BY <1>1, <1>3, <1>5
<1>7. ASSUME NEW k \in 1 .. Len(s) - 1, k >= i  PROVE  r[k] = s[k + 1]
  <2>1. k - (i - 1) \in 1 .. Len(s) - i  BY <1>1, <1>7
  <2>2. r[i - 1 + (k - (i - 1))] = b[k - (i - 1)]  BY <2>1, <1>5
  <2>3. b[k - (i - 1)] = s[i + (k - (i - 1))]  BY <2>1, <1>4
  <2>4. i - 1 + (k - (i - 1)) = k /\ i + (k - (i - 1)) = k + 1  BY <1>1
  <2> QED  BY <2>2, <2>3, <2>4
<1> QED  BY <1>5, <1>6, <1>7 DEF r

(* reorderBuffers permutes.                                                *)
LEMMA ReorderIs ==
  ASSUME NEW t, NEW n, Fine(t, n), Sound(t), NEW from \in DOMAIN t.bufs,
         NEW to \in DOMAIN t.bufs
  PROVE  LET u == [t EXCEPT !.bufs = InsertAt(RemoveAt(t.bufs, from), to, t.bufs[from])]
         IN Fine(u, n) /\ Sound(u) /\ KeepsTop(t, u) /\ OpenIds(u) = OpenIds(t)
<1> DEFINE bs == t.bufs
           rest == RemoveAt(bs, from)
           cs == InsertAt(rest, to, bs[from])
           u == [t EXCEPT !.bufs = cs]
           m == Len(bs)
<1>1. u = [t EXCEPT !.bufs = cs] /\ IsStore(t)  BY DEF Fine
<1>2. bs \in Seq(Buffer) /\ GoodBufs(bs, n)  BY DEF Fine, GoodBufs
<1>3. m \in Nat /\ DOMAIN bs = 1 .. m /\ from \in 1 .. m /\ to \in 1 .. m  BY <1>2
<1>4. /\ rest \in Seq(Buffer) /\ Len(rest) = m - 1
      /\ \A k \in 1 .. m - 1 : k < from => rest[k] = bs[k]
      /\ \A k \in 1 .. m - 1 : k >= from => rest[k] = bs[k + 1]
  BY <1>2, <1>3, RemoveAtIs
<1> HIDE DEF rest
<1>5. bs[from] \in Buffer  BY <1>2, <1>3
<1>6. to \in 1 .. Len(rest) + 1  BY <1>3, <1>4
<1>7. /\ cs \in Seq(Buffer) /\ DOMAIN cs = 1 .. Len(rest) + 1 /\ cs[to] = bs[from]
      /\ \A k \in 1 .. Len(rest) : k < to => cs[k] = rest[k]
      /\ \A k \in 1 .. Len(rest) : k >= to => cs[k + 1] = rest[k]
  <2> DEFINE e == bs[from]
  <2>1. rest \in Seq(Buffer)  BY <1>4
  <2>2. cs = InsertAt(rest, to, e)  OBVIOUS
  <2>3. e \in Buffer  BY <1>5
  <2> HIDE DEF cs, bs, m, e, u
  <2>4. /\ cs \in Seq(Buffer) /\ DOMAIN cs = 1 .. Len(rest) + 1 /\ cs[to] = e
        /\ \A k \in 1 .. Len(rest) : k < to => cs[k] = rest[k]
        /\ \A k \in 1 .. Len(rest) : k >= to => cs[k + 1] = rest[k]
    BY ONLY <2>1, <2>2, <2>3, <1>6, InsertAtIs
  <2> QED  BY ONLY <2>4 DEF e
<1> HIDE DEF cs, bs, m
<1>8. DOMAIN cs = 1 .. m  BY <1>3, <1>4, <1>7
<1> DEFINE in(k)  == IF k < to THEN k ELSE k - 1
           out(k) == IF k < from THEN k ELSE k + 1
           at(k)  == IF k = to THEN from ELSE out(in(k))
<1>9. \A k \in 1 .. m : at(k) \in 1 .. m  BY <1>3
<1>10. \A j, k \in 1 .. m : at(j) = at(k) => j = k  BY <1>3
<1>11. \A j \in 1 .. m : \E k \in 1 .. m : at(k) = j
  <2> SUFFICES ASSUME NEW j \in 1 .. m  PROVE  \E k \in 1 .. m : at(k) = j
    OBVIOUS
  <2>1. CASE j = from  BY <2>1, <1>3
  <2>2. CASE j # from
    <3> DEFINE i == IF j < from THEN j ELSE j - 1
               k == IF i < to THEN i ELSE i + 1
    <3>1. k \in 1 .. m /\ at(k) = j  BY <2>2, <1>3
    <3> QED  BY <3>1
  <2> QED  BY <2>1, <2>2
<1>12. \A k \in 1 .. m : cs[k] = bs[at(k)]
  <2> SUFFICES ASSUME NEW k \in 1 .. m  PROVE  cs[k] = bs[at(k)]
    OBVIOUS
  <2>1. CASE k = to  BY <2>1, <1>7
  <2>2. CASE k < to
    <3>1. k \in 1 .. m - 1 /\ in(k) = k  BY <2>2, <1>3
    <3>2. cs[k] = rest[k]  BY <3>1, <2>2, <1>3, <1>4, <1>7
    <3>3. rest[k] = bs[out(k)]  BY <3>1, <1>3, <1>4
    <3> QED  BY <3>1, <3>2, <3>3, <2>2, <1>3
  <2>3. CASE k > to
    <3>1. k - 1 \in 1 .. m - 1 /\ in(k) = k - 1 /\ k - 1 >= to /\ k - 1 + 1 = k
      BY <2>3, <1>3
    <3>2. cs[k - 1 + 1] = rest[k - 1]  BY ONLY <3>1, <1>3, <1>4, <1>7
    <3>3. rest[k - 1] = bs[out(k - 1)]  BY <3>1, <1>3, <1>4
    <3> QED  BY <3>1, <3>2, <3>3, <2>3, <1>3
  <2> QED  BY <2>1, <2>2, <2>3, <1>3
<1> HIDE DEF at
<1>13. GoodBufs(cs, n)
  <2> HIDE DEF in, out
  <2>1. \A j, k \in 1 .. m :
          /\ bs[j].id = bs[k].id => j = k
          /\ bs[j].path = bs[k].path /\ bs[j].type = "editor"
               => j = k \/ bs[j].twin \/ bs[k].twin
    BY <1>2, <1>3 DEF GoodBufs
  <2>2. \A k \in 1 .. m :
          /\ bs[k].id < n
          /\ bs[k].type = "editor" <=> bs[k].path # None
          /\ bs[k].pinned => ~bs[k].preview /\ bs[k].type # "newTab"
    BY <1>2, <1>3 DEF GoodBufs
  <2>3. \A j, k \in 1 .. m :
          /\ cs[j].id = cs[k].id => j = k
          /\ cs[j].path = cs[k].path /\ cs[j].type = "editor"
               => j = k \/ cs[j].twin \/ cs[k].twin
    BY <2>1, <1>9, <1>10, <1>12
  <2>4. \A k \in 1 .. m :
          /\ cs[k].id < n
          /\ cs[k].type = "editor" <=> cs[k].path # None
          /\ cs[k].pinned => ~cs[k].preview /\ cs[k].type # "newTab"
    BY <2>2, <1>9, <1>12
  <2> QED  BY <2>3, <2>4, <1>7, <1>8 DEF GoodBufs
<1> HIDE DEF u
<1>14. /\ u.bufs = cs /\ u.active = t.active /\ u.pending = t.pending
       /\ u.closed = t.closed /\ u.lay = t.lay /\ IsStore(u)
  BY ONLY <1>1 DEF IsStore
<1>15. Fine(u, n)  BY <1>13, <1>14 DEF Fine
<1>16. OpenIds(u) = OpenIds(t)
  <2>1. \A x : x \in OpenIds(t) <=> \E k \in 1 .. m : bs[k].id = x
    BY <1>3, OpenIdsIs DEF bs
  <2>2. \A x : x \in OpenIds(u) <=> \E k \in 1 .. m : cs[k].id = x
    BY <1>8, <1>14, <1>15, OpenIdsIs
  <2>3. \A x : x \in OpenIds(u) <=> x \in OpenIds(t)
    BY <2>1, <2>2, <1>9, <1>11, <1>12
  <2> QED  BY <2>3
<1>17. u.bufs = <<>> <=> t.bufs = <<>>
  BY <1>15, <1>16, OpenIdsIs
<1>18. Sound(u) /\ KeepsTop(t, u)
  BY <1>14, <1>16, <1>17 DEF Sound, Half, Whole, ActiveOk, KeepsTop, OnTop
<1> QED  BY <1>15, <1>16, <1>18 DEF u, cs, rest, bs

-----------------------------------------------------------------------------
(* Steps.  What each of them keeps of the invariant, and what it may take  *)
(* out of the tabs.                                                        *)
StoresOk == Fine(tabs, nextId) /\ Sound(tabs)

Requests ==
  /\ openReq \in [path : Paths, preview : BOOLEAN] \cup {None}
  /\ reopening \in ClosedTab \cup {None}
  /\ saving \in [id : Ids \cup {None}, untitled : BOOLEAN] \cup {None}
  /\ limitDue \in BOOLEAN
  /\ nextId \in 1 .. MaxOpens + 1

(* The inductive invariant.                                                *)
Inv == StoresOk /\ Requests

(* The stores become u, and lose no other buffers than those of S.         *)
Leaves(t, u, n, S) == Fine(u, n) /\ Sound(u) /\ Loses(t, u, S)

(* What a step does; all but those that split and close panes also keep    *)
(* the active buffer on top.                                               *)
Safe(S) == Leaves(tabs, tabs', nextId', S) /\ Requests'
SafeOnTop(S) == Safe(S) /\ KeepsTop(tabs, tabs')

(* What is lost, for a larger set and for the same open ids.               *)
LEMMA LosesWider ==
  ASSUME NEW t, NEW u, NEW S, NEW U, Loses(t, u, S), \A b \in S : b \in U
  PROVE  Loses(t, u, U)
BY DEF Loses

LEMMA SameIdsLose ==
  ASSUME NEW t, NEW u, OpenIds(t) = OpenIds(u), NEW S
  PROVE  Loses(t, u, S)
<1> SUFFICES ASSUME NEW b \in ToSet(t.bufs)  PROVE  b.id \in OpenIds(u)
  BY DEF Loses
<1> QED  BY BufferIsOpen

LEMMA LosesOn ==
  ASSUME NEW t, NEW u, NEW v, NEW S, Loses(t, u, S), OpenIds(v) = OpenIds(u)
  PROVE  Loses(t, v, S)
BY DEF Loses

(* A new terminal or new-tab page.                                         *)
LEMMA FreshBuffer ==
  ASSUME NEW n \in Ids, NEW type \in {"terminal", "newTab"},
         NEW b, b = NewBuffer(n, None, type, FALSE)
  PROVE  /\ b \in Buffer /\ b.id = n /\ b.path = None /\ b.type = type
         /\ ~b.pinned
BY DEF NewBuffer, Buffer, Types

(* A terminal or the new-tab page, once there is room for it.              *)
LEMMA AppendOther ==
  ASSUME NEW t, NEW n, Fine(t, n), Half(t), n \in Ids,
         NEW type \in {"terminal", "newTab"}, NEW s, NEW S, Cut(s, t, S)
  PROVE  LET u == AppendBuffer(t, NewBuffer(n, None, type, FALSE))
         IN Leaves(s, u, n + 1, S) /\ OnTop(u)
<1> DEFINE b == NewBuffer(n, None, type, FALSE)
           u == AppendBuffer(t, b)
<1>1. /\ b \in Buffer /\ b.id = n /\ b.path = None /\ b.type = type
      /\ ~b.pinned
  BY FreshBuffer
<1> HIDE DEF b
<1>2. Fine(u, n + 1) /\ ToSet(u.bufs) = ToSet(t.bufs) \cup {b}
  BY <1>1, AppendBufferGood
<1> HIDE DEF u
<1>3. Sound(u) /\ OnTop(u)  BY <1>1, <1>2, AppendBufferSound DEF u
<1>4. Loses(s, u, S)
  <2> SUFFICES ASSUME NEW a \in ToSet(s.bufs), a \notin S  PROVE  a.id \in OpenIds(u)
    BY DEF Loses
  <2>1. a \in ToSet(u.bufs)  BY <1>2 DEF Cut
  <2> QED  BY <2>1, BufferIsOpen
<1> QED  BY <1>2, <1>3, <1>4 DEF Leaves, u, b

(* Opening a file loses nothing but what is expendable.                    *)
LEMMA OpenEditorLeaves ==
  ASSUME NEW t, NEW n, Fine(t, n), Sound(t), n \in Ids, NEW path \in Paths \cup Untitled,
         NEW preview \in BOOLEAN, NEW m, m = IF Opened(t, path) THEN n ELSE n + 1
  PROVE  LET u == OpenEditor(t, path, preview, n)
         IN /\ Leaves(t, u, m, Expendable(t)) /\ OnTop(u)
            /\ u.active \in OpenIds(u) /\ BufferOf(u, u.active).type # "newTab"
BY OpenEditorIs, OpenEditorSound DEF Leaves

(* From the new store to the whole step; StaySafe is for steps that open   *)
(* and close nothing.                                                      *)
LEMMA BecomeSafe ==
  ASSUME Inv, NEW u, Become(u), Idle, nextId' \in 1 .. MaxOpens + 1,
         NEW S, Leaves(tabs, u, nextId', S)
  PROVE  Safe(S) /\ tabs' = u
<1>1. tabs' = u /\ limitDue' \in BOOLEAN  BY DEF Become
<1>2. Requests'  BY <1>1 DEF Inv, Requests, Idle
<1> QED  BY <1>1, <1>2 DEF Safe

(* Steps that leave every tab open, and create none.                       *)
LEMMA StaySafe ==
  ASSUME Inv, NEW u, Become(u), Idle, nextId' = nextId,
         Fine(u, nextId), Sound(u), OpenIds(u) = OpenIds(tabs), NEW S
  PROVE  Safe(S) /\ tabs' = u
<1>1. Loses(tabs, u, S)  BY SameIdsLose
<1>2. nextId' \in 1 .. MaxOpens + 1  BY DEF Inv, Requests
<1> QED  BY <1>1, <1>2, BecomeSafe DEF Leaves

(* Steps that open.                                                        *)
LEMMA SelectFileStep ==
  ASSUME Inv, NEW path \in Paths, NEW preview \in BOOLEAN, SelectFile(path, preview)
  PROVE  SafeOnTop(Spared(tabs))
<1> DEFINE S == {b \in ToSet(tabs.bufs) : b.path = path}
           same == Only(tabs.bufs, S)
           id == Head(same).id
           shown == Activate(tabs, id)
<1>1. Fine(tabs, nextId) /\ Sound(tabs) /\ Requests  BY DEF Inv, StoresOk
<1>2. nextId' = nextId /\ reopening' = reopening /\ saving' = saving
  BY DEF SelectFile
<1>3. CASE same = <<>>
  <2>1. /\ openReq' = [path |-> path, preview |-> preview]
        /\ tabs' = tabs /\ limitDue' = limitDue
    BY <1>3 DEF SelectFile, Where
  <2>2. Requests'  BY <1>1, <1>2, <2>1 DEF Requests
  <2>3. Loses(tabs, tabs', Spared(tabs))  BY <2>1, SameIdsLose
  <2> QED  BY <1>1, <1>2, <2>1, <2>2, <2>3 DEF Leaves, KeepsTop, Safe, SafeOnTop
<1>4. CASE same # <<>>
  <2>1. /\ Become(IF Head(same).preview /\ ~preview
                  THEN MakeDefinite(shown, id) ELSE shown)
        /\ openReq' = openReq
    BY <1>4 DEF SelectFile, Where
  <2>2. Requests'  BY <1>1, <1>2, <2>1 DEF Requests, Become
  <2>3. Head(same) \in ToSet(tabs.bufs)
    BY <1>1, <1>4, HeadOfOnly DEF Fine, GoodBufs
  <2>4. id \in OpenIds(tabs)  BY <2>3, BufferIsOpen
  <2> HIDE DEF same, shown
  <2>5. /\ Fine(shown, nextId) /\ SameOnes(tabs.bufs, shown.bufs)
        /\ Sound(shown) /\ OnTop(shown)
    BY <1>1, <2>4, ActivateIs, ActivateSound DEF shown
  <2> DEFINE u == MakeDefinite(shown, id)
  <2>6. Fine(u, nextId) /\ SameOnes(shown.bufs, u.bufs) /\ Sound(u) /\ KeepsTop(shown, u)
    BY <2>5, MakeDefiniteIs, MakeDefiniteSound
  <2>7. tabs' = u \/ tabs' = shown  BY <2>1 DEF Become
  <2> HIDE DEF u
  <2>8. OpenIds(shown) = OpenIds(tabs) /\ OpenIds(u) = OpenIds(shown)
    BY <2>5, <2>6, SameOnesIds
  <2>9. Loses(tabs, tabs', Spared(tabs))  BY <2>7, <2>8, SameIdsLose
  <2> QED  BY <1>2, <2>2, <2>5, <2>6, <2>7, <2>9 DEF Leaves, KeepsTop, Safe, SafeOnTop
<1> QED  BY <1>3, <1>4

LEMMA FileReadStep ==
  ASSUME Inv, FileRead
  PROVE  SafeOnTop(Expendable(tabs))
<1> DEFINE r == openReq
           u == OpenEditor(tabs, r.path, r.preview, nextId)
           m == IF Opened(tabs, r.path) THEN nextId ELSE nextId + 1
<1>1. Fine(tabs, nextId) /\ Sound(tabs) /\ Requests  BY DEF Inv, StoresOk
<1>2. /\ openReq # None /\ nextId \in Ids /\ Become(u) /\ openReq' = None
      /\ nextId' = m /\ reopening' = reopening /\ saving' = saving
  BY DEF FileRead
<1>3. r.path \in Paths /\ r.preview \in BOOLEAN  BY <1>1, <1>2 DEF Requests
<1>4. Leaves(tabs, u, m, Expendable(tabs)) /\ OnTop(u)
  BY <1>1, <1>2, <1>3, OpenEditorLeaves
<1>5. m \in 1 .. MaxOpens + 1  BY <1>2, BoundsAssumption DEF Ids
<1> HIDE DEF u, m
<1>6. tabs' = u /\ limitDue' \in BOOLEAN  BY <1>2 DEF Become
<1>7. Requests'  BY <1>1, <1>2, <1>5, <1>6 DEF Requests
<1> QED  BY <1>2, <1>4, <1>6, <1>7 DEF Safe, SafeOnTop, KeepsTop

LEMMA ReopenReadStep ==
  ASSUME Inv, ReopenRead
  PROVE  SafeOnTop(Expendable(tabs))
<1> DEFINE r == reopening
           u == OpenEditor(tabs, r.path, FALSE, nextId)
           v == Repin(u, r.pinned)
           m == IF Opened(tabs, r.path) THEN nextId ELSE nextId + 1
<1>1. Fine(tabs, nextId) /\ Sound(tabs) /\ Requests  BY DEF Inv, StoresOk
<1>2. /\ reopening # None /\ nextId \in Ids /\ Become(v) /\ reopening' = None
      /\ nextId' = m /\ openReq' = openReq /\ saving' = saving
  BY DEF ReopenRead
<1>3. r.path \in Paths  BY <1>1, <1>2 DEF Requests, ClosedTab
<1>4. /\ Leaves(tabs, u, m, Expendable(tabs)) /\ OnTop(u)
      /\ u.active \in OpenIds(u) /\ BufferOf(u, u.active).type # "newTab"
  BY <1>1, <1>2, <1>3, OpenEditorLeaves
<1>5. m \in 1 .. MaxOpens + 1  BY <1>2, BoundsAssumption DEF Ids
<1> HIDE DEF u, m
<1>6. Fine(v, m) /\ SameOnes(u.bufs, v.bufs) /\ Sound(v) /\ KeepsTop(u, v)
  BY <1>4, RepinIs DEF Leaves
<1> HIDE DEF v
<1>7. Loses(tabs, v, Expendable(tabs))
  BY <1>4, <1>6, SameOnesIds, LosesOn DEF Leaves
<1>8. tabs' = v /\ limitDue' \in BOOLEAN  BY <1>2 DEF Become
<1>9. Requests'  BY <1>1, <1>2, <1>5, <1>8 DEF Requests
<1> QED
  BY <1>2, <1>4, <1>6, <1>7, <1>8, <1>9 DEF Leaves, Safe, SafeOnTop, KeepsTop

LEMMA NewUntitledStep ==
  ASSUME Inv, NewUntitled
  PROVE  SafeOnTop(Expendable(tabs))
<1> DEFINE path == Len(Where(tabs.bufs, IsUntitled)) + 1
           u == OpenEditor(tabs, path, FALSE, nextId)
           m == IF Opened(tabs, path) THEN nextId ELSE nextId + 1
<1>1. Fine(tabs, nextId) /\ Sound(tabs)  BY DEF Inv, StoresOk
<1>2. nextId \in Ids /\ Become(u) /\ nextId' = m /\ Idle  BY DEF NewUntitled
<1>3. path \in Paths \cup Untitled
  <2> DEFINE S == {b \in ToSet(tabs.bufs) : IsUntitled(b)}
  <2>1. Where(tabs.bufs, IsUntitled) = Only(tabs.bufs, S)  BY DEF Where
  <2>2. tabs.bufs \in Seq(Buffer)  BY <1>1 DEF Fine, GoodBufs
  <2> HIDE DEF S
  <2>3. Only(tabs.bufs, S) \in Seq(Buffer)  BY <2>2, OnlyFacts
  <2>4. Len(Only(tabs.bufs, S)) \in Nat  BY <2>3
  <2> QED  BY <2>1, <2>4 DEF Untitled
<1> HIDE DEF path
<1>4. Leaves(tabs, u, m, Expendable(tabs)) /\ OnTop(u)
  BY <1>1, <1>2, <1>3, OpenEditorLeaves
<1>5. m \in 1 .. MaxOpens + 1  BY <1>2, BoundsAssumption DEF Ids
<1> HIDE DEF u, m
<1> QED  BY <1>2, <1>4, <1>5, BecomeSafe DEF SafeOnTop, KeepsTop

LEMMA OpenTerminalStep ==
  ASSUME Inv, OpenTerminal
  PROVE  SafeOnTop(Expendable(tabs))
<1> DEFINE t1 == CloseNewTab(tabs)
           t2 == EvictOne(t1, TRUE)
           u  == AppendBuffer(t2, NewBuffer(nextId, None, "terminal", FALSE))
<1>1. Fine(tabs, nextId) /\ Half(tabs)  BY DEF Inv, StoresOk, Sound
<1>2. nextId \in Ids /\ Become(u) /\ nextId' = nextId + 1 /\ Idle
  BY DEF OpenTerminal
<1>3. Fine(t1, nextId) /\ Half(t1) /\ Cut(tabs, t1, Expendable(tabs))
  BY <1>1, CloseNewTabCuts, CloseNewTabHalf
<1> HIDE DEF t1
<1>4. Fine(t2, nextId) /\ Half(t2) /\ Cut(t1, t2, Expendable(t1))
  BY <1>3, EvictOneCuts, EvictOneHalf
<1> HIDE DEF t2
<1>5. Cut(tabs, t2, Expendable(tabs))  BY <1>1, <1>3, <1>4, ExpendableTrans
<1>6. Leaves(tabs, u, nextId + 1, Expendable(tabs)) /\ OnTop(u)
  BY <1>2, <1>4, <1>5, AppendOther
<1> HIDE DEF u
<1>7. nextId' \in 1 .. MaxOpens + 1  BY <1>2, BoundsAssumption DEF Ids
<1> QED  BY <1>2, <1>6, <1>7, BecomeSafe DEF SafeOnTop, KeepsTop

LEMMA ShowNewTabStep ==
  ASSUME Inv, NEW p \in ToSet(AllPanes(tabs.lay)), ShowNewTab(p)
  PROVE  SafeOnTop(Spared(tabs))
<1> DEFINE lay == Bring(tabs.lay, p)
           t0 == [tabs EXCEPT !.lay = lay]
           t1 == CloseNewTab(t0)
           u  == AppendBuffer(t1, NewBuffer(nextId, None, "newTab", FALSE))
<1>1. Fine(tabs, nextId) /\ Sound(tabs) /\ GoodLay(tabs.lay)
  BY DEF Inv, StoresOk, Sound, Half, Whole
<1>2. nextId \in Ids /\ Become(u) /\ nextId' = nextId + 1 /\ Idle
  BY DEF ShowNewTab
<1>3. GoodLay(lay) /\ \A x : Shows(lay, x) <=> Shows(tabs.lay, x)
  <2>1. LooseLay(tabs.lay) /\ HasPane(tabs.lay, p)  BY <1>1, AllPanesIs DEF GoodLay
  <2>2. GoodLay(lay) /\ SamePanes(tabs.lay, lay)  BY <2>1, BringIs
  <2> QED  BY <2>2, SamePanesIn DEF Shows
<1> HIDE DEF lay
<1>4. Fine(t0, nextId) /\ Half(t0) /\ t0.bufs = tabs.bufs
  BY <1>1, <1>3, RelaidSound DEF Sound
<1> HIDE DEF t0
<1>5. Fine(t1, nextId) /\ Half(t1) /\ Cut(t0, t1, Spared(t0))
  BY <1>4, CloseNewTabCuts, CloseNewTabHalf
<1> HIDE DEF t1
<1>6. Cut(tabs, t1, Spared(tabs))  BY <1>4, <1>5 DEF Cut, Spared
<1>7. Leaves(tabs, u, nextId + 1, Spared(tabs)) /\ OnTop(u)
  BY <1>2, <1>5, <1>6, AppendOther
<1> HIDE DEF u
<1>8. nextId' \in 1 .. MaxOpens + 1  BY <1>2, BoundsAssumption DEF Ids
<1> QED  BY <1>2, <1>7, <1>8, BecomeSafe DEF SafeOnTop, KeepsTop

(* Steps of requests that leave the tabs alone.                            *)
LEMMA AloneSafe ==
  ASSUME Inv, tabs' = tabs, nextId' = nextId, Requests', NEW S
  PROVE  SafeOnTop(S)
<1>1. Loses(tabs, tabs', S)  BY SameIdsLose
<1> QED  BY <1>1 DEF Inv, StoresOk, Leaves, Safe, SafeOnTop, KeepsTop

LEMMA RequestSteps ==
  ASSUME Inv, FileReadFails \/ ReopenFails \/ SaveAndClose \/ SaveAndCloseThrows,
         NEW S
  PROVE  SafeOnTop(S)
<1>1. CASE FileReadFails
  <2>1. Requests'  BY <1>1 DEF Inv, Requests, FileReadFails
  <2> QED  BY <1>1, <2>1, AloneSafe DEF FileReadFails
<1>2. CASE ReopenFails
  <2>1. Requests'  BY <1>2 DEF Inv, Requests, ReopenFails
  <2> QED  BY <1>2, <2>1, AloneSafe DEF ReopenFails
<1>3. CASE SaveAndClose
  <2>1. tabs.active \in Ids \cup {None}
    <3>1. ActiveOk(tabs) /\ Fine(tabs, nextId)  BY DEF Inv, StoresOk, Sound
    <3> QED  BY <3>1, OpenIdsIs DEF ActiveOk
  <2>2. saving' \in [id : Ids \cup {None}, untitled : BOOLEAN] \cup {None}
    BY <1>3, <2>1 DEF SaveAndClose, IsUntitled
  <2>3. Requests'  BY <1>3, <2>2 DEF Inv, Requests, SaveAndClose
  <2> QED  BY <1>3, <2>3, AloneSafe DEF SaveAndClose
<1>4. CASE SaveAndCloseThrows
  <2>1. Requests'  BY <1>4 DEF Inv, Requests, SaveAndCloseThrows
  <2> QED  BY <1>4, <2>1, AloneSafe DEF SaveAndCloseThrows
<1> QED  BY <1>1, <1>2, <1>3, <1>4

LEMMA ReopenClosedStep ==
  ASSUME Inv, ReopenClosed, NEW S
  PROVE  SafeOnTop(S)
<1> DEFINE rest == Tail(tabs.closed)
<1>1. Fine(tabs, nextId) /\ Sound(tabs) /\ Requests  BY DEF Inv, StoresOk
<1>2. /\ tabs.closed # <<>> /\ reopening' = Head(tabs.closed)
      /\ tabs' = [tabs EXCEPT !.closed = rest]
      /\ openReq' = openReq /\ saving' = saving /\ limitDue' = limitDue
      /\ nextId' = nextId
  BY DEF ReopenClosed
<1>3. tabs.closed \in Seq(ClosedTab) /\ IsStore(tabs)  BY <1>1 DEF Fine
<1>4. /\ Head(tabs.closed) \in ClosedTab /\ rest \in Seq(ClosedTab)
      /\ Len(rest) <= Len(tabs.closed) /\ Len(rest) \in Nat /\ Len(tabs.closed) \in Nat
  BY <1>2, <1>3
<1> HIDE DEF rest
<1>5. /\ tabs'.bufs = tabs.bufs /\ tabs'.active = tabs.active
      /\ tabs'.pending = tabs.pending /\ tabs'.closed = rest
      /\ tabs'.lay = tabs.lay /\ IsStore(tabs')
  BY ONLY <1>2, <1>3 DEF IsStore
<1>6. Fine(tabs', nextId)  BY <1>1, <1>4, <1>5 DEF Fine
<1>7. OpenIds(tabs') = OpenIds(tabs)  BY <1>5 DEF OpenIds
<1>8. Len(rest) <= MaxHistory  BY <1>1, <1>4, BoundsAssumption DEF Sound, Half
<1>9. Sound(tabs') /\ KeepsTop(tabs, tabs')
  BY <1>1, <1>5, <1>7, <1>8 DEF Sound, Half, Whole, ActiveOk, KeepsTop, OnTop
<1>10. Requests'  BY <1>1, <1>2, <1>4 DEF Requests
<1>11. Loses(tabs, tabs', S)  BY <1>7, SameIdsLose
<1> QED  BY <1>2, <1>6, <1>9, <1>10, <1>11 DEF Leaves, Safe, SafeOnTop

(* Steps on buffers that stay where they are.                              *)
LEMMA EditStep ==
  ASSUME Inv, NEW d \in BOOLEAN, Edit(d), NEW S
  PROVE  SafeOnTop(S)
<1> DEFINE a == tabs.active
           t == SetDirty(tabs, a, d)
           v == MakeDefinite(t, a)
           u == IF d THEN v ELSE t
<1>1. Fine(tabs, nextId) /\ Sound(tabs)  BY DEF Inv, StoresOk
<1>2. Become(u) /\ Idle /\ nextId' = nextId  BY DEF Edit
<1>3. Fine(t, nextId) /\ SameOnes(tabs.bufs, t.bufs) /\ Sound(t) /\ KeepsTop(tabs, t)
  BY <1>1, SetDirtyIs, SetDirtySound
<1> HIDE DEF t
<1>4. Fine(v, nextId) /\ SameOnes(t.bufs, v.bufs) /\ Sound(v) /\ KeepsTop(t, v)
  BY <1>3, MakeDefiniteIs, MakeDefiniteSound
<1>5. OpenIds(t) = OpenIds(tabs) /\ OpenIds(v) = OpenIds(t)
  BY <1>3, <1>4, SameOnesIds
<1> HIDE DEF v
<1>6. /\ Fine(u, nextId) /\ Sound(u) /\ KeepsTop(tabs, u)
      /\ OpenIds(u) = OpenIds(tabs)
  BY <1>3, <1>4, <1>5 DEF KeepsTop
<1> HIDE DEF u
<1> QED  BY <1>2, <1>6, StaySafe DEF SafeOnTop

(* Steps that close nothing.                                               *)
LEMMA SaveActiveStep ==
  ASSUME Inv, NEW ok \in BOOLEAN, SaveActive(ok), NEW S
  PROVE  SafeOnTop(S)
<1> DEFINE u == SetDirty(tabs, tabs.active, ~ok)
<1>1. Fine(tabs, nextId) /\ Sound(tabs)  BY DEF Inv, StoresOk
<1>2. Become(u) /\ Idle /\ nextId' = nextId  BY DEF SaveActive
<1>3. Fine(u, nextId) /\ SameOnes(tabs.bufs, u.bufs) /\ Sound(u) /\ KeepsTop(tabs, u)
  BY <1>1, SetDirtyIs, SetDirtySound
<1> HIDE DEF u
<1>4. OpenIds(u) = OpenIds(tabs)  BY <1>3, SameOnesIds
<1> QED  BY <1>2, <1>3, <1>4, StaySafe DEF SafeOnTop

LEMMA SaveUntitledStep ==
  ASSUME Inv, NEW id, NEW path \in Paths, SaveUntitled(id, path), NEW S
  PROVE  SafeOnTop(S)
<1> DEFINE u == SaveAs(tabs, id, path)
<1>1. Fine(tabs, nextId) /\ Sound(tabs)  BY DEF Inv, StoresOk
<1>2. Become(u) /\ Idle /\ nextId' = nextId  BY DEF SaveUntitled
<1>3. Fine(u, nextId) /\ SamePlaces(tabs.bufs, u.bufs) /\ Sound(u) /\ KeepsTop(tabs, u)
  BY <1>1, SaveAsIs
<1> HIDE DEF u
<1>4. OpenIds(u) = OpenIds(tabs)  BY <1>3, SamePlacesIds
<1> QED  BY <1>2, <1>3, <1>4, StaySafe DEF SafeOnTop

LEMMA RenameStep ==
  ASSUME Inv, NEW from \in Paths, NEW to \in Paths, Rename(from, to), NEW S
  PROVE  SafeOnTop(S)
<1> DEFINE id == Head(Where(tabs.bufs, LAMBDA b : b.path = from)).id
           u  == GivePath(tabs, id, to)
<1>1. Fine(tabs, nextId) /\ Sound(tabs)  BY DEF Inv, StoresOk
<1>2. Become(u) /\ Idle /\ nextId' = nextId  BY DEF Rename
<1> HIDE DEF id
<1>3. Fine(u, nextId) /\ SamePlaces(tabs.bufs, u.bufs) /\ Sound(u) /\ KeepsTop(tabs, u)
  BY <1>1, GivePathIs, GivePathSound
<1> HIDE DEF u
<1>4. OpenIds(u) = OpenIds(tabs)  BY <1>3, SamePlacesIds
<1> QED  BY <1>2, <1>3, <1>4, StaySafe DEF SafeOnTop

LEMMA SelectTabStep ==
  ASSUME Inv, NEW id \in OpenIds(tabs), SelectTab(id), NEW S
  PROVE  SafeOnTop(S)
<1> DEFINE u == Activate(tabs, id)
<1>1. Fine(tabs, nextId) /\ Sound(tabs)  BY DEF Inv, StoresOk
<1>2. Become(u) /\ Idle /\ nextId' = nextId  BY DEF SelectTab
<1>3. Fine(u, nextId) /\ SameOnes(tabs.bufs, u.bufs) /\ Sound(u) /\ OnTop(u)
  BY <1>1, ActivateIs, ActivateSound
<1> HIDE DEF u
<1>4. OpenIds(u) = OpenIds(tabs)  BY <1>3, SameOnesIds
<1> QED  BY <1>2, <1>3, <1>4, StaySafe DEF SafeOnTop, KeepsTop

LEMMA PinStep ==
  ASSUME Inv, NEW id \in OpenIds(tabs), Pin(id), NEW S
  PROVE  SafeOnTop(S)
<1> DEFINE u == TogglePin(tabs, id)
<1>1. Fine(tabs, nextId) /\ Sound(tabs)  BY DEF Inv, StoresOk
<1>2. /\ Become(u) /\ Idle /\ nextId' = nextId
      /\ BufferOf(tabs, id).type # "newTab"
  BY DEF Pin
<1>3. Fine(u, nextId) /\ SameOnes(tabs.bufs, u.bufs) /\ Sound(u) /\ KeepsTop(tabs, u)
  BY <1>1, <1>2, TogglePinIs, TogglePinSound
<1> HIDE DEF u
<1>4. OpenIds(u) = OpenIds(tabs)  BY <1>3, SameOnesIds
<1> QED  BY <1>2, <1>3, <1>4, StaySafe DEF SafeOnTop

LEMMA PromoteStep ==
  ASSUME Inv, NEW id, Promote(id), NEW S
  PROVE  SafeOnTop(S)
<1> DEFINE u == MakeDefinite(tabs, id)
<1>1. Fine(tabs, nextId) /\ Sound(tabs)  BY DEF Inv, StoresOk
<1>2. Become(u) /\ Idle /\ nextId' = nextId  BY DEF Promote
<1>3. Fine(u, nextId) /\ SameOnes(tabs.bufs, u.bufs) /\ Sound(u) /\ KeepsTop(tabs, u)
  BY <1>1, MakeDefiniteIs, MakeDefiniteSound
<1> HIDE DEF u
<1>4. OpenIds(u) = OpenIds(tabs)  BY <1>3, SameOnesIds
<1> QED  BY <1>2, <1>3, <1>4, StaySafe DEF SafeOnTop

LEMMA ReorderStep ==
  ASSUME Inv, NEW from \in DOMAIN tabs.bufs, NEW to \in DOMAIN tabs.bufs,
         Reorder(from, to), NEW S
  PROVE  SafeOnTop(S)
<1> DEFINE u == [tabs EXCEPT !.bufs = InsertAt(RemoveAt(tabs.bufs, from), to,
                                              tabs.bufs[from])]
<1>1. Fine(tabs, nextId) /\ Sound(tabs)  BY DEF Inv, StoresOk
<1>2. Become(u) /\ Idle /\ nextId' = nextId  BY DEF Reorder
<1>3. Fine(u, nextId) /\ Sound(u) /\ KeepsTop(tabs, u) /\ OpenIds(u) = OpenIds(tabs)
  BY <1>1, ReorderIs
<1> HIDE DEF u
<1> QED  BY <1>2, <1>3, StaySafe DEF SafeOnTop

(* The next and the previous one of n things.                              *)
LEMMA NextOf ==
  ASSUME NEW n \in Nat, n > 1, NEW k \in 0 .. n
  PROVE  (k % n) + 1 \in 1 .. n /\ ((k + n - 2) % n) + 1 \in 1 .. n
<1>1. \A m \in Nat : (m % n) + 1 \in 1 .. n  OBVIOUS
<1>2. k \in Nat /\ k + n - 2 \in Nat  OBVIOUS
<1> QED  BY <1>1, <1>2

LEMMA SwitchStep ==
  ASSUME Inv, NEW forward \in BOOLEAN, Switch(forward), NEW S
  PROVE  SafeOnTop(S)
<1> DEFINE shown == InFront(tabs.lay).ids
           O     == {x \in ToSet(shown) : x \in OpenIds(tabs)}
           ids   == Only(shown, O)
           n     == Len(ids)
           cur   == IF tabs.active \in ToSet(ids)
                    THEN CHOOSE k \in DOMAIN ids : ids[k] = tabs.active ELSE 0
           to    == IF forward THEN (cur % n) + 1 ELSE ((cur + n - 2) % n) + 1
           id    == ids[to]
           lay   == ToFront(tabs.lay, id)
           u     == [tabs EXCEPT !.active = id, !.lay = lay]
<1>1. Fine(tabs, nextId) /\ Sound(tabs) /\ GoodLay(tabs.lay) /\ IsStore(tabs)
  BY DEF Inv, StoresOk, Sound, Half, Whole, Fine
<1>2. n > 1 /\ Become(u) /\ Idle /\ nextId' = nextId  BY DEF Switch, Where
<1>3. shown \in Seq(Ids)
  BY <1>1, PaneAtIs DEF GoodLay, InFront, GoodPane, Pane
<1>4. ids \in Seq(Ids) /\ ToSet(ids) = ToSet(shown) \cap O  BY <1>3, OnlyFacts
<1>5. \A x : x \in O => x \in OpenIds(tabs)  OBVIOUS
<1> HIDE DEF shown, O, ids
<1>6. n \in Nat /\ DOMAIN ids = 1 .. n  BY <1>4
<1>7. cur \in 0 .. n
  <2>1. CASE tabs.active \in ToSet(ids)
    <3>1. \E k \in DOMAIN ids : ids[k] = tabs.active  BY <2>1 DEF ToSet
    <3>2. cur = CHOOSE k \in DOMAIN ids : ids[k] = tabs.active  BY <2>1
    <3> HIDE DEF cur
    <3>3. cur \in DOMAIN ids  BY <3>1, <3>2
    <3> QED  BY <3>3, <1>6
  <2>2. CASE tabs.active \notin ToSet(ids)  BY <2>2, <1>6
  <2> QED  BY <2>1, <2>2
<1> HIDE DEF cur, n
<1>8. to \in 1 .. n  BY <1>2, <1>6, <1>7, NextOf
<1> HIDE DEF to
<1>9. id \in ToSet(ids)  BY <1>6, <1>8 DEF ToSet
<1>10. id \in OpenIds(tabs) /\ id \in Ids
  <2>1. id \in OpenIds(tabs)  BY <1>4, <1>5, <1>9
  <2> QED  BY <2>1, <1>1, OpenIdsIs
<1>11. Fronted(tabs.lay, lay, id)  BY <1>1, <1>10, ToFrontIs
<1>12. u = [tabs EXCEPT !.active = id, !.lay = lay]  OBVIOUS
<1> HIDE DEF id, lay, u
<1>13. /\ u.bufs = tabs.bufs /\ u.active = id /\ u.pending = tabs.pending
       /\ u.closed = tabs.closed /\ u.lay = lay /\ IsStore(u)
  BY ONLY <1>12, <1>1 DEF IsStore
<1>14. Fine(u, nextId) /\ SameOnes(tabs.bufs, u.bufs) /\ Sound(u) /\ OnTop(u)
  BY <1>1, <1>10, <1>11, <1>13, FrontedSound DEF Sound
<1>15. OpenIds(u) = OpenIds(tabs)  BY <1>14, SameOnesIds
<1> QED  BY <1>2, <1>14, <1>15, StaySafe DEF SafeOnTop, KeepsTop

LEMMA CancelStep ==
  ASSUME Inv, Cancel, NEW S
  PROVE  SafeOnTop(S)
<1> DEFINE u == [tabs EXCEPT !.pending = None]
<1>1. Fine(tabs, nextId) /\ Sound(tabs) /\ IsStore(tabs)  BY DEF Inv, StoresOk, Fine
<1>2. Become(u) /\ Idle /\ nextId' = nextId  BY DEF Cancel
<1>3. u = [tabs EXCEPT !.pending = None]  OBVIOUS
<1> HIDE DEF u
<1>4. /\ u.bufs = tabs.bufs /\ u.active = tabs.active /\ u.pending = None
      /\ u.closed = tabs.closed /\ u.lay = tabs.lay /\ IsStore(u)
  BY ONLY <1>1, <1>3 DEF IsStore
<1>5. OpenIds(u) = OpenIds(tabs)  BY <1>4 DEF OpenIds
<1>6. Fine(u, nextId)  BY <1>1, <1>4 DEF Fine
<1>7. Sound(u) /\ KeepsTop(tabs, u)
  BY <1>1, <1>4, <1>5 DEF Sound, Half, Whole, ActiveOk, KeepsTop, OnTop
<1> QED  BY <1>2, <1>5, <1>6, <1>7, StaySafe DEF SafeOnTop

-----------------------------------------------------------------------------
(* Steps that close tabs.                                                  *)
LEMMA CutSafe ==
  ASSUME Inv, NEW u, Become(u), Idle, nextId' = nextId, Fine(u, nextId),
         Sound(u), KeepsTop(tabs, u), NEW C, Cut(tabs, u, C),
         NEW S, \A b \in C : b \in S
  PROVE  SafeOnTop(S)
<1>1. Loses(tabs, u, C)  BY CutLoses
<1>2. Loses(tabs, u, S)  BY <1>1, LosesWider
<1>3. nextId' \in 1 .. MaxOpens + 1  BY DEF Inv, Requests
<1>4. Safe(S) /\ tabs' = u  BY <1>2, <1>3, BecomeSafe DEF Leaves
<1> QED  BY <1>4 DEF SafeOnTop

LEMMA CloseTabStep ==
  ASSUME Inv, NEW id, CloseTab(id)
  PROVE  SafeOnTop({b \in WithIds(tabs, {id}) : ~IsDirty(b)})
<1> DEFINE C == {b \in WithIds(tabs, {id}) : ~IsDirty(b)}
           u == CloseAsking(tabs, id)
<1>1. Fine(tabs, nextId) /\ Sound(tabs)  BY DEF Inv, StoresOk
<1>2. Become(u) /\ Idle /\ nextId' = nextId  BY DEF CloseTab
<1>3. Fine(u, nextId) /\ Cut(tabs, u, C)  BY <1>1, CloseAskingCuts
<1>4. Sound(u) /\ KeepsTop(tabs, u)  BY <1>1, CloseAskingSound
<1> HIDE DEF u, C
<1>5. \A b \in C : b \in C  OBVIOUS
<1>6. SafeOnTop(C)  BY <1>2, <1>3, <1>4, <1>5, CutSafe
<1> QED  BY <1>6 DEF C

LEMMA CloseTabsStep ==
  ASSUME Inv, NEW type \in BatchTypes \ {"single"}, NEW anchor \in Ids \cup {None},
         CloseTabs(type, anchor)
  PROVE  SafeOnTop(Spared(tabs))
<1> DEFINE u == CloseBatch(tabs, type, anchor)
<1>1. Fine(tabs, nextId) /\ Sound(tabs)  BY DEF Inv, StoresOk
<1>2. Become(u) /\ Idle /\ nextId' = nextId  BY DEF CloseTabs
<1>3. Fine(u, nextId) /\ Sound(u) /\ KeepsTop(tabs, u) /\ Cut(tabs, u, Spared(tabs))
  BY <1>1, CloseBatchIs DEF Spared
<1> HIDE DEF u
<1> QED  BY <1>2, <1>3, CutSafe

LEMMA CloseSavedTabsStep ==
  ASSUME Inv, CloseSavedTabs
  PROVE  SafeOnTop(Spared(tabs))
<1> DEFINE S   == {b \in ToSet(tabs.bufs) : ~b.pinned /\ ~IsDirty(b)}
           bs  == Only(tabs.bufs, S)
           ids == IdsOf(bs)
           u   == CloseForceAll(tabs, ids)
<1>1. Fine(tabs, nextId) /\ Sound(tabs) /\ tabs.bufs \in Seq(Buffer)
  BY DEF Inv, StoresOk, Fine, GoodBufs
<1>2. Become(u) /\ Idle /\ nextId' = nextId  BY DEF CloseSavedTabs, Where
<1>3. \A b : b \in S <=> b \in Spared(tabs)  BY DEF Spared
<1> HIDE DEF S
<1>4. bs \in Seq(Buffer) /\ ToSet(bs) = ToSet(tabs.bufs) \cap S
  BY <1>1, OnlyFacts
<1> HIDE DEF bs
<1>5. ids \in Seq(Ids)  BY <1>4, IdsOfIs
<1>6. Fine(u, nextId) /\ Cut(tabs, u, WithIds(tabs, ToSet(ids)))
  BY <1>1, <1>5, CloseForceAllCuts
<1>7. Sound(u) /\ KeepsTop(tabs, u)  BY <1>1, <1>5, CloseForceAllSound
<1>8. \A b \in WithIds(tabs, ToSet(ids)) : b \in ToSet(bs)
  BY <1>1, <1>4, WithIdsOf
<1>9. \A b \in WithIds(tabs, ToSet(ids)) : b \in Spared(tabs)  BY <1>3, <1>4, <1>8
<1> HIDE DEF u, ids
<1> QED  BY <1>2, <1>6, <1>7, <1>9, CutSafe

(* What an answer to the dialog may close.                                 *)
Answered(t) ==
  {b \in ToSet(t.bufs) : \/ t.pending.type = "single" /\ b.id = t.pending.id
                         \/ ~b.pinned}

LEMMA DiscardStep ==
  ASSUME Inv, Discard
  PROVE  SafeOnTop(Answered(tabs))
<1> DEFINE u == Confirm(tabs)
<1>1. Fine(tabs, nextId) /\ Sound(tabs)  BY DEF Inv, StoresOk
<1>2. Become(u) /\ Idle /\ nextId' = nextId  BY DEF Discard
<1>3. Fine(u, nextId) /\ Sound(u) /\ KeepsTop(tabs, u) /\ Cut(tabs, u, Answered(tabs))
  BY <1>1, ConfirmIs DEF Answered
<1> HIDE DEF u
<1> QED  BY <1>2, <1>3, CutSafe

(* "Save and close", once the save has made the store v of tabs.           *)
LEMMA ConfirmSafe ==
  ASSUME Inv, NEW v, Fine(v, nextId), SamePlaces(tabs.bufs, v.bufs),
         v.pending = tabs.pending, Sound(v), KeepsTop(tabs, v),
         \A k \in DOMAIN tabs.bufs : v.bufs[k].pinned = tabs.bufs[k].pinned,
         Become(Confirm(v)), nextId' = nextId, saving' = None,
         openReq' = openReq, reopening' = reopening
  PROVE  SafeOnTop(Answered(tabs))
<1> DEFINE u == Confirm(v)
<1>1. Fine(u, nextId) /\ Sound(u) /\ KeepsTop(v, u) /\ Cut(v, u, Answered(v))
  BY ConfirmIs DEF Answered
<1>2. tabs' = u /\ limitDue' \in BOOLEAN  BY DEF Become
<1> HIDE DEF u
<1>3. Loses(tabs, u, Answered(tabs))
  <2> SUFFICES ASSUME NEW b \in ToSet(tabs.bufs), b.id \notin OpenIds(u)
               PROVE  b \in Answered(tabs)
    BY DEF Loses
  <2>1. PICK k \in DOMAIN tabs.bufs : b = tabs.bufs[k]  BY DEF ToSet
  <2> DEFINE c == v.bufs[k]
  <2>2. c \in ToSet(v.bufs) /\ c.id = b.id /\ c.pinned = b.pinned
    BY <2>1 DEF SamePlaces, ToSet
  <2> HIDE DEF c
  <2>3. c \in Answered(v)
    <3>1. Loses(v, u, Answered(v))  BY <1>1, CutLoses
    <3> QED  BY <3>1, <2>2 DEF Loses
  <2> QED  BY <2>2, <2>3 DEF Answered
<1>4. Requests'  BY <1>2 DEF Inv, Requests
<1> QED
  BY <1>1, <1>2, <1>3, <1>4 DEF Leaves, Safe, SafeOnTop, KeepsTop

LEMMA SamePlacesSelf ==
  ASSUME NEW t, NEW n, Fine(t, n)
  PROVE  SamePlaces(t.bufs, t.bufs)
BY SameOnesSelf, SameOnesPlaces

LEMMA SaveAndCloseEndsStep ==
  ASSUME Inv, NEW ok \in BOOLEAN, SaveAndCloseEnds(ok)
  PROVE  SafeOnTop(Answered(tabs))
<1> DEFINE d == ~ok
           i == saving.id
           s == SetDirty(tabs, i, d)
           v == IF saving.id = None THEN tabs ELSE s
<1>1. Fine(tabs, nextId) /\ Sound(tabs)  BY DEF Inv, StoresOk
<1>2. /\ Become(Confirm(v)) /\ nextId' = nextId /\ saving' = None
      /\ openReq' = openReq /\ reopening' = reopening
  BY DEF SaveAndCloseEnds
<1>3. d \in BOOLEAN  OBVIOUS
<1> HIDE DEF d, i
<1>4. /\ Fine(s, nextId) /\ SameOnes(tabs.bufs, s.bufs) /\ s.pending = tabs.pending
      /\ \A k \in DOMAIN tabs.bufs : s.bufs[k].pinned = tabs.bufs[k].pinned
      /\ Sound(s) /\ KeepsTop(tabs, s)
  BY <1>1, <1>3, SetDirtyIs, SetDirtySound
<1> HIDE DEF s
<1>5. /\ Fine(v, nextId) /\ SamePlaces(tabs.bufs, v.bufs) /\ v.pending = tabs.pending
      /\ \A k \in DOMAIN tabs.bufs : v.bufs[k].pinned = tabs.bufs[k].pinned
      /\ Sound(v) /\ KeepsTop(tabs, v)
  BY <1>1, <1>4, SameOnesPlaces, SamePlacesSelf DEF KeepsTop
<1> HIDE DEF v
<1> QED  BY <1>2, <1>5, ConfirmSafe

LEMMA SaveAsAndCloseEndsStep ==
  ASSUME Inv, NEW path \in Paths \cup {None}, SaveAsAndCloseEnds(path)
  PROVE  SafeOnTop(Answered(tabs))
<1> DEFINE i == saving.id
           s == SaveAs(tabs, i, path)
           v == IF path = None THEN tabs ELSE s
<1>1. Fine(tabs, nextId) /\ Sound(tabs)  BY DEF Inv, StoresOk
<1>2. /\ Become(Confirm(v)) /\ nextId' = nextId /\ saving' = None
      /\ openReq' = openReq /\ reopening' = reopening
  BY DEF SaveAsAndCloseEnds
<1> HIDE DEF i
<1>3. path # None =>
        /\ Fine(s, nextId) /\ SamePlaces(tabs.bufs, s.bufs) /\ s.pending = tabs.pending
        /\ \A k \in DOMAIN tabs.bufs : s.bufs[k].pinned = tabs.bufs[k].pinned
        /\ Sound(s) /\ KeepsTop(tabs, s)
  BY <1>1, SaveAsIs
<1> HIDE DEF s
<1>4. /\ Fine(v, nextId) /\ SamePlaces(tabs.bufs, v.bufs) /\ v.pending = tabs.pending
      /\ \A k \in DOMAIN tabs.bufs : v.bufs[k].pinned = tabs.bufs[k].pinned
      /\ Sound(v) /\ KeepsTop(tabs, v)
  BY <1>1, <1>3, SamePlacesSelf DEF KeepsTop
<1> HIDE DEF v
<1> QED  BY <1>2, <1>4, ConfirmSafe

(* FlattenSeq has the elements of the parts.                               *)
FlatUpTo(ss, m, g) ==
  g = [i \in 1 .. m |-> IF i = 1 THEN ss[i] ELSE g[i - 1] \o ss[i]]

(* FlattenSeq is a recursive function, which exists by its least           *)
(* counterexample.                                                         *)
LEMMA FlatExists ==
  ASSUME NEW ss, NEW n \in Nat
  PROVE  \E g : FlatUpTo(ss, n, g)
<1> DEFINE Bad == {m \in Nat : ~ \E g : FlatUpTo(ss, m, g)}
<1> SUFFICES ASSUME Bad # {} PROVE FALSE
  OBVIOUS
<1>1. PICK m \in Bad : \A l \in Bad : m <= l
  BY Least
<1>2. m \in Nat /\ ~ \E g : FlatUpTo(ss, m, g)  BY <1>1 DEF Bad
<1>3. m # 0
  <2>1. FlatUpTo(ss, 0, [i \in 1 .. 0 |-> <<>>])  BY DEF FlatUpTo
  <2> QED  BY <2>1, <1>2
<1>4. PICK g : FlatUpTo(ss, m - 1, g)
  <2>1. m - 1 \in Nat /\ ~(m <= m - 1)  BY <1>2, <1>3
  <2> QED  BY <2>1, <1>1 DEF Bad
<1> HIDE DEF Bad
<1> DEFINE h == [i \in 1 .. m |->
                   IF i = m THEN IF m = 1 THEN ss[m] ELSE g[m - 1] \o ss[m] ELSE g[i]]
<1>5. \A i \in 1 .. m : h[i] = IF i = 1 THEN ss[i] ELSE h[i - 1] \o ss[i]
  <2> SUFFICES ASSUME NEW i \in 1 .. m
               PROVE  h[i] = IF i = 1 THEN ss[i] ELSE h[i - 1] \o ss[i]
    OBVIOUS
  <2>1. CASE i = m
    <3>1. h[i] = IF i = 1 THEN ss[i] ELSE g[i - 1] \o ss[i]  BY <2>1
    <3>2. i # 1 => h[i - 1] = g[i - 1]  BY <1>2, <2>1
    <3> HIDE DEF h
    <3> QED  BY <3>1, <3>2
  <2>2. CASE i # m
    <3>1. i \in 1 .. m - 1 /\ (i # 1 => i - 1 \in 1 .. m - 1)  BY <1>2, <2>2
    <3>2. g[i] = IF i = 1 THEN ss[i] ELSE g[i - 1] \o ss[i]
      BY <3>1, <1>4 DEF FlatUpTo
    <3>3. h[i] = g[i] /\ (i # 1 => h[i - 1] = g[i - 1])  BY <1>2, <2>2, <3>1
    <3> HIDE DEF h
    <3> QED  BY <3>2, <3>3
  <2> QED  BY <2>1, <2>2
<1>6. h = [i \in 1 .. m |-> h[i]]  OBVIOUS
<1> HIDE DEF h
<1>7. FlatUpTo(ss, m, h)  BY <1>5, <1>6 DEF FlatUpTo
<1> QED  BY <1>2, <1>7

LEMMA FlattenSeqIs ==
  ASSUME NEW T, NEW ss \in Seq(Seq(T))
  PROVE  FlattenSeq(ss) \in Seq(T)
<1> DEFINE n == Len(ss)
           g == CHOOSE h : FlatUpTo(ss, n, h)
<1>1. n \in Nat /\ DOMAIN ss = 1 .. n  OBVIOUS
<1>2. CASE n = 0
  <2>1. FlattenSeq(ss) = ss /\ ss = <<>>  BY <1>1, <1>2 DEF FlattenSeq
  <2> QED  BY <2>1
<1>3. CASE n # 0
  <2>1. FlatUpTo(ss, n, g)  BY <1>1, FlatExists
  <2>2. FlattenSeq(ss) = g[n]  BY <1>3 DEF FlattenSeq, FlatUpTo
  <2> HIDE DEF g
  <2> DEFINE Bad == {i \in 1 .. n : g[i] \notin Seq(T)}
  <2>3. Bad = {}
    <3> SUFFICES ASSUME Bad # {}  PROVE FALSE
      OBVIOUS
    <3>1. PICK i \in Bad : \A j \in Bad : i <= j
      <4>1. Bad \in SUBSET Nat  BY <1>1
      <4> HIDE DEF Bad
      <4> QED  BY <4>1, Least
    <3>2. i \in 1 .. n /\ g[i] \notin Seq(T)  BY <3>1
    <3>3. g[i] = IF i = 1 THEN ss[i] ELSE g[i - 1] \o ss[i]  BY <2>1, <3>2 DEF FlatUpTo
    <3>4. ss[i] \in Seq(T)  BY <3>2, <1>1
    <3>5. i # 1  BY <3>2, <3>3, <3>4
    <3>6. i - 1 \in 1 .. n /\ ~(i <= i - 1)  BY <3>2, <3>5, <1>1
    <3>7. g[i - 1] \in Seq(T)  BY <3>1, <3>6
    <3>8. g[i - 1] \o ss[i] \in Seq(T)  BY <3>4, <3>7, ConcatFacts
    <3> QED  BY <3>2, <3>3, <3>5, <3>8
  <2>4. g[n] \in Seq(T)  BY <2>3, <1>1, <1>3
  <2> QED  BY <2>2, <2>4
<1> QED  BY <1>2, <1>3

(* The tab bar closes tabs that are not pinned.                            *)
LEMMA OverLimitIs ==
  ASSUME NEW t, NEW n, Fine(t, n), NEW g
  PROVE  OverLimit(t, g) \in Seq({b.id : b \in {c \in ToSet(t.bufs) : ~c.pinned}})
<1> DEFINE U == {c \in ToSet(t.bufs) : ~c.pinned}
           I == {b.id : b \in U}
           A == {b \in ToSet(t.bufs) : Contains(g.ids, b.id) /\ b.type # "newTab"}
           shown == Only(t.bufs, A)
           B == {b \in ToSet(shown) : ~b.pinned /\ b.id # g.active}
           bs == Only(shown, B)
           ids == IdsOf(bs)
           over == Len(shown) - SettingMax
           k == IF over > Len(ids) THEN Len(ids) ELSE over
<1>1. OverLimit(t, g) = IF Len(shown) <= SettingMax THEN <<>> ELSE SubSeq(ids, 1, k)
  BY DEF OverLimit, ShownIn, Where
<1>2. t.bufs \in Seq(Buffer)  BY DEF Fine, GoodBufs
<1>3. shown \in Seq(Buffer) /\ ToSet(shown) = ToSet(t.bufs) \cap A  BY <1>2, OnlyFacts
<1> HIDE DEF shown
<1>4. bs \in Seq(Buffer) /\ ToSet(bs) = ToSet(shown) \cap B  BY <1>3, OnlyFacts
<1>5. \A b \in ToSet(bs) : b \in U  BY <1>3, <1>4
<1> HIDE DEF A, B, bs
<1>6. ids \in Seq(Ids) /\ \A x : x \in ToSet(ids) <=> \E b \in ToSet(bs) : b.id = x
  BY <1>4, IdsOfIs
<1> HIDE DEF U
<1>7. \A x \in ToSet(ids) : x \in I  BY <1>5, <1>6
<1> HIDE DEF I, ids
<1>8. ids \in Seq(I)
  <2>1. Len(ids) \in Nat /\ DOMAIN ids = 1 .. Len(ids) /\ ids = [j \in 1 .. Len(ids) |-> ids[j]]
    BY <1>6
  <2>2. \A j \in 1 .. Len(ids) : ids[j] \in I  BY <2>1, <1>7 DEF ToSet
  <2>3. ids \in [1 .. Len(ids) -> I]  BY <2>1, <2>2
  <2> QED  BY <2>1, <2>3
<1>9. ASSUME ~(Len(shown) <= SettingMax)  PROVE  SubSeq(ids, 1, k) \in Seq(I)
  <2>1. k \in Nat /\ k <= Len(ids)
    <3>1. Len(shown) \in Nat /\ Len(ids) \in Nat /\ SettingMax \in Nat
      BY <1>3, <1>8, BoundsAssumption
    <3> QED  BY <3>1, <1>9
  <2> HIDE DEF k
  <2> QED  BY <2>1, <1>8, SubSeqIs
<1>10. OverLimit(t, g) \in Seq(I)  BY <1>1, <1>9, EmptyFacts
<1> QED  BY <1>10 DEF I, U

(* The tab limit's effect asks for what has edits, and closes no pinned    *)
(* tab.                                                                    *)
LEMMA LimitTabsStep ==
  ASSUME Inv, LimitTabs
  PROVE  SafeOnTop(Spared(tabs))
<1> DEFINE U == {c \in ToSet(tabs.bufs) : ~c.pinned}
           I == {b.id : b \in U}
           gs == tabs.lay.groups
           ss == [k \in DOMAIN gs |-> OverLimit(tabs, gs[k])]
           ids == AllOverLimit(tabs)
           u == FoldLeft(CloseAsking, tabs, ids)
           C == {b \in WithIds(tabs, ToSet(ids)) : ~IsDirty(b)}
<1>1. Fine(tabs, nextId) /\ Sound(tabs)  BY DEF Inv, StoresOk
<1>2. Become(u) /\ Idle /\ nextId' = nextId  BY DEF LimitTabs
<1>3. gs \in Seq(Pane)  BY <1>1 DEF Sound, Half, Whole, GoodLay, LooseLay, GoodGroups
<1>4. ids = FlattenSeq(ss)  BY DEF AllOverLimit
<1>5. \A k \in DOMAIN gs : OverLimit(tabs, gs[k]) \in Seq(I)  BY <1>1, OverLimitIs
<1> HIDE DEF gs, I
<1>6. ss \in Seq(Seq(I))
  <2>1. Len(gs) \in Nat /\ DOMAIN gs = 1 .. Len(gs)  BY <1>3
  <2>2. ss \in [1 .. Len(gs) -> Seq(I)]  BY <2>1, <1>5
  <2> QED  BY <2>1, <2>2
<1> HIDE DEF ss
<1>7. ids \in Seq(I)  BY <1>4, <1>6, FlattenSeqIs
<1> HIDE DEF ids
<1>8. Fine(u, nextId) /\ Cut(tabs, u, C)  BY <1>1, <1>7, CloseAskingAllCuts
<1>9. Sound(u) /\ KeepsTop(tabs, u)  BY <1>1, <1>7, CloseAskingAllSound
<1>10. ASSUME NEW b \in C  PROVE  b \in Spared(tabs)
  <2>1. b \in ToSet(tabs.bufs) /\ b.id \in ToSet(ids) /\ ~IsDirty(b)  BY DEF WithIds
  <2>2. b.id \in I  BY <2>1, <1>7 DEF ToSet
  <2>3. PICK c \in ToSet(tabs.bufs) : ~c.pinned /\ c.id = b.id  BY <2>2 DEF I
  <2>4. c = b  BY <1>1, <2>1, <2>3, OneBuffer
  <2> QED  BY <2>1, <2>3, <2>4 DEF Spared
<1> HIDE DEF u, C
<1> QED  BY <1>2, <1>8, <1>9, <1>10, CutSafe

-----------------------------------------------------------------------------
(* The steps on the panes.                                                 *)
LEMMA BringShows ==
  ASSUME NEW lay, GoodLay(lay), NEW p, HasPane(lay, p)
  PROVE  LET u == Bring(lay, p)
         IN /\ GoodLay(u) /\ u.front = p /\ SamePanes(lay, u)
            /\ \A x : Shows(u, x) <=> Shows(lay, x)
<1> DEFINE u == Bring(lay, p)
<1>1. GoodLay(u) /\ u.front = p /\ SamePanes(lay, u)  BY BringIs DEF GoodLay
<1> HIDE DEF u
<1>2. \A x : Shows(u, x) <=> Shows(lay, x)  BY <1>1, SamePanesIn DEF Shows
<1> QED  BY <1>1, <1>2 DEF u

(* What a pane has on top is open.                                         *)
LEMMA TopIsOpen ==
  ASSUME NEW t, Whole(t), NEW p, HasPane(t.lay, p)
  PROVE  PaneAt(t.lay, p).active \in OpenIds(t) \cup {None}
<1>1. GoodPane(PaneAt(t.lay, p))  BY PaneAtIs DEF Whole, GoodLay
<1>2. PaneAt(t.lay, p).active \in ToSet(PaneAt(t.lay, p).ids) \cup {None}
  BY <1>1, GoodIsRaw
<1> QED  BY <1>2, ShownIsOpen

(* activatePaneAndSyncBuffer                                               *)
LEMMA FocusPaneStep ==
  ASSUME Inv, NEW p \in ToSet(AllPanes(tabs.lay)), FocusPane(p), NEW S
  PROVE  SafeOnTop(S)
<1> DEFINE lay == Bring(tabs.lay, p)
           t   == [tabs EXCEPT !.lay = lay]
           act == PaneAt(lay, p).active
           u   == IF act \in {None, tabs.active} THEN t ELSE Activate(t, act)
<1>1. Fine(tabs, nextId) /\ Sound(tabs) /\ GoodLay(tabs.lay)
  BY DEF Inv, StoresOk, Sound, Half, Whole
<1>2. Become(u) /\ Idle /\ nextId' = nextId  BY DEF FocusPane
<1>3. HasPane(tabs.lay, p)  BY <1>1, AllPanesIs DEF GoodLay
<1>4. /\ GoodLay(lay) /\ lay.front = p
      /\ \A x : Shows(lay, x) <=> Shows(tabs.lay, x)
  BY <1>1, <1>3, BringShows
<1> HIDE DEF lay
<1>5. /\ Fine(t, nextId) /\ SameOnes(tabs.bufs, t.bufs) /\ Sound(t)
      /\ t.lay = lay /\ t.active = tabs.active /\ OpenIds(t) = OpenIds(tabs)
  BY <1>1, <1>4, RelaidSound
<1> HIDE DEF t
<1>6. InFront(t.lay).active = act  BY <1>4, <1>5 DEF InFront
<1>7. act \in OpenIds(t) \cup {None}
  <2>1. HasPane(t.lay, p) /\ Whole(t)  BY <1>4, <1>5 DEF GoodLay, Sound, Half
  <2> QED  BY <2>1, <1>5, TopIsOpen
<1> HIDE DEF act
<1>8. Fine(u, nextId) /\ Sound(u) /\ OnTop(u) /\ OpenIds(u) = OpenIds(tabs)
  <2>1. CASE act \in {None, tabs.active}
    <3>1. u = t  BY <2>1
    <3> QED  BY <3>1, <2>1, <1>5, <1>6 DEF OnTop
  <2>2. CASE act \notin {None, tabs.active}
    <3>1. u = Activate(t, act) /\ act \in OpenIds(t)  BY <2>2, <1>7
    <3> HIDE DEF u
    <3>2. Fine(u, nextId) /\ SameOnes(t.bufs, u.bufs) /\ Sound(u) /\ OnTop(u)
      BY <3>1, <1>5, ActivateIs, ActivateSound
    <3> QED  BY <3>2, <1>5, SameOnesIds
  <2> QED  BY <2>1, <2>2
<1> HIDE DEF u
<1> QED  BY <1>2, <1>8, StaySafe DEF SafeOnTop, KeepsTop

(* activateBufferInPaneAndSync                                             *)
LEMMA ClickTabStep ==
  ASSUME Inv, NEW p \in ToSet(AllPanes(tabs.lay)),
         NEW id \in ToSet(PaneAt(tabs.lay, p).ids), ClickTab(p, id), NEW S
  PROVE  SafeOnTop(S)
<1> DEFINE u == ShowHere(tabs, p, id)
<1>1. Fine(tabs, nextId) /\ Sound(tabs) /\ Whole(tabs) /\ GoodLay(tabs.lay)
  BY DEF Inv, StoresOk, Sound, Half, Whole
<1>2. Become(u) /\ Idle /\ nextId' = nextId  BY DEF ClickTab
<1>3. HasPane(tabs.lay, p)  BY <1>1, AllPanesIs DEF GoodLay
<1>4. id \in OpenIds(tabs)  BY <1>1, <1>3, ShownIsOpen
<1>5. Fine(u, nextId) /\ SameOnes(tabs.bufs, u.bufs) /\ Sound(u) /\ OnTop(u)
  BY <1>1, <1>3, <1>4, ShowHereSound
<1> HIDE DEF u
<1>6. OpenIds(u) = OpenIds(tabs)  BY <1>5, SameOnesIds
<1> QED  BY <1>2, <1>5, <1>6, StaySafe DEF SafeOnTop, KeepsTop

(* Moving a buffer between panes shows what was shown.                     *)
LEMMA MoveToShows ==
  ASSUME NEW lay, GoodLay(lay), NEW from, HasPane(lay, from), NEW to, HasPane(lay, to),
         NEW id \in Ids, InPane(lay, from, id), NEW keepEmpty
  PROVE  LET u == MoveTo(lay, id, from, to, keepEmpty)
         IN /\ GoodLay(u) /\ u.front = to /\ HasPane(u, to) /\ InFront(u).active = id
            /\ \A x : Shows(u, x) <=> Shows(lay, x)
<1> DEFINE u == MoveTo(lay, id, from, to, keepEmpty)
<1>1. /\ GoodLay(u) /\ u.front = to /\ HasPane(u, to) /\ InFront(u).active = id
      /\ \A r, x : InPane(u, r, x)
           <=> (InPane(lay, r, x) /\ ~(r = from /\ x = id)) \/ (r = to /\ x = id)
  BY MoveToIs DEF GoodLay
<1>2. from \in PaneIds /\ to \in PaneIds  BY PaneAtIs DEF GoodLay
<1> HIDE DEF u
<1>3. \A x : Shows(u, x) <=> Shows(lay, x)
  <2> TAKE x
  <2>1. CASE x = id
    <3>1. Shows(u, x)  BY <2>1, <1>1, <1>2 DEF Shows
    <3>2. Shows(lay, x)  BY <2>1, <1>2 DEF Shows
    <3> QED  BY <3>1, <3>2
  <2>2. CASE x # id
    <3>1. \A r : InPane(u, r, x) <=> InPane(lay, r, x)  BY <2>2, <1>1
    <3> QED  BY <3>1 DEF Shows
  <2> QED  BY <2>1, <2>2
<1> QED  BY <1>1, <1>3 DEF u

(* A tab dropped on another pane, and at the edge of one.                  *)
LEMMA DropTabStep ==
  ASSUME Inv, NEW from \in ToSet(AllPanes(tabs.lay)),
         NEW id \in ToSet(PaneAt(tabs.lay, from).ids),
         NEW to \in ToSet(AllPanes(tabs.lay)), DropTab(id, from, to), NEW S
  PROVE  SafeOnTop(S)
<1> DEFINE lay == MoveTo(tabs.lay, id, from, to, FALSE)
           t   == [tabs EXCEPT !.lay = lay]
           u   == ShowHere(t, to, id)
<1>1. Fine(tabs, nextId) /\ Sound(tabs) /\ Whole(tabs) /\ GoodLay(tabs.lay)
  BY DEF Inv, StoresOk, Sound, Half, Whole
<1>2. Become(u) /\ Idle /\ nextId' = nextId  BY DEF DropTab
<1>3. HasPane(tabs.lay, from) /\ HasPane(tabs.lay, to)
  BY <1>1, AllPanesIs DEF GoodLay
<1>4. InPane(tabs.lay, from, id) /\ id \in OpenIds(tabs) /\ id \in Ids
  <2>1. InPane(tabs.lay, from, id) /\ id \in OpenIds(tabs)
    BY <1>1, <1>3, ShownIsOpen
  <2> QED  BY <2>1, <1>1, OpenIdsIs
<1>5. /\ GoodLay(lay) /\ HasPane(lay, to)
      /\ \A x : Shows(lay, x) <=> Shows(tabs.lay, x)
  BY <1>1, <1>3, <1>4, MoveToShows
<1> HIDE DEF lay
<1>6. Fine(t, nextId) /\ Sound(t) /\ t.lay = lay /\ OpenIds(t) = OpenIds(tabs)
  BY <1>1, <1>5, RelaidSound
<1> HIDE DEF t
<1>7. Fine(u, nextId) /\ SameOnes(t.bufs, u.bufs) /\ Sound(u) /\ OnTop(u)
  BY <1>4, <1>5, <1>6, ShowHereSound
<1> HIDE DEF u
<1>8. OpenIds(u) = OpenIds(tabs)  BY <1>6, <1>7, SameOnesIds
<1> QED  BY <1>2, <1>7, <1>8, StaySafe DEF SafeOnTop, KeepsTop

LEMMA DropTabBesideStep ==
  ASSUME Inv, NEW from \in ToSet(AllPanes(tabs.lay)),
         NEW id \in ToSet(PaneAt(tabs.lay, from).ids),
         NEW at \in ToSet(AllPanes(tabs.lay)), NEW before \in BOOLEAN,
         NEW keepEmpty \in BOOLEAN, DropTabBeside(id, from, at, before, keepEmpty),
         NEW S
  PROVE  SafeOnTop(S)
<1> DEFINE new == FreshPane(tabs.lay)
           one == SplitBeside(tabs.lay, at, None, before)
           lay == MoveTo(one, id, from, new, keepEmpty)
           t   == [tabs EXCEPT !.lay = lay]
           u   == ShowHere(t, new, id)
<1>1. Fine(tabs, nextId) /\ Sound(tabs) /\ Whole(tabs) /\ GoodLay(tabs.lay)
  BY DEF Inv, StoresOk, Sound, Half, Whole
<1>2. MayAddPane /\ Become(u) /\ Idle /\ nextId' = nextId  BY DEF DropTabBeside
<1>3. HasPane(tabs.lay, from) /\ HasPane(tabs.lay, at)
  BY <1>1, AllPanesIs DEF GoodLay
<1>4. InPane(tabs.lay, from, id) /\ id \in OpenIds(tabs) /\ id \in Ids
  <2>1. InPane(tabs.lay, from, id) /\ id \in OpenIds(tabs)
    BY <1>1, <1>3, ShownIsOpen
  <2> QED  BY <2>1, <1>1, OpenIdsIs
<1>5. /\ GoodLay(one)
      /\ \A r : HasPane(one, r) <=> r = new \/ HasPane(tabs.lay, r)
      /\ \A r, x : InPane(one, r, x) <=> InPane(tabs.lay, r, x)
  <2>1. Len(EditorPanes(tabs.lay)) < MaxPanes /\ LooseLay(tabs.lay)
    BY <1>1, <1>2 DEF MayAddPane, GoodLay
  <2> QED  BY <2>1, <1>3, SplitBesideIs
<1>6. \A x : Shows(one, x) <=> Shows(tabs.lay, x)  BY <1>5 DEF Shows
<1> HIDE DEF new, one
<1>7. /\ GoodLay(lay) /\ HasPane(lay, new)
      /\ \A x : Shows(lay, x) <=> Shows(one, x)
  BY <1>3, <1>4, <1>5, MoveToShows
<1> HIDE DEF lay
<1>8. Fine(t, nextId) /\ Sound(t) /\ t.lay = lay /\ OpenIds(t) = OpenIds(tabs)
  BY <1>1, <1>6, <1>7, RelaidSound
<1> HIDE DEF t
<1>9. Fine(u, nextId) /\ SameOnes(t.bufs, u.bufs) /\ Sound(u) /\ OnTop(u)
  BY <1>4, <1>7, <1>8, ShowHereSound
<1> HIDE DEF u
<1>10. OpenIds(u) = OpenIds(tabs)  BY <1>8, <1>9, SameOnesIds
<1> QED  BY <1>2, <1>9, <1>10, StaySafe DEF SafeOnTop, KeepsTop

(* Steps of which the buffer store hears nothing.                          *)
LEMMA RelayStep ==
  ASSUME Inv, NEW lay, Relay(lay), GoodLay(lay),
         \A x : Shows(lay, x) <=> Shows(tabs.lay, x), NEW S
  PROVE  Safe(S) /\ tabs'.lay = lay /\ tabs'.active = tabs.active
<1> DEFINE u == [tabs EXCEPT !.lay = lay]
<1>1. Fine(tabs, nextId) /\ Sound(tabs)  BY DEF Inv, StoresOk
<1>2. Become(u) /\ Idle /\ nextId' = nextId  BY DEF Relay
<1>3. /\ Fine(u, nextId) /\ Sound(u) /\ u.lay = lay /\ u.active = tabs.active
      /\ OpenIds(u) = OpenIds(tabs)
  BY <1>1, RelaidSound
<1> HIDE DEF u
<1> QED  BY <1>2, <1>3, StaySafe

LEMMA SplitPaneStep ==
  ASSUME Inv, NEW id \in SplitIds, SplitPane(id), NEW S
  PROVE  Safe(S)
<1> DEFINE p      == tabs.lay.front
           shared == IF id # None /\ BufferOf(tabs, id).type # "terminal"
                     THEN id ELSE None
           lay    == SplitBeside(tabs.lay, p, shared, FALSE)
<1>1. Fine(tabs, nextId) /\ Whole(tabs) /\ GoodLay(tabs.lay) /\ HasPane(tabs.lay, p)
  BY DEF Inv, StoresOk, Sound, Half, Whole, GoodLay
<1>2. Relay(lay) /\ Len(EditorPanes(tabs.lay)) < MaxPanes
  BY DEF SplitPane, MayAddPane
<1>3. id \in OpenIds(tabs) \cup {None}
  <2>1. CASE id \in ToSet(InFront(tabs.lay).ids)
    BY <2>1, <1>1, ShownIsOpen DEF InFront
  <2>2. CASE id = InFront(tabs.lay).active  BY <2>2, <1>1, TopIsOpen DEF InFront
  <2> QED  BY <2>1, <2>2 DEF SplitIds
<1>4. /\ shared \in OpenIds(tabs) \cup {None}
      /\ shared \in Ids \cup {None}
  BY <1>1, <1>3, OpenIdsIs
<1> HIDE DEF shared
<1>5. /\ GoodLay(lay)
      /\ \A r, x : InPane(lay, r, x)
           <=> \/ InPane(tabs.lay, r, x)
               \/ r = FreshPane(tabs.lay) /\ x = shared /\ shared # None
  <2>1. LooseLay(tabs.lay)  BY <1>1 DEF GoodLay
  <2> HIDE DEF p
  <2> QED  BY ONLY <2>1, <1>1, <1>2, <1>4, FALSE \in BOOLEAN, SplitBesideIs
<1> HIDE DEF lay
<1>6. \A x : Shows(lay, x) <=> Shows(tabs.lay, x)
  <2>1. ASSUME NEW x, Shows(lay, x)  PROVE Shows(tabs.lay, x)
    <3>1. CASE x = shared /\ shared # None  BY <3>1, <1>1, <1>4 DEF Whole
    <3>2. CASE ~(x = shared /\ shared # None)
      BY <3>2, <2>1, <1>5 DEF Shows
    <3> QED  BY <3>1, <3>2
  <2>2. ASSUME NEW x, Shows(tabs.lay, x)  PROVE Shows(lay, x)
    BY <2>2, <1>5 DEF Shows
  <2> QED  BY <2>1, <2>2
<1> QED  BY <1>2, <1>5, <1>6, RelayStep

LEMMA CloseSplitStep ==
  ASSUME Inv, NEW p \in ToSet(AllPanes(tabs.lay)), CloseSplit(p), NEW S
  PROVE  Safe(S)
<1> DEFINE lay == ClosePane(tabs.lay, p)
<1>1. GoodLay(tabs.lay) /\ LooseLay(tabs.lay)
  BY DEF Inv, StoresOk, Sound, Half, Whole, GoodLay
<1>2. IsEditorPane(p) /\ EditorPanes(tabs.lay) # <<p>> /\ Relay(lay)
  BY DEF CloseSplit
<1>3. HasPane(tabs.lay, p) /\ p # Bottom
  BY <1>1, <1>2, EditorPanesIs DEF IsEditorPane
<1>4. PICK q : HasPane(tabs.lay, q) /\ q # p /\ q # Bottom
  BY <1>1, <1>2, <1>3, OtherPane
<1>5. GoodLay(lay) /\ \A x : Shows(lay, x) <=> Shows(tabs.lay, x)
  BY <1>1, <1>3, <1>4, ClosePaneIs
<1> HIDE DEF lay
<1> QED  BY <1>2, <1>5, RelayStep

LEMMA CloseOtherSplitsStep ==
  ASSUME Inv, CloseOtherSplits, NEW S
  PROVE  Safe(S)
<1> DEFINE front == tabs.lay.front
           lay == FoldLeft(ClosePane, Bring(tabs.lay, front),
                           Without(EditorPanes(tabs.lay), front))
<1>1. GoodLay(tabs.lay) /\ LooseLay(tabs.lay)
  BY DEF Inv, StoresOk, Sound, Half, Whole, GoodLay
<1>2. IsEditorPane(front) /\ Relay(lay)  BY DEF CloseOtherSplits
<1>3. front # Bottom  BY <1>1, <1>2, EditorPanesIs DEF IsEditorPane
<1>4. GoodLay(lay) /\ \A x : Shows(lay, x) <=> Shows(tabs.lay, x)
  BY <1>1, <1>3, CloseOthersIs
<1> HIDE DEF lay
<1> QED  BY <1>2, <1>4, RelayStep

(* moveActiveEditorToAdjacentGroup keeps its buffer on top.                *)
LEMMA MoveToNextPaneStep ==
  ASSUME Inv, NEW forward \in BOOLEAN, MoveToNextPane(forward), NEW S
  PROVE  SafeOnTop(S)
<1> DEFINE all  == EditorPanes(tabs.lay)
           n    == Len(all)
           from == tabs.lay.front
           cur  == CHOOSE k \in 1 .. n : all[k] = from
           to   == IF forward THEN (cur % n) + 1 ELSE ((cur + n - 2) % n) + 1
           id   == InFront(tabs.lay).active
           q    == all[to]
           lay  == MoveTo(tabs.lay, id, from, q, FALSE)
<1>1. /\ Fine(tabs, nextId) /\ Whole(tabs) /\ GoodLay(tabs.lay) /\ LooseLay(tabs.lay)
      /\ HasPane(tabs.lay, from)
  BY DEF Inv, StoresOk, Sound, Half, Whole, GoodLay
<1>2. IsEditorPane(from) /\ n > 1 /\ id # None /\ Relay(lay)  BY DEF MoveToNextPane
<1>3. InPane(tabs.lay, from, id) /\ id \in Ids
  <2>1. GoodPane(PaneAt(tabs.lay, from))  BY <1>1, PaneAtIs
  <2>2. id \in ToSet(PaneAt(tabs.lay, from).ids)
    BY <2>1, <1>2, GoodIsRaw DEF InFront
  <2>3. id \in OpenIds(tabs)  BY <2>2, <1>1, ShownIsOpen
  <2> QED  BY <2>2, <2>3, <1>1, OpenIdsIs DEF InPane
<1>4. all \in Seq(PaneIds) /\ \A r : r \in ToSet(all) <=> HasPane(tabs.lay, r) /\ r # Bottom
  BY <1>1, EditorPanesIs
<1>5. from \in ToSet(all)  BY <1>2 DEF IsEditorPane
<1> HIDE DEF all
<1>6. n \in Nat /\ DOMAIN all = 1 .. n  BY <1>4
<1>7. cur \in 1 .. n
  <2>1. \E k \in 1 .. n : all[k] = from  BY <1>5, <1>6 DEF ToSet
  <2> QED  BY <2>1
<1>8. cur \in 0 .. n  BY <1>6, <1>7
<1> HIDE DEF cur, n
<1>9. to \in 1 .. n  BY <1>2, <1>6, <1>8, NextOf
<1> HIDE DEF to
<1>10. HasPane(tabs.lay, q)  BY <1>4, <1>6, <1>9 DEF ToSet
<1> HIDE DEF from, id, q
<1>11. /\ GoodLay(lay) /\ InFront(lay).active = id
       /\ \A x : Shows(lay, x) <=> Shows(tabs.lay, x)
  <2>1. GoodLay(tabs.lay) /\ HasPane(tabs.lay, from)  BY <1>1
  <2>2. /\ GoodLay(lay) /\ lay.front = q /\ HasPane(lay, q) /\ InFront(lay).active = id
        /\ \A x : Shows(lay, x) <=> Shows(tabs.lay, x)
    BY <2>1, <1>3, <1>10, MoveToShows
  <2> HIDE DEF lay
  <2> QED  BY <2>2
<1> HIDE DEF lay
<1>12. Safe(S) /\ tabs'.lay = lay /\ tabs'.active = tabs.active
  BY <1>2, <1>11, RelayStep
<1>13. KeepsTop(tabs, tabs')  BY <1>11, <1>12 DEF KeepsTop, OnTop, id
<1> QED  BY <1>12, <1>13 DEF SafeOnTop

-----------------------------------------------------------------------------
(* Which buffers a step may take out of the tabs.                          *)
MayClosePinned(b) ==
  \/ CloseTab(b.id)
  \/ DialogStep /\ tabs.pending.type = "single" /\ tabs.pending.id = b.id

MayDropEdits(b) == DialogStep \/ (OpenStep /\ (Full(tabs) \/ b.preview))

Losable ==
  {b \in ToSet(tabs.bufs) : /\ b.pinned => MayClosePinned(b)
                            /\ IsDirty(b) => MayDropEdits(b)}

(* What every step keeps.                                                  *)
StepKeeps ==
  Safe(Losable) /\ (KeepsTop(tabs, tabs') \/ SplitOrCloseStep)

(* Each step's own set is within what any step may take out.               *)
LEMMA KeepsByTop ==
  ASSUME NEW S, SafeOnTop(S), \A b \in S : b \in Losable
  PROVE  StepKeeps
<1>1. Safe(S) /\ KeepsTop(tabs, tabs')  BY DEF SafeOnTop
<1>2. Loses(tabs, tabs', Losable)
  <2>1. Loses(tabs, tabs', S)  BY <1>1 DEF Safe, Leaves
  <2> HIDE DEF Losable
  <2> QED  BY <2>1, LosesWider
<1> QED  BY <1>1, <1>2 DEF StepKeeps, Safe, Leaves

LEMMA SparedKeeps ==
  ASSUME SafeOnTop(Spared(tabs))
  PROVE  StepKeeps
<1>1. \A b \in Spared(tabs) : b \in Losable  BY DEF Spared, Losable
<1> QED  BY <1>1, KeepsByTop

LEMMA ExpendableKeeps ==
  ASSUME SafeOnTop(Expendable(tabs)), OpenStep
  PROVE  StepKeeps
<1>1. \A b \in Expendable(tabs) : b \in Losable
  BY DEF Expendable, Losable, MayDropEdits
<1> QED  BY <1>1, KeepsByTop

LEMMA AnsweredKeeps ==
  ASSUME SafeOnTop(Answered(tabs)), DialogStep
  PROVE  StepKeeps
<1>1. \A b \in Answered(tabs) : b \in Losable
  BY DEF Answered, Losable, MayDropEdits, MayClosePinned
<1> QED  BY <1>1, KeepsByTop

LEMMA CloseTabKeeps ==
  ASSUME Inv, NEW id \in OpenIds(tabs), CloseTab(id)
  PROVE  StepKeeps
<1> DEFINE S == {b \in WithIds(tabs, {id}) : ~IsDirty(b)}
<1>1. SafeOnTop(S)  BY CloseTabStep
<1>2. \A b \in S : b \in Losable  BY DEF WithIds, Losable, MayClosePinned
<1> HIDE DEF S
<1> QED  BY <1>1, <1>2, KeepsByTop

LEMMA SplitOrCloseKeeps ==
  ASSUME Safe(Losable), SplitOrCloseStep
  PROVE  StepKeeps
BY DEF StepKeeps

(* The disjuncts of the next-state relation, in four groups.               *)
LEMMA OpeningKeeps ==
  ASSUME Inv,
         \/ \E path \in Paths, preview \in BOOLEAN : SelectFile(path, preview)
         \/ FileRead \/ FileReadFails \/ OpenTerminal
         \/ \E p \in ToSet(AllPanes(tabs.lay)) : ShowNewTab(p)
         \/ ReopenClosed \/ ReopenRead \/ ReopenFails \/ NewUntitled
  PROVE  StepKeeps
<1>1. ASSUME NEW path \in Paths, NEW preview \in BOOLEAN, SelectFile(path, preview)
      PROVE  StepKeeps
  BY <1>1, SelectFileStep, SparedKeeps
<1>2. CASE FileRead  BY <1>2, FileReadStep, ExpendableKeeps DEF OpenStep
<1>3. CASE OpenTerminal  BY <1>3, OpenTerminalStep, ExpendableKeeps DEF OpenStep
<1>4. CASE ReopenRead  BY <1>4, ReopenReadStep, ExpendableKeeps DEF OpenStep
<1>5. ASSUME NEW p \in ToSet(AllPanes(tabs.lay)), ShowNewTab(p)  PROVE StepKeeps
  BY <1>5, ShowNewTabStep, SparedKeeps
<1>6. CASE FileReadFails \/ ReopenFails  BY <1>6, RequestSteps, SparedKeeps
<1>7. CASE ReopenClosed  BY <1>7, ReopenClosedStep, SparedKeeps
<1>8. CASE NewUntitled  BY <1>8, NewUntitledStep, ExpendableKeeps DEF OpenStep
<1> QED  BY <1>1, <1>2, <1>3, <1>4, <1>5, <1>6, <1>7, <1>8

LEMMA EditingKeeps ==
  ASSUME Inv,
         \/ \E d \in BOOLEAN : Edit(d)
         \/ \E ok \in BOOLEAN : SaveActive(ok)
         \/ \E id \in OpenIds(tabs), path \in Paths : SaveUntitled(id, path)
         \/ \E from \in Paths : \E to \in Paths \ {from} : Rename(from, to)
         \/ \E id \in OpenIds(tabs) : SelectTab(id) \/ Pin(id) \/ Promote(id)
         \/ \E from, to \in DOMAIN tabs.bufs : from # to /\ Reorder(from, to)
         \/ \E forward \in BOOLEAN : Switch(forward)
  PROVE  StepKeeps
<1>1. ASSUME NEW d \in BOOLEAN, Edit(d)  PROVE StepKeeps
  BY <1>1, EditStep, SparedKeeps
<1>2. ASSUME NEW ok \in BOOLEAN, SaveActive(ok)  PROVE StepKeeps
  BY <1>2, SaveActiveStep, SparedKeeps
<1>3. ASSUME NEW id \in OpenIds(tabs), SelectTab(id)  PROVE StepKeeps
  BY <1>3, SelectTabStep, SparedKeeps
<1>4. ASSUME NEW id \in OpenIds(tabs), Pin(id)  PROVE StepKeeps
  BY <1>4, PinStep, SparedKeeps
<1>5. ASSUME NEW id \in OpenIds(tabs), Promote(id)  PROVE StepKeeps
  BY <1>5, PromoteStep, SparedKeeps
<1>6. ASSUME NEW from \in DOMAIN tabs.bufs, NEW to \in DOMAIN tabs.bufs,
             Reorder(from, to)
      PROVE  StepKeeps
  BY <1>6, ReorderStep, SparedKeeps
<1>7. ASSUME NEW forward \in BOOLEAN, Switch(forward)  PROVE StepKeeps
  BY <1>7, SwitchStep, SparedKeeps
<1>8. ASSUME NEW id, NEW path \in Paths, SaveUntitled(id, path)  PROVE StepKeeps
  BY <1>8, SaveUntitledStep, SparedKeeps
<1>9. ASSUME NEW from \in Paths, NEW to \in Paths, Rename(from, to)  PROVE StepKeeps
  BY <1>9, RenameStep, SparedKeeps
<1> QED  BY <1>1, <1>2, <1>3, <1>4, <1>5, <1>6, <1>7, <1>8, <1>9

LEMMA ClosingKeeps ==
  ASSUME Inv,
         \/ \E id \in OpenIds(tabs) :
              \/ CloseTab(id)
              \/ \E type \in {"others", "to-left", "to-right"} : CloseTabs(type, id)
         \/ CloseTabs("all", None)
         \/ CloseSavedTabs
         \/ Cancel \/ Discard \/ SaveAndClose
         \/ SaveAndCloseStep \/ SaveAndCloseThrows
         \/ LimitTabs
  PROVE  StepKeeps
<1>0. OpenIds(tabs) \subseteq Ids  BY OpenIdsIs DEF Inv, StoresOk
<1>1. ASSUME NEW id \in OpenIds(tabs), CloseTab(id)  PROVE StepKeeps
  BY <1>1, CloseTabKeeps
<1>2. ASSUME NEW id \in OpenIds(tabs), NEW type \in {"others", "to-left", "to-right"},
             CloseTabs(type, id)
      PROVE  StepKeeps
  <2>1. type \in BatchTypes \ {"single"} /\ id \in Ids \cup {None}
    BY <1>0 DEF BatchTypes
  <2> QED  BY <1>2, <2>1, CloseTabsStep, SparedKeeps
<1>3. CASE CloseTabs("all", None)
  <2>1. "all" \in BatchTypes \ {"single"} /\ None \in Ids \cup {None}
    BY DEF BatchTypes
  <2> QED  BY <1>3, <2>1, CloseTabsStep, SparedKeeps
<1>4. CASE CloseSavedTabs  BY <1>4, CloseSavedTabsStep, SparedKeeps
<1>5. CASE Cancel  BY <1>5, CancelStep, SparedKeeps
<1>6. CASE Discard  BY <1>6, DiscardStep, AnsweredKeeps DEF DialogStep
<1>7. CASE SaveAndClose \/ SaveAndCloseThrows  BY <1>7, RequestSteps, SparedKeeps
<1>8. CASE SaveAndCloseStep
  <2>1. DialogStep  BY <1>8 DEF DialogStep
  <2>2. SafeOnTop(Answered(tabs))
    BY <1>8, SaveAndCloseEndsStep, SaveAsAndCloseEndsStep DEF SaveAndCloseStep
  <2> QED  BY <2>1, <2>2, AnsweredKeeps
<1>9. CASE LimitTabs  BY <1>9, LimitTabsStep, SparedKeeps
<1> QED  BY <1>1, <1>2, <1>3, <1>4, <1>5, <1>6, <1>7, <1>8, <1>9

PaneStep ==
  \/ \E p \in ToSet(AllPanes(tabs.lay)) :
       \/ FocusPane(p)
       \/ CloseSplit(p)
       \/ \E id \in ToSet(PaneAt(tabs.lay, p).ids) :
            \/ ClickTab(p, id)
            \/ \E to \in ToSet(AllPanes(tabs.lay)) :
                 \/ DropTab(id, p, to)
                 \/ \E before, keepEmpty \in BOOLEAN :
                      DropTabBeside(id, p, to, before, keepEmpty)
  \/ \E id \in SplitIds : SplitPane(id)
  \/ CloseOtherSplits
  \/ \E forward \in BOOLEAN : MoveToNextPane(forward)

LEMMA PaneStepKeeps ==
  ASSUME Inv, PaneStep
  PROVE  StepKeeps
<1> DEFINE P == ToSet(AllPanes(tabs.lay))
<1>1. ASSUME NEW p \in P, FocusPane(p)  PROVE StepKeeps
  BY <1>1, FocusPaneStep, SparedKeeps
<1>2. ASSUME NEW p \in P, CloseSplit(p)  PROVE StepKeeps
  <2>1. Safe(Losable)  BY <1>2, CloseSplitStep
  <2>2. SplitOrCloseStep  BY <1>2 DEF SplitOrCloseStep
  <2> QED  BY <2>1, <2>2, SplitOrCloseKeeps
<1>3. ASSUME NEW p \in P, NEW id \in ToSet(PaneAt(tabs.lay, p).ids), ClickTab(p, id)
      PROVE  StepKeeps
  BY <1>3, ClickTabStep, SparedKeeps
<1>4. ASSUME NEW p \in P, NEW id \in ToSet(PaneAt(tabs.lay, p).ids),
             NEW to \in P, DropTab(id, p, to)
      PROVE  StepKeeps
  BY <1>4, DropTabStep, SparedKeeps
<1>5. ASSUME NEW p \in P, NEW id \in ToSet(PaneAt(tabs.lay, p).ids), NEW to \in P,
             NEW before \in BOOLEAN, NEW keepEmpty \in BOOLEAN,
             DropTabBeside(id, p, to, before, keepEmpty)
      PROVE  StepKeeps
  BY <1>5, DropTabBesideStep, SparedKeeps
<1>6. ASSUME NEW id \in SplitIds, SplitPane(id)  PROVE StepKeeps
  <2>1. Safe(Losable)  BY <1>6, SplitPaneStep
  <2>2. SplitOrCloseStep  BY <1>6 DEF SplitOrCloseStep
  <2> QED  BY <2>1, <2>2, SplitOrCloseKeeps
<1>7. CASE CloseOtherSplits
  <2>1. Safe(Losable)  BY <1>7, CloseOtherSplitsStep
  <2>2. SplitOrCloseStep  BY <1>7 DEF SplitOrCloseStep
  <2> QED  BY <2>1, <2>2, SplitOrCloseKeeps
<1>8. ASSUME NEW forward \in BOOLEAN, MoveToNextPane(forward)  PROVE StepKeeps
  BY <1>8, MoveToNextPaneStep, SparedKeeps
<1> QED  BY <1>1, <1>2, <1>3, <1>4, <1>5, <1>6, <1>7, <1>8 DEF PaneStep

(* Every step.                                                             *)
LEMMA StepSafe ==
  ASSUME Inv, Next
  PROVE  StepKeeps
<1>1. CASE LimitTabs  BY <1>1, ClosingKeeps
<1>2. CASE UserOrReadStep
  BY <1>2, OpeningKeeps, EditingKeeps, ClosingKeeps, PaneStepKeeps
  DEF UserOrReadStep, PaneStep
<1> QED  BY <1>1, <1>2 DEF Next

-----------------------------------------------------------------------------
(* The invariant.                                                          *)
LEMMA InitInv == Init => Inv
<1> SUFFICES ASSUME Init PROVE Inv
  OBVIOUS
<1>1. /\ tabs.bufs = <<>> /\ tabs.active = None /\ tabs.pending = None
      /\ tabs.closed = <<>> /\ tabs.lay = InitialLayout /\ IsStore(tabs)
  BY DEF Init, IsStore
<1>2. Fine(tabs, nextId)
  BY <1>1 DEF Fine, GoodBufs
<1>3. \A x : x \notin OpenIds(tabs)
  BY <1>1, <1>2, OpenIdsIs
<1>4. Sound(tabs)
  <2>1. Whole(tabs)  BY <1>1, <1>3, InitialLayoutGood DEF Whole
  <2>2. Len(tabs.closed) <= MaxHistory  BY <1>1, BoundsAssumption
  <2> QED  BY <2>1, <2>2, <1>1 DEF Sound, Half, ActiveOk
<1>5. Requests
  <2>1. nextId \in 1 .. MaxOpens + 1  BY BoundsAssumption DEF Init
  <2> QED  BY <2>1 DEF Init, Requests
<1> QED  BY <1>2, <1>4, <1>5 DEF Inv, StoresOk

LEMMA InvNext == Inv /\ [Next]_vars => Inv'
<1> SUFFICES ASSUME Inv, [Next]_vars PROVE Inv'
  OBVIOUS
<1>1. CASE Next
  <2>1. Leaves(tabs, tabs', nextId', Losable) /\ Requests'
    BY <1>1, StepSafe DEF StepKeeps, Safe
  <2> QED  BY <2>1 DEF Leaves, Inv, StoresOk
<1>2. CASE UNCHANGED vars
  BY <1>2 DEF vars, Inv, StoresOk, Requests
<1> QED  BY <1>1, <1>2

(* In every behaviour of the two stores the invariant holds.               *)
THEOREM InvHolds == Spec => []Inv
<1> QED BY InitInv, InvNext, PTL DEF Spec

(* Type correctness, for any bounds, limits and files.                     *)
THEOREM TypeCorrect == Spec => []TypeOK
<1>1. Inv => TypeOK
  <2> SUFFICES ASSUME Inv PROVE TypeOK
    OBVIOUS
  <2>1. Fine(tabs, nextId) /\ Sound(tabs) /\ Requests  BY DEF Inv, StoresOk
  <2>2. OpenIds(tabs) \subseteq Ids  BY <2>1, OpenIdsIs
  <2>3. tabs.active \in Ids \cup {None}  BY <2>1, <2>2 DEF Sound, ActiveOk
  <2>4. /\ tabs.lay.groups \in Seq(Pane)
        /\ tabs.lay.front \in PaneIds /\ tabs.lay.recent \in Seq(PaneIds)
    BY <2>1 DEF Sound, Half, Whole, GoodLay, LooseLay, GoodGroups
  <2> QED
    BY <2>1, <2>3, <2>4 DEF TypeOK, Requests, Fine, GoodBufs, Sound, Half
<1> QED BY <1>1, InvHolds, PTL

(* openContent finds the tab of a file: whatever reads of files and        *)
(* reopened tabs were in flight together, a file has a second tab only     *)
(* when a buffer was given its path while another one had it, by a first   *)
(* save, a rename or a move (updateBufferPath).                            *)
THEOREM OneTabPerFileHolds == Spec => []OneTabPerFile
<1>1. Inv => OneTabPerFile
  BY DEF Inv, StoresOk, Fine, GoodBufs, OneTabPerFile
<1> QED BY <1>1, InvHolds, PTL

-----------------------------------------------------------------------------
(* The two stores agree.                                                   *)
LEMMA PanesAgree ==
  ASSUME NEW t, NEW n, Fine(t, n), Sound(t)
  PROVE  LET lay == t.lay
             all == AllPanes(lay)
         IN /\ \A k \in DOMAIN all : LET g == lay.groups[k] IN
                 /\ IsInjective(g.ids) /\ Len(g.mru) = Len(g.ids)
                 /\ ToSet(g.mru) = ToSet(g.ids) /\ g.active = HeadOr(g.mru)
                 /\ g.preview \in ToSet(g.ids) \cup {None}
            /\ OpenIds(t) = UNION {ToSet(lay.groups[k].ids) : k \in DOMAIN all}
            /\ IsInjective(all) /\ HasPane(lay, lay.front)
            /\ Head(lay.recent) = lay.front
            /\ IF t.bufs = <<>> THEN t.active = None ELSE t.active \in OpenIds(t)
<1> DEFINE lay == t.lay
           all == AllPanes(lay)
<1>1. GoodLay(lay) /\ LooseLay(lay) /\ \A x : Shows(lay, x) <=> x \in OpenIds(t)
  BY DEF Sound, Half, Whole, GoodLay
<1>2. DOMAIN all = DOMAIN lay.groups  BY DEF AllPanes
<1>3. \A k \in DOMAIN lay.groups : GoodPane(lay.groups[k])
  BY <1>1 DEF LooseLay, GoodGroups
<1>4. IF t.bufs = <<>> THEN t.active = None ELSE t.active \in OpenIds(t)
  BY DEF Sound, ActiveOk
<1>5. IsInjective(all)  BY <1>1, AllPanesIs
<1> HIDE DEF lay, all
<1>6. OpenIds(t) = UNION {ToSet(lay.groups[k].ids) : k \in DOMAIN all}
  <2>1. ASSUME NEW x \in OpenIds(t)
        PROVE  \E k \in DOMAIN lay.groups : x \in ToSet(lay.groups[k].ids)
    <3>1. PICK p : HasPane(lay, p) /\ x \in ToSet(PaneAt(lay, p).ids)
      BY <1>1 DEF Shows, InPane
    <3>2. PICK k \in DOMAIN lay.groups : PaneAt(lay, p) = lay.groups[k]
      BY <1>1, <3>1, PaneAtIs
    <3> QED  BY <3>1, <3>2
  <2>2. ASSUME NEW k \in DOMAIN lay.groups, NEW x \in ToSet(lay.groups[k].ids)
        PROVE  x \in OpenIds(t)
    <3> DEFINE p == lay.groups[k].id
    <3>1. HasPane(lay, p) /\ PaneAt(lay, p) = lay.groups[k]
      BY <1>1, PaneAtPlace
    <3>2. p \in PaneIds  BY <3>1, <1>1, PaneAtIs
    <3>3. InPane(lay, p, x)  BY <3>1 DEF InPane
    <3> QED  BY <3>2, <3>3, <1>1 DEF Shows
  <2> QED  BY <2>1, <2>2, <1>2
<1>7. \A k \in DOMAIN all : LET g == lay.groups[k] IN
        /\ IsInjective(g.ids) /\ Len(g.mru) = Len(g.ids)
        /\ ToSet(g.mru) = ToSet(g.ids) /\ g.active = HeadOr(g.mru)
        /\ g.preview \in ToSet(g.ids) \cup {None}
  BY <1>2, <1>3 DEF GoodPane
<1>8. HasPane(lay, lay.front) /\ Head(lay.recent) = lay.front
  BY <1>1 DEF GoodLay
<1> QED  BY <1>4, <1>5, <1>6, <1>7, <1>8 DEF lay, all

(* After every step the panes show exactly the open buffers, and no step   *)
(* but splitting and closing panes takes the active buffer from the top of *)
(* the pane in front (buffer.store.ts and pane.store.ts, changed one after *)
(* the other).                                                             *)
THEOREM PaneAgreesHolds == Spec => PaneAgrees
<1>1. Inv => PanesShowBuffers
  BY PanesAgree DEF Inv, StoresOk, PanesShowBuffers
<1>2. Inv /\ [Next]_vars =>
        [tabs' # tabs => (FrontIsActive => FrontIsActive' \/ SplitOrCloseStep)]_vars
  <2> SUFFICES ASSUME Inv, Next, FrontIsActive
               PROVE  FrontIsActive' \/ SplitOrCloseStep
    OBVIOUS
  <2>1. KeepsTop(tabs, tabs') \/ SplitOrCloseStep  BY StepSafe DEF StepKeeps
  <2> QED  BY <2>1 DEF KeepsTop, OnTop, FrontIsActive
<1>3. Inv /\ Inv' /\ [Next]_vars =>
        [tabs' # tabs =>
           /\ PanesShowBuffers'
           /\ FrontIsActive => FrontIsActive' \/ SplitOrCloseStep]_vars
  BY <1>1, <1>2, PTL
<1> QED BY <1>3, InvHolds, PTL DEF Spec, PaneAgrees

-----------------------------------------------------------------------------
(* What leaves the tabs.                                                   *)
LEMMA GoneIsLosable ==
  ASSUME Inv, Next, NEW id \in Gone
  PROVE  BufferOf(tabs, id) \in Losable /\ BufferOf(tabs, id).id = id
<1> DEFINE b == BufferOf(tabs, id)
<1>1. id \in OpenIds(tabs) /\ id \notin OpenIds(tabs')  BY DEF Gone
<1>2. b \in ToSet(tabs.bufs) /\ b.id = id  BY <1>1, BufferOfIs
<1> HIDE DEF b
<1>3. Loses(tabs, tabs', Losable)  BY StepSafe DEF StepKeeps, Safe, Leaves
<1> HIDE DEF Losable
<1>4. b \in Losable  BY <1>1, <1>2, <1>3 DEF Loses
<1> QED  BY <1>2, <1>4 DEF b

(* No order of closing, opening, moving and answering the dialog, with     *)
(* reads in flight, drops an unsaved buffer without the user's answer, but *)
(* for the limit and the preview (closeBuffer, closeBufferForce,           *)
(* openContent).                                                           *)
THEOREM UnsavedNeedsConsentHolds == Spec => UnsavedNeedsConsent
<1>1. Inv /\ [Next]_vars =>
        [\A id \in Gone : IsDirty(BufferOf(tabs, id)) =>
           \/ DialogStep
           \/ OpenStep /\ (AtStoreLimit \/ BufferOf(tabs, id).preview)]_vars
  <2> SUFFICES ASSUME Inv, Next, NEW id \in Gone, IsDirty(BufferOf(tabs, id))
               PROVE  \/ DialogStep
                      \/ OpenStep /\ (AtStoreLimit \/ BufferOf(tabs, id).preview)
    OBVIOUS
  <2>1. MayDropEdits(BufferOf(tabs, id))  BY GoneIsLosable DEF Losable
  <2>2. AtStoreLimit <=> Full(tabs)  BY DEF AtStoreLimit, Full, Evictable
  <2> QED  BY <2>1, <2>2 DEF MayDropEdits
<1> QED BY <1>1, InvHolds, PTL DEF Spec, UnsavedNeedsConsent

(* A pinned tab leaves only by its own close button or by the dialog that  *)
(* this opened (closeBuffer, handleCloseOtherTabs and its like, the        *)
(* eviction, the tab limit's effect).                                      *)
THEOREM PinnedStaysHolds == Spec => PinnedStays
<1>1. Inv /\ [Next]_vars =>
        [\A id \in Gone : BufferOf(tabs, id).pinned =>
           \/ CloseTab(id)
           \/ DialogStep /\ tabs.pending.type = "single" /\ tabs.pending.id = id]_vars
  <2> SUFFICES ASSUME Inv, Next, NEW id \in Gone, BufferOf(tabs, id).pinned
               PROVE  \/ CloseTab(id)
                      \/ /\ DialogStep
                         /\ tabs.pending.type = "single" /\ tabs.pending.id = id
    OBVIOUS
  <2>1. MayClosePinned(BufferOf(tabs, id)) /\ BufferOf(tabs, id).id = id
    BY GoneIsLosable DEF Losable
  <2> QED  BY <2>1 DEF MayClosePinned
<1> QED BY <1>1, InvHolds, PTL DEF Spec, PinnedStays

=============================================================================
