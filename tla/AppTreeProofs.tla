---------------------------- MODULE AppTreeProofs ----------------------------
(***************************************************************************)
(* Proofs about AppTree for any threads, groups, names, settings,          *)
(* certificates, requests and memory: the lists stay sound and nothing in  *)
(* use is lost, the tree says what was set last, and a status is printed   *)
(* whole.                                                                  *)
(***************************************************************************)
EXTENDS AppTree, FiniteSetTheorems, SequenceTheorems, WellFoundedInduction, TLAPS

-----------------------------------------------------------------------------
(* Numbers, finite sets and functions given step by step. *)

\* Of numbers there is a least: induction over numbers that a set is closed under.
LEMMA Least ==
  ASSUME NEW S \in SUBSET Nat, S # {}
  PROVE  \E m \in S : \A k \in S : m <= k
<1> DEFINE R == OpToRel(<, Nat)
<1>1. IsWellFoundedOn(R, Nat)
  BY NatLessThanWellFounded, Zenon
<1>2. \A x, y \in Nat : <<y, x>> \in R <=> y < x
  BY Zenon DEF OpToRel
<1> HIDE DEF R
<1>3. PICK m \in S : \A k \in S : ~(<<k, m>> \in R)
  BY <1>1, WFMin
<1>4. m \in Nat /\ \A k \in S : k \in Nat
  OBVIOUS
<1>5. \A k \in S : ~(k < m)
  BY <1>2, <1>3, <1>4, Zenon
<1> QED BY <1>4, <1>5

\* A set that holds 0 and with a number the next holds all up to n.
LEMMA Induction ==
  ASSUME NEW n \in Nat, NEW Z, 0 \in Z, \A m \in 0 .. n - 1 : m \in Z => m + 1 \in Z
  PROVE  0 .. n \subseteq Z
<1> DEFINE U == {m \in 0 .. n : m \notin Z}
<1> SUFFICES ASSUME U # {} PROVE FALSE
  OBVIOUS
<1>0. U \in SUBSET Nat
  OBVIOUS
<1>1. PICK u \in U : \A v \in U : u <= v
  <2> HIDE DEF U
  <2> QED BY <1>0, Least
<1>2. u # 0 /\ u \in 0 .. n /\ u \notin Z
  OBVIOUS
<1>3. u - 1 \in 0 .. n - 1 /\ u - 1 \notin U
  BY <1>1, <1>2
<1>4. u - 1 \in Z
  BY <1>3
<1> QED BY <1>2, <1>3, <1>4

\* The least of some numbers.
LEMMA MinIs ==
  ASSUME NEW S \in SUBSET Nat, S # {}
  PROVE  Min(S) \in S /\ \A k \in S : Min(S) <= k
BY Least DEF Min

\* A function may be given by its first value and each value by the one before.
Rules(N, D) == [(1 .. N) \X D -> D]

Follows(f, N, D, b, F) ==
  f \in [0 .. N -> D] /\ f[0] = b /\ \A n \in 1 .. N : f[n] = F[<<n, f[n - 1]>>]

\* There is such a function.
LEMMA Recursion ==
  ASSUME NEW N \in Nat, NEW D, NEW b \in D, NEW F \in Rules(N, D)
  PROVE  \E f : Follows(f, N, D, b, F)
<1>0. \A n \in 1 .. N : \A d \in D : F[<<n, d>>] \in D
  BY DEF Rules
<1> DEFINE Upto(m, f) == f[0] = b /\ \A n \in 1 .. m : f[n] = F[<<n, f[n - 1]>>]
           Z == {m \in 0 .. N : \E f \in [0 .. m -> D] : Upto(m, f)}
<1>1. 0 \in Z
  <2>1. [n \in 0 .. 0 |-> b] \in [0 .. 0 -> D] /\ Upto(0, [n \in 0 .. 0 |-> b])
    OBVIOUS
  <2> HIDE DEF Upto
  <2> QED BY <2>1
<1>2. ASSUME NEW m \in 0 .. N - 1, m \in Z PROVE m + 1 \in Z
  <2>1. PICK f \in [0 .. m -> D] : Upto(m, f)
    BY <1>2
  <2> DEFINE g == [n \in 0 .. m + 1 |-> IF n = m + 1 THEN F[<<m + 1, f[m]>>] ELSE f[n]]
  <2>2. g \in [0 .. m + 1 -> D]
    BY <1>0
  <2>3. g[0] = b /\ g[m] = f[m] /\ g[m + 1] = F[<<m + 1, f[m]>>]
    BY <2>1
  <2>4. ASSUME NEW n \in 1 .. m + 1 PROVE g[n] = F[<<n, g[n - 1]>>]
    <3>1. CASE n = m + 1
      <4>1. n - 1 = m
        BY <3>1
      <4> QED BY <2>3, <3>1, <4>1
    <3>2. CASE n # m + 1
      <4>1. n \in 1 .. m /\ n - 1 \in 0 .. m
        BY <3>2
      <4>2. g[n] = f[n] /\ g[n - 1] = f[n - 1]
        BY <4>1
      <4> QED BY <2>1, <4>1, <4>2
    <3> QED BY <3>1, <3>2
  <2>5. Upto(m + 1, g)
    BY <2>3, <2>4
  <2> HIDE DEF Upto, g
  <2> QED BY <2>2, <2>5
<1>3. N \in Z
  <2> HIDE DEF Z
  <2>1. 0 .. N \subseteq Z
    BY <1>1, <1>2, Induction
  <2> QED BY <2>1
<1> QED BY <1>3 DEF Follows

\* As many items as there is memory at most, in a sequence without a repetition.
LEMMA NoMoreThanItems ==
  ASSUME NEW s \in Seq(Items), \A k, l \in DOMAIN s : s[k] = s[l] => k = l
  PROVE  Len(s) <= MaxItems
<1>1. MaxItems \in Nat /\ Items = 1 .. MaxItems
  BY HeapAssumption DEF Items
<1>2. IsFiniteSet(Items) /\ Cardinality(Items) = MaxItems
  BY <1>1, FS_Interval
<1>3. IsFiniteSet(1 .. Len(s)) /\ Cardinality(1 .. Len(s)) = Len(s)
  <2>1. Len(s) \in Int /\ 1 \in Int /\ Len(s) >= 0
    OBVIOUS
  <2>2. Cardinality(1 .. Len(s)) = IF 1 > Len(s) THEN 0 ELSE Len(s) - 1 + 1
    BY <2>1, FS_Interval
  <2> QED BY <2>1, <2>2, FS_Interval
<1>4. s \in Injection(1 .. Len(s), Items)
  <2>1. s \in [1 .. Len(s) -> Items] /\ DOMAIN s = 1 .. Len(s)
    OBVIOUS
  <2> QED BY <2>1, Zenon DEF Injection, IsInjective
<1> QED BY <1>2, <1>3, <1>4, FS_Injection
-----------------------------------------------------------------------------
(* Walks through the heap. *)

Links == 0 .. MaxItems

AllNames == Groups \cup Names \cup Settings \cup Certs \cup {NoName}

Heaps ==
  [next : [Items -> Links], prev : [Items -> Links], child : [Items -> Links],
   value : [Items -> Nat], name : [Items -> AllNames], live : SUBSET Items]

\* The walks of Chain, for each number of steps.
Step(h, i, n, s) ==
  LET j == IF s = << >> THEN i ELSE h.next[Last(s)]
  IN  IF j = 0 \/ Len(s) < n - 1 THEN s ELSE Append(s, j)

Walks(h, i, w) ==
  w = [n \in 0 .. MaxItems |-> IF n = 0 THEN << >> ELSE Step(h, i, n, w[n - 1])]

\* The items are numbers from 1 on, and NULL is none of them.
LEMMA ItemsAre == MaxItems \in Nat /\ Items = 1 .. MaxItems /\ Links = Items \cup {0} /\ 0 \notin Items
BY HeapAssumption DEF Items, Links

\* A step of a walk stays among items that next does not lead out of.
LEMMA StepType ==
  ASSUME NEW h \in Heaps, NEW X \in SUBSET Items, \A x \in X : h.next[x] \in X \cup {0},
         NEW i \in X \cup {0}, NEW n \in Nat, NEW s \in Seq(X)
  PROVE  Step(h, i, n, s) \in Seq(X)
<1>1. CASE s = << >>
  BY <1>1 DEF Step
<1>2. CASE s # << >>
  <2>1. Last(s) \in X
    BY <1>2 DEF Last
  <2>2. h.next[Last(s)] \in X \cup {0}
    BY <2>1
  <2> QED BY <1>2, <2>2 DEF Step
<1> QED BY <1>1, <1>2

\* Chain is the last of the walks.
LEMMA ChainIs ==
  ASSUME NEW h \in Heaps, NEW i \in Links
  PROVE  \E w : Walks(h, i, w) /\ Chain(h, i) = w[MaxItems]
<1> DEFINE D == Seq(Items)
           F == [nd \in (1 .. MaxItems) \X D |-> Step(h, i, nd[1], nd[2])]
<1>1. ASSUME NEW n \in 1 .. MaxItems, NEW d \in D PROVE F[<<n, d>>] = Step(h, i, n, d) /\ F[<<n, d>>] \in D
  <2>1. F[<<n, d>>] = Step(h, i, n, d)
    OBVIOUS
  <2>2. \A x \in Items : h.next[x] \in Items \cup {0}
    BY ItemsAre DEF Heaps
  <2>3. n \in Nat /\ i \in Items \cup {0} /\ Items \in SUBSET Items
    BY ItemsAre
  <2>4. Step(h, i, n, d) \in D
    BY <2>2, <2>3, StepType
  <2> QED BY <2>1, <2>4
<1>3. F \in Rules(MaxItems, D)
  <2> HIDE DEF D
  <2>1. \A nd \in (1 .. MaxItems) \X D : Step(h, i, nd[1], nd[2]) \in D
    <3> TAKE nd \in (1 .. MaxItems) \X D
    <3>1. nd[1] \in 1 .. MaxItems /\ nd[2] \in D /\ nd = <<nd[1], nd[2]>>
      OBVIOUS
    <3> QED BY <1>1, <3>1
  <2> QED BY <2>1 DEF Rules
<1> DEFINE b == << >>
<1>2. b \in D
  OBVIOUS
<1> HIDE DEF F, D, b
<1>9. MaxItems \in Nat
  BY ItemsAre
<1>8. PICK f : Follows(f, MaxItems, D, b, F)
  BY <1>2, <1>3, <1>9, Recursion
<1>4. ASSUME NEW n \in 1 .. MaxItems PROVE f[n] = Step(h, i, n, f[n - 1])
  <2>1. n - 1 \in 0 .. MaxItems
    BY ItemsAre
  <2>2. f[n - 1] \in D
    BY <1>8, <2>1 DEF Follows
  <2> QED BY <1>1, <1>8, <2>2 DEF Follows
<1>5. Walks(h, i, f)
  <2>1. DOMAIN f = 0 .. MaxItems /\ f[0] = << >> /\ f = [n \in 0 .. MaxItems |-> f[n]]
    BY <1>8 DEF Follows, b
  <2> DEFINE W(n) == IF n = 0 THEN << >> ELSE Step(h, i, n, f[n - 1])
  <2>2. ASSUME NEW n \in 0 .. MaxItems PROVE f[n] = W(n)
    <3>1. n = 0 \/ (n \in 1 .. MaxItems /\ n # 0)
      BY <1>9
    <3>2. CASE n = 0
      BY <2>1, <3>2
    <3>3. CASE n \in 1 .. MaxItems /\ n # 0
      <4> HIDE DEF b
      <4> QED BY <1>4, <3>3
    <3> QED BY <3>1, <3>2, <3>3
  <2>3. f = [n \in 0 .. MaxItems |-> W(n)]
    <3> HIDE DEF W
    <3> QED BY <2>1, <2>2
  <2> QED BY <2>3 DEF Walks
<1> DEFINE walk == CHOOSE w : w = [n \in 0 .. MaxItems |-> IF n = 0 THEN << >> ELSE Step(h, i, n, w[n - 1])]
<1>6. walk = [n \in 0 .. MaxItems |-> IF n = 0 THEN << >> ELSE Step(h, i, n, walk[n - 1])]
  BY <1>5 DEF Walks
<1>7. Chain(h, i) = walk[MaxItems]
  BY DEF Chain, Step
<1> HIDE DEF walk
<1> QED BY <1>6, <1>7 DEF Walks

\* A walk does not leave a set that next does not lead out of.
LEMMA ChainInside ==
  ASSUME NEW h \in Heaps, NEW X \in SUBSET Items, \A x \in X : h.next[x] \in X \cup {0},
         NEW i \in X \cup {0}
  PROVE  Chain(h, i) \in Seq(X)
<1>0. i \in Links
  BY ItemsAre
<1>1. PICK w : Walks(h, i, w) /\ Chain(h, i) = w[MaxItems]
  BY <1>0, ChainIs
<1> DEFINE Z == {n \in 0 .. MaxItems : w[n] \in Seq(X)}
<1>2. 0 \in Z
  BY <1>1, ItemsAre DEF Walks
<1>3. ASSUME NEW n \in 0 .. MaxItems - 1, n \in Z PROVE n + 1 \in Z
  <2>1. w[n + 1] = Step(h, i, n + 1, w[n])
    BY <1>1, ItemsAre DEF Walks
  <2>2. Step(h, i, n + 1, w[n]) \in Seq(X)
    <3>1. n + 1 \in Nat
      BY ItemsAre
    <3> QED BY <1>3, <3>1, StepType
  <2> QED BY <2>1, <2>2, ItemsAre
<1>4. 0 .. MaxItems \subseteq Z
  <2> HIDE DEF Z
  <2> QED BY <1>2, <1>3, ItemsAre, Induction
<1> QED BY <1>1, <1>4, ItemsAre

\* The items of s are linked in turn, i being the first.
Linked(h, i, s) ==
  /\ s \in Seq(Items)
  /\ \A k, l \in DOMAIN s : s[k] = s[l] => k = l
  /\ i = IF s = << >> THEN 0 ELSE s[1]
  /\ \A k \in DOMAIN s : h.next[s[k]] = IF k = Len(s) THEN 0 ELSE s[k + 1]

\* A walk finds the items that are linked in turn.
LEMMA ChainLinked ==
  ASSUME NEW h \in Heaps, NEW i \in Links, NEW s, Linked(h, i, s)
  PROVE  Chain(h, i) = s
<1>0. /\ s \in Seq(Items) /\ Len(s) \in Nat /\ Len(s) <= MaxItems /\ DOMAIN s = 1 .. Len(s)
      /\ MaxItems \in Nat
  BY NoMoreThanItems, ItemsAre DEF Linked
<1>8. Len(s) \in Nat /\ Len(s) <= MaxItems /\ MaxItems \in Nat
  BY <1>0
<1>1. PICK w : Walks(h, i, w) /\ Chain(h, i) = w[MaxItems]
  BY ChainIs
<1> DEFINE Taken(n) == IF n < Len(s) THEN SubSeq(s, 1, n) ELSE s
           Z == {n \in 0 .. MaxItems : w[n] = Taken(n)}
<1>2. 0 \in Z
  <2>1. w[0] = << >>
    BY <1>1, ItemsAre DEF Walks
  <2>2. Taken(0) = << >>
    BY <1>0
  <2> HIDE DEF Taken
  <2> QED BY <1>0, <2>1, <2>2
<1>3. ASSUME NEW n \in 0 .. MaxItems - 1, n \in Z PROVE n + 1 \in Z
  <2>1. w[n + 1] = Step(h, i, n + 1, w[n]) /\ w[n] = Taken(n)
    BY <1>1, <1>3, ItemsAre DEF Walks
  <2>0. n \in Nat /\ n + 1 \in 0 .. MaxItems /\ n + 1 - 1 = n
    BY <1>0
  <2>5. ASSUME w[n + 1] = s, ~(n + 1 < Len(s)) PROVE n + 1 \in Z
    BY <2>0, <2>5
  <2>2. CASE Len(s) < n
    <3>1. w[n] = s
      <4>1. ~(n < Len(s))
        BY <1>8, <2>0, <2>2
      <4> QED BY <2>1, <4>1
    <3>2. Step(h, i, n + 1, s) = s
      BY <2>0, <2>2 DEF Step
    <3> QED BY <1>0, <2>0, <2>1, <2>2, <2>5, <3>1, <3>2
  <2>3. CASE Len(s) = n
    <3>1. w[n] = s
      BY <1>0, <2>1, <2>3
    <3>2. CASE s = << >>
      <4>1. Step(h, i, n + 1, s) = s
        BY <3>2 DEF Step, Linked
      <4> QED BY <1>0, <2>0, <2>1, <2>3, <2>5, <3>1, <4>1
    <3>3. CASE s # << >>
      <4>1. n \in DOMAIN s /\ Last(s) = s[n]
        BY <1>0, <2>3, <3>3 DEF Last
      <4>2. h.next[Last(s)] = 0
        BY <2>3, <4>1 DEF Linked
      <4>3. Step(h, i, n + 1, s) = s
        BY <3>3, <4>2 DEF Step
      <4> QED BY <1>0, <2>0, <2>1, <2>3, <2>5, <3>1, <4>3
    <3> QED BY <3>2, <3>3
  <2>4. CASE n < Len(s)
    <3>1. w[n] = SubSeq(s, 1, n) /\ Len(w[n]) = n /\ w[n] \in Seq(Items)
      BY <1>0, <2>1, <2>4, ItemsAre
    <3>2. n + 1 \in DOMAIN s /\ s[n + 1] \in Items /\ s[n + 1] # 0
      BY <1>0, <2>4, ItemsAre
    <3>3. (IF w[n] = << >> THEN i ELSE h.next[Last(w[n])]) = s[n + 1]
      <4>1. CASE n = 0
        BY <1>0, <2>4, <3>1, <4>1 DEF Linked
      <4>2. CASE n # 0
        <5>1. n \in DOMAIN s /\ n # Len(s) /\ w[n] # << >>
          <6>1. n \in 1 .. Len(s) /\ n # Len(s)
            BY <1>8, <2>0, <2>4, <4>2
          <6> QED BY <1>0, <3>1, <4>2, <6>1
        <5>2. Last(w[n]) = s[n]
          BY <1>0, <2>4, <3>1, <4>2, ItemsAre DEF Last
        <5> QED BY <5>1, <5>2 DEF Linked
      <4> QED BY <4>1, <4>2
    <3>4. ~(Len(w[n]) < n + 1 - 1)
      BY <2>0, <3>1
    <3>5. w[n + 1] = Append(w[n], s[n + 1])
      <4> DEFINE a == w[n]
                 j == IF a = << >> THEN i ELSE h.next[Last(a)]
      <4>1. j = s[n + 1] /\ j # 0 /\ ~(Len(a) < n + 1 - 1)
        BY <3>2, <3>3, <3>4
      <4>2. Step(h, i, n + 1, a) = IF j = 0 \/ Len(a) < n + 1 - 1 THEN a ELSE Append(a, j)
        BY DEF Step
      <4> HIDE DEF j
      <4>3. Step(h, i, n + 1, a) = Append(a, s[n + 1])
        BY <4>1, <4>2
      <4> QED BY <2>1, <4>3
    <3>6. Append(SubSeq(s, 1, n), s[n + 1]) = SubSeq(s, 1, n + 1)
      BY <1>0, <3>2, ItemsAre
    <3>7. SubSeq(s, 1, n + 1) = Taken(n + 1)
      <4>1. CASE n + 1 < Len(s)
        BY <4>1
      <4>2. CASE ~(n + 1 < Len(s))
        <5>1. n + 1 = Len(s)
          BY <1>8, <2>0, <2>4, <4>2
        <5> QED BY <1>0, <5>1
      <4> QED BY <4>1, <4>2
    <3>8. w[n + 1] = Taken(n + 1)
      BY <3>1, <3>5, <3>6, <3>7
    <3> HIDE DEF Taken
    <3> QED BY <2>0, <3>8
  <2>6. Len(s) < n \/ Len(s) = n \/ n < Len(s)
    BY <1>8, <2>0
  <2> QED BY <2>2, <2>3, <2>4, <2>6
<1>4. 0 .. MaxItems \subseteq Z
  <2> HIDE DEF Z
  <2> QED BY <1>2, <1>3, ItemsAre, Induction
<1>5. w[MaxItems] = Taken(MaxItems)
  BY <1>4, ItemsAre
<1>6. ~(MaxItems < Len(s))
  BY <1>8
<1>7. Taken(MaxItems) = s
  BY <1>6
<1> QED BY <1>1, <1>5, <1>7
-----------------------------------------------------------------------------
(* What hangs on an item. *)

Grown(h, S) == UNION {{j, h.next[j], h.child[j]} \ {0} : j \in S}

Layers(h, i, w) ==
  w = [n \in 0 .. MaxItems |-> IF n = 0 THEN {i} \ {0} ELSE Grown(h, w[n - 1])]

\* X holds with an item what it points to.
Closed(h, X) == \A x \in X : h.next[x] \in X \cup {0} /\ h.child[x] \in X \cup {0}

\* What is reached grows.
LEMMA GrownType ==
  ASSUME NEW h \in Heaps, NEW S \in SUBSET Items
  PROVE  Grown(h, S) \in SUBSET Items /\ S \subseteq Grown(h, S)
BY ItemsAre DEF Grown, Heaps

\* Reach is the last of the layers.
LEMMA ReachIs ==
  ASSUME NEW h \in Heaps, NEW i \in Links
  PROVE  \E w : Layers(h, i, w) /\ Reach(h, i) = w[MaxItems]
<1> DEFINE D == SUBSET Items
           F == [nd \in (1 .. MaxItems) \X D |-> Grown(h, nd[2])]
           b == {i} \ {0}
<1>1. b \in D /\ MaxItems \in Nat
  BY ItemsAre
<1>2. F \in Rules(MaxItems, D)
  <2> HIDE DEF D
  <2>1. \A nd \in (1 .. MaxItems) \X D : Grown(h, nd[2]) \in D
    <3> TAKE nd \in (1 .. MaxItems) \X D
    <3>1. nd[2] \in D
      OBVIOUS
    <3> QED BY <3>1, GrownType DEF D
  <2> QED BY <2>1 DEF Rules
<1>3. \A n \in 1 .. MaxItems : \A d \in D : F[<<n, d>>] = Grown(h, d)
  <2> HIDE DEF D
  <2> QED OBVIOUS
<1> HIDE DEF F, D, b
<1>4. PICK f : Follows(f, MaxItems, D, b, F)
  BY <1>1, <1>2, Recursion
<1> DEFINE W(n) == IF n = 0 THEN {i} \ {0} ELSE Grown(h, f[n - 1])
<1>5. ASSUME NEW n \in 0 .. MaxItems PROVE f[n] = W(n)
  <2>1. CASE n = 0
    BY <1>4, <2>1 DEF Follows, b
  <2>2. CASE n # 0
    <3>1. n \in 1 .. MaxItems /\ n - 1 \in 0 .. MaxItems
      BY <1>1, <2>2
    <3>2. f[n - 1] \in D /\ f[n] = F[<<n, f[n - 1]>>]
      BY <1>4, <3>1 DEF Follows
    <3> QED BY <1>3, <2>2, <3>1, <3>2
  <2> QED BY <2>1, <2>2
<1>6. Layers(h, i, f)
  <2>1. f = [n \in 0 .. MaxItems |-> W(n)]
    <3> HIDE DEF W
    <3> QED BY <1>4, <1>5 DEF Follows
  <2> QED BY <2>1 DEF Layers
<1> DEFINE reach == CHOOSE w : w = [n \in 0 .. MaxItems |-> IF n = 0 THEN {i} \ {0} ELSE Grown(h, w[n - 1])]
<1>7. reach = [n \in 0 .. MaxItems |-> IF n = 0 THEN {i} \ {0} ELSE Grown(h, reach[n - 1])]
  BY <1>6 DEF Layers
<1>8. Reach(h, i) = reach[MaxItems]
  BY DEF Reach, Grown
<1> HIDE DEF reach
<1> QED BY <1>7, <1>8 DEF Layers

\* The layers grow; what is reached is in every closed set with the item, and is closed.
LEMMA ReachInside ==
  ASSUME NEW h \in Heaps, NEW X \in SUBSET Items, Closed(h, X), NEW i \in X \cup {0}
  PROVE  Reach(h, i) \subseteq X
<1>0. i \in Links /\ MaxItems \in Nat
  BY ItemsAre
<1>1. PICK w : Layers(h, i, w) /\ Reach(h, i) = w[MaxItems]
  BY <1>0, ReachIs
<1> DEFINE Z == {n \in 0 .. MaxItems : w[n] \subseteq X}
<1>2. 0 \in Z
  BY <1>0, <1>1 DEF Layers
<1>3. ASSUME NEW n \in 0 .. MaxItems - 1, n \in Z PROVE n + 1 \in Z
  <2>1. w[n + 1] = Grown(h, w[n])
    <3>1. n + 1 \in 0 .. MaxItems /\ n + 1 # 0 /\ n + 1 - 1 = n
      BY <1>0
    <3>2. \A m \in 0 .. MaxItems : w[m] = IF m = 0 THEN {i} \ {0} ELSE Grown(h, w[m - 1])
      BY <1>1 DEF Layers
    <3> HIDE DEF Z
    <3> QED BY <3>1, <3>2
  <2>2. w[n] \subseteq X /\ n + 1 \in 0 .. MaxItems
    BY <1>0, <1>3
  <2>3. Grown(h, w[n]) \subseteq X
    BY <2>2 DEF Grown, Closed
  <2> QED BY <2>1, <2>2, <2>3
<1>4. 0 .. MaxItems \subseteq Z
  <2> HIDE DEF Z
  <2> QED BY <1>0, <1>2, <1>3, Induction
<1> QED BY <1>0, <1>1, <1>4

\* What is reached is closed: as many layers as there are items are enough.
LEMMA ReachClosed ==
  ASSUME NEW h \in Heaps, NEW i \in Items
  PROVE  Reach(h, i) \subseteq Items /\ i \in Reach(h, i) /\ Closed(h, Reach(h, i))
<1>0. i \in Links /\ MaxItems \in Nat /\ i # 0
  BY ItemsAre
<1>1. PICK w : Layers(h, i, w) /\ Reach(h, i) = w[MaxItems]
  BY <1>0, ReachIs
<1>2. IsFiniteSet(Items) /\ Cardinality(Items) = MaxItems
  <2>1. IsFiniteSet(1 .. MaxItems) /\ Cardinality(1 .. MaxItems) = IF 1 > MaxItems THEN 0 ELSE MaxItems - 1 + 1
    BY <1>0, FS_Interval
  <2>2. Items = 1 .. MaxItems
    BY ItemsAre
  <2> QED BY <1>0, <2>1, <2>2
<1> DEFINE Good(n) == /\ w[n] \subseteq Items /\ i \in w[n]
                      /\ Grown(h, w[n]) = w[n] \/ Cardinality(w[n]) >= n + 1
           Z == {n \in 0 .. MaxItems : Good(n)}
<1>3. 0 \in Z
  <2>1. w[0] = {i}
    BY <1>0, <1>1 DEF Layers
  <2>2. Cardinality({i}) = 1
    BY FS_Singleton
  <2> QED BY <1>0, <2>1, <2>2
<1>4. ASSUME NEW n \in 0 .. MaxItems - 1, n \in Z PROVE n + 1 \in Z
  <2>0. n \in Nat /\ n + 1 \in 0 .. MaxItems /\ Good(n)
    BY <1>0, <1>4
  <2>1. w[n + 1] = Grown(h, w[n])
    <3>1. n + 1 \in 0 .. MaxItems /\ n + 1 # 0 /\ n + 1 - 1 = n
      BY <1>0
    <3>2. \A m \in 0 .. MaxItems : w[m] = IF m = 0 THEN {i} \ {0} ELSE Grown(h, w[m - 1])
      BY <1>1 DEF Layers
    <3> HIDE DEF Z
    <3> QED BY <3>1, <3>2
  <2>2. w[n + 1] \subseteq Items /\ w[n] \subseteq w[n + 1] /\ i \in w[n + 1]
    BY <2>0, <2>1, GrownType
  <2>3. CASE w[n + 1] = w[n]
    <3>1. Grown(h, w[n + 1]) = w[n + 1]
      BY <2>1, <2>3
    <3> QED BY <2>0, <2>2, <3>1
  <2>4. CASE w[n + 1] # w[n]
    <3>1. Cardinality(w[n]) >= n + 1
      BY <2>0, <2>1, <2>4
    <3>2. IsFiniteSet(w[n + 1]) /\ IsFiniteSet(w[n])
      BY <1>2, <2>0, <2>2, FS_Subset
    <3>4. Cardinality(w[n]) \in Nat /\ Cardinality(w[n + 1]) \in Nat
      BY <3>2, FS_CardinalityType
    <3>3. Cardinality(w[n]) < Cardinality(w[n + 1])
      <4>1. Cardinality(w[n]) <= Cardinality(w[n + 1]) /\ Cardinality(w[n + 1]) # Cardinality(w[n])
        BY <2>2, <2>4, <3>2, FS_Subset
      <4> QED BY <3>4, <4>1
    <3>5. Cardinality(w[n + 1]) >= (n + 1) + 1
      BY <2>0, <3>1, <3>3, <3>4
    <3> QED BY <2>0, <2>2, <3>5
  <2> QED BY <2>3, <2>4
<1>5. 0 .. MaxItems \subseteq Z
  <2> HIDE DEF Z
  <2> QED BY <1>0, <1>3, <1>4, Induction
<1>6. Good(MaxItems)
  BY <1>0, <1>5
<1>7. Cardinality(w[MaxItems]) \in Nat /\ Cardinality(w[MaxItems]) <= MaxItems
  BY <1>2, <1>6, FS_Subset, FS_CardinalityType
<1>8. Grown(h, w[MaxItems]) = w[MaxItems]
  BY <1>0, <1>6, <1>7
<1>9. Closed(h, w[MaxItems])
  BY <1>8 DEF Closed, Grown
<1> QED BY <1>1, <1>6, <1>9
-----------------------------------------------------------------------------
(* Lists: what the operations of cJSON.c do to the children of an object. *)

ListOf(h, p, s) ==
  /\ Linked(h, h.child[p], s)
  /\ \A k \in DOMAIN s : h.prev[s[k]] = IF k = 1 THEN s[Len(s)] ELSE s[k - 1]

\* The children of an object are its list.
LEMMA ListIsChildren ==
  ASSUME NEW h \in Heaps, NEW p \in Items, NEW s, ListOf(h, p, s)
  PROVE  Children(h, p) = s
<1>1. h.child[p] \in Links
  BY DEF Heaps
<1> QED BY <1>1, ChainLinked DEF ListOf, Children

\* Outside of C the heap g is what h is; the object p may have got another first child.
SameOutside(h, g, p, C) ==
  /\ \A j \in Items \ C : /\ g.next[j] = h.next[j] /\ g.prev[j] = h.prev[j]
                          /\ g.name[j] = h.name[j] /\ g.value[j] = h.value[j]
  /\ \A j \in Items \ (C \cup {p}) : g.child[j] = h.child[j]

\* With room left, what is allocated was not in use.
LEMMA FreshItem ==
  ASSUME NEW h \in Heaps, Room(h, 1)
  PROVE  Fresh(h) \in Items /\ Fresh(h) \notin h.live
<1>1. Items \ h.live \in SUBSET Nat /\ Items \ h.live # {}
  <2>1. Cardinality({}) = 0
    BY FS_EmptySet
  <2> QED BY <2>1, ItemsAre DEF Room
<1> QED BY <1>1, MinIs DEF Fresh

\* The item r of g is new, of the name n and with the value v.
Made(h, g, r, n, v) ==
  /\ g \in Heaps /\ r \in Items /\ r \notin h.live /\ g.live = h.live \cup {r}
  /\ g.name[r] = n /\ g.value[r] = v /\ g.next[r] = 0 /\ g.prev[r] = 0 /\ g.child[r] = 0
  /\ \A p \in Items : SameOutside(h, g, p, {r})

\* A new item points nowhere, and the others are as they were.
LEMMA NewItem ==
  ASSUME NEW h \in Heaps, NEW n \in AllNames, NEW v \in Nat, Room(h, 1)
  PROVE  Made(h, New(h, n, v), Fresh(h), n, v)
<1>1. Fresh(h) \in Items /\ Fresh(h) \notin h.live
  BY FreshItem
<1> DEFINE r == Fresh(h)
<1> HIDE DEF r
<1>2. r \in Items /\ r \notin h.live
  BY <1>1 DEF r
<1> DEFINE g == [next |-> [h.next EXCEPT ![r] = 0], prev |-> [h.prev EXCEPT ![r] = 0],
                 child |-> [h.child EXCEPT ![r] = 0], value |-> [h.value EXCEPT ![r] = v],
                 name |-> [h.name EXCEPT ![r] = n], live |-> h.live \cup {r}]
<1>3. New(h, n, v) = g
  BY DEF New, r
<1>4. 0 \in Links
  BY ItemsAre
<1>5. /\ g.live = h.live \cup {r} /\ g.name = [h.name EXCEPT ![r] = n]
      /\ g.value = [h.value EXCEPT ![r] = v] /\ g.next = [h.next EXCEPT ![r] = 0]
      /\ g.prev = [h.prev EXCEPT ![r] = 0] /\ g.child = [h.child EXCEPT ![r] = 0]
      /\ g = [next |-> g.next, prev |-> g.prev, child |-> g.child, value |-> g.value,
              name |-> g.name, live |-> g.live]
  OBVIOUS
<1>6. /\ h.next \in [Items -> Links] /\ h.prev \in [Items -> Links] /\ h.child \in [Items -> Links]
      /\ h.value \in [Items -> Nat] /\ h.name \in [Items -> AllNames] /\ h.live \in SUBSET Items
  BY DEF Heaps
<1> HIDE DEF g
<1>7. g \in Heaps
  <2>1. /\ g.next \in [Items -> Links] /\ g.prev \in [Items -> Links] /\ g.child \in [Items -> Links]
        /\ g.value \in [Items -> Nat] /\ g.name \in [Items -> AllNames] /\ g.live \in SUBSET Items
    BY <1>2, <1>4, <1>5, <1>6
  <2> QED BY <1>5, <2>1 DEF Heaps
<1>8. \A p \in Items : SameOutside(h, g, p, {r})
  BY <1>5, <1>6 DEF SameOutside
<1>9. /\ g.name[r] = n /\ g.value[r] = v /\ g.next[r] = 0 /\ g.prev[r] = 0 /\ g.child[r] = 0
  BY <1>2, <1>5, <1>6
<1>10. Made(h, g, r, n, v)
  BY <1>2, <1>5, <1>7, <1>8, <1>9 DEF Made
<1> QED BY <1>3, <1>10 DEF r

\* The list of p was s and is t; the items of C may have got other links.
Relisted(h, g, p, t, C) ==
  /\ g \in Heaps /\ g.name = h.name /\ g.value = h.value
  /\ ListOf(g, p, t) /\ SameOutside(h, g, p, C)
  /\ \A j \in Items : j # p => g.child[j] = h.child[j]

\* AddItem puts an item behind the list.
LEMMA AddItemIs ==
  ASSUME NEW h \in Heaps, NEW p \in Items, NEW s, ListOf(h, p, s),
         NEW i \in Items, i \notin ToSet(s), h.next[i] = 0
  PROVE  /\ Relisted(h, AddItem(h, p, i), p, Append(s, i), ToSet(s) \cup {i})
         /\ AddItem(h, p, i).live = h.live
<1>0. s \in Seq(Items) /\ Len(s) \in Nat /\ DOMAIN s = 1 .. Len(s)
  BY DEF ListOf, Linked
<1>1. /\ h.next \in [Items -> Links] /\ h.prev \in [Items -> Links] /\ h.child \in [Items -> Links]
      /\ h.value \in [Items -> Nat] /\ h.name \in [Items -> AllNames] /\ h.live \in SUBSET Items
      /\ h = [next |-> h.next, prev |-> h.prev, child |-> h.child, value |-> h.value,
              name |-> h.name, live |-> h.live]
  BY DEF Heaps
<1>2. i # 0 /\ i \in Links /\ 0 \in Links
  BY ItemsAre
<1> DEFINE g == AddItem(h, p, i)
           t == Append(s, i)
<1>3. t \in Seq(Items) /\ Len(t) = Len(s) + 1 /\ DOMAIN t = 1 .. Len(s) + 1 /\ t[Len(s) + 1] = i
      /\ \A k \in DOMAIN s : t[k] = s[k]
  BY <1>0
<1>4. \A k \in DOMAIN s : s[k] # i /\ s[k] \in ToSet(s) /\ s[k] \in Items
  BY <1>0 DEF ToSet
<1>8. \A k, l \in DOMAIN s : s[k] = s[l] => k = l
  BY DEF ListOf, Linked
<1>5. \A k, l \in DOMAIN t : t[k] = t[l] => k = l
  BY <1>0, <1>3, <1>4 DEF ListOf, Linked
<1>6. CASE s = << >>
  <2>1. h.child[p] = 0
    BY <1>6 DEF ListOf, Linked
  <2>2. g = [h EXCEPT !.child[p] = i, !.prev[i] = i, !.next[i] = 0]
    BY <2>1 DEF AddItem
  <2>3. /\ g.live = h.live /\ g.name = h.name /\ g.value = h.value
        /\ g.next = [h.next EXCEPT ![i] = 0] /\ g.prev = [h.prev EXCEPT ![i] = i]
        /\ g.child = [h.child EXCEPT ![p] = i]
        /\ g = [next |-> g.next, prev |-> g.prev, child |-> g.child, value |-> g.value,
                name |-> g.name, live |-> g.live]
    BY <1>1, <2>2
  <2> HIDE DEF g
  <2>4. g \in Heaps
    BY <1>1, <1>2, <2>3 DEF Heaps
  <2>5. t = <<i>> /\ Len(s) = 0
    BY <1>6
  <2>6. ListOf(g, p, t)
    BY <1>1, <1>2, <1>3, <1>5, <2>3, <2>5 DEF ListOf, Linked
  <2>7. SameOutside(h, g, p, ToSet(s) \cup {i}) /\ \A j \in Items : j # p => g.child[j] = h.child[j]
    BY <1>1, <2>3 DEF SameOutside
  <2> QED BY <2>3, <2>4, <2>6, <2>7 DEF g, Relisted
<1>7. CASE s # << >>
  <2> DEFINE n == Len(s)
             f == s[1]
             q == s[n]
  <2>0. n \in Nat /\ n >= 1 /\ 1 \in DOMAIN s /\ n \in DOMAIN s /\ n # n + 1 /\ f \in Items /\ q \in Items
    <3>1. n \in Nat /\ n >= 1
      BY <1>0, <1>7
    <3>2. 1 \in DOMAIN s /\ n \in DOMAIN s
      BY <1>0, <3>1
    <3> QED BY <1>4, <3>1, <3>2
  <2>1. h.child[p] = f /\ h.prev[f] = q /\ f # 0 /\ q # 0
    BY <1>0, <1>7, <2>0, ItemsAre DEF ListOf, Linked
  <2> DEFINE pr == [[h.prev EXCEPT ![i] = q] EXCEPT ![f] = i]
  <2>2. g = [h EXCEPT !.next[q] = i, !.prev = [@ EXCEPT ![i] = q, ![f] = i]]
    BY <2>1 DEF AddItem
  <2>3. /\ g.live = h.live /\ g.name = h.name /\ g.value = h.value
        /\ g.next = [h.next EXCEPT ![q] = i] /\ g.prev = pr
        /\ g.child = h.child
        /\ g = [next |-> g.next, prev |-> g.prev, child |-> g.child, value |-> g.value,
                name |-> g.name, live |-> g.live]
    BY <1>1, <2>2
  <2> HIDE DEF g
  <2>4. g \in Heaps
    <3>1. g.next \in [Items -> Links] /\ g.prev \in [Items -> Links]
      <4>1. [h.prev EXCEPT ![i] = q] \in [Items -> Links] /\ q \in Links
        BY <1>1, <2>0, ItemsAre
      <4>2. pr \in [Items -> Links]
        BY <1>2, <4>1
      <4>3. g.next = [h.next EXCEPT ![q] = i] /\ g.prev = pr
        BY <2>3
      <4>4. g.next \in [Items -> Links]
        BY <1>1, <1>2, <4>3
      <4> HIDE DEF pr
      <4> QED BY <4>2, <4>3, <4>4
    <3> HIDE DEF pr
    <3> QED BY <1>1, <2>3, <3>1 DEF Heaps
  <2>5. f # i /\ q # i
    BY <1>4, <2>0
  <2>6. /\ g.next[q] = i /\ g.next[i] = 0 /\ g.prev[i] = q /\ g.prev[f] = i
        /\ \A j \in Items : (j # q => g.next[j] = h.next[j]) /\ (j \notin {f, i} => g.prev[j] = h.prev[j])
    BY <1>1, <2>0, <2>3, <2>5
  <2> HIDE DEF pr
  <2>7. Linked(g, g.child[p], t)
    <3>1. g.child[p] = t[1] /\ t # << >>
      BY <1>3, <2>0, <2>1, <2>3
    <3>2. ASSUME NEW k \in DOMAIN t PROVE g.next[t[k]] = IF k = Len(t) THEN 0 ELSE t[k + 1]
      <4>1. CASE k = n + 1
        BY <1>3, <2>6, <4>1
      <4>2. CASE k = n
        BY <1>3, <2>0, <2>6, <4>2
      <4>3. CASE k # n /\ k # n + 1
        <5>1. k \in DOMAIN s /\ k + 1 \in DOMAIN s /\ k # n + 1
          BY <1>0, <1>3, <4>3
        <5>2. s[k] # q /\ s[k] \in Items
          BY <1>4, <1>8, <2>0, <4>3, <5>1
        <5>3. h.next[s[k]] = s[k + 1]
          BY <4>3, <5>1 DEF ListOf, Linked
        <5> QED BY <1>3, <2>6, <5>1, <5>2, <5>3
      <4> QED BY <4>1, <4>2, <4>3
    <3> QED BY <1>3, <1>5, <3>1, <3>2 DEF Linked
  <2>8. ASSUME NEW k \in DOMAIN t PROVE g.prev[t[k]] = IF k = 1 THEN t[Len(t)] ELSE t[k - 1]
    <3>1. CASE k = n + 1
      <4>1. k # 1 /\ k - 1 = n
        BY <2>0, <3>1
      <4> QED BY <1>3, <2>0, <2>6, <3>1, <4>1
    <3>2. CASE k = 1
      BY <1>3, <2>0, <2>6, <3>2
    <3>3. CASE k # 1 /\ k # n + 1
      <4>1. k \in DOMAIN s /\ k - 1 \in DOMAIN s
        BY <1>0, <1>3, <3>3
      <4>2. s[k] # f /\ s[k] # i /\ s[k] \in Items
        BY <1>4, <1>8, <2>0, <3>3, <4>1
      <4>3. h.prev[s[k]] = s[k - 1]
        BY <3>3, <4>1 DEF ListOf
      <4> QED BY <1>3, <2>6, <3>3, <4>1, <4>2, <4>3
    <3> QED BY <3>1, <3>2, <3>3
  <2>9. SameOutside(h, g, p, ToSet(s) \cup {i}) /\ \A j \in Items : j # p => g.child[j] = h.child[j]
    <3>1. f \in ToSet(s) /\ q \in ToSet(s)
      BY <1>4, <2>0
    <3> QED BY <2>3, <2>6, <3>1 DEF SameOutside
  <2>10. ListOf(g, p, t)
    BY <2>7, <2>8 DEF ListOf
  <2> QED BY <2>3, <2>4, <2>9, <2>10 DEF g, Relisted
<1> QED BY <1>6, <1>7
\* An item that points nowhere is all that is freed with it.
LEMMA LeafReach ==
  ASSUME NEW h \in Heaps, NEW i \in Items, h.next[i] = 0, h.child[i] = 0
  PROVE  Reach(h, i) = {i}
<1>1. Closed(h, {i})
  BY DEF Closed
<1>2. Reach(h, i) \subseteq {i}
  BY <1>1, ReachInside
<1> QED BY <1>2, ReachClosed

LinkMaps == [Items -> Links]

\* Put changes one place, or none.
LEMMA PutIs ==
  ASSUME NEW f \in LinkMaps, NEW i \in Links, NEW j \in Links
  PROVE  /\ Put(f, i, j) \in LinkMaps
         /\ \A x \in Items : Put(f, i, j)[x] = IF x = i THEN j ELSE f[x]
BY ItemsAre DEF Put, LinkMaps

\* The parts of a heap.
LEMMA HeapParts ==
  ASSUME NEW h \in Heaps
  PROVE  /\ h.next \in [Items -> Links] /\ h.prev \in [Items -> Links] /\ h.child \in [Items -> Links]
         /\ h.value \in [Items -> Nat] /\ h.name \in [Items -> AllNames] /\ h.live \in SUBSET Items
         /\ h = [next |-> h.next, prev |-> h.prev, child |-> h.child, value |-> h.value,
                 name |-> h.name, live |-> h.live]
BY DEF Heaps

\* What a list is, item by item.
LEMMA ListParts ==
  ASSUME NEW h \in Heaps, NEW p \in Items, NEW s, ListOf(h, p, s)
  PROVE  /\ s \in Seq(Items) /\ Len(s) \in Nat /\ DOMAIN s = 1 .. Len(s)
         /\ \A k \in DOMAIN s : s[k] \in Items /\ s[k] \in ToSet(s)
         /\ \A k, l \in DOMAIN s : s[k] = s[l] => k = l
         /\ h.child[p] = IF s = << >> THEN 0 ELSE s[1]
         /\ \A k \in DOMAIN s : /\ h.next[s[k]] = IF k = Len(s) THEN 0 ELSE s[k + 1]
                                /\ h.prev[s[k]] = IF k = 1 THEN s[Len(s)] ELSE s[k - 1]
<1>1. s \in Seq(Items) /\ Len(s) \in Nat /\ DOMAIN s = 1 .. Len(s)
  BY DEF ListOf, Linked
<1>2. \A k \in DOMAIN s : s[k] \in Items /\ s[k] \in ToSet(s)
  BY <1>1 DEF ToSet
<1>3. /\ \A k, l \in DOMAIN s : s[k] = s[l] => k = l
      /\ h.child[p] = IF s = << >> THEN 0 ELSE s[1]
  BY DEF ListOf, Linked
<1>4. \A k \in DOMAIN s : /\ h.next[s[k]] = IF k = Len(s) THEN 0 ELSE s[k + 1]
                          /\ h.prev[s[k]] = IF k = 1 THEN s[Len(s)] ELSE s[k - 1]
  BY DEF ListOf, Linked
<1> QED BY <1>1, <1>2, <1>3, <1>4

\* The links after a replacement, each as a function of those before.
LEMMA ReplaceLinks ==
  ASSUME NEW h \in Heaps, NEW p \in Items, NEW i \in Items, NEW r \in Items,
         h.child[p] # 0, h.child[i] = 0, i # p, r # i
  PROVE  LET g == ReplaceItem(h, p, i, r)
             first == h.child[p] = i
             last == ~first /\ h.next[i] = 0
         IN  /\ g \in Heaps /\ g.live = h.live \ {i} /\ g.name = h.name /\ g.value = h.value
             /\ \A x \in Items : g.child[x] = IF x = p /\ first THEN r ELSE h.child[x]
             /\ \A x \in Items : g.next[x] =
                  IF x = i THEN 0 ELSE IF x = (IF first THEN 0 ELSE h.prev[i]) THEN r
                  ELSE IF x = r THEN h.next[i] ELSE h.next[x]
             /\ \A x \in Items : g.prev[x] =
                  IF x = i THEN 0 ELSE IF x = (IF last THEN h.child[p] ELSE 0) THEN r
                  ELSE IF x = h.next[i] THEN r
                  ELSE IF x = r THEN (IF first /\ h.prev[i] = i THEN r ELSE h.prev[i]) ELSE h.prev[x]
<1> DEFINE first == h.child[p] = i
           only  == first /\ h.prev[i] = i
           last  == ~first /\ h.next[i] = 0
           a     == IF first THEN 0 ELSE h.prev[i]
           b     == IF last THEN h.child[p] ELSE 0
           rp    == IF only THEN r ELSE h.prev[i]
           n0    == [h.next EXCEPT ![r] = h.next[i]]
           n1    == Put(n0, a, r)
           n2    == [n1 EXCEPT ![i] = 0]
           p0    == [h.prev EXCEPT ![r] = rp]
           p1    == Put(p0, h.next[i], r)
           p2    == Put(p1, b, r)
           p3    == [p2 EXCEPT ![i] = 0]
           c     == IF first THEN [h.child EXCEPT ![p] = r] ELSE h.child
           m     == Relinked(h, n2, p3, c)
<1>1. /\ h.next \in [Items -> Links] /\ h.prev \in [Items -> Links] /\ h.child \in [Items -> Links]
      /\ h.value \in [Items -> Nat] /\ h.name \in [Items -> AllNames] /\ h.live \in SUBSET Items
      /\ h = [next |-> h.next, prev |-> h.prev, child |-> h.child, value |-> h.value,
              name |-> h.name, live |-> h.live]
  BY HeapParts
<1>2. i # 0 /\ i \in Links /\ 0 \in Links /\ r \in Links /\ r # 0
  BY ItemsAre
<1>3. a \in Links /\ b \in Links /\ rp \in Links /\ h.next[i] \in Links
  BY <1>1, <1>2
<1>4. ReplaceItem(h, p, i, r) = Delete(m, i)
  BY <1>2 DEF ReplaceItem
<1>5. m = [next |-> n2, prev |-> p3, child |-> c, value |-> h.value, name |-> h.name, live |-> h.live]
  BY DEF Relinked
<1>6. /\ n0 \in LinkMaps /\ \A x \in Items : n0[x] = IF x = r THEN h.next[i] ELSE h.next[x]
      /\ p0 \in LinkMaps /\ \A x \in Items : p0[x] = IF x = r THEN rp ELSE h.prev[x]
  <2> HIDE DEF rp
  <2> QED BY <1>1, <1>3 DEF LinkMaps
<1> HIDE DEF n0, p0
<1>7. /\ n1 \in LinkMaps /\ \A x \in Items : n1[x] = IF x = a THEN r ELSE n0[x]
      /\ p1 \in LinkMaps /\ \A x \in Items : p1[x] = IF x = h.next[i] THEN r ELSE p0[x]
  <2>1. Put(n0, a, r) \in LinkMaps /\ \A x \in Items : Put(n0, a, r)[x] = IF x = a THEN r ELSE n0[x]
    <3> HIDE DEF a
    <3> QED BY <1>2, <1>3, <1>6, PutIs
  <2>2. /\ Put(p0, h.next[i], r) \in LinkMaps
        /\ \A x \in Items : Put(p0, h.next[i], r)[x] = IF x = h.next[i] THEN r ELSE p0[x]
    <3> DEFINE ni == h.next[i]
    <3>1. ni \in Links
      BY <1>3
    <3> HIDE DEF ni
    <3>2. /\ Put(p0, ni, r) \in LinkMaps
          /\ \A x \in Items : Put(p0, ni, r)[x] = IF x = ni THEN r ELSE p0[x]
      BY <1>2, <1>6, <3>1, PutIs
    <3> QED BY <3>2 DEF ni
  <2> HIDE DEF a
  <2> QED BY <2>1, <2>2
<1> HIDE DEF n1, p1
<1>8. p2 \in LinkMaps /\ \A x \in Items : p2[x] = IF x = b THEN r ELSE p1[x]
  <2>1. Put(p1, b, r) \in LinkMaps /\ \A x \in Items : Put(p1, b, r)[x] = IF x = b THEN r ELSE p1[x]
    <3> HIDE DEF b
    <3> QED BY <1>2, <1>3, <1>7, PutIs
  <2> HIDE DEF b
  <2> QED BY <2>1
<1> HIDE DEF p2
<1>9. /\ n2 \in LinkMaps /\ \A x \in Items : n2[x] = IF x = i THEN 0 ELSE n1[x]
      /\ p3 \in LinkMaps /\ \A x \in Items : p3[x] = IF x = i THEN 0 ELSE p2[x]
  BY <1>2, <1>7, <1>8 DEF LinkMaps
<1>10. c \in [Items -> Links] /\ \A x \in Items : c[x] = IF x = p /\ first THEN r ELSE h.child[x]
  BY <1>1, <1>2
<1> HIDE DEF n2, p3, c
<1>11. m \in Heaps /\ m.next[i] = 0 /\ m.child[i] = 0
  <2>1. m \in Heaps
    BY <1>1, <1>5, <1>9, <1>10 DEF Heaps, LinkMaps
  <2>2. n2[i] = 0 /\ c[i] = 0
    BY <1>9, <1>10
  <2>3. m.next = n2 /\ m.child = c
    BY <1>5
  <2> QED BY <2>1, <2>2, <2>3
<1>12. Reach(m, i) = {i}
  BY <1>11, LeafReach
<1> DEFINE g == [next |-> n2, prev |-> p3, child |-> c, value |-> h.value, name |-> h.name, live |-> h.live \ {i}]
<1>13. ReplaceItem(h, p, i, r) = g
  <2>1. Delete(m, i) = [m EXCEPT !.live = m.live \ {i}]
    <3> HIDE DEF m
    <3> QED BY <1>12 DEF Delete
  <2> HIDE DEF m
  <2> QED BY <1>4, <1>5, <2>1
<1>14. g \in Heaps
  BY <1>1, <1>9, <1>10 DEF Heaps, LinkMaps
<1>15. \A x \in Items : n2[x] = IF x = i THEN 0 ELSE IF x = a THEN r
                                ELSE IF x = r THEN h.next[i] ELSE h.next[x]
  <2> HIDE DEF a
  <2> QED BY <1>6, <1>7, <1>9
<1>16. \A x \in Items : p3[x] = IF x = i THEN 0 ELSE IF x = b THEN r ELSE IF x = h.next[i] THEN r
                                ELSE IF x = r THEN rp ELSE h.prev[x]
  <2> HIDE DEF b, rp
  <2> QED BY <1>6, <1>7, <1>8, <1>9
<1> QED BY <1>10, <1>13, <1>14, <1>15, <1>16
Freed(h, g, i) == g.live = h.live \ {i}

With(s, k, r) == [s EXCEPT ![k] = r]

\* ReplaceItem puts another item in the place of one.
LEMMA ReplaceItemIs ==
  ASSUME NEW h \in Heaps, NEW p \in Items, NEW s, ListOf(h, p, s),
         NEW k \in DOMAIN s, h.child[s[k]] = 0, s[k] # p, NEW r \in Items, r \notin ToSet(s)
  PROVE  /\ Relisted(h, ReplaceItem(h, p, s[k], r), p, With(s, k, r), ToSet(s) \cup {r})
         /\ Freed(h, ReplaceItem(h, p, s[k], r), s[k])
<1> DEFINE i == s[k]
           n == Len(s)
           g == ReplaceItem(h, p, i, r)
           t == [s EXCEPT ![k] = r]
           first == h.child[p] = i
           last  == ~first /\ h.next[i] = 0
<1>1. /\ s \in Seq(Items) /\ n \in Nat /\ DOMAIN s = 1 .. n
      /\ \A m \in DOMAIN s : s[m] \in Items /\ s[m] \in ToSet(s) /\ s[m] # r
      /\ \A m, l \in DOMAIN s : s[m] = s[l] => m = l
      /\ h.child[p] = IF s = << >> THEN 0 ELSE s[1]
      /\ \A m \in DOMAIN s : /\ h.next[s[m]] = IF m = n THEN 0 ELSE s[m + 1]
                             /\ h.prev[s[m]] = IF m = 1 THEN s[n] ELSE s[m - 1]
  BY ListParts
<1>2. k \in 1 .. n /\ 1 \in DOMAIN s /\ n \in DOMAIN s /\ s # << >> /\ k \in Nat /\ n >= 1
  BY <1>1
<1>3. h.child[p] = s[1] /\ h.child[p] # 0 /\ r # 0 /\ 0 \notin Items /\ i \in Items /\ i # r
  BY <1>1, <1>2, ItemsAre
<1>4. first <=> k = 1
  BY <1>1, <1>2, <1>3
<1>5. (h.next[i] = 0 <=> k = n) /\ (k # n => h.next[i] = s[k + 1] /\ k + 1 \in DOMAIN s)
  <2>1. k # n => k + 1 \in DOMAIN s
    BY <1>1, <1>2
  <2> QED BY <1>1, <1>2, <1>3, <2>1
<1>6. (k # 1 => k - 1 \in DOMAIN s /\ h.prev[i] = s[k - 1]) /\ (k = 1 => h.prev[i] = s[n])
  <2>1. k # 1 => k - 1 \in DOMAIN s
    BY <1>1, <1>2
  <2> QED BY <1>1, <2>1
<1>7. /\ g \in Heaps /\ g.live = h.live \ {i} /\ g.name = h.name /\ g.value = h.value
      /\ \A x \in Items : g.child[x] = IF x = p /\ first THEN r ELSE h.child[x]
      /\ \A x \in Items : g.next[x] =
           IF x = i THEN 0 ELSE IF x = (IF first THEN 0 ELSE h.prev[i]) THEN r
           ELSE IF x = r THEN h.next[i] ELSE h.next[x]
      /\ \A x \in Items : g.prev[x] =
           IF x = i THEN 0 ELSE IF x = (IF last THEN h.child[p] ELSE 0) THEN r
           ELSE IF x = h.next[i] THEN r
           ELSE IF x = r THEN (IF first /\ h.prev[i] = i THEN r ELSE h.prev[i]) ELSE h.prev[x]
  BY <1>3, ReplaceLinks
<1> HIDE DEF g
<1>8. /\ t \in Seq(Items) /\ Len(t) = n /\ DOMAIN t = 1 .. n
      /\ \A m \in DOMAIN s : t[m] = IF m = k THEN r ELSE s[m]
  BY <1>1
<1> HIDE DEF t
<1>9. \A m, l \in DOMAIN t : t[m] = t[l] => m = l
  BY <1>1, <1>8
<1>10. \A x \in Items : g.next[x] =
         IF x = i THEN 0 ELSE IF k # 1 /\ x = s[k - 1] THEN r
         ELSE IF x = r THEN (IF k = n THEN 0 ELSE s[k + 1]) ELSE h.next[x]
  <2> HIDE DEF i
  <2> TAKE x \in Items
  <2>1. x # 0
    BY <1>3
  <2> QED BY <1>4, <1>5, <1>6, <1>7, <2>1
<1>11. \A x \in Items : g.prev[x] =
         IF x = i THEN 0 ELSE IF k # 1 /\ k = n /\ x = s[1] THEN r
         ELSE IF k # n /\ x = s[k + 1] THEN r
         ELSE IF x = r THEN (IF k = 1 THEN (IF n = 1 THEN r ELSE s[n]) ELSE s[k - 1]) ELSE h.prev[x]
  <2>1. (first /\ h.prev[i] = i) <=> (k = 1 /\ n = 1)
    <3>1. CASE k = 1
      <4>1. h.prev[i] = s[n] /\ (s[n] = s[k] => n = k)
        BY <1>1, <1>2, <1>6, <3>1
      <4> QED BY <1>4, <3>1, <4>1
    <3>2. CASE k # 1
      BY <1>4, <3>2
    <3> QED BY <3>1, <3>2
  <2> HIDE DEF i, first
  <2> TAKE x \in Items
  <2>2. x # 0
    BY <1>3
  <2>3. g.prev[x] =
           IF x = i THEN 0 ELSE IF x = (IF last THEN h.child[p] ELSE 0) THEN r
           ELSE IF x = h.next[i] THEN r
           ELSE IF x = r THEN (IF first /\ h.prev[i] = i THEN r ELSE h.prev[i]) ELSE h.prev[x]
    BY <1>7
  <2>4. x = (IF last THEN h.child[p] ELSE 0) <=> (k # 1 /\ k = n /\ x = s[1])
    BY <1>3, <1>4, <1>5, <2>2
  <2>5. x = h.next[i] <=> (k # n /\ x = s[k + 1])
    BY <1>5, <2>2
  <2>6. (IF first /\ h.prev[i] = i THEN r ELSE h.prev[i]) =
        (IF k = 1 THEN (IF n = 1 THEN r ELSE s[n]) ELSE s[k - 1])
    BY <1>6, <2>1
  <2> HIDE DEF last
  <2> QED BY <2>3, <2>4, <2>5, <2>6
<1>12. ASSUME NEW m \in DOMAIN t PROVE g.next[t[m]] = IF m = n THEN 0 ELSE t[m + 1]
  <2>1. m \in DOMAIN s /\ m \in Nat /\ m >= 1 /\ m <= n /\ (m # n => m + 1 \in DOMAIN s)
    BY <1>1, <1>8
  <2>2. CASE m = k
    <3>1. t[m] = r /\ g.next[r] = IF k = n THEN 0 ELSE s[k + 1]
      <4>1. k # 1 => r # s[k - 1]
        BY <1>1, <1>6
      <4> QED BY <1>3, <1>8, <1>10, <2>1, <2>2, <4>1
    <3>2. m # n => t[m + 1] = s[k + 1]
      <4>1. m + 1 # k
        BY <2>1, <2>2
      <4> QED BY <1>8, <2>1, <2>2, <4>1
    <3> QED BY <2>2, <3>1, <3>2
  <2>3. CASE m # k
    <3>1. t[m] = s[m] /\ s[m] # i /\ s[m] # r /\ s[m] \in Items
      BY <1>1, <1>8, <2>1, <2>3
    <3>2. CASE m + 1 = k
      <4>1. k # 1 /\ k - 1 = m /\ m # n
        BY <1>2, <2>1, <3>2
      <4>2. g.next[s[m]] = r
        BY <1>10, <3>1, <4>1
      <4>3. t[m + 1] = r
        BY <1>8, <2>1, <3>2
      <4> QED BY <3>1, <4>1, <4>2, <4>3
    <3>3. CASE m + 1 # k
      <4>1. k # 1 => s[m] # s[k - 1]
        <5>1. k # 1 => m # k - 1
          BY <1>2, <2>1, <3>3
        <5> QED BY <1>1, <1>6, <2>1, <5>1
      <4>2. g.next[s[m]] = h.next[s[m]]
        BY <1>10, <3>1, <4>1
      <4>3. m # n => t[m + 1] = s[m + 1]
        BY <1>8, <2>1, <3>3
      <4> QED BY <1>1, <2>1, <3>1, <4>2, <4>3
    <3> QED BY <3>2, <3>3
  <2> QED BY <2>2, <2>3
<1>13. ASSUME NEW m \in DOMAIN t PROVE g.prev[t[m]] = IF m = 1 THEN t[n] ELSE t[m - 1]
  <2>1. m \in DOMAIN s /\ m \in Nat /\ m >= 1 /\ m <= n /\ (m # 1 => m - 1 \in DOMAIN s)
    BY <1>1, <1>8
  <2>2. CASE m = k
    <3>1. t[m] = r /\ g.prev[r] = IF k = 1 THEN (IF n = 1 THEN r ELSE s[n]) ELSE s[k - 1]
      <4>1. r # s[1] /\ (k # n => r # s[k + 1])
        BY <1>1, <1>2, <1>5
      <4> QED BY <1>3, <1>8, <1>11, <2>1, <2>2, <4>1
    <3>2. CASE m = 1
      <4>1. t[n] = IF n = 1 THEN r ELSE s[n]
        BY <1>2, <1>8, <2>2, <3>2
      <4> QED BY <2>2, <3>1, <3>2, <4>1
    <3>3. CASE m # 1
      <4>1. m - 1 # k
        BY <2>1, <2>2
      <4>2. t[m - 1] = s[k - 1]
        BY <1>8, <2>1, <2>2, <3>3, <4>1
      <4> QED BY <2>2, <3>1, <3>3, <4>2
    <3> QED BY <3>2, <3>3
  <2>3. CASE m # k
    <3>1. t[m] = s[m] /\ s[m] # i /\ s[m] # r /\ s[m] \in Items
      BY <1>1, <1>8, <2>1, <2>3
    <3>2. CASE m = 1
      <4>1. CASE k = n
        <5>1. t[n] = r /\ k # 1
          BY <1>2, <1>8, <2>3, <3>2, <4>1
        <5>2. g.prev[s[m]] = r
          BY <1>11, <3>1, <3>2, <4>1, <5>1
        <5> QED BY <3>1, <3>2, <5>1, <5>2
      <4>2. CASE k # n
        <5>1. t[n] = s[n] /\ s[m] # s[k + 1]
          <6>1. 1 # k + 1
            BY <1>2
          <6> QED BY <1>1, <1>2, <1>5, <1>8, <2>1, <3>2, <4>2, <6>1
        <5>2. g.prev[s[m]] = h.prev[s[m]]
          BY <1>11, <3>1, <4>2, <5>1
        <5> QED BY <1>1, <2>1, <3>1, <3>2, <5>1, <5>2
      <4> QED BY <4>1, <4>2
    <3>3. CASE m # 1
      <4>0. s[m] # s[1]
        BY <1>1, <1>2, <2>1, <3>3
      <4>1. CASE m - 1 = k
        <5>1. k # n /\ k + 1 = m
          BY <1>2, <2>1, <4>1
        <5>2. g.prev[s[m]] = r
          BY <1>11, <3>1, <4>0, <5>1
        <5>3. t[m - 1] = r
          BY <1>8, <2>1, <3>3, <4>1
        <5> QED BY <3>1, <3>3, <5>2, <5>3
      <4>2. CASE m - 1 # k
        <5>1. k # n => s[m] # s[k + 1]
          <6>1. m # k + 1
            BY <1>2, <2>1, <4>2
          <6> QED BY <1>1, <1>5, <2>1, <6>1
        <5>2. g.prev[s[m]] = h.prev[s[m]]
          BY <1>11, <3>1, <4>0, <5>1
        <5>3. t[m - 1] = s[m - 1]
          BY <1>8, <2>1, <3>3, <4>2
        <5> QED BY <1>1, <2>1, <3>1, <3>3, <5>2, <5>3
      <4> QED BY <4>1, <4>2
    <3> QED BY <3>2, <3>3
  <2> QED BY <2>2, <2>3
<1>14. g.child[p] = t[1] /\ t # << >>
  <2>1. t[1] = IF k = 1 THEN r ELSE s[1]
    BY <1>2, <1>8
  <2> QED BY <1>2, <1>3, <1>4, <1>7, <1>8, <2>1
<1>15. ListOf(g, p, t)
  BY <1>8, <1>9, <1>12, <1>13, <1>14 DEF ListOf, Linked
<1>16. SameOutside(h, g, p, ToSet(s) \cup {r})
  <2>1. /\ i \in ToSet(s) /\ (k # 1 => s[k - 1] \in ToSet(s)) /\ s[1] \in ToSet(s)
        /\ (k # n => s[k + 1] \in ToSet(s))
    BY <1>1, <1>2, <1>5, <1>6
  <2> HIDE DEF i
  <2>2. \A x \in Items \ (ToSet(s) \cup {r}) : g.next[x] = h.next[x] /\ g.prev[x] = h.prev[x]
    BY <1>10, <1>11, <2>1
  <2> QED BY <1>7, <2>2 DEF SameOutside
<1>17. \A j \in Items : j # p => g.child[j] = h.child[j]
  BY <1>7
<1> QED BY <1>7, <1>15, <1>16, <1>17 DEF g, t, Relisted, With, Freed
\* The links after an item has been taken out and deleted.
LEMMA DetachLinks ==
  ASSUME NEW h \in Heaps, NEW p \in Items, NEW i \in Items, h.child[i] = 0, i # p
  PROVE  LET g == Delete(Detach(h, p, i), i)
             first == h.child[p] = i
         IN  /\ g \in Heaps /\ g.live = h.live \ {i} /\ g.name = h.name /\ g.value = h.value
             /\ \A x \in Items : g.child[x] = IF x = p /\ first THEN h.next[i] ELSE h.child[x]
             /\ \A x \in Items : g.next[x] =
                  IF x = i THEN 0 ELSE IF x = (IF first THEN 0 ELSE h.prev[i]) THEN h.next[i]
                  ELSE h.next[x]
             /\ \A x \in Items : g.prev[x] =
                  IF x = i THEN 0
                  ELSE IF x = (IF h.next[i] # 0 THEN h.next[i] ELSE IF first THEN 0 ELSE h.child[p])
                  THEN h.prev[i] ELSE h.prev[x]
<1> DEFINE first == h.child[p] = i
           ni    == h.next[i]
           pi    == h.prev[i]
           a     == IF first THEN 0 ELSE h.prev[i]
           b     == IF h.next[i] # 0 THEN h.next[i] ELSE IF first THEN 0 ELSE h.child[p]
           n1    == Put(h.next, a, h.next[i])
           n2    == [n1 EXCEPT ![i] = 0]
           p1    == Put(h.prev, b, h.prev[i])
           p2    == [p1 EXCEPT ![i] = 0]
           c     == IF first THEN [h.child EXCEPT ![p] = h.next[i]] ELSE h.child
           m     == Relinked(h, n2, p2, c)
<1>1. /\ h.next \in [Items -> Links] /\ h.prev \in [Items -> Links] /\ h.child \in [Items -> Links]
      /\ h.value \in [Items -> Nat] /\ h.name \in [Items -> AllNames] /\ h.live \in SUBSET Items
      /\ h = [next |-> h.next, prev |-> h.prev, child |-> h.child, value |-> h.value,
              name |-> h.name, live |-> h.live]
  BY HeapParts
<1>2. i # 0 /\ 0 \in Links
  BY ItemsAre
<1>3. a \in Links /\ b \in Links /\ ni \in Links /\ pi \in Links
  BY <1>1, <1>2
<1>4. Detach(h, p, i) = m
  BY DEF Detach
<1>5. m = [next |-> n2, prev |-> p2, child |-> c, value |-> h.value, name |-> h.name, live |-> h.live]
  BY DEF Relinked
<1>6. n1 \in LinkMaps /\ \A x \in Items : n1[x] = IF x = a THEN h.next[i] ELSE h.next[x]
  <2>1. h.next \in LinkMaps
    BY <1>1 DEF LinkMaps
  <2> HIDE DEF a, ni
  <2>2. /\ Put(h.next, a, ni) \in LinkMaps
        /\ \A x \in Items : Put(h.next, a, ni)[x] = IF x = a THEN ni ELSE h.next[x]
    BY <1>3, <2>1, ItemsAre DEF Put, LinkMaps
  <2> QED BY <2>2 DEF ni
<1>7. p1 \in LinkMaps /\ \A x \in Items : p1[x] = IF x = b THEN h.prev[i] ELSE h.prev[x]
  <2>1. h.prev \in LinkMaps
    BY <1>1 DEF LinkMaps
  <2> HIDE DEF b, pi
  <2>2. /\ Put(h.prev, b, pi) \in LinkMaps
        /\ \A x \in Items : Put(h.prev, b, pi)[x] = IF x = b THEN pi ELSE h.prev[x]
    BY <1>3, <2>1, ItemsAre DEF Put, LinkMaps
  <2> QED BY <2>2 DEF pi
<1> HIDE DEF n1, p1
<1>8. /\ n2 \in LinkMaps /\ \A x \in Items : n2[x] = IF x = i THEN 0 ELSE n1[x]
      /\ p2 \in LinkMaps /\ \A x \in Items : p2[x] = IF x = i THEN 0 ELSE p1[x]
  BY <1>2, <1>6, <1>7 DEF LinkMaps
<1>9. c \in LinkMaps /\ \A x \in Items : c[x] = IF x = p /\ first THEN h.next[i] ELSE h.child[x]
  BY <1>1, <1>3 DEF LinkMaps
<1> HIDE DEF n2, p2, c
<1>10. m \in Heaps /\ m.next[i] = 0 /\ m.child[i] = 0
  <2>1. m \in Heaps
    BY <1>1, <1>5, <1>8, <1>9 DEF Heaps, LinkMaps
  <2>2. n2[i] = 0 /\ c[i] = 0
    BY <1>8, <1>9
  <2>3. m.next = n2 /\ m.child = c
    BY <1>5
  <2> QED BY <2>1, <2>2, <2>3
<1>11. Reach(m, i) = {i}
  BY <1>10, LeafReach
<1> DEFINE g == [next |-> n2, prev |-> p2, child |-> c, value |-> h.value, name |-> h.name, live |-> h.live \ {i}]
<1>12. Delete(Detach(h, p, i), i) = g
  <2>1. Delete(m, i) = [m EXCEPT !.live = m.live \ {i}]
    <3> HIDE DEF m
    <3> QED BY <1>11 DEF Delete
  <2> HIDE DEF m
  <2> QED BY <1>4, <1>5, <2>1
<1>13. g \in Heaps
  BY <1>1, <1>8, <1>9 DEF Heaps, LinkMaps
<1>14. \A x \in Items : n2[x] = IF x = i THEN 0 ELSE IF x = a THEN h.next[i] ELSE h.next[x]
  <2> HIDE DEF a
  <2> QED BY <1>6, <1>8
<1>15. \A x \in Items : p2[x] = IF x = i THEN 0 ELSE IF x = b THEN h.prev[i] ELSE h.prev[x]
  <2> HIDE DEF b
  <2> QED BY <1>7, <1>8
<1> QED BY <1>9, <1>12, <1>13, <1>14, <1>15

Without(s, k) == [m \in 1 .. Len(s) - 1 |-> IF m < k THEN s[m] ELSE s[m + 1]]

\* An item is taken out of the list and deleted.
LEMMA DetachItemIs ==
  ASSUME NEW h \in Heaps, NEW p \in Items, NEW s, ListOf(h, p, s),
         NEW k \in DOMAIN s, h.child[s[k]] = 0, s[k] # p
  PROVE  /\ Relisted(h, Delete(Detach(h, p, s[k]), s[k]), p, Without(s, k), ToSet(s))
         /\ Freed(h, Delete(Detach(h, p, s[k]), s[k]), s[k])
<1> DEFINE i == s[k]
           n == Len(s)
           g == Delete(Detach(h, p, i), i)
           t == Without(s, k)
           first == h.child[p] = i
<1>1. /\ s \in Seq(Items) /\ n \in Nat /\ DOMAIN s = 1 .. n
      /\ \A m \in DOMAIN s : s[m] \in Items /\ s[m] \in ToSet(s)
      /\ \A m, l \in DOMAIN s : s[m] = s[l] => m = l
      /\ h.child[p] = IF s = << >> THEN 0 ELSE s[1]
      /\ \A m \in DOMAIN s : /\ h.next[s[m]] = IF m = n THEN 0 ELSE s[m + 1]
                             /\ h.prev[s[m]] = IF m = 1 THEN s[n] ELSE s[m - 1]
  BY ListParts
<1>2. k \in 1 .. n /\ 1 \in DOMAIN s /\ n \in DOMAIN s /\ s # << >> /\ k \in Nat /\ n >= 1
  BY <1>1
<1>19. n \in Nat /\ k <= n
  BY <1>1
<1>3. h.child[p] = s[1] /\ h.child[p] # 0 /\ 0 \notin Items /\ i \in Items
  BY <1>1, <1>2, ItemsAre
<1>4. first <=> k = 1
  BY <1>1, <1>2, <1>3
<1>5. /\ k = n => h.next[i] = 0
      /\ k # n => h.next[i] = s[k + 1] /\ h.next[i] # 0 /\ k + 1 \in DOMAIN s
  <2>1. k # n => k + 1 \in DOMAIN s
    BY <1>1, <1>2
  <2> QED BY <1>1, <1>2, <1>3, <2>1
<1>6. (k # 1 => k - 1 \in DOMAIN s /\ h.prev[i] = s[k - 1]) /\ (k = 1 => h.prev[i] = s[n])
  <2>1. k # 1 => k - 1 \in DOMAIN s
    BY <1>1, <1>2
  <2> QED BY <1>1, <2>1
<1>7. /\ g \in Heaps /\ g.live = h.live \ {i} /\ g.name = h.name /\ g.value = h.value
      /\ \A x \in Items : g.child[x] = IF x = p /\ first THEN h.next[i] ELSE h.child[x]
      /\ \A x \in Items : g.next[x] =
           IF x = i THEN 0 ELSE IF x = (IF first THEN 0 ELSE h.prev[i]) THEN h.next[i]
           ELSE h.next[x]
      /\ \A x \in Items : g.prev[x] =
           IF x = i THEN 0
           ELSE IF x = (IF h.next[i] # 0 THEN h.next[i] ELSE IF first THEN 0 ELSE h.child[p])
           THEN h.prev[i] ELSE h.prev[x]
  BY <1>3, DetachLinks
<1> HIDE DEF g
<1>8. /\ t \in Seq(Items) /\ Len(t) = n - 1 /\ DOMAIN t = 1 .. n - 1
      /\ \A m \in 1 .. n - 1 : t[m] = IF m < k THEN s[m] ELSE s[m + 1]
  <2>1. \A m \in 1 .. n - 1 : m \in DOMAIN s /\ m + 1 \in DOMAIN s
    BY <1>1, <1>2
  <2>2. n - 1 \in Nat
    BY <1>2, <1>1
  <2>3. t \in [1 .. n - 1 -> Items]
    BY <1>1, <2>1 DEF Without
  <2>4. t \in Seq(Items) /\ Len(t) = n - 1 /\ DOMAIN t = 1 .. n - 1
    <3> HIDE DEF t, n
    <3> QED BY <2>2, <2>3
  <2>5. \A m \in 1 .. n - 1 : t[m] = IF m < k THEN s[m] ELSE s[m + 1]
    BY DEF Without
  <2> QED BY <2>4, <2>5
<1> HIDE DEF t
\* Where the m-th of the rest was.
<1> DEFINE w(m) == IF m < k THEN m ELSE m + 1
<1>9. ASSUME NEW m \in 1 .. n - 1
      PROVE  w(m) \in DOMAIN s /\ w(m) # k /\ t[m] = s[w(m)] /\ s[w(m)] # i /\ s[w(m)] \in Items
  <2>1. w(m) \in 1 .. n /\ w(m) # k
    BY <1>1, <1>2
  <2>2. t[m] = s[w(m)]
    BY <1>8
  <2> HIDE DEF w
  <2> QED BY <1>1, <2>1, <2>2
<1>10. \A m, l \in DOMAIN t : t[m] = t[l] => m = l
  <2> TAKE m, l \in DOMAIN t
  <2> HAVE t[m] = t[l]
  <2>0. m \in 1 .. n - 1 /\ l \in 1 .. n - 1
    BY <1>8
  <2>1. w(m) = w(l)
    <3>1. t[m] = s[w(m)] /\ t[l] = s[w(l)] /\ w(m) \in DOMAIN s /\ w(l) \in DOMAIN s
      BY <1>9, <2>0
    <3> HIDE DEF w
    <3> QED BY <1>1, <3>1
  <2>2. m \in Int /\ l \in Int
    BY <2>0
  <2> QED BY <1>2, <2>1, <2>2
<1>11. \A x \in Items : x # i => g.next[x] =
         IF k # 1 /\ x = s[k - 1] THEN (IF k = n THEN 0 ELSE s[k + 1]) ELSE h.next[x]
  <2> HIDE DEF i
  <2> TAKE x \in Items
  <2>1. x # 0
    BY <1>3
  <2> QED BY <1>4, <1>5, <1>6, <1>7, <2>1
<1>12. \A x \in Items : x # i => g.prev[x] =
         IF (k # n /\ x = s[k + 1]) \/ (k = n /\ k # 1 /\ x = s[1])
         THEN (IF k = 1 THEN s[n] ELSE s[k - 1]) ELSE h.prev[x]
  <2> TAKE x \in Items
  <2>1. x # 0
    BY <1>3
  <2>2. x = (IF h.next[i] # 0 THEN h.next[i] ELSE IF first THEN 0 ELSE h.child[p])
        <=> ((k # n /\ x = s[k + 1]) \/ (k = n /\ k # 1 /\ x = s[1]))
    <3> HIDE DEF first, i
    <3> QED BY <1>3, <1>4, <1>5, <2>1
  <2>3. h.prev[i] = IF k = 1 THEN s[n] ELSE s[k - 1]
    BY <1>6
  <2> HIDE DEF first, i
  <2> QED BY <1>7, <2>2, <2>3
<1>13. ASSUME NEW m \in DOMAIN t PROVE g.next[t[m]] = IF m = n - 1 THEN 0 ELSE t[m + 1]
  <2>1. /\ m \in 1 .. n - 1 /\ m \in Nat /\ m >= 1 /\ m <= n - 1 /\ (m # n - 1 => m + 1 \in 1 .. n - 1)
        /\ w(m) \in DOMAIN s /\ w(m) # k /\ t[m] = s[w(m)] /\ s[w(m)] # i /\ s[w(m)] \in Items
    BY <1>1, <1>2, <1>8, <1>9
  <2>2. CASE m + 1 = k
    <3>1. w(m) = k - 1 /\ k # 1
      BY <1>2, <2>1, <2>2
    <3>2. g.next[t[m]] = IF k = n THEN 0 ELSE s[k + 1]
      BY <1>11, <2>1, <3>1
    <3>3. m = n - 1 <=> k = n
      BY <1>1, <2>1, <2>2
    <3>4. m # n - 1 => t[m + 1] = s[k + 1]
      <4>1. m # n - 1 => w(m + 1) = k + 1
        BY <1>2, <2>1, <2>2
      <4> QED BY <1>9, <2>1, <4>1
    <3> QED BY <3>2, <3>3, <3>4
  <2>3. CASE m + 1 # k
    <3>1. k # 1 => s[w(m)] # s[k - 1]
      <4>1. w(m) # k - 1
        BY <1>2, <2>1, <2>3
      <4> HIDE DEF w
      <4> QED BY <1>1, <1>6, <2>1, <4>1
    <3>2. g.next[t[m]] = h.next[s[w(m)]]
      BY <1>11, <2>1, <3>1
    <3>3. h.next[s[w(m)]] = IF w(m) = n THEN 0 ELSE s[w(m) + 1]
      BY <1>1, <2>1
    <3>4. w(m) = n <=> m = n - 1
      BY <1>1, <1>2, <2>1, <2>3
    <3>5. m # n - 1 => w(m + 1) = w(m) + 1
      BY <1>2, <2>1, <2>3
    <3>6. m # n - 1 => t[m + 1] = s[w(m + 1)]
      BY <1>9, <2>1
    <3> HIDE DEF w
    <3> QED BY <3>2, <3>3, <3>4, <3>5, <3>6
  <2> QED BY <2>2, <2>3
<1>14. ASSUME NEW m \in DOMAIN t PROVE g.prev[t[m]] = IF m = 1 THEN t[n - 1] ELSE t[m - 1]
  <2>1. /\ m \in 1 .. n - 1 /\ m \in Nat /\ m >= 1 /\ m <= n - 1 /\ (m # 1 => m - 1 \in 1 .. n - 1)
        /\ n - 1 \in 1 .. n - 1
        /\ w(m) \in DOMAIN s /\ w(m) # k /\ t[m] = s[w(m)] /\ s[w(m)] # i /\ s[w(m)] \in Items
    BY <1>1, <1>2, <1>8, <1>9
  <2>2. CASE m = k
    <3>1. w(m) = k + 1 /\ k # n
      BY <1>1, <1>2, <2>1, <2>2
    <3>2. g.prev[t[m]] = IF k = 1 THEN s[n] ELSE s[k - 1]
      BY <1>12, <2>1, <3>1
    <3>3. t[n - 1] = s[n]
      <4>1. w(n - 1) = n
        BY <1>2, <1>19, <2>1, <2>2
      <4> QED BY <1>9, <2>1, <4>1
    <3>4. m # 1 => t[m - 1] = s[k - 1]
      <4>1. m # 1 => w(m - 1) = k - 1
        BY <1>2, <2>1, <2>2
      <4> QED BY <1>9, <2>1, <4>1
    <3> QED BY <2>2, <3>2, <3>3, <3>4
  <2>3. CASE m # k
    <3>1. k # n => s[w(m)] # s[k + 1]
      <4>1. w(m) # k + 1
        BY <1>2, <2>1, <2>3
      <4> HIDE DEF w
      <4> QED BY <1>1, <1>5, <2>1, <4>1
    <3>2. CASE m = 1 /\ k = n
      <4>1. w(m) = 1 /\ k # 1
        BY <1>2, <2>1, <2>3, <3>2
      <4>2. g.prev[t[m]] = s[k - 1]
        BY <1>12, <2>1, <3>2, <4>1
      <4>3. t[n - 1] = s[k - 1]
        <5>1. w(n - 1) = k - 1
          BY <1>2, <1>19, <2>1, <3>2
        <5> QED BY <1>9, <2>1, <5>1
      <4> QED BY <3>2, <4>2, <4>3
    <3>3. CASE m = 1 /\ k # n
      <4>1. g.prev[t[m]] = h.prev[s[w(m)]]
        BY <1>12, <2>1, <3>1, <3>3
      <4>2. w(m) = 1
        BY <1>2, <2>1, <2>3, <3>3
      <4>3. t[n - 1] = s[n]
        <5>1. w(n - 1) = n
          BY <1>2, <1>19, <2>1, <3>3
        <5> QED BY <1>9, <2>1, <5>1
      <4>4. h.prev[s[1]] = s[n]
        BY <1>1, <1>2
      <4> HIDE DEF w
      <4> QED BY <3>3, <4>1, <4>2, <4>3, <4>4
    <3>4. CASE m # 1
      <4>1. w(m) # 1 /\ w(m - 1) = w(m) - 1
        BY <1>2, <2>1, <2>3, <3>4
      <4>2. s[w(m)] # s[1]
        <5> HIDE DEF w
        <5> QED BY <1>1, <1>2, <2>1, <4>1
      <4>3. g.prev[t[m]] = h.prev[s[w(m)]]
        BY <1>12, <2>1, <3>1, <4>2
      <4>4. h.prev[s[w(m)]] = s[w(m) - 1]
        <5> HIDE DEF w
        <5> QED BY <1>1, <2>1, <4>1
      <4>5. t[m - 1] = s[w(m - 1)]
        BY <1>9, <2>1, <3>4
      <4> HIDE DEF w
      <4> QED BY <3>4, <4>1, <4>3, <4>4, <4>5
    <3> QED BY <3>2, <3>3, <3>4
  <2> QED BY <2>2, <2>3
<1>15. g.child[p] = IF t = << >> THEN 0 ELSE t[1]
  <2>1. g.child[p] = IF k = 1 THEN h.next[i] ELSE s[1]
    BY <1>3, <1>4, <1>7
  <2>2. CASE n = 1
    <3>1. t = << >> /\ k = 1
      BY <1>2, <1>8, <2>2
    <3> QED BY <1>5, <2>1, <2>2, <3>1
  <2>3. CASE n # 1
    <3>1. 1 \in 1 .. n - 1 /\ t # << >>
      BY <1>1, <1>2, <1>8, <2>3
    <3>2. t[1] = IF k = 1 THEN s[k + 1] ELSE s[1]
      BY <1>2, <1>8, <3>1
    <3> QED BY <1>5, <2>1, <2>3, <3>1, <3>2
  <2> QED BY <2>2, <2>3
<1>16. ListOf(g, p, t)
  BY <1>8, <1>10, <1>13, <1>14, <1>15 DEF ListOf, Linked
<1>17. SameOutside(h, g, p, ToSet(s))
  <2>1. /\ i \in ToSet(s) /\ (k # 1 => s[k - 1] \in ToSet(s)) /\ s[1] \in ToSet(s)
        /\ (k # n => s[k + 1] \in ToSet(s))
    BY <1>1, <1>2, <1>5, <1>6
  <2> HIDE DEF i
  <2>2. \A x \in Items \ ToSet(s) : g.next[x] = h.next[x] /\ g.prev[x] = h.prev[x]
    BY <1>11, <1>12, <2>1
  <2> QED BY <1>7, <2>2 DEF SameOutside
<1>18. \A j \in Items : j # p => g.child[j] = h.child[j]
  BY <1>7
<1> QED BY <1>7, <1>16, <1>17, <1>18 DEF g, t, Relisted, Freed
-----------------------------------------------------------------------------
(* The objects of the tree and their lists. *)

Cells(h, p) == ToSet(Children(h, p))

\* O are the objects with a list of their own: live, apart from each other, and of items
\* without a child.  Besides these there is app and status in memory, whose lists are
\* made of objects.
WellFormed(h, O) ==
  /\ h \in Heaps /\ O \subseteq Items
  /\ \A p \in O : ListOf(h, p, Children(h, p))
  /\ \A p \in O : \A j \in Cells(h, p) : h.child[j] = 0 /\ j \notin O /\ j \notin {1, 3}
  /\ \A p, q \in O : p # q => Cells(h, p) \cap Cells(h, q) = {}
  /\ h.live = {1, 3} \cup O \cup UNION {Cells(h, p) : p \in O}

Distinct(h, p) == \A i, j \in Cells(h, p) : h.name[i] = h.name[j] => i = j

\* The value of a field, 0 if it is not there.
Val(h, p, n) == LET i == IF p = 0 THEN 0 ELSE Find(h, p, n) IN IF i = 0 THEN 0 ELSE h.value[i]

\* The list of p was changed to s, and nothing else.
Edited(h, g, O, p, s) ==
  /\ WellFormed(g, O)
  /\ Children(g, p) = s
  /\ \A q \in O : q # p => Children(g, q) = Children(h, q)
  /\ \A q \in O : q # p => \A j \in Cells(h, q) : /\ g.name[j] = h.name[j] /\ g.value[j] = h.value[j]
                                                /\ g.next[j] = h.next[j]
  /\ \A j \in O \cup {1, 3} : /\ g.next[j] = h.next[j] /\ g.prev[j] = h.prev[j]
                              /\ g.name[j] = h.name[j] /\ g.value[j] = h.value[j]
                              /\ j # p => g.child[j] = h.child[j]

\* A name is found nowhere, or at an item that has it.
LEMMA FindIs ==
  ASSUME NEW h, NEW p, NEW s, s = Children(h, p), NEW n, s \in Seq(Items)
  PROVE  \/ Find(h, p, n) = 0 /\ \A k \in DOMAIN s : h.name[s[k]] # n
         \/ \E k \in DOMAIN s : h.name[s[k]] = n /\ Find(h, p, n) = s[k] /\ s[k] # 0
<1> DEFINE hits == {k \in DOMAIN s : h.name[s[k]] = n}
<1>1. Find(h, p, n) = IF hits = {} THEN 0 ELSE s[Min(hits)]
  BY DEF Find
<1>2. hits \in SUBSET Nat
  OBVIOUS
<1>3. CASE hits = {}
  BY <1>1, <1>3
<1>4. CASE hits # {}
  <2>1. Min(hits) \in hits
    <3> HIDE DEF hits
    <3> QED BY <1>2, <1>4, MinIs
  <2>2. s[Min(hits)] # 0
    BY <2>1, ItemsAre
  <2> QED BY <1>1, <1>4, <2>1, <2>2
<1> QED BY <1>3, <1>4

\* The same of the cells.
LEMMA FoundCell ==
  ASSUME NEW h, NEW p, Children(h, p) \in Seq(Items), NEW n
  PROVE  \/ Find(h, p, n) = 0 /\ \A j \in Cells(h, p) : h.name[j] # n
         \/ Find(h, p, n) \in Cells(h, p) /\ Find(h, p, n) # 0 /\ h.name[Find(h, p, n)] = n
<1>1. CASE Find(h, p, n) = 0 /\ \A k \in DOMAIN Children(h, p) : h.name[Children(h, p)[k]] # n
  BY <1>1 DEF Cells, ToSet
<1>2. CASE \E k \in DOMAIN Children(h, p) : /\ h.name[Children(h, p)[k]] = n
                                            /\ Find(h, p, n) = Children(h, p)[k] /\ Children(h, p)[k] # 0
  BY <1>2 DEF Cells, ToSet
<1> QED BY <1>1, <1>2, FindIs

\* An object and its cells are items in use, apart from each other.
LEMMA ListCells ==
  ASSUME NEW h, NEW O, WellFormed(h, O), NEW p \in O
  PROVE  /\ h \in Heaps /\ p \in Items /\ p # 0 /\ p \in h.live
         /\ Children(h, p) \in Seq(Items) /\ ListOf(h, p, Children(h, p))
         /\ Cells(h, p) \subseteq h.live /\ Cells(h, p) \subseteq Items /\ p \notin Cells(h, p)
<1>1. h \in Heaps /\ p \in Items /\ ListOf(h, p, Children(h, p))
  BY DEF WellFormed
<1>2. Children(h, p) \in Seq(Items)
  BY <1>1, ListParts
<1>3. Cells(h, p) \subseteq Items
  BY <1>2 DEF Cells, ToSet
<1>4. Cells(h, p) \subseteq h.live /\ p \notin Cells(h, p) /\ p \in h.live
  BY DEF WellFormed
<1> QED BY <1>1, <1>2, <1>3, <1>4, ItemsAre

\* With distinct names the fields are a function of the name.
LEMMA ValIs ==
  ASSUME NEW h, NEW O, WellFormed(h, O), NEW p \in O, NEW n
  PROVE  /\ (\A j \in Cells(h, p) : h.name[j] # n) => Find(h, p, n) = 0 /\ Val(h, p, n) = 0
         /\ Distinct(h, p) => \A j \in Cells(h, p) :
              h.name[j] = n => Find(h, p, n) = j /\ Val(h, p, n) = h.value[j]
<1>1. Children(h, p) \in Seq(Items) /\ p # 0
  BY ListCells
<1>2. \/ Find(h, p, n) = 0 /\ \A j \in Cells(h, p) : h.name[j] # n
      \/ Find(h, p, n) \in Cells(h, p) /\ Find(h, p, n) # 0 /\ h.name[Find(h, p, n)] = n
  BY <1>1, FoundCell
<1> QED BY <1>1, <1>2 DEF Val, Distinct

\* A list is what it was where its items are and the object is.
LEMMA ListKept ==
  ASSUME NEW h \in Heaps, NEW g \in Heaps, NEW p \in Items, NEW s, ListOf(h, p, s),
         g.child[p] = h.child[p],
         \A j \in ToSet(s) : g.next[j] = h.next[j] /\ g.prev[j] = h.prev[j]
  PROVE  ListOf(g, p, s) /\ Children(g, p) = s /\ Children(h, p) = s
<1>1. \A k \in DOMAIN s : s[k] \in ToSet(s)
  BY DEF ToSet
<1>2. ListOf(g, p, s)
  BY <1>1 DEF ListOf, Linked
<1> QED BY <1>2, ListIsChildren

\* Another list of items of its own or new is all that changes.
LEMMA EditIs ==
  ASSUME NEW h, NEW O, WellFormed(h, O), NEW p \in O, NEW g \in Heaps, NEW s, ListOf(g, p, s),
         SameOutside(h, g, p, Cells(h, p) \cup ToSet(s)),
         \A j \in ToSet(s) : g.child[j] = 0,
         \A j \in ToSet(s) : j \in Cells(h, p) \/ j \notin h.live,
         g.live = (h.live \ Cells(h, p)) \cup ToSet(s)
  PROVE  Edited(h, g, O, p, s)
<1> DEFINE C == Cells(h, p)
           S == ToSet(s)
<1>0. h \in Heaps /\ O \subseteq Items /\ p \in Items
  BY DEF WellFormed
<1>1. Children(g, p) = s /\ Cells(g, p) = S
  BY <1>0, ListIsChildren DEF Cells
<1>2. \A j \in O \cup {1, 3} : j \in h.live /\ j \notin C /\ j \notin S
  BY DEF WellFormed
<1>3. h.live \subseteq Items
  BY <1>0, HeapParts
<1>4. \A j \in O \cup {1, 3} : /\ g.next[j] = h.next[j] /\ g.prev[j] = h.prev[j]
                               /\ g.name[j] = h.name[j] /\ g.value[j] = h.value[j]
                               /\ j # p => g.child[j] = h.child[j]
  BY <1>2, <1>3 DEF SameOutside
<1>5. ASSUME NEW q \in O, q # p
      PROVE  /\ \A j \in Cells(h, q) : /\ g.name[j] = h.name[j] /\ g.value[j] = h.value[j]
                                      /\ g.next[j] = h.next[j] /\ g.prev[j] = h.prev[j]
                                      /\ g.child[j] = h.child[j]
                                      /\ j \notin S
             /\ ListOf(g, q, Children(h, q)) /\ Children(g, q) = Children(h, q)
  <2>1. \A j \in Cells(h, q) : j \in h.live /\ j \in Items /\ j \notin C /\ j # p
    BY <1>3, <1>5 DEF WellFormed
  <2>2. \A j \in Cells(h, q) : j \notin S
    BY <2>1
  <2>3. \A j \in Cells(h, q) : /\ g.name[j] = h.name[j] /\ g.value[j] = h.value[j]
                              /\ g.next[j] = h.next[j] /\ g.prev[j] = h.prev[j]
                              /\ g.child[j] = h.child[j]
    BY <2>1, <2>2 DEF SameOutside
  <2>4. q \in Items /\ ListOf(h, q, Children(h, q)) /\ g.child[q] = h.child[q]
    <3>1. q \in O \cup {1, 3} /\ q # p
      BY <1>5
    <3>2. g.child[q] = h.child[q]
      BY <1>4, <3>1
    <3> QED BY <1>0, <3>2 DEF WellFormed
  <2>5. ListOf(g, q, Children(h, q)) /\ Children(g, q) = Children(h, q)
    BY <1>0, <2>3, <2>4, ListKept DEF Cells
  <2> QED BY <2>2, <2>3, <2>5
<1>6. \A q \in O : q # p => Cells(g, q) = Cells(h, q)
  BY <1>5 DEF Cells
<1>7. WellFormed(g, O)
  <2>1. \A q \in O : ListOf(g, q, Children(g, q))
    BY <1>1, <1>5
  <2>2. ASSUME NEW q \in O, NEW j \in Cells(g, q)
        PROVE  g.child[j] = 0 /\ j \notin O /\ j \notin {1, 3}
    <3>1. CASE q = p
      BY <1>1, <1>2, <2>2, <3>1
    <3>2. CASE q # p
      <4>1. j \in Cells(h, q)
        BY <1>6, <2>2, <3>2
      <4> QED BY <1>5, <3>2, <4>1 DEF WellFormed
    <3> QED BY <3>1, <3>2
  <2>3. ASSUME NEW q \in O, NEW r \in O, q # r
        PROVE  Cells(g, q) \cap Cells(g, r) = {}
    <3>1. CASE q # p /\ r # p
      BY <1>6, <2>3, <3>1 DEF WellFormed
    <3>2. CASE q = p
      BY <1>1, <1>5, <1>6, <2>3, <3>2
    <3>3. CASE r = p
      BY <1>1, <1>5, <1>6, <2>3, <3>3
    <3> QED BY <3>1, <3>2, <3>3
  <2>4. g.live = {1, 3} \cup O \cup UNION {Cells(g, q) : q \in O}
    <3>1. ASSUME NEW j PROVE j \in g.live <=> j \in {1, 3} \cup O \cup UNION {Cells(g, q) : q \in O}
      <4>1. j \in g.live <=> (j \in h.live /\ j \notin C) \/ j \in S
        OBVIOUS
      <4>2. j \in h.live <=> j \in {1, 3} \/ j \in O \/ \E q \in O : j \in Cells(h, q)
        BY DEF WellFormed
      <4>3. j \in UNION {Cells(g, q) : q \in O} <=> j \in S \/ \E q \in O : q # p /\ j \in Cells(h, q)
        BY <1>1, <1>6
      <4>4. \A q \in O : q # p /\ j \in Cells(h, q) => j \notin C
        BY DEF WellFormed
      <4>5. j \in {1, 3} \/ j \in O => j \notin C
        BY <1>2
      <4> QED BY <4>1, <4>2, <4>3, <4>4, <4>5
    <3> QED BY <3>1
  <2> QED BY <1>0, <2>1, <2>2, <2>3, <2>4 DEF WellFormed
<1>8. \A q \in O : q # p => \A j \in Cells(h, q) : /\ g.name[j] = h.name[j] /\ g.value[j] = h.value[j]
                                                  /\ g.next[j] = h.next[j]
  BY <1>5
<1>9. \A q \in O : q # p => Children(g, q) = Children(h, q)
  BY <1>5
<1>10. Children(g, p) = s
  BY <1>1
<1> QED BY <1>4, <1>7, <1>8, <1>9, <1>10, Zenon DEF Edited
-----------------------------------------------------------------------------
(* The changes the program makes: a field is set, added or deleted. *)

\* The field n of p is set to v, 0 to delete it, and no other.
Sets(h, g, p, n, v) ==
  Distinct(g, p) /\ Val(g, p, n) = v /\ \A m : m # n => Val(g, p, m) = Val(h, p, m)

\* Once the item r says v of n, and all others are what they were, the field n is v.
LEMMA FieldSet ==
  ASSUME NEW h, NEW O, WellFormed(h, O), NEW p \in O, Distinct(h, p),
         NEW g, WellFormed(g, O), NEW r, NEW n, NEW v, r # 0,
         \A j : j \in Cells(g, p) <=> j = r \/ (j \in Cells(h, p) /\ h.name[j] # n),
         g.name[r] = n, g.value[r] = v, r \notin Cells(h, p),
         \A j \in Cells(h, p) : g.name[j] = h.name[j] /\ g.value[j] = h.value[j]
  PROVE  Sets(h, g, p, n, v)
<1>1. Distinct(g, p)
  BY DEF Distinct
<1>2. Val(g, p, n) = v
  BY <1>1, ValIs
<1>3. ASSUME NEW m, m # n PROVE Val(g, p, m) = Val(h, p, m)
  <2>1. CASE \E j \in Cells(h, p) : h.name[j] = m
    <3>1. PICK j \in Cells(h, p) : h.name[j] = m
      BY <2>1
    <3>2. j \in Cells(g, p) /\ g.name[j] = m /\ g.value[j] = h.value[j]
      BY <1>3, <3>1
    <3> QED BY <1>1, <3>1, <3>2, ValIs
  <2>2. CASE \A j \in Cells(h, p) : h.name[j] # m
    <3>1. \A j \in Cells(g, p) : g.name[j] # m
      BY <1>3, <2>2
    <3> QED BY <2>2, <3>1, ValIs
  <2> QED BY <2>1, <2>2
<1> QED BY <1>1, <1>2, <1>3 DEF Sets

\* Without the item of that name, the field is gone.
LEMMA FieldDeleted ==
  ASSUME NEW h, NEW O, WellFormed(h, O), NEW p \in O, Distinct(h, p),
         NEW g, WellFormed(g, O), NEW n,
         \A j : j \in Cells(g, p) <=> j \in Cells(h, p) /\ h.name[j] # n,
         \A j \in Cells(h, p) : g.name[j] = h.name[j] /\ g.value[j] = h.value[j]
  PROVE  Sets(h, g, p, n, 0)
<1>1. Distinct(g, p)
  BY DEF Distinct
<1>2. Val(g, p, n) = 0
  BY ValIs
<1>3. ASSUME NEW m, m # n PROVE Val(g, p, m) = Val(h, p, m)
  <2>1. CASE \E j \in Cells(h, p) : h.name[j] = m
    <3>1. PICK j \in Cells(h, p) : h.name[j] = m
      BY <2>1
    <3>2. j \in Cells(g, p) /\ g.name[j] = m /\ g.value[j] = h.value[j]
      BY <1>3, <3>1
    <3> QED BY <1>1, <3>1, <3>2, ValIs
  <2>2. CASE \A j \in Cells(h, p) : h.name[j] # m
    <3>1. \A j \in Cells(g, p) : g.name[j] # m
      BY <1>3, <2>2
    <3> QED BY <2>2, <3>1, ValIs
  <2> QED BY <2>1, <2>2
<1> QED BY <1>1, <1>2, <1>3 DEF Sets

\* A new item, not yet in a list.
Beside(h, g, p, r, n, v) ==
  /\ g \in Heaps /\ r \in Items /\ r # 0 /\ r \notin h.live
  /\ g.live = h.live \cup {r} /\ r \notin Cells(h, p) /\ r # p
  /\ g.name[r] = n /\ g.value[r] = v /\ g.next[r] = 0 /\ g.child[r] = 0
  /\ SameOutside(h, g, p, {r})
  /\ ListOf(g, p, Children(h, p))
  /\ \A j \in Cells(h, p) : g.child[j] = 0 /\ j # p /\ g.name[j] = h.name[j]

\* A new item is beside every list.
LEMMA NewBeside ==
  ASSUME NEW h, NEW O, WellFormed(h, O), NEW p \in O, NEW g, NEW r, NEW n, NEW v, Made(h, g, r, n, v)
  PROVE  Beside(h, g, p, r, n, v)
<1> DEFINE s == Children(h, p)
<1>1. /\ h \in Heaps /\ p \in Items /\ p \in h.live /\ ListOf(h, p, s)
      /\ ToSet(s) \subseteq h.live /\ ToSet(s) \subseteq Items /\ p \notin ToSet(s)
      /\ \A j \in ToSet(s) : h.child[j] = 0
  BY ListCells DEF Cells, WellFormed
<1>2. /\ g \in Heaps /\ r \in Items \ h.live /\ g.live = h.live \cup {r}
      /\ g.name[r] = n /\ g.value[r] = v /\ g.next[r] = 0 /\ g.prev[r] = 0 /\ g.child[r] = 0
      /\ SameOutside(h, g, p, {r}) /\ SameOutside(h, g, r, {r})
  BY <1>1 DEF Made
<1>3. r \notin ToSet(s) /\ r # p /\ r # 0
  BY <1>1, <1>2, ItemsAre
<1>4. \A j \in ToSet(s) : /\ j # r /\ g.next[j] = h.next[j] /\ g.prev[j] = h.prev[j]
                          /\ g.child[j] = h.child[j] /\ g.name[j] = h.name[j]
  BY <1>1, <1>2, <1>3 DEF SameOutside
<1>5. g.child[p] = h.child[p]
  BY <1>1, <1>2, <1>3 DEF SameOutside
<1> HIDE DEF s
<1>6. ListOf(g, p, s)
  BY <1>1, <1>2, <1>4, <1>5, ListKept
<1> QED BY <1>1, <1>2, <1>3, <1>4, <1>6 DEF s, Cells, Beside

\* cJSON_AddItemToObject with a new item r.
AddedNew(h, g, O, p, r, n, v) ==
  /\ Edited(h, g, O, p, Append(Children(h, p), r))
  /\ r \notin h.live /\ r \in Items /\ r # 0 /\ g.live = h.live \cup {r}
  /\ g.name[r] = n /\ g.value[r] = v
  /\ \A j : j \in Cells(g, p) <=> j = r \/ j \in Cells(h, p)
  /\ \A j \in Cells(h, p) : g.name[j] = h.name[j] /\ g.value[j] = h.value[j]

\* A field is added behind the others.
LEMMA AddNewIs ==
  ASSUME NEW h, NEW O, WellFormed(h, O), NEW p \in O, NEW n \in AllNames, NEW v \in Nat, Room(h, 1)
  PROVE  AddedNew(h, AddNew(h, p, n, v), O, p, Fresh(h), n, v)
<1> DEFINE m == New(h, n, v)
           r == Fresh(h)
           s == Children(h, p)
           t == Append(s, r)
           g == AddItem(m, p, r)
<1>3. AddNew(h, p, n, v) = g
  BY DEF AddNew
<1>2. h \in Heaps /\ p \in Items /\ s \in Seq(Items) /\ Cells(h, p) \subseteq h.live /\ Cells(h, p) \subseteq Items
  BY ListCells
<1>0. Made(h, m, r, n, v)
  BY <1>2, NewItem
<1> HIDE DEF m, r
<1>1. /\ m \in Heaps /\ r \in Items /\ r # 0 /\ r \notin h.live
      /\ m.live = h.live \cup {r} /\ r \notin Cells(h, p) /\ r # p
      /\ m.name[r] = n /\ m.value[r] = v /\ m.next[r] = 0 /\ m.child[r] = 0
      /\ SameOutside(h, m, p, {r})
      /\ ListOf(m, p, s)
      /\ \A j \in Cells(h, p) : m.child[j] = 0 /\ j # p /\ m.name[j] = h.name[j]
  <2>1. Beside(h, m, p, r, n, v)
    BY <1>0, NewBeside
  <2> HIDE DEF s
  <2> QED BY <2>1 DEF s, Beside
<1>10. Cells(h, p) = ToSet(s)
  BY DEF Cells
<1> HIDE DEF s
<1>4. Relisted(m, g, p, t, ToSet(s) \cup {r}) /\ g.live = m.live
  <2>1. m \in Heaps /\ p \in Items /\ ListOf(m, p, s) /\ r \in Items /\ r \notin ToSet(s) /\ m.next[r] = 0
    BY <1>1, <1>2, <1>10
  <2> QED BY <2>1, AddItemIs
<1> HIDE DEF g
<1>5. \A j : j \in ToSet(t) <=> j = r \/ j \in ToSet(s)
  <2>1. /\ t \in Seq(Items) /\ DOMAIN t = 1 .. Len(s) + 1 /\ t[Len(s) + 1] = r
        /\ \A k \in DOMAIN s : t[k] = s[k] /\ k \in DOMAIN t
        /\ \A k \in DOMAIN t : k = Len(s) + 1 \/ k \in DOMAIN s
        /\ Len(s) + 1 \in DOMAIN t
    BY <1>1, <1>2
  <2> HIDE DEF t
  <2> QED BY <2>1 DEF ToSet
<1> HIDE DEF t
<1>6. SameOutside(h, g, p, ToSet(s) \cup ToSet(t))
  BY <1>1, <1>4, <1>5 DEF SameOutside, Relisted
<1>7. \A j \in ToSet(t) : g.child[j] = 0
  BY <1>1, <1>2, <1>4, <1>5, <1>10 DEF Relisted
<1>8. \A j \in ToSet(t) : j \in ToSet(s) \/ j \notin h.live
  BY <1>1, <1>5
<1>9. g.live = (h.live \ ToSet(s)) \cup ToSet(t)
  BY <1>1, <1>2, <1>4, <1>5, <1>10
<1>11. Edited(h, g, O, p, t)
  BY <1>4, <1>6, <1>7, <1>8, <1>9, <1>10, EditIs DEF Relisted
<1>12. Cells(g, p) = ToSet(t)
  BY <1>11 DEF Edited, Cells
<1>13. \A j \in ToSet(s) : g.name[j] = h.name[j] /\ g.value[j] = h.value[j]
  BY <1>1, <1>2, <1>4, <1>10 DEF SameOutside, Relisted
<1>14. g.name[r] = n /\ g.value[r] = v /\ g.live = h.live \cup {r}
  BY <1>1, <1>4 DEF Relisted
<1>15. \A j : j \in Cells(g, p) <=> j = r \/ j \in Cells(h, p)
  BY <1>5, <1>10, <1>12
<1>16. AddedNew(h, g, O, p, r, n, v)
  BY <1>1, <1>10, <1>11, <1>13, <1>14, <1>15 DEF s, t, AddedNew
<1> QED BY <1>3, <1>16 DEF r

\* cJSON_ReplaceItemInObject with a new item r, of a name that is there.
ReplacedBy(h, g, O, p, r, n, v) ==
  /\ \E s : Edited(h, g, O, p, s)
  /\ r \notin h.live /\ r \in Items /\ r # 0
  /\ g.name[r] = n /\ g.value[r] = v
  /\ \A j : j \in Cells(g, p) <=> j = r \/ (j \in Cells(h, p) /\ j # Find(h, p, n))
  /\ \A j \in Cells(h, p) : g.name[j] = h.name[j] /\ g.value[j] = h.value[j]

\* A new item takes the place of the one of that name.
LEMMA ReplaceNewIs ==
  ASSUME NEW h, NEW O, WellFormed(h, O), NEW p \in O, NEW n \in AllNames, NEW v \in Nat, Room(h, 1),
         Find(h, p, n) # 0
  PROVE  ReplacedBy(h, ReplaceNew(h, p, n, v), O, p, Fresh(h), n, v)
<1> DEFINE m == New(h, n, v)
           r == Fresh(h)
           s == Children(h, p)
<1>2. h \in Heaps /\ p \in Items /\ s \in Seq(Items) /\ Cells(h, p) \subseteq h.live /\ Cells(h, p) \subseteq Items
  BY ListCells
<1>0. Made(h, m, r, n, v)
  BY <1>2, NewItem
<1>3. PICK k \in DOMAIN s : h.name[s[k]] = n /\ Find(h, p, n) = s[k] /\ s[k] # 0
  BY <1>2, FindIs
<1> DEFINE t == With(s, k, r)
           g == ReplaceItem(m, p, s[k], r)
<1>4. ReplaceNew(h, p, n, v) = g
  BY <1>3 DEF ReplaceNew
<1> HIDE DEF m, r
<1>1. /\ m \in Heaps /\ r \in Items /\ r # 0 /\ r \notin h.live
      /\ m.live = h.live \cup {r} /\ r \notin Cells(h, p) /\ r # p
      /\ m.name[r] = n /\ m.value[r] = v /\ m.next[r] = 0 /\ m.child[r] = 0
      /\ SameOutside(h, m, p, {r})
      /\ ListOf(m, p, s)
      /\ \A j \in Cells(h, p) : m.child[j] = 0 /\ j # p /\ m.name[j] = h.name[j]
  <2>1. Beside(h, m, p, r, n, v)
    BY <1>0, NewBeside
  <2> HIDE DEF s
  <2> QED BY <2>1 DEF s, Beside
<1>12. Cells(h, p) = ToSet(s)
  BY DEF Cells
<1> HIDE DEF s
<1>5. s[k] \in ToSet(s) /\ \A a, b \in DOMAIN s : s[a] = s[b] => a = b
  BY <1>1, <1>2, ListParts DEF ToSet
<1>6. Relisted(m, g, p, t, ToSet(s) \cup {r}) /\ g.live = m.live \ {s[k]}
  <2>1. m.child[s[k]] = 0 /\ s[k] # p
    BY <1>1, <1>5, <1>12
  <2>2. m \in Heaps /\ p \in Items /\ ListOf(m, p, s) /\ k \in DOMAIN s /\ r \in Items /\ r \notin ToSet(s)
    BY <1>1, <1>2, <1>12
  <2> HIDE DEF t
  <2>3. Relisted(m, ReplaceItem(m, p, s[k], r), p, With(s, k, r), ToSet(s) \cup {r})
    BY <2>1, <2>2, ReplaceItemIs
  <2>4. Freed(m, ReplaceItem(m, p, s[k], r), s[k])
    BY <2>1, <2>2, ReplaceItemIs
  <2> QED BY <2>3, <2>4 DEF t, Freed
<1> HIDE DEF g
<1>7. \A j : j \in ToSet(t) <=> j = r \/ (j \in ToSet(s) /\ j # s[k])
  <2>1. DOMAIN t = DOMAIN s /\ \A a \in DOMAIN s : t[a] = IF a = k THEN r ELSE s[a]
    BY <1>2 DEF With
  <2> HIDE DEF t
  <2> QED BY <1>5, <2>1 DEF ToSet
<1> HIDE DEF t
<1>8. SameOutside(h, g, p, ToSet(s) \cup ToSet(t))
  BY <1>1, <1>6, <1>7 DEF SameOutside, Relisted
<1>9. \A j \in ToSet(t) : g.child[j] = 0
  BY <1>1, <1>2, <1>6, <1>7, <1>12 DEF Relisted
<1>10. \A j \in ToSet(t) : j \in ToSet(s) \/ j \notin h.live
  BY <1>1, <1>7
<1>11. g.live = (h.live \ ToSet(s)) \cup ToSet(t)
  BY <1>1, <1>2, <1>5, <1>6, <1>7, <1>12
<1>13. Edited(h, g, O, p, t)
  BY <1>6, <1>8, <1>9, <1>10, <1>11, <1>12, EditIs DEF Relisted
<1>14. Cells(g, p) = ToSet(t)
  BY <1>13 DEF Edited, Cells
<1>15. \A j \in ToSet(s) : g.name[j] = h.name[j] /\ g.value[j] = h.value[j]
  BY <1>1, <1>2, <1>6, <1>12 DEF SameOutside, Relisted
<1>16. g.name[r] = n /\ g.value[r] = v
  BY <1>1, <1>6 DEF Relisted
<1>17. \A j : j \in Cells(g, p) <=> j = r \/ (j \in Cells(h, p) /\ j # Find(h, p, n))
  BY <1>3, <1>7, <1>12, <1>14
<1>18. ReplacedBy(h, g, O, p, r, n, v)
  BY <1>1, <1>12, <1>13, <1>15, <1>16, <1>17 DEF ReplacedBy
<1> QED BY <1>4, <1>18 DEF r

\* A field is replaced, or added.
LEMMA FieldWritten ==
  ASSUME NEW h, NEW O, WellFormed(h, O), NEW p \in O, Distinct(h, p), NEW n \in AllNames, NEW v \in Nat,
         Room(h, 1)
  PROVE  /\ \E s : Edited(h, WriteField(h, p, n, v), O, p, s)
         /\ Sets(h, WriteField(h, p, n, v), p, n, v)
<1> DEFINE g == WriteField(h, p, n, v)
           r == Fresh(h)
<1>0. Children(h, p) \in Seq(Items) /\ Cells(h, p) \subseteq h.live
  BY ListCells
<1>1. /\ \E s : Edited(h, g, O, p, s)
      /\ r \notin h.live /\ r # 0 /\ g.name[r] = n /\ g.value[r] = v
      /\ \A j : j \in Cells(g, p) <=> j = r \/ (j \in Cells(h, p) /\ h.name[j] # n)
      /\ \A j \in Cells(h, p) : g.name[j] = h.name[j] /\ g.value[j] = h.value[j]
  <2>1. CASE Find(h, p, n) = 0
    <3>1. g = AddNew(h, p, n, v)
      BY <2>1 DEF WriteField
    <3>2. \A j \in Cells(h, p) : h.name[j] # n
      BY <1>0, <2>1, FoundCell
    <3>3. AddedNew(h, g, O, p, r, n, v)
      BY <3>1, AddNewIs
    <3> HIDE DEF g, r
    <3> QED BY <3>2, <3>3 DEF AddedNew
  <2>2. CASE Find(h, p, n) # 0
    <3>1. g = ReplaceNew(h, p, n, v)
      BY <2>2 DEF WriteField
    <3>2. \A j \in Cells(h, p) : j # Find(h, p, n) <=> h.name[j] # n
      BY <1>0, <2>2, FoundCell DEF Distinct
    <3>3. ReplacedBy(h, g, O, p, r, n, v)
      BY <2>2, <3>1, ReplaceNewIs
    <3> HIDE DEF g, r
    <3> QED BY <3>2, <3>3 DEF ReplacedBy
  <2> QED BY <2>1, <2>2
<1> HIDE DEF g, r
<1>2. WellFormed(g, O) /\ r \notin Cells(h, p)
  BY <1>0, <1>1 DEF Edited
<1>3. Sets(h, g, p, n, v)
  BY <1>1, <1>2, FieldSet
<1> QED BY <1>1, <1>3 DEF g

\* A field is deleted.
LEMMA FieldRemoved ==
  ASSUME NEW h, NEW O, WellFormed(h, O), NEW p \in O, Distinct(h, p), NEW n, Find(h, p, n) # 0
  PROVE  /\ \E s : Edited(h, DeleteItem(h, p, n), O, p, s)
         /\ Sets(h, DeleteItem(h, p, n), p, n, 0)
<1> DEFINE s == Children(h, p)
<1>1. /\ h \in Heaps /\ p \in Items /\ s \in Seq(Items) /\ ListOf(h, p, s)
      /\ ToSet(s) \subseteq h.live /\ ToSet(s) \subseteq Items /\ p \notin ToSet(s)
      /\ \A j \in ToSet(s) : h.child[j] = 0
  BY ListCells DEF Cells, WellFormed
<1>2. PICK k \in DOMAIN s : h.name[s[k]] = n /\ Find(h, p, n) = s[k] /\ s[k] # 0
  BY <1>1, FindIs
<1> DEFINE t == Without(s, k)
           g == Delete(Detach(h, p, s[k]), s[k])
<1>3. DeleteItem(h, p, n) = g
  BY <1>2 DEF DeleteItem
<1>4. /\ s[k] \in ToSet(s) /\ s[k] # p /\ h.child[s[k]] = 0
      /\ \A a, b \in DOMAIN s : s[a] = s[b] => a = b
  <2>1. s[k] \in ToSet(s)
    BY DEF ToSet
  <2> QED BY <1>1, <2>1, ListParts
<1>5. Cells(h, p) = ToSet(s)
  BY DEF Cells
<1> HIDE DEF s
<1>6. Relisted(h, g, p, t, ToSet(s)) /\ g.live = h.live \ {s[k]}
  BY <1>1, <1>4, DetachItemIs DEF Freed
<1> HIDE DEF g
<1>7. \A j : j \in ToSet(t) <=> j \in ToSet(s) /\ j # s[k]
  <2>1. Len(s) \in Nat /\ DOMAIN s = 1 .. Len(s) /\ k \in 1 .. Len(s) /\ k \in Nat
    BY <1>1
  <2>2. /\ DOMAIN t = 1 .. Len(s) - 1
        /\ \A a \in 1 .. Len(s) - 1 : t[a] = IF a < k THEN s[a] ELSE s[a + 1]
    BY DEF Without
  <2> HIDE DEF t
  <2>3. ASSUME NEW j \in ToSet(t) PROVE j \in ToSet(s) /\ j # s[k]
    <3>1. PICK a \in 1 .. Len(s) - 1 : t[a] = j
      BY <2>2 DEF ToSet
    <3>2. CASE a < k
      <4>1. a \in DOMAIN s /\ a # k /\ j = s[a]
        BY <2>1, <2>2, <3>1, <3>2
      <4> QED BY <1>4, <4>1 DEF ToSet
    <3>3. CASE ~(a < k)
      <4>1. a + 1 \in DOMAIN s /\ a + 1 # k /\ j = s[a + 1]
        BY <2>1, <2>2, <3>1, <3>3
      <4> QED BY <1>4, <4>1 DEF ToSet
    <3> QED BY <3>2, <3>3
  <2>4. ASSUME NEW j \in ToSet(s), j # s[k] PROVE j \in ToSet(t)
    <3>1. PICK a \in 1 .. Len(s) : s[a] = j
      BY <2>1 DEF ToSet
    <3>2. CASE a < k
      <4>1. a \in 1 .. Len(s) - 1 /\ t[a] = j
        BY <2>1, <2>2, <3>1, <3>2
      <4> QED BY <2>2, <4>1 DEF ToSet
    <3>3. CASE ~(a < k)
      <4>1. a - 1 \in 1 .. Len(s) - 1 /\ ~(a - 1 < k) /\ a - 1 + 1 = a
        <5>1. a # k
          BY <2>4, <3>1
        <5> QED BY <2>1, <3>3, <5>1
      <4>2. t[a - 1] = j
        BY <2>2, <3>1, <4>1
      <4> QED BY <2>2, <4>1, <4>2 DEF ToSet
    <3> QED BY <3>2, <3>3
  <2> QED BY <2>3, <2>4
<1> HIDE DEF t
<1>8. SameOutside(h, g, p, ToSet(s) \cup ToSet(t))
  BY <1>6, <1>7 DEF SameOutside, Relisted
<1>9. \A j \in ToSet(t) : g.child[j] = 0
  BY <1>1, <1>6, <1>7 DEF Relisted
<1>10. \A j \in ToSet(t) : j \in ToSet(s) \/ j \notin h.live
  BY <1>7
<1>11. g.live = (h.live \ ToSet(s)) \cup ToSet(t)
  BY <1>1, <1>4, <1>6, <1>7
<1>12. Edited(h, g, O, p, t)
  BY <1>5, <1>6, <1>8, <1>9, <1>10, <1>11, EditIs DEF Relisted
<1>13. WellFormed(g, O) /\ Cells(g, p) = ToSet(t)
  BY <1>12 DEF Edited, Cells
<1>14. \A j \in Cells(h, p) : j = s[k] <=> h.name[j] = n
  BY <1>2, <1>4, <1>5 DEF Distinct
<1>15. \A j : j \in Cells(g, p) <=> j \in Cells(h, p) /\ h.name[j] # n
  BY <1>5, <1>7, <1>13, <1>14
<1>16. \A j \in Cells(h, p) : g.name[j] = h.name[j] /\ g.value[j] = h.value[j]
  BY <1>6 DEF Relisted
<1>17. Sets(h, g, p, n, 0)
  BY <1>13, <1>15, <1>16, FieldDeleted
<1> QED BY <1>3, <1>12, <1>17
-----------------------------------------------------------------------------
(* Objects that stay as they are, objects that are made, filled and deleted. *)

\* The objects of P have the fields they had.
SameFields(h, g, P) ==
  \A q \in P : /\ Children(g, q) = Children(h, q)
               /\ \A j \in Cells(h, q) : /\ g.name[j] = h.name[j] /\ g.value[j] = h.value[j]
                                        /\ g.next[j] = h.next[j]

\* The items of P have the names and the links they had.
SameLinks(h, g, P) ==
  \A j \in P : g.next[j] = h.next[j] /\ g.prev[j] = h.prev[j] /\ g.name[j] = h.name[j]

\* With the same list an object has the same fields.
LEMMA SameVal ==
  ASSUME NEW h, NEW g, NEW P, SameFields(h, g, P), NEW p \in P, Children(h, p) \in Seq(Items)
  PROVE  /\ Cells(g, p) = Cells(h, p)
         /\ Distinct(h, p) => Distinct(g, p)
         /\ \A n : Val(g, p, n) = Val(h, p, n)
<1>1. /\ Children(g, p) = Children(h, p) /\ Cells(g, p) = Cells(h, p)
      /\ \A j \in Cells(h, p) : g.name[j] = h.name[j] /\ g.value[j] = h.value[j]
  BY DEF SameFields, Cells
<1>2. Distinct(h, p) => Distinct(g, p)
  BY <1>1 DEF Distinct
<1>3. ASSUME NEW n PROVE Find(g, p, n) = Find(h, p, n) /\ Val(g, p, n) = Val(h, p, n)
  <2> DEFINE c == Children(h, p)
  <2>1. \A k \in DOMAIN c : c[k] \in Cells(h, p)
    BY DEF Cells, ToSet
  <2>2. {k \in DOMAIN c : g.name[c[k]] = n} = {k \in DOMAIN c : h.name[c[k]] = n}
    BY <1>1, <2>1
  <2>3. Find(g, p, n) = Find(h, p, n)
    BY <1>1, <2>2 DEF Find
  <2>4. Find(h, p, n) = 0 \/ Find(h, p, n) \in Cells(h, p)
    BY FoundCell
  <2> QED BY <1>1, <2>3, <2>4 DEF Val
<1> QED BY <1>1, <1>2, <1>3

\* Of the objects of O nothing has changed but the list of p.
AllBut(h, g, O, p) ==
  /\ WellFormed(g, O) /\ SameFields(h, g, O \ {p}) /\ SameLinks(h, g, O \cup {1, 3})
  /\ \A j \in O \cup {1, 3} : j # p => g.child[j] = h.child[j]

\* An edited list leaves all objects but its own.
LEMMA EditedSame ==
  ASSUME NEW h, NEW g, NEW O, NEW p, NEW s, Edited(h, g, O, p, s)
  PROVE  AllBut(h, g, O, p)
BY DEF Edited, SameFields, SameLinks, Cells, AllBut

\* A new object, without a child.
BesideObject(h, g, O, r) ==
  /\ WellFormed(g, O \cup {r}) /\ Children(g, r) = << >> /\ Cells(g, r) = {}
  /\ SameFields(h, g, O)
  /\ SameLinks(h, g, O \cup {1, 3})
  /\ \A j \in O \cup {1, 3} : g.child[j] = h.child[j]
  /\ r \notin O \cup {1, 3}

\* A new item is an object without a field.
LEMMA ObjectMade ==
  ASSUME NEW h, NEW O, WellFormed(h, O), NEW g, NEW r, NEW n, NEW v, Made(h, g, r, n, v)
  PROVE  BesideObject(h, g, O, r)
<1>1. /\ h \in Heaps /\ O \subseteq Items /\ O \cup {1, 3} \subseteq h.live /\ h.live \subseteq Items
      /\ \A p \in O : Cells(h, p) \subseteq h.live
  BY HeapParts DEF WellFormed
<1>2. /\ g \in Heaps /\ r \in Items /\ r \notin h.live /\ g.live = h.live \cup {r} /\ g.child[r] = 0
      /\ \A j \in Items : j # r => /\ g.next[j] = h.next[j] /\ g.prev[j] = h.prev[j]
                                   /\ g.name[j] = h.name[j] /\ g.value[j] = h.value[j]
                                   /\ g.child[j] = h.child[j]
  BY DEF Made, SameOutside
<1>3. ASSUME NEW p \in O
      PROVE  ListOf(g, p, Children(h, p)) /\ Children(g, p) = Children(h, p)
  <2>1. p \in Items /\ p # r /\ ListOf(h, p, Children(h, p))
    BY <1>1, <1>2 DEF WellFormed
  <2>2. \A j \in ToSet(Children(h, p)) : j \in Items /\ j # r
    BY <1>1, <1>2 DEF Cells
  <2> QED BY <1>1, <1>2, <2>1, <2>2, ListKept
<1>4. ListOf(g, r, << >>) /\ Children(g, r) = << >>
  <2>1. ListOf(g, r, << >>)
    BY <1>2 DEF ListOf, Linked
  <2> QED BY <1>2, <2>1, ListIsChildren
<1>5. Cells(g, r) = {} /\ \A p \in O : Cells(g, p) = Cells(h, p)
  BY <1>3, <1>4 DEF Cells, ToSet
<1>6. \A p \in O : \A j \in Cells(h, p) : j \in Items /\ j # r /\ h.child[j] = 0 /\ j \notin O /\ j \notin {1, 3}
  BY <1>1, <1>2 DEF WellFormed
<1>7. WellFormed(g, O \cup {r})
  <2>1. \A p \in O \cup {r} : ListOf(g, p, Children(g, p))
    BY <1>3, <1>4
  <2>2. \A p \in O \cup {r} : \A j \in Cells(g, p) : g.child[j] = 0 /\ j \notin O \cup {r} /\ j \notin {1, 3}
    BY <1>2, <1>5, <1>6
  <2>3. \A p, q \in O \cup {r} : p # q => Cells(g, p) \cap Cells(g, q) = {}
    BY <1>5 DEF WellFormed
  <2>4. g.live = {1, 3} \cup (O \cup {r}) \cup UNION {Cells(g, p) : p \in O \cup {r}}
    <3>1. UNION {Cells(g, p) : p \in O \cup {r}} = UNION {Cells(h, p) : p \in O}
      BY <1>5
    <3>2. h.live = {1, 3} \cup O \cup UNION {Cells(h, p) : p \in O}
      BY DEF WellFormed
    <3> QED BY <1>2, <3>1, <3>2
  <2> QED BY <1>1, <1>2, <2>1, <2>2, <2>3, <2>4 DEF WellFormed
<1>8. SameFields(h, g, O)
  BY <1>2, <1>3, <1>6 DEF SameFields
<1>9. SameLinks(h, g, O \cup {1, 3}) /\ \A j \in O \cup {1, 3} : g.child[j] = h.child[j]
  <2>1. \A j \in O \cup {1, 3} : j \in Items /\ j # r
    BY <1>1, <1>2
  <2> QED BY <1>2, <2>1 DEF SameLinks
<1> QED BY <1>1, <1>2, <1>4, <1>5, <1>7, <1>8, <1>9 DEF BesideObject

\* A closed set that the object is in has its fields.
LEMMA ClosedHasFields ==
  ASSUME NEW h \in Heaps, NEW p, NEW s, Linked(h, h.child[p], s), NEW X, Closed(h, X), p \in X
  PROVE  ToSet(s) \subseteq X
<1>0. s \in Seq(Items) /\ Len(s) \in Nat /\ DOMAIN s = 1 .. Len(s) /\ \A k \in DOMAIN s : s[k] # 0
  BY ItemsAre DEF Linked
<1> DEFINE Z == {m \in 0 .. Len(s) : m = 0 \/ s[m] \in X}
<1>8. Len(s) \in Nat
  BY <1>0
<1>1. 0 \in Z
  BY <1>0
<1>2. ASSUME NEW m \in 0 .. Len(s) - 1, m \in Z PROVE m + 1 \in Z
  <2>0. m + 1 \in 1 .. Len(s) /\ m \in Nat /\ m + 1 \in 0 .. Len(s) /\ m # Len(s) /\ m + 1 # 0
    BY <1>8
  <2>1. m + 1 \in DOMAIN s
    BY <1>0, <2>0
  <2>2. CASE m = 0
    <3>1. h.child[p] = s[1] /\ s[1] # 0
      BY <1>0, <2>1, <2>2 DEF Linked
    <3>2. s[1] \in X
      BY <3>1 DEF Closed
    <3> QED BY <2>0, <2>2, <3>2
  <2>3. CASE m # 0
    <3>0. m \in 1 .. Len(s)
      BY <1>8, <2>0, <2>3
    <3>1. m \in DOMAIN s /\ s[m] \in X
      BY <1>0, <1>2, <2>3, <3>0
    <3>2. h.next[s[m]] = s[m + 1] /\ s[m + 1] # 0
      BY <1>0, <2>0, <2>1, <3>1 DEF Linked
    <3>3. s[m + 1] \in X
      BY <3>1, <3>2 DEF Closed
    <3> QED BY <2>0, <3>3
  <2> QED BY <2>2, <2>3
<1>3. 0 .. Len(s) \subseteq Z
  <2> HIDE DEF Z
  <2> QED BY <1>0, <1>1, <1>2, Induction
<1>4. \A k \in DOMAIN s : s[k] \in X
  BY <1>0, <1>3
<1> QED BY <1>4 DEF ToSet

\* cJSON_Delete of an object without a successor frees it and its fields.
Gone(h, g, O, p) ==
  /\ WellFormed(g, O \ {p}) /\ SameFields(h, g, O \ {p})
  /\ SameLinks(h, g, Items) /\ g.child = h.child

\* It does so.
LEMMA ObjectDeleted ==
  ASSUME NEW h, NEW O, WellFormed(h, O), NEW p \in O, p \notin {1, 3}, h.next[p] = 0
  PROVE  Gone(h, Delete(h, p), O, p)
<1> DEFINE g == Delete(h, p)
           s == Children(h, p)
           X == {p} \cup Cells(h, p)
<1>1. h \in Heaps /\ p \in Items /\ s \in Seq(Items) /\ ListOf(h, p, s) /\ Cells(h, p) \subseteq Items
  BY ListCells
<1>2. Closed(h, X) /\ X \in SUBSET Items
  <2>1. /\ Len(s) \in Nat /\ DOMAIN s = 1 .. Len(s)
        /\ h.child[p] = IF s = << >> THEN 0 ELSE s[1]
        /\ \A k \in DOMAIN s : h.next[s[k]] = IF k = Len(s) THEN 0 ELSE s[k + 1]
    BY <1>1, ListParts
  <2>2. h.child[p] \in Cells(h, p) \cup {0}
    <3>1. s # << >> => 1 \in DOMAIN s
      BY <1>1, <2>1
    <3> QED BY <2>1, <3>1 DEF Cells, ToSet
  <2>3. ASSUME NEW j \in Cells(h, p) PROVE h.next[j] \in Cells(h, p) \cup {0} /\ h.child[j] = 0
    <3>1. PICK k \in DOMAIN s : s[k] = j
      BY DEF Cells, ToSet
    <3>2. k # Len(s) => k + 1 \in DOMAIN s
      BY <2>1
    <3>3. h.next[j] \in Cells(h, p) \cup {0}
      BY <2>1, <3>1, <3>2 DEF Cells, ToSet
    <3> QED BY <3>3 DEF WellFormed
  <2> QED BY <1>1, <2>2, <2>3 DEF Closed
<1>3. Reach(h, p) = X
  <2>1. Reach(h, p) \subseteq X
    <3>1. p \in X \cup {0}
      OBVIOUS
    <3> HIDE DEF X
    <3> QED BY <1>1, <1>2, <3>1, ReachInside
  <2>2. p \in Reach(h, p) /\ Closed(h, Reach(h, p))
    BY <1>1, ReachClosed
  <2>3. Cells(h, p) \subseteq Reach(h, p)
    <3>1. Linked(h, h.child[p], s)
      BY <1>1 DEF ListOf
    <3> HIDE DEF s
    <3>2. ToSet(s) \subseteq Reach(h, p)
      BY <1>1, <2>2, <3>1, ClosedHasFields
    <3> QED BY <3>2 DEF Cells, s
  <2> QED BY <2>1, <2>2, <2>3
<1>4. g = [next |-> h.next, prev |-> h.prev, child |-> h.child, value |-> h.value,
           name |-> h.name, live |-> h.live \ X]
  <2>1. h = [next |-> h.next, prev |-> h.prev, child |-> h.child, value |-> h.value,
             name |-> h.name, live |-> h.live]
    BY <1>1, HeapParts
  <2>2. g = [h EXCEPT !.live = h.live \ X]
    <3> HIDE DEF X
    <3> QED BY <1>3 DEF Delete
  <2> HIDE DEF g, X
  <2> QED BY <2>1, <2>2
<1>5. /\ g \in Heaps /\ g.next = h.next /\ g.prev = h.prev /\ g.child = h.child
      /\ g.value = h.value /\ g.name = h.name /\ g.live = h.live \ X
  <2> HIDE DEF g, X
  <2>1. /\ g.next = h.next /\ g.prev = h.prev /\ g.child = h.child
        /\ g.value = h.value /\ g.name = h.name /\ g.live = h.live \ X
    BY <1>4
  <2>2. g \in Heaps
    BY <1>1, <1>4 DEF Heaps
  <2> QED BY <2>1, <2>2
<1> HIDE DEF g
<1>6. \A q \in O : ListOf(g, q, Children(h, q)) /\ Children(g, q) = Children(h, q)
  <2> TAKE q \in O
  <2>1. q \in Items /\ ListOf(h, q, Children(h, q))
    BY DEF WellFormed
  <2> QED BY <1>1, <1>5, <2>1, ListKept
<1>7. \A q \in O : Cells(g, q) = Cells(h, q)
  BY <1>6 DEF Cells
<1>8. WellFormed(g, O \ {p})
  <2>1. \A q \in O \ {p} : ListOf(g, q, Children(g, q))
    BY <1>6
  <2>2. \A q \in O \ {p} : \A j \in Cells(g, q) : g.child[j] = 0 /\ j \notin O \ {p} /\ j \notin {1, 3}
    BY <1>5, <1>7 DEF WellFormed
  <2>3. \A q, r \in O \ {p} : q # r => Cells(g, q) \cap Cells(g, r) = {}
    BY <1>7 DEF WellFormed
  <2>4. g.live = {1, 3} \cup (O \ {p}) \cup UNION {Cells(g, q) : q \in O \ {p}}
    <3>1. ASSUME NEW j PROVE j \in g.live <=> j \in {1, 3} \cup (O \ {p}) \cup UNION {Cells(g, q) : q \in O \ {p}}
      <4>1. j \in g.live <=> j \in h.live /\ j # p /\ j \notin Cells(h, p)
        BY <1>5
      <4>2. j \in h.live <=> j \in {1, 3} \/ j \in O \/ \E q \in O : j \in Cells(h, q)
        BY DEF WellFormed
      <4>3. j \in UNION {Cells(g, q) : q \in O \ {p}} <=> \E q \in O : q # p /\ j \in Cells(h, q)
        BY <1>7
      <4>4. \A q \in O : q # p /\ j \in Cells(h, q) => j \notin Cells(h, p) /\ j # p
        BY DEF WellFormed
      <4>5. j \in {1, 3} \/ j \in O => j \notin Cells(h, p)
        BY DEF WellFormed
      <4> QED BY <4>1, <4>2, <4>3, <4>4, <4>5
    <3> QED BY <3>1
  <2>5. O \ {p} \subseteq Items
    BY DEF WellFormed
  <2> QED BY <1>5, <2>1, <2>2, <2>3, <2>4, <2>5 DEF WellFormed
<1>9. SameFields(h, g, O \ {p}) /\ SameLinks(h, g, Items) /\ g.child = h.child
  BY <1>5, <1>6 DEF SameFields, SameLinks
<1>10. Gone(h, g, O, p)
  BY <1>8, <1>9 DEF Gone
<1> QED BY <1>10 DEF g
-----------------------------------------------------------------------------
(* Lists built by the parser. *)

\* Two changes of a list are one.
LEMMA EditedAgain ==
  ASSUME NEW h, NEW g, NEW k, NEW O, NEW p, NEW s, NEW t, Edited(h, g, O, p, s), Edited(g, k, O, p, t)
  PROVE  Edited(h, k, O, p, t)
<1>1. \A q \in O : q # p => Children(k, q) = Children(h, q)
  BY DEF Edited
<1>2. ASSUME NEW q \in O, q # p, NEW j \in Cells(h, q)
      PROVE  k.name[j] = h.name[j] /\ k.value[j] = h.value[j] /\ k.next[j] = h.next[j]
  <2>1. j \in Cells(g, q)
    BY <1>2 DEF Edited, Cells
  <2> QED BY <1>2, <2>1 DEF Edited
<1>3. \A j \in O \cup {1, 3} : /\ k.next[j] = h.next[j] /\ k.prev[j] = h.prev[j]
                               /\ k.name[j] = h.name[j] /\ k.value[j] = h.value[j]
                               /\ j # p => k.child[j] = h.child[j]
  BY DEF Edited
<1>4. WellFormed(k, O) /\ Children(k, p) = t
  BY DEF Edited
<1> QED BY <1>1, <1>2, <1>3, <1>4, Zenon DEF Edited

\* The number of free items.
Spare(h) == Cardinality(Items \ h.live)

\* A new item is one free item less.
LEMMA SpareLess ==
  ASSUME NEW h \in Heaps, NEW r \in Items, r \notin h.live, NEW g, g.live = h.live \cup {r}
  PROVE  Spare(h) \in Nat /\ Spare(g) \in Nat /\ Spare(g) = Spare(h) - 1
<1>1. IsFiniteSet(Items)
  <2>1. IsFiniteSet(1 .. MaxItems)
    BY ItemsAre, FS_Interval
  <2> QED BY <2>1, ItemsAre
<1>2. IsFiniteSet(Items \ h.live)
  BY <1>1, FS_Subset
<1>3. (Items \ h.live) \ {r} = Items \ g.live /\ r \in Items \ h.live
  OBVIOUS
<1>4. /\ IsFiniteSet((Items \ h.live) \ {r})
      /\ Cardinality((Items \ h.live) \ {r}) = Cardinality(Items \ h.live) - 1
  BY <1>2, <1>3, FS_RemoveElement
<1> QED BY <1>2, <1>3, <1>4, FS_CardinalityType DEF Spare

\* Their number is a number, as there are finitely many items.
LEMMA SpareType ==
  ASSUME NEW h
  PROVE  Spare(h) \in Nat
<1>1. IsFiniteSet(1 .. MaxItems)
  BY ItemsAre, FS_Interval
<1>2. IsFiniteSet(Items \ h.live)
  <2>1. Items \ h.live \subseteq 1 .. MaxItems
    BY ItemsAre
  <2> QED BY <1>1, <2>1, FS_Subset
<1> QED BY <1>2, FS_CardinalityType DEF Spare

\* The first n of the names are in the list of p.
Built(h, g, O, p, names, v, n) ==
  \E s \in Seq(Items) :
    /\ Edited(h, g, O, p, s) /\ Len(s) = n
    /\ \A k \in 1 .. n : g.name[s[k]] = names[k] /\ g.value[s[k]] = v
    /\ Spare(g) = Spare(h) - n

\* One name more is in the list.
LEMMA BuildStep ==
  ASSUME NEW h, NEW O, WellFormed(h, O), NEW p \in O, NEW names \in Seq(AllNames), NEW v \in Nat,
         NEW g, NEW n \in Nat, n < Len(names), Built(h, g, O, p, names, v, n), Room(h, Len(names))
  PROVE  Built(h, AddNew(g, p, names[n + 1], v), O, p, names, v, n + 1)
<1>1. PICK s \in Seq(Items) :
        /\ Edited(h, g, O, p, s) /\ Len(s) = n
        /\ \A k \in 1 .. n : g.name[s[k]] = names[k] /\ g.value[s[k]] = v
        /\ Spare(g) = Spare(h) - n
  BY DEF Built
<1>2. WellFormed(g, O) /\ Children(g, p) = s /\ g \in Heaps
  BY <1>1 DEF Edited, WellFormed
<1>3. names[n + 1] \in AllNames
  <2>1. n + 1 \in 1 .. Len(names)
    BY SMT
  <2> QED BY <2>1
<1>4. Room(g, 1)
  <2>1. Spare(h) \in Nat /\ Spare(g) \in Nat /\ Len(names) \in Nat /\ Len(names) <= Spare(h)
    BY SpareType DEF Room, Spare
  <2>2. 1 <= Spare(g)
    BY <1>1, <2>1
  <2> QED BY <2>2 DEF Room, Spare
<1> DEFINE m == names[n + 1]
           k == AddNew(g, p, m, v)
           r == Fresh(g)
           t == Append(s, r)
<1>5. AddedNew(g, k, O, p, r, m, v)
  <2> HIDE DEF m
  <2>1. m \in AllNames
    BY <1>3 DEF m
  <2> QED BY <1>2, <1>4, <2>1, AddNewIs
<1> HIDE DEF k, r
<1>6. /\ Edited(g, k, O, p, t)
      /\ r \notin g.live /\ r \in Items /\ k.live = g.live \cup {r}
      /\ k.name[r] = m /\ k.value[r] = v
      /\ \A j \in ToSet(s) : k.name[j] = g.name[j] /\ k.value[j] = g.value[j]
  <2> HIDE DEF m
  <2> QED BY <1>2, <1>5 DEF AddedNew, Cells
<1>7. Edited(h, k, O, p, t)
  <2> HIDE DEF t
  <2> QED BY <1>1, <1>6, EditedAgain
<1>8. t \in Seq(Items) /\ Len(t) = n + 1 /\ t[n + 1] = r /\ \A i \in 1 .. n : t[i] = s[i] /\ s[i] \in ToSet(s)
  <2>1. \A i \in 1 .. n : s[i] \in ToSet(s)
    BY <1>1 DEF ToSet
  <2> QED BY <1>1, <1>6, <2>1
<1>9. \A i \in 1 .. n + 1 : k.name[t[i]] = names[i] /\ k.value[t[i]] = v
  <2> HIDE DEF t
  <2> TAKE i \in 1 .. n + 1
  <2>1. CASE i = n + 1
    BY <1>6, <1>8, <2>1
  <2>2. CASE i # n + 1
    <3>1. i \in 1 .. n
      BY <2>2
    <3> HIDE DEF m
    <3> QED BY <1>1, <1>6, <1>8, <3>1
  <2> QED BY <2>1, <2>2
<1>10. Spare(k) = Spare(h) - (n + 1)
  <2>1. Spare(k) = Spare(g) - 1
    BY <1>2, <1>6, SpareLess
  <2> QED BY <1>1, <2>1, SpareType
<1>11. Built(h, k, O, p, names, v, n + 1)
  <2> HIDE DEF t
  <2> QED BY <1>7, <1>8, <1>9, <1>10 DEF Built
<1> QED BY <1>11 DEF k

\* The lists of Build, for each number of names.
Builds(h, p, names, v, w) ==
  w = [n \in 0 .. Len(names) |-> IF n = 0 THEN h ELSE AddNew(w[n - 1], p, names[n], v)]

\* Build fills an empty object with the names in turn.
LEMMA BuildIs ==
  ASSUME NEW h, NEW O, WellFormed(h, O), NEW p \in O, NEW names \in Seq(AllNames), NEW v \in Nat,
         Children(h, p) = << >>, Room(h, Len(names))
  PROVE  Built(h, Build(h, p, names, v), O, p, names, v, Len(names))
<1> DEFINE N == Len(names)
           Next1(n, d) == AddNew(d, p, names[n], v)
           F == [nd \in (1 .. N) \X Heaps |->
                   IF Next1(nd[1], nd[2]) \in Heaps THEN Next1(nd[1], nd[2]) ELSE h]
<1>1. N \in Nat /\ h \in Heaps
  BY DEF WellFormed
<1>2. F \in Rules(N, Heaps)
  <2> HIDE DEF Next1, N
  <2> QED BY <1>1 DEF Rules
<1>3. ASSUME NEW n \in 1 .. N, NEW d \in Heaps
      PROVE  F[<<n, d>>] = IF Next1(n, d) \in Heaps THEN Next1(n, d) ELSE h
  <2> HIDE DEF Next1, N
  <2> QED BY <1>3
<1> HIDE DEF F
<1>4. PICK f : Follows(f, N, Heaps, h, F)
  <2> HIDE DEF N
  <2> QED BY <1>1, <1>2, Recursion
<1> DEFINE Z == {n \in 0 .. N : Built(h, f[n], O, p, names, v, n)}
<1>5. 0 \in Z
  <2>1. f[0] = h
    BY <1>4 DEF Follows
  <2>2. Edited(h, h, O, p, << >>)
    BY DEF Edited
  <2>3. Built(h, h, O, p, names, v, 0)
    <3>1. << >> \in Seq(Items) /\ Len(<< >>) = 0 /\ 1 .. 0 = {}
      OBVIOUS
    <3>2. Spare(h) = Spare(h) - 0
      BY SpareType
    <3> QED BY <2>2, <3>1, <3>2 DEF Built
  <2> QED BY <1>1, <2>1, <2>3
<1>6. ASSUME NEW n \in 0 .. N - 1, n \in Z
      PROVE  n + 1 \in Z /\ f[n + 1] = AddNew(f[n], p, names[n + 1], v)
  <2>1. n \in Nat /\ n < N /\ n + 1 \in 1 .. N /\ n + 1 - 1 = n /\ n + 1 \in 0 .. N /\ n \in 0 .. N
    <3> HIDE DEF N, Z
    <3> QED BY <1>1
  <2>2. Built(h, AddNew(f[n], p, names[n + 1], v), O, p, names, v, n + 1)
    <3>1. Built(h, f[n], O, p, names, v, n)
      BY <1>6
    <3> QED BY <2>1, <3>1, BuildStep
  <2>3. Next1(n + 1, f[n]) \in Heaps
    BY <2>2 DEF Built, Edited, WellFormed
  <2>4. f[n + 1] = F[<<n + 1, f[n]>>] /\ f[n] \in Heaps
    <3> HIDE DEF N
    <3> QED BY <1>4, <2>1 DEF Follows
  <2>5. f[n + 1] = Next1(n + 1, f[n])
    <3> HIDE DEF Next1, N
    <3> QED BY <1>3, <2>1, <2>3, <2>4
  <2> HIDE DEF N
  <2> QED BY <2>1, <2>2, <2>5
<1>7. 0 .. N \subseteq Z
  <2> HIDE DEF Z, N
  <2> QED BY <1>1, <1>5, <1>6, Induction
<1>8. Builds(h, p, names, v, f)
  <2> DEFINE W(n) == IF n = 0 THEN h ELSE AddNew(f[n - 1], p, names[n], v)
  <2>1. ASSUME NEW n \in 0 .. N PROVE f[n] = W(n)
    <3>1. CASE n = 0
      BY <1>4, <3>1 DEF Follows
    <3>2. CASE n # 0
      <4>1. n - 1 \in 0 .. N - 1 /\ n - 1 + 1 = n /\ n - 1 \in 0 .. N
        <5> HIDE DEF N
        <5> QED BY <1>1, <3>2
      <4>2. n - 1 \in Z
        <5> HIDE DEF N, Z
        <5> QED BY <1>7, <4>1
      <4>3. f[n] = AddNew(f[n - 1], p, names[n], v)
        <5> HIDE DEF N, Z
        <5> DEFINE l == n - 1
        <5>1. l \in 0 .. N - 1 /\ l \in Z /\ l + 1 = n
          BY <4>1, <4>2
        <5> HIDE DEF l
        <5>2. f[l + 1] = AddNew(f[l], p, names[l + 1], v)
          BY <1>6, <5>1
        <5> QED BY <5>1, <5>2 DEF l
      <4> QED BY <3>2, <4>3
    <3> QED BY <3>1, <3>2
  <2>2. f = [n \in 0 .. N |-> W(n)]
    <3>1. f = [n \in 0 .. N |-> f[n]]
      BY <1>4 DEF Follows
    <3> HIDE DEF W, N
    <3> QED BY <2>1, <3>1
  <2> QED BY <2>2 DEF Builds
<1> DEFINE built == CHOOSE w : w = [n \in 0 .. Len(names) |-> IF n = 0 THEN h ELSE AddNew(w[n - 1], p, names[n], v)]
<1>9. built = [n \in 0 .. Len(names) |-> IF n = 0 THEN h ELSE AddNew(built[n - 1], p, names[n], v)]
  BY <1>8 DEF Builds
<1>10. Build(h, p, names, v) = built[N]
  BY DEF Build
<1> HIDE DEF built
<1> DEFINE Y == {n \in 0 .. N : built[n] = f[n]}
<1>11. 0 \in Y
  <2>1. built[0] = h
    <3>1. 0 \in 0 .. Len(names)
      BY <1>1
    <3> QED BY <1>9, <3>1
  <2> QED BY <1>1, <1>4, <2>1 DEF Follows
<1>12. ASSUME NEW n \in 0 .. N - 1, n \in Y PROVE n + 1 \in Y
  <2>1. n + 1 \in 0 .. N /\ n + 1 # 0 /\ n + 1 - 1 = n /\ n \in 0 .. N
    <3> HIDE DEF N, Y
    <3> QED BY <1>1
  <2>2. built[n + 1] = AddNew(built[n], p, names[n + 1], v)
    <3>1. \A m \in 0 .. N : built[m] = IF m = 0 THEN h ELSE AddNew(built[m - 1], p, names[m], v)
      BY <1>9
    <3> HIDE DEF N, Y
    <3> QED BY <2>1, <3>1
  <2>3. f[n + 1] = AddNew(f[n], p, names[n + 1], v)
    <3>1. n \in Z
      <4> HIDE DEF N, Y, Z
      <4> QED BY <1>7, <2>1
    <3> HIDE DEF N, Y, Z
    <3> QED BY <1>6, <3>1
  <2>4. built[n] = f[n]
    BY <1>12
  <2> QED BY <2>1, <2>2, <2>3, <2>4
<1>13. 0 .. N \subseteq Y
  <2> HIDE DEF Y, N
  <2> QED BY <1>1, <1>11, <1>12, Induction
<1>14. N \in Y /\ N \in Z
  <2>1. N \in 0 .. N
    BY <1>1
  <2> HIDE DEF N, Y, Z
  <2> QED BY <1>7, <1>13, <2>1
<1> QED BY <1>10, <1>14
-----------------------------------------------------------------------------
(* The tree: app is item 1 and holds the settings, 2, and the status, 3, which holds *)
(* the groups G; the certificates are item 4, and q is a parsed request, if any.     *)

Objects(G, q) == {2, 4} \cup G \cup ({q} \ {0})

Shape(h, G, q) ==
  /\ WellFormed(h, Objects(G, q))
  /\ G \subseteq Items /\ \A g \in G \cup {q} : g \notin {1, 2, 3, 4}
  /\ q \notin G /\ q \in Links
  /\ h.child[1] = 2 /\ h.next[1] = 0 /\ h.next[2] = 3 /\ h.next[3] = 0 /\ h.next[4] = 0
  /\ q # 0 => h.next[q] = 0
  /\ h.child[3] \in G \cup {0}
  /\ \A g \in G : h.next[g] \in G \cup {0} /\ h.prev[g] \in G \cup {0}
  /\ \A p \in {2, 4} \cup G : Distinct(h, p)

\* The objects of P have the fields they had, and the status has its groups.
Untouched(h, g, G, P) ==
  SameFields(h, g, P) /\ SameLinks(h, g, {1, 2, 3, 4} \cup G) /\ g.child[3] = h.child[3]

\* The objects of the tree are items.
LEMMA ShapeParts ==
  ASSUME NEW h, NEW G, NEW q, Shape(h, G, q)
  PROVE  /\ h \in Heaps /\ {1, 2, 3, 4} \subseteq Items /\ G \subseteq Items /\ 0 \notin G
         /\ \A p \in Objects(G, q) : Children(h, p) \in Seq(Items) /\ p # 0 /\ p \in Items
         /\ {2, 4} \cup G \subseteq Objects(G, q) /\ (q # 0 => q \in Objects(G, q))
         /\ 1 \notin Objects(G, q) /\ 3 \notin Objects(G, q)
<1>1. h \in Heaps /\ WellFormed(h, Objects(G, q))
  BY DEF Shape, WellFormed
<1>2. {1, 2, 3, 4} \subseteq Items
  <2>1. {1, 3} \cup Objects(G, q) \subseteq h.live
    BY <1>1 DEF WellFormed
  <2>2. h.live \subseteq Items
    BY <1>1, HeapParts
  <2> QED BY <2>1, <2>2 DEF Objects
<1>3. 1 \notin Objects(G, q) /\ 3 \notin Objects(G, q)
  BY DEF Shape, Objects
<1> QED BY <1>1, <1>2, <1>3, ListCells, ItemsAre DEF Shape, Objects

\* A change of the fields of one object keeps the tree, and the other objects.
LEMMA ShapeEdited ==
  ASSUME NEW h, NEW G, NEW q, Shape(h, G, q), NEW p \in {2, 4} \cup G,
         NEW g, NEW s, Edited(h, g, Objects(G, q), p, s), Distinct(g, p)
  PROVE  /\ Shape(g, G, q)
         /\ Untouched(h, g, G, Objects(G, q) \ {p})
<1> DEFINE O == Objects(G, q)
<1>1. /\ WellFormed(g, O) /\ SameFields(h, g, O \ {p}) /\ SameLinks(h, g, O \cup {1, 3})
      /\ \A j \in O \cup {1, 3} : j # p => g.child[j] = h.child[j]
  <2>1. AllBut(h, g, O, p)
    BY EditedSame
  <2> QED BY <2>1 DEF AllBut
<1>2. {2, 4} \cup G \subseteq O /\ 1 # p /\ 3 # p /\ (q # 0 => q \in O)
      /\ \A r \in O : Children(h, r) \in Seq(Items)
  BY ShapeParts DEF Shape
<1> HIDE DEF O
<1>3. SameLinks(h, g, {1, 2, 3, 4} \cup G) /\ g.child[3] = h.child[3] /\ g.child[1] = h.child[1]
  BY <1>1, <1>2 DEF SameLinks
<1>4. ASSUME NEW r \in {2, 4} \cup G PROVE Distinct(g, r)
  <2>1. CASE r = p
    BY <2>1
  <2>2. CASE r # p
    <3>1. Distinct(h, r) /\ r \in O \ {p} /\ Children(h, r) \in Seq(Items)
      BY <1>2, <2>2 DEF Shape
    <3> QED BY <1>1, <3>1, SameVal
  <2> QED BY <2>1, <2>2
<1>5. Shape(g, G, q)
  <2>1. q # 0 => g.next[q] = h.next[q]
    BY <1>1, <1>2 DEF SameLinks
  <2>2. \A r \in {1, 2, 3, 4} \cup G : g.next[r] = h.next[r] /\ g.prev[r] = h.prev[r]
    BY <1>3 DEF SameLinks
  <2> QED BY <1>1, <1>3, <1>4, <2>1, <2>2 DEF Shape, O
<1> QED BY <1>1, <1>3, <1>5 DEF Untouched, O

\* A new group, not yet in the list.
GroupMade(h, g, G, q, r, n) ==
  /\ Shape(g, G \cup {r}, q) /\ Untouched(h, g, G, Objects(G, q))
  /\ r \notin G /\ r \in Items /\ Cells(g, r) = {} /\ g.name[r] = n /\ g.next[r] = 0

\* A new item is such a group.
LEMMA ShapeGroup ==
  ASSUME NEW h, NEW G, NEW q, Shape(h, G, q), NEW g, NEW r, NEW n, NEW v, Made(h, g, r, n, v)
  PROVE  GroupMade(h, g, G, q, r, n)
<1> DEFINE O == Objects(G, q)
<1>1. /\ WellFormed(g, O \cup {r}) /\ Cells(g, r) = {} /\ SameFields(h, g, O)
      /\ SameLinks(h, g, O \cup {1, 3})
      /\ \A j \in O \cup {1, 3} : g.child[j] = h.child[j]
      /\ r \notin O \cup {1, 3}
  <2>1. BesideObject(h, g, O, r)
    BY ObjectMade DEF Shape
  <2> QED BY <2>1 DEF BesideObject
<1>2. {2, 4} \cup G \subseteq O /\ (q # 0 => q \in O) /\ \A p \in O : Children(h, p) \in Seq(Items)
  BY ShapeParts
<1>3. O \cup {r} = Objects(G \cup {r}, q)
  BY DEF Objects
<1> HIDE DEF O
<1>4. SameLinks(h, g, {1, 2, 3, 4} \cup G) /\ g.child[3] = h.child[3] /\ g.child[1] = h.child[1]
  BY <1>1, <1>2 DEF SameLinks
<1>5. r \in Items /\ r # 0 /\ r \notin {1, 2, 3, 4} /\ r \notin G /\ r # q
      /\ g.next[r] = 0 /\ g.prev[r] = 0 /\ g.name[r] = n
  BY <1>1, <1>2, ItemsAre DEF Made
<1>6. ASSUME NEW p \in {2, 4} \cup (G \cup {r}) PROVE Distinct(g, p)
  <2>1. CASE p = r
    BY <1>1, <2>1 DEF Distinct
  <2>2. CASE p # r
    <3>1. Distinct(h, p) /\ p \in O /\ Children(h, p) \in Seq(Items)
      BY <1>2, <2>2 DEF Shape
    <3> QED BY <1>1, <3>1, SameVal
  <2> QED BY <2>1, <2>2
<1>7. Shape(g, G \cup {r}, q)
  <2>1. q # 0 => g.next[q] = h.next[q]
    BY <1>1, <1>2 DEF SameLinks
  <2>2. \A p \in {1, 2, 3, 4} \cup G : g.next[p] = h.next[p] /\ g.prev[p] = h.prev[p]
    BY <1>4 DEF SameLinks
  <2>3. WellFormed(g, Objects(G \cup {r}, q))
    BY <1>1, <1>3
  <2> QED BY <1>4, <1>5, <1>6, <2>1, <2>2, <2>3 DEF Shape
<1> QED BY <1>1, <1>4, <1>5, <1>7 DEF Untouched, O, GroupMade

\* A parsed request r beside the tree.
LEMMA ShapePosted ==
  ASSUME NEW h, NEW G, Shape(h, G, 0), NEW names \in Seq(AllNames), NEW v \in Nat,
         Room(h, Len(names) + 1)
  PROVE  LET g == Build(New(h, NoName, 0), Fresh(h), names, v)
         IN  /\ Shape(g, G, Fresh(h)) /\ Fresh(h) # 0
             /\ Untouched(h, g, G, {2, 4} \cup G)
<1> DEFINE r == Fresh(h)
           m == New(h, NoName, 0)
           g == Build(m, r, names, v)
           O == Objects(G, 0)
           N == Len(names)
<1>1. h \in Heaps /\ WellFormed(h, O) /\ N \in Nat
  BY ShapeParts DEF Shape
<1>2. N + 1 <= Spare(h) /\ Spare(h) \in Nat
  BY SpareType DEF Room, Spare
<1>3. Room(h, 1)
  <2> HIDE DEF N
  <2>1. 1 <= Spare(h)
    BY <1>1, <1>2
  <2> QED BY <2>1 DEF Room, Spare
<1>4. Made(h, m, r, NoName, 0)
  <2>1. NoName \in AllNames /\ 0 \in Nat
    BY DEF AllNames
  <2> QED BY <1>1, <1>3, <2>1, NewItem
<1> HIDE DEF r, m
<1>5. Shape(m, G \cup {r}, 0) /\ Cells(m, r) = {} /\ m.next[r] = 0 /\ r \in Items
  <2>1. GroupMade(h, m, G, 0, r, NoName)
    BY <1>4, ShapeGroup
  <2> QED BY <2>1 DEF GroupMade
<1>6. /\ WellFormed(m, O \cup {r}) /\ Children(m, r) = << >> /\ SameFields(h, m, O)
      /\ SameLinks(h, m, O \cup {1, 3})
      /\ \A j \in O \cup {1, 3} : m.child[j] = h.child[j]
      /\ r \notin O \cup {1, 3}
  <2>1. BesideObject(h, m, O, r)
    BY <1>1, <1>4, ObjectMade
  <2> QED BY <2>1 DEF BesideObject
<1>7. O = {2, 4} \cup G /\ O \cup {r} = Objects(G, r) /\ r # 0
  BY <1>5, ItemsAre DEF Objects
<1> HIDE DEF O
<1>8. Room(m, N)
  <2>1. Spare(m) = Spare(h) - 1
    BY <1>1, <1>4, SpareLess DEF Made
  <2>2. N <= Spare(m)
    <3> HIDE DEF N
    <3> QED BY <1>1, <1>2, <2>1
  <2> QED BY <2>2 DEF Room, Spare
<1>9. Built(m, g, O \cup {r}, r, names, v, N)
  BY <1>6, <1>8, BuildIs
<1>10. PICK s : Edited(m, g, O \cup {r}, r, s)
  BY <1>9 DEF Built
<1> HIDE DEF g
<1>11. /\ WellFormed(g, O \cup {r}) /\ SameFields(m, g, (O \cup {r}) \ {r})
       /\ SameLinks(m, g, (O \cup {r}) \cup {1, 3})
       /\ \A j \in (O \cup {r}) \cup {1, 3} : j # r => g.child[j] = m.child[j]
  <2> DEFINE P == O \cup {r}
  <2> HIDE DEF P
  <2>1. AllBut(m, g, P, r)
    BY <1>10, EditedSame DEF P
  <2> QED BY <2>1 DEF AllBut, P
<1>12. SameFields(h, g, O)
  <2>1. \A p \in O : p # r
    BY <1>6
  <2>2. \A p \in O : Cells(m, p) = Cells(h, p)
    BY <1>6 DEF SameFields, Cells
  <2> QED BY <1>6, <1>11, <2>1, <2>2 DEF SameFields
<1>13. SameLinks(h, g, O \cup {1, 3}) /\ \A j \in O \cup {1, 3} : g.child[j] = h.child[j]
  BY <1>6, <1>11 DEF SameLinks
<1>14. Untouched(h, g, G, {2, 4} \cup G) /\ g.child[1] = h.child[1]
  BY <1>7, <1>12, <1>13 DEF Untouched, SameLinks
<1>15. \A p \in {2, 4} \cup G : Distinct(g, p)
  <2> TAKE p \in {2, 4} \cup G
  <2>1. p \in O /\ Children(h, p) \in Seq(Items) /\ Distinct(h, p)
    BY <1>7, ShapeParts DEF Shape, O
  <2> QED BY <1>12, <2>1, SameVal
<1>16. Shape(g, G, r)
  <2>1. g.next[r] = 0
    BY <1>5, <1>11 DEF SameLinks
  <2>2. \A p \in {1, 2, 3, 4} \cup G : g.next[p] = h.next[p] /\ g.prev[p] = h.prev[p]
    BY <1>14 DEF Untouched, SameLinks
  <2>3. WellFormed(g, Objects(G, r))
    BY <1>7, <1>11
  <2>4. r \in Links /\ r \notin G /\ r \notin {1, 2, 3, 4}
    BY <1>5, <1>6, <1>7, ItemsAre
  <2>5. g.child[3] = h.child[3] /\ g.child[1] = h.child[1]
    BY <1>14 DEF Untouched
  <2> QED BY <1>15, <2>1, <2>2, <2>3, <2>4, <2>5 DEF Shape
<1> QED BY <1>7, <1>14, <1>16 DEF g, r, m

\* The request is deleted.
LEMMA ShapeDeleted ==
  ASSUME NEW h, NEW G, NEW q, Shape(h, G, q), q # 0
  PROVE  Shape(Delete(h, q), G, 0) /\ Untouched(h, Delete(h, q), G, {2, 4} \cup G)
<1> DEFINE g == Delete(h, q)
           O == Objects(G, q)
<1>1. WellFormed(h, O) /\ q \in O /\ q \notin {1, 3} /\ h.next[q] = 0
  BY DEF Shape, Objects
<1>2. WellFormed(g, O \ {q}) /\ SameFields(h, g, O \ {q}) /\ SameLinks(h, g, Items) /\ g.child = h.child
  <2>1. Gone(h, g, O, q)
    BY <1>1, ObjectDeleted
  <2> QED BY <2>1 DEF Gone
<1> HIDE DEF g
<1>3. O \ {q} = {2, 4} \cup G /\ O \ {q} = Objects(G, 0)
  BY DEF Shape, Objects
<1>4. {1, 2, 3, 4} \cup G \subseteq Items /\ \A p \in O : Children(h, p) \in Seq(Items)
  BY ShapeParts
<1> HIDE DEF O
<1>5. Untouched(h, g, G, {2, 4} \cup G)
  BY <1>2, <1>3, <1>4 DEF Untouched, SameLinks
<1>6. \A p \in {2, 4} \cup G : Distinct(g, p)
  <2> TAKE p \in {2, 4} \cup G
  <2>1. p \in O \ {q} /\ p \in O /\ Children(h, p) \in Seq(Items) /\ Distinct(h, p)
    BY <1>3, <1>4 DEF Shape
  <2> QED BY <1>2, <2>1, SameVal
<1>7. \A p \in {1, 2, 3, 4} \cup G : g.next[p] = h.next[p] /\ g.prev[p] = h.prev[p]
  BY <1>5 DEF Untouched, SameLinks
<1>8. WellFormed(g, Objects(G, 0)) /\ 0 \in Links /\ 0 \notin G
  BY <1>2, <1>3, ShapeParts, ItemsAre
<1>9. Shape(g, G, 0)
  <2>1. \A j \in G \cup {0} : j \notin {1, 2, 3, 4}
    BY DEF Shape
  <2>2. G \subseteq Items /\ g.child[1] = 2 /\ g.child[3] \in G \cup {0}
    BY <1>2 DEF Shape
  <2>3. g.next[1] = 0 /\ g.next[2] = 3 /\ g.next[3] = 0 /\ g.next[4] = 0
    BY <1>7 DEF Shape
  <2>4. \A j \in G : g.next[j] \in G \cup {0} /\ g.prev[j] \in G \cup {0}
    BY <1>7 DEF Shape
  <2> QED BY <1>6, <1>8, <2>1, <2>2, <2>3, <2>4 DEF Shape
<1> QED BY <1>5, <1>9 DEF g

\* Other links between the groups.
LEMMA ShapeLinked ==
  ASSUME NEW h, NEW G, NEW q, Shape(h, G, q), NEW g \in Heaps,
         g.live = h.live, g.name = h.name, g.value = h.value,
         \A j \in Items : j \notin G => g.next[j] = h.next[j] /\ g.prev[j] = h.prev[j],
         \A j \in Items : j # 3 => g.child[j] = h.child[j],
         g.child[3] \in G \cup {0},
         \A j \in G : g.next[j] \in G \cup {0} /\ g.prev[j] \in G \cup {0}
  PROVE  Shape(g, G, q) /\ SameFields(h, g, Objects(G, q))
<1> DEFINE O == Objects(G, q)
<1>1. /\ h \in Heaps /\ WellFormed(h, O) /\ G \subseteq O /\ 3 \notin O /\ {1, 2, 3, 4} \subseteq Items
      /\ {2, 4} \cup G \subseteq O
      /\ \A p \in O : Children(h, p) \in Seq(Items) /\ p \in Items
  BY ShapeParts DEF Shape
<1> HIDE DEF O
<1>2. \A p \in O : \A j \in Cells(h, p) : j \in Items /\ j \notin G /\ j # 3
  BY <1>1, ListCells DEF WellFormed
<1>3. ASSUME NEW p \in O
      PROVE  ListOf(g, p, Children(h, p)) /\ Children(g, p) = Children(h, p)
  <2>1. p \in Items /\ ListOf(h, p, Children(h, p)) /\ g.child[p] = h.child[p]
    BY <1>1 DEF WellFormed
  <2>2. \A j \in ToSet(Children(h, p)) : g.next[j] = h.next[j] /\ g.prev[j] = h.prev[j]
    BY <1>2 DEF Cells
  <2> QED BY <1>1, <2>1, <2>2, ListKept
<1>4. \A p \in O : Cells(g, p) = Cells(h, p)
  BY <1>3 DEF Cells
<1>5. SameFields(h, g, O)
  BY <1>2, <1>3 DEF SameFields
<1>6. WellFormed(g, O)
  <2>1. \A p \in O : ListOf(g, p, Children(g, p))
    BY <1>3
  <2>2. \A p \in O : \A j \in Cells(g, p) : g.child[j] = 0 /\ j \notin O /\ j \notin {1, 3}
    BY <1>2, <1>4, <1>1 DEF WellFormed
  <2>3. \A p, r \in O : p # r => Cells(g, p) \cap Cells(g, r) = {}
    BY <1>4, <1>1 DEF WellFormed
  <2>4. g.live = {1, 3} \cup O \cup UNION {Cells(g, p) : p \in O}
    <3>1. UNION {Cells(g, p) : p \in O} = UNION {Cells(h, p) : p \in O}
      BY <1>4
    <3> QED BY <3>1, <1>1 DEF WellFormed
  <2>5. O \subseteq Items
    BY <1>1
  <2> QED BY <2>1, <2>2, <2>3, <2>4, <2>5 DEF WellFormed
<1>7. \A p \in {2, 4} \cup G : Distinct(g, p)
  <2> TAKE p \in {2, 4} \cup G
  <2>1. p \in O /\ Children(h, p) \in Seq(Items) /\ Distinct(h, p)
    BY <1>1 DEF Shape
  <2> QED BY <1>5, <2>1, SameVal
<1>8. \A j \in {1, 2, 3, 4} : j \in Items /\ j \notin G
  BY <1>1 DEF Shape
<1>9. q # 0 => g.next[q] = h.next[q]
  <2>1. q # 0 => q \in Items /\ q \notin G
    BY ItemsAre DEF Shape
  <2> QED BY <2>1
<1>10. g.child[1] = 2 /\ g.next[1] = 0 /\ g.next[2] = 3 /\ g.next[3] = 0 /\ g.next[4] = 0
  BY <1>8 DEF Shape
<1>11. Shape(g, G, q)
  BY <1>6, <1>7, <1>9, <1>10 DEF Shape, O
<1> QED BY <1>5, <1>11 DEF O
-----------------------------------------------------------------------------
(* The inductive invariant, with the groups G that were made. *)

Types ==
  /\ app = 1 /\ settings = 2 /\ status = 3 /\ certs = 4
  /\ pc \in [Threads -> {"idle", "create", "link", "close", "write",
                         "wait", "status", "app", "post"}]
  /\ arg \in [Threads -> [group : Groups \cup {NoName}, name : Names \cup {NoName}, value : Nat]]
  /\ group \in [Threads -> Links] /\ tail \in [Threads -> Links]
  /\ params \in Links /\ grp \in Links /\ cur \in Links
  /\ sets \in Nat /\ requests \in Nat
  /\ locked \in BOOLEAN /\ raced \in BOOLEAN
  /\ shown \in [Groups \X Names -> Nat] /\ printed \in [Groups \X Names -> Nat]
  /\ wanted \in [Settings -> Nat] /\ kept \in [Certs -> Nat]
  /\ \A t \in Threads : pc[t] \in Appending \cup {"write"} => arg[t].group \in Groups /\ arg[t].name \in Names

\* Only the HTTP thread answers requests; it holds the mutex while it prints the status,
\* and a parsed request while it applies it.
HttpAlone ==
  /\ \A t \in Threads : pc[t] \in {"wait", "status", "app", "post"} => t = Http
  /\ locked <=> pc[Http] = "status"
  /\ params # 0 <=> pc[Http] = "post"

Holding == {"link", "close", "write"}

Placed(G) ==
  /\ \A t \in Threads : pc[t] \in Holding => group[t] \in G
  /\ \A t \in Threads : tail[t] \in G \cup {0}

Current ==
  /\ \A n \in Settings : Val(heap, 2, n) = wanted[n]
  /\ \A n \in Certs : Val(heap, 4, n) = kept[n]

CellsOf(h, p) == IF p = 0 THEN {} ELSE Cells(h, p)

Reading(G) ==
  /\ pc[Http] \in {"status", "app"} => grp \in G \cup {0}
  /\ pc[Http] = "status" => cur \in CellsOf(heap, grp) \cup {0}
  /\ pc[Http] = "post" => cur \in CellsOf(heap, params) \cup {0}
  /\ stale # "status"

\* The groups but B are linked, the last one noted in the first if settled.
InOrder(h, R, settled) ==
  LET s == Children(h, 3)
  IN  /\ Linked(h, h.child[3], s) /\ ToSet(s) = R
      /\ \A k \in DOMAIN s : k # 1 => h.prev[s[k]] = s[k - 1]
      /\ settled /\ s # << >> => h.prev[s[1]] = s[Len(s)]

Linking == {group[t] : t \in {u \in Threads : pc[u] = "link"}}

Settled == \A t \in Threads : pc[t] # "close"

LastOf(s) == IF s = << >> THEN 0 ELSE s[Len(s)]

OneAppends(G) ==
  /\ \A t, u \in Threads : pc[t] \in Appending /\ pc[u] \in Appending => t = u
  /\ InOrder(heap, G \ Linking, Settled)
  /\ \A t \in Threads : pc[t] = "link" => /\ Cells(heap, group[t]) = {} /\ heap.next[group[t]] = 0
                                          /\ tail[t] = LastOf(Children(heap, 3))
  /\ \A t \in Threads : pc[t] = "close" => /\ Children(heap, 3) # << >>
                                           /\ group[t] = LastOf(Children(heap, 3))
  /\ \A t, u \in Threads : pc[t] = "write" /\ pc[u] = "link" => group[t] # group[u]

Named(G) ==
  /\ \A g \in G : heap.name[g] \in Groups
  /\ \A g, k \in G : heap.name[g] = heap.name[k] => g = k
  /\ \A t \in Threads : pc[t] = "create" => \A g \in G : heap.name[g] # arg[t].group
  /\ \A t \in Threads : pc[t] \in Holding => heap.name[group[t]] = arg[t].group

Shows(G) ==
  /\ \A g \in G, n \in Names : Val(heap, g, n) = shown[<<heap.name[g], n>>]
  /\ \A k \in Groups : (\A g \in G : heap.name[g] # k) => \A n \in Names : shown[<<k, n>>] = 0

\* The field j of the group x is still to be printed, from the group g and its field c on.
Todo(h, g, c, x, j) ==
  LET s == Children(h, 3)
      f == Children(h, x)
  IN  \E k, l \in DOMAIN s : /\ s[k] = g /\ s[l] = x /\ j \in Cells(h, x)
                             /\ \/ k < l
                                \/ k = l /\ \E m, i \in DOMAIN f : f[m] = c /\ f[i] = j /\ m <= i

Ahead(h, g, c, k, n) ==
  \E x \in ToSet(Children(h, 3)) : \E j \in Cells(h, x) :
    h.name[x] = k /\ h.name[j] = n /\ Todo(h, g, c, x, j)

Prints ==
  pc[Http] = "status" =>
    /\ grp \in ToSet(Children(heap, 3)) \cup {0}
    /\ \A k \in Groups, n \in Names :
         printed[<<k, n>>] = IF Ahead(heap, grp, cur, k, n) THEN 0 ELSE shown[<<k, n>>]

\* What is of the groups.
Grouped(G) == Placed(G) /\ (~raced => OneAppends(G) /\ Named(G) /\ Shows(G))

TreeInv(G) ==
  /\ Types /\ HttpAlone /\ Shape(heap, G, params) /\ Grouped(G) /\ Current /\ Reading(G)
  /\ ~raced => Prints

Inv == \E G \in SUBSET Items : TreeInv(G)
-----------------------------------------------------------------------------
(* The list of the status. *)

\* The list of the status is of groups.
LEMMA StatusIn ==
  ASSUME NEW h, NEW G, NEW q, Shape(h, G, q)
  PROVE  Children(h, 3) \in Seq(G) /\ Children(h, 3) \in Seq(Items) /\ Cells(h, 3) \subseteq G
<1>1. /\ h \in Heaps /\ G \in SUBSET Items /\ h.child[3] \in G \cup {0}
      /\ \A x \in G : h.next[x] \in G \cup {0}
  BY ShapeParts DEF Shape
<1>2. ASSUME NEW c, c = h.child[3] PROVE Chain(h, c) \in Seq(G)
  <2>1. c \in G \cup {0}
    BY <1>1, <1>2
  <2> QED BY <1>1, <2>1, ChainInside
<1>3. Children(h, 3) \in Seq(G)
  BY <1>2 DEF Children
<1>4. Children(h, 3) \in Seq(Items)
  <2> DEFINE s == Children(h, 3)
  <2>1. s \in Seq(G) /\ G \subseteq Items
    BY <1>1, <1>3
  <2> HIDE DEF s
  <2>2. \A k \in 1 .. Len(s) : s[k] \in Items
    BY <2>1
  <2>3. s \in [1 .. Len(s) -> Items] /\ Len(s) \in Nat
    BY <2>1, <2>2
  <2>4. s \in Seq(Items)
    BY <2>3
  <2> QED BY <2>4 DEF s
<1> QED BY <1>3, <1>4 DEF Cells, ToSet

\* What is untouched has the same fields.
LEMMA UntouchedSame ==
  ASSUME NEW h, NEW G, NEW q, Shape(h, G, q), NEW g, NEW P, Untouched(h, g, G, P), NEW p \in P,
         p \in Objects(G, q)
  PROVE  Cells(g, p) = Cells(h, p) /\ \A n : Val(g, p, n) = Val(h, p, n)
<1>1. SameFields(h, g, P) /\ Children(h, p) \in Seq(Items)
  BY ShapeParts DEF Untouched
<1> QED BY <1>1, SameVal

\* It is in order as long as its groups keep their links.
LEMMA OrderKept ==
  ASSUME NEW h, NEW G, NEW q, Shape(h, G, q), NEW R \in SUBSET G, NEW b, InOrder(h, R, b),
         NEW g \in Heaps, NEW P, Untouched(h, g, G, P)
  PROVE  InOrder(g, R, b) /\ Children(g, 3) = Children(h, 3)
<1> DEFINE s == Children(h, 3)
<1> HIDE DEF s
<1>1. /\ Linked(h, h.child[3], s) /\ ToSet(s) = R
      /\ \A k \in DOMAIN s : k # 1 => h.prev[s[k]] = s[k - 1]
      /\ b /\ s # << >> => h.prev[s[1]] = s[Len(s)]
  BY DEF InOrder, s
<1>2. \A k \in DOMAIN s : s[k] \in G
  BY <1>1 DEF ToSet
<1>3. g.child[3] = h.child[3] /\ \A j \in G : g.next[j] = h.next[j] /\ g.prev[j] = h.prev[j]
  BY DEF Untouched, SameLinks
<1>4. Linked(g, g.child[3], s)
  BY <1>1, <1>2, <1>3 DEF Linked
<1>5. Children(g, 3) = s
  <2>1. g.child[3] \in Links
    <3>1. 3 \in Items
      BY ShapeParts
    <3> QED BY <3>1 DEF Heaps
  <2> QED BY <1>4, <2>1, ChainLinked DEF Children
<1>6. \A k \in DOMAIN s : k # 1 => g.prev[s[k]] = s[k - 1]
  BY <1>1, <1>2, <1>3
<1>7. b /\ s # << >> => g.prev[s[1]] = s[Len(s)]
  <2>1. s # << >> => 1 \in DOMAIN s
    BY <1>1 DEF Linked
  <2> QED BY <1>1, <1>2, <1>3, <2>1
<1> QED BY <1>1, <1>4, <1>5, <1>6, <1>7 DEF InOrder, s

\* What is still to be printed is the same as long as groups and fields are.
LEMMA AheadKept ==
  ASSUME NEW h, NEW g, NEW G, Children(h, 3) \in Seq(G), Children(g, 3) = Children(h, 3),
         SameFields(h, g, G), \A x \in G : g.name[x] = h.name[x],
         NEW a, NEW c, NEW k, NEW n
  PROVE  Ahead(g, a, c, k, n) <=> Ahead(h, a, c, k, n)
<1>1. \A x \in ToSet(Children(h, 3)) : x \in G
  BY DEF ToSet
<1>2. \A x \in G : /\ Children(g, x) = Children(h, x) /\ Cells(g, x) = Cells(h, x)
                   /\ \A j \in Cells(h, x) : g.name[j] = h.name[j]
  BY DEF SameFields, Cells
<1>3. \A x \in G : \A j : Todo(g, a, c, x, j) <=> Todo(h, a, c, x, j)
  BY <1>2, Zenon DEF Todo
<1> QED BY <1>1, <1>2, <1>3 DEF Ahead

\* Nor does a group without a field that is linked behind the others change it.
LEMMA AheadAppended ==
  ASSUME NEW h, NEW g, NEW G, NEW s \in Seq(G), Children(h, 3) = s,
         NEW r, r \notin ToSet(s), Children(g, 3) = Append(s, r), Cells(g, r) = {},
         SameFields(h, g, G), \A x \in G : g.name[x] = h.name[x],
         NEW a, a # r, NEW c, NEW k, NEW n
  PROVE  Ahead(g, a, c, k, n) <=> Ahead(h, a, c, k, n)
<1> DEFINE t == Append(s, r)
<1>1. /\ Len(s) \in Nat /\ DOMAIN s = 1 .. Len(s) /\ DOMAIN t = 1 .. Len(s) + 1 /\ t[Len(s) + 1] = r
      /\ \A l \in DOMAIN s : t[l] = s[l] /\ l \in DOMAIN t
      /\ \A l \in DOMAIN t : l \in DOMAIN s \/ l = Len(s) + 1
  BY DEF ToSet
<1> HIDE DEF t
<1>2. \A l \in DOMAIN s : s[l] \in G /\ s[l] # r /\ s[l] \in ToSet(s)
  BY DEF ToSet
<1>3. \A x \in G : /\ Children(g, x) = Children(h, x) /\ Cells(g, x) = Cells(h, x)
                   /\ \A j \in Cells(h, x) : g.name[j] = h.name[j]
  BY DEF SameFields, Cells
<1>4. ASSUME NEW x \in ToSet(s), NEW j PROVE Todo(g, a, c, x, j) <=> Todo(h, a, c, x, j)
  <2> DEFINE f == Children(h, x)
             Within(l, m) == /\ j \in Cells(h, x)
                             /\ \/ l < m
                                \/ l = m /\ \E u, v \in DOMAIN f : f[u] = c /\ f[v] = j /\ u <= v
  <2>1. x \in G /\ x # r
    BY DEF ToSet
  <2>2. Todo(g, a, c, x, j) <=> \E l, m \in DOMAIN t : t[l] = a /\ t[m] = x /\ Within(l, m)
    BY <1>3, <2>1, Zenon DEF Todo, t
  <2>3. Todo(h, a, c, x, j) <=> \E l, m \in DOMAIN s : s[l] = a /\ s[m] = x /\ Within(l, m)
    BY Zenon DEF Todo
  <2> HIDE DEF Within
  <2> QED BY <1>1, <2>1, <2>2, <2>3
<1>5. ToSet(t) = ToSet(s) \cup {r}
  <2>1. Len(s) + 1 \in DOMAIN t
    BY <1>1
  <2> QED BY <1>1, <2>1 DEF ToSet
<1>6. \A x \in ToSet(s) : x \in G
  BY DEF ToSet
<1> DEFINE Left(x) == \E j \in Cells(h, x) : h.name[x] = k /\ h.name[j] = n /\ Todo(h, a, c, x, j)
<1>7. \A x \in ToSet(s) : (\E j \in Cells(g, x) : g.name[x] = k /\ g.name[j] = n /\ Todo(g, a, c, x, j)) <=> Left(x)
  BY <1>3, <1>4, <1>6
<1>8. Ahead(g, a, c, k, n) <=> \E x \in ToSet(s) : Left(x)
  <2> HIDE DEF Left
  <2> QED BY <1>5, <1>7 DEF Ahead, t
<1>9. Ahead(h, a, c, k, n) <=> \E x \in ToSet(s) : Left(x)
  BY DEF Ahead
<1> QED BY <1>8, <1>9
-----------------------------------------------------------------------------
(* What is still to be printed. *)

Upto(h, x, c, j) == LET f == Children(h, x) IN \E m, i \in DOMAIN f : f[m] = c /\ f[i] = j /\ m <= i

\* The list s of the status, as far as next tells.
Line(h, s) ==
  /\ s = Children(h, 3) /\ s \in Seq(Items) /\ Len(s) \in Nat /\ DOMAIN s = 1 .. Len(s)
  /\ \A k, l \in DOMAIN s : s[k] = s[l] => k = l
  /\ \A k \in DOMAIN s : s[k] # 0 /\ h.next[s[k]] = IF k = Len(s) THEN 0 ELSE s[k + 1]
  /\ h.child[3] = IF s = << >> THEN 0 ELSE s[1]

\* In order, the groups are such a line.
LEMMA StatusLine ==
  ASSUME NEW h, NEW R, NEW b, InOrder(h, R, b)
  PROVE  Line(h, Children(h, 3)) /\ ToSet(Children(h, 3)) = R
<1> DEFINE s == Children(h, 3)
<1>1. s \in Seq(Items) /\ Linked(h, h.child[3], s) /\ ToSet(s) = R
  BY DEF InOrder, Linked
<1>2. \A k \in DOMAIN s : s[k] # 0
  BY <1>1, ItemsAre
<1> QED BY <1>1, <1>2 DEF Line, Linked

\* What is to be printed, by the places of the groups.
LEMMA TodoAt ==
  ASSUME NEW h, NEW s, Line(h, s), NEW k \in DOMAIN s, NEW l \in DOMAIN s, NEW c, NEW j
  PROVE  Todo(h, s[k], c, s[l], j) <=> j \in Cells(h, s[l]) /\ (k < l \/ (k = l /\ Upto(h, s[l], c, j)))
<1>1. s = Children(h, 3) /\ \A m, i \in DOMAIN s : s[m] = s[i] => m = i
  BY DEF Line
<1>2. Todo(h, s[k], c, s[l], j) <=>
        \E m, i \in DOMAIN s : /\ s[m] = s[k] /\ s[i] = s[l] /\ j \in Cells(h, s[l])
                               /\ (m < i \/ (m = i /\ Upto(h, s[l], c, j)))
  BY <1>1, Zenon DEF Todo, Upto
<1>3. ASSUME NEW m \in DOMAIN s, NEW i \in DOMAIN s, s[m] = s[k], s[i] = s[l] PROVE m = k /\ i = l
  BY <1>1, <1>3
<1> QED BY <1>2, <1>3

\* From the first field on all fields of a group are to be printed,
LEMMA UptoFirst ==
  ASSUME NEW h \in Heaps, NEW x \in Items, ListOf(h, x, Children(h, x)), NEW j \in Cells(h, x)
  PROVE  Upto(h, x, h.child[x], j)
<1> DEFINE f == Children(h, x)
<1>1. f \in Seq(Items) /\ Len(f) \in Nat /\ DOMAIN f = 1 .. Len(f) /\ h.child[x] = IF f = << >> THEN 0 ELSE f[1]
  BY ListParts
<1>2. PICK i \in DOMAIN f : f[i] = j
  BY DEF Cells, ToSet
<1>3. f # << >> /\ 1 \in DOMAIN f /\ 1 <= i
  BY <1>1, <1>2
<1> QED BY <1>1, <1>2, <1>3 DEF Upto

\* and from the next on all these but the field printed.
LEMMA UptoNext ==
  ASSUME NEW h \in Heaps, NEW x \in Items, ListOf(h, x, Children(h, x)), NEW j \in Cells(h, x),
         NEW c \in Cells(h, x)
  PROVE  Upto(h, x, h.next[c], j) <=> Upto(h, x, c, j) /\ j # c
<1> DEFINE f == Children(h, x)
<1>1. /\ f \in Seq(Items) /\ Len(f) \in Nat /\ DOMAIN f = 1 .. Len(f)
      /\ \A m, i \in DOMAIN f : f[m] = f[i] => m = i
      /\ \A m \in DOMAIN f : f[m] # 0 /\ h.next[f[m]] = IF m = Len(f) THEN 0 ELSE f[m + 1]
  BY ListParts, ItemsAre
<1>2. PICK i \in DOMAIN f : f[i] = j
  BY DEF Cells, ToSet
<1>3. PICK m \in DOMAIN f : f[m] = c
  BY DEF Cells, ToSet
<1> HIDE DEF f
<1>4. ASSUME NEW a \in DOMAIN f PROVE Upto(h, x, f[a], j) <=> a <= i
  BY <1>1, <1>2 DEF Upto, f
<1>5. ~Upto(h, x, 0, j)
  BY <1>1 DEF Upto, f
<1>6. i \in 1 .. Len(f) /\ m \in 1 .. Len(f) /\ (j = c <=> i = m)
  BY <1>1, <1>2, <1>3
<1>7. CASE m = Len(f)
  <2>1. h.next[c] = 0 /\ (m <= i => i = m)
    BY <1>1, <1>3, <1>6, <1>7
  <2> QED BY <1>3, <1>4, <1>5, <1>6, <2>1
<1>8. CASE m # Len(f)
  <2>1. h.next[c] = f[m + 1] /\ m + 1 \in DOMAIN f
    BY <1>1, <1>3, <1>6, <1>8
  <2>2. (m + 1 <= i) <=> (m <= i /\ i # m)
    BY <1>6
  <2> QED BY <1>3, <1>4, <1>6, <2>1, <2>2
<1> QED BY <1>7, <1>8

\* From the first field of the first group all of them are ahead,
LEMMA AheadStart ==
  ASSUME NEW h, NEW G, NEW q, Shape(h, G, q), NEW R \in SUBSET G, NEW b, InOrder(h, R, b),
         NEW a, a = h.child[3], NEW c, c = IF a = 0 THEN 0 ELSE h.child[a],
         NEW x \in R, NEW j \in Cells(h, x)
  PROVE  Ahead(h, a, c, h.name[x], h.name[j])
<1> DEFINE s == Children(h, 3)
<1>1. Line(h, s) /\ ToSet(s) = R
  BY StatusLine
<1>2. PICK l \in DOMAIN s : s[l] = x
  BY <1>1 DEF ToSet
<1>3. 1 \in DOMAIN s /\ a = s[1] /\ a # 0 /\ l \in Nat /\ (1 < l \/ l = 1) /\ c = h.child[a]
  <2>1. /\ Len(s) \in Nat /\ DOMAIN s = 1 .. Len(s) /\ h.child[3] = IF s = << >> THEN 0 ELSE s[1]
        /\ \A k \in DOMAIN s : s[k] # 0
    BY <1>1 DEF Line
  <2>2. 1 \in DOMAIN s /\ l \in Nat /\ (1 < l \/ l = 1) /\ s # << >>
    BY <1>2, <2>1
  <2> QED BY <2>1, <2>2
<1> HIDE DEF s
<1>4. x \in Items /\ h \in Heaps /\ ListOf(h, x, Children(h, x))
  BY ShapeParts DEF Shape, WellFormed, Objects
<1>5. Upto(h, x, h.child[x], j)
  BY <1>4, UptoFirst
<1>6. Todo(h, s[1], c, s[l], j)
  <2>1. 1 = l => Upto(h, s[l], c, j)
    BY <1>2, <1>3, <1>5
  <2> QED BY <1>1, <1>2, <1>3, <2>1, TodoAt
<1> QED BY <1>1, <1>2, <1>3, <1>6 DEF Ahead, s

\* and at the end none.
LEMMA NothingAhead ==
  ASSUME NEW h, NEW R, NEW b, InOrder(h, R, b), NEW c, NEW k, NEW n
  PROVE  ~Ahead(h, 0, c, k, n)
<1>1. \A l \in DOMAIN Children(h, 3) : Children(h, 3)[l] # 0
  BY StatusLine DEF Line
<1>2. \A x, j : ~Todo(h, 0, c, x, j)
  BY <1>1, Zenon DEF Todo
<1> QED BY <1>2 DEF Ahead

\* A field printed is not ahead any more, and the others are as they were.
LEMMA AheadField ==
  ASSUME NEW h, NEW G, NEW q, Shape(h, G, q), NEW R \in SUBSET G, NEW b, InOrder(h, R, b),
         \A g, k \in R : h.name[g] = h.name[k] => g = k,
         NEW a \in R, NEW c \in Cells(h, a), NEW k, NEW n
  PROVE  Ahead(h, a, h.next[c], k, n) <=> Ahead(h, a, c, k, n) /\ ~(k = h.name[a] /\ n = h.name[c])
<1> DEFINE s == Children(h, 3)
<1>1. Line(h, s) /\ ToSet(s) = R
  BY StatusLine
<1>2. PICK m \in DOMAIN s : s[m] = a
  BY <1>1 DEF ToSet
<1>3. a \in Items /\ h \in Heaps /\ ListOf(h, a, Children(h, a)) /\ Distinct(h, a)
  BY ShapeParts DEF Shape, WellFormed, Objects
<1> HIDE DEF s
<1>4. ASSUME NEW x \in R, NEW j \in Cells(h, x)
      PROVE  Todo(h, a, h.next[c], x, j) <=> Todo(h, a, c, x, j) /\ ~(x = a /\ j = c)
  <2>1. PICK l \in DOMAIN s : s[l] = x
    BY <1>1 DEF ToSet
  <2>2. x = a <=> m = l
    BY <1>1, <1>2, <2>1 DEF Line
  <2>3. /\ Todo(h, a, c, x, j) <=> m < l \/ (m = l /\ Upto(h, x, c, j))
        /\ Todo(h, a, h.next[c], x, j) <=> m < l \/ (m = l /\ Upto(h, x, h.next[c], j))
    BY <1>1, <1>2, <2>1, TodoAt
  <2>4. x = a => (Upto(h, x, h.next[c], j) <=> Upto(h, x, c, j) /\ j # c)
    BY <1>3, UptoNext
  <2>5. m \in Nat /\ l \in Nat /\ (m < l => m # l)
    BY <1>1, <1>2, <2>1 DEF Line
  <2> QED BY <2>2, <2>3, <2>4, <2>5
<1>5. ASSUME NEW x \in R, NEW j \in Cells(h, x)
      PROVE  h.name[x] = h.name[a] /\ h.name[j] = h.name[c] <=> x = a /\ j = c
  BY <1>3 DEF Distinct
<1>6. Ahead(h, a, h.next[c], k, n) <=>
        \E x \in R : \E j \in Cells(h, x) :
          h.name[x] = k /\ h.name[j] = n /\ Todo(h, a, h.next[c], x, j)
  BY <1>1, Zenon DEF Ahead, s
<1>7. Ahead(h, a, c, k, n) <=>
        \E x \in R : \E j \in Cells(h, x) : h.name[x] = k /\ h.name[j] = n /\ Todo(h, a, c, x, j)
  BY <1>1, Zenon DEF Ahead, s
<1> QED BY <1>4, <1>5, <1>6, <1>7

\* From the end of a group to the next nothing changes.
LEMMA AheadGroup ==
  ASSUME NEW h, NEW G, NEW q, Shape(h, G, q), NEW R \in SUBSET G, NEW b, InOrder(h, R, b),
         NEW a \in R, NEW d, d = h.next[a], NEW c, c = IF d = 0 THEN 0 ELSE h.child[d], NEW k, NEW n
  PROVE  Ahead(h, d, c, k, n) <=> Ahead(h, a, 0, k, n)
<1> DEFINE s == Children(h, 3)
<1>1. Line(h, s) /\ ToSet(s) = R
  BY StatusLine
<1>2. PICK m \in DOMAIN s : s[m] = a
  BY <1>1 DEF ToSet
<1>3. ASSUME NEW x \in R PROVE x \in Items /\ h \in Heaps /\ ListOf(h, x, Children(h, x))
  BY ShapeParts DEF Shape, WellFormed, Objects
<1> HIDE DEF s
<1>4. ASSUME NEW x \in R, NEW j \in Cells(h, x)
      PROVE  Todo(h, d, c, x, j) <=> Todo(h, a, 0, x, j)
  <2>1. PICK l \in DOMAIN s : s[l] = x
    BY <1>1 DEF ToSet
  <2>2. ~Upto(h, x, 0, j)
    <3>1. \A i \in DOMAIN Children(h, x) : Children(h, x)[i] # 0
      BY <1>3, ListParts, ItemsAre
    <3> QED BY <3>1 DEF Upto
  <2>3. Todo(h, a, 0, x, j) <=> m < l
    BY <1>1, <1>2, <2>1, <2>2, TodoAt
  <2>4. /\ m \in 1 .. Len(s) /\ l \in 1 .. Len(s) /\ DOMAIN s = 1 .. Len(s) /\ Len(s) \in Nat
        /\ d = IF m = Len(s) THEN 0 ELSE s[m + 1]
        /\ \A i \in DOMAIN s : s[i] # 0
    BY <1>1, <1>2, <2>1 DEF Line
  <2>5. CASE m = Len(s)
    <3>1. d = 0 /\ ~(m < l)
      BY <2>4, <2>5
    <3>2. ~Todo(h, 0, c, x, j)
      <4>1. s = Children(h, 3)
        BY <1>1 DEF Line
      <4> QED BY <2>4, <4>1, Zenon DEF Todo
    <3> QED BY <2>3, <3>1, <3>2
  <2>6. CASE m # Len(s)
    <3>1. m + 1 \in DOMAIN s /\ d = s[m + 1] /\ d # 0 /\ c = h.child[d]
      BY <2>4, <2>6
    <3>2. Todo(h, d, c, x, j) <=> m + 1 < l \/ (m + 1 = l /\ Upto(h, x, c, j))
      BY <1>1, <2>1, <3>1, TodoAt
    <3>3. m + 1 = l => Upto(h, x, c, j)
      <4>1. Upto(h, x, h.child[x], j)
        BY <1>3, UptoFirst
      <4> QED BY <2>1, <3>1, <4>1
    <3>4. (m + 1 < l \/ m + 1 = l) <=> m < l
      BY <2>4
    <3> QED BY <2>3, <3>2, <3>3, <3>4
  <2> QED BY <2>5, <2>6
<1>6. Ahead(h, d, c, k, n) <=>
        \E x \in R : \E j \in Cells(h, x) : h.name[x] = k /\ h.name[j] = n /\ Todo(h, d, c, x, j)
  BY <1>1, Zenon DEF Ahead, s
<1>7. Ahead(h, a, 0, k, n) <=>
        \E x \in R : \E j \in Cells(h, x) : h.name[x] = k /\ h.name[j] = n /\ Todo(h, a, 0, x, j)
  BY <1>1, Zenon DEF Ahead, s
<1> QED BY <1>4, <1>6, <1>7
-----------------------------------------------------------------------------
(* The tree at the start. *)

InTurn(s, S) ==
  /\ s \in Seq(S) /\ Len(s) = Cardinality(S) /\ Len(s) \in Nat /\ DOMAIN s = 1 .. Len(s)
  /\ \A k, l \in DOMAIN s : s[k] = s[l] => k = l
  /\ \A x \in S : \E k \in DOMAIN s : s[k] = x

\* SetToSeq gives the elements of a finite set in turn.
LEMMA SetInTurn ==
  ASSUME NEW S, IsFiniteSet(S)
  PROVE  InTurn(SetToSeq(S), S)
<1> DEFINE N == Cardinality(S)
           s == SetToSeq(S)
<1>1. N \in Nat /\ ExistsBijection(1 .. N, S)
  BY FS_CardinalityType
<1>2. \E f \in [1 .. N -> S] : IsInjective(f)
  BY <1>1 DEF ExistsBijection, Bijection, Injection
<1>3. s \in [1 .. N -> S] /\ IsInjective(s)
  BY <1>2 DEF SetToSeq
<1> HIDE DEF s
<1>4. IsFiniteSet(1 .. N) /\ Cardinality(1 .. N) = N
  BY <1>1, FS_Interval
<1>5. s \in Injection(1 .. N, S)
  BY <1>3 DEF Injection
<1>6. s \in Surjection(1 .. N, S)
  BY <1>4, <1>5, FS_Injection
<1> HIDE DEF N
<1>7. s \in Seq(S) /\ Len(s) = N /\ DOMAIN s = 1 .. N
  BY <1>1, <1>3
<1>8. \A x \in S : \E k \in DOMAIN s : s[k] = x
  BY <1>6, <1>7 DEF Surjection
<1> QED BY <1>1, <1>3, <1>7, <1>8 DEF InTurn, IsInjective, s, N

\* The first n items are objects without a child or a name.
Bare(h, n) ==
  /\ h \in Heaps /\ h.live = 1 .. n
  /\ \A j \in Items : h.next[j] = 0 /\ h.prev[j] = 0 /\ h.child[j] = 0

\* One object more.
LEMMA BareNext ==
  ASSUME NEW h, NEW n \in Nat, n < MaxItems, Bare(h, n)
  PROVE  Bare(New(h, NoName, 0), n + 1)
<1>1. IsFiniteSet(Items) /\ Cardinality(Items) = MaxItems
  BY ItemsAre, FS_Interval
<1>2. n + 1 \in Items \ h.live /\ IsFiniteSet(Items \ h.live) /\ Cardinality(Items \ h.live) \in Nat
  <2>1. n + 1 \in Items \ h.live
    BY ItemsAre DEF Bare
  <2>2. IsFiniteSet(Items \ h.live)
    <3>1. Items \ h.live \in SUBSET Items
      OBVIOUS
    <3> QED BY <1>1, <3>1, FS_Subset
  <2> QED BY <2>1, <2>2, FS_CardinalityType
<1>3. Room(h, 1)
  <2>1. Cardinality(Items \ h.live) # 0
    BY <1>2, FS_EmptySet
  <2> QED BY <1>2, <2>1 DEF Room
<1> DEFINE r == Fresh(h)
           g == New(h, NoName, 0)
<1>4. r = n + 1
  <2>1. Items \ h.live \in SUBSET Nat /\ Items \ h.live # {}
    BY <1>2, ItemsAre
  <2>2. r \in Items \ h.live /\ \A k \in Items \ h.live : r <= k
    BY <2>1, MinIs DEF Fresh
  <2>3. r <= n + 1 /\ r \in Nat /\ r \notin 1 .. n /\ 1 <= r
    BY <1>2, <2>2, ItemsAre DEF Bare
  <2> QED BY <2>3
<1>5. Made(h, g, r, NoName, 0)
  <2>1. NoName \in AllNames /\ 0 \in Nat /\ h \in Heaps
    BY DEF AllNames, Bare
  <2> QED BY <1>3, <2>1, NewItem
<1> HIDE DEF r, g
<1>6. g \in Heaps /\ g.live = 1 .. n + 1
  <2>1. g.live = (1 .. n) \cup {n + 1}
    BY <1>4, <1>5 DEF Made, Bare
  <2> QED BY <1>5, <2>1 DEF Made
<1>7. \A j \in Items : g.next[j] = 0 /\ g.prev[j] = 0 /\ g.child[j] = 0
  BY <1>5 DEF Made, SameOutside, Bare
<1> QED BY <1>6, <1>7 DEF Bare, g

\* An object without a child has an empty list.
LEMMA NoCells ==
  ASSUME NEW h \in Heaps, NEW p \in Items, h.child[p] = 0
  PROVE  ListOf(h, p, << >>) /\ Children(h, p) = << >> /\ Cells(h, p) = {}
<1>1. ListOf(h, p, << >>)
  BY DEF ListOf, Linked
<1>2. Children(h, p) = << >>
  BY <1>1, ListIsChildren
<1> QED BY <1>1, <1>2 DEF Cells, ToSet

\* Such a heap is well formed.
LEMMA BareIs ==
  ASSUME NEW h, Bare(h, 4), MaxItems >= 4
  PROVE  WellFormed(h, {2, 4}) /\ Children(h, 2) = << >> /\ Children(h, 4) = << >>
<1>1. {1, 2, 3, 4} \subseteq Items /\ h.live = {1, 2, 3, 4} /\ h \in Heaps
  BY ItemsAre DEF Bare
<1>2. \A p \in Items : ListOf(h, p, << >>) /\ Children(h, p) = << >> /\ Cells(h, p) = {}
  BY NoCells DEF Bare
<1>3. h.live = {1, 3} \cup {2, 4} \cup UNION {Cells(h, p) : p \in {2, 4}}
  BY <1>1, <1>2
<1>4. {2, 4} \subseteq Items /\ 2 \in Items /\ 4 \in Items
  BY <1>1
<1> QED BY <1>1, <1>2, <1>3, <1>4 DEF WellFormed

\* What was built are the fields, each with the value.
Filled(g, p, S, v) == Distinct(g, p) /\ \A n \in S : Val(g, p, n) = v

\* An empty object that is built has a field of each name.
LEMMA BuiltFields ==
  ASSUME NEW h, NEW g, NEW O, NEW p \in O, NEW S, NEW names, InTurn(names, S), NEW v,
         Built(h, g, O, p, names, v, Len(names))
  PROVE  Filled(g, p, S, v)
<1>1. PICK s \in Seq(Items) :
        /\ Edited(h, g, O, p, s) /\ Len(s) = Len(names)
        /\ \A k \in 1 .. Len(names) : g.name[s[k]] = names[k] /\ g.value[s[k]] = v
  BY DEF Built
<1>2. WellFormed(g, O) /\ Children(g, p) = s
  BY <1>1 DEF Edited
<1>3. DOMAIN s = DOMAIN names /\ DOMAIN names = 1 .. Len(names)
  BY <1>1 DEF InTurn
<1>4. Distinct(g, p)
  <2>1. ASSUME NEW i \in Cells(g, p), NEW j \in Cells(g, p), g.name[i] = g.name[j] PROVE i = j
    <3>1. PICK k \in DOMAIN s : s[k] = i
      BY <1>2 DEF Cells, ToSet
    <3>2. PICK l \in DOMAIN s : s[l] = j
      BY <1>2 DEF Cells, ToSet
    <3>3. names[k] = names[l]
      BY <1>1, <1>3, <2>1, <3>1, <3>2
    <3> QED BY <1>3, <3>1, <3>2, <3>3 DEF InTurn
  <2> QED BY <2>1 DEF Distinct
<1>5. ASSUME NEW n \in S PROVE Val(g, p, n) = v
  <2>1. PICK k \in DOMAIN names : names[k] = n
    BY DEF InTurn
  <2>2. s[k] \in Cells(g, p) /\ g.name[s[k]] = n /\ g.value[s[k]] = v
    BY <1>1, <1>2, <1>3, <2>1 DEF Cells, ToSet
  <2> QED BY <1>2, <1>4, <2>2, ValIs
<1> QED BY <1>4, <1>5 DEF Filled

Behind(u, s, e) ==
  /\ u \in Seq(Nat) /\ Len(u) = Len(s) + 1 /\ u[Len(s) + 1] = e
  /\ \A i \in 1 .. Len(s) : u[i] = s[i]

\* An item behind a sequence.
LEMMA AppendIs ==
  ASSUME NEW s \in Seq(Nat), NEW e \in Nat, NEW u, u = Append(s, e)
  PROVE  Behind(u, s, e)
BY DEF Behind

\* app gets the settings and the status, 2 and 3.
LEMMA AppLinked ==
  ASSUME NEW h, WellFormed(h, {2, 4}), h.child[1] = 0, h.child[3] = 0, h.next[1] = 0, h.next[2] = 0,
         h.next[3] = 0, h.next[4] = 0, NEW g, g = AddItem(AddItem(h, 1, 2), 1, 3)
  PROVE  /\ WellFormed(g, {2, 4}) /\ SameFields(h, g, {2, 4}) /\ g.live = h.live
         /\ g.child[1] = 2 /\ g.child[3] = 0
         /\ g.next[1] = 0 /\ g.next[2] = 3 /\ g.next[3] = 0 /\ g.next[4] = 0
<1>1. h \in Heaps /\ {1, 2, 3, 4} \subseteq Items
  BY HeapParts DEF WellFormed
<1> DEFINE m == AddItem(h, 1, 2)
<1>2. Relisted(h, m, 1, <<2>>, {2}) /\ m.live = h.live
  <2>1. ListOf(h, 1, << >>) /\ 1 \in Items /\ 2 \in Items
    BY <1>1, NoCells
  <2>2. Append(<< >>, 2) = <<2>> /\ ToSet(<< >>) \cup {2} = {2} /\ 2 \notin ToSet(<< >>)
    BY DEF ToSet
  <2> HIDE DEF m
  <2>3. Relisted(h, m, 1, Append(<< >>, 2), ToSet(<< >>) \cup {2}) /\ m.live = h.live
    BY <1>1, <2>1, <2>2, AddItemIs DEF m
  <2> QED BY <2>2, <2>3
<1> HIDE DEF m
<1>3. m \in Heaps /\ ListOf(m, 1, <<2>>) /\ m.next[3] = 0 /\ m.next[1] = 0 /\ m.next[4] = 0
  BY <1>1, <1>2 DEF Relisted, SameOutside
<1>20. PICK o : o = <<2>>
  OBVIOUS
<1>21. PICK t : t = Append(o, 3)
  OBVIOUS
<1>22. o \in Seq(Nat) /\ Len(o) = 1 /\ o[1] = 2
  BY <1>20
<1>8. t \in Seq(Nat) /\ Len(t) = 2 /\ t[1] = 2 /\ t[2] = 3
  <2>1. /\ t \in Seq(Nat) /\ Len(t) = Len(o) + 1 /\ t[Len(o) + 1] = 3
        /\ \A i \in 1 .. Len(o) : t[i] = o[i]
    <3>1. 3 \in Nat
      OBVIOUS
    <3>2. Behind(t, o, 3)
      BY <1>21, <1>22, <3>1, AppendIs
    <3> QED BY <3>2 DEF Behind
  <2>2. 1 \in 1 .. Len(o) /\ Len(o) + 1 = 2
    BY <1>22
  <2> QED BY <1>22, <2>1, <2>2
<1>4. Relisted(m, g, 1, t, {2, 3}) /\ g.live = m.live
  <2>1. 1 \in Items /\ 3 \in Items
    BY <1>1
  <2>2. ToSet(o) = {2}
    <3>1. DOMAIN o = {1} /\ o[1] = 2
      BY <1>22
    <3> QED BY <3>1, Zenon DEF ToSet
  <2>3. ToSet(o) \cup {3} = {2, 3} /\ 3 \notin ToSet(o)
    BY <2>2
  <2>4. Relisted(m, g, 1, Append(o, 3), ToSet(o) \cup {3}) /\ g.live = m.live
    <3>1. ListOf(m, 1, o)
      BY <1>3, <1>20
    <3> QED BY <1>3, <2>1, <2>3, <3>1, AddItemIs DEF m
  <2> QED BY <1>21, <2>3, <2>4
<1>5. /\ g \in Heaps /\ g.name = h.name /\ g.value = h.value /\ g.live = h.live
      /\ \A j \in Items : j \notin {2, 3} => g.next[j] = h.next[j] /\ g.prev[j] = h.prev[j]
      /\ \A j \in Items : j # 1 => g.child[j] = h.child[j]
  BY <1>2, <1>4 DEF Relisted, SameOutside
<1>6. g.child[1] = 2 /\ g.next[2] = 3 /\ g.next[3] = 0
  <2>1. Linked(g, g.child[1], t)
    BY <1>4 DEF Relisted, ListOf
  <2>2. /\ \A k \in DOMAIN t : g.next[t[k]] = IF k = Len(t) THEN 0 ELSE t[k + 1]
        /\ t # << >> => g.child[1] = t[1]
    BY <2>1 DEF Linked
  <2>3. 1 \in DOMAIN t /\ 2 \in DOMAIN t /\ t # << >> /\ 1 # Len(t)
    <3>1. DOMAIN t = 1 .. 2 /\ Len(t) = 2
      BY <1>8
    <3>2. t = << >> => DOMAIN t = {}
      OBVIOUS
    <3>3. 1 \in 1 .. 2 /\ 2 \in 1 .. 2 /\ 1 # 2
      OBVIOUS
    <3> QED BY <3>1, <3>2, <3>3
  <2> QED BY <1>8, <2>2, <2>3
<1>7. ASSUME NEW p \in {2, 4}
      PROVE  /\ ListOf(g, p, Children(h, p)) /\ Children(g, p) = Children(h, p)
             /\ \A j \in Cells(h, p) : j \in Items /\ j \notin {1, 2, 3, 4} /\ h.child[j] = 0
  <2>1. p \in Items /\ ListOf(h, p, Children(h, p)) /\ Cells(h, p) \subseteq Items
    BY ListCells
  <2>2. \A j \in Cells(h, p) : j \notin {1, 2, 3, 4} /\ h.child[j] = 0
    BY DEF WellFormed
  <2>3. \A j \in ToSet(Children(h, p)) : g.next[j] = h.next[j] /\ g.prev[j] = h.prev[j]
    BY <1>5, <2>1, <2>2 DEF Cells
  <2>4. g.child[p] = h.child[p]
    BY <1>1, <1>5
  <2> QED BY <1>1, <1>5, <2>1, <2>2, <2>3, <2>4, ListKept
<1>11. \A p \in {2, 4} : Cells(g, p) = Cells(h, p)
  BY <1>7 DEF Cells
<1>9. WellFormed(g, {2, 4})
  <2>1. \A p \in {2, 4} : ListOf(g, p, Children(g, p))
    BY <1>7
  <2>2. \A p \in {2, 4} : \A j \in Cells(g, p) : g.child[j] = 0 /\ j \notin {2, 4} /\ j \notin {1, 3}
    BY <1>5, <1>7, <1>11
  <2>3. \A p, q \in {2, 4} : p # q => Cells(g, p) \cap Cells(g, q) = {}
    BY <1>11 DEF WellFormed
  <2>4. g.live = {1, 3} \cup {2, 4} \cup UNION {Cells(g, p) : p \in {2, 4}}
    <3>1. UNION {Cells(g, p) : p \in {2, 4}} = UNION {Cells(h, p) : p \in {2, 4}}
      BY <1>11
    <3> QED BY <1>5, <3>1 DEF WellFormed
  <2>5. {2, 4} \subseteq Items
    BY <1>1
  <2> QED BY <1>5, <2>1, <2>2, <2>3, <2>4, <2>5 DEF WellFormed
<1>10. SameFields(h, g, {2, 4})
  BY <1>5, <1>7 DEF SameFields
<1> QED BY <1>1, <1>3, <1>5, <1>6, <1>9, <1>10

AtStart(h) ==
  /\ Shape(h, {}, 0) /\ h.child[3] = 0
  /\ \A n \in Settings : Val(h, 2, n) = 1
  /\ \A n \in Certs : Val(h, 4, n) = 1

\* The heap that ACAP() makes.
LEMMA StartIs ==
  ASSUME NEW h, Bare(h, 4), NEW f, f = Build(h, 2, SetToSeq(Settings), 1),
         NEW k, k = AddItem(AddItem(f, 1, 2), 1, 3), NEW g, g = Build(k, 4, SetToSeq(Certs), 1)
  PROVE  AtStart(g)
<1> DEFINE A == SetToSeq(Settings)
           B == SetToSeq(Certs)
           M == Len(A)
           N == Len(B)
<1>1. /\ InTurn(A, Settings) /\ InTurn(B, Certs) /\ M \in Nat /\ N \in Nat
      /\ M + N + 4 <= MaxItems /\ MaxItems \in Nat
  <2>1. InTurn(A, Settings) /\ InTurn(B, Certs)
    BY SetInTurn, TreeAssumption
  <2>2. M = Cardinality(Settings) /\ N = Cardinality(Certs) /\ M \in Nat /\ N \in Nat
    BY <2>1 DEF InTurn
  <2>3. MaxItems >= 4 + M + N /\ MaxItems \in Nat
    BY <2>2, TreeAssumption, ItemsAre
  <2> HIDE DEF M, N, A, B
  <2> QED BY <2>1, <2>2, <2>3
<1>2. A \in Seq(AllNames) /\ B \in Seq(AllNames)
  BY <1>1 DEF InTurn, AllNames
<1> HIDE DEF A, B
<1>3. Spare(h) + 4 = MaxItems /\ Spare(h) \in Nat
  <2>1. /\ IsFiniteSet(1 .. MaxItems) /\ Cardinality(1 .. MaxItems) = MaxItems
        /\ IsFiniteSet(1 .. 4) /\ Cardinality(1 .. 4) = 4
    <3>1. MaxItems \in Int /\ 1 \in Int /\ 4 \in Int /\ MaxItems >= 0
      BY HeapAssumption
    <3>2. IsFiniteSet(1 .. MaxItems) /\ Cardinality(1 .. MaxItems) = MaxItems
      BY <3>1, FS_Interval
    <3>3. IsFiniteSet(1 .. 4) /\ Cardinality(1 .. 4) = IF 1 > 4 THEN 0 ELSE 4 - 1 + 1
      BY <3>1, FS_Interval
    <3> QED BY <3>2, <3>3
  <2>2. Items = 1 .. MaxItems /\ h.live = 1 .. 4 /\ (1 .. 4) \cap (1 .. MaxItems) = 1 .. 4
    <3> HIDE DEF M, N
    <3>1. 4 <= MaxItems
      BY <1>1
    <3> QED BY <1>1, <3>1, ItemsAre DEF Bare
  <2>3. Cardinality((1 .. MaxItems) \ (1 .. 4)) = MaxItems - Cardinality((1 .. MaxItems) \cap (1 .. 4))
    BY <2>1, FS_Difference
  <2>4. (1 .. MaxItems) \cap (1 .. 4) = 1 .. 4
    BY <2>2
  <2>5. Spare(h) = MaxItems - 4
    BY <2>1, <2>2, <2>3, <2>4 DEF Spare
  <2> HIDE DEF M, N
  <2> QED BY <1>1, <2>5, SpareType
<1>4. Room(h, M) /\ 4 <= MaxItems
  <2> HIDE DEF M, N
  <2>1. M <= Spare(h) /\ 4 <= MaxItems
    BY <1>1, <1>3
  <2> QED BY <2>1 DEF Room, Spare
<1> DEFINE O == {2, 4}
<1>5. /\ WellFormed(h, O) /\ Children(h, 2) = << >> /\ Children(h, 4) = << >>
      /\ {1, 2, 3, 4} \subseteq Items
  <2> HIDE DEF M, N
  <2>1. MaxItems >= 4
    BY <1>1, <1>4
  <2> QED BY <2>1, BareIs, ItemsAre
<1>6. Built(h, f, O, 2, A, 1, M)
  <2>1. 2 \in O /\ 1 \in Nat
    OBVIOUS
  <2> HIDE DEF O
  <2> QED BY <1>2, <1>4, <1>5, <2>1, BuildIs DEF A
<1>7. PICK s \in Seq(Items) : Edited(h, f, O, 2, s) /\ Spare(f) = Spare(h) - M
  BY <1>6 DEF Built
<1>8. Filled(f, 2, Settings, 1)
  <2>1. 2 \in O
    OBVIOUS
  <2> HIDE DEF O
  <2> QED BY <1>1, <1>6, <2>1, BuiltFields
<1>9. /\ WellFormed(f, O) /\ f.child[1] = 0 /\ f.child[3] = 0 /\ f.child[4] = 0 /\ Children(f, 4) = << >>
      /\ \A j \in {1, 2, 3, 4} : f.next[j] = 0
  <2>1. \A j \in {1, 2, 3, 4} : h.next[j] = 0 /\ h.child[j] = 0
    BY <1>5 DEF Bare
  <2>2. /\ \A j \in O \cup {1, 3} : f.next[j] = h.next[j] /\ (j # 2 => f.child[j] = h.child[j])
        /\ WellFormed(f, O) /\ \A q \in O : q # 2 => Children(f, q) = Children(h, q)
    BY <1>7 DEF Edited
  <2> QED BY <1>5, <2>1, <2>2
<1>10. /\ WellFormed(k, O) /\ SameFields(f, k, O) /\ k.live = f.live /\ k.child[1] = 2 /\ k.child[3] = 0
       /\ k.next[1] = 0 /\ k.next[2] = 3 /\ k.next[3] = 0 /\ k.next[4] = 0
  <2>1. f.next[1] = 0 /\ f.next[2] = 0 /\ f.next[3] = 0 /\ f.next[4] = 0
    BY <1>9
  <2> QED BY <1>9, <2>1, AppLinked
<1>11. Children(k, 4) = << >> /\ Room(k, N)
  <2>1. Children(k, 4) = Children(f, 4) /\ Spare(k) = Spare(f)
    BY <1>10 DEF SameFields, Spare
  <2> HIDE DEF M, N
  <2>2. N <= Spare(k)
    BY <1>1, <1>3, <1>7, <2>1
  <2> QED BY <1>9, <2>1, <2>2 DEF Room, Spare
<1>12. Built(k, g, O, 4, B, 1, N)
  <2>1. 4 \in O /\ 1 \in Nat
    OBVIOUS
  <2> HIDE DEF O
  <2> QED BY <1>2, <1>10, <1>11, <2>1, BuildIs DEF B
<1>13. PICK t : Edited(k, g, O, 4, t)
  BY <1>12 DEF Built
<1>14. Filled(g, 4, Certs, 1)
  <2>1. 4 \in O
    OBVIOUS
  <2> HIDE DEF O
  <2> QED BY <1>1, <1>12, <2>1, BuiltFields
<1>15. /\ WellFormed(g, O) /\ SameFields(k, g, O \ {4})
       /\ \A j \in O \cup {1, 3} : g.next[j] = k.next[j] /\ (j # 4 => g.child[j] = k.child[j])
  <2>1. WellFormed(g, O) /\ SameFields(k, g, O \ {4})
    BY <1>13, EditedSame DEF AllBut
  <2> QED BY <1>13, <2>1 DEF Edited
<1>16. Filled(g, 2, Settings, 1)
  <2>1. 2 \in O /\ 2 \in O \ {4} /\ Children(f, 2) \in Seq(Items) /\ Children(k, 2) \in Seq(Items)
    BY <1>9, <1>10, ListCells
  <2> HIDE DEF O
  <2>2. (Distinct(f, 2) => Distinct(k, 2)) /\ \A n : Val(k, 2, n) = Val(f, 2, n)
    BY <1>10, <2>1, SameVal
  <2>3. (Distinct(k, 2) => Distinct(g, 2)) /\ \A n : Val(g, 2, n) = Val(k, 2, n)
    <3> DEFINE P == O \ {4}
    <3>1. SameFields(k, g, P) /\ 2 \in P
      BY <1>15, <2>1
    <3> HIDE DEF P
    <3> QED BY <2>1, <3>1, SameVal
  <2> QED BY <1>8, <2>2, <2>3 DEF Filled
<1>17. Shape(g, {}, 0)
  <2>1. Objects({}, 0) = O
    BY DEF Objects
  <2>2. g.child[1] = 2 /\ g.next[1] = 0 /\ g.next[2] = 3 /\ g.next[3] = 0 /\ g.next[4] = 0 /\ g.child[3] = 0
    BY <1>10, <1>15
  <2>3. WellFormed(g, Objects({}, 0)) /\ Distinct(g, 2) /\ Distinct(g, 4) /\ 0 \in Links
    BY <1>14, <1>15, <1>16, <2>1, ItemsAre DEF Filled
  <2> QED BY <2>2, <2>3 DEF Shape
<1>18. g.child[3] = 0
  BY <1>10, <1>15
<1> QED BY <1>14, <1>16, <1>17, <1>18 DEF AtStart, Filled

\* It is that of the initial states.
LEMMA InitTree == Init => AtStart(heap)
<1> SUFFICES ASSUME Init PROVE AtStart(heap)
  OBVIOUS
<1> DEFINE h0 == NoHeap(NoName)
           h1 == New(h0, NoName, 0)
           h2 == New(h1, NoName, 0)
           h3 == New(h2, NoName, 0)
           h4 == New(h3, NoName, 0)
           f  == Build(h4, 2, SetToSeq(Settings), 1)
           k  == AddItem(AddItem(f, 1, 2), 1, 3)
<1>1. heap = Build(k, 4, SetToSeq(Certs), 1)
  BY DEF Init
<1>2. Bare(h0, 0)
  <2>1. /\ \A i \in Items : 0 \in Links /\ NoName \in AllNames /\ 0 \in Nat
        /\ Empty \in [Items -> Links] /\ Empty \in [Items -> Nat]
        /\ [i \in Items |-> NoName] \in [Items -> AllNames]
    BY ItemsAre DEF Empty, AllNames
  <2>2. h0 \in Heaps
    BY <2>1 DEF Heaps, NoHeap
  <2>3. h0.live = 1 .. 0 /\ \A j \in Items : h0.next[j] = 0 /\ h0.prev[j] = 0 /\ h0.child[j] = 0
    BY DEF NoHeap, Empty
  <2> HIDE DEF h0
  <2> QED BY <2>2, <2>3 DEF Bare
<1>3. 4 <= MaxItems /\ MaxItems \in Nat
  BY FS_CardinalityType, TreeAssumption, ItemsAre
<1> HIDE DEF h0
<1>4. Bare(h1, 1)
  <2>1. Bare(h1, 0 + 1)
    BY <1>2, <1>3, BareNext
  <2> QED BY <2>1
<1> HIDE DEF h1
<1>5. Bare(h2, 2)
  <2>1. Bare(h2, 1 + 1)
    BY <1>4, <1>3, BareNext
  <2> QED BY <2>1
<1> HIDE DEF h2
<1>6. Bare(h3, 3)
  <2>1. Bare(h3, 2 + 1)
    BY <1>5, <1>3, BareNext
  <2> QED BY <2>1
<1> HIDE DEF h3
<1>7. Bare(h4, 4)
  <2>1. Bare(h4, 3 + 1)
    BY <1>6, <1>3, BareNext
  <2> QED BY <2>1
<1> HIDE DEF h4
<1> QED BY <1>1, <1>7, StartIs
-----------------------------------------------------------------------------
(* The invariant holds at the start. *)

\* There is no group yet.
LEMMA InitInv == Init => TreeInv({})
<1> SUFFICES ASSUME Init PROVE TreeInv({})
  OBVIOUS
<1>1. AtStart(heap)
  BY InitTree
<1>2. /\ app = 1 /\ settings = 2 /\ status = 3 /\ certs = 4 /\ locked = FALSE
      /\ pc = [t \in Threads |-> "idle"] /\ arg = [t \in Threads |-> NoArg]
      /\ group = [t \in Threads |-> 0] /\ tail = [t \in Threads |-> 0]
      /\ params = 0 /\ grp = 0 /\ cur = 0 /\ sets = 0 /\ requests = 0
      /\ shown = NoValues /\ printed = NoValues /\ wanted = [n \in Settings |-> 1] /\ kept = [n \in Certs |-> 1]
      /\ raced = FALSE /\ stale = "nothing"
  BY DEF Init
<1>3. 0 \in Links /\ \A t \in Threads : pc[t] = "idle" /\ group[t] = 0 /\ tail[t] = 0
  BY <1>2, ItemsAre
<1>4. Types
  <2>1. arg \in [Threads -> [group : Groups \cup {NoName}, name : Names \cup {NoName}, value : Nat]]
    BY <1>2 DEF NoArg
  <2>2. NoValues \in [Groups \X Names -> Nat]
    BY DEF NoValues
  <2>3. wanted \in [Settings -> Nat] /\ kept \in [Certs -> Nat]
    BY <1>2
  <2>4. /\ pc \in [Threads -> {"idle", "create", "link", "close", "write", "wait", "status", "app", "post"}]
        /\ group \in [Threads -> Links] /\ tail \in [Threads -> Links]
    BY <1>2, <1>3
  <2> QED BY <1>2, <1>3, <2>1, <2>2, <2>3, <2>4 DEF Types, Appending
<1>5. HttpAlone
  BY <1>2, <1>3, TreeAssumption DEF HttpAlone
<1>6. Shape(heap, {}, params) /\ heap.child[3] = 0
  BY <1>1, <1>2 DEF AtStart
<1>7. Placed({})
  BY <1>3 DEF Placed, Holding
<1>8. Current
  BY <1>1, <1>2 DEF AtStart, Current
<1>9. Reading({})
  BY <1>2, <1>3, TreeAssumption DEF Reading
<1>10. Children(heap, 3) = << >> /\ ListOf(heap, 3, << >>)
  BY <1>6, ShapeParts, NoCells
<1>11. OneAppends({})
  <2>1. InOrder(heap, {}, Settled)
    BY <1>6, <1>10 DEF InOrder, ListOf, ToSet
  <2>2. {} \ Linking = {}
    OBVIOUS
  <2> QED BY <1>3, <2>1, <2>2 DEF OneAppends, Appending
<1>12. Named({})
  BY <1>3 DEF Named, Holding
<1>13. Shows({})
  BY <1>2 DEF Shows, NoValues
<1>14. Prints
  BY <1>3, TreeAssumption DEF Prints
<1> QED BY <1>4, <1>5, <1>6, <1>7, <1>8, <1>9, <1>11, <1>12, <1>13, <1>14 DEF TreeInv, Grouped

-----------------------------------------------------------------------------
(* What a step of the HTTP thread leaves to those that set fields. *)

\* No thread enters or leaves the setting of a field.
Calm ==
  /\ pc' \in [Threads -> {"idle", "create", "link", "close", "write", "wait", "status", "app", "post"}]
  /\ \A t \in Threads : pc[t] \in Appending \cup {"write"} \/ pc'[t] \in Appending \cup {"write"}
                        => pc'[t] = pc[t]
  /\ UNCHANGED <<roots, arg, group, tail, sets, raced, shown>>

\* The groups and those that set them are then what they were.
LEMMA OthersKept ==
  ASSUME NEW G, Grouped(G), Shape(heap, G, params), heap' \in Heaps, Calm,
         NEW P, G \subseteq P, P \subseteq Objects(G, params), Untouched(heap, heap', G, P)
  PROVE  Grouped(G)'
<1>1. \A t \in Threads : /\ pc'[t] = "create" <=> pc[t] = "create"
                         /\ pc'[t] = "link" <=> pc[t] = "link"
                         /\ pc'[t] = "close" <=> pc[t] = "close"
                         /\ pc'[t] = "write" <=> pc[t] = "write"
  BY DEF Calm, Appending
<1>2. arg' = arg /\ group' = group /\ tail' = tail /\ raced' = raced /\ shown' = shown
  BY DEF Calm
<1>3. Placed(G)'
  BY <1>1, <1>2 DEF Grouped, Placed, Holding
<1>4. ASSUME ~raced PROVE OneAppends(G)' /\ Named(G)' /\ Shows(G)'
  <2>1. OneAppends(G) /\ Named(G) /\ Shows(G)
    BY <1>4 DEF Grouped
  <2>2. Linking' = Linking
    <3>1. {u \in Threads : pc'[u] = "link"} = {u \in Threads : pc[u] = "link"}
      BY <1>1
    <3> QED BY <1>2, <3>1 DEF Linking
  <2>3. Settled' <=> Settled
    BY <1>1 DEF Settled
  <2>4. InOrder(heap', G \ Linking, Settled) /\ Children(heap', 3) = Children(heap, 3)
    <3> DEFINE R == G \ Linking
    <3>1. InOrder(heap, R, Settled) /\ R \in SUBSET G
      BY <2>1 DEF OneAppends
    <3> HIDE DEF R
    <3>2. InOrder(heap', R, Settled) /\ Children(heap', 3) = Children(heap, 3)
      BY <3>1, OrderKept
    <3> QED BY <3>2 DEF R
  <2>5. InOrder(heap', G \ Linking', Settled')
    BY <2>2, <2>3, <2>4 DEF InOrder
  <2>6. OneAppends(G)'
    <3>1. \A t \in Threads : pc[t] = "link" =>
            /\ Cells(heap', group[t]) = {} /\ heap'.next[group[t]] = 0
            /\ tail[t] = LastOf(Children(heap', 3))
      <4> TAKE t \in Threads
      <4> HAVE pc[t] = "link"
      <4>1. group[t] \in G /\ Cells(heap, group[t]) = {} /\ heap.next[group[t]] = 0
            /\ tail[t] = LastOf(Children(heap, 3))
        BY <2>1 DEF Grouped, Placed, Holding, OneAppends
      <4>2. Cells(heap', group[t]) = Cells(heap, group[t]) /\ heap'.next[group[t]] = heap.next[group[t]]
        BY <4>1 DEF Untouched, SameFields, SameLinks, Cells
      <4> QED BY <2>4, <4>1, <4>2
    <3>2. \A t \in Threads : pc[t] = "close" =>
            Children(heap', 3) # << >> /\ group[t] = LastOf(Children(heap', 3))
      BY <2>1, <2>4 DEF OneAppends
    <3>3. \A t, u \in Threads : pc'[t] \in Appending /\ pc'[u] \in Appending => t = u
      BY <1>1, <2>1 DEF OneAppends, Appending
    <3>4. \A t, u \in Threads : pc'[t] = "write" /\ pc'[u] = "link" => group[t] # group[u]
      BY <1>1, <2>1 DEF OneAppends
    <3> QED BY <1>1, <1>2, <2>5, <3>1, <3>2, <3>3, <3>4 DEF OneAppends
  <2>7. \A g \in G : heap'.name[g] = heap.name[g]
    BY DEF Untouched, SameLinks
  <2>8. Named(G)'
    <3>1. \A t \in Threads : pc'[t] = "create" => \A g \in G : heap'.name[g] # arg'[t].group
      BY <1>1, <1>2, <2>1, <2>7 DEF Named
    <3>2. \A t \in Threads : pc'[t] \in Holding => heap'.name[group'[t]] = arg'[t].group
      BY <1>1, <1>2, <2>1, <2>7 DEF Named, Holding, Grouped, Placed
    <3> QED BY <2>1, <2>7, <3>1, <3>2 DEF Named
  <2>9. Shows(G)'
    <3>1. \A g \in G : \A n : Val(heap', g, n) = Val(heap, g, n)
      BY UntouchedSame
    <3> QED BY <1>2, <2>1, <2>7, <3>1 DEF Shows
  <2> QED BY <2>6, <2>8, <2>9
<1> QED BY <1>2, <1>3, <1>4 DEF Grouped
-----------------------------------------------------------------------------
(* The steps of the HTTP thread. *)

Requesting == {"idle", "wait", "status", "app", "post"}

\* The HTTP thread goes on, and sets no field.
Onward(to) ==
  /\ Calm /\ pc'[Http] = to
  /\ \A t \in Threads : pc'[t] \in {"wait", "status", "app", "post"} => t = Http

\* A request taken, answered or finished is such a step.
LEMMA HttpGoes ==
  ASSUME Types, HttpAlone, NEW to \in Requesting, pc[Http] \in Requesting, pc' = [pc EXCEPT ![Http] = to],
         UNCHANGED <<roots, arg, group, tail, sets, raced, shown>>
  PROVE  Onward(to)
<1>1. /\ pc \in [Threads -> {"idle", "create", "link", "close", "write", "wait", "status", "app", "post"}]
      /\ Http \in Threads
      /\ to \in {"idle", "create", "link", "close", "write", "wait", "status", "app", "post"}
  BY TreeAssumption DEF Types, Requesting
<1>2. pc' \in [Threads -> {"idle", "create", "link", "close", "write", "wait", "status", "app", "post"}]
      /\ pc'[Http] = to /\ \A t \in Threads : t # Http => pc'[t] = pc[t]
  BY <1>1
<1>3. Calm
  BY <1>1, <1>2 DEF Calm, Requesting, Appending
<1>4. \A t \in Threads : pc'[t] \in {"wait", "status", "app", "post"} => t = Http
  BY <1>2 DEF HttpAlone
<1> QED BY <1>2, <1>3, <1>4 DEF Onward

\* Nothing changes where the heap does not.
LEMMA UntouchedItself == \A h, G, P : Untouched(h, h, G, P)
BY DEF Untouched, SameFields, SameLinks

\* What the fields set are, while the HTTP thread goes.
SetTypes ==
  /\ app = 1 /\ settings = 2 /\ status = 3 /\ certs = 4
  /\ pc \in [Threads -> {"idle", "create", "link", "close", "write",
                         "wait", "status", "app", "post"}]
  /\ arg \in [Threads -> [group : Groups \cup {NoName}, name : Names \cup {NoName}, value : Nat]]
  /\ group \in [Threads -> Links] /\ tail \in [Threads -> Links]
  /\ sets \in Nat /\ raced \in BOOLEAN /\ shown \in [Groups \X Names -> Nat]
  /\ \A t \in Threads : pc[t] \in Appending \cup {"write"} => arg[t].group \in Groups /\ arg[t].name \in Names

\* These types are kept.
LEMMA CalmTypes ==
  ASSUME Types, Calm
  PROVE  SetTypes'
<1>1. /\ app' = 1 /\ settings' = 2 /\ status' = 3 /\ certs' = 4
      /\ arg' = arg /\ group' = group /\ tail' = tail /\ sets' = sets /\ raced' = raced /\ shown' = shown
  BY DEF Types, Calm, roots
<1>2. \A t \in Threads : pc'[t] \in Appending \cup {"write"} =>
        arg'[t].group \in Groups /\ arg'[t].name \in Names
  <2>1. \A t \in Threads : pc'[t] \in Appending \cup {"write"} => pc'[t] = pc[t]
    BY DEF Calm
  <2> QED BY <1>1, <2>1 DEF Types
<1> QED BY <1>1, <1>2 DEF Types, Calm, SetTypes

\* The first field of an object, or none.
LEMMA FirstCell ==
  ASSUME NEW h, NEW O, WellFormed(h, O), NEW p \in O
  PROVE  /\ h.child[p] \in Cells(h, p) \cup {0}
         /\ \A j \in Cells(h, p) : h.next[j] \in Cells(h, p) \cup {0} /\ j # 0
<1> DEFINE s == Children(h, p)
<1>1. h \in Heaps /\ p \in Items /\ ListOf(h, p, s)
  BY ListCells
<1>2. /\ s \in Seq(Items) /\ Len(s) \in Nat /\ DOMAIN s = 1 .. Len(s)
      /\ h.child[p] = IF s = << >> THEN 0 ELSE s[1]
      /\ \A k \in DOMAIN s : s[k] # 0 /\ h.next[s[k]] = IF k = Len(s) THEN 0 ELSE s[k + 1]
  BY <1>1, ListParts, ItemsAre
<1> HIDE DEF s
<1>3. \A k \in DOMAIN s : s[k] \in ToSet(s)
  BY DEF ToSet
<1>4. h.child[p] \in ToSet(s) \cup {0}
  BY <1>2, <1>3
<1>5. ASSUME NEW j \in ToSet(s) PROVE h.next[j] \in ToSet(s) \cup {0} /\ j # 0
  <2>1. PICK k \in DOMAIN s : s[k] = j
    BY DEF ToSet
  <2>2. k # Len(s) => k + 1 \in DOMAIN s
    BY <1>2
  <2> QED BY <1>2, <1>3, <2>1, <2>2
<1> QED BY <1>4, <1>5 DEF Cells, s

\* GetStatus keeps the invariant: the HTTP thread waits for the mutex.
LEMMA GetStatusStep ==
  ASSUME NEW G, TreeInv(G), GetStatus
  PROVE  TreeInv(G)'
<1>1. /\ Types /\ HttpAlone /\ Shape(heap, G, params) /\ Grouped(G) /\ Current /\ Reading(G)
      /\ ~raced => Prints
  BY DEF TreeInv
<1>2. /\ pc[Http] = "idle" /\ pc' = [pc EXCEPT ![Http] = "wait"] /\ requests' = requests + 1
      /\ UNCHANGED <<heap, roots, locked, arg, group, tail, sets, raced, params, grp, cur, wanted, kept,
                     printed, stale, shown>>
  BY DEF GetStatus, Request, Goes, setVars
<1>3. Onward("wait")
  BY <1>1, <1>2, HttpGoes DEF Requesting
<1>4. SetTypes'
  BY <1>1, <1>3, CalmTypes DEF Onward
<1>5. Types'
  BY <1>1, <1>2, <1>4 DEF Types, SetTypes
<1>6. HttpAlone'
  BY <1>1, <1>2, <1>3 DEF HttpAlone, Onward
<1>7. Shape(heap, G, params)'
  BY <1>1, <1>2
<1>8. Grouped(G)'
  <2>1. Untouched(heap, heap', G, G) /\ heap' \in Heaps /\ G \subseteq Objects(G, params)
    BY <1>1, <1>2, UntouchedItself, ShapeParts
  <2> QED BY <1>1, <1>3, <2>1, OthersKept DEF Onward
<1>9. Current'
  BY <1>1, <1>2 DEF Current
<1>10. Reading(G)'
  BY <1>1, <1>2, <1>3 DEF Reading, Onward
<1>11. Prints'
  BY <1>3 DEF Prints, Onward
<1> QED BY <1>5, <1>6, <1>7, <1>8, <1>9, <1>10, <1>11 DEF TreeInv

\* Where a print of the status starts.
StartsIn(G) == grp' \in G \cup {0} /\ cur' \in CellsOf(heap, grp') \cup {0} /\ grp' \in Links /\ cur' \in Links

\* It is at the first group and its first field.
LEMMA PrintStarts ==
  ASSUME NEW G, Types, Shape(heap, G, params), grp' = heap.child[status],
         cur' = IF grp' = 0 THEN 0 ELSE heap.child[grp']
  PROVE  StartsIn(G)
<1>1. status = 3 /\ WellFormed(heap, Objects(G, params)) /\ G \subseteq Items /\ 0 \notin G
      /\ heap.child[3] \in G \cup {0} /\ G \subseteq Objects(G, params)
  <2>1. status = 3
    BY DEF Types
  <2>2. WellFormed(heap, Objects(G, params)) /\ heap.child[3] \in G \cup {0}
    BY DEF Shape
  <2>3. G \subseteq Items /\ 0 \notin G /\ G \subseteq Objects(G, params)
    BY ShapeParts
  <2> QED BY <2>1, <2>2, <2>3
<1>2. ASSUME NEW g \in G PROVE heap.child[g] \in Cells(heap, g) \cup {0} /\ Cells(heap, g) \subseteq Items
  BY <1>1, FirstCell, ListCells
<1> QED BY <1>1, <1>2, ItemsAre DEF StartsIn, CellsOf

\* AnswerStatus keeps it: no field is printed, and all that is set is ahead.
LEMMA AnswerStatusStep ==
  ASSUME NEW G, TreeInv(G), AnswerStatus
  PROVE  TreeInv(G)'
<1>1. /\ Types /\ HttpAlone /\ Shape(heap, G, params) /\ Grouped(G) /\ Current /\ Reading(G)
  BY DEF TreeInv
<1>2. /\ pc[Http] = "wait" /\ pc' = [pc EXCEPT ![Http] = "status"] /\ locked' = TRUE
      /\ grp' = heap.child[status] /\ cur' = IF grp' = 0 THEN 0 ELSE heap.child[grp'] 
      /\ printed' = NoValues
      /\ UNCHANGED <<heap, roots, arg, group, tail, sets, raced, params, wanted, kept, stale, shown, requests>>
  BY DEF AnswerStatus, StartPrint, Goes, setVars
<1>3. Onward("status")
  BY <1>1, <1>2, HttpGoes DEF Requesting
<1>4. SetTypes'
  BY <1>1, <1>3, CalmTypes DEF Onward
<1>12. StartsIn(G)
  <2> HIDE <1>2
  <2>1. grp' = heap.child[status] /\ cur' = IF grp' = 0 THEN 0 ELSE heap.child[grp']
    BY <1>2
  <2> QED BY <1>1, <2>1, PrintStarts
<1>13. NoValues \in [Groups \X Names -> Nat]
  BY DEF NoValues
<1>5. Types'
  BY <1>1, <1>2, <1>4, <1>12, <1>13 DEF Types, SetTypes, StartsIn
<1>6. HttpAlone'
  BY <1>1, <1>2, <1>3 DEF HttpAlone, Onward
<1>7. Shape(heap, G, params)'
  BY <1>1, <1>2
<1>8. Grouped(G)'
  <2>1. Untouched(heap, heap', G, G) /\ heap' \in Heaps /\ G \subseteq Objects(G, params)
    BY <1>1, <1>2, UntouchedItself, ShapeParts
  <2> QED BY <1>1, <1>3, <2>1, OthersKept DEF Onward
<1>9. Current'
  BY <1>1, <1>2 DEF Current
<1>10. Reading(G)'
  BY <1>1, <1>2, <1>3, <1>12 DEF Reading, Onward, StartsIn
<1>11. ASSUME ~raced PROVE Prints'
  <2> DEFINE R == G \ Linking
  <2>1. R \in SUBSET G /\ InOrder(heap, R, Settled) /\ Named(G) /\ Shows(G) /\ OneAppends(G) /\ Placed(G)
    BY <1>1, <1>11 DEF Grouped, OneAppends
  <2>9. \A g \in G \ R : Cells(heap, g) = {}
    BY <2>1 DEF Linking, OneAppends
  <2> HIDE DEF R
  <2>2. grp' \in ToSet(Children(heap, 3)) \cup {0}
    <3>1. Line(heap, Children(heap, 3)) /\ status = 3
      BY <1>1, <2>1, StatusLine DEF Types
    <3>2. Children(heap, 3) # << >> => 1 \in DOMAIN Children(heap, 3)
      BY <3>1 DEF Line
    <3> QED BY <1>2, <3>1, <3>2 DEF Line, ToSet
  <2>3. ASSUME NEW x \in R, NEW j \in Cells(heap, x)
        PROVE  Ahead(heap, grp', cur', heap.name[x], heap.name[j])
    <3>1. status = 3
      BY <1>1 DEF Types
    <3>2. grp' = heap.child[3] /\ cur' = IF grp' = 0 THEN 0 ELSE heap.child[grp']
      BY <1>2, <3>1
    <3> QED BY <1>1, <2>1, <2>3, <3>2, AheadStart
  <2>4. ASSUME NEW k \in Groups, NEW n \in Names, ~Ahead(heap, grp', cur', k, n)
        PROVE  shown[<<k, n>>] = 0
    <3>1. CASE \A g \in G : heap.name[g] # k
      BY <2>1, <3>1 DEF Shows
    <3>2. ASSUME NEW g \in G, heap.name[g] = k PROVE shown[<<k, n>>] = 0
      <4>1. shown[<<k, n>>] = Val(heap, g, n)
        BY <2>1, <3>2 DEF Shows
      <4>2. WellFormed(heap, Objects(G, params)) /\ g \in Objects(G, params)
        BY <1>1, ShapeParts DEF Shape
      <4>3. CASE \A j \in Cells(heap, g) : heap.name[j] # n
        BY <4>1, <4>2, <4>3, ValIs
      <4>4. ASSUME NEW j \in Cells(heap, g), heap.name[j] = n PROVE FALSE
        <5>1. g \in R
          BY <2>9, <4>4
        <5> QED BY <2>3, <2>4, <3>2, <4>4, <5>1
      <4> QED BY <4>3, <4>4
    <3> QED BY <3>1, <3>2
  <2>5. ASSUME NEW k \in Groups, NEW n \in Names
        PROVE  printed'[<<k, n>>] = IF Ahead(heap', grp', cur', k, n) THEN 0 ELSE shown'[<<k, n>>]
    <3>1. printed'[<<k, n>>] = 0 /\ heap' = heap /\ shown' = shown
      BY <1>2 DEF NoValues
    <3> QED BY <2>4, <3>1
  <2>6. heap' = heap
    BY <1>2
  <2> QED BY <2>2, <2>5, <2>6 DEF Prints
<1>14. raced' = raced
  BY <1>2
<1> QED BY <1>5, <1>6, <1>7, <1>8, <1>9, <1>10, <1>11, <1>14 DEF TreeInv

\* GetApp keeps it.
LEMMA GetAppStep ==
  ASSUME NEW G, TreeInv(G), GetApp
  PROVE  TreeInv(G)'
<1>1. /\ Types /\ HttpAlone /\ Shape(heap, G, params) /\ Grouped(G) /\ Current /\ Reading(G)
  BY DEF TreeInv
<1>2. /\ pc[Http] = "idle" /\ pc' = [pc EXCEPT ![Http] = "app"] /\ locked' = locked
      /\ grp' = heap.child[status] /\ cur' = IF grp' = 0 THEN 0 ELSE heap.child[grp'] 
      /\ printed' = NoValues /\ requests' = requests + 1
      /\ UNCHANGED <<heap, roots, arg, group, tail, sets, raced, params, wanted, kept, stale, shown>>
  BY DEF GetApp, Request, StartPrint, Goes, setVars
<1>3. Onward("app")
  BY <1>1, <1>2, HttpGoes DEF Requesting
<1>4. SetTypes'
  BY <1>1, <1>3, CalmTypes DEF Onward
<1>12. StartsIn(G)
  BY <1>1, <1>2, PrintStarts
<1>13. NoValues \in [Groups \X Names -> Nat]
  BY DEF NoValues
<1>5. Types'
  BY <1>1, <1>2, <1>4, <1>12, <1>13 DEF Types, SetTypes, StartsIn
<1>6. HttpAlone'
  BY <1>1, <1>2, <1>3 DEF HttpAlone, Onward
<1>7. Shape(heap, G, params)'
  BY <1>1, <1>2
<1>8. Grouped(G)'
  <2>1. Untouched(heap, heap', G, G) /\ heap' \in Heaps /\ G \subseteq Objects(G, params)
    BY <1>1, <1>2, UntouchedItself, ShapeParts
  <2> QED BY <1>1, <1>3, <2>1, OthersKept DEF Onward
<1>9. Current'
  BY <1>1, <1>2 DEF Current
<1>10. Reading(G)'
  BY <1>1, <1>2, <1>3, <1>12 DEF Reading, Onward, StartsIn
<1>11. Prints'
  BY <1>3 DEF Prints, Onward
<1> QED BY <1>5, <1>6, <1>7, <1>8, <1>9, <1>10, <1>11 DEF TreeInv
\* WalkEnd keeps it.
LEMMA WalkEndStep ==
  ASSUME NEW G, TreeInv(G), WalkEnd
  PROVE  TreeInv(G)'
<1>1. /\ Types /\ HttpAlone /\ Shape(heap, G, params) /\ Grouped(G) /\ Current /\ Reading(G)
  BY DEF TreeInv
<1>2. /\ pc[Http] \in {"status", "app"} /\ pc' = [pc EXCEPT ![Http] = "idle"]
      /\ locked' = (locked /\ pc[Http] # "status") /\ printed' = NoValues
      /\ UNCHANGED <<heap, roots, arg, group, tail, sets, raced, params, grp, cur, requests, wanted, kept,
                     stale, shown>>
  BY DEF WalkEnd, setVars
<1>3. Onward("idle")
  BY <1>1, <1>2, HttpGoes DEF Requesting
<1>4. SetTypes'
  BY <1>1, <1>3, CalmTypes DEF Onward
<1>5. Types'
  <2>1. NoValues \in [Groups \X Names -> Nat]
    BY DEF NoValues
  <2>2. locked' \in BOOLEAN
    BY <1>2
  <2> QED BY <1>1, <1>2, <1>4, <2>1, <2>2 DEF Types, SetTypes
<1>6. HttpAlone'
  <2>1. locked' = FALSE /\ params = 0
    BY <1>1, <1>2 DEF HttpAlone, Types
  <2> QED BY <1>2, <1>3, <2>1 DEF HttpAlone, Onward
<1>7. Shape(heap, G, params)'
  BY <1>1, <1>2
<1>8. Grouped(G)'
  <2>1. Untouched(heap, heap', G, G) /\ heap' \in Heaps /\ G \subseteq Objects(G, params)
    BY <1>1, <1>2, UntouchedItself, ShapeParts
  <2> QED BY <1>1, <1>3, <2>1, OthersKept DEF Onward
<1>9. Current'
  BY <1>1, <1>2 DEF Current
<1>10. Reading(G)'
  BY <1>1, <1>2, <1>3 DEF Reading, Onward
<1>11. Prints'
  BY <1>3 DEF Prints, Onward
<1> QED BY <1>5, <1>6, <1>7, <1>8, <1>9, <1>10, <1>11 DEF TreeInv

\* A step to the next item, from live ones.
Walking ==
  /\ grp' = IF cur = 0 THEN heap.next[grp] ELSE grp
  /\ cur' = IF cur # 0 THEN heap.next[cur] ELSE IF grp' = 0 THEN 0 ELSE heap.child[grp']
  /\ printed' = IF cur = 0 \/ pc[Http] = "app" THEN printed
                ELSE [printed EXCEPT ![<<heap.name[grp], heap.name[cur]>>] = heap.value[cur]]
  /\ stale' = stale

\* It stays in the groups, and of the status in the fields.
LEMMA WalkInside ==
  ASSUME NEW G, Types, Shape(heap, G, params), Reading(G), pc[Http] \in {"status", "app"}, grp # 0,
         Walking, cur \in Items \cup {0}
  PROVE  /\ grp' \in G \cup {0} /\ grp' \in Links /\ cur' \in Links
         /\ pc[Http] = "status" => cur' \in CellsOf(heap, grp') \cup {0}
<1>1. /\ heap \in Heaps /\ G \subseteq Items /\ 0 \notin G /\ WellFormed(heap, Objects(G, params))
      /\ G \subseteq Objects(G, params)
  BY ShapeParts DEF Shape
<1>2. grp \in G /\ heap.next[grp] \in G \cup {0}
  <2>1. grp \in G
    BY DEF Reading
  <2> QED BY <2>1 DEF Shape
<1>3. grp' \in G \cup {0}
  BY <1>2 DEF Walking
<1>4. ASSUME NEW g \in G
      PROVE  /\ heap.child[g] \in Cells(heap, g) \cup {0} /\ Cells(heap, g) \subseteq Items
             /\ \A j \in Cells(heap, g) : heap.next[j] \in Cells(heap, g) \cup {0}
  BY <1>1, FirstCell, ListCells
<1>5. heap.next \in [Items -> Links] /\ heap.child \in [Items -> Links]
  BY <1>1, HeapParts
<1>6. cur' \in Links
  <2>1. CASE cur # 0
    BY <1>5, <2>1 DEF Walking
  <2>2. CASE cur = 0
    BY <1>1, <1>3, <1>5, <2>2, ItemsAre DEF Walking
  <2> QED BY <2>1, <2>2
<1>7. ASSUME pc[Http] = "status" PROVE cur' \in CellsOf(heap, grp') \cup {0}
  <2>1. CASE cur # 0
    <3>1. cur \in Cells(heap, grp) /\ grp' = grp /\ cur' = heap.next[cur]
      BY <1>7, <2>1 DEF Reading, CellsOf, Walking
    <3> QED BY <1>2, <1>4, <3>1 DEF CellsOf
  <2>2. CASE cur = 0
    <3>1. cur' = IF grp' = 0 THEN 0 ELSE heap.child[grp']
      BY <2>2 DEF Walking
    <3> QED BY <1>3, <1>4, <3>1 DEF CellsOf
  <2> QED BY <2>1, <2>2
<1> QED BY <1>1, <1>3, <1>6, <1>7, ItemsAre

\* What is printed is what was set, and the rest is ahead.
LEMMA WalkPrints ==
  ASSUME NEW G, Types, Shape(heap, G, params), Reading(G), Grouped(G), ~raced, Prints,
         pc[Http] = "status", grp # 0, Walking
  PROVE  /\ grp' \in ToSet(Children(heap, 3)) \cup {0}
         /\ \A k \in Groups, n \in Names :
              printed'[<<k, n>>] = IF Ahead(heap, grp', cur', k, n) THEN 0 ELSE shown[<<k, n>>]
<1> DEFINE R == G \ Linking
<1>1. R \in SUBSET G /\ InOrder(heap, R, Settled) /\ Named(G) /\ Shows(G)
  BY DEF Grouped, OneAppends
<1> HIDE DEF R
<1>2. grp \in R /\ grp \in G /\ ToSet(Children(heap, 3)) = R
  BY <1>1, StatusLine DEF Prints
<1>3. \A k \in Groups, n \in Names :
        printed[<<k, n>>] = IF Ahead(heap, grp, cur, k, n) THEN 0 ELSE shown[<<k, n>>]
  BY DEF Prints
<1>4. printed \in [Groups \X Names -> Nat]
  BY DEF Types
<1>5. CASE cur = 0
  <2>1. grp' = heap.next[grp] /\ cur' = (IF grp' = 0 THEN 0 ELSE heap.child[grp']) /\ printed' = printed
    BY <1>5 DEF Walking
  <2>2. \A k, n : Ahead(heap, grp', cur', k, n) <=> Ahead(heap, grp, 0, k, n)
    BY <1>1, <1>2, <2>1, AheadGroup
  <2>3. grp' \in R \cup {0}
    <3>1. Line(heap, Children(heap, 3))
      BY <1>1, StatusLine
    <3> DEFINE s == Children(heap, 3)
    <3>2. PICK k \in DOMAIN s : s[k] = grp
      BY <1>2 DEF ToSet
    <3>3. /\ heap.next[s[k]] = (IF k = Len(s) THEN 0 ELSE s[k + 1]) /\ DOMAIN s = 1 .. Len(s)
          /\ Len(s) \in Nat
      BY <3>1 DEF Line
    <3> HIDE DEF s
    <3>4. k # Len(s) => k + 1 \in DOMAIN s
      BY <3>3
    <3>5. grp' \in ToSet(s) \cup {0}
      BY <2>1, <3>2, <3>3, <3>4 DEF ToSet
    <3> QED BY <1>2, <3>5 DEF s
  <2> QED BY <1>2, <1>3, <1>5, <2>1, <2>2, <2>3
<1>6. CASE cur # 0
  <2>1. /\ grp' = grp /\ cur' = heap.next[cur] /\ cur \in Cells(heap, grp)
        /\ printed' = [printed EXCEPT ![<<heap.name[grp], heap.name[cur]>>] = heap.value[cur]]
    BY <1>6 DEF Walking, Reading, CellsOf
  <2>2. \A g, k \in R : heap.name[g] = heap.name[k] => g = k
    BY <1>1 DEF Named
  <2>3. \A k, n : Ahead(heap, grp, heap.next[cur], k, n) <=>
                  Ahead(heap, grp, cur, k, n) /\ ~(k = heap.name[grp] /\ n = heap.name[cur])
    BY <1>1, <1>2, <2>1, <2>2, AheadField
  <2>4. WellFormed(heap, Objects(G, params)) /\ grp \in Objects(G, params) /\ Distinct(heap, grp)
    <3>1. {2, 4} \cup G \subseteq Objects(G, params)
      BY ShapeParts
    <3> QED BY <1>2, <3>1 DEF Shape
  <2>5. Val(heap, grp, heap.name[cur]) = heap.value[cur]
    BY <2>1, <2>4, ValIs
  <2>6. \A n \in Names : shown[<<heap.name[grp], n>>] = Val(heap, grp, n)
    BY <1>1, <1>2 DEF Shows
  <2>7. ASSUME NEW k \in Groups, NEW n \in Names
        PROVE  printed'[<<k, n>>] = IF Ahead(heap, grp', cur', k, n) THEN 0 ELSE shown[<<k, n>>]
    <3>1. CASE k = heap.name[grp] /\ n = heap.name[cur]
      <4>1. printed'[<<k, n>>] = heap.value[cur]
        BY <1>4, <2>1, <3>1
      <4>2. shown[<<k, n>>] = heap.value[cur]
        BY <2>5, <2>6, <3>1
      <4> QED BY <2>1, <2>3, <3>1, <4>1, <4>2
    <3>2. CASE ~(k = heap.name[grp] /\ n = heap.name[cur])
      <4>1. printed'[<<k, n>>] = printed[<<k, n>>]
        BY <1>4, <2>1, <3>2
      <4> QED BY <1>3, <2>1, <2>3, <3>2, <4>1
    <3> QED BY <3>1, <3>2
  <2> QED BY <1>2, <2>1, <2>7
<1> QED BY <1>5, <1>6

\* WalkItem keeps it: under the mutex nothing on the way has been freed.
LEMMA WalkItemStep ==
  ASSUME NEW G, TreeInv(G), WalkItem
  PROVE  TreeInv(G)'
<1>1. /\ Types /\ HttpAlone /\ Shape(heap, G, params) /\ Grouped(G) /\ Current /\ Reading(G)
      /\ ~raced => Prints
  BY DEF TreeInv
<1>2. /\ grp # 0 /\ pc[Http] \in {"status", "app"} /\ pc' = pc
      /\ UNCHANGED <<heap, roots, locked, arg, group, tail, sets, raced, params, requests, wanted, kept, shown>>
  BY DEF WalkItem, setVars
<1>3. \/ {grp, cur} \ {0} \subseteq heap.live /\ Walking
      \/ /\ ~({grp, cur} \ {0} \subseteq heap.live)
         /\ grp' = 0 /\ cur' = 0 /\ stale' = pc[Http] /\ printed' = printed
  BY Zenon DEF WalkItem, Walking
<1>4. Calm
  BY <1>1, <1>2 DEF Calm, Types
<1>5. SetTypes'
  BY <1>1, <1>4, CalmTypes
<1>6. /\ heap \in Heaps /\ G \subseteq Items /\ 0 \notin G /\ WellFormed(heap, Objects(G, params))
      /\ G \subseteq Objects(G, params) /\ heap.live \subseteq Items
  BY <1>1, ShapeParts, HeapParts DEF Shape
<1>7. pc[Http] = "status" => {grp, cur} \ {0} \subseteq heap.live
  <2> HAVE pc[Http] = "status"
  <2>1. grp \in G /\ cur \in Cells(heap, grp) \cup {0}
    BY <1>1, <1>2 DEF Reading, CellsOf
  <2>2. grp \in heap.live /\ Cells(heap, grp) \subseteq heap.live
    BY <1>6, <2>1, ListCells
  <2> QED BY <2>1, <2>2
<1>8. /\ grp' \in G \cup {0} /\ grp' \in Links /\ cur' \in Links
      /\ pc[Http] = "status" => cur' \in CellsOf(heap, grp') \cup {0} /\ stale' = stale
      /\ stale' # "status" /\ printed' \in [Groups \X Names -> Nat]
  <2>1. CASE {grp, cur} \ {0} \subseteq heap.live /\ Walking
    <3>1. cur \in Items \cup {0}
      BY <1>6, <2>1
    <3>2. /\ grp' \in G \cup {0} /\ grp' \in Links /\ cur' \in Links
          /\ pc[Http] = "status" => cur' \in CellsOf(heap, grp') \cup {0}
      BY <1>1, <1>2, <2>1, <3>1, WalkInside
    <3>3. stale' = stale /\ stale # "status"
      BY <1>1, <2>1 DEF Walking, Reading
    <3>4. printed' \in [Groups \X Names -> Nat]
      <4>1. printed \in [Groups \X Names -> Nat]
        BY <1>1 DEF Types
      <4>2. CASE cur = 0
        BY <2>1, <4>1, <4>2 DEF Walking
      <4>3. CASE cur # 0
        <5>1. heap.value[cur] \in Nat
          BY <1>6, <3>1, <4>3, HeapParts
        <5> QED BY <2>1, <4>1, <5>1 DEF Walking
      <4> QED BY <4>2, <4>3
    <3> QED BY <3>2, <3>3, <3>4
  <2>2. CASE /\ ~({grp, cur} \ {0} \subseteq heap.live)
             /\ grp' = 0 /\ cur' = 0 /\ stale' = pc[Http] /\ printed' = printed
    <3>1. pc[Http] # "status"
      BY <1>7, <2>2
    <3> QED BY <1>1, <2>2, <3>1, ItemsAre DEF Types
  <2> QED BY <1>3, <2>1, <2>2
<1>9. Types'
  BY <1>1, <1>2, <1>5, <1>8 DEF Types, SetTypes
<1>10. HttpAlone'
  BY <1>1, <1>2 DEF HttpAlone
<1>11. Shape(heap, G, params)'
  BY <1>1, <1>2
<1>12. Grouped(G)'
  <2>1. Untouched(heap, heap', G, G) /\ heap' \in Heaps
    BY <1>2, <1>6, UntouchedItself
  <2> QED BY <1>1, <1>4, <1>6, <2>1, OthersKept
<1>13. Current'
  BY <1>1, <1>2 DEF Current
<1>14. Reading(G)'
  <2>1. pc[Http] # "post"
    BY <1>2
  <2> QED BY <1>2, <1>8, <2>1 DEF Reading
<1>15. ASSUME ~raced PROVE Prints'
  <2>1. CASE pc[Http] # "status"
    BY <1>2, <2>1 DEF Prints
  <2>2. CASE pc[Http] = "status"
    <3>1. Walking
      BY <1>3, <1>7, <2>2
    <3>2. /\ grp' \in ToSet(Children(heap, 3)) \cup {0}
          /\ \A k \in Groups, n \in Names :
               printed'[<<k, n>>] = IF Ahead(heap, grp', cur', k, n) THEN 0 ELSE shown[<<k, n>>]
      BY <1>1, <1>2, <1>15, <2>2, <3>1, WalkPrints
    <3>3. heap' = heap /\ shown' = shown
      BY <1>2
    <3> QED BY <3>2, <3>3 DEF Prints
  <2> QED BY <2>1, <2>2
<1>16. raced' = raced
  BY <1>2
<1> QED BY <1>9, <1>10, <1>11, <1>12, <1>13, <1>14, <1>15, <1>16 DEF TreeInv
\* A field of the settings or of the certificates, the object p, is set to v.
Field(h, g, G, q, p, n, v) == (\E s : Edited(h, g, Objects(G, q), p, s)) /\ Sets(h, g, p, n, v)

FieldSetIn(h, g, G, q, p, n, v) ==
  /\ Shape(g, G, q) /\ g \in Heaps
  /\ Untouched(h, g, G, Objects(G, q) \ {p})
  /\ \A x \in {2, 4} : \A m : Val(g, x, m) = IF x = p /\ m = n THEN v ELSE Val(h, x, m)

\* It keeps the tree and the other fields.
LEMMA FieldShape ==
  ASSUME NEW h, NEW G, NEW q, Shape(h, G, q), NEW p \in {2, 4}, NEW g, NEW n, NEW v, Field(h, g, G, q, p, n, v)
  PROVE  FieldSetIn(h, g, G, q, p, n, v)
<1>1. PICK s : Edited(h, g, Objects(G, q), p, s)
  BY DEF Field
<1>2. Sets(h, g, p, n, v)
  BY DEF Field
<1>3. Shape(g, G, q) /\ Untouched(h, g, G, Objects(G, q) \ {p})
  BY <1>1, <1>2, ShapeEdited DEF Sets
<1>4. g \in Heaps
  BY <1>3, ShapeParts
<1>5. ASSUME NEW x \in {2, 4}, NEW m PROVE Val(g, x, m) = IF x = p /\ m = n THEN v ELSE Val(h, x, m)
  <2>1. CASE x = p
    BY <1>2, <2>1 DEF Sets
  <2>2. CASE x # p
    <3>1. x \in Objects(G, q) /\ x \in Objects(G, q) \ {p}
      BY <2>2 DEF Objects
    <3> QED BY <1>3, <2>2, <3>1, UntouchedSame
  <2> QED BY <2>1, <2>2
<1> QED BY <1>3, <1>4, <1>5 DEF FieldSetIn

\* CertPut and CertRemove keep the invariant.
LEMMA CertStep ==
  ASSUME NEW G, TreeInv(G), NEW n \in Certs, CertPut(n) \/ CertRemove(n)
  PROVE  TreeInv(G)'
<1>1. /\ Types /\ HttpAlone /\ Shape(heap, G, params) /\ Grouped(G) /\ Current /\ Reading(G)
  BY DEF TreeInv
<1>2. /\ pc[Http] = "idle" /\ pc' = [pc EXCEPT ![Http] = "idle"] /\ requests' = requests + 1
      /\ UNCHANGED <<roots, locked, arg, group, tail, sets, raced, params, grp, cur, wanted, printed, stale, shown>>
  BY DEF CertPut, CertRemove, Request, Goes, setVars
<1>3. Onward("idle")
  <2>1. "idle" \in Requesting
    BY DEF Requesting
  <2> QED BY <1>1, <1>2, <2>1, HttpGoes
<1>4. WellFormed(heap, Objects(G, params)) /\ 4 \in Objects(G, params) /\ Distinct(heap, 4) /\ certs = 4
      /\ G \subseteq Objects(G, params) \ {4} /\ params \in {0} \cup (Objects(G, params) \ {4}) /\ 0 \notin G
  <2>1. WellFormed(heap, Objects(G, params)) /\ Distinct(heap, 4) /\ certs = 4 /\ 4 \notin G /\ params # 4
    BY <1>1 DEF Shape, Types
  <2>2. {2, 4} \cup G \subseteq Objects(G, params) /\ 0 \notin G /\ (params # 0 => params \in Objects(G, params))
    BY <1>1, ShapeParts
  <2> QED BY <2>1, <2>2
<1>5. PICK v \in Nat : Field(heap, heap', G, params, 4, n, v) /\ kept' = [kept EXCEPT ![n] = v]
  <2>1. CASE CertPut(n)
    <3>1. /\ Room(heap, 1) /\ heap' = WriteField(heap, certs, n, requests + 2)
          /\ kept' = [kept EXCEPT ![n] = requests + 2]
      BY <2>1 DEF CertPut
    <3>2. requests + 2 \in Nat /\ n \in AllNames
      BY <1>1 DEF Types, AllNames
    <3> DEFINE w == requests + 2
    <3>3. w \in Nat /\ heap' = WriteField(heap, 4, n, w) /\ kept' = [kept EXCEPT ![n] = w]
      BY <1>4, <3>1, <3>2
    <3> HIDE DEF w
    <3>4. Field(heap, heap', G, params, 4, n, w)
      BY <1>4, <3>1, <3>2, <3>3, FieldWritten DEF Field
    <3> QED BY <3>3, <3>4
  <2>2. CASE CertRemove(n)
    <3>1. Find(heap, 4, n) # 0 /\ heap' = DeleteItem(heap, 4, n) /\ kept' = [kept EXCEPT ![n] = 0]
      BY <1>4, <2>2 DEF CertRemove
    <3>2. Field(heap, heap', G, params, 4, n, 0)
      BY <1>4, <3>1, FieldRemoved DEF Field
    <3> QED BY <3>1, <3>2
  <2> QED BY <2>1, <2>2
<1>6. /\ Shape(heap', G, params) /\ heap' \in Heaps
      /\ Untouched(heap, heap', G, Objects(G, params) \ {4})
      /\ \A x \in {2, 4} : \A m : Val(heap', x, m) = IF x = 4 /\ m = n THEN v ELSE Val(heap, x, m)
  <2>1. FieldSetIn(heap, heap', G, params, 4, n, v)
    BY <1>1, <1>5, FieldShape
  <2> QED BY <2>1 DEF FieldSetIn
<1>7. SetTypes'
  BY <1>1, <1>3, CalmTypes DEF Onward
<1>8. Types'
  <2>1. kept' \in [Certs -> Nat] /\ requests' \in Nat
    BY <1>1, <1>2, <1>5 DEF Types
  <2> QED BY <1>1, <1>2, <1>7, <2>1 DEF Types, SetTypes
<1>9. HttpAlone'
  BY <1>1, <1>2, <1>3 DEF HttpAlone, Onward
<1>10. Shape(heap, G, params)'
  BY <1>2, <1>6
<1>11. Grouped(G)'
  BY <1>1, <1>3, <1>4, <1>6, OthersKept DEF Onward
<1>12. Current'
  BY <1>1, <1>2, <1>5, <1>6 DEF Current, Types
<1>13. Reading(G)'
  BY <1>1, <1>2, <1>3 DEF Reading, Onward
<1>14. Prints'
  BY <1>3 DEF Prints, Onward
<1> QED BY <1>8, <1>9, <1>10, <1>11, <1>12, <1>13, <1>14 DEF TreeInv

\* Post keeps it: the parsed request is an object of its own.
LEMMA PostStep ==
  ASSUME NEW G, TreeInv(G), NEW names \in Posts, Post(names)
  PROVE  TreeInv(G)'
<1>1. /\ Types /\ HttpAlone /\ Shape(heap, G, params) /\ Grouped(G) /\ Current /\ Reading(G)
  BY DEF TreeInv
<1>2. /\ pc[Http] = "idle" /\ pc' = [pc EXCEPT ![Http] = "post"] /\ requests' = requests + 1
      /\ Room(heap, Len(names) + 1) /\ params' = Fresh(heap)
      /\ heap' = Build(New(heap, NoName, 0), params', names, requests + 2)
      /\ cur' = heap'.child[params']
      /\ UNCHANGED <<roots, locked, arg, group, tail, sets, raced, grp, wanted, kept, printed, stale, shown>>
  BY DEF Post, Request, Goes, setVars
<1>3. Onward("post")
  <2>1. "post" \in Requesting /\ "idle" \in Requesting
    BY DEF Requesting
  <2> QED BY <1>1, <1>2, <2>1, HttpGoes
<1>4. params = 0 /\ requests + 2 \in Nat /\ names \in Seq(AllNames)
  <2>1. params = 0 /\ requests + 2 \in Nat
    BY <1>1, <1>2 DEF HttpAlone, Types
  <2>2. names \in Seq(Settings \cup {NoName}) /\ Settings \cup {NoName} \subseteq AllNames
    BY TreeAssumption DEF AllNames
  <2> QED BY <2>1, <2>2
<1>5. /\ Shape(heap', G, params') /\ params' # 0 /\ Untouched(heap, heap', G, {2, 4} \cup G)
      /\ heap' \in Heaps
  <2> DEFINE v == requests + 2
  <2>1. v \in Nat
    BY <1>4
  <2>2. heap' = Build(New(heap, NoName, 0), Fresh(heap), names, v)
    BY <1>2
  <2> HIDE DEF v
  <2>3. Shape(heap, G, 0)
    BY <1>1, <1>4
  <2>4. /\ Shape(heap', G, Fresh(heap)) /\ Fresh(heap) # 0 /\ Untouched(heap, heap', G, {2, 4} \cup G)
    BY <1>2, <1>4, <2>1, <2>2, <2>3, ShapePosted
  <2> QED BY <1>2, <2>4, ShapeParts
<1>6. cur' \in Cells(heap', params') \cup {0} /\ cur' \in Links /\ params' \in Links
  <2>1. params' \in Objects(G, params') /\ WellFormed(heap', Objects(G, params')) /\ params' \in Links
    BY <1>5, ShapeParts DEF Shape
  <2>2. Cells(heap', params') \subseteq Items
    BY <2>1, ListCells
  <2> QED BY <1>2, <2>1, <2>2, FirstCell, ItemsAre
<1>7. SetTypes'
  BY <1>1, <1>3, CalmTypes DEF Onward
<1>8. Types'
  <2>1. requests' \in Nat
    BY <1>1, <1>2 DEF Types
  <2> QED BY <1>1, <1>2, <1>6, <1>7, <2>1 DEF Types, SetTypes
<1>9. HttpAlone'
  BY <1>1, <1>2, <1>3, <1>5 DEF HttpAlone, Onward
<1>10. Shape(heap, G, params)'
  BY <1>5
<1>11. Grouped(G)'
  <2>1. G \subseteq {2, 4} \cup G /\ {2, 4} \cup G \subseteq Objects(G, params)
    BY DEF Objects
  <2> DEFINE P == {2, 4} \cup G
  <2>2. Untouched(heap, heap', G, P) /\ G \subseteq P /\ P \subseteq Objects(G, params)
    BY <1>5, <2>1
  <2> HIDE DEF P
  <2> QED BY <1>1, <1>3, <1>5, <2>2, OthersKept DEF Onward
<1>12. Current'
  <2>1. \A p \in {2, 4} : p \in {2, 4} \cup G /\ p \in Objects(G, params)
    BY DEF Objects
  <2>2. \A p \in {2, 4} : \A m : Val(heap', p, m) = Val(heap, p, m)
    BY <1>1, <1>5, <2>1, UntouchedSame
  <2> QED BY <1>1, <1>2, <2>2 DEF Current
<1>13. Reading(G)'
  BY <1>1, <1>2, <1>3, <1>5, <1>6 DEF Reading, Onward, CellsOf
<1>14. Prints'
  BY <1>3 DEF Prints, Onward
<1> QED BY <1>8, <1>9, <1>10, <1>11, <1>12, <1>13, <1>14 DEF TreeInv

\* PostEnd keeps it: the parsed request is deleted, and nothing else.
LEMMA PostEndStep ==
  ASSUME NEW G, TreeInv(G), PostEnd
  PROVE  TreeInv(G)'
<1>1. /\ Types /\ HttpAlone /\ Shape(heap, G, params) /\ Grouped(G) /\ Current /\ Reading(G)
  BY DEF TreeInv
<1>2. /\ pc[Http] = "post" /\ pc' = [pc EXCEPT ![Http] = "idle"]
      /\ heap' = Delete(heap, params) /\ params' = 0
      /\ UNCHANGED <<roots, locked, arg, group, tail, sets, raced, grp, cur, requests, wanted, kept, printed,
                     stale, shown>>
  BY DEF PostEnd, Goes, setVars
<1>3. Onward("idle")
  <2>1. "post" \in Requesting /\ "idle" \in Requesting
    BY DEF Requesting
  <2> QED BY <1>1, <1>2, <2>1, HttpGoes
<1>4. params # 0
  BY <1>1, <1>2 DEF HttpAlone
<1>5. /\ Shape(heap', G, 0) /\ Untouched(heap, heap', G, {2, 4} \cup G) /\ heap' \in Heaps
  BY <1>1, <1>2, <1>4, ShapeDeleted, ShapeParts
<1>7. SetTypes'
  BY <1>1, <1>3, CalmTypes DEF Onward
<1>8. Types'
  BY <1>1, <1>2, <1>7, ItemsAre DEF Types, SetTypes
<1>9. HttpAlone'
  BY <1>1, <1>2, <1>3 DEF HttpAlone, Onward
<1>10. Shape(heap, G, params)'
  BY <1>2, <1>5
<1>11. Grouped(G)'
  <2> DEFINE P == {2, 4} \cup G
  <2>2. Untouched(heap, heap', G, P) /\ G \subseteq P /\ P \subseteq Objects(G, params)
    BY <1>5 DEF Objects
  <2> HIDE DEF P
  <2> QED BY <1>1, <1>3, <1>5, <2>2, OthersKept DEF Onward
<1>12. Current'
  <2>1. \A p \in {2, 4} : p \in {2, 4} \cup G /\ p \in Objects(G, params)
    BY DEF Objects
  <2>2. \A p \in {2, 4} : \A m : Val(heap', p, m) = Val(heap, p, m)
    BY <1>1, <1>5, <2>1, UntouchedSame
  <2> QED BY <1>1, <1>2, <2>2 DEF Current
<1>13. Reading(G)'
  BY <1>1, <1>2, <1>3 DEF Reading, Onward
<1>14. Prints'
  BY <1>3 DEF Prints, Onward
<1> QED BY <1>8, <1>9, <1>10, <1>11, <1>12, <1>13, <1>14 DEF TreeInv

\* A param goes by, one that is a setting after it has replaced it.
Applied(G, n, v) ==
  \/ heap' = heap /\ wanted' = wanted
  \/ Field(heap, heap', G, params, 2, n, v) /\ wanted' = [wanted EXCEPT ![n] = v]

\* A setting is replaced by a duplicate.
LEMMA AppliedIs ==
  ASSUME NEW G, NEW n, NEW v, Shape(heap, G, params), Current, wanted \in [Settings -> Nat], Applied(G, n, v),
         v \in Nat
  PROVE  /\ Shape(heap', G, params) /\ heap' \in Heaps /\ wanted' \in [Settings -> Nat]
         /\ Untouched(heap, heap', G, Objects(G, params) \ {2})
         /\ \A m \in Settings : Val(heap', 2, m) = wanted'[m]
         /\ \A m : Val(heap', 4, m) = Val(heap, 4, m)
<1>1. CASE heap' = heap /\ wanted' = wanted
  BY <1>1, UntouchedItself, ShapeParts DEF Current
<1>2. CASE Field(heap, heap', G, params, 2, n, v) /\ wanted' = [wanted EXCEPT ![n] = v]
  <2>1. /\ Shape(heap', G, params) /\ heap' \in Heaps
        /\ Untouched(heap, heap', G, Objects(G, params) \ {2})
        /\ \A x \in {2, 4} : \A m : Val(heap', x, m) = IF x = 2 /\ m = n THEN v ELSE Val(heap, x, m)
    <3>1. FieldSetIn(heap, heap', G, params, 2, n, v)
      BY <1>2, FieldShape
    <3> QED BY <3>1 DEF FieldSetIn
  <2>2. \A m : /\ Val(heap', 2, m) = IF m = n THEN v ELSE Val(heap, 2, m)
               /\ Val(heap', 4, m) = Val(heap, 4, m)
    BY <2>1
  <2>3. \A m \in Settings : wanted'[m] = IF m = n THEN v ELSE wanted[m]
    BY <1>2
  <2>4. wanted' \in [Settings -> Nat]
    BY <1>2
  <2> QED BY <2>1, <2>2, <2>3, <2>4 DEF Current
<1> QED BY <1>1, <1>2 DEF Applied

\* PostItem keeps the invariant.
LEMMA PostItemStep ==
  ASSUME NEW G, TreeInv(G), PostItem
  PROVE  TreeInv(G)'
<1>1. /\ Types /\ HttpAlone /\ Shape(heap, G, params) /\ Grouped(G) /\ Current /\ Reading(G)
  BY DEF TreeInv
<1>2. /\ cur # 0 /\ pc[Http] = "post" /\ pc' = [pc EXCEPT ![Http] = "post"] /\ Room(heap, 1)
      /\ cur' = heap.next[cur]
      /\ UNCHANGED <<roots, locked, arg, group, tail, sets, raced, params, grp, requests, kept, printed, stale, shown>>
  BY DEF PostItem, Goes, setVars
<1>3. Onward("post")
  <2>1. "post" \in Requesting
    BY DEF Requesting
  <2> QED BY <1>1, <1>2, <2>1, HttpGoes
<1> DEFINE n == heap.name[cur]
           v == heap.value[cur]
<1>15. \/ Find(heap, settings, n) = 0 /\ heap' = heap /\ wanted' = wanted
       \/ /\ Find(heap, settings, n) # 0 /\ heap' = ReplaceNew(heap, settings, n, v)
          /\ wanted' = [wanted EXCEPT ![n] = v]
  BY DEF PostItem
<1>4. /\ WellFormed(heap, Objects(G, params)) /\ 2 \in Objects(G, params) /\ Distinct(heap, 2) /\ settings = 2
      /\ G \subseteq Objects(G, params) \ {2} /\ params \in Objects(G, params) \ {2} /\ 0 \notin G
      /\ params # 0
  <2>1. WellFormed(heap, Objects(G, params)) /\ Distinct(heap, 2) /\ settings = 2 /\ 2 \notin G /\ params # 2
        /\ params # 0
    BY <1>1, <1>2 DEF Shape, Types, HttpAlone
  <2>2. {2, 4} \cup G \subseteq Objects(G, params) /\ 0 \notin G /\ (params # 0 => params \in Objects(G, params))
    BY <1>1, ShapeParts
  <2> QED BY <2>1, <2>2
<1>16. cur \in Cells(heap, params) /\ cur' \in Cells(heap, params) \cup {0} /\ Cells(heap, params) \subseteq Items
  <2>1. cur \in Cells(heap, params)
    BY <1>1, <1>2, <1>4 DEF Reading, CellsOf
  <2> QED BY <1>2, <1>4, <2>1, FirstCell, ListCells
<1>17. n \in AllNames /\ v \in Nat
  <2>1. heap \in Heaps /\ cur \in Items
    BY <1>4, <1>16 DEF WellFormed
  <2> QED BY <2>1, HeapParts
<1> HIDE DEF n, v
<1>5. Applied(G, n, v)
  <2>1. CASE Find(heap, settings, n) = 0 /\ heap' = heap /\ wanted' = wanted
    BY <2>1 DEF Applied
  <2>2. CASE /\ Find(heap, settings, n) # 0 /\ heap' = ReplaceNew(heap, settings, n, v)
             /\ wanted' = [wanted EXCEPT ![n] = v]
    <3>1. heap' = WriteField(heap, 2, n, v)
      BY <1>4, <2>2 DEF WriteField
    <3>2. Field(heap, heap', G, params, 2, n, v)
      BY <1>2, <1>4, <1>17, <3>1, FieldWritten DEF Field
    <3> QED BY <2>2, <3>2 DEF Applied
  <2> QED BY <1>15, <2>1, <2>2
<1>6. /\ Shape(heap', G, params) /\ heap' \in Heaps /\ wanted' \in [Settings -> Nat]
      /\ Untouched(heap, heap', G, Objects(G, params) \ {2})
      /\ \A m \in Settings : Val(heap', 2, m) = wanted'[m]
      /\ \A m : Val(heap', 4, m) = Val(heap, 4, m)
  <2>1. wanted \in [Settings -> Nat]
    BY <1>1 DEF Types
  <2> QED BY <1>1, <1>5, <1>17, <2>1, AppliedIs
<1>7. SetTypes'
  BY <1>1, <1>3, CalmTypes DEF Onward
<1>8. Types'
  <2>1. cur' \in Links
    BY <1>16, ItemsAre
  <2> QED BY <1>1, <1>2, <1>6, <1>7, <2>1 DEF Types, SetTypes
<1>9. HttpAlone'
  BY <1>1, <1>2, <1>3 DEF HttpAlone, Onward
<1>10. Shape(heap, G, params)'
  BY <1>2, <1>6
<1>11. Grouped(G)'
  BY <1>1, <1>3, <1>4, <1>6, OthersKept DEF Onward
<1>12. Current'
  BY <1>1, <1>2, <1>6 DEF Current
<1>13. Reading(G)'
  <2>1. Cells(heap', params) = Cells(heap, params)
    BY <1>1, <1>4, <1>6, UntouchedSame
  <2> QED BY <1>1, <1>2, <1>3, <1>4, <1>16, <2>1 DEF Reading, Onward, CellsOf
<1>14. Prints'
  BY <1>3 DEF Prints, Onward
<1> QED BY <1>8, <1>9, <1>10, <1>11, <1>12, <1>13, <1>14 DEF TreeInv
-----------------------------------------------------------------------------
(* The steps of a thread that sets a field. *)

Setting == {"idle", "create", "link", "close", "write"}

\* The thread t goes on to set a field, and answers no request.
Aside(t, to) ==
  /\ pc' \in [Threads -> {"idle", "create", "link", "close", "write", "wait", "status", "app", "post"}]
  /\ pc'[t] = to /\ \A u \in Threads : u # t => pc'[u] = pc[u]
  /\ \A u \in Threads : pc'[u] \in {"wait", "status", "app", "post"} => u = Http
  /\ \A s \in {"status", "app", "post"} : pc'[Http] = s <=> pc[Http] = s

\* A step from one place of the setting to another is such a step.
LEMMA ThreadGoes ==
  ASSUME Types, HttpAlone, NEW t \in Threads, NEW to \in Setting, pc[t] \in Setting,
         pc' = [pc EXCEPT ![t] = to]
  PROVE  Aside(t, to)
<1>1. /\ pc \in [Threads -> {"idle", "create", "link", "close", "write", "wait", "status", "app", "post"}]
      /\ to \in {"idle", "create", "link", "close", "write", "wait", "status", "app", "post"}
  BY DEF Types, Setting
<1>2. /\ pc' \in [Threads -> {"idle", "create", "link", "close", "write", "wait", "status", "app", "post"}]
      /\ pc'[t] = to /\ \A u \in Threads : u # t => pc'[u] = pc[u]
  BY <1>1
<1>3. \A u \in Threads : pc'[u] \in {"wait", "status", "app", "post"} => u = Http
  BY <1>2 DEF HttpAlone, Setting
<1>4. \A s \in {"status", "app", "post"} : pc'[Http] = s <=> pc[Http] = s
  <2>1. CASE t = Http
    BY <1>2, <2>1 DEF Setting
  <2>2. CASE t # Http
    BY <1>2, <2>2, TreeAssumption
  <2> QED BY <2>1, <2>2
<1> QED BY <1>2, <1>3, <1>4 DEF Aside

\* Objects with the same fields have the same values.
LEMMA FieldsSame ==
  ASSUME NEW h, NEW G, NEW q, Shape(h, G, q), NEW g, NEW P, SameFields(h, g, P), NEW p \in P,
         p \in Objects(G, q)
  PROVE  Cells(g, p) = Cells(h, p) /\ \A n : Val(g, p, n) = Val(h, p, n)
<1>1. Children(h, p) \in Seq(Items)
  BY ShapeParts
<1> QED BY <1>1, SameVal

\* What it leaves to the HTTP thread: all objects but the group it writes.
Left(G, P) ==
  /\ SameFields(heap, heap', P) /\ P \subseteq Objects(G, params)
  /\ {2, 4} \subseteq P /\ params \in P \cup {0} /\ (pc[Http] = "status" => G \subseteq P)

\* What it keeps for the HTTP thread.
LEMMA HttpKept ==
  ASSUME NEW G, NEW H, G \subseteq H, Types, HttpAlone, Shape(heap, G, params), Current, Reading(G),
         NEW t \in Threads, NEW to, Aside(t, to), NEW P, Left(G, P), UNCHANGED <<roots, locked, httpVars>>
  PROVE  HttpAlone' /\ Current' /\ Reading(H)'
<1>1. /\ locked' = locked /\ params' = params /\ grp' = grp /\ cur' = cur /\ stale' = stale
      /\ wanted' = wanted /\ kept' = kept
  BY DEF httpVars
<1>2. HttpAlone'
  BY <1>1 DEF HttpAlone, Aside
<1>3. \A p \in P : p \in Objects(G, params)
  BY DEF Left
<1>4. ASSUME NEW p \in P PROVE Cells(heap', p) = Cells(heap, p) /\ \A n : Val(heap', p, n) = Val(heap, p, n)
  BY <1>3, FieldsSame DEF Left
<1>5. Current'
  BY <1>1, <1>4 DEF Current, Left
<1>6. Reading(H)'
  <2>1. pc'[Http] \in {"status", "app"} => grp \in H \cup {0}
    BY DEF Aside, Reading
  <2>2. pc'[Http] = "status" => cur \in CellsOf(heap', grp) \cup {0}
    <3> HAVE pc'[Http] = "status"
    <3>1. pc[Http] = "status" /\ G \subseteq P /\ grp \in G \cup {0} /\ cur \in CellsOf(heap, grp) \cup {0}
      BY DEF Aside, Left, Reading
    <3> QED BY <1>4, <3>1 DEF CellsOf
  <2>3. pc'[Http] = "post" => cur \in CellsOf(heap', params) \cup {0}
    <3> HAVE pc'[Http] = "post"
    <3>1. params \in P \cup {0} /\ cur \in CellsOf(heap, params) \cup {0}
      BY DEF Aside, Left, Reading
    <3> QED BY <1>4, <3>1 DEF CellsOf
  <2> QED BY <1>1, <2>1, <2>2, <2>3 DEF Reading
<1> QED BY <1>2, <1>5, <1>6

\* The looked-up group.
LEMMA GroupFound ==
  ASSUME NEW h, NEW G, NEW q, Shape(h, G, q), NEW g
  PROVE  \/ Find(h, 3, g) = 0 /\ \A x \in Cells(h, 3) : h.name[x] # g
         \/ Find(h, 3, g) \in Cells(h, 3) /\ Find(h, 3, g) \in G /\ h.name[Find(h, 3, g)] = g
<1>1. Children(h, 3) \in Seq(Items) /\ Cells(h, 3) \subseteq G
  BY StatusIn
<1> QED BY <1>1, FoundCell

\* SetBegin keeps the invariant: a group looked up in vain is in no list yet.
LEMMA SetBeginStep ==
  ASSUME NEW G, TreeInv(G), NEW t \in Threads, NEW g \in Groups, NEW n \in Names, SetBegin(t, g, n)
  PROVE  TreeInv(G)'
<1>1. /\ Types /\ HttpAlone /\ Shape(heap, G, params) /\ Grouped(G) /\ Current /\ Reading(G)
      /\ ~raced => Prints
  BY DEF TreeInv
<1> DEFINE i == Find(heap, 3, g)
           to == IF i = 0 THEN "create" ELSE "write"
           a == [group |-> g, name |-> n, value |-> sets + 1]
<1>2. /\ pc[t] = "idle" /\ pc' = [pc EXCEPT ![t] = to]
      /\ group' = [group EXCEPT ![t] = i]
      /\ raced' = (raced \/ (i = 0 /\ \E u \in Threads \ {t} : pc[u] \in Appending))
      /\ arg' = [arg EXCEPT ![t] = a] /\ sets' = sets + 1
      /\ UNCHANGED <<heap, roots, locked, tail, httpVars, shown>>
  BY <1>1 DEF SetBegin, Goes, Types
<1>3. \/ i = 0 /\ \A x \in Cells(heap, 3) : heap.name[x] # g
      \/ i \in Cells(heap, 3) /\ i \in G /\ heap.name[i] = g
  BY <1>1, GroupFound
<1>4. to \in {"create", "write"} /\ (i = 0 <=> to = "create") /\ (i # 0 => to = "write")
  OBVIOUS
<1>5. /\ a \in [group : Groups \cup {NoName}, name : Names \cup {NoName}, value : Nat]
      /\ a.group = g /\ a.name = n
  BY <1>1 DEF Types
<1>6. heap \in Heaps /\ G \subseteq Items /\ 0 \notin G
  BY <1>1, ShapeParts
<1> HIDE DEF i, to, a
<1>7. Aside(t, to)
  <2>1. to \in Setting /\ pc[t] \in Setting
    BY <1>2, <1>4 DEF Setting
  <2> QED BY <1>1, <1>2, <2>1, ThreadGoes
<1>8. /\ group \in [Threads -> Links] /\ group'[t] = i /\ \A u \in Threads : u # t => group'[u] = group[u]
      /\ arg'[t] = a /\ \A u \in Threads : u # t => arg'[u] = arg[u]
  BY <1>1, <1>2 DEF Types
<1>9. Types'
  <2>1. \A u \in Threads : pc'[u] \in Appending \cup {"write"} => arg'[u].group \in Groups /\ arg'[u].name \in Names
    BY <1>1, <1>5, <1>7, <1>8 DEF Types, Aside
  <2>2. i \in Links
    BY <1>3, <1>6, ItemsAre
  <2>3. group' \in [Threads -> Links]
    BY <1>2, <1>8, <2>2
  <2>4. arg' \in [Threads -> [group : Groups \cup {NoName}, name : Names \cup {NoName}, value : Nat]]
    BY <1>1, <1>2, <1>5 DEF Types
  <2>5. sets' \in Nat /\ raced' \in BOOLEAN
    BY <1>1, <1>2 DEF Types
  <2> QED BY <1>1, <1>2, <1>7, <2>1, <2>3, <2>4, <2>5 DEF Types, Aside, roots, httpVars
<1>10. HttpAlone' /\ Current' /\ Reading(G)'
  <2>1. SameFields(heap, heap', Objects(G, params))
    BY <1>2 DEF SameFields
  <2>2. {2, 4} \cup G \subseteq Objects(G, params) /\ params \in Objects(G, params) \cup {0}
    BY <1>1, ShapeParts
  <2>3. Left(G, Objects(G, params))
    BY <2>1, <2>2 DEF Left
  <2> QED BY <1>1, <1>2, <1>7, <2>3, HttpKept
<1>11. Shape(heap, G, params)'
  BY <1>1, <1>2 DEF httpVars
<1>12. Placed(G)'
  <2>1. \A u \in Threads : pc'[u] \in Holding => group'[u] \in G
    BY <1>1, <1>3, <1>4, <1>7, <1>8 DEF Grouped, Placed, Holding, Aside
  <2> QED BY <1>1, <1>2, <2>1 DEF Grouped, Placed
<1>13. ASSUME ~raced' PROVE OneAppends(G)' /\ Named(G)' /\ Shows(G)' /\ Prints'
  <2>1. ~raced /\ (i = 0 => \A u \in Threads : u # t => pc[u] \notin Appending)
    BY <1>1, <1>2, <1>13 DEF Types
  <2>2. OneAppends(G) /\ Named(G) /\ Shows(G) /\ Prints /\ Placed(G)
    BY <1>1, <2>1 DEF Grouped
  <2>3. /\ \A u \in Threads : pc'[u] \in {"link", "close"} => u # t /\ pc'[u] = pc[u] /\ group'[u] = group[u]
        /\ \A u \in Threads : pc[u] \in {"link", "close"} => u # t /\ pc'[u] = pc[u] /\ group'[u] = group[u]
    BY <1>2, <1>4, <1>7, <1>8 DEF Aside
  <2>4. Linking' = Linking
    BY <2>3 DEF Linking
  <2>5. Settled' <=> Settled
    BY <2>3 DEF Settled
  <2>6. InOrder(heap, G \ Linking', Settled')
    BY <2>2, <2>4, <2>5 DEF OneAppends, InOrder
  <2>7. Cells(heap, 3) = G \ Linking
    <3>1. InOrder(heap, G \ Linking, Settled)
      BY <2>2 DEF OneAppends
    <3> QED BY <3>1 DEF InOrder, Cells
  <2>8. OneAppends(G)'
    <3>1. \A u, w \in Threads : pc'[u] \in Appending /\ pc'[w] \in Appending => u = w
      <4> SUFFICES ASSUME NEW u \in Threads, NEW w \in Threads, pc'[u] \in Appending, pc'[w] \in Appending, u # w
                   PROVE  FALSE
        OBVIOUS
      <4>1. CASE u # t /\ w # t
        BY <1>7, <2>2, <4>1 DEF OneAppends, Aside
      <4>2. CASE u = t \/ w = t
        BY <1>4, <1>7, <2>1, <4>2 DEF Aside, Appending
      <4> QED BY <4>1, <4>2
    <3>2. \A u, w \in Threads : pc'[u] = "write" /\ pc'[w] = "link" => group'[u] # group'[w]
      <4> SUFFICES ASSUME NEW u \in Threads, NEW w \in Threads, pc'[u] = "write", pc'[w] = "link"
                   PROVE  group'[u] # group'[w]
        OBVIOUS
      <4>1. w # t /\ pc[w] = "link" /\ group'[w] = group[w] /\ group[w] \in Linking
        BY <2>3 DEF Linking
      <4>2. CASE u = t
        BY <1>3, <1>4, <1>7, <1>8, <2>7, <4>1, <4>2 DEF Aside
      <4>3. CASE u # t
        BY <1>7, <1>8, <2>2, <4>1, <4>3 DEF OneAppends, Aside
      <4> QED BY <4>2, <4>3
    <3>3. \A u \in Threads : pc'[u] = "link" =>
            /\ Cells(heap', group'[u]) = {} /\ heap'.next[group'[u]] = 0
            /\ tail'[u] = LastOf(Children(heap', 3))
      BY <1>2, <2>2, <2>3 DEF OneAppends
    <3>4. \A u \in Threads : pc'[u] = "close" =>
            Children(heap', 3) # << >> /\ group'[u] = LastOf(Children(heap', 3))
      BY <1>2, <2>2, <2>3 DEF OneAppends
    <3>5. heap' = heap
      BY <1>2
    <3> QED BY <2>6, <3>1, <3>2, <3>3, <3>4, <3>5 DEF OneAppends
  <2>9. Named(G)'
    <3>1. \A u \in Threads : pc'[u] = "create" => \A x \in G : heap.name[x] # arg'[u].group
      <4> SUFFICES ASSUME NEW u \in Threads, pc'[u] = "create", NEW x \in G PROVE heap.name[x] # arg'[u].group
        OBVIOUS
      <4>1. CASE u # t
        BY <1>7, <1>8, <2>2, <4>1 DEF Aside, Named
      <4>2. CASE u = t
        <5>1. i = 0 /\ arg'[t].group = g
          BY <1>4, <1>5, <1>7, <1>8, <4>2 DEF Aside
        <5>2. Linking = {}
          BY <1>2, <2>1, <5>1 DEF Linking, Appending
        <5>3. x \in Cells(heap, 3)
          BY <2>7, <5>2
        <5> QED BY <1>3, <1>6, <4>2, <5>1, <5>3
      <4> QED BY <4>1, <4>2
    <3>2. \A u \in Threads : pc'[u] \in Holding => heap.name[group'[u]] = arg'[u].group
      <4> SUFFICES ASSUME NEW u \in Threads, pc'[u] \in Holding PROVE heap.name[group'[u]] = arg'[u].group
        OBVIOUS
      <4>1. CASE u # t
        BY <1>7, <1>8, <2>2, <4>1 DEF Aside, Named
      <4>2. CASE u = t
        BY <1>3, <1>4, <1>5, <1>7, <1>8, <4>2 DEF Aside, Holding
      <4> QED BY <4>1, <4>2
    <3>3. heap' = heap
      BY <1>2
    <3> QED BY <2>2, <3>1, <3>2, <3>3 DEF Named
  <2>10. Shows(G)'
    BY <1>2, <2>2 DEF Shows
  <2>11. Prints'
    <3>1. pc'[Http] = "status" <=> pc[Http] = "status"
      BY <1>7 DEF Aside
    <3> QED BY <1>2, <2>2, <3>1 DEF Prints, httpVars
  <2> QED BY <2>8, <2>9, <2>10, <2>11
<1> QED BY <1>9, <1>10, <1>11, <1>12, <1>13 DEF TreeInv, Grouped
\* A thread that appends while no two do is alone.
LEMMA Alone ==
  ASSUME NEW G, OneAppends(G), NEW t \in Threads, pc[t] \in Appending
  PROVE  \A u \in Threads : u # t => pc[u] \notin Appending
BY DEF OneAppends

\* CreateRead keeps it, with one group more, that is not linked yet.
LEMMA CreateReadStep ==
  ASSUME NEW G, TreeInv(G), NEW t \in Threads, CreateRead(t)
  PROVE  \E r \in Items : TreeInv(G \cup {r})'
<1>1. /\ Types /\ HttpAlone /\ Shape(heap, G, params) /\ Grouped(G) /\ Current /\ Reading(G)
      /\ ~raced => Prints
  BY DEF TreeInv
<1>16. PICK r : r = Fresh(heap)
  OBVIOUS
<1> DEFINE n == arg[t].group
           H == G \cup {r}
           e == IF heap.child[3] = 0 THEN 0 ELSE heap.prev[heap.child[3]]
<1>2. /\ pc[t] = "create" /\ pc' = [pc EXCEPT ![t] = "link"] /\ Room(heap, 1)
      /\ heap' = New(heap, n, 0)
      /\ group' = [group EXCEPT ![t] = r] /\ tail' = [tail EXCEPT ![t] = e]
      /\ UNCHANGED <<roots, locked, arg, sets, raced, httpVars, shown>>
  BY <1>1, <1>16 DEF CreateRead, Goes, Types
<1>3. n \in Groups /\ n \in AllNames /\ heap \in Heaps /\ G \subseteq Items /\ 0 \notin G
      /\ G \subseteq Objects(G, params) /\ {2, 4} \cup G \subseteq Objects(G, params)
      /\ params \in Objects(G, params) \cup {0}
  <2>1. n \in Groups
    BY <1>1, <1>2 DEF Types, Appending
  <2> HIDE DEF n
  <2> QED BY <1>1, <2>1, ShapeParts DEF AllNames
<1>4. GroupMade(heap, heap', G, params, r, n)
  <2>1. Made(heap, heap', r, n, 0)
    <3>1. 0 \in Nat
      OBVIOUS
    <3> HIDE DEF n
    <3> QED BY <1>2, <1>3, <1>16, <3>1, NewItem
  <2> HIDE DEF n
  <2> QED BY <1>1, <2>1, ShapeGroup
<1>5. e \in G \cup {0}
  BY <1>1 DEF Shape
<1> HIDE DEF n, e
<1>6. /\ Shape(heap', H, params) /\ Untouched(heap, heap', G, Objects(G, params)) /\ heap' \in Heaps
      /\ r \notin G /\ r \in Items /\ r # 0 /\ Cells(heap', r) = {} /\ heap'.name[r] = n /\ heap'.next[r] = 0
  BY <1>4, ShapeParts, ItemsAre DEF GroupMade
<1>7. Aside(t, "link")
  <2>1. "link" \in Setting /\ pc[t] \in Setting
    BY <1>2 DEF Setting
  <2> QED BY <1>1, <1>2, <2>1, ThreadGoes
<1>8. /\ group'[t] = r /\ \A u \in Threads : u # t => group'[u] = group[u]
      /\ tail'[t] = e /\ \A u \in Threads : u # t => tail'[u] = tail[u]
      /\ arg' = arg /\ raced' = raced /\ shown' = shown
  BY <1>1, <1>2 DEF Types
<1>9. Types'
  <2>1. \A u \in Threads : pc'[u] \in Appending \cup {"write"} => arg'[u].group \in Groups /\ arg'[u].name \in Names
    BY <1>1, <1>2, <1>7, <1>8 DEF Types, Aside, Appending
  <2>2. r \in Links /\ e \in Links
    BY <1>3, <1>5, <1>6, ItemsAre
  <2>3. group' \in [Threads -> Links] /\ tail' \in [Threads -> Links]
    BY <1>1, <1>2, <2>2 DEF Types
  <2> QED BY <1>1, <1>2, <1>7, <2>1, <2>3 DEF Types, Aside, roots, httpVars
<1>10. HttpAlone' /\ Current' /\ Reading(H)'
  <2>1. Left(G, Objects(G, params))
    BY <1>3, <1>6 DEF Left, Untouched
  <2>2. G \subseteq H
    OBVIOUS
  <2> HIDE DEF H
  <2> QED BY <1>1, <1>2, <1>7, <2>1, <2>2, HttpKept
<1>11. Shape(heap, H, params)'
  BY <1>2, <1>6 DEF httpVars
<1>12. Placed(H)'
  <2>1. \A u \in Threads : pc'[u] \in Holding => group'[u] \in H
    BY <1>1, <1>7, <1>8 DEF Grouped, Placed, Holding, Aside
  <2>2. \A u \in Threads : tail'[u] \in H \cup {0}
    BY <1>1, <1>5, <1>8 DEF Grouped, Placed
  <2> QED BY <2>1, <2>2 DEF Placed
<1>14. \A g \in G : heap'.name[g] = heap.name[g] /\ heap'.next[g] = heap.next[g]
  BY <1>6 DEF Untouched, SameLinks
<1>13. ASSUME ~raced PROVE OneAppends(H)' /\ Named(H)' /\ Shows(H)' /\ Prints'
  <2>2. OneAppends(G) /\ Named(G) /\ Shows(G) /\ Prints /\ Placed(G)
    BY <1>1, <1>13 DEF Grouped
  <2>1. \A u \in Threads : u # t => pc[u] \notin Appending /\ pc'[u] \notin Appending
    <3>1. \A u \in Threads : u # t => pc[u] \notin Appending
      BY <1>2, <2>2, Alone DEF Appending
    <3> QED BY <1>7, <3>1 DEF Aside
  <2>3. Linking = {} /\ Linking' = {r}
    <3>1. {u \in Threads : pc[u] = "link"} = {}
      BY <1>2, <2>1 DEF Appending
    <3>2. {u \in Threads : pc'[u] = "link"} = {t}
      BY <1>7, <2>1 DEF Appending, Aside
    <3> QED BY <1>8, <3>1, <3>2 DEF Linking
  <2>4. Settled /\ Settled'
    BY <1>2, <1>7, <2>1 DEF Settled, Appending, Aside
  <2>5. InOrder(heap, G, TRUE)
    <3>1. InOrder(heap, G \ Linking, Settled) /\ G \ Linking = G
      BY <2>2, <2>3 DEF OneAppends
    <3> QED BY <2>4, <3>1 DEF InOrder
  <2>6. InOrder(heap', G, TRUE) /\ Children(heap', 3) = Children(heap, 3)
    <3>1. G \in SUBSET G
      OBVIOUS
    <3> QED BY <1>1, <1>6, <2>5, <3>1, OrderKept
  <2>7. InOrder(heap', H \ Linking', Settled')
    <3>1. H \ Linking' = G
      BY <1>6, <2>3
    <3> QED BY <2>4, <2>6, <3>1 DEF InOrder
  <2>8. e = LastOf(Children(heap, 3))
    <3> DEFINE s == Children(heap, 3)
    <3>1. /\ s # << >> => heap.prev[s[1]] = s[Len(s)]
          /\ heap.child[3] = IF s = << >> THEN 0 ELSE s[1]
      BY <2>5 DEF InOrder, Linked
    <3>2. s # << >> => s[1] # 0
      <4>1. Line(heap, s)
        BY <2>5, StatusLine
      <4>2. s # << >> => 1 \in DOMAIN s
        BY <4>1 DEF Line
      <4> QED BY <4>1, <4>2 DEF Line
    <3> HIDE DEF s
    <3> QED BY <3>1, <3>2 DEF e, LastOf, s
  <2>9. OneAppends(H)'
    <3>1. \A u, w \in Threads : pc'[u] \in Appending /\ pc'[w] \in Appending => u = w
      BY <2>1
    <3>2. \A u, w \in Threads : pc'[u] = "write" /\ pc'[w] = "link" => group'[u] # group'[w]
      <4> SUFFICES ASSUME NEW u \in Threads, NEW w \in Threads, pc'[u] = "write", pc'[w] = "link"
                   PROVE  group'[u] # group'[w]
        OBVIOUS
      <4>1. w = t /\ u # t /\ pc[u] = "write"
        BY <1>7, <2>1 DEF Appending, Aside
      <4>2. group[u] \in G
        BY <2>2, <4>1 DEF Placed, Holding
      <4> QED BY <1>6, <1>8, <4>1, <4>2
    <3>3. \A u \in Threads : pc'[u] = "link" =>
            /\ Cells(heap', group'[u]) = {} /\ heap'.next[group'[u]] = 0
            /\ tail'[u] = LastOf(Children(heap', 3))
      <4> SUFFICES ASSUME NEW u \in Threads, pc'[u] = "link"
                   PROVE  /\ Cells(heap', group'[u]) = {} /\ heap'.next[group'[u]] = 0
                          /\ tail'[u] = LastOf(Children(heap', 3))
        OBVIOUS
      <4>1. u = t
        BY <2>1 DEF Appending
      <4> QED BY <1>6, <1>8, <2>6, <2>8, <4>1
    <3>4. \A u \in Threads : pc'[u] # "close"
      BY <2>4 DEF Settled
    <3> QED BY <2>7, <3>1, <3>2, <3>3, <3>4 DEF OneAppends
  <2>10. Named(H)'
    <3>1. \A g \in G : heap.name[g] # n
      BY <1>2, <2>2 DEF Named, n
    <3>2. /\ \A g \in H : heap'.name[g] \in Groups
          /\ \A g, k \in H : heap'.name[g] = heap'.name[k] => g = k
      BY <1>3, <1>6, <1>14, <2>2, <3>1 DEF Named
    <3>3. \A u \in Threads : pc'[u] # "create"
      <4> SUFFICES ASSUME NEW u \in Threads, pc'[u] = "create" PROVE FALSE
        OBVIOUS
      <4>1. u = t
        BY <2>1 DEF Appending
      <4> QED BY <1>7, <4>1 DEF Aside
    <3>4. \A u \in Threads : pc'[u] \in Holding => heap'.name[group'[u]] = arg'[u].group
      <4> SUFFICES ASSUME NEW u \in Threads, pc'[u] \in Holding PROVE heap'.name[group'[u]] = arg'[u].group
        OBVIOUS
      <4>1. CASE u # t
        <5>1. pc[u] \in Holding /\ group[u] \in G
          BY <1>7, <2>2, <4>1 DEF Aside, Placed
        <5> QED BY <1>8, <1>14, <2>2, <4>1, <5>1 DEF Named
      <4>2. CASE u = t
        BY <1>6, <1>8, <4>2 DEF n
      <4> QED BY <4>1, <4>2
    <3> QED BY <3>2, <3>3, <3>4 DEF Named
  <2>11. Shows(H)'
    <3>1. \A g \in G : g \in Objects(G, params) /\ \A m : Val(heap', g, m) = Val(heap, g, m)
      BY <1>1, <1>3, <1>6, UntouchedSame
    <3>2. \A m : Val(heap', r, m) = 0
      <4>1. WellFormed(heap', Objects(H, params)) /\ r \in Objects(H, params)
        BY <1>6 DEF Shape, Objects
      <4> QED BY <1>6, <4>1, ValIs
    <3>3. \A m \in Names : shown[<<n, m>>] = 0
      BY <1>2, <1>3, <2>2 DEF Shows, Named, n
    <3>4. \A g \in H, m \in Names : Val(heap', g, m) = shown[<<heap'.name[g], m>>]
      <4> SUFFICES ASSUME NEW g \in H, NEW m \in Names PROVE Val(heap', g, m) = shown[<<heap'.name[g], m>>]
        OBVIOUS
      <4>1. CASE g \in G
        BY <1>14, <2>2, <3>1, <4>1 DEF Shows
      <4>2. CASE g = r
        BY <1>6, <3>2, <3>3, <4>2
      <4> QED BY <4>1, <4>2
    <3>5. \A k \in Groups : (\A g \in H : heap'.name[g] # k) => \A m \in Names : shown[<<k, m>>] = 0
      BY <1>14, <2>2 DEF Shows
    <3> QED BY <1>8, <3>4, <3>5 DEF Shows
  <2>12. Prints'
    <3>1. pc'[Http] = "status" <=> pc[Http] = "status"
      BY <1>7 DEF Aside
    <3>2. \A a, c, k, m : Ahead(heap', a, c, k, m) <=> Ahead(heap, a, c, k, m)
      <4>1. Children(heap, 3) \in Seq(G) /\ SameFields(heap, heap', G) /\ \A x \in G : heap'.name[x] = heap.name[x]
        BY <1>1, <1>3, <1>6, <1>14, StatusIn DEF Untouched, SameFields
      <4> QED BY <2>6, <4>1, AheadKept
    <3> QED BY <1>2, <2>2, <2>6, <3>1, <3>2 DEF Prints, httpVars
  <2> QED BY <2>9, <2>10, <2>11, <2>12
<1>15. TreeInv(H)'
  BY <1>8, <1>9, <1>10, <1>11, <1>12, <1>13 DEF TreeInv, Grouped
<1> QED BY <1>6, <1>15
\* The heap after the link of r behind the group e, 0 if there is none.
LinkedTo(h, g, r, e) ==
  /\ g \in Heaps /\ g.live = h.live /\ g.name = h.name /\ g.value = h.value
  /\ \A j \in Items : g.next[j] = IF j = e THEN r ELSE h.next[j]
  /\ \A j \in Items : g.prev[j] = IF j = r THEN (IF e = 0 THEN r ELSE e) ELSE h.prev[j]
  /\ \A j \in Items : g.child[j] = IF e = 0 /\ j = 3 THEN r ELSE h.child[j]

\* The group is linked behind the last one, or is the first.
LEMMA LinkIs ==
  ASSUME NEW h \in Heaps, NEW r \in Items, NEW e \in Links, NEW g,
         g = IF e = 0 THEN [h EXCEPT !.child[3] = r, !.prev[r] = r]
             ELSE [h EXCEPT !.next[e] = r, !.prev[r] = e]
  PROVE  LinkedTo(h, g, r, e)
<1>1. /\ h.next \in [Items -> Links] /\ h.prev \in [Items -> Links] /\ h.child \in [Items -> Links]
      /\ h.value \in [Items -> Nat] /\ h.name \in [Items -> AllNames] /\ h.live \in SUBSET Items
      /\ h = [next |-> h.next, prev |-> h.prev, child |-> h.child, value |-> h.value,
              name |-> h.name, live |-> h.live]
  BY HeapParts
<1>2. r \in Links /\ 0 \notin Items
  BY ItemsAre
<1>3. CASE e = 0
  <2>1. g = [next |-> h.next, prev |-> [h.prev EXCEPT ![r] = r], child |-> [h.child EXCEPT ![3] = r],
             value |-> h.value, name |-> h.name, live |-> h.live]
    BY <1>1, <1>3
  <2>2. [h.prev EXCEPT ![r] = r] \in [Items -> Links] /\ [h.child EXCEPT ![3] = r] \in [Items -> Links]
    BY <1>1, <1>2
  <2>3. g \in Heaps
    BY <1>1, <2>1, <2>2 DEF Heaps
  <2> QED BY <1>1, <1>2, <1>3, <2>1, <2>3 DEF LinkedTo
<1>4. CASE e # 0
  <2>1. g = [next |-> [h.next EXCEPT ![e] = r], prev |-> [h.prev EXCEPT ![r] = e], child |-> h.child,
             value |-> h.value, name |-> h.name, live |-> h.live]
    BY <1>1, <1>4
  <2>2. [h.next EXCEPT ![e] = r] \in [Items -> Links] /\ [h.prev EXCEPT ![r] = e] \in [Items -> Links]
    BY <1>1, <1>2
  <2>3. g \in Heaps
    BY <1>1, <2>1, <2>2 DEF Heaps
  <2> QED BY <1>1, <1>2, <1>4, <2>1, <2>3 DEF LinkedTo
<1> QED BY <1>3, <1>4

LongerBy(h, g, R, r, e) ==
  InOrder(g, R \cup {r}, e = 0) /\ Children(g, 3) = Append(Children(h, 3), r)

\* The list is longer by the group, if that is the one behind which it was to go.
LEMMA LinkOrder ==
  ASSUME NEW h \in Heaps, NEW R \in SUBSET Items, InOrder(h, R, TRUE), NEW r \in Items, r \notin R, h.next[r] = 0,
         NEW e, e = LastOf(Children(h, 3)), NEW g, LinkedTo(h, g, r, e), 3 \in Items
  PROVE  LongerBy(h, g, R, r, e)
<1> DEFINE s == Children(h, 3)
           N == Len(s)
           t == Append(s, r)
<1>1. /\ s \in Seq(Items) /\ N \in Nat /\ DOMAIN s = 1 .. N
      /\ \A k, l \in DOMAIN s : s[k] = s[l] => k = l
      /\ \A k \in DOMAIN s : s[k] # 0 /\ h.next[s[k]] = IF k = N THEN 0 ELSE s[k + 1]
      /\ h.child[3] = (IF s = << >> THEN 0 ELSE s[1])
      /\ ToSet(s) = R
  BY StatusLine DEF Line
<1>2. /\ \A k \in DOMAIN s : k # 1 => h.prev[s[k]] = s[k - 1]
  BY DEF InOrder
<1>3. /\ t \in Seq(Items) /\ DOMAIN t = 1 .. N + 1 /\ Len(t) = N + 1 /\ t[N + 1] = r
      /\ \A k \in DOMAIN s : t[k] = s[k]
      /\ \A k \in DOMAIN t : k \in DOMAIN s \/ k = N + 1
      /\ t # << >>
  <2> HIDE DEF s
  <2>1. /\ t \in Seq(Items) /\ DOMAIN t = 1 .. N + 1 /\ Len(t) = N + 1 /\ t[N + 1] = r
        /\ \A k \in DOMAIN s : t[k] = s[k]
    BY <1>1
  <2>2. \A k \in 1 .. N + 1 : k \in 1 .. N \/ k = N + 1
    <3> HIDE DEF N
    <3> QED BY <1>1
  <2>3. t # << >>
    <3>1. N + 1 # 0
      <4> HIDE DEF N
      <4> QED BY <1>1
    <3>2. Len(<< >>) = 0
      OBVIOUS
    <3> HIDE DEF t
    <3> QED BY <2>1, <3>1, <3>2
  <2> QED BY <1>1, <2>1, <2>2, <2>3
<1>4. /\ g \in Heaps
      /\ \A j \in Items : g.next[j] = IF j = e THEN r ELSE h.next[j]
      /\ \A j \in Items : g.prev[j] = IF j = r THEN (IF e = 0 THEN r ELSE e) ELSE h.prev[j]
      /\ g.child[3] = IF e = 0 THEN r ELSE h.child[3]
  BY DEF LinkedTo
<1>5. \A k \in DOMAIN s : s[k] \in R /\ s[k] \in Items /\ s[k] # r
  <2>1. \A k \in DOMAIN s : s[k] \in ToSet(s)
    BY DEF ToSet
  <2> QED BY <1>1, <2>1
<1>6. (s = << >> => N = 0 /\ e = 0) /\ (s # << >> => N \in DOMAIN s /\ 1 \in DOMAIN s /\ e = s[N] /\ e # 0)
  <2>1. s = << >> <=> N = 0
    BY <1>1
  <2>2. N # 0 => N \in DOMAIN s /\ 1 \in DOMAIN s
    <3> HIDE DEF N
    <3> QED BY <1>1
  <2> HIDE DEF s
  <2> QED BY <1>1, <2>1, <2>2 DEF LastOf, s
<1> HIDE DEF s, t, N
<1>7. \A k, l \in DOMAIN t : t[k] = t[l] => k = l
  BY <1>1, <1>3, <1>5
<1>8. g.child[3] = t[1] /\ 1 \in DOMAIN t
  <2>1. CASE s = << >>
    <3>1. N + 1 = 1 /\ 1 \in 1 .. N + 1
      BY <1>1, <1>6, <2>1
    <3> QED BY <1>3, <1>4, <1>6, <2>1, <3>1
  <2>2. CASE s # << >>
    <3>1. 1 \in 1 .. N + 1
      BY <1>1
    <3> QED BY <1>1, <1>3, <1>4, <1>6, <2>2, <3>1
  <2> QED BY <2>1, <2>2
<1>9. \A k \in DOMAIN t : g.next[t[k]] = IF k = N + 1 THEN 0 ELSE t[k + 1]
  <2> TAKE k \in DOMAIN t
  <2>1. CASE k = N + 1
    <3>1. r # e
      BY <1>5, <1>6, ItemsAre
    <3> QED BY <1>3, <1>4, <2>1, <3>1
  <2>2. CASE k \in DOMAIN s /\ k = N
    <3>1. t[k] = e /\ e \in Items /\ k + 1 = N + 1
      BY <1>1, <1>3, <1>5, <1>6, <2>2
    <3>2. k # N + 1
      BY <1>1, <2>2
    <3> QED BY <1>3, <1>4, <3>1, <3>2
  <2>3. CASE k \in DOMAIN s /\ k # N
    <3>1. k + 1 \in DOMAIN s /\ k # N + 1
      BY <1>1, <2>3
    <3>2. t[k] = s[k] /\ s[k] # e /\ s[k] \in Items
      <4>1. t[k] = s[k] /\ s[k] \in Items /\ s[k] # 0
        BY <1>1, <1>3, <1>5, <2>3
      <4>2. CASE s = << >>
        BY <1>6, <4>1, <4>2
      <4>3. CASE s # << >>
        <5>1. N \in DOMAIN s /\ e = s[N]
          BY <1>6, <4>3
        <5> QED BY <1>1, <2>3, <4>1, <5>1
      <4> QED BY <4>1, <4>2, <4>3
    <3> QED BY <1>1, <1>3, <1>4, <2>3, <3>1, <3>2
  <2> QED BY <1>3, <2>1, <2>2, <2>3
<1>10. \A k \in DOMAIN t : k # 1 => g.prev[t[k]] = t[k - 1]
  <2> SUFFICES ASSUME NEW k \in DOMAIN t, k # 1 PROVE g.prev[t[k]] = t[k - 1]
    OBVIOUS
  <2>1. CASE k = N + 1
    <3>1. s # << >> /\ k - 1 = N
      BY <1>1, <1>6, <2>1
    <3> QED BY <1>3, <1>4, <1>6, <2>1, <3>1
  <2>2. CASE k \in DOMAIN s
    <3>1. k - 1 \in DOMAIN s
      BY <1>1, <2>2
    <3> QED BY <1>2, <1>3, <1>4, <1>5, <2>2, <3>1
  <2> QED BY <1>3, <2>1, <2>2
<1>11. Linked(g, g.child[3], t)
  BY <1>3, <1>7, <1>8, <1>9 DEF Linked
<1>12. Children(g, 3) = t
  <2>1. g.child[3] \in Links
    BY <1>4 DEF Heaps
  <2> QED BY <1>4, <1>11, <2>1, ChainLinked DEF Children
<1>13. ToSet(t) = R \cup {r}
  <2>1. N + 1 \in DOMAIN t
    BY <1>1, <1>3
  <2>2. \A x : x \in ToSet(t) <=> (\E k \in DOMAIN t : x = t[k])
    BY DEF ToSet
  <2>3. \A x : x \in R <=> \E k \in DOMAIN s : x = s[k]
    BY <1>1 DEF ToSet
  <2>4. \A k \in DOMAIN s : k \in DOMAIN t
    BY <1>1, <1>3
  <2> QED BY <1>3, <2>1, <2>2, <2>3, <2>4
<1>14. e = 0 => g.prev[t[1]] = t[Len(t)]
  <2> HAVE e = 0
  <2>1. s = << >>
    BY <1>6
  <2>2. N + 1 = 1
    BY <1>1, <1>6, <2>1
  <2> QED BY <1>3, <1>4, <2>2
<1>15. InOrder(g, R \cup {r}, e = 0)
  BY <1>10, <1>11, <1>12, <1>13, <1>14 DEF InOrder
<1> QED BY <1>12, <1>15 DEF s, t, LongerBy
\* Links between the groups leave the shape and the fields.
LEMMA LinkShape ==
  ASSUME NEW h, NEW G, NEW q, Shape(h, G, q), NEW r \in G, NEW e \in G \cup {0}, NEW g, LinkedTo(h, g, r, e)
  PROVE  Shape(g, G, q) /\ SameFields(h, g, Objects(G, q))
<1>1. /\ g \in Heaps /\ g.live = h.live /\ g.name = h.name /\ g.value = h.value
      /\ \A j \in Items : g.next[j] = IF j = e THEN r ELSE h.next[j]
      /\ \A j \in Items : g.prev[j] = IF j = r THEN (IF e = 0 THEN r ELSE e) ELSE h.prev[j]
      /\ \A j \in Items : g.child[j] = IF e = 0 /\ j = 3 THEN r ELSE h.child[j]
  BY DEF LinkedTo
<1>2. G \subseteq Items /\ 0 \notin G /\ 3 \in Items /\ 0 \notin Items
  BY ShapeParts, ItemsAre
<1>3. /\ h.child[3] \in G \cup {0}
      /\ \A j \in G : h.next[j] \in G \cup {0} /\ h.prev[j] \in G \cup {0}
  BY DEF Shape
<1>4. \A j \in Items : j \notin G => g.next[j] = h.next[j] /\ g.prev[j] = h.prev[j]
  BY <1>1, <1>2
<1>5. \A j \in Items : j # 3 => g.child[j] = h.child[j]
  BY <1>1
<1>6. g.child[3] \in G \cup {0}
  BY <1>1, <1>2, <1>3
<1>7. \A j \in G : g.next[j] \in G \cup {0} /\ g.prev[j] \in G \cup {0}
  BY <1>1, <1>2, <1>3
<1> QED BY <1>1, <1>4, <1>5, <1>6, <1>7, ShapeLinked

\* CreateLink keeps the invariant: alone, the last group read is still the last.
LEMMA CreateLinkStep ==
  ASSUME NEW G, TreeInv(G), NEW t \in Threads, CreateLink(t)
  PROVE  TreeInv(G)'
<1>1. /\ Types /\ HttpAlone /\ Shape(heap, G, params) /\ Grouped(G) /\ Current /\ Reading(G)
      /\ ~raced => Prints
  BY DEF TreeInv
<1>16. PICK r : r = group[t]
  OBVIOUS
<1>17. PICK e : e = tail[t]
  OBVIOUS
<1> DEFINE to == IF e = 0 THEN "write" ELSE "close"
<1>2. /\ pc[t] = "link" /\ pc' = [pc EXCEPT ![t] = to]
      /\ heap' = (IF e = 0 THEN [heap EXCEPT !.child[3] = r, !.prev[r] = r]
                  ELSE [heap EXCEPT !.next[e] = r, !.prev[r] = e])
      /\ UNCHANGED <<roots, locked, arg, group, tail, sets, raced, httpVars, shown>>
  BY <1>1, <1>16, <1>17 DEF CreateLink, Goes, Types, setVars
<1>3. heap \in Heaps /\ G \subseteq Items /\ 0 \notin G /\ 3 \in Items
      /\ G \subseteq Objects(G, params) /\ {2, 4} \cup G \subseteq Objects(G, params)
      /\ params \in Objects(G, params) \cup {0}
  BY <1>1, ShapeParts
<1>4. r \in G /\ e \in G \cup {0} /\ r \in Items /\ e \in Links
  <2>1. r \in G /\ e \in G \cup {0}
    BY <1>1, <1>2, <1>16, <1>17 DEF Grouped, Placed, Holding
  <2> QED BY <1>3, <2>1, ItemsAre
<1>5. LinkedTo(heap, heap', r, e)
  BY <1>2, <1>3, <1>4, LinkIs
<1>6. Shape(heap', G, params) /\ SameFields(heap, heap', Objects(G, params)) /\ heap' \in Heaps
  BY <1>1, <1>4, <1>5, LinkShape, ShapeParts
<1>18. to \in {"write", "close"} /\ (e = 0 <=> to = "write") /\ (e # 0 <=> to = "close")
  OBVIOUS
<1> HIDE DEF to
<1>7. Aside(t, to)
  <2>1. to \in Setting /\ pc[t] \in Setting
    BY <1>2, <1>18 DEF Setting
  <2> QED BY <1>1, <1>2, <2>1, ThreadGoes
<1>8. arg' = arg /\ group' = group /\ tail' = tail /\ raced' = raced /\ shown' = shown /\ sets' = sets
  BY <1>2
<1>9. Types'
  <2>1. \A u \in Threads : pc'[u] \in Appending \cup {"write"} => arg'[u].group \in Groups /\ arg'[u].name \in Names
    BY <1>1, <1>2, <1>7, <1>8 DEF Types, Aside, Appending
  <2> QED BY <1>1, <1>2, <1>7, <1>8, <2>1 DEF Types, Aside, roots, httpVars
<1>10. HttpAlone' /\ Current' /\ Reading(G)'
  <2>1. Left(G, Objects(G, params))
    BY <1>3, <1>6 DEF Left
  <2> QED BY <1>1, <1>2, <1>7, <2>1, HttpKept
<1>11. Shape(heap, G, params)'
  BY <1>2, <1>6 DEF httpVars
<1>12. Placed(G)'
  <2>1. \A u \in Threads : pc'[u] \in Holding => group[u] \in G
    BY <1>1, <1>4, <1>7, <1>16 DEF Grouped, Placed, Aside
  <2> QED BY <1>1, <1>8, <2>1 DEF Grouped, Placed
<1>14. heap'.name = heap.name
  BY <1>5 DEF LinkedTo
<1>13. ASSUME ~raced PROVE OneAppends(G)' /\ Named(G)' /\ Shows(G)' /\ Prints'
  <2>2. OneAppends(G) /\ Named(G) /\ Shows(G) /\ Prints /\ Placed(G)
    BY <1>1, <1>13 DEF Grouped
  <2>1. \A u \in Threads : u # t => pc[u] \notin Appending /\ pc'[u] \notin Appending /\ pc'[u] = pc[u]
    <3>1. \A u \in Threads : u # t => pc[u] \notin Appending
      BY <1>2, <2>2, Alone DEF Appending
    <3> QED BY <1>7, <3>1 DEF Aside
  <2>3. Linking = {r} /\ Linking' = {}
    <3>1. {u \in Threads : pc[u] = "link"} = {t}
      BY <1>2, <2>1 DEF Appending
    <3>2. {u \in Threads : pc'[u] = "link"} = {}
      BY <1>7, <1>18, <2>1 DEF Appending, Aside
    <3> QED BY <1>8, <1>16, <3>1, <3>2 DEF Linking
  <2>4. Settled /\ (Settled' <=> e = 0)
    BY <1>2, <1>7, <1>18, <2>1 DEF Settled, Appending, Aside
  <2>5. /\ Cells(heap, r) = {} /\ heap.next[r] = 0 /\ e = LastOf(Children(heap, 3))
    BY <1>2, <1>16, <1>17, <2>2 DEF OneAppends
  <2> DEFINE R == G \ {r}
  <2>6. InOrder(heap, R, TRUE) /\ R \in SUBSET G /\ R \in SUBSET Items /\ r \notin R /\ R \cup {r} = G
    <3>1. InOrder(heap, G \ Linking, Settled)
      BY <2>2 DEF OneAppends
    <3>2. InOrder(heap, R, Settled)
      BY <2>3, <3>1
    <3>3. InOrder(heap, R, TRUE)
      <4> HIDE DEF R
      <4> QED BY <2>4, <3>2 DEF InOrder
    <3> QED BY <1>3, <1>4, <3>3
  <2> HIDE DEF R
  <2>7. InOrder(heap', G, e = 0) /\ Children(heap', 3) = Append(Children(heap, 3), r)
    <3>1. LongerBy(heap, heap', R, r, e)
      BY <1>3, <1>4, <1>5, <2>5, <2>6, LinkOrder
    <3> QED BY <2>6, <3>1 DEF LongerBy
  <2>8. InOrder(heap', G \ Linking', Settled')
    <3>1. G \ Linking' = G
      BY <2>3
    <3> QED BY <2>4, <2>7, <3>1 DEF InOrder
  <2>9. Children(heap', 3) # << >> /\ r = LastOf(Children(heap', 3))
    <3> DEFINE s == Children(heap, 3)
    <3>1. s \in Seq(Items)
      BY <1>1, StatusIn
    <3> HIDE DEF s
    <3>2. /\ Append(s, r) # << >> /\ Len(Append(s, r)) = Len(s) + 1
          /\ Append(s, r)[Len(s) + 1] = r
      BY <1>4, <3>1, AppendProperties
    <3> QED BY <2>7, <3>2 DEF LastOf, s
  <2>10. OneAppends(G)'
    <3>1. \A u, w \in Threads : pc'[u] \in Appending /\ pc'[w] \in Appending => u = w
      BY <2>1
    <3>2. \A u \in Threads : pc'[u] # "link"
      BY <1>7, <1>18, <2>1 DEF Appending, Aside
    <3>4. \A u \in Threads : pc'[u] = "close" =>
            Children(heap', 3) # << >> /\ group'[u] = LastOf(Children(heap', 3))
      <4> SUFFICES ASSUME NEW u \in Threads, pc'[u] = "close"
                   PROVE  Children(heap', 3) # << >> /\ group'[u] = LastOf(Children(heap', 3))
        OBVIOUS
      <4>1. u = t
        BY <2>1 DEF Appending
      <4> QED BY <1>8, <1>16, <2>9, <4>1
    <3> QED BY <2>8, <3>1, <3>2, <3>4 DEF OneAppends
  <2>11. Named(G)'
    <3>1. \A u \in Threads : pc'[u] # "create"
      BY <1>7, <1>18, <2>1 DEF Appending, Aside
    <3>2. \A u \in Threads : pc'[u] \in Holding => pc[u] \in Holding
      BY <1>2, <1>7 DEF Holding, Aside
    <3> QED BY <1>8, <1>14, <2>2, <3>1, <3>2 DEF Named
  <2>12. Shows(G)'
    <3>1. \A g \in G : \A n : Val(heap', g, n) = Val(heap, g, n)
      BY <1>1, <1>3, <1>6, FieldsSame
    <3> QED BY <1>8, <1>14, <2>2, <3>1 DEF Shows
  <2>13. Prints'
    <3>1. pc'[Http] = "status" <=> pc[Http] = "status"
      BY <1>7 DEF Aside
    <3> DEFINE s == Children(heap, 3)
    <3>2. s \in Seq(G) /\ ToSet(s) = R /\ r \notin ToSet(s)
      BY <1>1, <2>6, StatusIn, StatusLine
    <3>3. Cells(heap', r) = {}
      BY <1>1, <1>3, <1>4, <1>6, <2>5, FieldsSame
    <3>4. SameFields(heap, heap', G)
      BY <1>3, <1>6 DEF SameFields
    <3>5. ASSUME pc[Http] = "status" PROVE grp # r /\ grp \in ToSet(s) \cup {0}
      BY <1>3, <1>4, <2>2, <3>2, <3>5 DEF Prints
    <3>6. ToSet(Children(heap', 3)) = G
      BY <2>7, StatusLine
    <3> HIDE DEF s
    <3>8. Children(heap, 3) = s /\ Children(heap', 3) = Append(s, r)
      BY <2>7 DEF s
    <3>9. \A x \in G : heap'.name[x] = heap.name[x]
      BY <1>14
    <3>7. ASSUME pc[Http] = "status", NEW c, NEW k, NEW n
          PROVE  Ahead(heap', grp, c, k, n) <=> Ahead(heap, grp, c, k, n)
      <4>1. PICK a : a = grp
        OBVIOUS
      <4>2. a # r
        BY <3>5, <3>7, <4>1
      <4>3. Ahead(heap', a, c, k, n) <=> Ahead(heap, a, c, k, n)
        BY <3>2, <3>3, <3>4, <3>8, <3>9, <4>2, AheadAppended
      <4> QED BY <4>1, <4>3
    <3>10. grp' = grp /\ cur' = cur /\ printed' = printed
      BY <1>2 DEF httpVars
    <3>11. pc[Http] = "status" => grp \in G \cup {0}
      BY <1>1 DEF Reading
    <3> QED BY <1>8, <2>2, <3>1, <3>6, <3>7, <3>10, <3>11 DEF Prints
  <2> QED BY <2>10, <2>11, <2>12, <2>13
<1> QED BY <1>8, <1>9, <1>10, <1>11, <1>12, <1>13 DEF TreeInv, Grouped
\* The heap after the group r is noted as the last.
ClosedBy(h, g, r) ==
  /\ g \in Heaps /\ g.live = h.live /\ g.name = h.name /\ g.value = h.value
  /\ g.next = h.next /\ g.child = h.child
  /\ \A j \in Items : g.prev[j] = IF j = h.child[3] THEN r ELSE h.prev[j]

\* The first group notes the last.
LEMMA CloseIs ==
  ASSUME NEW h \in Heaps, NEW r \in Items, NEW g, g = [h EXCEPT !.prev[h.child[3]] = r]
  PROVE  ClosedBy(h, g, r)
<1>1. /\ h.next \in [Items -> Links] /\ h.prev \in [Items -> Links] /\ h.child \in [Items -> Links]
      /\ h.value \in [Items -> Nat] /\ h.name \in [Items -> AllNames] /\ h.live \in SUBSET Items
      /\ h = [next |-> h.next, prev |-> h.prev, child |-> h.child, value |-> h.value,
              name |-> h.name, live |-> h.live]
  BY HeapParts
<1>2. g = [next |-> h.next, prev |-> [h.prev EXCEPT ![h.child[3]] = r], child |-> h.child,
           value |-> h.value, name |-> h.name, live |-> h.live]
  BY <1>1
<1>3. [h.prev EXCEPT ![h.child[3]] = r] \in [Items -> Links]
  BY <1>1, ItemsAre
<1>4. g \in Heaps
  BY <1>1, <1>2, <1>3 DEF Heaps
<1> QED BY <1>1, <1>2, <1>4 DEF ClosedBy

\* This leaves the tree and the fields.
LEMMA CloseShape ==
  ASSUME NEW h, NEW G, NEW q, Shape(h, G, q), NEW r \in G, NEW g, ClosedBy(h, g, r)
  PROVE  Shape(g, G, q) /\ SameFields(h, g, Objects(G, q))
<1>1. /\ g \in Heaps /\ g.live = h.live /\ g.name = h.name /\ g.value = h.value
      /\ g.next = h.next /\ g.child = h.child
      /\ \A j \in Items : g.prev[j] = IF j = h.child[3] THEN r ELSE h.prev[j]
  BY DEF ClosedBy
<1>2. G \subseteq Items /\ 0 \notin Items
  BY ShapeParts, ItemsAre
<1>3. /\ h.child[3] \in G \cup {0}
      /\ \A j \in G : h.next[j] \in G \cup {0} /\ h.prev[j] \in G \cup {0}
  BY DEF Shape
<1>4. \A j \in Items : j \notin G => g.next[j] = h.next[j] /\ g.prev[j] = h.prev[j]
  BY <1>1, <1>2, <1>3
<1>5. \A j \in Items : j # 3 => g.child[j] = h.child[j]
  BY <1>1
<1>6. g.child[3] \in G \cup {0}
  BY <1>1, <1>3
<1>7. \A j \in G : g.next[j] \in G \cup {0} /\ g.prev[j] \in G \cup {0}
  BY <1>1, <1>2, <1>3
<1> QED BY <1>1, <1>4, <1>5, <1>6, <1>7, ShapeLinked

\* With the last group noted the list is complete.
LEMMA CloseOrder ==
  ASSUME NEW h \in Heaps, NEW R, NEW b, InOrder(h, R, b), NEW r, r = LastOf(Children(h, 3)),
         Children(h, 3) # << >>, NEW g, ClosedBy(h, g, r), 3 \in Items
  PROVE  InOrder(g, R, TRUE) /\ Children(g, 3) = Children(h, 3)
<1> DEFINE s == Children(h, 3)
<1>1. /\ Linked(h, h.child[3], s) /\ ToSet(s) = R
      /\ \A k \in DOMAIN s : k # 1 => h.prev[s[k]] = s[k - 1]
  BY DEF InOrder
<1>2. Line(h, s)
  BY StatusLine
<1>3. /\ s \in Seq(Items) /\ DOMAIN s = 1 .. Len(s) /\ Len(s) \in Nat
      /\ \A k, l \in DOMAIN s : s[k] = s[l] => k = l
      /\ h.child[3] = IF s = << >> THEN 0 ELSE s[1]
  BY <1>2 DEF Line
<1>4. s # << >> /\ r = s[Len(s)] /\ 1 \in DOMAIN s
  BY <1>3 DEF LastOf
<1> HIDE DEF s
<1>5. /\ g \in Heaps /\ g.next = h.next /\ g.child = h.child
      /\ \A j \in Items : g.prev[j] = IF j = s[1] THEN r ELSE h.prev[j]
  BY <1>3, <1>4 DEF ClosedBy
<1>6. Linked(g, g.child[3], s)
  BY <1>1, <1>5 DEF Linked
<1>7. Children(g, 3) = s
  <2>1. g.child[3] \in Links
    BY <1>5 DEF Heaps
  <2> QED BY <1>5, <1>6, <2>1, ChainLinked DEF Children
<1>8. \A k \in DOMAIN s : s[k] \in Items
  BY <1>3
<1>9. \A k \in DOMAIN s : k # 1 => g.prev[s[k]] = s[k - 1]
  <2> SUFFICES ASSUME NEW k \in DOMAIN s, k # 1 PROVE g.prev[s[k]] = s[k - 1]
    OBVIOUS
  <2>1. s[k] # s[1] /\ s[k] \in Items
    BY <1>3, <1>4, <1>8
  <2>2. g.prev[s[k]] = h.prev[s[k]]
    BY <1>5, <2>1
  <2> QED BY <1>1, <2>2
<1>10. g.prev[s[1]] = s[Len(s)]
  BY <1>4, <1>5, <1>8
<1> QED BY <1>1, <1>6, <1>7, <1>9, <1>10 DEF InOrder, s

\* CreateClose keeps the invariant.
LEMMA CreateCloseStep ==
  ASSUME NEW G, TreeInv(G), NEW t \in Threads, CreateClose(t)
  PROVE  TreeInv(G)'
<1>1. /\ Types /\ HttpAlone /\ Shape(heap, G, params) /\ Grouped(G) /\ Current /\ Reading(G)
      /\ ~raced => Prints
  BY DEF TreeInv
<1>16. PICK r : r = group[t]
  OBVIOUS
<1>2. /\ pc[t] = "close" /\ pc' = [pc EXCEPT ![t] = "write"]
      /\ heap' = [heap EXCEPT !.prev[heap.child[3]] = r]
      /\ UNCHANGED <<roots, locked, arg, group, tail, sets, raced, httpVars, shown>>
  BY <1>1, <1>16 DEF CreateClose, Goes, Types, setVars
<1>3. heap \in Heaps /\ G \subseteq Items /\ 0 \notin G /\ 3 \in Items
      /\ G \subseteq Objects(G, params) /\ {2, 4} \cup G \subseteq Objects(G, params)
      /\ params \in Objects(G, params) \cup {0}
  BY <1>1, ShapeParts
<1>4. r \in G /\ r \in Items
  BY <1>1, <1>2, <1>3, <1>16 DEF Grouped, Placed, Holding
<1>5. ClosedBy(heap, heap', r)
  BY <1>2, <1>3, <1>4, CloseIs
<1>6. Shape(heap', G, params) /\ SameFields(heap, heap', Objects(G, params)) /\ heap' \in Heaps
  BY <1>1, <1>4, <1>5, CloseShape, ShapeParts
<1>7. Aside(t, "write")
  <2>1. "write" \in Setting /\ pc[t] \in Setting
    BY <1>2 DEF Setting
  <2> QED BY <1>1, <1>2, <2>1, ThreadGoes
<1>8. arg' = arg /\ group' = group /\ tail' = tail /\ raced' = raced /\ shown' = shown /\ sets' = sets
  BY <1>2
<1>9. Types'
  <2>1. \A u \in Threads : pc'[u] \in Appending \cup {"write"} => arg'[u].group \in Groups /\ arg'[u].name \in Names
    BY <1>1, <1>2, <1>7, <1>8 DEF Types, Aside, Appending
  <2> QED BY <1>1, <1>2, <1>7, <1>8, <2>1 DEF Types, Aside, roots, httpVars
<1>10. HttpAlone' /\ Current' /\ Reading(G)'
  <2>1. Left(G, Objects(G, params))
    BY <1>3, <1>6 DEF Left
  <2> QED BY <1>1, <1>2, <1>7, <2>1, HttpKept
<1>11. Shape(heap, G, params)'
  BY <1>2, <1>6 DEF httpVars
<1>12. Placed(G)'
  <2>1. \A u \in Threads : pc'[u] \in Holding => group[u] \in G
    BY <1>1, <1>4, <1>7, <1>16 DEF Grouped, Placed, Aside
  <2> QED BY <1>1, <1>8, <2>1 DEF Grouped, Placed
<1>14. heap'.name = heap.name
  BY <1>5 DEF ClosedBy
<1>13. ASSUME ~raced PROVE OneAppends(G)' /\ Named(G)' /\ Shows(G)' /\ Prints'
  <2>2. OneAppends(G) /\ Named(G) /\ Shows(G) /\ Prints /\ Placed(G)
    BY <1>1, <1>13 DEF Grouped
  <2>1. /\ \A u \in Threads : u # t => pc[u] \notin Appending /\ pc'[u] \notin Appending /\ pc'[u] = pc[u]
        /\ \A u \in Threads : pc'[u] \notin Appending
    <3>1. \A u \in Threads : u # t => pc[u] \notin Appending
      BY <1>2, <2>2, Alone DEF Appending
    <3> QED BY <1>7, <3>1 DEF Aside, Appending
  <2>3. Linking = {} /\ Linking' = {} /\ Settled'
    <3>1. {u \in Threads : pc[u] = "link"} = {}
      BY <1>2, <2>1 DEF Appending
    <3>2. {u \in Threads : pc'[u] = "link"} = {}
      BY <2>1 DEF Appending
    <3>3. Settled'
      BY <2>1 DEF Settled, Appending
    <3> QED BY <3>1, <3>2, <3>3 DEF Linking
  <2>4. InOrder(heap, G, Settled)
    <3>1. G \ Linking = G
      BY <2>3
    <3> QED BY <2>2, <3>1 DEF OneAppends
  <2>5. Children(heap, 3) # << >> /\ r = LastOf(Children(heap, 3))
    BY <1>2, <1>16, <2>2 DEF OneAppends
  <2>6. InOrder(heap', G, TRUE) /\ Children(heap', 3) = Children(heap, 3)
    BY <1>3, <1>5, <2>4, <2>5, CloseOrder
  <2>7. InOrder(heap', G \ Linking', Settled')
    <3>1. G \ Linking' = G
      BY <2>3
    <3> QED BY <2>3, <2>6, <3>1 DEF InOrder
  <2>8. OneAppends(G)'
    <3>1. \A u \in Threads : pc'[u] # "link" /\ pc'[u] # "close"
      BY <2>1 DEF Appending
    <3> QED BY <2>1, <2>7, <3>1 DEF OneAppends
  <2>9. Named(G)'
    <3>1. \A u \in Threads : pc'[u] # "create"
      BY <2>1 DEF Appending
    <3>2. \A u \in Threads : pc'[u] \in Holding => pc[u] \in Holding
      BY <1>2, <1>7 DEF Holding, Aside
    <3> QED BY <1>8, <1>14, <2>2, <3>1, <3>2 DEF Named
  <2>10. Shows(G)'
    <3>1. \A g \in G : \A n : Val(heap', g, n) = Val(heap, g, n)
      BY <1>1, <1>3, <1>6, FieldsSame
    <3> QED BY <1>8, <1>14, <2>2, <3>1 DEF Shows
  <2>11. Prints'
    <3>1. pc'[Http] = "status" <=> pc[Http] = "status"
      BY <1>7 DEF Aside
    <3>2. \A a, c, k, m : Ahead(heap', a, c, k, m) <=> Ahead(heap, a, c, k, m)
      <4>1. Children(heap, 3) \in Seq(G) /\ SameFields(heap, heap', G) /\ \A x \in G : heap'.name[x] = heap.name[x]
        BY <1>1, <1>3, <1>6, <1>14, StatusIn DEF SameFields
      <4> QED BY <2>6, <4>1, AheadKept
    <3> QED BY <1>2, <2>2, <2>6, <3>1, <3>2 DEF Prints, httpVars
  <2> QED BY <2>8, <2>9, <2>10, <2>11
<1> QED BY <1>8, <1>9, <1>10, <1>11, <1>12, <1>13 DEF TreeInv, Grouped

\* A field of the group p is set to v.
LEMMA GroupWritten ==
  ASSUME NEW h, NEW G, NEW q, Shape(h, G, q), NEW p \in G, NEW n \in AllNames, NEW v \in Nat, Room(h, 1),
         NEW g, g = WriteField(h, p, n, v)
  PROVE  Shape(g, G, q) /\ Untouched(h, g, G, Objects(G, q) \ {p}) /\ Sets(h, g, p, n, v)
<1>1. {2, 4} \cup G \subseteq Objects(G, q) /\ WellFormed(h, Objects(G, q)) /\ Distinct(h, p)
  BY ShapeParts DEF Shape
<1>2. PICK s : Edited(h, g, Objects(G, q), p, s)
  <2>1. p \in Objects(G, q)
    BY <1>1
  <2> QED BY <1>1, <2>1, FieldWritten
<1>3. Sets(h, g, p, n, v)
  <2>1. p \in Objects(G, q)
    BY <1>1
  <2> QED BY <1>1, <2>1, FieldWritten
<1>4. Shape(g, G, q) /\ Untouched(h, g, G, Objects(G, q) \ {p})
  BY <1>2, <1>3, ShapeEdited DEF Sets
<1> QED BY <1>3, <1>4
\* What a thread leaves that writes the group p.
Written(G, p, n, v) ==
  /\ Shape(heap', G, params) /\ Untouched(heap, heap', G, Objects(G, params) \ {p})
  /\ Sets(heap, heap', p, n, v)

\* Write keeps it: nobody prints the status, and the field is of the group named.
LEMMA WriteStep ==
  ASSUME NEW G, TreeInv(G), NEW t \in Threads, Write(t)
  PROVE  TreeInv(G)'
<1>1. /\ Types /\ HttpAlone /\ Shape(heap, G, params) /\ Grouped(G) /\ Current /\ Reading(G)
      /\ ~raced => Prints
  BY DEF TreeInv
<1>16. PICK p : p = group[t]
  OBVIOUS
<1>17. PICK a : a = arg[t]
  OBVIOUS
<1>2. /\ pc[t] = "write" /\ pc' = [pc EXCEPT ![t] = "idle"] /\ ~locked /\ Room(heap, 1)
      /\ heap' = WriteField(heap, p, a.name, a.value)
      /\ shown' = [shown EXCEPT ![<<a.group, a.name>>] = a.value]
      /\ arg' = [arg EXCEPT ![t] = NoArg] /\ group' = [group EXCEPT ![t] = 0] /\ tail' = [tail EXCEPT ![t] = 0]
      /\ UNCHANGED <<roots, locked, sets, raced, httpVars>>
  BY <1>1, <1>16, <1>17 DEF Write, Goes, Free
<1>3. heap \in Heaps /\ G \subseteq Items /\ 0 \notin G
      /\ G \subseteq Objects(G, params) /\ {2, 4} \cup G \subseteq Objects(G, params)
      /\ params \in Objects(G, params) \cup {0}
  BY <1>1, ShapeParts
<1>4. p \in G
  BY <1>1, <1>2, <1>16 DEF Grouped, Placed, Holding
<1>5. a.group \in Groups /\ a.name \in Names /\ a.value \in Nat
  BY <1>1, <1>2, <1>17 DEF Types
<1>6. Written(G, p, a.name, a.value)
  <2>1. a.name \in AllNames
    BY <1>5 DEF AllNames
  <2> QED BY <1>1, <1>2, <1>4, <1>5, <2>1, GroupWritten DEF Written
<1>7. Aside(t, "idle")
  <2>1. "idle" \in Setting /\ pc[t] \in Setting
    BY <1>2 DEF Setting
  <2> QED BY <1>1, <1>2, <2>1, ThreadGoes
<1>8. /\ group'[t] = 0 /\ \A u \in Threads : u # t => group'[u] = group[u]
      /\ tail'[t] = 0 /\ \A u \in Threads : u # t => tail'[u] = tail[u]
      /\ arg'[t] = NoArg /\ \A u \in Threads : u # t => arg'[u] = arg[u]
      /\ raced' = raced /\ sets' = sets
  BY <1>1, <1>2 DEF Types
<1>18. \A u \in Threads : pc'[u] \in Appending \cup {"write"} => u # t /\ pc'[u] = pc[u]
  BY <1>7 DEF Aside, Appending
<1>9. Types'
  <2>1. \A u \in Threads : pc'[u] \in Appending \cup {"write"} => arg'[u].group \in Groups /\ arg'[u].name \in Names
    BY <1>1, <1>8, <1>18 DEF Types
  <2>2. 0 \in Links
    BY ItemsAre
  <2>3. group' \in [Threads -> Links] /\ tail' \in [Threads -> Links]
    BY <1>1, <1>2, <2>2 DEF Types
  <2>4. NoArg \in [group : Groups \cup {NoName}, name : Names \cup {NoName}, value : Nat]
    BY DEF NoArg
  <2>5. arg' \in [Threads -> [group : Groups \cup {NoName}, name : Names \cup {NoName}, value : Nat]]
    BY <1>1, <1>2, <2>4 DEF Types
  <2>6. shown' \in [Groups \X Names -> Nat]
    BY <1>1, <1>2, <1>5 DEF Types
  <2> QED BY <1>1, <1>2, <1>7, <2>1, <2>3, <2>5, <2>6 DEF Types, Aside, roots, httpVars
<1> DEFINE P == Objects(G, params) \ {p}
<1>19. {2, 4} \subseteq P /\ params \in P \cup {0} /\ P \subseteq Objects(G, params)
       /\ \A x \in G : x # p => x \in P
  BY <1>1, <1>3, <1>4 DEF Shape
<1>20. Untouched(heap, heap', G, P)
  BY <1>6 DEF Written
<1>21. pc[Http] # "status"
  BY <1>1, <1>2 DEF HttpAlone
<1> HIDE DEF P
<1>10. HttpAlone' /\ Current' /\ Reading(G)'
  <2>1. Left(G, P)
    BY <1>19, <1>20, <1>21 DEF Left, Untouched
  <2> QED BY <1>1, <1>2, <1>7, <2>1, HttpKept
<1>11. Shape(heap, G, params)'
  BY <1>2, <1>6 DEF httpVars, Written
<1>12. Placed(G)'
  <2>1. \A u \in Threads : pc'[u] \in Holding => group'[u] \in G
    BY <1>1, <1>8, <1>18 DEF Grouped, Placed, Holding, Appending
  <2>2. \A u \in Threads : tail'[u] \in G \cup {0}
    BY <1>1, <1>8 DEF Grouped, Placed
  <2> QED BY <2>1, <2>2 DEF Placed
<1>14. \A x \in G : heap'.name[x] = heap.name[x] /\ heap'.next[x] = heap.next[x]
  BY <1>20 DEF Untouched, SameLinks
<1>15. ASSUME NEW x \in G, x # p
       PROVE  Cells(heap', x) = Cells(heap, x) /\ \A n : Val(heap', x, n) = Val(heap, x, n)
  BY <1>1, <1>3, <1>15, <1>19, <1>20, UntouchedSame
<1>13. ASSUME ~raced PROVE OneAppends(G)' /\ Named(G)' /\ Shows(G)' /\ Prints'
  <2>2. OneAppends(G) /\ Named(G) /\ Shows(G) /\ Placed(G)
    BY <1>1, <1>13 DEF Grouped
  <2>3. /\ \A u \in Threads : pc'[u] \in {"link", "close"} => u # t /\ pc'[u] = pc[u] /\ group'[u] = group[u] /\ tail'[u] = tail[u]
        /\ \A u \in Threads : pc[u] \in {"link", "close"} => u # t /\ pc'[u] = pc[u] /\ group'[u] = group[u]
    BY <1>2, <1>7, <1>8, <1>18 DEF Aside, Appending
  <2>4. Linking' = Linking
    BY <2>3 DEF Linking
  <2>5. Settled' <=> Settled
    BY <2>3 DEF Settled
  <2>6. InOrder(heap', G \ Linking, Settled) /\ Children(heap', 3) = Children(heap, 3)
    <3>1. heap' \in Heaps
      BY <1>6, ShapeParts DEF Written
    <3>2. G \ Linking \in SUBSET G /\ InOrder(heap, G \ Linking, Settled)
      BY <2>2 DEF OneAppends
    <3> QED BY <1>1, <1>20, <3>1, <3>2, OrderKept
  <2>7. InOrder(heap', G \ Linking', Settled')
    BY <2>4, <2>5, <2>6 DEF InOrder
  <2>8. OneAppends(G)'
    <3>1. \A u, w \in Threads : pc'[u] \in Appending /\ pc'[w] \in Appending => u = w
      BY <1>18, <2>2 DEF OneAppends
    <3>2. \A u, w \in Threads : pc'[u] = "write" /\ pc'[w] = "link" => group'[u] # group'[w]
      BY <1>8, <1>18, <2>2 DEF OneAppends, Appending
    <3>3. \A u \in Threads : pc'[u] = "link" =>
            /\ Cells(heap', group'[u]) = {} /\ heap'.next[group'[u]] = 0
            /\ tail'[u] = LastOf(Children(heap', 3))
      <4> SUFFICES ASSUME NEW u \in Threads, pc'[u] = "link"
                   PROVE  /\ Cells(heap', group'[u]) = {} /\ heap'.next[group'[u]] = 0
                          /\ tail'[u] = LastOf(Children(heap', 3))
        OBVIOUS
      <4>1. pc[u] = "link" /\ group'[u] = group[u] /\ tail'[u] = tail[u]
        BY <2>3
      <4>2. group[u] \in G /\ group[u] # p
        BY <1>2, <1>16, <2>2, <4>1 DEF OneAppends, Placed, Holding
      <4>3. Cells(heap, group[u]) = {} /\ heap.next[group[u]] = 0 /\ tail[u] = LastOf(Children(heap, 3))
        BY <2>2, <4>1 DEF OneAppends
      <4> QED BY <1>14, <1>15, <2>6, <4>1, <4>2, <4>3
    <3>4. \A u \in Threads : pc'[u] = "close" =>
            Children(heap', 3) # << >> /\ group'[u] = LastOf(Children(heap', 3))
      BY <2>2, <2>3, <2>6 DEF OneAppends
    <3> QED BY <2>7, <3>1, <3>2, <3>3, <3>4 DEF OneAppends
  <2>9. Named(G)'
    <3>1. \A u \in Threads : pc'[u] = "create" => \A g \in G : heap'.name[g] # arg'[u].group
      BY <1>8, <1>14, <1>18, <2>2 DEF Named, Appending
    <3>2. \A u \in Threads : pc'[u] \in Holding => heap'.name[group'[u]] = arg'[u].group
      <4> SUFFICES ASSUME NEW u \in Threads, pc'[u] \in Holding PROVE heap'.name[group'[u]] = arg'[u].group
        OBVIOUS
      <4>1. u # t /\ pc[u] \in Holding
        BY <1>18 DEF Holding, Appending
      <4> QED BY <1>8, <1>14, <2>2, <4>1 DEF Named, Placed
    <3>3. /\ \A g \in G : heap'.name[g] \in Groups
          /\ \A g, k \in G : heap'.name[g] = heap'.name[k] => g = k
      BY <1>14, <2>2 DEF Named
    <3> QED BY <3>1, <3>2, <3>3 DEF Named
  <2>10. Shows(G)'
    <3>1. heap.name[p] = a.group
      BY <1>2, <1>16, <1>17, <2>2 DEF Named, Holding
    <3>2. shown \in [Groups \X Names -> Nat]
      BY <1>1 DEF Types
    <3>3. \A k \in Groups, n \in Names :
            shown'[<<k, n>>] = IF k = a.group /\ n = a.name THEN a.value ELSE shown[<<k, n>>]
      BY <1>2, <3>2
    <3>4. \A g \in G, n \in Names : Val(heap', g, n) = shown'[<<heap'.name[g], n>>]
      <4> SUFFICES ASSUME NEW g \in G, NEW n \in Names PROVE Val(heap', g, n) = shown'[<<heap'.name[g], n>>]
        OBVIOUS
      <4>1. heap'.name[g] = heap.name[g] /\ heap.name[g] \in Groups /\ Val(heap, g, n) = shown[<<heap.name[g], n>>]
        BY <1>14, <2>2 DEF Named, Shows
      <4>2. CASE g # p
        <5>1. heap.name[g] # a.group
          BY <1>4, <2>2, <3>1, <4>2 DEF Named
        <5> QED BY <1>15, <3>3, <4>1, <4>2, <5>1
      <4>3. CASE g = p
        <5>1. Val(heap', p, a.name) = a.value /\ (n # a.name => Val(heap', p, n) = Val(heap, p, n))
          BY <1>6 DEF Written, Sets
        <5> QED BY <3>1, <3>3, <4>1, <4>3, <5>1
      <4> QED BY <4>2, <4>3
    <3>5. \A k \in Groups : (\A g \in G : heap'.name[g] # k) => \A n \in Names : shown'[<<k, n>>] = 0
      <4> SUFFICES ASSUME NEW k \in Groups, \A g \in G : heap'.name[g] # k, NEW n \in Names
                   PROVE  shown'[<<k, n>>] = 0
        OBVIOUS
      <4>1. k # a.group /\ \A g \in G : heap.name[g] # k
        BY <1>4, <1>14, <3>1
      <4>2. shown[<<k, n>>] = 0
        BY <2>2, <4>1 DEF Shows
      <4> QED BY <3>3, <4>1, <4>2
    <3> QED BY <3>4, <3>5 DEF Shows
  <2>11. Prints'
    <3>1. pc'[Http] # "status"
      BY <1>7, <1>21 DEF Aside
    <3> QED BY <3>1 DEF Prints
  <2> QED BY <2>8, <2>9, <2>10, <2>11
<1> QED BY <1>8, <1>9, <1>10, <1>11, <1>12, <1>13 DEF TreeInv, Grouped

-----------------------------------------------------------------------------
(* The invariant is kept by every step. *)

\* Nor does it matter that nothing happens.
LEMMA StutterStep ==
  ASSUME NEW G, TreeInv(G), UNCHANGED vars
  PROVE  TreeInv(G)'
<1>1. UNCHANGED <<heap, roots, locked, pc, setVars, httpVars, shown>>
  BY DEF vars
<1>2. /\ heap' = heap /\ app' = app /\ settings' = settings /\ status' = status /\ certs' = certs
      /\ locked' = locked /\ pc' = pc /\ shown' = shown
      /\ arg' = arg /\ group' = group /\ tail' = tail /\ sets' = sets /\ raced' = raced
      /\ params' = params /\ grp' = grp /\ cur' = cur /\ requests' = requests /\ wanted' = wanted
      /\ kept' = kept /\ printed' = printed /\ stale' = stale
  BY <1>1 DEF roots, setVars, httpVars
<1>3. Types' /\ HttpAlone' /\ Current' /\ Reading(G)'
  BY <1>2 DEF TreeInv, Types, HttpAlone, Current, Reading
<1>4. OneAppends(G) => OneAppends(G)'
  BY <1>2 DEF OneAppends, Linking, Settled
<1>5. Grouped(G)'
  BY <1>2, <1>4 DEF TreeInv, Grouped, Placed, Named, Shows
<1>6. Shape(heap, G, params)' /\ (~raced' => Prints')
  BY <1>2 DEF TreeInv, Prints
<1> QED BY <1>3, <1>5, <1>6 DEF TreeInv

\* The groups are items.
LEMMA TreeItems ==
  ASSUME NEW G, TreeInv(G)
  PROVE  G \in SUBSET Items
<1>1. Shape(heap, G, params)
  BY DEF TreeInv
<1> QED BY <1>1, ShapeParts

\* Every step keeps the invariant, with the groups that are there then.
LEMMA InvStep == Inv /\ [Next]_vars => Inv'
<1> SUFFICES ASSUME Inv, [Next]_vars PROVE \E H : TreeInv(H)'
  <2>1. ASSUME NEW H, TreeInv(H)' PROVE Inv'
    <3>1. Shape(heap', H, params')
      BY <2>1 DEF TreeInv
    <3>2. H \in SUBSET Items
      BY <3>1, ShapeParts
    <3> QED BY <2>1, <3>2 DEF Inv
  <2> QED BY <2>1
<1>1. PICK G \in SUBSET Items : TreeInv(G)
  BY DEF Inv
<1>2. CASE UNCHANGED vars
  BY <1>1, <1>2, StutterStep
<1>3. CASE \E t \in Threads : SetStep(t) \/ \E g \in Groups, n \in Names : SetBegin(t, g, n)
  <2>1. PICK t \in Threads : SetStep(t) \/ \E g \in Groups, n \in Names : SetBegin(t, g, n)
    BY <1>3
  <2>2. ASSUME CreateRead(t) PROVE \E H : TreeInv(H)'
    BY <1>1, <2>2, CreateReadStep
  <2>3. ASSUME CreateLink(t) PROVE TreeInv(G)'
    BY <1>1, <2>3, CreateLinkStep
  <2>4. ASSUME CreateClose(t) PROVE TreeInv(G)'
    BY <1>1, <2>4, CreateCloseStep
  <2>5. ASSUME Write(t) PROVE TreeInv(G)'
    BY <1>1, <2>5, WriteStep
  <2>6. ASSUME NEW g \in Groups, NEW n \in Names, SetBegin(t, g, n) PROVE TreeInv(G)'
    BY <1>1, <2>6, SetBeginStep
  <2> QED BY <2>1, <2>2, <2>3, <2>4, <2>5, <2>6 DEF SetStep
<1>4. CASE HttpStep
  <2>1. ASSUME AnswerStatus PROVE TreeInv(G)'
    BY <1>1, <2>1, AnswerStatusStep
  <2>2. ASSUME WalkItem PROVE TreeInv(G)'
    BY <1>1, <2>2, WalkItemStep
  <2>3. ASSUME WalkEnd PROVE TreeInv(G)'
    BY <1>1, <2>3, WalkEndStep
  <2>4. ASSUME PostItem PROVE TreeInv(G)'
    BY <1>1, <2>4, PostItemStep
  <2>5. ASSUME PostEnd PROVE TreeInv(G)'
    BY <1>1, <2>5, PostEndStep
  <2> QED BY <1>4, <2>1, <2>2, <2>3, <2>4, <2>5 DEF HttpStep
<1>5. CASE GetStatus
  BY <1>1, <1>5, GetStatusStep
<1>6. CASE GetApp
  BY <1>1, <1>6, GetAppStep
<1>7. ASSUME NEW names \in Posts, Post(names) PROVE TreeInv(G)'
  BY <1>1, <1>7, PostStep
<1>8. ASSUME NEW n \in Certs, CertPut(n) \/ CertRemove(n) PROVE TreeInv(G)'
  BY <1>1, <1>8, CertStep
<1> QED BY <1>2, <1>3, <1>4, <1>5, <1>6, <1>7, <1>8 DEF Next

\* The inductive invariant: in every reachable state the heap is the tree of its groups.
THEOREM TreeInvariant == Spec => []Inv
<1>1. Init => Inv
  BY InitInv DEF Inv
<1> QED BY <1>1, InvStep, PTL DEF Spec

-----------------------------------------------------------------------------
(* What the invariant says of the tree. *)

\* The list of an object of the tree is sound.
LEMMA ListSound ==
  ASSUME NEW h, NEW O, WellFormed(h, O), NEW p \in O, Distinct(h, p)
  PROVE  Sound(h, p)
<1> DEFINE c == Children(h, p)
<1>1. h \in Heaps /\ p \in Items /\ ListOf(h, p, c) /\ ToSet(c) \subseteq h.live
  BY ListCells DEF Cells
<1>2. \A i, j \in ToSet(c) : h.name[i] = h.name[j] => i = j
  BY DEF Distinct, Cells
<1>3. Children(h, p) = c
  OBVIOUS
<1> HIDE DEF c
<1>4. /\ c \in Seq(Items) /\ Len(c) \in Nat /\ DOMAIN c = 1 .. Len(c)
      /\ \A k \in DOMAIN c : c[k] \in ToSet(c)
      /\ \A k, l \in DOMAIN c : c[k] = c[l] => k = l
      /\ \A k \in DOMAIN c : h.prev[c[k]] = IF k = 1 THEN c[Len(c)] ELSE c[k - 1]
  BY <1>1, ListParts
<1>5. c # << >> => 1 \in DOMAIN c
  BY <1>4
<1>6. \A k \in 2 .. Len(c) : k \in DOMAIN c /\ k # 1
  BY <1>4
<1>7. c # << >> => h.prev[c[1]] = Last(c)
  BY <1>4, <1>5 DEF Last
<1> QED BY <1>1, <1>2, <1>3, <1>4, <1>6, <1>7 DEF Sound

\* So is the list of the status, once nothing is under way.
LEMMA StatusSound ==
  ASSUME NEW h, NEW R, InOrder(h, R, TRUE), R \subseteq h.live,
         \A i, j \in R : h.name[i] = h.name[j] => i = j
  PROVE  Sound(h, 3)
<1> DEFINE c == Children(h, 3)
<1>1. Line(h, c) /\ ToSet(c) = R
  BY StatusLine
<1>2. /\ \A k \in DOMAIN c : k # 1 => h.prev[c[k]] = c[k - 1]
      /\ c # << >> => h.prev[c[1]] = c[Len(c)]
  BY DEF InOrder
<1>3. Children(h, 3) = c
  OBVIOUS
<1>4. DOMAIN c = 1 .. Len(c) /\ Len(c) \in Nat /\ \A k, l \in DOMAIN c : c[k] = c[l] => k = l
  BY <1>1 DEF Line
<1> HIDE DEF c
<1>5. \A k \in DOMAIN c : c[k] \in R
  BY <1>1 DEF ToSet
<1>6. \A k \in 2 .. Len(c) : k \in DOMAIN c /\ k # 1
  BY <1>4
<1>7. c # << >> => h.prev[c[1]] = Last(c)
  BY <1>2 DEF Last
<1>8. /\ \A k \in DOMAIN c : c[k] \in h.live
      /\ \A k, l \in DOMAIN c : k # l => h.name[c[k]] # h.name[c[l]]
  BY <1>4, <1>5
<1>9. \A k \in 2 .. Len(c) : h.prev[c[k]] = c[k - 1]
  BY <1>2, <1>6
<1> QED BY <1>3, <1>7, <1>8, <1>9 DEF Sound

\* Nothing in use points to what is not, ...
LEMMA LiveClosed ==
  ASSUME NEW h, NEW G, NEW q, Shape(h, G, q)
  PROVE  Closed(h, h.live)
<1> DEFINE O == Objects(G, q)
<1>1. WellFormed(h, O)
  BY DEF Shape
<1>6. /\ G \subseteq O /\ {2, 4} \subseteq O /\ (q # 0 => q \in O)
      /\ \A p \in O : p \in {2, 4} \cup G \/ (p = q /\ q # 0)
  BY DEF Objects
<1> HIDE DEF O
<1>2. /\ h.child[1] = 2 /\ h.next[1] = 0 /\ h.next[2] = 3 /\ h.next[3] = 0 /\ h.next[4] = 0
      /\ q # 0 => h.next[q] = 0
      /\ h.child[3] \in G \cup {0}
      /\ \A g \in G : h.next[g] \in G \cup {0}
  BY DEF Shape
<1>3. /\ h.live = {1, 3} \cup O \cup UNION {Cells(h, p) : p \in O}
      /\ \A p \in O : \A j \in Cells(h, p) : h.child[j] = 0
  BY <1>1 DEF WellFormed
<1>4. ASSUME NEW p \in O
      PROVE  /\ h.child[p] \in Cells(h, p) \cup {0}
             /\ \A j \in Cells(h, p) : h.next[j] \in Cells(h, p) \cup {0}
  BY <1>1, FirstCell
<1>5. ASSUME NEW x \in h.live PROVE h.next[x] \in h.live \cup {0} /\ h.child[x] \in h.live \cup {0}
  <2>1. CASE x \in {1, 3}
    BY <1>2, <1>3, <1>6, <2>1
  <2>2. CASE x \in O
    <3>1. h.next[x] \in O \cup {0, 3}
      BY <1>2, <1>6, <2>2
    <3>2. h.child[x] \in Cells(h, x) \cup {0}
      BY <1>4, <2>2
    <3> QED BY <1>3, <2>2, <3>1, <3>2
  <2>3. CASE \E p \in O : x \in Cells(h, p)
    BY <1>3, <1>4, <2>3
  <2> QED BY <1>3, <2>1, <2>2, <2>3
<1> QED BY <1>5 DEF Closed

\* ... and all of it hangs on the objects, if no group is still to be linked.
LEMMA LiveReached ==
  ASSUME NEW h, NEW G, NEW q, Shape(h, G, q), NEW b, InOrder(h, G, b)
  PROVE  h.live = Reach(h, 1) \cup Reach(h, 4) \cup Reach(h, q)
<1> DEFINE O == Objects(G, q)
<1>1. /\ WellFormed(h, O) /\ h \in Heaps /\ q \in Links
      /\ h.child[1] = 2 /\ h.next[2] = 3 /\ {1, 2, 3, 4} \subseteq Items
  <2>1. WellFormed(h, O) /\ q \in Links /\ h.child[1] = 2 /\ h.next[2] = 3
    BY DEF Shape
  <2>2. h \in Heaps /\ {1, 2, 3, 4} \subseteq Items
    BY ShapeParts
  <2> QED BY <2>1, <2>2
<1>12. /\ (q # 0 => q \in O) /\ 4 \in O
       /\ \A p \in O : p \in {2, 4} \cup G \/ (p = q /\ q # 0)
  BY DEF Objects
<1> HIDE DEF O
<1>2. h.live = {1, 3} \cup O \cup UNION {Cells(h, p) : p \in O} /\ h.live \in SUBSET Items
  BY <1>1, HeapParts DEF WellFormed
<1>3. Closed(h, h.live)
  BY LiveClosed
<1>4. Reach(h, 1) \subseteq h.live /\ Reach(h, 4) \subseteq h.live /\ Reach(h, q) \subseteq h.live
  BY <1>1, <1>2, <1>3, <1>12, ReachInside
<1> DEFINE A == Reach(h, 1)
           C == Reach(h, 4)
           Q == Reach(h, q)
<1>5. 1 \in A /\ Closed(h, A) /\ 4 \in C /\ Closed(h, C)
  BY <1>1, ReachClosed
<1>6. q # 0 => q \in Q /\ Closed(h, Q)
  BY <1>1, ReachClosed, ItemsAre
<1>7. ASSUME NEW p \in O, NEW X, Closed(h, X), p \in X PROVE Cells(h, p) \subseteq X
  <2>1. Linked(h, h.child[p], Children(h, p))
    BY <1>1, ListCells DEF ListOf
  <2> QED BY <1>1, <1>7, <2>1, ClosedHasFields DEF Cells
<1>8. 2 \in A /\ 3 \in A
  <2> HIDE DEF A
  <2> QED BY <1>1, <1>5 DEF Closed
<1>9. G \subseteq A
  <2>1. Linked(h, h.child[3], Children(h, 3)) /\ ToSet(Children(h, 3)) = G
    BY DEF InOrder
  <2> HIDE DEF A
  <2> QED BY <1>1, <1>5, <1>8, <2>1, ClosedHasFields
<1> HIDE DEF A, C, Q
<1>10. ASSUME NEW p \in O PROVE {p} \cup Cells(h, p) \subseteq A \cup C \cup Q
  BY <1>5, <1>6, <1>7, <1>8, <1>9, <1>12
<1>11. h.live \subseteq A \cup C \cup Q
  BY <1>2, <1>5, <1>8, <1>10
<1> QED BY <1>4, <1>11 DEF A, C, Q

\* Sound lists, and no memory lost.
LEMMA InvLists == Inv => ListsAreSound
<1> SUFFICES ASSUME NEW G, TreeInv(G) PROVE ListsAreSound
  BY DEF Inv
<1>1. Types /\ Shape(heap, G, params) /\ Grouped(G)
  BY DEF TreeInv
<1>2. app = 1 /\ settings = 2 /\ status = 3 /\ certs = 4
  BY <1>1 DEF Types
<1>3. ASSUME NEW p \in {2, 4} \cup G PROVE Sound(heap, p)
  <2>1. {2, 4} \cup G \subseteq Objects(G, params) /\ WellFormed(heap, Objects(G, params)) /\ Distinct(heap, p)
    BY <1>1, ShapeParts DEF Shape
  <2> QED BY <2>1, ListSound
<1>4. \A g \in ToSet(Children(heap, 3)) : Sound(heap, g)
  <2>1. Cells(heap, 3) \subseteq G
    BY <1>1, StatusIn
  <2> QED BY <1>3, <2>1 DEF Cells
<1>5. ASSUME ~raced, ~Between
      PROVE  Sound(heap, 3) /\ heap.live = Reach(heap, 1) \cup Reach(heap, 4) \cup Reach(heap, params)
  <2>1. \A t \in Threads : pc[t] # "link" /\ pc[t] # "close"
    BY <1>5 DEF Between, Appending
  <2>2. G \ Linking = G /\ (Settled <=> TRUE)
    BY <2>1 DEF Linking, Settled
  <2>3. InOrder(heap, G, TRUE)
    <3>1. InOrder(heap, G \ Linking, Settled)
      BY <1>1, <1>5 DEF Grouped, OneAppends
    <3> QED BY <2>2, <3>1 DEF InOrder
  <2>4. G \subseteq heap.live
    <3>1. {2, 4} \cup G \subseteq Objects(G, params) /\ WellFormed(heap, Objects(G, params))
      BY <1>1, ShapeParts DEF Shape
    <3> QED BY <3>1, ListCells
  <2>5. \A i, j \in G : heap.name[i] = heap.name[j] => i = j
    BY <1>1, <1>5 DEF Grouped, Named
  <2> QED BY <1>1, <2>3, <2>4, <2>5, StatusSound, LiveReached
<1> QED BY <1>2, <1>3, <1>4, <1>5 DEF ListsAreSound

\* The tree says what was set last.
LEMMA InvCurrent == Inv => TreeIsCurrent
<1> SUFFICES ASSUME NEW G, TreeInv(G) PROVE TreeIsCurrent
  BY DEF Inv
<1>1. Types /\ Shape(heap, G, params) /\ Grouped(G) /\ Current
  BY DEF TreeInv
<1>2. settings = 2 /\ status = 3 /\ certs = 4
  BY <1>1 DEF Types
<1>3. \A p, n : ValueOf(p, n) = Val(heap, p, n)
  BY DEF ValueOf, Val
<1>4. ASSUME ~raced, NEW g \in Groups, NEW n \in Names PROVE Val(heap, Find(heap, 3, g), n) = shown[<<g, n>>]
  <2>1. OneAppends(G) /\ Named(G) /\ Shows(G) /\ Placed(G)
    BY <1>1, <1>4 DEF Grouped
  <2>2. \/ Find(heap, 3, g) = 0 /\ \A x \in Cells(heap, 3) : heap.name[x] # g
        \/ Find(heap, 3, g) \in Cells(heap, 3) /\ Find(heap, 3, g) \in G /\ heap.name[Find(heap, 3, g)] = g
    BY <1>1, GroupFound
  <2>3. CASE Find(heap, 3, g) = 0 /\ \A x \in Cells(heap, 3) : heap.name[x] # g
    <3>1. Val(heap, Find(heap, 3, g), n) = 0
      BY <2>3 DEF Val
    <3>2. Cells(heap, 3) = G \ Linking
      BY <2>1, StatusLine DEF OneAppends, Cells
    <3>3. CASE \A x \in G : heap.name[x] # g
      BY <2>1, <3>1, <3>3 DEF Shows
    <3>4. CASE \E x \in G : heap.name[x] = g
      <4>1. PICK x \in G : heap.name[x] = g
        BY <3>4
      <4>2. x \in Linking
        BY <2>3, <3>2, <4>1
      <4>3. Cells(heap, x) = {}
        BY <2>1, <4>2 DEF Linking, OneAppends
      <4>4. WellFormed(heap, Objects(G, params)) /\ x \in Objects(G, params)
        <5>1. {2, 4} \cup G \subseteq Objects(G, params)
          BY <1>1, ShapeParts
        <5> QED BY <1>1, <5>1 DEF Shape
      <4>5. Val(heap, x, n) = 0
        BY <4>3, <4>4, ValIs
      <4> QED BY <2>1, <3>1, <4>1, <4>5 DEF Shows
    <3> QED BY <3>3, <3>4
  <2>4. CASE Find(heap, 3, g) \in G /\ heap.name[Find(heap, 3, g)] = g
    BY <2>1, <2>4 DEF Shows
  <2> QED BY <2>2, <2>3, <2>4
<1> QED BY <1>1, <1>2, <1>3, <1>4 DEF TreeIsCurrent, Current

\* The status is printed whole.
LEMMA InvSnapshot == Inv => StatusIsASnapshot
<1> SUFFICES ASSUME NEW G, TreeInv(G) PROVE StatusIsASnapshot
  BY DEF Inv
<1>1. Types /\ Grouped(G) /\ Reading(G) /\ (~raced => Prints)
  BY DEF TreeInv
<1>2. stale # "status"
  BY <1>1 DEF Reading
<1>3. ASSUME pc[Http] = "status", grp = 0, ~raced PROVE printed = shown
  <2>1. InOrder(heap, G \ Linking, Settled)
    BY <1>1, <1>3 DEF Grouped, OneAppends
  <2>2. \A k, n : ~Ahead(heap, grp, cur, k, n)
    BY <1>3, <2>1, NothingAhead
  <2>3. \A k \in Groups, n \in Names : printed[<<k, n>>] = shown[<<k, n>>]
    BY <1>1, <1>3, <2>2 DEF Prints
  <2>4. printed \in [Groups \X Names -> Nat] /\ shown \in [Groups \X Names -> Nat]
    BY <1>1 DEF Types
  <2>5. \A f \in Groups \X Names : printed[f] = shown[f]
    BY <2>3
  <2> QED BY <2>4, <2>5
<1> QED BY <1>2, <1>3 DEF StatusIsASnapshot

\* Whatever is set, replaced, added and deleted, the lists of the tree stay sound, and
\* whenever nothing is under way the memory in use is what hangs on the objects, unless
\* two threads appended a group at once: for any number of threads, groups, names and
\* items.
THEOREM TreeStaysSound == Spec => []ListsAreSound
BY TreeInvariant, InvLists, PTL

\* The tree says of each setting and field what was set last, and holds no other.
THEOREM TreeSaysWhatWasSet == Spec => []TreeIsCurrent
BY TreeInvariant, InvCurrent, PTL

\* GET /status prints no freed item, and every field as it was set last, whoever sets
\* one meanwhile.
THEOREM StatusIsPrintedWhole == Spec => []StatusIsASnapshot
BY TreeInvariant, InvSnapshot, PTL
=============================================================================
