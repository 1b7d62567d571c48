---------------------------- MODULE HotspotsProofs ----------------------------
(***************************************************************************)
(* Of the fetch_hotspots tool, for any calls, platforms and answers:       *)
(*   - the merge of what the platforms report is fair and full (FairMerge),*)
(*   - an agent is shown candidates of its sources, once each (OnlyWanted),*)
(*   - what is cached was never cut short (CutNeverCached).                *)
(*                                                                         *)
(* The merge is a recursion over turns.  Induction on them is that on a    *)
(* set of numbers (SetInduction), from the well-foundedness of < on Nat.   *)
(***************************************************************************)
EXTENDS Hotspots, FiniteSetTheorems, TLAPS

------------------------------------------------------------------------------
(* Numbers: the least of a set, induction, recursion, counting *)

\* The order of numbers as a set of pairs.
Before == {ss \in Nat \X Nat : ss[1] < ss[2]}

\* No infinite descent in the numbers, in the form of the lemmas on minimal elements.
LEMMA BeforeWellFounded == IsWellFoundedOn(Before, Nat)
BY NatLessThanWellFounded DEF OpToRel, Before

\* A set of numbers has a least one.
LEMMA LeastNatural ==
    ASSUME NEW S \in SUBSET Nat, S # {}
    PROVE  \E m \in S : \A k \in S : m <= k
<1>1. PICK m \in S : \A k \in S : ~ (<<k, m>> \in Before)
  <2>1. IsWellFoundedOn(Before, Nat)
    BY BeforeWellFounded
  <2> QED
    BY <2>1, WFMin
<1>2. \A i, j \in Nat : i < j => <<i, j>> \in Before
  BY DEF Before
<1>3. m \in Nat /\ \A k \in S : k \in Nat
  OBVIOUS
<1>4. \A k \in S : ~ (k < m)
  BY <1>1, <1>2, <1>3
<1> QED
  BY <1>3, <1>4

\* Induction, with a set of numbers in place of a predicate.
LEMMA SetInduction ==
    ASSUME NEW S, NEW n \in Nat, 0 \in S, \A i \in 0 .. n - 1 : i \in S => i + 1 \in S
    PROVE  \A i \in 0 .. n : i \in S
<1> DEFINE B == {i \in 0 .. n : i \notin S}
<1>1. SUFFICES ASSUME B # {} PROVE FALSE
  OBVIOUS
<1>2. PICK m \in B : \A k \in B : m <= k
  BY <1>1, LeastNatural, B \in SUBSET Nat
<1>3. m \in 0 .. n /\ m \notin S /\ m # 0
  OBVIOUS
<1>4. m - 1 \in 0 .. n - 1 /\ m - 1 \in S
  BY <1>2, <1>3
<1> QED
  BY <1>3, <1>4

\* The values a function takes on from s.
Follows(St, s, next, n, f) ==
    f \in [0 .. n -> St] /\ f[0] = s /\ \A i \in 1 .. n : f[i] = next[f[i - 1]]

\* A recursion on numbers is defined.
LEMMA Recursion ==
    ASSUME NEW St, NEW s \in St, NEW next \in [St -> St], NEW n \in Nat
    PROVE  \E f : Follows(St, s, next, n, f)
<1> DEFINE Good(m, f) == f \in [0 .. m -> St] /\ f[0] = s /\ \A i \in 1 .. m : f[i] = next[f[i - 1]]
<1> DEFINE S == {m \in Nat : \E f : Good(m, f)}
<1>1. 0 \in S
  <2>1. Good(0, [i \in 0 .. 0 |-> s])
    OBVIOUS
  <2> HIDE DEF Good
  <2> QED
    BY <2>1
<1>2. ASSUME NEW m \in 0 .. n - 1, m \in S
      PROVE  m + 1 \in S
  <2>1. PICK f : Good(m, f)
    BY <1>2
  <2> DEFINE g == [i \in 0 .. m + 1 |-> IF i <= m THEN f[i] ELSE next[f[m]]]
  <2>2. \A i \in 0 .. m : i \in 0 .. m + 1 /\ g[i] = f[i]
    OBVIOUS
  <2>3. g[m + 1] = next[f[m]] /\ next[f[m]] \in St /\ m \in 0 .. m
    BY <2>1
  <2>4. g \in [0 .. m + 1 -> St]
    BY <2>1, <2>3
  <2>5. g[0] = s
    BY <2>1, <2>2
  <2>6. ASSUME NEW i \in 1 .. m + 1
        PROVE  g[i] = next[g[i - 1]]
    <3>1. CASE i <= m
      <4>1. i \in 1 .. m /\ i \in 0 .. m /\ i - 1 \in 0 .. m
        BY <3>1
      <4>2. g[i] = f[i] /\ g[i - 1] = f[i - 1] /\ f[i] = next[f[i - 1]]
        BY <2>1, <2>2, <4>1
      <4> QED
        BY <4>2
    <3>2. CASE i = m + 1
      BY <2>2, <2>3, <3>2
    <3> QED
      BY <3>1, <3>2
  <2> HIDE DEF g
  <2>7. Good(m + 1, g)
    BY <2>4, <2>5, <2>6
  <2> QED
    BY <2>7
<1> HIDE DEF Good
<1>3. n \in 0 .. n /\ \A i \in 0 .. n : i \in S
  <2>1. \A i \in 0 .. n - 1 : i \in S => i + 1 \in S
    BY <1>2
  <2> HIDE DEF S
  <2> QED
    BY <1>1, <2>1, SetInduction
<1>4. PICK f : Good(n, f)
  BY <1>3
<1> QED
  BY <1>4 DEF Good, Follows

\* How many of a set are up to a number.
LEMMA CountUpTo ==
    ASSUME NEW n \in Nat, NEW S \in SUBSET (1 .. n)
    PROVE  /\ IsFiniteSet(S) /\ Cardinality(S) \in Nat
           /\ \A i \in 0 .. n : Cardinality({j \in S : j <= i}) \in Nat
           /\ Cardinality({j \in S : j <= 0}) = 0
           /\ {j \in S : j <= n} = S
           /\ \A i \in 1 .. n : Cardinality({j \in S : j <= i}) =
                  Cardinality({j \in S : j <= i - 1}) + (IF i \in S THEN 1 ELSE 0)
<1>1. IsFiniteSet(1 .. n)
  BY FS_Interval
<1>2. \A T \in SUBSET S : IsFiniteSet(T) /\ Cardinality(T) \in Nat
  BY <1>1, FS_Subset, FS_CardinalityType
<1>a. \A j \in S : j \in 1 .. n
  OBVIOUS
<1>b. \A j \in S : j \in Nat /\ ~ (j <= 0) /\ j <= n
  BY <1>a
<1>3. {j \in S : j <= 0} = {}
  BY <1>b
<1>4. \A i : {j \in S : j <= i} \in SUBSET S
  OBVIOUS
<1>5. ASSUME NEW i \in 1 .. n
      PROVE  Cardinality({j \in S : j <= i}) =
                  Cardinality({j \in S : j <= i - 1}) + (IF i \in S THEN 1 ELSE 0)
  <2> DEFINE T == {j \in S : j <= i - 1}
  <2>1. i \notin T /\ T \in SUBSET S
    OBVIOUS
  <2>2. CASE i \in S
    <3>1. {j \in S : j <= i} = T \cup {i}
      <4>1. \A j \in S : j <= i <=> j <= i - 1 \/ j = i
        BY <1>b
      <4> QED
        BY <2>2, <4>1
    <3>2. IsFiniteSet(T)
      BY <1>2
    <3> HIDE DEF T
    <3>3. Cardinality(T \cup {i}) = Cardinality(T) + 1
      BY <2>1, <3>2, FS_AddElement
    <3> QED
      BY <2>2, <3>1, <3>3 DEF T
  <2>3. CASE i \notin S
    <3>1. {j \in S : j <= i} = T
      <4>1. \A j \in S : j <= i <=> j <= i - 1
        BY <1>b, <2>3
      <4> QED
        BY <4>1
    <3>2. Cardinality(T) \in Nat
      BY <1>2
    <3> QED
      BY <2>3, <3>1, <3>2
  <2> QED
    BY <2>2, <2>3
<1>6. Cardinality({}) = 0
  BY FS_EmptySet
<1>7. {j \in S : j <= n} = S
  BY <1>b
<1>8. S \in SUBSET S
  OBVIOUS
<1> QED
  BY <1>2, <1>3, <1>4, <1>5, <1>6, <1>7, <1>8

\* The k-th of a set of numbers is there, for every k it has.
LEMMA NthExists ==
    ASSUME NEW n \in Nat, NEW S \in SUBSET (1 .. n), NEW k \in 1 .. Cardinality(S)
    PROVE  Nth(S, k) \in S /\ Cardinality({j \in S : j <= Nth(S, k)}) = k
<1> DEFINE C(i) == Cardinality({j \in S : j <= i})
<1>1. /\ C(0) = 0 /\ C(n) = Cardinality(S) /\ Cardinality(S) \in Nat
      /\ \A i \in 0 .. n : C(i) \in Nat
      /\ \A i \in 1 .. n : C(i) = C(i - 1) + (IF i \in S THEN 1 ELSE 0)
  BY CountUpTo
<1> HIDE DEF C
<1> DEFINE U == {i \in 0 .. n : C(i) >= k}
<1>2. U \in SUBSET Nat /\ U # {}
  BY <1>1
<1>3. PICK m \in U : \A i \in U : m <= i
  BY <1>2, LeastNatural
<1>4. m \in 1 .. n /\ C(m) >= k
  BY <1>1
<1>5. m - 1 \in 0 .. n /\ C(m - 1) < k
  BY <1>1, <1>3, <1>4
<1>6. m \in S /\ C(m) = k
  BY <1>1, <1>4, <1>5
<1>7. \E i \in S : Cardinality({j \in S : j <= i}) = k
  BY <1>6 DEF C
<1> QED
  BY <1>7 DEF Nth

\* Each element is one of them.
LEMMA NthOnto ==
    ASSUME NEW n \in Nat, NEW S \in SUBSET (1 .. n), NEW i \in S
    PROVE  \E k \in 1 .. Cardinality(S) : Nth(S, k) = i
<1> DEFINE Up(x) == {j \in S : j <= x}
<1>1. /\ IsFiniteSet(S) /\ Cardinality(S) \in Nat
      /\ \A x \in S : IsFiniteSet(Up(x)) /\ Cardinality(Up(x)) \in Nat /\ Cardinality(Up(x)) <= Cardinality(S)
  <2>1. IsFiniteSet(S) /\ Cardinality(S) \in Nat
    BY CountUpTo
  <2>2. \A x \in S : Up(x) \in SUBSET S
    OBVIOUS
  <2> HIDE DEF Up
  <2> QED
    BY <2>1, <2>2, FS_Subset, FS_CardinalityType
<1>2. \A x \in S : x \in Up(x)
  OBVIOUS
<1>3. Cardinality(Up(i)) \in 1 .. Cardinality(S)
  <2> HIDE DEF Up
  <2>1. Up(i) # {}
    BY <1>2
  <2>2. Cardinality(Up(i)) # 0
    BY <1>1, <2>1, FS_EmptySet
  <2> QED
    BY <1>1, <2>2
<1>4. ASSUME NEW x \in S, NEW y \in S, x < y
      PROVE  Cardinality(Up(x)) # Cardinality(Up(y))
  <2>1. Up(x) \in SUBSET Up(y) /\ y \in Up(y) /\ y \notin Up(x)
    <3>1. x \in Nat /\ y \in Nat /\ \A j \in S : j \in Nat
      OBVIOUS
    <3>2. \A j \in S : j <= x => j <= y
      BY <1>4, <3>1
    <3>3. ~ (y <= x)
      BY <1>4, <3>1
    <3>4. Up(x) \in SUBSET Up(y)
      BY <3>2
    <3>5. y \in Up(y) /\ y \notin Up(x)
      BY <3>1, <3>3
    <3> QED
      BY <3>4, <3>5
  <2> HIDE DEF Up
  <2> QED
    BY <1>1, <2>1, FS_Subset
<1> DEFINE k == Cardinality(Up(i))
<1>5. Nth(S, k) \in S /\ Cardinality(Up(Nth(S, k))) = k
  BY <1>3, NthExists
<1>6. Nth(S, k) = i
  <2> HIDE DEF Up
  <2>1. \A x, y \in S : x # y => x < y \/ y < x
    OBVIOUS
  <2> QED
    BY <1>4, <1>5, <2>1
<1> QED
  BY <1>3, <1>6

------------------------------------------------------------------------------
(* What is shown, and in which order platforms are merged *)

\* What a sequence names of a set has each of it that occurs once, and no other.
LEMMA NamedOnce ==
    ASSUME NEW X, NEW s \in Seq(X), NEW S
    PROVE  LET named == Named(s, S)
               n == Len(named)
           IN  /\ n \in Nat /\ named \in Seq(X) /\ DOMAIN named = 1 .. n
               /\ \A k \in 1 .. n : named[k] \in S
               /\ \A i \in DOMAIN s : s[i] \in S => \E k \in 1 .. n : named[k] = s[i]
               /\ \A k, l \in 1 .. n : named[k] = named[l] => k = l
<1> DEFINE first == {i \in DOMAIN s : s[i] \in S /\ \A j \in 1 .. i - 1 : s[j] # s[i]}
<1> DEFINE named == Named(s, S)
<1> DEFINE m == Cardinality(first)
<1>1. first \in SUBSET (1 .. Len(s)) /\ Len(s) \in Nat /\ DOMAIN s = 1 .. Len(s)
  OBVIOUS
<1>2. named = [k \in 1 .. m |-> s[Nth(first, k)]]
  BY DEF Named
<1>3. /\ \A i \in first : i \in DOMAIN s /\ i \in Nat /\ i >= 1 /\ s[i] \in X /\ s[i] \in S
      /\ \A i \in first : \A j \in 1 .. i - 1 : s[j] # s[i]
  OBVIOUS
<1>4. ASSUME NEW i \in DOMAIN s, s[i] \in S
      PROVE  \E j \in first : s[j] = s[i]
  <2> DEFINE same == {j \in DOMAIN s : s[j] = s[i]}
  <2>1. same \in SUBSET Nat /\ same # {}
    BY <1>1
  <2>2. PICK j \in same : \A k \in same : j <= k
    BY <2>1, LeastNatural
  <2>3. j \in 1 .. Len(s) /\ s[j] = s[i]
    BY <1>1
  <2>4. \A k \in 1 .. j - 1 : k \in DOMAIN s /\ ~ (j <= k)
    BY <1>1, <2>3
  <2>5. \A k \in 1 .. j - 1 : s[k] # s[j]
    BY <2>2, <2>3, <2>4
  <2> QED
    BY <1>1, <1>4, <2>3, <2>5
<1> HIDE DEF first
<1>5. \A i, j \in first : s[i] = s[j] => i = j
  <2>1. ASSUME NEW i \in first, NEW j \in first, i < j
        PROVE  s[i] # s[j]
    <3>1. i \in 1 .. j - 1
      BY <1>3, <2>1
    <3> QED
      BY <1>3, <3>1
  <2>2. \A i, j \in first : i # j => i < j \/ j < i
    BY <1>3
  <2> QED
    BY <2>1, <2>2
<1>6. m \in Nat
  BY <1>1, CountUpTo
<1>7. \A k \in 1 .. m : Nth(first, k) \in first /\ Cardinality({j \in first : j <= Nth(first, k)}) = k
  BY <1>1, NthExists
<1>8. \A i \in first : \E k \in 1 .. m : Nth(first, k) = i
  BY <1>1, NthOnto
<1>9. \A k, l \in 1 .. m : Nth(first, k) = Nth(first, l) => k = l
  <2>1. SUFFICES ASSUME NEW k \in 1 .. m, NEW l \in 1 .. m, Nth(first, k) = Nth(first, l)
                 PROVE  k = l
    OBVIOUS
  <2>2. Cardinality({j \in first : j <= Nth(first, k)}) = k /\ Cardinality({j \in first : j <= Nth(first, l)}) = l
    BY <1>7
  <2> QED
    BY <2>1, <2>2
<1> HIDE DEF m, named
<1>10. \A k \in 1 .. m : named[k] = s[Nth(first, k)] /\ named[k] \in S /\ named[k] \in X
  BY <1>2, <1>3, <1>7
<1>11. named \in [1 .. m -> X] /\ named \in Seq(X) /\ Len(named) = m /\ DOMAIN named = 1 .. m
  BY <1>2, <1>6, <1>10
<1>12. \A i \in DOMAIN s : s[i] \in S => \E k \in 1 .. m : named[k] = s[i]
  BY <1>4, <1>8, <1>10
<1>13. \A k, l \in 1 .. m : named[k] = named[l] => k = l
  BY <1>5, <1>7, <1>9, <1>10
<1> QED
  BY <1>6, <1>10, <1>11, <1>12, <1>13 DEF named

\* What is shown was given to the model, each id once.
LEMMA RenderedPicks ==
    ASSUME NEW out \in Seq(Entry), NEW named \in Seq(Signatures \cup {None})
    PROVE  LET picks == Rendered(out, named)
           IN  /\ picks \in Seq(Entry)
               /\ \A i \in DOMAIN picks : \E j \in DOMAIN out : picks[i] = out[j]
               /\ \A i, j \in DOMAIN picks : picks[i].sig = picks[j].sig => i = j
<1> DEFINE ids == Named(named, Shown(out))
<1> DEFINE n == Len(ids)
<1> DEFINE picks == Rendered(out, named)
<1>1. /\ n \in Nat /\ DOMAIN ids = 1 .. n
      /\ \A k \in 1 .. n : ids[k] \in Shown(out)
      /\ \A k, l \in 1 .. n : ids[k] = ids[l] => k = l
  BY NamedOnce
<1>2. picks = [k \in 1 .. n |-> Candidate(out, ids[k])]
  BY <1>1 DEF Rendered
<1> HIDE DEF ids, n, picks
<1>3. ASSUME NEW id \in Shown(out)
      PROVE  \E j \in DOMAIN out : Candidate(out, id) = out[j] /\ out[j].sig = id
  <2>1. \E j \in DOMAIN out : out[j].sig = id
    BY DEF Shown
  <2> QED
    BY <2>1 DEF Candidate
<1>4. \A k \in 1 .. n : picks[k].sig = ids[k] /\ \E j \in DOMAIN out : picks[k] = out[j]
  BY <1>1, <1>2, <1>3
<1>5. \A j \in DOMAIN out : out[j] \in Entry
  OBVIOUS
<1>6. \A k \in 1 .. n : picks[k] \in Entry
  BY <1>4, <1>5
<1>7. picks \in Seq(Entry) /\ DOMAIN picks = 1 .. n
  BY <1>1, <1>2, <1>6
<1>8. \A k, l \in 1 .. n : picks[k].sig = picks[l].sig => k = l
  BY <1>1, <1>4
<1> QED
  BY <1>4, <1>7, <1>8 DEF picks

\* An order of platforms has each once.
Ordered(order, plats) ==
    /\ Len(order) \in Nat /\ order \in Seq(Platforms)
    /\ \A k \in 1 .. Len(order) : order[k] \in plats
    /\ \A p \in plats : \E k \in 1 .. Len(order) : order[k] = p
    /\ \A k, l \in 1 .. Len(order) : order[k] = order[l] => k = l

\* One order after another.
LEMMA OrderedConcat ==
    ASSUME NEW A, NEW B, NEW a, NEW b, Ordered(a, A), Ordered(b, B), A \cap B = {}
    PROVE  Ordered(a \o b, A \cup B)
<1> DEFINE c == a \o b
<1> DEFINE m == Len(a)
<1> DEFINE n == Len(b)
<1>1. /\ m \in Nat /\ a \in Seq(Platforms) /\ n \in Nat /\ b \in Seq(Platforms)
      /\ \A k \in 1 .. m : a[k] \in A
      /\ \A k \in 1 .. n : b[k] \in B
      /\ \A p \in A : \E k \in 1 .. m : a[k] = p
      /\ \A p \in B : \E k \in 1 .. n : b[k] = p
      /\ \A k, l \in 1 .. m : a[k] = a[l] => k = l
      /\ \A k, l \in 1 .. n : b[k] = b[l] => k = l
  BY DEF Ordered
<1>2. /\ c \in Seq(Platforms) /\ Len(c) = m + n
      /\ \A k \in 1 .. m : c[k] = a[k]
      /\ \A k \in 1 .. n : c[m + k] = b[k]
  BY <1>1
<1> HIDE DEF c, m, n
<1>3. /\ \A k \in 1 .. m : k \in 1 .. m + n
      /\ \A k \in 1 .. n : m + k \in 1 .. m + n
      /\ \A k \in 1 .. m + n : k \in 1 .. m \/ \E l \in 1 .. n : k = m + l
  <2>1. \A k \in 1 .. m + n : k \in 1 .. m \/ (k - m \in 1 .. n /\ k = m + (k - m))
    BY <1>1
  <2>2. (\A k \in 1 .. m : k \in 1 .. m + n) /\ \A k \in 1 .. n : m + k \in 1 .. m + n
    BY <1>1
  <2> QED
    BY <2>1, <2>2
<1>a. (\A k \in 1 .. m : c[k] \in A) /\ \A k \in 1 .. n : c[m + k] \in B
  BY <1>1, <1>2
<1>4. ASSUME NEW k \in 1 .. m + n
      PROVE  c[k] \in A \cup B
  <2>1. CASE k \in 1 .. m
    BY <1>a, <2>1
  <2>2. ASSUME NEW l \in 1 .. n, k = m + l PROVE c[k] \in B
    BY <1>a, <2>2
  <2> QED
    BY <1>3, <2>1, <2>2
<1>5. ASSUME NEW p \in A \cup B
      PROVE  \E k \in 1 .. m + n : c[k] = p
  <2>1. CASE p \in A
    <3>1. PICK k \in 1 .. m : a[k] = p
      BY <1>1, <2>1
    <3> QED
      BY <1>2, <1>3, <3>1
  <2>2. CASE p \in B
    <3>1. PICK k \in 1 .. n : b[k] = p
      BY <1>1, <2>2
    <3> QED
      BY <1>2, <1>3, <3>1
  <2> QED
    BY <2>1, <2>2
<1>6. ASSUME NEW k \in 1 .. m + n, NEW l \in 1 .. m + n, c[k] = c[l]
      PROVE  k = l
  <2>1. CASE k \in 1 .. m /\ l \in 1 .. m
    BY <1>1, <1>2, <1>6, <2>1
  <2>2. ASSUME NEW i \in 1 .. n, NEW j \in 1 .. n, k = m + i, l = m + j
        PROVE  k = l
    <3>1. c[k] = b[i] /\ c[l] = b[j]
      BY <1>2, <2>2
    <3>2. i = j
      BY <1>1, <1>6, <3>1
    <3> QED
      BY <2>2, <3>2
  <2>3. CASE k \in 1 .. m /\ \E j \in 1 .. n : l = m + j
    BY <1>a, <1>6, <2>3
  <2>4. CASE l \in 1 .. m /\ \E i \in 1 .. n : k = m + i
    BY <1>a, <1>6, <2>4
  <2> QED
    BY <1>3, <2>1, <2>2, <2>3, <2>4
<1> QED
  <2>1. Len(c) = m + n /\ m + n \in Nat /\ c \in Seq(Platforms)
    BY <1>1, <1>2
  <2>2. Ordered(c, A \cup B)
    BY <1>4, <1>5, <1>6, <2>1 DEF Ordered
  <2> QED
    BY <2>2 DEF c

\* The selected platforms in the order of the merge.
LEMMA RankedOrder ==
    ASSUME NEW ask \in Seq(Platforms \cup {None}), NEW plats \in SUBSET Platforms,
           plats \subseteq Sources(ask)
    PROVE  Ordered(Ranked(ask, plats), plats)
<1>1. ASSUME NEW g \in 1 .. 3
      PROVE  Ordered(Named(ask, InGroup(plats, g)), InGroup(plats, g))
  <2> DEFINE S == InGroup(plats, g)
  <2> DEFINE named == Named(ask, S)
  <2> DEFINE n == Len(named)
  <2>1. S \subseteq plats
    BY DEF InGroup
  <2> HIDE DEF S
  <2>2. /\ n \in Nat /\ named \in Seq(Platforms \cup {None}) /\ DOMAIN named = 1 .. n
        /\ \A k \in 1 .. n : named[k] \in S
        /\ \A i \in DOMAIN ask : ask[i] \in S => \E k \in 1 .. n : named[k] = ask[i]
        /\ \A k, l \in 1 .. n : named[k] = named[l] => k = l
    BY NamedOnce
  <2>3. \A p \in S : \E i \in DOMAIN ask : ask[i] = p
    BY <2>1 DEF Sources
  <2> HIDE DEF named
  <2>4. named \in Seq(Platforms)
    BY <2>1, <2>2
  <2>5. Ordered(named, S)
    BY <2>2, <2>3, <2>4 DEF Ordered
  <2> QED
    BY <2>5 DEF named, S
<1>2. /\ \A p \in Platforms : Group[p] \in {"rss", "tikhub", "aihot"}
      /\ Groups[1] = "rss" /\ Groups[2] = "tikhub" /\ Groups[3] = "aihot"
  BY HotspotsAssumption DEF Groups
<1>3. /\ InGroup(plats, 1) \cup InGroup(plats, 2) \cup InGroup(plats, 3) = plats
      /\ InGroup(plats, 1) \cap InGroup(plats, 2) = {}
      /\ (InGroup(plats, 1) \cup InGroup(plats, 2)) \cap InGroup(plats, 3) = {}
  BY <1>2 DEF InGroup
<1>4. Ordered(Named(ask, InGroup(plats, 1)) \o Named(ask, InGroup(plats, 2)),
              InGroup(plats, 1) \cup InGroup(plats, 2))
  BY <1>1, <1>3, OrderedConcat
<1>5. Ordered(Named(ask, InGroup(plats, 3)), InGroup(plats, 3))
  BY <1>1
<1> QED
  BY <1>3, <1>4, <1>5, OrderedConcat DEF Ranked

------------------------------------------------------------------------------
(* One turn of the merge *)

\* The state of a merge of n platforms.
States(n) == [at : [1 .. n -> Nat], out : Seq(Entry), first : 1 .. n, step : 0 .. n - 1]

\* Signatures have the type of a candidate's.
LEMMA SignatureType ==
    ASSUME NEW p \in Platforms, NEW t \in Topics
    PROVE  Signature(p, t) \in Signatures
BY DEF Signatures

\* A candidate but for the platforms that report it.
Same(e, f) == e.sig = f.sig /\ e.topic = f.topic /\ e.by = f.by

\* At most one platform is added to those that report it.
Grown(e, f, p) == f.from \subseteq e.from /\ e.from \subseteq f.from \cup {p}

\* Nothing that is new is left of the items of the platform.
Barren(p, items, st, new, k) ==
    /\ new.at = [st.at EXCEPT ![k] = Len(items)]
    /\ Len(new.out) = Len(st.out)
    /\ \A l \in st.at[k] + 1 .. Len(items) : Signature(p, items[l]) \in Shown(st.out)

\* One new item is appended, what comes before it is there already.
Fertile(p, items, st, new, k) ==
    \E l \in st.at[k] + 1 .. Len(items) :
        /\ new.at = [st.at EXCEPT ![k] = l]
        /\ Len(new.out) = Len(st.out) + 1
        /\ new.out[Len(new.out)].sig = Signature(p, items[l])
        /\ new.out[Len(new.out)].topic = items[l]
        /\ new.out[Len(new.out)].by = p
        /\ new.out[Len(new.out)].from = {p}
        /\ Signature(p, items[l]) \notin Shown(st.out)
        /\ \A j \in st.at[k] + 1 .. l - 1 : Signature(p, items[j]) \in Shown(st.out)

\* The turn of a platform gives one or the other, and what was there stays there.
LEMMA VisitEffect ==
    ASSUME NEW n \in Nat, NEW st \in States(n), NEW k \in 1 .. n, NEW p \in Platforms,
           NEW items \in Seq(Topics)
    PROVE  LET new == Visit(p, items, st, k)
           IN  /\ new \in States(n) /\ new.first = st.first /\ new.step = st.step
               /\ \A i \in DOMAIN st.out :
                    i \in DOMAIN new.out /\ Same(new.out[i], st.out[i]) /\ Grown(new.out[i], st.out[i], p)
               /\ Barren(p, items, st, new, k) \/ Fertile(p, items, st, new, k)
<1> DEFINE rest == st.at[k] + 1 .. Len(items)
<1> DEFINE fresh == {j \in rest : Signature(p, items[j]) \notin Shown(st.out)}
<1> DEFINE next == IF fresh = {} THEN Len(items) + 1
                                 ELSE CHOOSE j \in fresh : \A l \in fresh : j <= l
<1> DEFINE known == {Signature(p, items[j]) : j \in {l \in rest : l < next}}
<1> DEFINE named == [i \in DOMAIN st.out |->
                        IF st.out[i].sig \in known
                        THEN [st.out[i] EXCEPT !.from = @ \cup {p}] ELSE st.out[i]]
<1> DEFINE e == [sig |-> Signature(p, items[next]), topic |-> items[next], by |-> p, from |-> {p}]
<1> DEFINE new == Visit(p, items, st, k)
<1>1. new = [st EXCEPT !.at[k] = IF fresh = {} THEN Len(items) ELSE next,
                       !.out = IF fresh = {} THEN named ELSE Append(named, e)]
  BY DEF Visit
<1>2. /\ st.at \in [1 .. n -> Nat] /\ st.at[k] \in Nat /\ st.out \in Seq(Entry)
      /\ st.first \in 1 .. n /\ st.step \in 0 .. n - 1
  BY DEF States
<1>3. Len(items) \in Nat /\ DOMAIN items = 1 .. Len(items) /\ \A j \in rest : j \in Nat /\ j \in DOMAIN items /\ items[j] \in Topics
  BY <1>2
<1>4. /\ \A j \in fresh : j \in rest /\ Signature(p, items[j]) \notin Shown(st.out)
      /\ \A j \in rest : j \notin fresh => Signature(p, items[j]) \in Shown(st.out)
  OBVIOUS
<1>5. fresh # {} => next \in fresh /\ \A l \in fresh : next <= l
  <2>1. fresh \in SUBSET Nat
    BY <1>3
  <2> HIDE DEF fresh
  <2>2. fresh # {} => \E j \in fresh : \A l \in fresh : j <= l
    BY <2>1, LeastNatural
  <2> QED
    BY <2>2
<1>6. /\ named \in Seq(Entry) /\ Len(named) = Len(st.out) /\ DOMAIN named = DOMAIN st.out
      /\ \A i \in DOMAIN st.out : Same(named[i], st.out[i]) /\ Grown(named[i], st.out[i], p)
  <2> HIDE DEF known
  <2>1. \A i \in DOMAIN st.out : st.out[i] \in Entry
    BY <1>2
  <2>2. ASSUME NEW x \in Entry
        PROVE  LET y == [x EXCEPT !.from = @ \cup {p}]
               IN  y \in Entry /\ Same(y, x) /\ Grown(y, x, p)
    BY DEF Entry, Same, Grown
  <2>3. \A i \in DOMAIN st.out : named[i] \in Entry /\ Same(named[i], st.out[i]) /\ Grown(named[i], st.out[i], p)
    BY <2>1, <2>2 DEF Same, Grown
  <2>4. DOMAIN st.out = 1 .. Len(st.out) /\ Len(st.out) \in Nat
    BY <1>2
  <2>5. named \in [1 .. Len(st.out) -> Entry]
    BY <2>3, <2>4
  <2> HIDE DEF named
  <2>6. named \in Seq(Entry) /\ Len(named) = Len(st.out) /\ DOMAIN named = DOMAIN st.out
    BY <2>4, <2>5
  <2> QED
    BY <2>3, <2>6
<1> HIDE DEF known, named, fresh
<1>7. CASE fresh = {}
  <2>1. new = [st EXCEPT !.at[k] = Len(items), !.out = named]
    BY <1>1, <1>7
  <2> HIDE DEF new
  <2>2. new \in States(n) /\ new.first = st.first /\ new.step = st.step
        /\ new.at = [st.at EXCEPT ![k] = Len(items)] /\ new.out = named
    BY <1>2, <1>3, <1>6, <2>1 DEF States
  <2>3. Barren(p, items, st, new, k)
    BY <1>4, <1>6, <1>7, <2>2 DEF Barren
  <2> QED
    BY <1>6, <2>2, <2>3 DEF new
<1>8. CASE fresh # {}
  <2>1. /\ next \in rest /\ Signature(p, items[next]) \notin Shown(st.out) /\ items[next] \in Topics
        /\ \A j \in rest : j < next => Signature(p, items[j]) \in Shown(st.out)
        /\ next \in Nat
    <3>1. next \in fresh /\ \A l \in fresh : next <= l
      BY <1>5, <1>8
    <3> HIDE DEF next
    <3>2. \A j \in rest : j < next => j \notin fresh
      BY <1>3, <1>4, <3>1
    <3> QED
      BY <1>3, <1>4, <3>1, <3>2
  <2>2. new = [st EXCEPT !.at[k] = next, !.out = Append(named, e)]
    BY <1>1, <1>8
  <2>3. /\ e \in Entry /\ e.sig = Signature(p, items[next]) /\ e.topic = items[next]
        /\ e.by = p /\ e.from = {p}
    <3> HIDE DEF next
    <3>1. Signature(p, items[next]) \in Signatures
      BY <2>1, SignatureType
    <3> DEFINE g == Signature(p, items[next])
    <3> HIDE DEF g
    <3>2. e = [sig |-> g, topic |-> items[next], by |-> p, from |-> {p}]
      BY DEF g
    <3> HIDE DEF e
    <3>3. e \in Entry
      BY <2>1, <3>1, <3>2 DEF Entry, g
    <3> QED
      BY <3>2, <3>3 DEF g
  <2> HIDE DEF new, next, e
  <2>4. new \in States(n) /\ new.first = st.first /\ new.step = st.step
        /\ new.at = [st.at EXCEPT ![k] = next] /\ new.out = Append(named, e)
    <3>1. Append(named, e) \in Seq(Entry)
      BY <1>6, <2>3
    <3> QED
      BY <1>2, <2>1, <2>2, <3>1 DEF States
  <2>5. /\ Len(new.out) = Len(st.out) + 1 /\ new.out[Len(new.out)] = e
        /\ \A i \in DOMAIN st.out : i \in DOMAIN new.out /\ new.out[i] = named[i]
    <3>1. /\ Len(Append(named, e)) = Len(named) + 1
          /\ Append(named, e)[Len(named) + 1] = e
          /\ \A i \in 1 .. Len(named) : i \in DOMAIN Append(named, e) /\ Append(named, e)[i] = named[i]
      BY <1>6, <2>3
    <3>2. DOMAIN st.out = 1 .. Len(named)
      BY <1>2, <1>6
    <3> QED
      BY <1>6, <2>4, <3>1, <3>2
  <2>6. Fertile(p, items, st, new, k)
    <3>1. \A j \in st.at[k] + 1 .. next - 1 : j \in rest /\ j < next
      BY SMTT(20), <1>2, <1>3, <2>1
    <3> QED
      BY <2>1, <2>3, <2>4, <2>5, <3>1 DEF Fertile
  <2> QED
    BY <1>6, <2>4, <2>5, <2>6 DEF new
<1> QED
  BY <1>7, <1>8

\* The platform had its turn in this round.
Had(st, n, k) == (IF k >= st.first THEN k - st.first ELSE k + n - st.first) < st.step

\* The turns it had, r rounds being over.
Due(st, n, r, k) == IF Had(st, n, k) THEN r + 1 ELSE r

\* A turn is that of one platform, and of each in every round.
LEMMA TurnTaken ==
    ASSUME NEW n \in Nat \ {0}, NEW st \in States(n), NEW r \in Nat
    PROVE  /\ Turn(st, n) \in 1 .. n /\ Passed(st, n) \in States(n)
           /\ Passed(st, n).at = st.at /\ Passed(st, n).out = st.out
           /\ \E s \in Nat :
                /\ s * n + Passed(st, n).step = r * n + st.step + 1
                /\ \A k \in 1 .. n : Due(Passed(st, n), n, s, k) =
                                        Due(st, n, r, k) + (IF k = Turn(st, n) THEN 1 ELSE 0)
<1> DEFINE new == Passed(st, n)
<1> DEFINE off(k) == IF k >= st.first THEN k - st.first ELSE k + n - st.first
<1>1. st.first \in 1 .. n /\ st.step \in 0 .. n - 1 /\ n \in Nat /\ n >= 1
  BY DEF States
<1>2. Turn(st, n) \in 1 .. n
  BY <1>1 DEF Turn
<1>3. \A k \in 1 .. n : off(k) \in 0 .. n - 1 /\ (off(k) = st.step <=> k = Turn(st, n))
  BY <1>1 DEF Turn
<1>4. \A k \in 1 .. n : Had(st, n, k) <=> off(k) < st.step
  BY DEF Had
<1>5. CASE st.step + 1 < n
  <2>1. new = [st EXCEPT !.step = @ + 1]
    BY <1>5 DEF Passed
  <2> HIDE DEF new
  <2>2. new \in States(n) /\ new.at = st.at /\ new.out = st.out /\ new.first = st.first /\ new.step = st.step + 1
    BY <1>1, <1>5, <2>1 DEF States
  <2>3. \A k \in 1 .. n : Had(new, n, k) <=> off(k) < st.step + 1
    BY <2>2 DEF Had
  <2> HIDE DEF off
  <2>4. \A k \in 1 .. n : Due(new, n, r, k) = Due(st, n, r, k) + (IF k = Turn(st, n) THEN 1 ELSE 0)
    BY <1>1, <1>3, <1>4, <2>3 DEF Due
  <2>5. r * n + new.step = r * n + st.step + 1
    BY <1>1, <2>2
  <2> QED
    BY <1>2, <2>2, <2>4, <2>5 DEF new
<1>6. CASE ~(st.step + 1 < n)
  <2>0. st.step = n - 1
    BY <1>1, <1>6
  <2> DEFINE f == IF st.first < n THEN st.first + 1 ELSE 1
  <2>1. new = [st EXCEPT !.step = 0, !.first = f]
    BY <1>6 DEF Passed
  <2>a. f \in 1 .. n /\ 0 \in 0 .. n - 1
    BY <1>1
  <2> HIDE DEF new, f
  <2>2. new \in States(n) /\ new.at = st.at /\ new.out = st.out /\ new.first \in 1 .. n /\ new.step = 0
    BY <2>1, <2>a DEF States
  <2>3. \A k \in 1 .. n : ~Had(new, n, k)
    BY <1>1, <2>2 DEF Had
  <2> HIDE DEF off
  <2>4. \A k \in 1 .. n : Due(new, n, r + 1, k) = Due(st, n, r, k) + (IF k = Turn(st, n) THEN 1 ELSE 0)
    BY <1>1, <1>3, <1>4, <2>0, <2>3 DEF Due
  <2>5. (r + 1) * n + new.step = r * n + st.step + 1
    BY <1>1, <2>0, <2>2
  <2>6. r + 1 \in Nat
    OBVIOUS
  <2> QED
    BY <1>2, <2>2, <2>4, <2>5, <2>6 DEF new
<1> QED
  BY <1>5, <1>6

\* How many candidates are of a platform, after one is appended or none.
LEMMA PlacedStep ==
    ASSUME NEW out \in Seq(Entry), NEW new \in Seq(Entry), NEW q,
           \A i \in DOMAIN out : i \in DOMAIN new /\ Same(new[i], out[i])
    PROVE  /\ Placed(out, q) \in Nat
           /\ Len(new) = Len(out) => Placed(new, q) = Placed(out, q)
           /\ Len(new) = Len(out) + 1 =>
                Placed(new, q) = Placed(out, q) + (IF new[Len(new)].by = q THEN 1 ELSE 0)
<1> DEFINE A == {i \in DOMAIN out : out[i].by = q}
<1> DEFINE B == {i \in DOMAIN new : new[i].by = q}
<1>1. /\ DOMAIN out = 1 .. Len(out) /\ Len(out) \in Nat
      /\ DOMAIN new = 1 .. Len(new) /\ Len(new) \in Nat
      /\ \A i \in DOMAIN out : new[i].by = out[i].by
  BY DEF Same
<1>2. IsFiniteSet(A) /\ Cardinality(A) \in Nat
  <2>1. IsFiniteSet(DOMAIN out)
    BY <1>1, FS_Interval
  <2>2. A \in SUBSET (DOMAIN out)
    OBVIOUS
  <2> HIDE DEF A
  <2> QED
    BY <2>1, <2>2, FS_Subset, FS_CardinalityType
<1>3. Len(new) = Len(out) => A = B
  BY <1>1
<1>4. ASSUME Len(new) = Len(out) + 1
      PROVE  Cardinality(B) = Cardinality(A) + (IF new[Len(new)].by = q THEN 1 ELSE 0)
  <2> DEFINE m == Len(new)
  <2>1. m \notin A /\ \A i \in DOMAIN new : i \in DOMAIN out \/ i = m
    BY <1>1, <1>4
  <2>2. DOMAIN out \subseteq DOMAIN new /\ m \in DOMAIN new
    BY <1>1, <1>4
  <2>3. CASE new[m].by = q
    <3>1. B = A \cup {m}
      BY <1>1, <2>1, <2>2, <2>3
    <3> HIDE DEF A, B, m
    <3>2. Cardinality(A \cup {m}) = Cardinality(A) + 1
      BY <1>2, <2>1, FS_AddElement
    <3> QED
      BY <2>3, <3>1, <3>2 DEF m
  <2>4. CASE new[m].by # q
    <3>1. B = A
      BY <1>1, <2>1, <2>2, <2>4
    <3> HIDE DEF A, B
    <3> QED
      BY <1>2, <2>4, <3>1
  <2> QED
    BY <2>3, <2>4
<1> HIDE DEF A, B
<1> QED
  BY <1>2, <1>3, <1>4 DEF Placed, A, B

------------------------------------------------------------------------------
(* The invariant of the merge *)

\* The order of a merge and what the platforms reported.
Reports(order, items) ==
    /\ order \in Seq(Platforms) /\ Len(order) \in Nat \ {0}
    /\ \A k, l \in 1 .. Len(order) : order[k] = order[l] => k = l
    /\ items \in [Platforms -> Seq(Topics)]

\* The signature of the l-th item of the k-th platform.
Sig(order, items, k, l) == Signature(order[k], items[order[k]][l])

\* Candidates are distinct, and each is one that its platform reported.
Sourced(order, items, out) ==
    /\ \A i, j \in DOMAIN out : out[i].sig = out[j].sig => i = j
    /\ \A i \in DOMAIN out :
        \E k \in 1 .. Len(order) : out[i].by = order[k] /\
            \E l \in 1 .. Len(items[order[k]]) : out[i].sig = Sig(order, items, k, l)

\* Each is named after a platform that reports it, and has the signature that platform
\* gives the topic; all that report it are among the platforms.
Attributed(plats, out) ==
    \A i \in DOMAIN out :
        /\ out[i].by \in out[i].from /\ out[i].from \subseteq plats
        /\ out[i].sig = Signature(out[i].by, out[i].topic)

\* What the merge is past is among them.
Covered(order, items, st) ==
    \A k \in 1 .. Len(order) :
        /\ st.at[k] <= Len(items[order[k]])
        /\ \A l \in 1 .. st.at[k] : Sig(order, items, k, l) \in Shown(st.out)

\* A platform has a candidate for each of its turns, or nothing left.
Counted(order, items, st, r) ==
    \A k \in 1 .. Len(order) :
        /\ Placed(st.out, order[k]) <= Due(st, Len(order), r, k)
        /\ \/ st.at[k] = Len(items[order[k]])
           \/ /\ Placed(st.out, order[k]) = Due(st, Len(order), r, k)
              /\ Due(st, Len(order), r, k) <= st.at[k]

\* After i turns, r rounds and some turns of the next are over, unless the
\* candidates are full.
MergeInv(order, items, st, i) ==
    /\ st \in States(Len(order))
    /\ Len(st.out) <= MaxItems
    /\ Sourced(order, items, st.out) /\ Attributed(Sources(order), st.out)
    /\ Covered(order, items, st)
    /\ \E r \in Nat : /\ Counted(order, items, st, r)
                      /\ Len(st.out) < MaxItems => i = r * Len(order) + st.step

\* One turn.
Advance(order, items, st) ==
    LET n == Len(order)
        k == Turn(st, n)
    IN  IF Len(st.out) >= MaxItems THEN st
        ELSE Passed(Visit(order[k], items[order[k]], st, k), n)

\* No turn is over yet.
LEMMA MergeStarts ==
    ASSUME NEW order, NEW items, Reports(order, items)
    PROVE  MergeInv(order, items, Start(Len(order)), 0)
<1> DEFINE n == Len(order)
<1> DEFINE st == Start(n)
<1>1. n \in Nat \ {0} /\ order \in [1 .. n -> Platforms] /\ items \in [Platforms -> Seq(Topics)]
  BY DEF Reports
<1>2. /\ st.at = [k \in 1 .. n |-> 0] /\ st.out = <<>> /\ st.first = 1 /\ st.step = 0
      /\ st = [at |-> [k \in 1 .. n |-> 0], out |-> <<>>, first |-> 1, step |-> 0]
  BY DEF Start
<1> HIDE DEF st, n
<1>3. st \in States(n)
  <2>1. <<>> \in Seq(Entry) /\ 1 \in 1 .. n /\ 0 \in 0 .. n - 1 /\ [k \in 1 .. n |-> 0] \in [1 .. n -> Nat]
    BY <1>1
  <2> QED
    BY <1>2, <2>1 DEF States
<1>4. Len(st.out) = 0 /\ DOMAIN st.out = {} /\ Len(st.out) <= MaxItems
  BY <1>2, HotspotsAssumption
<1>5. \A k \in 1 .. n : order[k] \in Platforms /\ items[order[k]] \in Seq(Topics) /\ Len(items[order[k]]) \in Nat /\ st.at[k] = 0
  BY <1>1, <1>2
<1>6. Sourced(order, items, st.out) /\ Attributed(Sources(order), st.out)
  BY <1>4 DEF Sourced, Attributed
<1>7. Covered(order, items, st)
  BY <1>5 DEF Covered, n
<1>8. \A k \in 1 .. n : Due(st, n, 0, k) = 0
  BY <1>1, <1>2 DEF Due, Had
<1>9. \A q : Placed(st.out, q) = 0
  <2>1. \A q : {i \in DOMAIN st.out : st.out[i].by = q} = {}
    BY <1>4
  <2> QED
    BY <2>1, FS_EmptySet DEF Placed
<1>10. Counted(order, items, st, 0)
  BY <1>5, <1>8, <1>9 DEF Counted, n
<1>11. 0 = 0 * n + st.step /\ 0 \in Nat
  BY <1>1, <1>2
<1> QED
  BY <1>3, <1>4, <1>6, <1>7, <1>10, <1>11 DEF MergeInv, st, n

\* A turn keeps it: a platform that brings nothing has nothing left, one that
\* brings a candidate has then as many as turns.
LEMMA MergeAdvances ==
    ASSUME NEW order, NEW items, Reports(order, items), NEW i \in Nat, NEW st,
           MergeInv(order, items, st, i)
    PROVE  MergeInv(order, items, Advance(order, items, st), i + 1)
<1> DEFINE n == Len(order)
<1>1. n \in Nat \ {0} /\ order \in [1 .. n -> Platforms] /\ items \in [Platforms -> Seq(Topics)]
  BY DEF Reports
<1>2. st \in States(n)
  BY DEF MergeInv
<1>3. Len(st.out) \in Nat /\ st.out \in Seq(Entry) /\ MaxItems \in Nat /\ st.at \in [1 .. n -> Nat] /\ st.step \in Nat
  BY <1>2, HotspotsAssumption DEF States
<1>4. CASE Len(st.out) >= MaxItems
  <2>1. Advance(order, items, st) = st
    BY <1>4 DEF Advance
  <2>2. ~(Len(st.out) < MaxItems)
    BY <1>3, <1>4
  <2> QED
    BY <2>1, <2>2 DEF MergeInv
<1>5. CASE Len(st.out) < MaxItems
  <2> DEFINE k == Turn(st, n)
  <2> DEFINE p == order[k]
  <2> DEFINE its == items[p]
  <2> DEFINE mid == Visit(p, its, st, k)
  <2> DEFINE new == Passed(mid, n)
  <2>1. Advance(order, items, st) = new
    BY <1>3, <1>5 DEF Advance
  <2>2. PICK r \in Nat : Counted(order, items, st, r) /\ i = r * n + st.step
    BY <1>5 DEF MergeInv
  <2>3. k \in 1 .. n
    BY <1>1, <1>2, <2>2, TurnTaken
  <2>4. p \in Platforms /\ its \in Seq(Topics) /\ Len(its) \in Nat
    BY <1>1, <2>3
  <2> HIDE DEF k, p, its
  <2>5. /\ mid \in States(n) /\ mid.first = st.first /\ mid.step = st.step
        /\ \A j \in DOMAIN st.out :
            j \in DOMAIN mid.out /\ Same(mid.out[j], st.out[j]) /\ Grown(mid.out[j], st.out[j], p)
        /\ Barren(p, its, st, mid, k) \/ Fertile(p, its, st, mid, k)
    BY <1>1, <1>2, <2>3, <2>4, VisitEffect
  <2> HIDE DEF mid
  <2>6. Turn(mid, n) = k
    BY <2>5 DEF Turn, k
  <2>a. \E s \in Nat :
            /\ s * n + Passed(mid, n).step = r * n + mid.step + 1
            /\ \A q \in 1 .. n : Due(Passed(mid, n), n, s, q) =
                                    Due(mid, n, r, q) + (IF q = Turn(mid, n) THEN 1 ELSE 0)
    <3> HIDE DEF n
    <3> QED
      BY <1>1, <2>2, <2>5, TurnTaken
  <2>7. PICK s \in Nat :
            /\ s * n + new.step = r * n + mid.step + 1
            /\ \A q \in 1 .. n : Due(new, n, s, q) = Due(mid, n, r, q) + (IF q = k THEN 1 ELSE 0)
    <3> HIDE DEF n
    <3> QED
      BY <2>6, <2>a
  <2>8. new \in States(n) /\ new.at = mid.at /\ new.out = mid.out
    BY <1>1, <2>2, <2>5, TurnTaken
  <2>9. \A q \in 1 .. n : Due(mid, n, r, q) = Due(st, n, r, q) /\ Due(st, n, r, q) \in Nat
    BY <2>2, <2>5 DEF Due, Had
  <2> HIDE DEF new
  <2>10. /\ DOMAIN st.out = 1 .. Len(st.out) /\ mid.out \in Seq(Entry)
         /\ DOMAIN mid.out = 1 .. Len(mid.out) /\ Len(mid.out) \in Nat
    BY <1>3, <2>5 DEF States
  <2>11. \A j \in DOMAIN st.out : mid.out[j].sig = st.out[j].sig /\ mid.out[j].by = st.out[j].by
    BY <2>5 DEF Same
  <2>12. Shown(st.out) \subseteq Shown(mid.out)
    BY <2>5, <2>11 DEF Shown
  <2>13. \A q \in 1 .. n : order[q] = p => q = k
    BY <1>1, <2>3 DEF Reports, p, n
  <2>14. /\ Sourced(order, items, st.out) /\ Covered(order, items, st)
         /\ Attributed(Sources(order), st.out)
    BY DEF MergeInv
  <2>b. p \in Sources(order)
    BY <1>1, <2>3 DEF Reports, Sources, p, n
  <2>c. ASSUME NEW j \in DOMAIN st.out
        PROVE  /\ mid.out[j].by \in mid.out[j].from /\ mid.out[j].from \subseteq Sources(order)
               /\ mid.out[j].sig = Signature(mid.out[j].by, mid.out[j].topic)
    BY <2>5, <2>14, <2>b DEF Attributed, Same, Grown
  <2>15. \A l : Sig(order, items, k, l) = Signature(p, its[l])
    BY DEF Sig, p, its
  <2>16. st.at[k] \in Nat /\ st.at[k] <= Len(its)
    BY <1>3, <2>3, <2>14 DEF Covered, p, its, n
  <2>17. CASE Barren(p, its, st, mid, k)
    <3>1. mid.at = [st.at EXCEPT ![k] = Len(its)] /\ Len(mid.out) = Len(st.out)
      BY <2>17 DEF Barren
    <3>a. Attributed(Sources(order), mid.out)
      BY SMTT(20), <2>10, <2>c, <3>1 DEF Attributed
    <3>2. Sourced(order, items, mid.out)
      BY SMTT(40), <2>10, <2>11, <2>14, <3>1 DEF Sourced
    <3>3. Covered(order, items, mid)
      <4>1. ASSUME NEW q \in 1 .. n
            PROVE  /\ mid.at[q] <= Len(items[order[q]])
                   /\ \A l \in 1 .. mid.at[q] : Sig(order, items, q, l) \in Shown(mid.out)
        <5>1. CASE q # k
          BY <1>3, <2>12, <2>14, <3>1, <5>1 DEF Covered, n
        <5>2. CASE q = k
          <6>1. mid.at[k] = Len(its)
            BY <1>3, <2>3, <3>1
          <6>2. \A l \in 1 .. Len(its) : l \in 1 .. st.at[k] \/ l \in st.at[k] + 1 .. Len(its)
            BY <2>4, <2>16
          <6>3. \A l \in 1 .. st.at[k] : Signature(p, its[l]) \in Shown(st.out)
            BY <2>3, <2>14, <2>15 DEF Covered, n
          <6>4. \A l \in st.at[k] + 1 .. Len(its) : Signature(p, its[l]) \in Shown(st.out)
            BY <2>17 DEF Barren
          <6>5. Len(its) = Len(items[order[k]])
            BY DEF its, p
          <6> QED
            BY <2>4, <2>12, <2>15, <5>2, <6>1, <6>2, <6>3, <6>4, <6>5
        <5> QED
          BY <5>1, <5>2
      <4> QED
        BY <4>1 DEF Covered
    <3>4. \A q : Placed(mid.out, q) = Placed(st.out, q) /\ Placed(st.out, q) \in Nat
      BY <1>3, <2>5, <2>10, <3>1, PlacedStep
    <3>5. Counted(order, items, new, s)
      <4>1. ASSUME NEW q \in 1 .. n
            PROVE  /\ Placed(new.out, order[q]) <= Due(new, n, s, q)
                   /\ \/ new.at[q] = Len(items[order[q]])
                      \/ /\ Placed(new.out, order[q]) = Due(new, n, s, q)
                         /\ Due(new, n, s, q) <= new.at[q]
        <5>1. /\ Placed(st.out, order[q]) <= Due(st, n, r, q)
              /\ \/ st.at[q] = Len(items[order[q]])
                 \/ /\ Placed(st.out, order[q]) = Due(st, n, r, q)
                    /\ Due(st, n, r, q) <= st.at[q]
          BY <2>2 DEF Counted, n
        <5>2. Placed(new.out, order[q]) = Placed(st.out, order[q]) /\ Placed(st.out, order[q]) \in Nat
          BY <2>8, <3>4
        <5>3. Due(new, n, s, q) = Due(st, n, r, q) + (IF q = k THEN 1 ELSE 0) /\ Due(st, n, r, q) \in Nat
          BY <2>7, <2>9
        <5>4. new.at[q] = IF q = k THEN Len(its) ELSE st.at[q]
          BY <1>3, <2>8, <3>1
        <5>5. q = k => Len(its) = Len(items[order[q]])
          BY DEF its, p
        <5> QED
          BY <5>1, <5>2, <5>3, <5>4, <5>5
      <4> QED
        BY <4>1 DEF Counted
    <3>6. Covered(order, items, new) /\ Sourced(order, items, new.out) /\ Len(new.out) <= MaxItems
      BY <1>3, <1>5, <2>8, <3>1, <3>2, <3>3 DEF Covered
    <3>b. Attributed(Sources(order), new.out)
      BY <2>8, <3>a
    <3>7. i + 1 = s * n + new.step
      BY <2>2, <2>5, <2>7
    <3> QED
      BY <2>1, <2>7, <2>8, <3>5, <3>6, <3>7, <3>b DEF MergeInv
  <2>18. CASE Fertile(p, its, st, mid, k)
    <3>1. PICK l \in st.at[k] + 1 .. Len(its) :
            /\ mid.at = [st.at EXCEPT ![k] = l]
            /\ Len(mid.out) = Len(st.out) + 1
            /\ mid.out[Len(mid.out)].sig = Signature(p, its[l])
            /\ mid.out[Len(mid.out)].topic = its[l]
            /\ mid.out[Len(mid.out)].by = p
            /\ mid.out[Len(mid.out)].from = {p}
            /\ Signature(p, its[l]) \notin Shown(st.out)
            /\ \A j \in st.at[k] + 1 .. l - 1 : Signature(p, its[j]) \in Shown(st.out)
      BY <2>18 DEF Fertile
    <3> DEFINE m == Len(mid.out)
    <3>2. m \in DOMAIN mid.out /\ \A j \in DOMAIN mid.out : j \in DOMAIN st.out \/ j = m
      BY <1>3, <2>10, <3>1
    <3>3. l \in Nat /\ l \in 1 .. Len(its) /\ l > st.at[k]
      BY <2>4, <2>16, <3>1
    <3>4. Signature(p, its[l]) \in Shown(mid.out)
      BY <3>1, <3>2 DEF Shown
    <3>5. Sourced(order, items, mid.out)
      <4>1. ASSUME NEW x \in DOMAIN mid.out, NEW y \in DOMAIN mid.out, mid.out[x].sig = mid.out[y].sig
            PROVE  x = y
        <5>1. \A z \in DOMAIN st.out : mid.out[z].sig # Signature(p, its[l])
          BY <2>11, <3>1 DEF Shown
        <5>2. CASE x \in DOMAIN st.out /\ y \in DOMAIN st.out
          BY <2>11, <2>14, <4>1, <5>2 DEF Sourced
        <5> QED
          BY <3>1, <3>2, <4>1, <5>1, <5>2
      <4>2. ASSUME NEW x \in DOMAIN mid.out
            PROVE  \E q \in 1 .. n : mid.out[x].by = order[q] /\
                       \E y \in 1 .. Len(items[order[q]]) : mid.out[x].sig = Sig(order, items, q, y)
        <5>1. CASE x \in DOMAIN st.out
          BY <2>11, <2>14, <5>1 DEF Sourced, n
        <5>2. CASE x = m
          <6>1. mid.out[x].by = order[k] /\ mid.out[x].sig = Sig(order, items, k, l)
            BY <2>15, <3>1, <5>2 DEF p
          <6>2. l \in 1 .. Len(items[order[k]])
            BY <3>3 DEF its, p
          <6> QED
            BY <2>3, <6>1, <6>2
        <5> QED
          BY <3>2, <5>1, <5>2
      <4> QED
        BY <4>1, <4>2 DEF Sourced
    <3>a. Attributed(Sources(order), mid.out)
      BY <2>b, <2>c, <3>1, <3>2 DEF Attributed
    <3>b. Attributed(Sources(order), new.out)
      BY <2>8, <3>a
    <3>6. Covered(order, items, mid)
      <4>1. ASSUME NEW q \in 1 .. n
            PROVE  /\ mid.at[q] <= Len(items[order[q]])
                   /\ \A j \in 1 .. mid.at[q] : Sig(order, items, q, j) \in Shown(mid.out)
        <5>1. CASE q # k
          BY <1>3, <2>12, <2>14, <3>1, <5>1 DEF Covered, n
        <5>2. CASE q = k
          <6>1. mid.at[k] = l
            BY <1>3, <2>3, <3>1
          <6>2. \A j \in 1 .. l : j \in 1 .. st.at[k] \/ j \in st.at[k] + 1 .. l - 1 \/ j = l
            BY <2>16, <3>3
          <6>3. \A j \in 1 .. st.at[k] : Signature(p, its[j]) \in Shown(st.out)
            BY <2>3, <2>14, <2>15 DEF Covered, n
          <6>4. Len(its) = Len(items[order[k]])
            BY DEF its, p
          <6>5. \A j \in 1 .. l : Signature(p, its[j]) \in Shown(mid.out)
            BY <2>12, <3>1, <3>4, <6>2, <6>3
          <6> QED
            BY <2>15, <3>3, <5>2, <6>1, <6>4, <6>5
        <5> QED
          BY <5>1, <5>2
      <4> QED
        BY <4>1 DEF Covered
    <3>7. ASSUME NEW q
          PROVE  /\ Placed(mid.out, q) = Placed(st.out, q) + (IF q = p THEN 1 ELSE 0)
                 /\ Placed(st.out, q) \in Nat
      <4>1. /\ Placed(st.out, q) \in Nat
            /\ Len(mid.out) = Len(st.out) + 1 =>
                   Placed(mid.out, q) = Placed(st.out, q) + (IF mid.out[Len(mid.out)].by = q THEN 1 ELSE 0)
        BY <1>3, <2>5, <2>10, PlacedStep
      <4> QED
        BY <3>1, <4>1
    <3>8. Counted(order, items, new, s)
      <4>1. ASSUME NEW q \in 1 .. n
            PROVE  /\ Placed(new.out, order[q]) <= Due(new, n, s, q)
                   /\ \/ new.at[q] = Len(items[order[q]])
                      \/ /\ Placed(new.out, order[q]) = Due(new, n, s, q)
                         /\ Due(new, n, s, q) <= new.at[q]
        <5>1. /\ Placed(st.out, order[q]) <= Due(st, n, r, q)
              /\ \/ st.at[q] = Len(items[order[q]])
                 \/ /\ Placed(st.out, order[q]) = Due(st, n, r, q)
                    /\ Due(st, n, r, q) <= st.at[q]
          BY <2>2 DEF Counted, n
        <5>2. order[q] = p <=> q = k
          BY <2>13 DEF p
        <5>3. /\ Placed(new.out, order[q]) = Placed(st.out, order[q]) + (IF q = k THEN 1 ELSE 0)
              /\ Placed(st.out, order[q]) \in Nat
          BY <2>8, <3>7, <5>2
        <5>4. Due(new, n, s, q) = Due(st, n, r, q) + (IF q = k THEN 1 ELSE 0) /\ Due(st, n, r, q) \in Nat
          BY <2>7, <2>9
        <5>5. new.at[q] = IF q = k THEN l ELSE st.at[q]
          BY <1>3, <2>8, <3>1
        <5>6. q = k => Len(its) = Len(items[order[q]])
          BY DEF its, p
        <5>7. CASE q # k
          BY <5>1, <5>3, <5>4, <5>5, <5>7
        <5>8. CASE q = k
          <6>1. st.at[k] # Len(its)
            BY <2>4, <2>16, <3>3
          <6> QED
            BY SMTT(20), <2>16, <3>3, <5>1, <5>3, <5>4, <5>5, <5>6, <5>8, <6>1
        <5> QED
          BY <5>7, <5>8
      <4> QED
        BY <4>1 DEF Counted
    <3>9. Covered(order, items, new) /\ Sourced(order, items, new.out) /\ Len(new.out) <= MaxItems
      BY <1>3, <1>5, <2>8, <3>1, <3>5, <3>6 DEF Covered
    <3>10. i + 1 = s * n + new.step
      BY <2>2, <2>5, <2>7
    <3> QED
      BY <2>1, <2>7, <2>8, <3>8, <3>9, <3>10, <3>b DEF MergeInv
  <2> QED
    BY <2>5, <2>17, <2>18
<1> QED
  BY <1>3, <1>4, <1>5

------------------------------------------------------------------------------
(* The whole merge *)

\* A function has finitely many values, and as many as arguments if it is injective.
LEMMA ImageCount ==
    ASSUME NEW n \in Nat, NEW f, DOMAIN f = 1 .. n
    PROVE  LET T == {f[i] : i \in 1 .. n}
           IN  /\ IsFiniteSet(T) /\ Cardinality(T) \in Nat
               /\ (\A i, j \in 1 .. n : f[i] = f[j] => i = j) => Cardinality(T) = n
<1> DEFINE T == {f[i] : i \in 1 .. n}
<1> DEFINE g == [i \in 1 .. n |-> f[i]]
<1>1. g \in [1 .. n -> T] /\ \A t \in T : \E i \in 1 .. n : g[i] = t
  OBVIOUS
<1>2. \A i \in 1 .. n : g[i] = f[i]
  OBVIOUS
<1>3. IsFiniteSet(1 .. n) /\ Cardinality(1 .. n) = n
  <2>1. CASE n = 0
    <3>1. 1 .. n = {}
      BY <2>1
    <3> QED
      BY <2>1, <3>1, FS_EmptySet
  <2>2. CASE n # 0
    BY <2>2, FS_Interval
  <2> QED
    BY <2>1, <2>2
<1> HIDE DEF g, T
<1>4. g \in Surjection(1 .. n, T)
  BY <1>1 DEF Surjection
<1>5. IsFiniteSet(T) /\ (Cardinality(T) = n <=> g \in Injection(1 .. n, T))
  BY <1>3, <1>4, FS_Surjection
<1>6. (\A i, j \in 1 .. n : f[i] = f[j] => i = j) => g \in Injection(1 .. n, T)
  <2>1. SUFFICES ASSUME \A i, j \in 1 .. n : f[i] = f[j] => i = j
                 PROVE  g \in Injection(1 .. n, T)
    OBVIOUS
  <2>2. \A i, j \in 1 .. n : g[i] = g[j] => i = j
    BY <1>2, <2>1
  <2> QED
    BY <1>1, <2>2 DEF Injection, IsInjective
<1> QED
  BY <1>5, <1>6, FS_CardinalityType DEF T

\* A merge goes from turn to turn.
LEMMA MergeRuns ==
    ASSUME NEW order, NEW items, Reports(order, items), NEW last \in Nat
    PROVE  MergeInv(order, items, Turns(order, items, last)[last], last)
<1> DEFINE n == Len(order)
<1> DEFINE next == [st \in States(n) |-> Advance(order, items, st)]
<1> DEFINE t == CHOOSE g : g = [i \in 0 .. last |->
                    IF i = 0 THEN Start(Len(order)) ELSE Advance(order, items, g[i - 1])]
<1>1. n \in Nat \ {0} /\ order \in [1 .. n -> Platforms] /\ items \in [Platforms -> Seq(Topics)]
  BY DEF Reports
<1>2. Start(n) \in States(n)
  BY MergeStarts DEF MergeInv
<1>3. ASSUME NEW st \in States(n)
      PROVE  Advance(order, items, st) \in States(n)
  <2> DEFINE k == Turn(st, n)
  <2> DEFINE mid == Visit(order[k], items[order[k]], st, k)
  <2>1. k \in 1 .. n
    BY <1>1, TurnTaken
  <2>2. order[k] \in Platforms /\ items[order[k]] \in Seq(Topics)
    BY <1>1, <2>1
  <2>3. mid \in States(n)
    <3> HIDE DEF k, n
    <3> QED
      BY <1>1, <2>1, <2>2, VisitEffect
  <2>4. Passed(mid, n) \in States(n)
    <3> HIDE DEF mid, n
    <3> QED
      BY <1>1, <2>3, TurnTaken
  <2> QED
    BY <2>4 DEF Advance
<1>4. next \in [States(n) -> States(n)]
  BY <1>3
<1>5. PICK f \in [0 .. last -> States(n)] : f[0] = Start(n) /\ \A i \in 1 .. last : f[i] = next[f[i - 1]]
  <2> DEFINE St == States(n)
  <2> DEFINE s == Start(n)
  <2>1. s \in St /\ next \in [St -> St]
    BY <1>2, <1>4
  <2> HIDE DEF next, St, s, t, n
  <2>2. \E f : Follows(St, s, next, last, f)
    BY <2>1, Recursion
  <2> QED
    BY <2>2 DEF St, s, Follows
<1>6. f = [i \in 0 .. last |-> IF i = 0 THEN Start(Len(order)) ELSE Advance(order, items, f[i - 1])]
  <2>1. ASSUME NEW i \in 1 .. last
        PROVE  f[i] = Advance(order, items, f[i - 1])
    <3>1. i - 1 \in 0 .. last /\ f[i - 1] \in States(n)
      BY <1>5
    <3> QED
      BY <1>5, <3>1
  <2> QED
    BY <1>5, <2>1
<1>7. t = [i \in 0 .. last |-> IF i = 0 THEN Start(Len(order)) ELSE Advance(order, items, t[i - 1])]
  BY <1>6
<1>8. t = Turns(order, items, last)
  BY DEF Turns, Advance
<1> HIDE DEF t, next
<1> DEFINE S == {i \in Nat : MergeInv(order, items, t[i], i)}
<1>9. 0 \in S
  BY <1>7, MergeStarts
<1>10. ASSUME NEW i \in 0 .. last - 1, i \in S
       PROVE  i + 1 \in S
  <2>1. i \in Nat /\ i + 1 \in 0 .. last /\ i + 1 # 0 /\ (i + 1) - 1 = i
    OBVIOUS
  <2>2. t[i + 1] = Advance(order, items, t[i])
    BY <1>7, <2>1
  <2>3. MergeInv(order, items, t[i], i)
    BY <1>10
  <2>4. MergeInv(order, items, Advance(order, items, t[i]), i + 1)
    BY <2>1, <2>3, MergeAdvances
  <2> QED
    BY <2>1, <2>2, <2>4
<1>11. \A i \in 0 .. last : i \in S
  <2> HIDE DEF S
  <2> QED
    BY <1>9, <1>10, SetInduction
<1> QED
  BY <1>8, <1>11

\* No list is longer than the longest.
LEMMA LongestBounds ==
    ASSUME NEW order \in Seq(Platforms), NEW items \in [Platforms -> Seq(Topics)]
    PROVE  LET plats == Sources(order)
           IN  Longest(plats, items) \in Nat /\ \A p \in plats : Len(items[p]) <= Longest(plats, items)
<1> DEFINE plats == Sources(order)
<1> DEFINE Bounds(u, i) == \A j \in 1 .. i : j \in DOMAIN order => Len(items[order[j]]) <= u
<1> DEFINE S == {i \in Nat : \E u \in Nat : Bounds(u, i)}
<1>0. Len(order) \in Nat /\ DOMAIN order = 1 .. Len(order)
  OBVIOUS
<1>a. \A p \in Platforms : Len(items[p]) \in Nat
  OBVIOUS
<1>b. \A j \in DOMAIN order : order[j] \in Platforms
  OBVIOUS
<1>c. (\A p \in plats : \E j \in DOMAIN order : order[j] = p) /\ plats \subseteq Platforms
  BY DEF Sources
<1> HIDE DEF plats
<1>1. 0 \in S
  <2>1. Bounds(0, 0)
    OBVIOUS
  <2> HIDE DEF Bounds
  <2> QED
    BY <2>1
<1>2. ASSUME NEW i \in 0 .. Len(order) - 1, i \in S
      PROVE  i + 1 \in S
  <2>1. PICK u \in Nat : Bounds(u, i)
    BY <1>2
  <2>2. i \in Nat /\ i + 1 \in DOMAIN order /\ Len(items[order[i + 1]]) \in Nat
    BY <1>0, <1>a, <1>b
  <2>3. \A j \in 1 .. i + 1 : j \in 1 .. i \/ j = i + 1
    BY <2>2
  <2> DEFINE v == IF u <= Len(items[order[i + 1]]) THEN Len(items[order[i + 1]]) ELSE u
  <2>4. v \in Nat /\ u <= v /\ Len(items[order[i + 1]]) <= v
    BY <2>2
  <2> HIDE DEF v
  <2>5. \A j \in 1 .. i : j \in DOMAIN order => Len(items[order[j]]) \in Nat /\ Len(items[order[j]]) <= u
    BY <1>a, <1>b, <2>1
  <2>6. \A j \in 1 .. i + 1 : j \in DOMAIN order => Len(items[order[j]]) <= v
    <3>1. SUFFICES ASSUME NEW j \in 1 .. i + 1, j \in DOMAIN order
                   PROVE  Len(items[order[j]]) <= v
      OBVIOUS
    <3>2. CASE j \in 1 .. i
      BY <2>4, <2>5, <3>1, <3>2
    <3>3. CASE j = i + 1
      BY <2>4, <3>3
    <3> QED
      BY <2>3, <3>2, <3>3
  <2>7. Bounds(v, i + 1)
    BY <2>6
  <2> HIDE DEF Bounds
  <2> QED
    BY <2>2, <2>4, <2>7
<1>3. Len(order) \in S
  <2> HIDE DEF S
  <2>1. \A i \in 0 .. Len(order) : i \in S
    BY <1>0, <1>1, <1>2, SetInduction
  <2> QED
    BY <1>0, <2>1
<1> DEFINE U == {u \in Nat : \A p \in plats : Len(items[p]) <= u}
<1>4. U # {}
  <2>1. PICK u \in Nat : Bounds(u, Len(order))
    BY <1>3
  <2>3. \A p \in plats : Len(items[p]) <= u
    BY <1>0, <1>c, <2>1
  <2> QED
    BY <2>3
<1>5. PICK m \in U : \A u \in U : m <= u
  <2>1. U \in SUBSET Nat
    OBVIOUS
  <2> HIDE DEF U
  <2> QED
    BY <1>4, <2>1, LeastNatural
<1> DEFINE L == {Len(items[p]) : p \in plats} \cup {0}
<1>6. m \in Nat /\ \A p \in plats : Len(items[p]) <= m
  OBVIOUS
<1>7. m \in L
  <2>1. SUFFICES ASSUME m \notin L PROVE FALSE
    OBVIOUS
  <2>2. m # 0 /\ \A p \in plats : Len(items[p]) \in Nat /\ Len(items[p]) <= m /\ Len(items[p]) # m
    BY <1>6, <1>a, <1>c, <2>1
  <2>3. m - 1 \in Nat /\ \A p \in plats : Len(items[p]) <= m - 1
    BY <1>6, <2>2
  <2>4. m - 1 \in U
    BY <2>3
  <2>5. m <= m - 1
    <3> HIDE DEF U
    <3> QED
      BY <1>5, <2>4
  <2> QED
    BY <1>6, <2>5
<1>8. Longest(plats, items) \in L /\ \A p \in plats : Len(items[p]) <= Longest(plats, items)
  <2> HIDE DEF U
  <2>1. \E x \in L : \A p \in plats : Len(items[p]) <= x
    BY <1>6, <1>7
  <2> QED
    BY <2>1 DEF Longest
<1>9. L \in SUBSET Nat
  BY <1>a, <1>c
<1> HIDE DEF L
<1> QED
  BY <1>8, <1>9 DEF plats

\* A round is n turns.
LEMMA Rounds ==
    ASSUME NEW n \in Nat \ {0}, NEW m \in Nat, NEW r \in Nat, NEW s \in 0 .. n - 1, n * m = r * n + s
    PROVE  r = m /\ s = 0
<1>1. CASE r + 1 <= m
  <2>1. n * (r + 1) <= n * m
    BY <1>1
  <2>2. n * (r + 1) = r * n + n
    OBVIOUS
  <2> QED
    BY <2>1, <2>2
<1>2. CASE m + 1 <= r
  <2>1. n * (m + 1) <= n * r
    BY <1>2
  <2>2. n * (m + 1) = n * m + n /\ n * r = r * n
    OBVIOUS
  <2> QED
    BY <2>1, <2>2
<1>3. CASE r = m
  BY <1>3
<1> QED
  BY <1>1, <1>2, <1>3

\* What the platforms reported.
All(plats, items) == UNION {{Signature(p, items[p][i]) : i \in DOMAIN items[p]} : p \in plats}

\* They are finitely many.
LEMMA AllFinite ==
    ASSUME NEW plats \in SUBSET Platforms, NEW items \in [Platforms -> Seq(Topics)],
           NEW order, Ordered(order, plats)
    PROVE  IsFiniteSet(All(plats, items)) /\ Cardinality(All(plats, items)) \in Nat
<1> DEFINE sigs(p) == {Signature(p, items[p][i]) : i \in DOMAIN items[p]}
<1> DEFINE T == {sigs(p) : p \in plats}
<1>1. ASSUME NEW p \in plats
      PROVE  IsFiniteSet(sigs(p))
  <2> DEFINE m == Len(items[p])
  <2> DEFINE f == [i \in 1 .. m |-> Signature(p, items[p][i])]
  <2>1. m \in Nat /\ DOMAIN items[p] = 1 .. m /\ DOMAIN f = 1 .. m
    OBVIOUS
  <2>2. sigs(p) = {f[i] : i \in 1 .. m}
    BY <2>1
  <2> HIDE DEF f, m, sigs
  <2>3. IsFiniteSet({f[i] : i \in 1 .. m})
    BY <2>1, ImageCount
  <2> QED
    BY <2>2, <2>3
<1> DEFINE n == Len(order)
<1>2. n \in Nat /\ (\A k \in 1 .. n : order[k] \in plats) /\ \A p \in plats : \E k \in 1 .. n : order[k] = p
  BY DEF Ordered
<1> HIDE DEF n
<1> DEFINE g == [k \in 1 .. n |-> sigs(order[k])]
<1>3. T = {g[k] : k \in 1 .. n}
  <2> HIDE DEF sigs
  <2> QED
    BY <1>2
<1>4. DOMAIN g = 1 .. n
  OBVIOUS
<1>5. IsFiniteSet(T)
  <2> HIDE DEF g, T
  <2>1. IsFiniteSet({g[k] : k \in 1 .. n})
    BY <1>2, <1>4, ImageCount
  <2> QED
    BY <1>3, <2>1
<1>6. \A t \in T : IsFiniteSet(t)
  <2> HIDE DEF sigs
  <2> QED
    BY <1>1
<1>7. IsFiniteSet(UNION T)
  <2> HIDE DEF T
  <2> QED
    BY <1>5, <1>6, FS_UNION
<1> QED
  BY <1>7, FS_CardinalityType DEF All

\* The candidates after the last turn.
LEMMA MergeFair ==
    ASSUME NEW plats \in SUBSET Platforms, NEW items \in [Platforms -> Seq(Topics)],
           NEW order, Ordered(order, plats)
    PROVE  /\ Merge(order, items) \in Seq(Entry)
           /\ Attributed(plats, Merge(order, items))
           /\ Fair(plats, items, Merge(order, items))
<1> DEFINE n == Len(order)
<1> DEFINE m == Longest(plats, items)
<1> DEFINE last == n * m
<1> DEFINE st == Turns(order, items, last)[last]
<1> DEFINE out == st.out
<1> DEFINE all == All(plats, items)
<1> DEFINE sigs(p) == {Signature(p, items[p][i]) : i \in DOMAIN items[p]}
<1>1. /\ n \in Nat /\ order \in [1 .. n -> Platforms] /\ order \in Seq(Platforms)
      /\ \A k \in 1 .. n : order[k] \in plats
      /\ \A p \in plats : \E k \in 1 .. n : order[k] = p
      /\ \A k, l \in 1 .. n : order[k] = order[l] => k = l
      /\ Sources(order) = plats
  <2>1. order \in Seq(Platforms)
    BY DEF Ordered
  <2>2. n \in Nat /\ DOMAIN order = 1 .. n /\ order \in [1 .. n -> Platforms]
    BY <2>1
  <2>3. /\ \A k \in 1 .. n : order[k] \in plats
        /\ \A p \in plats : \E k \in 1 .. n : order[k] = p
        /\ \A k, l \in 1 .. n : order[k] = order[l] => k = l
    BY DEF Ordered
  <2>4. Sources(order) = plats
    BY <2>2, <2>3 DEF Sources
  <2> QED
    BY <2>1, <2>2, <2>3, <2>4
<1>2. m \in Nat /\ \A p \in plats : Len(items[p]) <= m
  BY <1>1, LongestBounds
<1>3. Merge(order, items) = out
  BY <1>1 DEF Merge
<1>4. IsFiniteSet(all) /\ Cardinality(all) \in Nat
  BY AllFinite
<1>5. \A p \in plats : Len(items[p]) \in Nat /\ DOMAIN items[p] = 1 .. Len(items[p])
  OBVIOUS
<1>6. \A x \in all : \E p \in plats : \E l \in 1 .. Len(items[p]) : x = Signature(p, items[p][l])
  BY <1>5 DEF All
<1>7. \A p \in plats : \A l \in 1 .. Len(items[p]) : Signature(p, items[p][l]) \in all
  BY <1>5 DEF All
<1> HIDE DEF m, st, all
<1>8. MaxItems \in Nat \ {0}
  BY HotspotsAssumption
<1>9. CASE n = 0
  <2>1. last = 0
    BY <1>2, <1>9
  <2>2. plats = {}
    BY <1>1, <1>9
  <2>3. Turns(order, items, 0)[0] = Start(n)
    <3> DEFINE t == CHOOSE g : g = [i \in 0 .. 0 |->
                        IF i = 0 THEN Start(Len(order)) ELSE Advance(order, items, g[i - 1])]
    <3> DEFINE f == [i \in 0 .. 0 |-> Start(Len(order))]
    <3>1. f = [i \in 0 .. 0 |-> IF i = 0 THEN Start(Len(order)) ELSE Advance(order, items, f[i - 1])]
      OBVIOUS
    <3> HIDE DEF f
    <3>2. t = [i \in 0 .. 0 |-> IF i = 0 THEN Start(Len(order)) ELSE Advance(order, items, t[i - 1])]
      BY <3>1
    <3>3. t = Turns(order, items, 0)
      BY DEF Turns, Advance
    <3> HIDE DEF t
    <3> QED
      BY <3>2, <3>3
  <2>4. out = <<>>
    BY <2>1, <2>3 DEF Start, st
  <2>5. all = {}
    BY <1>6, <2>2
  <2>6. Cardinality(all) = 0
    BY <2>5, FS_EmptySet
  <2>7. Fair(plats, items, out)
    BY <1>8, <2>2, <2>4, <2>6 DEF Fair, All, all
  <2> QED
    BY <1>3, <2>4, <2>7 DEF Attributed
<1>10. CASE n # 0
  <2>1. Reports(order, items)
    BY <1>1, <1>10 DEF Reports
  <2>2. last \in Nat
    BY <1>1, <1>2
  <2>3. MergeInv(order, items, st, last)
    BY <2>1, <2>2, MergeRuns DEF st
  <2> HIDE DEF last
  <2>4. PICK r \in Nat : Counted(order, items, st, r) /\ (Len(out) < MaxItems => last = r * n + st.step)
    BY <2>3 DEF MergeInv
  <2>5. st \in States(n) /\ Sourced(order, items, out) /\ Covered(order, items, st) /\ Len(out) <= MaxItems
    BY <2>3 DEF MergeInv
  <2>6. /\ out \in Seq(Entry) /\ Len(out) \in Nat /\ DOMAIN out = 1 .. Len(out)
        /\ st.step \in 0 .. n - 1 /\ st.first \in 1 .. n /\ st.at \in [1 .. n -> Nat]
    BY <2>5 DEF States
  <2> HIDE DEF out, n
  <2>7. \A i, j \in DOMAIN out : out[i].sig = out[j].sig => i = j
    BY <2>5 DEF Sourced
  <2>8. Attributed(plats, out)
    BY <1>1, <2>3 DEF MergeInv, out
  <2>9. IsFiniteSet(Shown(out)) /\ Cardinality(Shown(out)) = Len(out)
    <3> DEFINE f == [i \in 1 .. Len(out) |-> out[i].sig]
    <3>1. DOMAIN f = 1 .. Len(out) /\ \A i, j \in 1 .. Len(out) : f[i] = f[j] => i = j
      BY <2>6, <2>7
    <3>2. Shown(out) = {f[i] : i \in 1 .. Len(out)}
      BY <2>6 DEF Shown
    <3> DEFINE L == Len(out)
    <3>3. L \in Nat /\ DOMAIN f = 1 .. L /\ (\A i, j \in 1 .. L : f[i] = f[j] => i = j) /\ Shown(out) = {f[i] : i \in 1 .. L}
      BY <2>6, <3>1, <3>2
    <3> HIDE DEF f, L
    <3>4. IsFiniteSet({f[i] : i \in 1 .. L}) /\ Cardinality({f[i] : i \in 1 .. L}) = L
      BY <3>3, ImageCount
    <3> QED
      BY <3>3, <3>4 DEF L
  <2>10. Shown(out) \subseteq all
    <3>1. ASSUME NEW i \in DOMAIN out
          PROVE  out[i].sig \in all
      <4>1. PICK k \in 1 .. n : \E l \in 1 .. Len(items[order[k]]) : out[i].sig = Sig(order, items, k, l)
        BY <2>5 DEF Sourced, n
      <4> QED
        BY <1>1, <1>7, <4>1 DEF Sig
    <3> QED
      BY <3>1 DEF Shown
  <2>11. Len(out) <= Cardinality(all)
    BY <1>4, <2>9, <2>10, FS_Subset
  <2>12. ASSUME NEW k \in 1 .. n, st.at[k] = Len(items[order[k]])
         PROVE  \A l \in 1 .. Len(items[order[k]]) : Signature(order[k], items[order[k]][l]) \in Shown(out)
    BY <2>5, <2>12 DEF Covered, Sig, n, out
  <2>13. Len(out) < MaxItems => all \subseteq Shown(out)
    <3>1. SUFFICES ASSUME Len(out) < MaxItems, NEW x \in all PROVE x \in Shown(out)
      OBVIOUS
    <3>2. r = m /\ st.step = 0
      <4>1. n * m = r * n + st.step
        BY <2>4, <3>1 DEF last
      <4> QED
        <5>1. n \in Nat \ {0} /\ m \in Nat /\ st.step \in 0 .. n - 1
          BY <1>1, <1>2, <1>10, <2>6
        <5> QED
          BY <4>1, <5>1, Rounds, Zenon
    <3>3. PICK p \in plats : \E l \in 1 .. Len(items[p]) : x = Signature(p, items[p][l])
      BY <1>6
    <3>4. PICK k \in 1 .. n : order[k] = p
      BY <1>1
    <3>5. Due(st, n, r, k) = r
      BY SMTT(20), <1>1, <2>6, <3>2 DEF Due, Had
    <3>6. st.at[k] \in Nat /\ st.at[k] <= Len(items[p]) /\ Len(items[p]) <= m /\ Len(items[p]) \in Nat
      BY <1>2, <1>5, <2>5, <2>6, <3>4 DEF Covered, n
    <3>7. st.at[k] = Len(items[p]) \/ Due(st, n, r, k) <= st.at[k]
      BY <2>4, <3>4 DEF Counted, n
    <3>8. st.at[k] = Len(items[order[k]])
      BY <1>2, <3>2, <3>4, <3>5, <3>6, <3>7
    <3> QED
      BY <2>12, <3>3, <3>4, <3>8
  <2>14. Len(out) = IF Cardinality(all) < MaxItems THEN Cardinality(all) ELSE MaxItems
    <3>1. CASE Len(out) < MaxItems
      <4>1. all = Shown(out)
        BY <2>10, <2>13, <3>1
      <4> QED
        BY <2>9, <3>1, <4>1
    <3>2. CASE ~ (Len(out) < MaxItems)
      <4>0. Len(out) \in Nat /\ Len(out) <= MaxItems
        BY <2>5, <2>6
      <4>1. Len(out) = MaxItems
        BY <1>8, <3>2, <4>0
      <4> QED
        BY <1>4, <1>8, <2>11, <4>1
    <3> QED
      BY <3>1, <3>2
  <2>15. ASSUME NEW p \in plats, NEW q \in plats, Placed(out, q) > Placed(out, p) + 1
         PROVE  sigs(p) \subseteq Shown(out)
    <3>1. PICK k \in 1 .. n : order[k] = p
      BY <1>1
    <3>2. PICK l \in 1 .. n : order[l] = q
      BY <1>1
    <3>3. /\ Placed(out, q) <= Due(st, n, r, l)
          /\ st.at[k] = Len(items[p]) \/ Placed(out, p) = Due(st, n, r, k)
      BY <2>4, <3>1, <3>2 DEF Counted, n, out
    <3>4. Due(st, n, r, l) \in {r, r + 1} /\ Due(st, n, r, k) \in {r, r + 1}
      BY DEF Due
    <3>5. Placed(out, p) \in Nat /\ Placed(out, q) \in Nat
      BY <2>6, PlacedStep DEF Same
    <3>6. st.at[k] = Len(items[order[k]])
      BY <2>15, <3>1, <3>3, <3>4, <3>5
    <3> QED
      BY <1>5, <2>12, <3>1, <3>6
  <2>16. Fair(plats, items, out)
    BY <2>7, <2>14, <2>15 DEF Fair, All, all
  <2> QED
    BY <1>3, <2>6, <2>8, <2>16
<1> QED
  BY <1>9, <1>10

------------------------------------------------------------------------------
(* The tool: every row of a call, and the cache *)

\* What the platforms of a call reported.
Items(row) == [p \in Platforms |-> row.th[p].items]

\* What the agent is shown comes from the result, each candidate once.
Shows(row) ==
    /\ \A i \in DOMAIN row.picks : \E j \in DOMAIN row.res.out : row.picks[i] = row.res.out[j]
    /\ \A i, j \in DOMAIN row.picks : row.picks[i].sig = row.picks[j].sig => i = j

\* The row of a call: its order is one of its sources, its group is the first before
\* the fetch and one of the three in it, its result is of its sources, and merged if
\* it fetched it itself.
Sound(row) ==
    /\ row \in Call
    /\ Ordered(row.order, row.plats)
    /\ row.pc \in {"idle", "lookup"} => row.group = 1
    /\ row.pc \in {"open", "fetch"} => row.group <= 3
    /\ row.pc = "idle" => row.res.out = <<>>
    /\ Attributed(row.plats, row.res.out)
    /\ row.pc \in {"reply", "done"} => Shows(row)
    /\ row.pc = "score" /\ row.group = 4 => Fair(row.plats, Items(row), row.res.out)

\* What is cached is of the sources of its key.
Stored == \A k \in Keys : cache[k] # None => Attributed(k.plats, cache[k].out)

\* The inductive invariant of the tool.
HInv == TypeOK /\ (\A c \in Calls : Sound(call[c])) /\ Stored

\* A step of one call.
LEMMA RowStep ==
    ASSUME HInv, NEW c \in Calls, NEW new, Update(c, new), Sound(new),
           UNCHANGED cancelled, UNCHANGED cache
    PROVE  HInv'
<1>1. call \in [Calls -> Call] /\ call' = [call EXCEPT ![c] = new] /\ new \in Call
  BY DEF HInv, TypeOK, Update, Sound
<1>2. TypeOK'
  BY <1>1 DEF HInv, TypeOK
<1>3. \A d \in Calls : Sound(call'[d])
  BY <1>1 DEF HInv
<1>4. Stored'
  BY DEF HInv, Stored
<1>5. (\A d \in Calls : Sound(call[d]))'
  BY <1>3 DEF Sound, Shows, Items
<1> QED
  BY <1>2, <1>4, <1>5 DEF HInv

\* It holds before the first call.
LEMMA HInit == Init => HInv
<1> SUFFICES ASSUME Init PROVE HInv
  OBVIOUS
<1>1. /\ NewCall \in Call /\ NewCall.pc = "idle" /\ NewCall.group = 1 /\ NewCall.res.out = <<>>
      /\ NewCall.order = <<>> /\ NewCall.plats = {}
  <2>1. NoResult \in Result /\ NoResult.out = <<>>
    <3>1. [p \in {} |-> "ok"] \in [{} -> {"ok", "degraded", "failed"}] /\ {} \in SUBSET Platforms
      OBVIOUS
    <3>2. <<>> \in Seq(Entry)
      OBVIOUS
    <3> QED
      BY <3>1, <3>2 DEF NoResult, Result
  <2>2. [p \in Platforms |-> NotAsked] \in [Platforms -> Thread]
    BY DEF NotAsked, Thread
  <2>3. <<>> \in Seq(Entry) /\ <<>> \in Seq(Platforms) /\ {} \in SUBSET Platforms
    OBVIOUS
  <2> QED
    BY <2>1, <2>2, <2>3 DEF NewCall, Call, Stages
<1>a. Ordered(<<>>, {}) /\ \A plats : Attributed(plats, <<>>)
  BY DEF Ordered, Attributed
<1>2. Sound(NewCall)
  BY <1>1, <1>a DEF Sound
<1>3. TypeOK
  BY <1>1 DEF Init, TypeOK
<1>4. Stored
  BY DEF Init, Stored
<1> QED
  BY <1>2, <1>3, <1>4 DEF Init, HInv

\* Steps before and after the fetch.
LEMMA AroundSound ==
    ASSUME HInv, NEW c \in Calls,
           \/ \E ask \in Asks : Ask(c, ask)
           \/ Hit(c) \/ Miss(c) \/ Reply(c) \/ Stop(c)
           \/ \E named \in Selections : Score(c, named)
    PROVE  HInv'
<1> DEFINE row == call[c]
<1>0. Sound(row) /\ row \in Call
  BY DEF HInv, Sound
<1> HIDE DEF row
<1>1. ASSUME NEW ask \in Asks, Ask(c, ask) PROVE HInv'
  <2> DEFINE plats == Selected(c, ask)
  <2> DEFINE order == Ranked(ask, plats)
  <2> DEFINE new == [row EXCEPT !.pc = IF plats = {} THEN "refused" ELSE "lookup",
                                !.plats = plats, !.order = order]
  <2>1. Update(c, new) /\ UNCHANGED cancelled /\ UNCHANGED cache /\ row.pc = "idle"
    BY <1>1 DEF Ask, At, row
  <2>2. plats \in SUBSET Platforms /\ plats \subseteq Sources(ask) /\ ask \in Seq(Platforms \cup {None})
    BY HotspotsAssumption DEF Selected
  <2> HIDE DEF plats
  <2>a. Ordered(order, plats)
    BY <2>2, RankedOrder
  <2> HIDE DEF order
  <2>b. order \in Seq(Platforms)
    BY <2>a DEF Ordered
  <2>3. /\ new \in Call /\ new.group = row.group /\ new.res = row.res /\ new.pc \in {"refused", "lookup"}
        /\ new.plats = plats /\ new.order = order
    BY <1>0, <2>2, <2>b DEF Call, Stages
  <2> HIDE DEF new
  <2>c. Attributed(plats, <<>>)
    BY DEF Attributed
  <2>4. Sound(new)
    BY <1>0, <2>1, <2>3, <2>a, <2>c DEF Sound
  <2> QED
    BY <2>1, <2>4, RowStep
<1>2. CASE Hit(c)
  <2> DEFINE r == cache[Key(c)]
  <2> DEFINE new == [row EXCEPT !.pc = "score", !.res = r]
  <2>1. Update(c, new) /\ UNCHANGED cancelled /\ UNCHANGED cache /\ row.pc = "lookup" /\ r # None
    BY <1>2 DEF Hit, At, row
  <2>2. Key(c) \in Keys /\ Key(c).plats = row.plats
    BY <1>0, HotspotsAssumption DEF Key, Keys, Call, row
  <2>3. r \in Result /\ Attributed(row.plats, r.out)
    BY <2>1, <2>2 DEF HInv, TypeOK, Stored
  <2> HIDE DEF r
  <2>4. /\ new \in Call /\ new.group = row.group /\ new.res = r /\ new.pc = "score"
        /\ new.plats = row.plats /\ new.order = row.order
    BY <1>0, <2>3 DEF Call, Stages
  <2> HIDE DEF new
  <2>5. Sound(new)
    BY <1>0, <2>1, <2>3, <2>4 DEF Sound
  <2> QED
    BY <2>1, <2>5, RowStep
<1>3. CASE Miss(c)
  <2> DEFINE new == [row EXCEPT !.pc = "group"]
  <2>1. Update(c, new) /\ UNCHANGED cancelled /\ UNCHANGED cache
    BY <1>3 DEF Miss, row
  <2>2. new \in Call /\ new.res = row.res /\ new.plats = row.plats /\ new.order = row.order /\ new.pc = "group"
    BY <1>0 DEF Call, Stages
  <2> HIDE DEF new
  <2>3. Sound(new)
    BY <1>0, <2>2 DEF Sound
  <2> QED
    BY <2>1, <2>3, RowStep
<1>4. CASE Reply(c)
  <2> DEFINE new == [row EXCEPT !.pc = "done"]
  <2>1. Update(c, new) /\ UNCHANGED cancelled /\ UNCHANGED cache /\ row.pc = "reply"
    BY <1>4 DEF Reply, At, row
  <2>2. /\ new \in Call /\ new.res = row.res /\ new.plats = row.plats /\ new.order = row.order
        /\ new.pc = "done" /\ new.picks = row.picks
    BY <1>0 DEF Call, Stages
  <2> HIDE DEF new
  <2>3. Sound(new)
    BY <1>0, <2>1, <2>2 DEF Sound, Shows
  <2> QED
    BY <2>1, <2>3, RowStep
<1>5. CASE Stop(c)
  <2> DEFINE new == [row EXCEPT !.pc = "stopped"]
  <2>1. Update(c, new) /\ UNCHANGED cancelled /\ UNCHANGED cache
    BY <1>5 DEF Stop, row
  <2>2. new \in Call /\ new.res = row.res /\ new.plats = row.plats /\ new.order = row.order /\ new.pc = "stopped"
    BY <1>0 DEF Call, Stages
  <2> HIDE DEF new
  <2>3. Sound(new)
    BY <1>0, <2>2 DEF Sound
  <2> QED
    BY <2>1, <2>3, RowStep
<1>6. ASSUME NEW named \in Selections, Score(c, named) PROVE HInv'
  <2> DEFINE picks == Rendered(row.res.out, named)
  <2> DEFINE new == [row EXCEPT !.pc = "reply", !.picks = picks]
  <2>1. Update(c, new) /\ UNCHANGED cancelled /\ UNCHANGED cache
    BY <1>6 DEF Score, row
  <2>2. row.res.out \in Seq(Entry) /\ named \in Seq(Signatures \cup {None})
    BY <1>0, HotspotsAssumption DEF Call, Result
  <2>3. /\ picks \in Seq(Entry)
        /\ \A i \in DOMAIN picks : \E j \in DOMAIN row.res.out : picks[i] = row.res.out[j]
        /\ \A i, j \in DOMAIN picks : picks[i].sig = picks[j].sig => i = j
    BY <2>2, RenderedPicks
  <2> HIDE DEF picks
  <2>4. /\ new \in Call /\ new.res = row.res /\ new.plats = row.plats /\ new.order = row.order
        /\ new.pc = "reply" /\ new.picks = picks
    BY <1>0, <2>3 DEF Call, Stages
  <2> HIDE DEF new
  <2>5. Sound(new)
    BY <1>0, <2>3, <2>4 DEF Sound, Shows
  <2> QED
    BY <2>1, <2>5, RowStep
<1> QED
  BY <1>1, <1>2, <1>3, <1>4, <1>5, <1>6

\* A call whose group is lost or through.
Beyond(row, new) ==
    /\ new \in Call /\ new.res = row.res /\ new.plats = row.plats /\ new.order = row.order
    /\ new.pc \in {"group", "open", "fetch"}
    /\ new.pc \in {"open", "fetch"} => new.group <= 3

\* Its row is sound, whatever the group made of it.
LEMMA BeyondSound ==
    ASSUME NEW row, NEW new, Sound(row), Beyond(row, new)
    PROVE  Sound(new)
BY DEF Sound, Beyond

\* A lost group leaves a row of the right type.
LEMMA LostType ==
    ASSUME NEW c \in Calls, call[c] \in Call, call[c].group <= 3
    PROVE  /\ Lost(c) \in Call /\ Lost(c).pc = "group" /\ Lost(c).res = call[c].res
           /\ Lost(c).plats = call[c].plats /\ Lost(c).order = call[c].order
<1> DEFINE row == call[c]
<1> DEFINE th == [p \in Platforms |-> IF p \in Members(c) THEN Failed ELSE row.th[p]]
<1>1. row.th \in [Platforms -> Thread] /\ row.group \in 1 .. 4 /\ row.group <= 3
  BY DEF Call
<1>2. Failed \in Thread
  BY DEF Failed, Thread
<1>3. th \in [Platforms -> Thread]
  BY <1>1, <1>2
<1>4. row.group + 1 \in 1 .. 4
  BY <1>1
<1>5. Lost(c) = [row EXCEPT !.pc = "group", !.group = @ + 1, !.taken = {}, !.broken = FALSE, !.th = th]
  BY DEF Lost
<1> HIDE DEF row, th
<1>6. row \in Call
  BY DEF row
<1> QED
  BY <1>3, <1>4, <1>5, <1>6 DEF Call, Stages, row

\* Steps of the loop of the caller.
LEMMA LoopSound ==
    ASSUME HInv, NEW c \in Calls,
           \/ NextGroup(c) \/ Open(c) \/ OpenFails(c) \/ GroupDone(c) \/ WindUp(c)
           \/ \E p \in Platforms : Take(c, p) \/ Break(c, p)
    PROVE  HInv'
<1> DEFINE row == call[c]
<1>0. /\ Sound(row) /\ row \in Call /\ row.group \in 1 .. 4
      /\ row.pc \in {"open", "fetch"} => row.group <= 3
      /\ cancelled[c] \in BOOLEAN
  BY DEF HInv, Sound, TypeOK, Call
<1> SUFFICES \E new : Update(c, new) /\ Beyond(row, new) /\ UNCHANGED cancelled /\ UNCHANGED cache
  BY <1>0, BeyondSound, RowStep
<1>a. row.pc \in {"open", "fetch"} =>
        /\ Lost(c) \in Call /\ Lost(c).pc = "group" /\ Lost(c).res = row.res
        /\ Lost(c).plats = row.plats /\ Lost(c).order = row.order
  BY <1>0, LostType
<1> HIDE DEF row
<1>1. CASE NextGroup(c)
  <2>1. row.group <= 3
    BY <1>1 DEF NextGroup, row
  <2>2. CASE Members(c) = {}
    <3> DEFINE new == [row EXCEPT !.group = @ + 1]
    <3>1. Update(c, new) /\ UNCHANGED cancelled /\ UNCHANGED cache /\ row.pc = "group"
      BY <1>1, <2>2 DEF NextGroup, At, row
    <3>2. row.group + 1 \in 1 .. 4
      BY <1>0, <2>1
    <3>3. Beyond(row, new)
      BY <1>0, <3>1, <3>2 DEF Call, Stages, Beyond
    <3> QED
      BY <3>1, <3>3
  <2>3. CASE Members(c) # {}
    <3> DEFINE new == [row EXCEPT !.pc = "open"]
    <3>1. Update(c, new) /\ UNCHANGED cancelled /\ UNCHANGED cache
      BY <1>1, <2>3 DEF NextGroup, row
    <3>2. Beyond(row, new)
      BY <1>0, <2>1 DEF Call, Stages, Beyond
    <3> QED
      BY <3>1, <3>2
  <2> QED
    BY <2>2, <2>3
<1>2. CASE Open(c)
  <2> DEFINE new == [row EXCEPT !.pc = "fetch"]
  <2>1. Update(c, new) /\ UNCHANGED cancelled /\ UNCHANGED cache /\ row.pc = "open"
    BY <1>2 DEF Open, At, row
  <2>2. Beyond(row, new)
    BY <1>0, <2>1 DEF Call, Stages, Beyond
  <2> QED
    BY <2>1, <2>2
<1>3. CASE OpenFails(c)
  <2> DEFINE lost == Lost(c)
  <2> DEFINE new == [lost EXCEPT !.cut = @ \/ cancelled[c]]
  <2>1. Update(c, new) /\ UNCHANGED cancelled /\ UNCHANGED cache /\ row.pc = "open"
    BY <1>3 DEF OpenFails, At, row
  <2>2. /\ lost \in Call /\ lost.pc = "group" /\ lost.res = row.res
        /\ lost.plats = row.plats /\ lost.order = row.order
    BY <1>a, <2>1
  <2> HIDE DEF lost
  <2>3. lost.cut \in BOOLEAN
    BY <2>2 DEF Call
  <2> DEFINE b == lost.cut \/ cancelled[c]
  <2>4. b \in BOOLEAN /\ new = [lost EXCEPT !.cut = b]
    OBVIOUS
  <2> HIDE DEF b, new
  <2>5. Beyond(row, new)
    BY <2>2, <2>4 DEF Call, Stages, Beyond
  <2> QED
    BY <2>1, <2>5
<1>4. CASE GroupDone(c)
  <2> DEFINE new == [row EXCEPT !.pc = "group", !.group = @ + 1, !.taken = {}]
  <2>1. Update(c, new) /\ UNCHANGED cancelled /\ UNCHANGED cache /\ row.pc = "fetch"
    BY <1>4 DEF GroupDone, At, row
  <2>2. row.group + 1 \in 1 .. 4
    BY <1>0, <2>1
  <2>3. Beyond(row, new)
    BY <1>0, <2>2 DEF Call, Stages, Beyond
  <2> QED
    BY <2>1, <2>3
<1>5. CASE WindUp(c)
  <2>1. Update(c, Lost(c)) /\ UNCHANGED cancelled /\ UNCHANGED cache /\ row.pc = "fetch"
    BY <1>5 DEF WindUp, At, row
  <2>2. Beyond(row, Lost(c))
    BY <1>a, <2>1 DEF Beyond
  <2> QED
    BY <2>1, <2>2
<1>6. ASSUME NEW p \in Platforms, Take(c, p) PROVE \E new : Update(c, new) /\ Beyond(row, new) /\ UNCHANGED cancelled /\ UNCHANGED cache
  <2> DEFINE new == [row EXCEPT !.taken = @ \cup {p}]
  <2>1. Update(c, new) /\ UNCHANGED cancelled /\ UNCHANGED cache /\ row.pc = "fetch"
    BY <1>6 DEF Take, At, row
  <2>2. Beyond(row, new)
    BY <1>0, <2>1 DEF Call, Stages, Beyond
  <2> QED
    BY <2>1, <2>2
<1>7. ASSUME NEW p \in Platforms, Break(c, p) PROVE \E new : Update(c, new) /\ Beyond(row, new) /\ UNCHANGED cancelled /\ UNCHANGED cache
  <2> DEFINE b == row.cut \/ cancelled[c]
  <2> DEFINE new == [row EXCEPT !.broken = TRUE, !.cut = b]
  <2>1. Update(c, new) /\ UNCHANGED cancelled /\ UNCHANGED cache /\ row.pc = "fetch"
    BY <1>7 DEF Break, At, row
  <2>2. b \in BOOLEAN
    OBVIOUS
  <2> HIDE DEF b
  <2>3. Beyond(row, new)
    BY <1>0, <2>1, <2>2 DEF Call, Stages, Beyond
  <2> QED
    BY <2>1, <2>3
<1> QED
  BY <1>1, <1>2, <1>3, <1>4, <1>5, <1>6, <1>7

\* Steps of the threads of the pool leave a row of the right type.
LEMMA ThreadSound ==
    ASSUME HInv, NEW c \in Calls, NEW p \in Platforms,
           \/ Asking(c, p) \/ Interrupted(c, p) \/ NotAnswered(c, p)
           \/ \E items \in Answers : Answered(c, p, items)
    PROVE  HInv'
<1> DEFINE row == call[c]
<1> DEFINE t == row.th[p]
<1>0. /\ Sound(row) /\ row \in Call /\ t \in Thread
      /\ row.pc \in {"open", "fetch"} => row.group <= 3
      /\ cancelled[c] \in BOOLEAN
  BY DEF HInv, Sound, TypeOK, Call
<1>1. ASSUME NEW x \in Thread, NEW b \in BOOLEAN, Set(c, p, x, b), row.pc = "fetch",
             UNCHANGED cancelled, UNCHANGED cache
      PROVE  HInv'
  <2> DEFINE new == [row EXCEPT !.th[p] = x, !.cut = @ \/ b]
  <2>1. Update(c, new)
    BY <1>1 DEF Set
  <2> DEFINE th == [row.th EXCEPT ![p] = x]
  <2> DEFINE cut == row.cut \/ b
  <2>2. th \in [Platforms -> Thread] /\ cut \in BOOLEAN
    BY <1>0, <1>1 DEF Call
  <2>3. new = [row EXCEPT !.th = th, !.cut = cut]
    OBVIOUS
  <2> HIDE DEF new, th, cut, row
  <2>4. Beyond(row, new)
    BY <1>0, <1>1, <2>2, <2>3 DEF Call, Stages, Beyond
  <2>5. Sound(new)
    BY <1>0, <2>4, BeyondSound
  <2> QED
    BY <1>1, <2>1, <2>5, RowStep
<1>2. CASE Asking(c, p)
  <2>1. [t EXCEPT !.state = "asking", !.at = @ + 1] \in Thread
    <3> HIDE DEF t
    <3>1. t.at + 1 \in Nat
      BY <1>0 DEF Thread
    <3> QED
      BY <1>0, <3>1 DEF Thread
  <2> QED
    BY <1>1, <1>2, <2>1 DEF Asking, At
<1>3. CASE Interrupted(c, p)
  <2>1. [t EXCEPT !.state = "failed"] \in Thread
    BY <1>0 DEF Thread
  <2> QED
    BY <1>0, <1>1, <1>3, <2>1 DEF Interrupted, At
<1>4. CASE NotAnswered(c, p)
  <2>1. [t EXCEPT !.state = IF t.at < Endpoints[p] THEN "ready" ELSE "failed"] \in Thread
    BY <1>0 DEF Thread
  <2> QED
    BY <1>0, <1>1, <1>4, <2>1 DEF NotAnswered, At
<1>5. ASSUME NEW items \in Answers, Answered(c, p, items) PROVE HInv'
  <2>1. items \in Seq(Topics) /\ PerSource \in Nat
    BY HotspotsAssumption
  <2>2. Capped(items) \in Seq(Topics)
    <3> DEFINE m == IF Len(items) < PerSource THEN Len(items) ELSE PerSource
    <3>1. m \in 0 .. Len(items)
      BY <2>1
    <3> HIDE DEF m
    <3>2. SubSeq(items, 1, m) \in Seq(Topics)
      BY <2>1, <3>1
    <3> QED
      BY <3>2 DEF Capped, m
  <2>3. [t EXCEPT !.state = "ok", !.items = Capped(items)] \in Thread
    BY <1>0, <2>2 DEF Thread
  <2> QED
    BY <1>1, <1>5, <2>3 DEF Answered, At
<1> QED
  BY <1>2, <1>3, <1>4, <1>5

\* What a fetch ends with.
LEMMA FinishSound ==
    ASSUME HInv, NEW c \in Calls, Finish(c)
    PROVE  HInv'
<1> DEFINE row == call[c]
<1> DEFINE r == Results(c)
<1> DEFINE new == [row EXCEPT !.pc = "score", !.res = r]
<1>0. Sound(row) /\ row \in Call
  BY DEF HInv, Sound
<1>1. /\ call' = [call EXCEPT ![c] = new]
      /\ cache' = [cache EXCEPT ![Key(c)] = r] /\ cancelled' = cancelled
  BY DEF Finish, Update
<1>2. row.plats \in SUBSET Platforms /\ row.th \in [Platforms -> Thread] /\ row.cut \in BOOLEAN
  BY <1>0 DEF Call
<1>3. Items(row) \in [Platforms -> Seq(Topics)]
  BY <1>2 DEF Items, Thread
<1>4. /\ r.out = Merge(row.order, Items(row)) /\ r.health = Health(c) /\ r.cut = row.cut
      /\ r = [out |-> Merge(row.order, Items(row)), health |-> Health(c), cut |-> row.cut]
  BY DEF Results, Items
<1>5. /\ Merge(row.order, Items(row)) \in Seq(Entry)
      /\ Attributed(row.plats, Merge(row.order, Items(row)))
      /\ Fair(row.plats, Items(row), Merge(row.order, Items(row)))
  <2>1. Ordered(row.order, row.plats)
    BY <1>0 DEF Sound
  <2> QED
    BY <1>2, <1>3, <2>1, MergeFair
<1>6. Health(c) \in [row.plats -> {"ok", "degraded", "failed"}]
  BY DEF Health, Status
<1> HIDE DEF r
<1>7. r \in Result
  BY <1>2, <1>4, <1>5, <1>6 DEF Result
<1>8. Attributed(row.plats, r.out) /\ Fair(row.plats, Items(row), r.out)
  BY <1>4, <1>5
<1>9. Key(c) \in Keys /\ Key(c).plats = row.plats
  BY <1>2, HotspotsAssumption DEF Key, Keys
<1> HIDE DEF row
<1>10. /\ new \in Call /\ new.pc = "score" /\ new.res = r /\ new.plats = row.plats
       /\ new.order = row.order /\ new.th = row.th
  BY <1>0, <1>7 DEF Call, Stages
<1> HIDE DEF new
<1>11. Items(new) = Items(row)
  BY <1>10 DEF Items
<1>12. Sound(new)
  BY <1>0, <1>8, <1>10, <1>11 DEF Sound
<1>13. call \in [Calls -> Call] /\ cache \in [Keys -> Result \cup {None}] /\ cancelled \in [Calls -> BOOLEAN]
  BY DEF HInv, TypeOK
<1>14. TypeOK'
  BY <1>1, <1>7, <1>9, <1>10, <1>13 DEF TypeOK
<1>15. \A d \in Calls : Sound(call'[d])
  BY <1>1, <1>12, <1>13 DEF HInv
<1>16. (\A d \in Calls : Sound(call[d]))'
  BY <1>15 DEF Sound, Shows, Items
<1>17. \A k \in Keys : cache'[k] # None => Attributed(k.plats, cache'[k].out)
  BY <1>1, <1>8, <1>9, <1>13 DEF HInv, Stored
<1>18. Stored'
  BY <1>17 DEF Stored
<1> QED
  BY <1>14, <1>16, <1>18 DEF HInv

\* Every step of the tool keeps the invariant.
LEMMA HStep == HInv /\ [Next]_vars => HInv'
<1> SUFFICES ASSUME HInv, [Next]_vars PROVE HInv'
  OBVIOUS
<1>1. ASSUME NEW c \in Calls,
             \/ \E ask \in Asks : Ask(c, ask)
             \/ Hit(c) \/ Miss(c) \/ Reply(c) \/ Stop(c)
             \/ \E named \in Selections : Score(c, named)
      PROVE  HInv'
  BY <1>1, AroundSound
<1>2. ASSUME NEW c \in Calls, Fetch(c) PROVE HInv'
  <2>1. CASE Finish(c)
    BY <2>1, FinishSound
  <2>2. CASE \/ NextGroup(c) \/ Open(c) \/ OpenFails(c) \/ GroupDone(c) \/ WindUp(c)
             \/ \E p \in Platforms : Take(c, p) \/ Break(c, p)
    BY <2>2, LoopSound
  <2>3. ASSUME NEW p \in Platforms,
               \/ Asking(c, p) \/ Interrupted(c, p) \/ NotAnswered(c, p)
               \/ \E items \in Answers : Answered(c, p, items)
        PROVE  HInv'
    BY <2>3, ThreadSound
  <2> QED
    BY <1>2, <2>1, <2>2, <2>3 DEF Fetch
<1>3. ASSUME NEW c \in Calls, Cancel(c) PROVE HInv'
  BY <1>3 DEF Cancel, HInv, TypeOK, Stored, Sound, Shows, Items
<1>4. ASSUME NEW k \in Keys, Expire(k) PROVE HInv'
  BY <1>4 DEF Expire, HInv, TypeOK, Stored, Sound, Shows, Items
<1>5. CASE UNCHANGED vars
  BY <1>5 DEF vars, HInv, TypeOK, Stored, Sound, Shows, Items
<1> QED
  BY <1>1, <1>2, <1>3, <1>4, <1>5 DEF Next

\* The invariant of the tool holds of every run.
THEOREM FetchSound == Spec => []HInv
BY HInit, HStep, PTL DEF Spec

\* Calls, cancellations and cache have their types: a merge is a sequence of
\* candidates, and the groups of a fetch are never exceeded.
THEOREM TypeCorrect == Spec => []TypeOK
<1>1. HInv => TypeOK
  BY DEF HInv
<1> QED
  BY <1>1, FetchSound, PTL

\* An agent is shown only candidates that sources of its account which it asked for
\* reported, each once and with the link of its source, from the cache or not
\* (fetch_hotspots, filter_hotspot_candidates).
THEOREM ShownWanted == Spec => []OnlyWanted
<1>1. HInv => OnlyWanted
  <2>1. SUFFICES ASSUME HInv, NEW c \in Calls, At(c, "done")
                 PROVE  Shows(call[c]) /\ Attributed(call[c].plats, call[c].res.out)
    BY DEF OnlyWanted, Shows, Attributed
  <2> QED
    BY <2>1 DEF HInv, Sound, At
<1> QED
  BY <1>1, FetchSound, PTL

\* The candidates a fetch merges are distinct, as many as the limit and the
\* reports allow, and no platform that has something new is two behind another
\* (_fair_dedupe_and_trim_items).
THEOREM MergedFairly == Spec => []FairMerge
<1>1. HInv => FairMerge
  <2>1. SUFFICES ASSUME HInv, NEW c \in Calls, call[c].group = 4, At(c, "score")
                 PROVE  Fair(call[c].plats, Items(call[c]), call[c].res.out)
    BY DEF FairMerge, Items
  <2> QED
    BY <2>1 DEF HInv, Sound, At
<1> QED
  BY <1>1, FetchSound, PTL

------------------------------------------------------------------------------
(* The cache and cancellation *)

\* What the proof needs of the types: calls are records with a flag, of one domain.
Shape ==
    /\ DOMAIN call = Calls
    /\ \A c \in Calls : "cut" \in DOMAIN call[c] /\ call[c].cut \in BOOLEAN
    /\ cancelled \in [Calls -> BOOLEAN]
    /\ DOMAIN cache = Keys

\* A check was swallowed only because the execution of the call is cancelled, and
\* it stays so.
CutCancelled == \A c \in Calls : call[c].cut => cancelled[c]

IInv == Shape /\ CutCancelled /\ CutNeverCached

\* A step of one call that leaves the other variables alone, and notes a swallowed
\* check at most if the execution is cancelled.
Notes(c) ==
    /\ DOMAIN call' = Calls
    /\ \A d \in Calls \ {c} : call'[d] = call[d]
    /\ "cut" \in DOMAIN call'[c] /\ call'[c].cut \in BOOLEAN
    /\ call'[c].cut => call[c].cut \/ cancelled[c]
    /\ cancelled' = cancelled
    /\ cache' = cache

\* The record of a call after a step, by what the step does to its flag.
LEMMA CallKept ==
    ASSUME IInv, NEW c \in Calls, Notes(c)
    PROVE  IInv'
<1>1. Shape'
  BY DEF IInv, Shape, Notes
<1>2. CutCancelled'
  BY DEF IInv, Shape, CutCancelled, Notes
<1>3. CutNeverCached'
  BY DEF IInv, CutNeverCached, Notes
<1> QED
  BY <1>1, <1>2, <1>3 DEF IInv

LEMMA InitInv == Init => IInv
<1> SUFFICES ASSUME Init PROVE IInv
  OBVIOUS
<1>1. \A c \in Calls : call[c] = NewCall
  BY DEF Init
<1>2. "cut" \in DOMAIN NewCall /\ NewCall.cut = FALSE
  BY DEF NewCall
<1>3. Shape
  BY <1>1, <1>2 DEF Init, Shape
<1>4. CutCancelled
  BY <1>1, <1>2 DEF CutCancelled
<1>5. CutNeverCached
  BY DEF Init, CutNeverCached
<1> QED
  BY <1>3, <1>4, <1>5 DEF IInv

\* Steps before and after the fetch.
LEMMA AroundFetch ==
    ASSUME IInv, NEW c \in Calls,
           \/ \E ask \in Asks : Ask(c, ask)
           \/ Hit(c) \/ Miss(c) \/ Reply(c) \/ Stop(c)
           \/ \E named \in Selections : Score(c, named)
    PROVE  Notes(c)
<1> USE DEF Notes, Update
<1>0. DOMAIN call = Calls /\ "cut" \in DOMAIN call[c] /\ call[c].cut \in BOOLEAN
  BY DEF IInv, Shape
<1>1. CASE \E ask \in Asks : Ask(c, ask)
  BY <1>0, <1>1 DEF Ask
<1>2. CASE Hit(c)
  BY <1>0, <1>2 DEF Hit
<1>3. CASE Miss(c)
  BY <1>0, <1>3 DEF Miss
<1>4. CASE Reply(c)
  BY <1>0, <1>4 DEF Reply
<1>5. CASE Stop(c)
  BY <1>0, <1>5 DEF Stop
<1>6. CASE \E named \in Selections : Score(c, named)
  BY <1>0, <1>6 DEF Score
<1> QED
  BY <1>1, <1>2, <1>3, <1>4, <1>5, <1>6

\* A group that is lost keeps the flag of its call.
LEMMA LostKeeps ==
    ASSUME NEW c \in Calls, "cut" \in DOMAIN call[c]
    PROVE  "cut" \in DOMAIN Lost(c) /\ Lost(c).cut = call[c].cut
BY DEF Lost

\* Steps of the caller's loop.
LEMMA LoopSteps ==
    ASSUME IInv, NEW c \in Calls,
           \/ NextGroup(c) \/ Open(c) \/ OpenFails(c) \/ GroupDone(c) \/ WindUp(c)
           \/ \E p \in Platforms : Take(c, p) \/ Break(c, p)
    PROVE  Notes(c)
<1> USE DEF Notes, Update
<1>0. /\ DOMAIN call = Calls
      /\ "cut" \in DOMAIN call[c] /\ call[c].cut \in BOOLEAN
      /\ cancelled[c] \in BOOLEAN
  BY DEF IInv, Shape
<1>a. "cut" \in DOMAIN Lost(c) /\ Lost(c).cut = call[c].cut
  BY <1>0, LostKeeps
<1>1. CASE NextGroup(c)
  BY <1>0, <1>1 DEF NextGroup
<1>2. CASE Open(c)
  BY <1>0, <1>2 DEF Open
<1>3. CASE OpenFails(c)
  <2> DEFINE new == [Lost(c) EXCEPT !.cut = @ \/ cancelled[c]]
  <2>1. call' = [call EXCEPT ![c] = new] /\ UNCHANGED cancelled /\ UNCHANGED cache
    BY <1>3 DEF OpenFails
  <2>2. "cut" \in DOMAIN new /\ new.cut = (Lost(c).cut \/ cancelled[c])
    BY <1>a
  <2> QED
    BY <1>0, <1>a, <2>1, <2>2
<1>4. CASE GroupDone(c)
  BY <1>0, <1>4 DEF GroupDone
<1>5. CASE WindUp(c)
  BY <1>0, <1>a, <1>5 DEF WindUp
<1>6. ASSUME NEW p \in Platforms, Take(c, p) PROVE Notes(c)
  BY <1>0, <1>6 DEF Take
<1>7. ASSUME NEW p \in Platforms, Break(c, p) PROVE Notes(c)
  BY <1>0, <1>7 DEF Break
<1> QED
  BY <1>1, <1>2, <1>3, <1>4, <1>5, <1>6, <1>7

\* Steps of the threads of the pool.
LEMMA ThreadSteps ==
    ASSUME IInv, NEW c \in Calls, NEW p \in Platforms,
           \/ Asking(c, p) \/ Interrupted(c, p) \/ NotAnswered(c, p)
           \/ \E items \in Answers : Answered(c, p, items)
    PROVE  Notes(c)
<1>0. /\ DOMAIN call = Calls
      /\ "cut" \in DOMAIN call[c] /\ call[c].cut \in BOOLEAN
      /\ cancelled[c] \in BOOLEAN
  BY DEF IInv, Shape
<1>1. ASSUME NEW t, NEW b \in {FALSE, cancelled[c]}, Set(c, p, t, b),
             UNCHANGED cancelled, UNCHANGED cache
      PROVE  Notes(c)
  <2> DEFINE new == [call[c] EXCEPT !.th[p] = t, !.cut = @ \/ b]
  <2>1. "cut" \in DOMAIN new /\ new.cut = (call[c].cut \/ b)
    BY <1>0
  <2>2. Update(c, new)
    BY <1>1 DEF Set
  <2> QED
    BY <1>0, <1>1, <2>1, <2>2 DEF Notes, Update
<1>2. CASE Asking(c, p)
  BY <1>1, <1>2 DEF Asking
<1>3. CASE Interrupted(c, p)
  BY <1>1, <1>3 DEF Interrupted
<1>4. CASE NotAnswered(c, p)
  BY <1>1, <1>4 DEF NotAnswered
<1>5. CASE \E items \in Answers : Answered(c, p, items)
  BY <1>1, <1>5 DEF Answered
<1> QED
  BY <1>2, <1>3, <1>4, <1>5

\* The last check is passed only by a call whose execution is not cancelled, and
\* such a call has swallowed none.
LEMMA FinishKeeps ==
    ASSUME IInv, NEW c \in Calls, Finish(c)
    PROVE  IInv'
<1> DEFINE new == [call[c] EXCEPT !.pc = "score", !.res = Results(c)]
<1>0. /\ DOMAIN call = Calls
      /\ "cut" \in DOMAIN call[c] /\ call[c].cut \in BOOLEAN
      /\ ~call[c].cut
  BY DEF IInv, Shape, CutCancelled, Finish, Clear
<1>1. "cut" \in DOMAIN new /\ new.cut = call[c].cut
  BY <1>0
<1>2. Results(c).cut = call[c].cut
  BY DEF Results
<1>3. /\ call' = [call EXCEPT ![c] = new]
      /\ cache' = [cache EXCEPT ![Key(c)] = Results(c)]
      /\ cancelled' = cancelled
  BY DEF Finish, Update
<1> HIDE DEF new
<1>4. Shape'
  BY <1>0, <1>1, <1>3 DEF IInv, Shape
<1>5. CutCancelled'
  BY <1>0, <1>1, <1>3 DEF IInv, Shape, CutCancelled
<1>6. CutNeverCached'
  BY <1>0, <1>2, <1>3 DEF IInv, Shape, CutNeverCached
<1> QED
  BY <1>4, <1>5, <1>6 DEF IInv

LEMMA StepInv == IInv /\ [Next]_vars => IInv'
<1> SUFFICES ASSUME IInv, [Next]_vars PROVE IInv'
  OBVIOUS
<1>1. ASSUME NEW c \in Calls,
             \/ \E ask \in Asks : Ask(c, ask)
             \/ Hit(c) \/ Miss(c) \/ Reply(c) \/ Stop(c)
             \/ \E named \in Selections : Score(c, named)
      PROVE  IInv'
  BY <1>1, AroundFetch, CallKept
<1>2. ASSUME NEW c \in Calls, Fetch(c) PROVE IInv'
  <2>1. CASE Finish(c)
    BY <2>1, FinishKeeps
  <2>2. CASE \/ NextGroup(c) \/ Open(c) \/ OpenFails(c) \/ GroupDone(c) \/ WindUp(c)
             \/ \E p \in Platforms : Take(c, p) \/ Break(c, p)
    BY <2>2, LoopSteps, CallKept
  <2>3. ASSUME NEW p \in Platforms,
               \/ Asking(c, p) \/ Interrupted(c, p) \/ NotAnswered(c, p)
               \/ \E items \in Answers : Answered(c, p, items)
        PROVE  IInv'
    BY <2>3, ThreadSteps, CallKept
  <2> QED
    BY <1>2, <2>1, <2>2, <2>3 DEF Fetch
<1>3. ASSUME NEW c \in Calls, Cancel(c) PROVE IInv'
  BY <1>3 DEF Cancel, IInv, Shape, CutCancelled, CutNeverCached
<1>4. ASSUME NEW k \in Keys, Expire(k) PROVE IInv'
  BY <1>4 DEF Expire, IInv, Shape, CutCancelled, CutNeverCached
<1>5. CASE UNCHANGED vars
  BY <1>5 DEF vars, IInv, Shape, CutCancelled, CutNeverCached
<1> QED
  BY <1>1, <1>2, <1>3, <1>4, <1>5 DEF Next

THEOREM Invariant == Spec => []IInv
BY InitInv, StepInv, PTL DEF Spec

\* What other accounts read from the cache was not cut short by a cancellation.
THEOREM CacheWhole == Spec => []CutNeverCached
<1>1. IInv => CutNeverCached
  BY DEF IInv
<1> QED
  BY <1>1, Invariant, PTL
==============================================================================
