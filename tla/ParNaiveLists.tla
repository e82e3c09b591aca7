---------------------------- MODULE ParNaiveLists ----------------------------
(***************************************************************************)
(* Facts about the lists of ParNaive: the list of the elements of a set,   *)
(* the elements of a list at some of its places, and what a list without   *)
(* repetitions becomes when it grows.                                      *)
(***************************************************************************)
EXTENDS ParNaive, FiniteSetTheorems, SequenceTheorems, TLAPS

Ascending(f) == \A m, n \in DOMAIN f : m < n => f[m] < f[n]

\* f lists the elements of a set in ascending order.
Lists(f, set) ==
  /\ f \in [1 .. Cardinality(set) -> set]
  /\ ToSet(f) = set
  /\ Ascending(f)

-----------------------------------------------------------------------------
(* Every set of numbers that is not empty has a least one.                 *)
LEMMA Least ==
  ASSUME NEW S \in SUBSET Nat, S # {}
  PROVE  \E x \in S : \A y \in S : x <= y
<1>1. IsWellFoundedOn(OpToRel(<, Nat), Nat)
  BY NatLessThanWellFounded
<1>2. PICK x \in S : \A y \in S : ~ (<<y, x>> \in OpToRel(<, Nat))
  BY <1>1, WFMin
<1>3. \A y \in S : ~ (y < x)
  BY <1>2 DEF OpToRel
<1> QED
  BY <1>3

(* And a greatest one, if it is bounded.                                   *)
LEMMA Greatest ==
  ASSUME NEW N \in Nat, NEW S \in SUBSET (0 .. N), S # {}
  PROVE  \E x \in S : \A y \in S : y <= x
<1> DEFINE R == {n \in 0 .. N : N - n \in S}
<1>1. PICK y \in S : TRUE
  OBVIOUS
<1>2. N - y \in R
  OBVIOUS
<1>3. \A x \in S : N - x \in R
  OBVIOUS
<1>4. PICK z \in R : \A r \in R : z <= r
  <2>1. R \in SUBSET Nat /\ R # {}
    BY <1>2
  <2> HIDE DEF R
  <2> QED
    BY <2>1, Least
<1>5. \A x \in S : z <= N - x
  BY <1>3, <1>4
<1>6. N - z \in S
  OBVIOUS
<1> QED
  BY <1>5, <1>6

(* A bounded set of numbers is finite.                                     *)
LEMMA BoundedIsFinite ==
  ASSUME NEW N \in Nat, NEW S \in SUBSET (0 .. N)
  PROVE  IsFiniteSet(S) /\ Cardinality(S) \in Nat
<1>1. IsFiniteSet(0 .. N)
  BY FS_Interval
<1>2. IsFiniteSet(S)
  BY <1>1, FS_Subset
<1> QED
  BY <1>2, FS_CardinalityType

(* Its elements can be listed in ascending order: the greatest one comes   *)
(* after a list of the others.                                             *)
LEMMA ListExists ==
  ASSUME NEW N \in Nat, NEW T \in SUBSET (0 .. N)
  PROVE  \E f : Lists(f, T)
<1> DEFINE Bad == {c \in Nat : \E S \in SUBSET (0 .. N) :
                                 Cardinality(S) = c /\ ~ \E f : Lists(f, S)}
<1>1. SUFFICES ASSUME Bad # {} PROVE FALSE
  BY BoundedIsFinite
<1>2. PICK c \in Bad : \A d \in Bad : c <= d
  BY <1>1, Least
<1>3. PICK S \in SUBSET (0 .. N) : Cardinality(S) = c /\ ~ \E f : Lists(f, S)
  BY <1>2
<1>4. IsFiniteSet(S) /\ c \in Nat
  BY <1>3, BoundedIsFinite
<1>5. CASE S = {}
  <2> DEFINE f == [n \in 1 .. 0 |-> n]
  <2>1. c = 0
    BY <1>3, <1>5, FS_EmptySet
  <2>2. f \in [1 .. c -> S] /\ ToSet(f) = S
    BY <2>1, <1>5 DEF ToSet
  <2>3. Lists(f, S)
    BY <2>2, <1>3 DEF Lists, Ascending
  <2> QED
    BY <2>3, <1>3
<1>6. CASE S # {}
  <2>1. PICK x \in S : \A y \in S : y <= x
    BY <1>6, Greatest
  <2> DEFINE R == S \ {x}
  <2>2. R \in SUBSET (0 .. N) /\ Cardinality(R) = c - 1 /\ c - 1 \in Nat
    <3>1. Cardinality(R) = c - 1
      BY <1>3, <1>4, FS_RemoveElement
    <3>2. R \in SUBSET (0 .. N)
      OBVIOUS
    <3>3. Cardinality(R) \in Nat
      BY <3>2, BoundedIsFinite
    <3> QED
      BY <3>1, <3>2, <3>3
  <2>3. c - 1 \notin Bad
    BY <1>2, <2>2
  <2>4. PICK g : Lists(g, R)
    BY <2>2, <2>3
  <2> HIDE DEF R
  <2>5. g \in [1 .. c - 1 -> R] /\ ToSet(g) = R /\ Ascending(g)
    BY <2>2, <2>4 DEF Lists
  <2> DEFINE f == [n \in 1 .. c |-> IF n = c THEN x ELSE g[n]]
  <2>6. f \in [1 .. c -> S]
    BY <2>5, <2>2 DEF R
  <2>7. ToSet(f) = S
    <3>1. f[c] = x /\ c \in DOMAIN f
      BY <2>2
    <3>2. \A n \in 1 .. c - 1 : n \in DOMAIN f /\ f[n] = g[n]
      BY <2>2
    <3>3. \A y \in R : \E n \in 1 .. c - 1 : g[n] = y
      BY <2>5 DEF ToSet
    <3>4. \A y \in S : \E n \in DOMAIN f : f[n] = y
      BY <3>1, <3>2, <3>3 DEF R
    <3> QED
      BY <3>4, <2>6 DEF ToSet
  <2>8. Ascending(f)
    <3> SUFFICES ASSUME NEW m \in 1 .. c, NEW n \in 1 .. c, m < n
                 PROVE  f[m] < f[n]
      BY DEF Ascending
    <3>1. m \in 1 .. c - 1 /\ f[m] = g[m]
      BY <2>2
    <3>2. CASE n = c
      <4>1. g[m] \in S /\ g[m] # x
        BY <3>1, <2>5 DEF R
      <4>2. f[n] = x /\ f[m] = g[m]
        BY <3>1, <3>2
      <4>3. g[m] <= x /\ g[m] \in 0 .. N /\ x \in 0 .. N
        BY <4>1, <2>1
      <4> QED
        BY <4>1, <4>2, <4>3
    <3>3. CASE n # c
      <4>1. n \in 1 .. c - 1 /\ f[n] = g[n]
        BY <3>3, <2>2
      <4> QED
        BY <4>1, <3>1, <2>5 DEF Ascending
    <3> QED
      BY <3>2, <3>3
  <2>9. Lists(f, S)
    BY <2>6, <2>7, <2>8, <1>3 DEF Lists
  <2> QED
    BY <2>9, <1>3
<1> QED
  BY <1>5, <1>6

(* ListOf finds it.                                                        *)
LEMMA ListOfLists ==
  ASSUME NEW N \in Nat, NEW S \in SUBSET (0 .. N)
  PROVE  Lists(ListOf(S), S)
<1>1. PICK f : Lists(f, S)
  BY ListExists
<1> QED
  BY <1>1 DEF Lists, Ascending, ListOf

(* In an ascending list no element comes twice.                            *)
LEMMA AscendingIsInjective ==
  ASSUME NEW N \in Nat, NEW f \in [1 .. N -> Nat], Ascending(f)
  PROVE  IsInjective(f)
<1> SUFFICES ASSUME NEW m \in 1 .. N, NEW n \in 1 .. N, f[m] = f[n], m # n
             PROVE  FALSE
  BY DEF IsInjective
<1>1. m < n \/ n < m
  OBVIOUS
<1>2. f[m] < f[n] \/ f[n] < f[m]
  BY <1>1 DEF Ascending
<1> QED
  BY <1>2

(* What the list of a set is like.                                         *)
LEMMA ListOfProperties ==
  ASSUME NEW N \in Nat, NEW S \in SUBSET (0 .. N)
  PROVE  /\ ListOf(S) \in Seq(S) /\ Len(ListOf(S)) = Cardinality(S)
         /\ DOMAIN ListOf(S) = 1 .. Cardinality(S)
         /\ ToSet(ListOf(S)) = S
         /\ IsInjective(ListOf(S))
         /\ Ascending(ListOf(S))
<1> DEFINE f == ListOf(S)
           c == Cardinality(S)
<1>1. f \in [1 .. c -> S] /\ ToSet(f) = S /\ Ascending(f)
  BY ListOfLists DEF Lists
<1>2. c \in Nat
  BY BoundedIsFinite
<1> HIDE DEF f, c
<1>3. f \in Seq(S) /\ Len(f) = c /\ DOMAIN f = 1 .. c
  BY <1>1, <1>2, SeqDef
<1>4. f \in [1 .. c -> Nat]
  <2>1. S \subseteq Nat
    OBVIOUS
  <2> QED
    BY <1>1, <2>1
<1>5. IsInjective(f)
  BY <1>1, <1>2, <1>4, AscendingIsInjective
<1> QED
  BY <1>1, <1>3, <1>5 DEF f, c

(* And it is the only such list: the first place where another one differs *)
(* would have to hold a smaller element than its own.                      *)
LEMMA ListOfUnique ==
  ASSUME NEW N \in Nat, NEW S \in SUBSET (0 .. N),
         NEW g \in Seq(S), ToSet(g) = S, Ascending(g)
  PROVE  g = ListOf(S)
<1> DEFINE f == ListOf(S)
           c == Len(g)
<1>1. c \in Nat /\ g \in [1 .. c -> S] /\ DOMAIN g = 1 .. c
  BY LenProperties
<1>2. S \subseteq Nat
  OBVIOUS
<1>3. f \in [1 .. Cardinality(S) -> S] /\ ToSet(f) = S /\ Ascending(f)
  BY ListOfLists DEF Lists
<1> HIDE DEF c, f
<1>4. IsInjective(g)
  <2>1. g \in [1 .. c -> Nat]
    BY <1>1, <1>2
  <2> QED
    BY <1>1, <2>1, AscendingIsInjective
<1>5. Cardinality(S) = c
  <2>1. \A x \in S : \E n \in 1 .. c : g[n] = x
    BY <1>1 DEF ToSet
  <2>2. g \in Bijection(1 .. c, S)
    BY <1>1, <1>4, <2>1 DEF Bijection, Injection, Surjection
  <2>3. ExistsBijection(1 .. c, S)
    BY <2>2 DEF ExistsBijection
  <2> QED
    BY <1>1, <2>3, FS_CountingElements
<1>6. f \in [1 .. c -> S] /\ DOMAIN f = 1 .. c
  BY <1>3, <1>5
<1> DEFINE Differ == {n \in 1 .. c : f[n] # g[n]}
<1>7. SUFFICES ASSUME Differ # {} PROVE FALSE
  BY <1>1, <1>6 DEF f
<1>8. PICK n \in Differ : \A m \in Differ : n <= m
  <2>1. Differ \in SUBSET Nat
    OBVIOUS
  <2> HIDE DEF Differ
  <2> QED
    BY <1>7, <2>1, Least
<1>9. n \in 1 .. c /\ f[n] # g[n] /\ f[n] \in S /\ g[n] \in S
      /\ \A m \in 1 .. c : m < n => f[m] = g[m]
  <2>1. \A m \in 1 .. c : m < n => m \notin Differ
    BY <1>8
  <2> QED
    BY <1>1, <1>6, <2>1
<1> HIDE DEF Differ
<1>10. PICK p \in 1 .. c : f[p] = g[n]
  BY <1>3, <1>6, <1>9 DEF ToSet
<1>11. PICK q \in 1 .. c : g[q] = f[n]
  BY <1>1, <1>9 DEF ToSet
<1>12. p > n
  <2>1. ~ (p < n)
    <3>1. p < n => g[p] = g[n]
      BY <1>9, <1>10
    <3> QED
      BY <3>1, <1>1, <1>4, <1>9 DEF IsInjective
  <2> QED
    BY <2>1, <1>9, <1>10
<1>13. q > n
  <2>1. ~ (q < n)
    <3>1. q < n => f[q] = f[n]
      BY <1>9, <1>11
    <3>2. q < n => f[q] < f[n]
      BY <1>3, <1>6, <1>9 DEF Ascending
    <3>3. f[n] \in Nat
      BY <1>2, <1>9
    <3> QED
      BY <3>1, <3>2, <3>3
  <2> QED
    BY <2>1, <1>9, <1>11
<1>14. f[n] < f[p] /\ g[n] < g[q]
  BY <1>1, <1>3, <1>6, <1>9, <1>12, <1>13 DEF Ascending
<1>15. f[n] \in Nat /\ g[n] \in Nat
  BY <1>2, <1>9
<1> QED
  BY <1>10, <1>11, <1>14, <1>15

-----------------------------------------------------------------------------
(* The elements of a list at some of its places.                           *)
LEMMA SelectionProperties ==
  ASSUME NEW T, NEW q \in Seq(T), NEW P \in SUBSET DOMAIN q
  PROVE  /\ Selection(q, P) \in Seq(T)
         /\ ToSet(Selection(q, P)) = {q[n] : n \in P}
         /\ IsInjective(q) => IsInjective(Selection(q, P))
         /\ Selection(q, P) = <<>> <=> P = {}
<1> DEFINE f == ListOf(P)
           c == Cardinality(P)
           w == Selection(q, P)
<1>1. Len(q) \in Nat /\ DOMAIN q = 1 .. Len(q) /\ \A n \in DOMAIN q : q[n] \in T
  BY LenProperties, ElementOfSeq
<1>2. P \in SUBSET (0 .. Len(q))
  BY <1>1
<1>3. IsFiniteSet(P) /\ c \in Nat
  BY <1>1, <1>2, BoundedIsFinite
<1>4. DOMAIN f = 1 .. c /\ ToSet(f) = P /\ IsInjective(f)
  BY <1>1, <1>2, ListOfProperties
<1>5. w = [n \in 1 .. c |-> q[f[n]]]
  BY DEF Selection
<1> HIDE DEF f, c, w
<1>6. \A n \in 1 .. c : f[n] \in P
  BY <1>4 DEF ToSet
<1>7. \A p \in P : \E n \in 1 .. c : f[n] = p
  BY <1>4 DEF ToSet
<1>8. w \in [1 .. c -> T]
  BY <1>1, <1>5, <1>6
<1>9. w \in Seq(T) /\ DOMAIN w = 1 .. c
  BY <1>3, <1>8, SeqDef
<1>10. ToSet(w) = {q[n] : n \in P}
  <2>1. ToSet(w) \subseteq {q[n] : n \in P}
    BY <1>5, <1>6 DEF ToSet
  <2>2. \A p \in P : \E n \in DOMAIN w : w[n] = q[p]
    BY <1>5, <1>7
  <2> QED
    BY <2>1, <2>2 DEF ToSet
<1>11. IsInjective(q) => IsInjective(w)
  <2> SUFFICES ASSUME IsInjective(q), NEW m \in 1 .. c, NEW n \in 1 .. c, w[m] = w[n]
               PROVE  m = n
    BY <1>9 DEF IsInjective
  <2>1. f[m] = f[n]
    BY <1>5, <1>6 DEF IsInjective
  <2> QED
    BY <2>1, <1>4 DEF IsInjective
<1>12. w = <<>> <=> P = {}
  <2>1. c = 0 <=> P = {}
    BY <1>3, FS_EmptySet DEF c
  <2>2. w = <<>> <=> c = 0
    BY <1>3, <1>9, EmptySeq, LenProperties
  <2> QED
    BY <2>1, <2>2
<1> QED
  BY <1>9, <1>10, <1>11, <1>12 DEF w

-----------------------------------------------------------------------------
(* A list without repetitions is not longer than the set it is from.       *)
LEMMA InjectiveIsShort ==
  ASSUME NEW q \in Seq(Rows), IsInjective(q)
  PROVE  Len(q) \in 0 .. iSize
<1> DEFINE c == Len(q)
<1>1. c \in Nat /\ q \in [1 .. c -> Rows]
  BY LenProperties
<1> HIDE DEF c
<1>2. q \in Injection(1 .. c, Rows)
  BY <1>1 DEF Injection
<1>3. IsFiniteSet(Rows) /\ Cardinality(Rows) = iSize
  BY FS_Interval, NaiveAssumption DEF Rows
<1>4. Cardinality(1 .. c) <= iSize
  BY <1>2, <1>3, FS_Injection
<1>5. Cardinality(1 .. c) = c
  BY <1>1, FS_Interval
<1> QED
  BY <1>1, <1>4, <1>5, NaiveAssumption DEF c

(* One more element.                                                       *)
LEMMA AppendToList ==
  ASSUME NEW T, NEW q \in Seq(T), NEW x \in T
  PROVE  /\ Append(q, x) \in Seq(T)
         /\ ToSet(Append(q, x)) = ToSet(q) \cup {x}
         /\ IsInjective(q) /\ x \notin ToSet(q) => IsInjective(Append(q, x))
         /\ T \subseteq Nat /\ Ascending(q) /\ (\A y \in ToSet(q) : y < x)
              => Ascending(Append(q, x))
<1> DEFINE c == Len(q)
           w == Append(q, x)
<1>1. c \in Nat /\ DOMAIN q = 1 .. c /\ \A n \in 1 .. c : q[n] \in T
  BY LenProperties, ElementOfSeq
<1>2. w \in Seq(T) /\ Len(w) = c + 1 /\ w[c + 1] = x
      /\ \A n \in 1 .. c : w[n] = q[n]
  BY AppendProperties
<1>3. DOMAIN w = 1 .. c + 1
  BY <1>2, LenProperties
<1> HIDE DEF c, w
<1>4. \A n \in 1 .. c + 1 : n = c + 1 \/ n \in 1 .. c
  BY <1>1
<1>5. c + 1 \in 1 .. c + 1 /\ 1 .. c \subseteq 1 .. c + 1
  BY <1>1
<1>6. \A n \in 1 .. c : q[n] \in ToSet(q)
  BY <1>1 DEF ToSet
<1>7. ToSet(w) = ToSet(q) \cup {x}
  <2>1. ToSet(w) \subseteq ToSet(q) \cup {x}
    BY <1>2, <1>3, <1>4, <1>6 DEF ToSet
  <2>2. x \in ToSet(w)
    BY <1>2, <1>3, <1>5 DEF ToSet
  <2>3. ToSet(q) \subseteq ToSet(w)
    BY <1>1, <1>2, <1>3, <1>5 DEF ToSet
  <2> QED
    BY <2>1, <2>2, <2>3
<1>8. ASSUME IsInjective(q), x \notin ToSet(q) PROVE IsInjective(w)
  <2> SUFFICES ASSUME NEW m \in 1 .. c + 1, NEW n \in 1 .. c + 1, w[m] = w[n]
               PROVE  m = n
    BY <1>3 DEF IsInjective
  <2>1. m = c + 1 <=> n = c + 1
    BY <1>2, <1>4, <1>6, <1>8
  <2>2. ASSUME m \in 1 .. c, n \in 1 .. c PROVE m = n
    <3>1. q[m] = q[n]
      BY <1>2, <2>2
    <3> QED
      BY <3>1, <1>1, <1>8, <2>2 DEF IsInjective
  <2> QED
    BY <2>1, <2>2, <1>4
<1>9. ASSUME T \subseteq Nat, Ascending(q), \A y \in ToSet(q) : y < x
      PROVE  Ascending(w)
  <2> SUFFICES ASSUME NEW m \in 1 .. c + 1, NEW n \in 1 .. c + 1, m < n
               PROVE  w[m] < w[n]
    BY <1>3 DEF Ascending
  <2>1. m \in 1 .. c
    BY <1>1
  <2>2. CASE n = c + 1
    <3>1. w[m] = q[m] /\ w[n] = x /\ q[m] \in ToSet(q)
      BY <2>1, <2>2, <1>2, <1>6
    <3> QED
      BY <3>1, <1>9
  <2>3. CASE n \in 1 .. c
    <3>1. q[m] < q[n]
      BY <1>1, <1>9, <2>1, <2>3 DEF Ascending
    <3> QED
      BY <3>1, <2>1, <2>3, <1>2
  <2> QED
    BY <2>2, <2>3, <1>4
<1> QED
  BY <1>2, <1>7, <1>8, <1>9 DEF w

(* One list after another that shares no element with it.                  *)
LEMMA ConcatOfLists ==
  ASSUME NEW T, NEW p \in Seq(T), NEW q \in Seq(T)
  PROVE  /\ p \o q \in Seq(T)
         /\ ToSet(p \o q) = ToSet(p) \cup ToSet(q)
         /\ IsInjective(p) /\ IsInjective(q) /\ ToSet(p) \cap ToSet(q) = {}
              => IsInjective(p \o q)
<1> DEFINE c == Len(p)
           d == Len(q)
           w == p \o q
<1>1. c \in Nat /\ DOMAIN p = 1 .. c /\ d \in Nat /\ DOMAIN q = 1 .. d
  BY LenProperties
<1>2. w \in Seq(T) /\ Len(w) = c + d
      /\ \A n \in 1 .. c + d : w[n] = IF n <= c THEN p[n] ELSE q[n - c]
  BY ConcatProperties
<1>3. DOMAIN w = 1 .. c + d
  BY <1>2, LenProperties
<1> HIDE DEF c, d, w
<1>4. \A n \in 1 .. c + d : \/ n \in 1 .. c /\ w[n] = p[n] /\ p[n] \in ToSet(p)
                            \/ n - c \in 1 .. d /\ n > c /\ w[n] = q[n - c]
                               /\ q[n - c] \in ToSet(q)
  <2> SUFFICES ASSUME NEW n \in 1 .. c + d
               PROVE  \/ n \in 1 .. c /\ w[n] = p[n] /\ p[n] \in ToSet(p)
                      \/ n - c \in 1 .. d /\ n > c /\ w[n] = q[n - c]
                         /\ q[n - c] \in ToSet(q)
    OBVIOUS
  <2>1. CASE n <= c
    <3>1. n \in 1 .. c
      BY <2>1, <1>1
    <3> QED
      BY <3>1, <2>1, <1>1, <1>2 DEF ToSet
  <2>2. CASE n > c
    <3>1. n - c \in 1 .. d /\ ~ (n <= c)
      BY <2>2, <1>1
    <3> QED
      BY <3>1, <2>2, <1>1, <1>2 DEF ToSet
  <2> QED
    BY <2>1, <2>2, <1>1
<1>5. \A n \in 1 .. c : n \in 1 .. c + d /\ w[n] = p[n]
  <2> SUFFICES ASSUME NEW n \in 1 .. c PROVE n \in 1 .. c + d /\ w[n] = p[n]
    OBVIOUS
  <2>1. n \in 1 .. c + d /\ n <= c
    BY <1>1
  <2> QED
    BY <2>1, <1>2
<1>6. \A n \in 1 .. d : n + c \in 1 .. c + d /\ w[n + c] = q[n]
  <2> SUFFICES ASSUME NEW n \in 1 .. d PROVE n + c \in 1 .. c + d /\ w[n + c] = q[n]
    OBVIOUS
  <2>1. n + c \in 1 .. c + d /\ ~ (n + c <= c) /\ (n + c) - c = n
    BY <1>1
  <2> QED
    BY <2>1, <1>2
<1>7. ToSet(w) = ToSet(p) \cup ToSet(q)
  <2>1. ToSet(w) \subseteq ToSet(p) \cup ToSet(q)
    <3> SUFFICES ASSUME NEW n \in 1 .. c + d PROVE w[n] \in ToSet(p) \cup ToSet(q)
      BY <1>3 DEF ToSet
    <3> QED
      BY <1>4
  <2>2. ToSet(p) \subseteq ToSet(w)
    <3> SUFFICES ASSUME NEW n \in 1 .. c PROVE p[n] \in ToSet(w)
      BY <1>1 DEF ToSet
    <3> QED
      BY <1>3, <1>5 DEF ToSet
  <2>3. ToSet(q) \subseteq ToSet(w)
    <3> SUFFICES ASSUME NEW n \in 1 .. d PROVE q[n] \in ToSet(w)
      BY <1>1 DEF ToSet
    <3> QED
      BY <1>3, <1>6 DEF ToSet
  <2> QED
    BY <2>1, <2>2, <2>3
<1>8. ASSUME IsInjective(p), IsInjective(q), ToSet(p) \cap ToSet(q) = {}
      PROVE  IsInjective(w)
  <2> SUFFICES ASSUME NEW m \in 1 .. c + d, NEW n \in 1 .. c + d, w[m] = w[n]
               PROVE  m = n
    BY <1>3 DEF IsInjective
  <2>1. CASE m \in 1 .. c /\ n \in 1 .. c
    <3>1. p[m] = p[n]
      BY <2>1, <1>5
    <3> QED
      BY <3>1, <2>1, <1>1, <1>8 DEF IsInjective
  <2>2. CASE m - c \in 1 .. d /\ n - c \in 1 .. d /\ m > c /\ n > c
    <3>1. q[m - c] = q[n - c]
      BY <2>2, <1>1, <1>4
    <3>2. m - c = n - c
      BY <3>1, <2>2, <1>1, <1>8 DEF IsInjective
    <3> QED
      BY <3>2, <1>1
  <2> QED
    BY <2>1, <2>2, <1>4, <1>8
<1> QED
  BY <1>2, <1>7, <1>8 DEF w

(* Without its head.                                                       *)
LEMMA TailOfList ==
  ASSUME NEW T, NEW q \in Seq(T), q # <<>>
  PROVE  /\ Head(q) \in T /\ Tail(q) \in Seq(T)
         /\ Len(q) = 1 <=> Tail(q) = <<>>
         /\ ToSet(q) = {Head(q)} \cup ToSet(Tail(q))
         /\ IsInjective(q) => IsInjective(Tail(q)) /\ Head(q) \notin ToSet(Tail(q))
<1> DEFINE c == Len(q)
           w == Tail(q)
<1>1. c \in Nat /\ c # 0 /\ DOMAIN q = 1 .. c /\ q[1] \in T
  BY LenProperties, ElementOfSeq, EmptySeq
<1>2. Head(q) = q[1] /\ w \in Seq(T) /\ Len(w) = c - 1
      /\ \A n \in 1 .. c - 1 : w[n] = q[n + 1]
  BY HeadTailProperties
<1>3. DOMAIN w = 1 .. c - 1
  BY <1>2, LenProperties
<1>4. c = 1 <=> w = <<>>
  BY <1>1, <1>2, EmptySeq
<1> HIDE DEF c, w
<1>5. \A n \in 1 .. c - 1 : n + 1 \in 1 .. c
  BY <1>1
<1>6. 1 \in 1 .. c /\ \A n \in 1 .. c : n = 1 \/ (n - 1 \in 1 .. c - 1 /\ (n - 1) + 1 = n)
  BY <1>1
<1>7. ToSet(q) = {q[1]} \cup ToSet(w)
  <2>1. ToSet(w) \subseteq ToSet(q)
    BY <1>1, <1>2, <1>3, <1>5 DEF ToSet
  <2>2. \A n \in 1 .. c : n = 1 \/ q[n] \in ToSet(w)
    <3> SUFFICES ASSUME NEW n \in 1 .. c, n # 1 PROVE q[n] \in ToSet(w)
      OBVIOUS
    <3>1. n - 1 \in DOMAIN w /\ w[n - 1] = q[n]
      BY <1>2, <1>3, <1>6
    <3> QED
      BY <3>1 DEF ToSet
  <2> QED
    BY <1>1, <1>6, <2>1, <2>2 DEF ToSet
<1>8. ASSUME IsInjective(q) PROVE IsInjective(w) /\ q[1] \notin ToSet(w)
  <2>1. \A m, n \in 1 .. c - 1 : w[m] = w[n] => m = n
    <3> SUFFICES ASSUME NEW m \in 1 .. c - 1, NEW n \in 1 .. c - 1, w[m] = w[n]
                 PROVE  m = n
      OBVIOUS
    <3>1. q[m + 1] = q[n + 1] /\ m + 1 \in 1 .. c /\ n + 1 \in 1 .. c
      BY <1>2, <1>5
    <3>2. m + 1 = n + 1
      BY <3>1, <1>1, <1>8 DEF IsInjective
    <3> QED
      BY <3>2
  <2>2. \A n \in 1 .. c - 1 : w[n] # q[1]
    <3> SUFFICES ASSUME NEW n \in 1 .. c - 1, w[n] = q[1] PROVE FALSE
      OBVIOUS
    <3>1. q[n + 1] = q[1] /\ n + 1 \in 1 .. c
      BY <1>2, <1>5
    <3>2. n + 1 = 1
      BY <3>1, <1>1, <1>6, <1>8 DEF IsInjective
    <3> QED
      BY <3>2
  <2> QED
    BY <2>1, <2>2, <1>3 DEF IsInjective, ToSet
<1> QED
  BY <1>1, <1>2, <1>4, <1>7, <1>8 DEF c, w
=============================================================================
