----------------------------- MODULE SliceLemmas ----------------------------
(***************************************************************************)
(* What a loop that appends some entries of a slice makes of it: the list  *)
(* of these entries in their order (Picks), which is the only one of its   *)
(* kind (PicksUnique).                                                     *)
(*                                                                         *)
(* Then facts about places in lists, about loops written as functions from *)
(* the number of their turns to their variables, and about quotients.      *)
(*                                                                         *)
(* Induction is stated with the property as the set of numbers that have   *)
(* it: the library's theorems take it as an operator, which no prover here *)
(* can instantiate, but a set is an ordinary value.                        *)
(***************************************************************************)
EXTENDS Slices, SequencesExt, TLAPS, SequenceTheorems, FiniteSetTheorems, WellFoundedInduction

-----------------------------------------------------------------------------
(* Induction over the natural numbers, with the property as a set *)

LEMMA Least ==
  ASSUME NEW T, T \subseteq Nat, T # {}
  PROVE  \E x \in T : \A y \in T : x <= y
<1> DEFINE R == OpToRel(<, Nat)
<1>1. \A x, y \in Nat : y < x => <<y, x>> \in R
  BY DEF OpToRel
<1> HIDE DEF R
<1>2. PICK x \in T : \A y \in T : <<y, x>> \notin R
  <2>1. IsWellFoundedOn(R, Nat)
    BY NatLessThanWellFounded DEF R
  <2> QED
    BY <2>1, WFMin
<1>3. \A y \in T : ~(y < x)
  BY <1>1, <1>2
<1> QED
  BY <1>2, <1>3

LEMMA Induction ==
  ASSUME NEW T, 0 \in T, \A k \in Nat : k \in T => k + 1 \in T
  PROVE  Nat \subseteq T
<1> SUFFICES ASSUME NEW n \in Nat, n \notin T PROVE FALSE
  OBVIOUS
<1>1. PICK x \in Nat \ T : \A y \in Nat \ T : x <= y
  <2>1. Nat \ T \subseteq Nat /\ Nat \ T # {}
    OBVIOUS
  <2> QED
    BY <2>1, Least
<1>2. x # 0 /\ x - 1 \in Nat
  BY <1>1
<1>3. x - 1 \in T
  BY <1>1, <1>2
<1> QED
  BY <1>1, <1>2, <1>3

-----------------------------------------------------------------------------
(* The loop of Picked *)

\* The list after each of the first n turns.
UpTo(list, I, n) ==
  CHOOSE f : f = [m \in 0..n |->
                   IF m = 0 THEN <<>>
                   ELSE IF m \in I THEN Append(f[m - 1], list[m]) ELSE f[m - 1]]

LEMMA UpToDef ==
  ASSUME NEW list, NEW I, NEW n \in Nat
  PROVE  UpTo(list, I, n) = [m \in 0..n |->
           IF m = 0 THEN <<>>
           ELSE IF m \in I THEN Append(UpTo(list, I, n)[m - 1], list[m])
                ELSE UpTo(list, I, n)[m - 1]]
<1> DEFINE Loop(f, k) ==
      f = [m \in 0..k |->
            IF m = 0 THEN <<>>
            ELSE IF m \in I THEN Append(f[m - 1], list[m]) ELSE f[m - 1]]
           T == {k \in Nat : \E f : Loop(f, k)}
<1>1. 0 \in T
  <2>1. Loop([m \in 0..0 |-> <<>>], 0)
    OBVIOUS
  <2> HIDE DEF Loop
  <2> QED
    BY <2>1
<1>2. ASSUME NEW k \in Nat, k \in T PROVE k + 1 \in T
  <2>1. PICK f : Loop(f, k)
    BY <1>2
  <2> DEFINE next == IF k + 1 \in I THEN Append(f[k], list[k + 1]) ELSE f[k]
             g == [m \in 0..(k + 1) |-> IF m = k + 1 THEN next ELSE f[m]]
  <2>2. ASSUME NEW m \in 0..(k + 1)
        PROVE  g[m] = IF m = 0 THEN <<>>
                      ELSE IF m \in I THEN Append(g[m - 1], list[m]) ELSE g[m - 1]
    <3>1. CASE m = k + 1
      BY <3>1
    <3>2. CASE m # k + 1
      <4>1. m \in 0..k /\ g[m] = f[m] /\ (m # 0 => g[m - 1] = f[m - 1])
        BY <3>2
      <4> QED
        BY <2>1, <4>1
    <3> QED
      BY <3>1, <3>2
  <2>3. Loop(g, k + 1)
    <3> HIDE DEF next
    <3>1. DOMAIN g = 0..(k + 1) /\ g = [m \in 0..(k + 1) |-> g[m]]
      OBVIOUS
    <3> HIDE DEF g
    <3> QED
      BY <2>2, <3>1
  <2> HIDE DEF Loop, g
  <2> QED
    BY <2>3
<1>3. \E f : Loop(f, n)
  <2> HIDE DEF Loop
  <2>1. Nat \subseteq T
    <3> HIDE DEF T
    <3> QED
      BY <1>1, <1>2, Induction
  <2> QED
    BY <2>1
<1> QED
  BY <1>3 DEF UpTo

\* Picked is the list after the last turn.
LEMMA PickedIsUpTo ==
  ASSUME NEW S, NEW list \in Seq(S), NEW I
  PROVE  Picked(list, I) = UpTo(list, I, Len(list))[Len(list)]
  BY DEF Picked, UpTo

-----------------------------------------------------------------------------
(* Enumerations *)

\* e lists the numbers of I in increasing order, and there are n of them.
Enumerates(e, n, I) ==
  /\ n \in Nat
  /\ e \in [1..n -> I]
  /\ \A j, k \in 1..n : j < k => e[j] < e[k]
  /\ \A i \in I : \E k \in 1..n : e[k] = i

\* t has the entries of list at the places I, in order.
Picks(t, list, I) ==
  \E e : Enumerates(e, Len(t), I) /\ \A k \in 1..Len(t) : t[k] = list[e[k]]

LEMMA EnumerationExtended ==
  ASSUME NEW e, NEW n, NEW I, Enumerates(e, n, I), I \subseteq Int,
         NEW x \in Int, \A i \in I : i < x
  PROVE  Enumerates([k \in 1..(n + 1) |-> IF k = n + 1 THEN x ELSE e[k]], n + 1, I \cup {x})
<1> DEFINE g == [k \in 1..(n + 1) |-> IF k = n + 1 THEN x ELSE e[k]]
<1> USE DEF Enumerates
<1>1. g \in [1..(n + 1) -> I \cup {x}]
  OBVIOUS
<1>2. ASSUME NEW j \in 1..(n + 1), NEW k \in 1..(n + 1), j < k PROVE g[j] < g[k]
  <2>1. j \in 1..n /\ g[j] = e[j] /\ e[j] \in I
    BY <1>2
  <2>2. CASE k = n + 1
    BY <2>1, <2>2
  <2>3. CASE k # n + 1
    <3>1. k \in 1..n /\ g[k] = e[k]
      BY <1>2, <2>3
    <3> QED
      BY <1>2, <2>1, <3>1
  <2> QED
    BY <2>2, <2>3
<1>3. \A i \in I \cup {x} : \E k \in 1..(n + 1) : g[k] = i
  <2>1. g[n + 1] = x /\ n + 1 \in 1..(n + 1)
    OBVIOUS
  <2>2. \A i \in I : \E k \in 1..(n + 1) : g[k] = i
    <3> TAKE i \in I
    <3>1. PICK k \in 1..n : e[k] = i
      OBVIOUS
    <3>2. k \in 1..(n + 1) /\ g[k] = i
      BY <3>1
    <3> QED
      BY <3>2
  <2> HIDE DEF g
  <2> QED
    BY <2>1, <2>2
<1> HIDE DEF g
<1>4. n + 1 \in Nat
  OBVIOUS
<1>5. Enumerates(g, n + 1, I \cup {x})
  BY <1>1, <1>2, <1>3, <1>4
<1> QED
  BY <1>5 DEF g

\* There is one way only to list a set of numbers in increasing order.
LEMMA EnumerationUnique ==
  ASSUME NEW I, I \subseteq Int, NEW d, NEW m, Enumerates(d, m, I),
         NEW e, NEW n, Enumerates(e, n, I)
  PROVE  m = n /\ d = e
<1>1. m \in Nat /\ n \in Nat
  BY DEF Enumerates
<1>2. /\ \A k \in 1..m : d[k] \in I /\ d[k] \in Int
      /\ \A k \in 1..n : e[k] \in I /\ e[k] \in Int
  BY DEF Enumerates
<1>3. \A i \in I : (\E k \in 1..m : d[k] = i) /\ (\E k \in 1..n : e[k] = i)
  BY DEF Enumerates
<1>4. \A j, k \in 1..m : j < k => d[j] < d[k]
  BY DEF Enumerates
<1>5. \A j, k \in 1..n : j < k => e[j] < e[k]
  BY DEF Enumerates
<1>6. ASSUME NEW k \in 1..m, k \in 1..n, \A j \in 1..(k - 1) : d[j] = e[j]
      PROVE  d[k] = e[k]
  <2>1. PICK p \in 1..n : e[p] = d[k]
    BY <1>2, <1>3
  <2>2. PICK q \in 1..m : d[q] = e[k]
    BY <1>2, <1>3, <1>6
  <2>3. p >= k
    <3> SUFFICES ASSUME p < k PROVE FALSE
      BY <1>1
    <3>1. p \in 1..(k - 1) /\ p \in 1..m
      BY <1>1
    <3>2. d[p] = d[k] /\ d[p] < d[k]
      BY <1>4, <1>6, <2>1, <3>1
    <3> QED
      BY <1>2, <3>1, <3>2
  <2>4. q >= k
    <3> SUFFICES ASSUME q < k PROVE FALSE
      BY <1>1
    <3>1. q \in 1..(k - 1) /\ q \in 1..n
      BY <1>1, <1>6
    <3>2. e[q] = e[k] /\ e[q] < e[k]
      BY <1>5, <1>6, <2>2, <3>1
    <3> QED
      BY <1>2, <3>1, <3>2
  <2>5. (p = k \/ e[k] < e[p]) /\ (q = k \/ d[k] < d[q])
    BY <1>1, <1>4, <1>5, <1>6, <2>3, <2>4
  <2>6. d[k] \in Int /\ e[k] \in Int
    BY <1>2, <1>6
  <2> QED
    BY <2>1, <2>2, <2>5, <2>6
<1>7. \A k \in Nat : k \in 1..m /\ k \in 1..n => d[k] = e[k]
  <2> SUFFICES ASSUME NEW x \in Nat, x \in 1..m, x \in 1..n, d[x] # e[x] PROVE FALSE
    OBVIOUS
  <2> DEFINE T == {k \in Nat : k \in 1..m /\ k \in 1..n /\ d[k] # e[k]}
  <2>1. T \subseteq Nat /\ T # {}
    OBVIOUS
  <2>2. PICK k \in T : \A j \in T : k <= j
    <3> HIDE DEF T
    <3> QED
      BY <2>1, Least
  <2>3. ASSUME NEW j \in 1..(k - 1) PROVE d[j] = e[j]
    <3>1. j \in Nat /\ j \in 1..m /\ j \in 1..n /\ ~(k <= j)
      BY <1>1
    <3> QED
      BY <2>2, <3>1
  <2> QED
    BY <1>6, <2>2, <2>3
<1>8. ~(m < n)
  <2> SUFFICES ASSUME m < n PROVE FALSE
    OBVIOUS
  <2>1. n \in 1..n
    BY <1>1
  <2>2. PICK k \in 1..m : d[k] = e[n]
    BY <1>2, <1>3, <2>1
  <2>3. k \in 1..n /\ k < n /\ k \in Nat
    BY <1>1
  <2>4. e[k] = e[n] /\ e[k] < e[n]
    BY <1>5, <1>7, <2>1, <2>2, <2>3
  <2> QED
    BY <1>2, <2>1, <2>4
<1>9. ~(n < m)
  <2> SUFFICES ASSUME n < m PROVE FALSE
    OBVIOUS
  <2>1. m \in 1..m
    BY <1>1
  <2>2. PICK k \in 1..n : e[k] = d[m]
    BY <1>2, <1>3, <2>1
  <2>3. k \in 1..m /\ k < m /\ k \in Nat
    BY <1>1
  <2>4. d[k] = d[m] /\ d[k] < d[m]
    BY <1>4, <1>7, <2>1, <2>2, <2>3
  <2> QED
    BY <1>2, <2>1, <2>4
<1>10. m = n
  BY <1>1, <1>8, <1>9
<1>11. \A k \in 1..n : d[k] = e[k]
  BY <1>1, <1>7, <1>10
<1> QED
  BY <1>10, <1>11 DEF Enumerates

-----------------------------------------------------------------------------
(* What is picked *)

LEMMA UpToPicks ==
  ASSUME NEW S, NEW list \in Seq(S), NEW I, NEW n \in 0..Len(list)
  PROVE  LET t == UpTo(list, I, Len(list))[n]
         IN  t \in Seq(S) /\ Picks(t, list, I \cap (1..n))
<1> DEFINE f == UpTo(list, I, Len(list))
           T == {m \in Nat : m <= Len(list) =>
                   f[m] \in Seq(S) /\ Picks(f[m], list, I \cap (1..m))}
<1>1. /\ f[0] = <<>>
      /\ \A m \in 1..Len(list) : f[m] = IF m \in I THEN Append(f[m - 1], list[m]) ELSE f[m - 1]
  <2>1. Len(list) \in Nat
    OBVIOUS
  <2> HIDE DEF f
  <2>2. f = [m \in 0..Len(list) |->
              IF m = 0 THEN <<>>
              ELSE IF m \in I THEN Append(f[m - 1], list[m]) ELSE f[m - 1]]
    BY <2>1, UpToDef DEF f
  <2>3. f[0] = <<>>
    BY <2>1, <2>2
  <2>4. ASSUME NEW m \in 1..Len(list)
        PROVE  f[m] = IF m \in I THEN Append(f[m - 1], list[m]) ELSE f[m - 1]
    <3>1. m \in 0..Len(list) /\ m # 0
      BY <2>1
    <3> QED
      BY <2>2, <3>1
  <2> QED
    BY <2>3, <2>4
<1> HIDE DEF f
<1>2. 0 \in T
  <2>1. Enumerates(<<>>, 0, {}) /\ Len(<<>>) = 0 /\ I \cap (1..0) = {}
    BY DEF Enumerates
  <2>2. Picks(<<>>, list, I \cap (1..0))
    BY <2>1 DEF Picks
  <2>3. <<>> \in Seq(S)
    OBVIOUS
  <2> QED
    BY <1>1, <2>2, <2>3
<1>3. ASSUME NEW m \in Nat, m \in T PROVE m + 1 \in T
  <2> SUFFICES ASSUME m + 1 <= Len(list)
               PROVE  f[m + 1] \in Seq(S) /\ Picks(f[m + 1], list, I \cap (1..(m + 1)))
    OBVIOUS
  <2>1. m + 1 \in 1..Len(list) /\ m <= Len(list) /\ (m + 1) - 1 = m
    OBVIOUS
  <2>2. f[m] \in Seq(S)
    BY <1>3, <2>1
  <2>3. PICK e : /\ Enumerates(e, Len(f[m]), I \cap (1..m))
                 /\ \A k \in 1..Len(f[m]) : f[m][k] = list[e[k]]
    BY <1>3, <2>1 DEF Picks
  <2>4. CASE m + 1 \in I
    <3>1. f[m + 1] = Append(f[m], list[m + 1])
      BY <1>1, <2>1, <2>4
    <3>2. list[m + 1] \in S
      BY <2>1
    <3>3. /\ f[m + 1] \in Seq(S)
          /\ Len(f[m + 1]) = Len(f[m]) + 1
          /\ \A k \in 1..Len(f[m]) : f[m + 1][k] = f[m][k]
          /\ f[m + 1][Len(f[m]) + 1] = list[m + 1]
      BY <2>2, <3>1, <3>2, AppendProperties
    <3> DEFINE n1 == Len(f[m])
               g == [k \in 1..(n1 + 1) |-> IF k = n1 + 1 THEN m + 1 ELSE e[k]]
    <3>4. I \cap (1..(m + 1)) = (I \cap (1..m)) \cup {m + 1}
      BY <2>4
    <3>5. Enumerates(g, n1 + 1, (I \cap (1..m)) \cup {m + 1})
      <4>1. Enumerates(e, n1, I \cap (1..m))
        BY <2>3
      <4>2. I \cap (1..m) \subseteq Int /\ m + 1 \in Int /\ \A i \in I \cap (1..m) : i < m + 1
        OBVIOUS
      <4> HIDE DEF n1
      <4> QED
        BY <4>1, <4>2, EnumerationExtended
    <3>6. \A k \in 1..(n1 + 1) : f[m + 1][k] = list[g[k]]
      <4>1. n1 \in Nat
        BY <2>2
      <4>2. \A k \in 1..n1 : f[m + 1][k] = list[e[k]]
        BY <2>3, <3>3
      <4>3. f[m + 1][n1 + 1] = list[m + 1]
        BY <3>3
      <4> HIDE DEF n1
      <4> QED
        BY <4>1, <4>2, <4>3
    <3> HIDE DEF g
    <3>7. Picks(f[m + 1], list, I \cap (1..(m + 1)))
      BY <3>3, <3>4, <3>5, <3>6 DEF Picks
    <3> QED
      BY <3>3, <3>7
  <2>5. CASE m + 1 \notin I
    <3>1. f[m + 1] = f[m]
      BY <1>1, <2>1, <2>5
    <3>2. I \cap (1..(m + 1)) = I \cap (1..m)
      BY <2>5
    <3> QED
      BY <2>2, <2>3, <3>1, <3>2 DEF Picks
  <2> QED
    BY <2>4, <2>5
<1>4. Nat \subseteq T
  <2> HIDE DEF T
  <2> QED
    BY <1>2, <1>3, Induction
<1>5. f[n] \in Seq(S) /\ Picks(f[n], list, I \cap (1..n))
  <2>1. n \in Nat /\ n <= Len(list)
    OBVIOUS
  <2>2. n \in T
    BY <1>4, <2>1
  <2> QED
    BY <2>1, <2>2
<1> QED
  BY <1>5 DEF f

\* The entries at the places I, in order.
LEMMA PickedPicks ==
  ASSUME NEW S, NEW list \in Seq(S), NEW I \in SUBSET DOMAIN list
  PROVE  Picked(list, I) \in Seq(S) /\ Picks(Picked(list, I), list, I)
<1>1. Len(list) \in 0..Len(list) /\ I \cap (1..Len(list)) = I
  OBVIOUS
<1> DEFINE n == Len(list)
<1>2. UpTo(list, I, n)[n] \in Seq(S) /\ Picks(UpTo(list, I, n)[n], list, I \cap (1..n))
  <2>1. n \in 0..Len(list)
    OBVIOUS
  <2> QED
    BY <2>1, UpToPicks
<1> QED
  BY <1>1, <1>2, PickedIsUpTo

-----------------------------------------------------------------------------
(* Working with Picks *)

\* Only one list has the entries at the places I, in order.
LEMMA PicksUnique ==
  ASSUME NEW S, NEW t \in Seq(S), NEW u \in Seq(S), NEW list, NEW I, I \subseteq Int,
         Picks(t, list, I), Picks(u, list, I)
  PROVE  t = u
<1>1. PICK d : Enumerates(d, Len(t), I) /\ \A k \in 1..Len(t) : t[k] = list[d[k]]
  BY DEF Picks
<1>2. PICK e : Enumerates(e, Len(u), I) /\ \A k \in 1..Len(u) : u[k] = list[e[k]]
  BY DEF Picks
<1>3. Len(t) = Len(u) /\ d = e
  BY <1>1, <1>2, EnumerationUnique
<1>4. \A k \in 1..Len(u) : t[k] = u[k]
  BY <1>1, <1>2, <1>3
<1> QED
  BY <1>3, <1>4, SeqEqual

\* Entries that moved without overtaking one another.
LEMMA PicksMoved ==
  ASSUME NEW t, NEW list, NEW I, Picks(t, list, I),
         NEW other, NEW J, NEW h \in [I -> J],
         \A i, j \in I : i < j => h[i] < h[j],
         \A j \in J : \E i \in I : h[i] = j,
         \A i \in I : other[h[i]] = list[i]
  PROVE  Picks(t, other, J)
<1>1. PICK e : Enumerates(e, Len(t), I) /\ \A k \in 1..Len(t) : t[k] = list[e[k]]
  BY DEF Picks
<1> DEFINE n == Len(t)
           g == [k \in 1..n |-> h[e[k]]]
<1>2. n \in Nat /\ \A k \in 1..n : e[k] \in I
  BY <1>1 DEF Enumerates
<1>3. g \in [1..n -> J]
  BY <1>2
<1>4. \A j, k \in 1..n : j < k => g[j] < g[k]
  <2>1. \A j, k \in 1..n : j < k => e[j] < e[k]
    BY <1>1 DEF Enumerates
  <2> QED
    BY <1>2, <2>1
<1>5. \A j \in J : \E k \in 1..n : g[k] = j
  <2> TAKE j \in J
  <2>1. PICK i \in I : h[i] = j
    OBVIOUS
  <2>2. PICK k \in 1..n : e[k] = i
    BY <1>1 DEF Enumerates
  <2> QED
    BY <2>1, <2>2
<1>6. \A k \in 1..n : t[k] = other[g[k]]
  BY <1>1, <1>2
<1> HIDE DEF g
<1>7. Enumerates(g, n, J)
  BY <1>2, <1>3, <1>4, <1>5 DEF Enumerates
<1> QED
  BY <1>6, <1>7 DEF Picks

\* The same entries at the same places.
LEMMA PicksSame ==
  ASSUME NEW t, NEW list, NEW I, I \subseteq Int, Picks(t, list, I),
         NEW other, \A i \in I : other[i] = list[i]
  PROVE  Picks(t, other, I)
<1>1. PICK e : Enumerates(e, Len(t), I) /\ \A k \in 1..Len(t) : t[k] = list[e[k]]
  BY DEF Picks
<1>2. \A k \in 1..Len(t) : t[k] = other[e[k]]
  BY <1>1 DEF Enumerates
<1> QED
  BY <1>1, <1>2 DEF Picks

\* One entry.
LEMMA PicksOne ==
  ASSUME NEW list, NEW i \in Int
  PROVE  Picks(<<list[i]>>, list, {i})
<1> DEFINE e == [k \in 1..1 |-> i]
<1>1. Enumerates(e, 1, {i})
  <2>1. \A k \in 1..1 : k = 1
    OBVIOUS
  <2> QED
    BY <2>1 DEF Enumerates
<1>2. Len(<<list[i]>>) = 1 /\ \A k \in 1..1 : <<list[i]>>[k] = list[e[k]]
  OBVIOUS
<1> HIDE DEF e
<1> QED
  BY <1>1, <1>2 DEF Picks

\* The entries of one part of the list, then those of a later part.
LEMMA PicksConcat ==
  ASSUME NEW S, NEW t \in Seq(S), NEW u \in Seq(S), NEW list,
         NEW I, NEW J, I \subseteq Int, J \subseteq Int, \A i \in I, j \in J : i < j,
         Picks(t, list, I), Picks(u, list, J)
  PROVE  Picks(t \o u, list, I \cup J)
<1>1. PICK d : Enumerates(d, Len(t), I) /\ \A k \in 1..Len(t) : t[k] = list[d[k]]
  BY DEF Picks
<1>2. PICK e : Enumerates(e, Len(u), J) /\ \A k \in 1..Len(u) : u[k] = list[e[k]]
  BY DEF Picks
<1> DEFINE m == Len(t)
           n == Len(u)
           g == [k \in 1..(m + n) |-> IF k <= m THEN d[k] ELSE e[k - m]]
<1>3. m \in Nat /\ n \in Nat
  OBVIOUS
<1>4. /\ \A k \in 1..m : d[k] \in I /\ d[k] \in Int
      /\ \A k \in 1..n : e[k] \in J /\ e[k] \in Int
      /\ \A j, k \in 1..m : j < k => d[j] < d[k]
      /\ \A j, k \in 1..n : j < k => e[j] < e[k]
      /\ \A i \in I : \E k \in 1..m : d[k] = i
      /\ \A i \in J : \E k \in 1..n : e[k] = i
  BY <1>1, <1>2 DEF Enumerates
<1>5. /\ t \o u \in Seq(S) /\ Len(t \o u) = m + n
      /\ \A k \in 1..(m + n) : (t \o u)[k] = IF k <= m THEN t[k] ELSE u[k - m]
  BY ConcatProperties
<1> HIDE DEF m, n
<1>6. /\ \A k \in 1..m : k \in 1..(m + n) /\ g[k] = d[k]
      /\ \A k \in 1..n : k + m \in 1..(m + n) /\ g[k + m] = e[k]
  BY <1>3
<1>7. \A k \in 1..(m + n) : k \in 1..m \/ (k > m /\ k - m \in 1..n /\ g[k] = e[k - m])
  BY <1>3
<1> HIDE DEF g
<1>8. g \in [1..(m + n) -> I \cup J]
  <2>1. \A k \in 1..(m + n) : g[k] \in I \cup J
    BY <1>4, <1>6, <1>7
  <2> QED
    BY <2>1 DEF g
<1>9. ASSUME NEW j \in 1..(m + n), NEW k \in 1..(m + n), j < k PROVE g[j] < g[k]
  <2>1. CASE k \in 1..m
    <3>1. j \in 1..m
      BY <1>3, <1>9, <2>1
    <3> QED
      BY <1>4, <1>6, <1>9, <2>1, <3>1
  <2>2. CASE j \in 1..m /\ k \notin 1..m
    BY <1>4, <1>6, <1>7, <2>2
  <2>3. CASE j \notin 1..m /\ k \notin 1..m
    <3>1. j - m \in 1..n /\ k - m \in 1..n /\ j - m < k - m
      BY <1>3, <1>7, <1>9, <2>3
    <3> QED
      BY <1>4, <1>7, <2>3, <3>1
  <2>4. k \notin 1..m \/ k \in 1..m
    OBVIOUS
  <2> QED
    BY <2>1, <2>2, <2>3
<1>10. \A i \in I \cup J : \E k \in 1..(m + n) : g[k] = i
  <2> TAKE i \in I \cup J
  <2>1. CASE i \in I
    BY <1>4, <1>6, <2>1
  <2>2. CASE i \in J
    <3>1. PICK k \in 1..n : e[k] = i
      BY <1>4, <2>2
    <3>2. k + m \in 1..(m + n) /\ g[k + m] = i
      BY <1>6, <3>1
    <3> QED
      BY <3>2
  <2> QED
    BY <2>1, <2>2
<1>11. \A k \in 1..(m + n) : (t \o u)[k] = list[g[k]]
  <2> TAKE k \in 1..(m + n)
  <2>1. CASE k \in 1..m
    BY <1>1, <1>3, <1>5, <1>6, <2>1 DEF m
  <2>2. CASE k \notin 1..m
    BY <1>2, <1>3, <1>5, <1>7, <2>2 DEF n
  <2> QED
    BY <2>1, <2>2
<1>12. Enumerates(g, m + n, I \cup J)
  BY <1>3, <1>8, <1>9, <1>10 DEF Enumerates
<1> QED
  BY <1>5, <1>11, <1>12 DEF Picks

\* A part of the list.
LEMMA PicksSubSeq ==
  ASSUME NEW S, NEW list \in Seq(S), NEW a \in Int, NEW b \in Int, a >= 1, b <= Len(list)
  PROVE  SubSeq(list, a, b) \in Seq(S) /\ Picks(SubSeq(list, a, b), list, a..b)
<1> DEFINE t == SubSeq(list, a, b)
           n == IF a <= b THEN b - a + 1 ELSE 0
           e == [k \in 1..n |-> k + a - 1]
<1>1. \A i \in a..b : list[i] \in S
  OBVIOUS
<1>2. t \in Seq(S) /\ Len(t) = n /\ \A k \in 1..(b - a + 1) : t[k] = list[a + k - 1]
  BY <1>1, SubSeqProperties
<1>3. n \in Nat /\ \A k \in 1..n : k \in 1..(b - a + 1) /\ k + a - 1 = a + k - 1
  OBVIOUS
<1>4. e \in [1..n -> a..b]
  BY <1>3
<1>5. \A i \in a..b : \E k \in 1..n : e[k] = i
  <2> TAKE i \in a..b
  <2>1. i - a + 1 \in 1..n /\ e[i - a + 1] = i
    OBVIOUS
  <2> QED
    BY <2>1
<1>6. \A j, k \in 1..n : j < k => e[j] < e[k]
  BY <1>3
<1>7. \A k \in 1..n : t[k] = list[e[k]]
  BY <1>2, <1>3
<1>8. Enumerates(e, n, a..b)
  <2> HIDE DEF e, n
  <2> QED
    BY <1>3, <1>4, <1>5, <1>6 DEF Enumerates
<1> HIDE DEF e, n, t
<1>9. Picks(t, list, a..b)
  BY <1>2, <1>7, <1>8 DEF Picks
<1> QED
  BY <1>2, <1>9 DEF t

\* The places of I with an entry of a kind.
Where(list, I, K) == {i \in I : list[i] \in K}

\* How many of the entries are of a kind.
LEMMA PicksCount ==
  ASSUME NEW t, NEW list, NEW I, Picks(t, list, I), I \subseteq Int, NEW K
  PROVE  Cardinality(Where(t, 1..Len(t), K)) = Cardinality(Where(list, I, K))
<1> DEFINE there == {i \in I : list[i] \in K}
           here == {k \in 1..Len(t) : t[k] \in K}
<1>1. PICK e : Enumerates(e, Len(t), I) /\ \A k \in 1..Len(t) : t[k] = list[e[k]]
  BY DEF Picks
<1> DEFINE g == [k \in here |-> e[k]]
<1>2. /\ Len(t) \in Nat
      /\ \A k \in 1..Len(t) : e[k] \in I /\ e[k] \in Int
      /\ \A j, k \in 1..Len(t) : j < k => e[j] < e[k]
      /\ \A i \in I : \E k \in 1..Len(t) : e[k] = i
  BY <1>1 DEF Enumerates
<1>3. IsFiniteSet(here)
  <2>1. IsFiniteSet(1..Len(t)) /\ here \in SUBSET (1..Len(t))
    BY <1>2, FS_Interval
  <2> HIDE DEF here
  <2> QED
    BY <2>1, FS_Subset
<1>4. g \in [here -> there]
  BY <1>1, <1>2
<1>5. \A j, k \in here : g[j] = g[k] => j = k
  <2> SUFFICES ASSUME NEW j \in here, NEW k \in here, j # k PROVE g[j] # g[k]
    OBVIOUS
  <2>1. j < k \/ k < j
    BY <1>2
  <2>2. e[j] < e[k] \/ e[k] < e[j]
    BY <1>2, <2>1
  <2> QED
    BY <1>2, <2>2
<1>6. \A i \in there : \E k \in here : g[k] = i
  <2> TAKE i \in there
  <2>1. PICK k \in 1..Len(t) : e[k] = i
    BY <1>2
  <2>2. k \in here
    BY <1>1, <2>1
  <2> QED
    BY <2>1, <2>2
<1> HIDE DEF here, there, g
<1>7. g \in Bijection(here, there)
  BY <1>4, <1>5, <1>6 DEF Bijection, Injection, Surjection, IsInjective
<1>8. IsFiniteSet(there) /\ Cardinality(there) = Cardinality(here)
  BY <1>3, <1>7, FS_Bijection DEF ExistsBijection
<1> QED
  BY <1>8 DEF here, there, Where

LEMMA Greatest ==
  ASSUME NEW T, T \subseteq Nat, T # {}, NEW n \in Nat, \A x \in T : x <= n
  PROVE  \E x \in T : \A y \in T : x >= y
<1> DEFINE U == {k \in Nat : n - k \in T}
<1>1. U \subseteq Nat /\ U # {}
  <2>1. PICK x \in T : TRUE
    OBVIOUS
  <2>2. n - x \in U
    BY <2>1
  <2> QED
    BY <2>2
<1>2. PICK k \in U : \A j \in U : k <= j
  <2> HIDE DEF U
  <2> QED
    BY <1>1, Least
<1>3. ASSUME NEW y \in T PROVE n - k >= y
  <2>1. n - y \in U /\ y \in Nat
    OBVIOUS
  <2>2. k <= n - y
    BY <1>2, <2>1
  <2> QED
    BY <2>1, <2>2
<1> QED
  BY <1>2, <1>3

\* The loop of FoldLeft takes the greatest place last.
LEMMA MaxIs ==
  ASSUME NEW k \in Nat, NEW s \in SUBSET (1..k), k \in s
  PROVE  Max(s) = k
<1> DEFINE m == Max(s)
<1>1. \A y \in s : k >= y
  OBVIOUS
<1>2. m \in s /\ \A y \in s : m >= y
  BY <1>1 DEF Max
<1> HIDE DEF m
<1>3. m \in Nat
  BY <1>2
<1>4. m >= k /\ k >= m
  BY <1>1, <1>2
<1>5. m = k
  BY <1>3, <1>4
<1> QED
  BY <1>5 DEF m


-----------------------------------------------------------------------------
(* The last entry *)

One(e) == <<e>>

LEMMA OneIs ==
  ASSUME NEW S, NEW e \in S
  PROVE  One(e) \in Seq(S) /\ Len(One(e)) = 1 /\ One(e)[1] = e
BY DEF One

LEMMA SplitLast ==
  ASSUME NEW S, NEW t \in Seq(S), NEW u \in Seq(S), Len(u) = Len(t) + 1,
         \A k \in 1..Len(t) : t[k] = u[k]
  PROVE  u = t \o One(u[Len(u)])
<1> DEFINE n == Len(u)
           last == u[n]
           all == t \o One(last)
<1>1. n \in Nat /\ Len(t) = n - 1 /\ last \in S
  BY ElementOfSeq
<1>2. One(last) \in Seq(S) /\ Len(One(last)) = 1 /\ One(last)[1] = last
  BY <1>1, OneIs
<1> HIDE DEF n, last
<1>3. /\ all \in Seq(S) /\ Len(all) = Len(t) + Len(One(last))
      /\ \A k \in 1..(Len(t) + Len(One(last))) :
           all[k] = IF k <= Len(t) THEN t[k] ELSE One(last)[k - Len(t)]
  BY <1>2, ConcatProperties
<1> HIDE DEF all
<1>4. ASSUME NEW k \in 1..n PROVE all[k] = u[k]
  <2>1. k \in 1..(Len(t) + Len(One(last)))
    BY <1>1, <1>2
  <2>2. CASE k <= Len(t)
    BY <1>1, <1>3, <2>1, <2>2
  <2>3. CASE k = n
    <3>1. ~(k <= Len(t)) /\ k - Len(t) = 1
      BY <1>1, <2>3
    <3> QED BY <1>2, <1>3, <2>1, <2>3, <3>1 DEF last
  <2> QED BY <1>1, <2>2, <2>3
<1>5. Len(all) = n
  BY <1>1, <1>2, <1>3
<1>6. all = u
  BY <1>3, <1>4, <1>5, SeqEqual DEF n
<1> QED BY <1>6 DEF all, last, n

LEMMA AppendOne ==
  ASSUME NEW S, NEW t \in Seq(S), NEW e \in S
  PROVE  Append(t, e) \in Seq(S) /\ Append(t, e) = t \o One(e)
BY AppendProperties, AppendIsConcat DEF One

\* The first k + 1 entries are the first k and one more.
LEMMA SubSeqNext ==
  ASSUME NEW S, NEW list \in Seq(S), NEW k \in Nat, k + 1 <= Len(list)
  PROVE  /\ SubSeq(list, 1, k) \in Seq(S)
         /\ SubSeq(list, 1, k + 1) = SubSeq(list, 1, k) \o One(list[k + 1])
<1> DEFINE t == SubSeq(list, 1, k)
           u == SubSeq(list, 1, k + 1)
<1>1. \A i \in 1..(k + 1) : list[i] \in S
  BY ElementOfSeq
<1>2. t \in Seq(S) /\ Len(t) = k /\ \A i \in 1..k : t[i] = list[i]
  BY <1>1, SubSeqProperties
<1>3. u \in Seq(S) /\ Len(u) = k + 1 /\ \A i \in 1..(k + 1) : u[i] = list[i]
  BY <1>1, SubSeqProperties
<1> HIDE DEF t, u
<1>4. u = t \o One(u[Len(u)]) /\ u[Len(u)] = list[k + 1]
  <2>1. Len(u) = Len(t) + 1 /\ \A i \in 1..Len(t) : t[i] = u[i]
    BY <1>2, <1>3
  <2>2. u = t \o One(u[Len(u)])
    BY <1>2, <1>3, <2>1, SplitLast
  <2> QED BY <1>3, <2>2
<1> QED BY <1>2, <1>4 DEF t, u

-----------------------------------------------------------------------------
(* One entry more or less *)

LEMMA RemoveAtType ==
  ASSUME NEW S, NEW list \in Seq(S), NEW i \in DOMAIN list
  PROVE  /\ RemoveAt(list, i) \in Seq(S)
         /\ Picks(RemoveAt(list, i), list, DOMAIN list \ {i})
<1>1. i \in Nat /\ Len(list) \in Nat /\ i >= 1 /\ i <= Len(list)
  OBVIOUS
<1>2. SubSeq(list, 1, i - 1) \in Seq(S) /\ Picks(SubSeq(list, 1, i - 1), list, 1..(i - 1))
  BY <1>1, PicksSubSeq
<1>3. /\ SubSeq(list, i + 1, Len(list)) \in Seq(S)
      /\ Picks(SubSeq(list, i + 1, Len(list)), list, (i + 1)..Len(list))
  BY <1>1, PicksSubSeq
<1>4. (1..(i - 1)) \cup ((i + 1)..Len(list)) = DOMAIN list \ {i}
  BY <1>1
<1>5. /\ 1..(i - 1) \subseteq Int /\ (i + 1)..Len(list) \subseteq Int
      /\ \A j \in 1..(i - 1), k \in (i + 1)..Len(list) : j < k
  BY <1>1
<1> DEFINE t == SubSeq(list, 1, i - 1)
           u == SubSeq(list, i + 1, Len(list))
           I == 1..(i - 1)
           J == (i + 1)..Len(list)
<1>6. t \o u \in Seq(S)
  BY <1>2, <1>3, ConcatProperties
<1>7. Picks(t \o u, list, I \cup J)
  <2>1. t \in Seq(S) /\ u \in Seq(S) /\ Picks(t, list, I) /\ Picks(u, list, J)
    BY <1>2, <1>3
  <2>2. I \subseteq Int /\ J \subseteq Int /\ \A j \in I, k \in J : j < k
    BY <1>5
  <2> HIDE DEF t, u, I, J
  <2> QED
    BY <2>1, <2>2, PicksConcat
<1> QED
  BY <1>4, <1>6, <1>7 DEF RemoveAt

\* Take the k-th of the picked entries out.
LEMMA PicksWithout ==
  ASSUME NEW S, NEW t \in Seq(S), NEW list, NEW I, I \subseteq Int,
         NEW e, Enumerates(e, Len(t), I), \A k \in 1..Len(t) : t[k] = list[e[k]],
         NEW k \in 1..Len(t)
  PROVE  RemoveAt(t, k) \in Seq(S) /\ Picks(RemoveAt(t, k), list, I \ {e[k]})
<1> DEFINE K == DOMAIN t \ {k}
           J == I \ {e[k]}
           h == [j \in K |-> e[j]]
<1>1. DOMAIN t = 1..Len(t) /\ Len(t) \in Nat
  OBVIOUS
<1>2. /\ \A j \in 1..Len(t) : e[j] \in I /\ e[j] \in Int
      /\ \A i, j \in 1..Len(t) : i < j => e[i] < e[j]
      /\ \A i \in I : \E j \in 1..Len(t) : e[j] = i
  BY DEF Enumerates
<1>3. RemoveAt(t, k) \in Seq(S) /\ Picks(RemoveAt(t, k), t, K)
  BY <1>1, RemoveAtType
<1>4. h \in [K -> J]
  <2>1. ASSUME NEW j \in K PROVE e[j] \in J
    <3>1. j \in 1..Len(t) /\ (j < k \/ k < j)
      BY <1>1
    <3>2. (e[j] < e[k] \/ e[k] < e[j]) /\ e[j] \in Int /\ e[k] \in Int
      BY <1>2, <3>1
    <3>3. e[j] # e[k]
      BY <3>2
    <3> QED BY <1>2, <3>1, <3>3
  <2> QED BY <2>1
<1>5. \A i, j \in K : i < j => h[i] < h[j]
  BY <1>1, <1>2
<1>6. \A j \in J : \E i \in K : h[i] = j
  <2> TAKE j \in J
  <2>1. PICK i \in 1..Len(t) : e[i] = j
    BY <1>2
  <2>2. i \in K
    BY <1>1, <2>1
  <2> QED BY <2>1, <2>2
<1>7. \A i \in K : list[h[i]] = t[i]
  BY <1>1
<1> HIDE DEF h, K, J
<1>8. Picks(RemoveAt(t, k), list, J)
  BY <1>3, <1>4, <1>5, <1>6, <1>7, PicksMoved
<1> QED BY <1>3, <1>8 DEF J

\* The place of entry i once there is one more at q.
Past(q, i) == IF i < q THEN i ELSE i + 1

LEMMA PastIs ==
  ASSUME NEW n \in Nat, NEW q \in 1..(n + 1)
  PROVE  /\ \A i \in 1..n : Past(q, i) \in 1..(n + 1) /\ Past(q, i) # q
         /\ \A i, j \in 1..n : i < j <=> Past(q, i) < Past(q, j)
         /\ \A k \in 1..(n + 1) : k # q => \E i \in 1..n : Past(q, i) = k
<1>1. ASSUME NEW k \in 1..(n + 1), k # q PROVE \E i \in 1..n : Past(q, i) = k
  <2> DEFINE i == IF k < q THEN k ELSE k - 1
  <2>1. i \in 1..n /\ Past(q, i) = k
    BY <1>1 DEF Past
  <2> QED BY <2>1
<1> QED BY <1>1 DEF Past

\* list is less with one entry more, at q.
OneMore(list, less, q) ==
  /\ Len(list) = Len(less) + 1
  /\ q \in 1..Len(list)
  /\ \A i \in 1..Len(less) : list[Past(q, i)] = less[i]

LEMMA RemoveAtIs ==
  ASSUME NEW S, NEW list \in Seq(S), NEW q \in 1..Len(list)
  PROVE  RemoveAt(list, q) \in Seq(S) /\ OneMore(list, RemoveAt(list, q), q)
<1> DEFINE t == SubSeq(list, 1, q - 1)
           u == SubSeq(list, q + 1, Len(list))
<1>1. q \in Nat /\ Len(list) \in Nat /\ q >= 1 /\ q <= Len(list)
  OBVIOUS
<1>2. \A i \in 1..Len(list) : list[i] \in S
  BY ElementOfSeq
<1>3. t \in Seq(S) /\ Len(t) = q - 1 /\ \A i \in 1..(q - 1) : t[i] = list[i]
  BY <1>1, <1>2, SubSeqProperties
<1>4. u \in Seq(S) /\ Len(u) = Len(list) - q /\ \A i \in 1..(Len(list) - q) : u[i] = list[q + i]
  <2>1. \A i \in (q + 1)..Len(list) : list[i] \in S
    BY <1>1, <1>2
  <2>2. /\ u \in Seq(S) /\ Len(u) = IF q + 1 <= Len(list) THEN Len(list) - (q + 1) + 1 ELSE 0
        /\ \A i \in 1..(Len(list) - (q + 1) + 1) : u[i] = list[(q + 1) + i - 1]
    BY <1>1, <2>1, SubSeqProperties
  <2> HIDE DEF u
  <2>3. \A i \in 1..(Len(list) - q) : (q + 1) + i - 1 = q + i /\ i \in 1..(Len(list) - (q + 1) + 1)
    BY <1>1
  <2> QED BY <1>1, <2>2, <2>3
<1> HIDE DEF t, u
<1>5. /\ t \o u \in Seq(S) /\ Len(t \o u) = Len(t) + Len(u)
      /\ \A i \in 1..(Len(t) + Len(u)) : (t \o u)[i] = IF i <= Len(t) THEN t[i] ELSE u[i - Len(t)]
  BY <1>3, <1>4, ConcatProperties
<1> DEFINE v == t \o u
<1> HIDE DEF v
<1>6. v \in Seq(S) /\ Len(v) = Len(list) - 1
  BY <1>1, <1>3, <1>4, <1>5 DEF v
<1>7. ASSUME NEW i \in 1..Len(v) PROVE list[Past(q, i)] = v[i]
  <2>1. i \in 1..(Len(t) + Len(u)) /\ i \in 1..(Len(list) - 1)
    BY <1>5, <1>6 DEF v
  <2>2. CASE i < q
    BY <1>1, <1>3, <1>5, <2>1, <2>2 DEF v, Past
  <2>3. CASE ~(i < q)
    <3>1. i - Len(t) \in 1..(Len(list) - q) /\ q + (i - Len(t)) = i + 1 /\ ~(i <= Len(t))
      BY <1>1, <1>3, <2>1, <2>3
    <3>2. v[i] = u[i - Len(t)]
      BY <1>5, <2>1, <3>1 DEF v
    <3> QED BY <1>4, <2>3, <3>1, <3>2 DEF Past
  <2> QED BY <2>2, <2>3
<1>8. OneMore(list, v, q)
  BY <1>1, <1>6, <1>7 DEF OneMore
<1> QED BY <1>6, <1>8 DEF v, t, u, RemoveAt

LEMMA InsertAtIs ==
  ASSUME NEW S, NEW less \in Seq(S), NEW q \in 1..(Len(less) + 1), NEW e \in S
  PROVE  /\ InsertAt(less, q, e) \in Seq(S)
         /\ OneMore(InsertAt(less, q, e), less, q)
         /\ InsertAt(less, q, e)[q] = e
<1> DEFINE t == SubSeq(less, 1, q - 1)
           u == SubSeq(less, q, Len(less))
           n == Len(less)
           front == t \o One(e)
           v == front \o u
<1>1. q \in Nat /\ n \in Nat /\ q >= 1 /\ q <= n + 1
  OBVIOUS
<1>2. \A i \in 1..n : less[i] \in S
  BY ElementOfSeq
<1>3. t \in Seq(S) /\ Len(t) = q - 1 /\ \A i \in 1..(q - 1) : t[i] = less[i]
  <2>1. \A i \in 1..(q - 1) : less[i] \in S
    BY <1>1, <1>2
  <2> HIDE DEF n
  <2> QED BY <1>1, <2>1, SubSeqProperties
<1>4. u \in Seq(S) /\ Len(u) = n - q + 1 /\ \A i \in 1..(n - q + 1) : u[i] = less[q + i - 1]
  <2>1. \A i \in q..n : less[i] \in S
    BY <1>1, <1>2
  <2>2. /\ u \in Seq(S) /\ Len(u) = IF q <= n THEN n - q + 1 ELSE 0
        /\ \A i \in 1..(n - q + 1) : u[i] = less[q + i - 1]
    BY <1>1, <2>1, SubSeqProperties
  <2> HIDE DEF u, n
  <2> QED BY <1>1, <2>2
<1>5. One(e) \in Seq(S) /\ Len(One(e)) = 1 /\ One(e)[1] = e
  BY OneIs
<1> HIDE DEF t, u, n
<1>6. /\ front \in Seq(S) /\ Len(front) = Len(t) + Len(One(e))
      /\ \A i \in 1..(Len(t) + Len(One(e))) :
           front[i] = IF i <= Len(t) THEN t[i] ELSE One(e)[i - Len(t)]
  BY <1>3, <1>5, ConcatProperties
<1> HIDE DEF front
<1>7. Len(front) = q /\ front[q] = e /\ \A i \in 1..(q - 1) : front[i] = less[i]
  BY <1>1, <1>3, <1>5, <1>6
<1>8. /\ v \in Seq(S) /\ Len(v) = Len(front) + Len(u)
      /\ \A i \in 1..(Len(front) + Len(u)) :
           v[i] = IF i <= Len(front) THEN front[i] ELSE u[i - Len(front)]
  BY <1>4, <1>6, ConcatProperties
<1> HIDE DEF v
<1>9. Len(v) = n + 1 /\ v[q] = e
  BY <1>1, <1>4, <1>7, <1>8
<1>10. ASSUME NEW i \in 1..n PROVE v[Past(q, i)] = less[i]
  <2>1. CASE i < q
    BY <1>1, <1>4, <1>7, <1>8, <2>1 DEF Past
  <2>2. CASE ~(i < q)
    <3>1. (i + 1) - q \in 1..(n - q + 1) /\ q + ((i + 1) - q) - 1 = i
      BY <1>1, <2>2
    <3>2. /\ i + 1 \in 1..(Len(front) + Len(u)) /\ ~(i + 1 <= Len(front))
          /\ (i + 1) - Len(front) = (i + 1) - q
      BY <1>1, <1>4, <1>7, <2>2
    <3>3. v[i + 1] = u[(i + 1) - q]
      BY <1>8, <3>2
    <3> QED BY <1>4, <2>2, <3>1, <3>3 DEF Past
  <2> QED BY <2>1, <2>2
<1>11. OneMore(v, less, q)
  BY <1>1, <1>9, <1>10 DEF OneMore, n
<1> QED BY <1>8, <1>9, <1>11 DEF v, front, t, u, n, One, InsertAt

-----------------------------------------------------------------------------
(* Places *)

\* Where the entries of two lists are in their concatenation.
LEMMA ConcatAt ==
  ASSUME NEW S, NEW t \in Seq(S), NEW u \in Seq(S)
  PROVE  /\ t \o u \in Seq(S)
         /\ Len(t \o u) = Len(t) + Len(u)
         /\ \A i \in 1..Len(t) : (t \o u)[i] = t[i]
         /\ \A i \in 1..Len(u) : (t \o u)[Len(t) + i] = u[i]
<1>1. /\ t \o u \in Seq(S) /\ Len(t \o u) = Len(t) + Len(u)
      /\ \A i \in 1..(Len(t) + Len(u)) :
           (t \o u)[i] = IF i <= Len(t) THEN t[i] ELSE u[i - Len(t)]
  BY ConcatProperties
<1>2. Len(t) \in Nat /\ Len(u) \in Nat
  OBVIOUS
<1>3. ASSUME NEW i \in 1..Len(u) PROVE (t \o u)[Len(t) + i] = u[i]
  <2>1. /\ Len(t) + i \in 1..(Len(t) + Len(u)) /\ ~(Len(t) + i <= Len(t))
        /\ (Len(t) + i) - Len(t) = i
    BY <1>2
  <2> QED
    BY <1>1, <2>1
<1> QED
  BY <1>1, <1>2, <1>3

\* Where the entries of a part of a list are.
LEMMA SubSeqAt ==
  ASSUME NEW S, NEW t \in Seq(S), NEW a \in Nat \ {0}, NEW b \in Nat, a <= b + 1, b <= Len(t)
  PROVE  /\ SubSeq(t, a, b) \in Seq(S) /\ Len(SubSeq(t, a, b)) = b + 1 - a
         /\ \A i \in 1..(b + 1 - a) : SubSeq(t, a, b)[i] = t[a + i - 1]
<1>1. Len(t) \in Nat /\ \A i \in 1..Len(t) : t[i] \in S
  OBVIOUS
<1>2. \A i \in a..b : t[i] \in S
  BY <1>1
<1>3. /\ SubSeq(t, a, b) \in Seq(S)
      /\ Len(SubSeq(t, a, b)) = (IF a <= b THEN b - a + 1 ELSE 0)
      /\ \A i \in 1..(b - a + 1) : SubSeq(t, a, b)[i] = t[a + i - 1]
  BY <1>2, SubSeqProperties
<1>4. (IF a <= b THEN b - a + 1 ELSE 0) = b + 1 - a /\ b - a + 1 = b + 1 - a
  OBVIOUS
<1> QED
  BY <1>3, <1>4

\* As many entries are picked as there are places.
LEMMA PickedLength ==
  ASSUME NEW S, NEW list \in Seq(S), NEW I \in SUBSET (1..Len(list))
  PROVE  /\ Picked(list, I) \in Seq(S) /\ Picks(Picked(list, I), list, I)
         /\ IsFiniteSet(I) /\ Cardinality(I) \in Nat
         /\ Len(Picked(list, I)) = Cardinality(I)
<1> DEFINE t == Picked(list, I)
<1>1. DOMAIN list = 1..Len(list) /\ Len(list) \in Nat /\ \A i \in I : i \in Int
  OBVIOUS
<1>2. t \in Seq(S) /\ Picks(t, list, I)
  BY <1>1, PickedPicks
<1>3. IsFiniteSet(I) /\ Cardinality(I) \in Nat
  <2>1. IsFiniteSet(1..Len(list))
    BY <1>1, FS_Interval
  <2>2. IsFiniteSet(I)
    BY <2>1, FS_Subset
  <2> QED
    BY <2>2, FS_CardinalityType
<1> HIDE DEF t
<1>4. PICK e : Enumerates(e, Len(t), I) /\ \A k \in 1..Len(t) : t[k] = list[e[k]]
  BY <1>2 DEF Picks
<1>5. e \in Bijection(1..Len(t), I)
  <2>1. /\ Len(t) \in Nat /\ e \in [1..Len(t) -> I]
        /\ \A j, k \in 1..Len(t) : j < k => e[j] < e[k]
        /\ \A i \in I : \E k \in 1..Len(t) : e[k] = i
    BY <1>4 DEF Enumerates
  <2>2. ASSUME NEW j \in 1..Len(t), NEW k \in 1..Len(t), e[j] = e[k] PROVE j = k
    <3>0. e[j] \in I /\ e[k] \in I
      BY <2>1
    <3>1. e[j] \in Int /\ e[k] \in Int
      BY <1>1, <3>0
    <3>2. ~(j < k) /\ ~(k < j)
      BY <2>1, <2>2, <3>1
    <3> QED
      BY <2>1, <3>2
  <2> QED
    BY <2>1, <2>2 DEF Bijection, Injection, Surjection, IsInjective
<1>7. Cardinality(1..Len(t)) = Cardinality(I)
  <2>1. IsFiniteSet(1..Len(t))
    BY <1>2, FS_Interval
  <2> QED
    BY <1>5, <2>1, FS_Bijection DEF ExistsBijection
<1>8. Len(t) \in Nat
  BY <1>2
<1>9. Cardinality(1..Len(t)) = Len(t)
  <2>1. Len(t) \in Int /\ 1 \in Int
    BY <1>8
  <2>2. Cardinality(1..Len(t)) = IF 1 > Len(t) THEN 0 ELSE Len(t) - 1 + 1
    BY <2>1, FS_Interval
  <2> QED
    BY <1>8, <2>2
<1> QED
  BY <1>2, <1>3, <1>7, <1>9 DEF t

\* What is picked are entries of the list.
LEMMA PickedEntries ==
  ASSUME NEW S, NEW list \in Seq(S), NEW I \in SUBSET (1..Len(list)),
         NEW i \in 1..Len(Picked(list, I))
  PROVE  \E j \in I : Picked(list, I)[i] = list[j]
<1> DEFINE t == Picked(list, I)
<1>1. PICK e : Enumerates(e, Len(t), I) /\ \A k \in 1..Len(t) : t[k] = list[e[k]]
  BY PickedLength DEF Picks
<1>2. e[i] \in I
  BY <1>1 DEF Enumerates
<1>3. t[i] = list[e[i]]
  BY <1>1
<1> QED
  BY <1>2, <1>3

\* Picking every place gives the list.
LEMMA PickedAll ==
  ASSUME NEW S, NEW list \in Seq(S)
  PROVE  Picked(list, 1..Len(list)) = list
<1> DEFINE I == 1..Len(list)
           e == [k \in I |-> k]
<1>1. I \in SUBSET (1..Len(list)) /\ I \subseteq Int /\ Len(list) \in Nat
  OBVIOUS
<1>2. Picks(list, list, I)
  <2>1. Enumerates(e, Len(list), I)
    BY <1>1 DEF Enumerates
  <2>2. \A k \in 1..Len(list) : list[k] = list[e[k]]
    OBVIOUS
  <2> HIDE DEF e, I
  <2> QED
    BY <2>1, <2>2 DEF Picks
<1>3. Picked(list, I) \in Seq(S) /\ Picks(Picked(list, I), list, I)
  <2> HIDE DEF I
  <2> QED
    BY <1>1, PickedLength
<1>4. Picked(list, I) = list
  <2> HIDE DEF I
  <2> QED
    BY <1>1, <1>2, <1>3, PicksUnique
<1> QED
  BY <1>4

\* Where one more entry comes between those that are picked.
LEMMA PickedInserted ==
  ASSUME NEW S, NEW list \in Seq(S), NEW I \in SUBSET (1..Len(list)),
         NEW p \in 1..Len(list), p \notin I
  PROVE  InsertAt(Picked(list, I), Cardinality(I \cap (1..(p - 1))) + 1, list[p]) = Picked(list, I \cup {p})
<1> DEFINE A == I \cap (1..(p - 1))
           B == I \cap ((p + 1)..Len(list))
           a == Picked(list, A)
           b == Picked(list, B)
           t == Picked(list, I)
           one == One(list[p])
<1>1. /\ A \in SUBSET (1..Len(list)) /\ B \in SUBSET (1..Len(list)) /\ I = A \cup B
      /\ \A i \in A : i \in Int /\ i < p
      /\ \A i \in B : i \in Int /\ p < i
  <2>1. Len(list) \in Nat
    OBVIOUS
  <2>2. \A i \in I : i \in A \/ i \in B
    BY <2>1
  <2>3. /\ \A i \in A : i \in I /\ i \in Int /\ i < p
        /\ \A i \in B : i \in I /\ i \in Int /\ p < i
    BY <2>1
  <2> HIDE DEF A, B
  <2> QED
    BY <2>2, <2>3
<1>2. /\ a \in Seq(S) /\ Picks(a, list, A) /\ Len(a) = Cardinality(A)
      /\ b \in Seq(S) /\ Picks(b, list, B)
      /\ t \in Seq(S) /\ Picks(t, list, I)
  BY <1>1, PickedLength
<1>3. one \in Seq(S) /\ Len(one) = 1 /\ Picks(one, list, {p})
  <2>1. p \in Int /\ list[p] \in S
    OBVIOUS
  <2>2. Picks(one, list, {p})
    BY <2>1, PicksOne DEF One
  <2> QED
    BY <2>1, <2>2 DEF One
<1>4. I \cup {p} \in SUBSET (1..Len(list)) /\ A \subseteq Int /\ B \subseteq Int /\ p \in Int
  BY <1>1
<1>5. Picked(list, I \cup {p}) \in Seq(S) /\ Picks(Picked(list, I \cup {p}), list, I \cup {p})
  BY <1>4, PickedLength
<1> HIDE DEF A, B, a, b, t, one
<1>6. t = a \o b
  <2>1. \A i \in A : \A j \in B : i < j
    BY <1>1, <1>4
  <2>2. Picks(a \o b, list, A \cup B)
    BY <1>2, <1>4, <2>1, PicksConcat
  <2>3. a \o b \in Seq(S)
    BY <1>2, ConcatProperties
  <2>4. A \cup B \subseteq Int
    BY <1>4
  <2> QED
    BY <1>1, <1>2, <2>2, <2>3, <2>4, PicksUnique
<1>7. a \o one \o b = Picked(list, I \cup {p})
  <2>1. \A i \in A : \A j \in {p} : i < j
    BY <1>1
  <2>2. {p} \subseteq Int /\ A \cup {p} \subseteq Int /\ (A \cup {p}) \cup B \subseteq Int
    BY <1>4
  <2>3. Picks(a \o one, list, A \cup {p})
    BY <1>2, <1>3, <1>4, <2>1, <2>2, PicksConcat
  <2>4. a \o one \in Seq(S)
    BY <1>2, <1>3, ConcatProperties
  <2>5. \A i \in A \cup {p} : \A j \in B : i < j
    BY <1>1, <1>4
  <2>6. Picks((a \o one) \o b, list, (A \cup {p}) \cup B)
    BY <1>2, <1>4, <2>2, <2>3, <2>4, <2>5, PicksConcat
  <2>7. (a \o one) \o b \in Seq(S)
    BY <1>2, <2>4, ConcatProperties
  <2>8. (A \cup {p}) \cup B = I \cup {p}
    BY <1>1
  <2> QED
    BY <1>5, <2>2, <2>6, <2>7, <2>8, PicksUnique
<1>8. SubSeq(t, 1, Len(a)) = a /\ SubSeq(t, Len(a) + 1, Len(t)) = b
  <2>1. /\ Len(t) = Len(a) + Len(b) /\ Len(a) \in Nat /\ Len(b) \in Nat
        /\ \A i \in 1..Len(a) : t[i] = a[i]
        /\ \A i \in 1..Len(b) : t[Len(a) + i] = b[i]
    BY <1>2, <1>6, ConcatAt
  <2>2. \A i \in 1..Len(t) : t[i] \in S
    BY <1>2
  <2> DEFINE x == SubSeq(t, 1, Len(a))
             y == SubSeq(t, Len(a) + 1, Len(t))
  <2>3. x \in Seq(S) /\ Len(x) = Len(a) /\ \A i \in 1..Len(a) : x[i] = t[i]
    <3>1. \A i \in 1..Len(a) : t[i] \in S
      BY <2>1, <2>2
    <3>2. /\ x \in Seq(S) /\ Len(x) = (IF 1 <= Len(a) THEN Len(a) - 1 + 1 ELSE 0)
          /\ \A i \in 1..(Len(a) - 1 + 1) : x[i] = t[1 + i - 1]
      BY <2>1, <3>1, SubSeqProperties
    <3> QED
      BY <2>1, <3>2
  <2>4. y \in Seq(S) /\ Len(y) = Len(b) /\ \A i \in 1..Len(b) : y[i] = t[Len(a) + i]
    <3>1. \A i \in (Len(a) + 1)..Len(t) : t[i] \in S
      BY <2>1, <2>2
    <3>2. /\ y \in Seq(S) /\ Len(y) = (IF Len(a) + 1 <= Len(t) THEN Len(t) - (Len(a) + 1) + 1 ELSE 0)
          /\ \A i \in 1..(Len(t) - (Len(a) + 1) + 1) : y[i] = t[(Len(a) + 1) + i - 1]
      <4>1. Len(a) + 1 \in Int /\ Len(t) \in Int
        BY <2>1
      <4> QED
        BY <3>1, <4>1, SubSeqProperties
    <3> QED
      BY <2>1, <3>2
  <2> HIDE DEF x, y
  <2>5. x = a
    BY <1>2, <2>1, <2>3, SeqEqual
  <2>6. y = b
    BY <1>2, <2>1, <2>4, SeqEqual
  <2> QED
    BY <2>5, <2>6 DEF x, y
<1>9. InsertAt(t, Len(a) + 1, list[p]) = a \o one \o b
  <2>1. (Len(a) + 1) - 1 = Len(a)
    BY <1>2
  <2> QED
    BY <1>8, <2>1 DEF InsertAt, one, One
<1> QED
  BY <1>2, <1>7, <1>9 DEF t, A

-----------------------------------------------------------------------------
(* Loops, as functions from the number of turns to the variables *)

\* Every turn of a loop takes a value of S to another one.
StaysIn(S, turn, n) == \A m \in 1..n : \A x \in S : turn[m][x] \in S

\* f is what the variables of a loop are after each of its n turns.
Follows(f, S, a, turn, n) ==
  f \in [0..n -> S] /\ f[0] = a /\ \A m \in 1..n : f[m] = turn[m][f[m - 1]]

\* There is such a function.
LEMMA LoopExists ==
  ASSUME NEW S, NEW a \in S, NEW n \in Nat, NEW turn, StaysIn(S, turn, n)
  PROVE  \E f : Follows(f, S, a, turn, n)
<1> USE DEF StaysIn, Follows
<1> DEFINE Loop(f, k) == f[0] = a /\ \A m \in 1..k : f[m] = turn[m][f[m - 1]]
           T == {k \in Nat : k <= n => \E f \in [0..k -> S] : Loop(f, k)}
<1>1. 0 \in T
  <2>1. [m \in 0..0 |-> a] \in [0..0 -> S] /\ Loop([m \in 0..0 |-> a], 0)
    OBVIOUS
  <2> HIDE DEF Loop
  <2> QED
    BY <2>1
<1>2. ASSUME NEW k \in Nat, k \in T PROVE k + 1 \in T
  <2> SUFFICES ASSUME k + 1 <= n PROVE \E f \in [0..(k + 1) -> S] : Loop(f, k + 1)
    OBVIOUS
  <2>1. PICK f \in [0..k -> S] : Loop(f, k)
    <3> HIDE DEF Loop
    <3> QED
      BY <1>2
  <2> DEFINE g == [m \in 0..(k + 1) |-> IF m = k + 1 THEN turn[k + 1][f[k]] ELSE f[m]]
  <2>2. g \in [0..(k + 1) -> S]
    <3>1. f[k] \in S /\ k + 1 \in 1..n
      OBVIOUS
    <3>2. turn[k + 1][f[k]] \in S
      BY <3>1
    <3>3. \A m \in 0..(k + 1) : m = k + 1 \/ m \in 0..k
      OBVIOUS
    <3> QED
      BY <3>2, <3>3
  <2>3. g[0] = a
    BY <2>1
  <2>4. ASSUME NEW m \in 1..(k + 1) PROVE g[m] = turn[m][g[m - 1]]
    <3>1. CASE m = k + 1
      BY <3>1
    <3>2. CASE m # k + 1
      <4>1. m \in 1..k /\ m \in 0..k /\ g[m] = f[m] /\ g[m - 1] = f[m - 1]
        BY <3>2
      <4> QED
        BY <2>1, <4>1
    <3> QED
      BY <3>1, <3>2
  <2> HIDE DEF g
  <2>5. Loop(g, k + 1)
    BY <2>3, <2>4
  <2> HIDE DEF Loop
  <2> QED
    BY <2>2, <2>5
<1>3. n \in T
  <2> HIDE DEF T
  <2> QED
    BY <1>1, <1>2, Induction
<1>4. n <= n
  OBVIOUS
<1> HIDE DEF Loop
<1>5. PICK f \in [0..n -> S] : Loop(f, n)
  BY <1>3, <1>4
<1> QED
  BY <1>5 DEF Loop

\* What is true before a loop and kept by every turn is true after each of them.
LEMMA LoopKeeps ==
  ASSUME NEW n \in Nat, NEW f, NEW S, f[0] \in S,
         \A m \in 1..n : f[m - 1] \in S => f[m] \in S
  PROVE  \A m \in 0..n : f[m] \in S
<1> DEFINE T == {k \in Nat : k <= n => f[k] \in S}
<1>1. 0 \in T
  OBVIOUS
<1>2. ASSUME NEW k \in Nat, k \in T PROVE k + 1 \in T
  <2> SUFFICES ASSUME k + 1 <= n PROVE f[k + 1] \in S
    OBVIOUS
  <2>1. k + 1 \in 1..n /\ (k + 1) - 1 = k /\ f[k] \in S
    BY <1>2
  <2> QED
    BY <2>1
<1>3. Nat \subseteq T
  <2> HIDE DEF T
  <2> QED
    BY <1>1, <1>2, Induction
<1> QED
  BY <1>3

-----------------------------------------------------------------------------
(* Quotients and remainders *)

\* A quotient, a remainder, and when dividing makes a number smaller.
LEMMA DivMod ==
  ASSUME NEW a \in Int, NEW b \in Nat \ {0}
  PROVE  /\ a \div b \in Int /\ a % b \in 0..(b - 1)
         /\ a = b * (a \div b) + (a % b)
         /\ a >= 0 => a \div b >= 0
         /\ b > 1 /\ a > 0 => a \div b < a
<1> DEFINE q == a \div b
           r == a % b
<1>1. q \in Int /\ r \in 0..(b - 1) /\ a = b * q + r
  OBVIOUS
<1> HIDE DEF q, r
<1>2. ASSUME a >= 0, q < 0 PROVE FALSE
  <2>1. b * q <= b * (-1)
    BY <1>1, <1>2
  <2> QED
    BY <1>1, <1>2, <2>1
<1>3. ASSUME b > 1, a > 0, q >= a PROVE FALSE
  <2>1. b * q >= 2 * q
    BY <1>1, <1>3
  <2> QED
    BY <1>1, <1>3, <2>1
<1>4. /\ a >= 0 => q >= 0
      /\ b > 1 /\ a > 0 => q < a
  BY <1>1, <1>2, <1>3
<1> QED
  BY <1>1, <1>4 DEF q, r

\* A quotient and a remainder are what they should be.
LEMMA DivModUnique ==
  ASSUME NEW b \in Nat \ {0}, NEW c \in Int, NEW d \in 0..(b - 1)
  PROVE  (b * c + d) \div b = c /\ (b * c + d) % b = d
OBVIOUS
=============================================================================
