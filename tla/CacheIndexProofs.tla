-------------------------- MODULE CacheIndexProofs --------------------------
(***************************************************************************)
(* Proofs about the index of the disk cache: the running total is the sum  *)
(* of the table, and the eviction takes the least recently used rows.      *)
(***************************************************************************)
EXTENDS CacheIndex, LeastNumber, FiniteSetTheorems, TLAPS

-----------------------------------------------------------------------------
(* Sums of sizes.  The fold that sums them is a recursive function on the  *)
(* subsets of a set.                                                       *)

SizeOf(table, s) == estimated_size(table[s])
Some(S) == CHOOSE x \in S : TRUE
SumBody(table, f, s) ==
    IF s = {} THEN 0 ELSE SizeOf(table, Some(s)) + f[s \ {Some(s)}]
IsSum(table, f, S) == f = [s \in SUBSET S |-> SumBody(table, f, s)]

\* The sum is the value of such a function.
LEMMA SumIsFold ==
    ASSUME NEW table, NEW S
    PROVE  SumOf(table, S) = (CHOOSE f : IsSum(table, f, S))[S]
BY DEF SumOf, MapThenSumSet, MapThenFoldSet, IsSum, SumBody, SizeOf, Some

\* An element is left out of a set.
LEMMA SomeProperties ==
    ASSUME NEW S, IsFiniteSet(S), S # {}
    PROVE  /\ Some(S) \in S /\ IsFiniteSet(S \ {Some(S)})
           /\ Cardinality(S) \in Nat /\ Cardinality(S \ {Some(S)}) \in Nat
           /\ Cardinality(S \ {Some(S)}) = Cardinality(S) - 1
<1>1. Some(S) \in S
  BY DEF Some
<1> QED
  BY <1>1, FS_RemoveElement, FS_CardinalityType

\* The function exists.
LEMMA SumExists ==
    ASSUME NEW table, NEW S, IsFiniteSet(S)
    PROVE  \E f : IsSum(table, f, S)
<1> DEFINE N == Cardinality(S)
           Dom(n) == {s \in SUBSET S : Cardinality(s) <= n}
           Rec(f, n) == f = [s \in Dom(n) |-> SumBody(table, f, s)]
           T == {n \in 0..N : ~\E f : Rec(f, n)}
<1>1. N \in Nat
  BY FS_CardinalityType
<1>2. \A s \in SUBSET S : IsFiniteSet(s) /\ Cardinality(s) \in Nat /\ Cardinality(s) <= N
  BY FS_Subset, FS_CardinalityType
<1> HIDE DEF N
<1>3. T = {}
  <2> SUFFICES ASSUME T # {} PROVE FALSE
    OBVIOUS
  <2>1. PICK n \in T : \A k \in T : n <= k
    <3>1. T \subseteq Nat
      BY <1>1
    <3> HIDE DEF T
    <3> QED
      BY <3>1, LeastElement
  <2>2. n \in Nat /\ n <= N
    BY <1>1
  <2>3. CASE n = 0
    <3>1. \A s \in Dom(0) : s = {}
      BY <1>2, FS_EmptySet
    <3>2. \A s \in Dom(0) : SumBody(table, [t \in Dom(0) |-> 0], s) = 0
      BY <3>1 DEF SumBody
    <3> HIDE DEF Dom
    <3>3. Rec([t \in Dom(0) |-> 0], 0)
      BY <3>2
    <3> QED
      BY <2>3, <3>3
  <2>4. CASE n # 0
    <3>1. n - 1 \in 0..N /\ ~(n <= n - 1)
      BY <1>1, <2>2, <2>4
    <3>2. PICK f : Rec(f, n - 1)
      BY <2>1, <3>1
    <3> DEFINE g == [s \in Dom(n) |-> SumBody(table, f, s)]
    <3>3. \A s \in Dom(n - 1) : s \in Dom(n) /\ f[s] = SumBody(table, f, s)
      <4>1. \A s \in Dom(n - 1) : s \in Dom(n)
        BY <1>2, <2>2
      <4> HIDE DEF Dom
      <4> QED
        BY <3>2, <4>1
    <3>4. \A s \in Dom(n) : s # {} => s \ {Some(s)} \in Dom(n - 1)
      <4> SUFFICES ASSUME NEW s \in Dom(n), s # {} PROVE s \ {Some(s)} \in Dom(n - 1)
        OBVIOUS
      <4>1. /\ IsFiniteSet(s) /\ Cardinality(s) <= n /\ s \in SUBSET S
        BY <1>2
      <4>2. /\ Cardinality(s) \in Nat /\ Cardinality(s \ {Some(s)}) \in Nat
            /\ Cardinality(s \ {Some(s)}) = Cardinality(s) - 1
        BY <4>1, SomeProperties
      <4> QED
        BY <2>2, <4>1, <4>2
    <3> HIDE DEF Dom
    <3>5. \A s \in Dom(n) : g[s] = SumBody(table, f, s)
      OBVIOUS
    <3>6. \A s \in Dom(n) : s # {} => g[s \ {Some(s)}] = f[s \ {Some(s)}]
      BY <3>3, <3>4, <3>5
    <3> HIDE DEF g
    <3>7. \A s \in Dom(n) : SumBody(table, f, s) = SumBody(table, g, s)
      BY <3>6 DEF SumBody
    <3>8. Rec(g, n)
      BY <3>7 DEF g
    <3> QED
      BY <3>8
  <2> QED
    BY <2>3, <2>4
<1>4. PICK f : Rec(f, N)
  <2>1. N \in 0..N
    BY <1>1
  <2> HIDE DEF Rec
  <2> QED
    BY <1>3, <2>1
<1>5. Dom(N) = SUBSET S
  BY <1>2
<1> QED
  BY <1>4, <1>5 DEF IsSum

\* Two such functions agree where both are defined.
LEMMA SumUnique ==
    ASSUME NEW table, NEW S, NEW R, NEW f, NEW g, IsSum(table, f, S), IsSum(table, g, R),
           IsFiniteSet(R), R \subseteq S
    PROVE  f[R] = g[R]
<1> DEFINE T == {n \in Nat : \E s \in SUBSET R : Cardinality(s) = n /\ f[s] # g[s]}
<1>1. \A s \in SUBSET R : IsFiniteSet(s) /\ Cardinality(s) \in Nat
  BY FS_Subset, FS_CardinalityType
<1>2. \A s \in SUBSET R : f[s] = SumBody(table, f, s) /\ g[s] = SumBody(table, g, s)
  BY DEF IsSum
<1>3. T = {}
  <2> SUFFICES ASSUME T # {} PROVE FALSE
    OBVIOUS
  <2>1. PICK n \in T : \A k \in T : n <= k
    <3>1. T \subseteq Nat
      OBVIOUS
    <3> HIDE DEF T
    <3> QED
      BY <3>1, LeastElement
  <2>2. PICK s \in SUBSET R : Cardinality(s) = n /\ f[s] # g[s]
    OBVIOUS
  <2>3. s # {}
    BY <1>2, <2>2 DEF SumBody
  <2> DEFINE t == s \ {Some(s)}
  <2>4. t \in SUBSET R /\ Cardinality(t) \in Nat /\ n \in Nat /\ Cardinality(t) = n - 1
    BY <1>1, <2>2, <2>3, SomeProperties
  <2>5. ~(n <= n - 1)
    BY <2>4
  <2>6. f[t] = g[t]
    <3> HIDE DEF t
    <3> QED
      BY <2>1, <2>4, <2>5
  <2> QED
    BY <1>2, <2>2, <2>3, <2>6 DEF SumBody
<1> QED
  BY <1>1, <1>3

\* The sum, one element at a time.
LEMMA SumStep ==
    ASSUME NEW table
    PROVE  /\ SumOf(table, {}) = 0
           /\ \A S : IsFiniteSet(S) /\ S # {} =>
                SumOf(table, S) = SizeOf(table, Some(S)) + SumOf(table, S \ {Some(S)})
<1> DEFINE F(S) == CHOOSE f : IsSum(table, f, S)
<1>1. \A S : IsFiniteSet(S) => IsSum(table, F(S), S)
  BY SumExists
<1>2. \A S : SumOf(table, S) = F(S)[S]
  BY SumIsFold
<1> HIDE DEF F
<1>3. \A S : IsFiniteSet(S) => F(S)[S] = SumBody(table, F(S), S)
  <2> SUFFICES ASSUME NEW S, IsFiniteSet(S) PROVE F(S)[S] = SumBody(table, F(S), S)
    OBVIOUS
  <2>1. F(S) = [s \in SUBSET S |-> SumBody(table, F(S), s)]
    BY <1>1 DEF IsSum
  <2>2. S \in SUBSET S
    OBVIOUS
  <2> QED
    BY <2>1, <2>2
<1>4. SumOf(table, {}) = 0
  BY <1>2, <1>3, FS_EmptySet DEF SumBody
<1>5. ASSUME NEW S, IsFiniteSet(S), S # {}
      PROVE  SumOf(table, S) = SizeOf(table, Some(S)) + SumOf(table, S \ {Some(S)})
  <2> DEFINE R == S \ {Some(S)}
  <2>1. IsFiniteSet(R) /\ R \subseteq S
    BY <1>5, SomeProperties
  <2>2. F(S)[R] = F(R)[R]
    <3> HIDE DEF R
    <3> QED
      BY <1>1, <1>5, <2>1, SumUnique
  <2>3. F(S)[S] = SizeOf(table, Some(S)) + F(S)[R]
    BY <1>3, <1>5 DEF SumBody
  <2> QED
    BY <1>2, <2>2, <2>3
<1> QED
  BY <1>4, <1>5

Sizes(table, S) == \A s \in S : SizeOf(table, s) \in Nat

\* A sum of sizes is a number.
LEMMA SumNat ==
    ASSUME NEW table, NEW S, IsFiniteSet(S), Sizes(table, S)
    PROVE  SumOf(table, S) \in Nat
<1> DEFINE T == {n \in Nat : \E R : /\ IsFiniteSet(R) /\ Sizes(table, R) /\ Cardinality(R) = n
                                    /\ SumOf(table, R) \notin Nat}
<1>1. T = {}
  <2> SUFFICES ASSUME T # {} PROVE FALSE
    OBVIOUS
  <2>1. PICK n \in T : \A k \in T : n <= k
    <3>1. T \subseteq Nat
      OBVIOUS
    <3> HIDE DEF T
    <3> QED
      BY <3>1, LeastElement
  <2>2. PICK R : IsFiniteSet(R) /\ Sizes(table, R) /\ Cardinality(R) = n /\ SumOf(table, R) \notin Nat
    OBVIOUS
  <2>3. R # {}
    BY <2>2, SumStep
  <2> DEFINE Q == R \ {Some(R)}
  <2>4. /\ Some(R) \in R /\ IsFiniteSet(Q) /\ Cardinality(Q) \in Nat
        /\ n \in Nat /\ Cardinality(Q) = n - 1 /\ ~(n <= n - 1)
    BY <2>2, <2>3, SomeProperties
  <2>5. Sizes(table, Q) /\ SizeOf(table, Some(R)) \in Nat
    BY <2>2, <2>4 DEF Sizes
  <2>6. SumOf(table, Q) \in Nat
    <3> HIDE DEF Q
    <3> QED
      BY <2>1, <2>4, <2>5
  <2> QED
    BY <2>2, <2>3, <2>5, <2>6, SumStep
<1>2. Cardinality(S) \in Nat
  BY FS_CardinalityType
<1> QED
  BY <1>1, <1>2

\* Any element can be counted first.
LEMMA SumRemove ==
    ASSUME NEW table, NEW S, IsFiniteSet(S), Sizes(table, S), NEW x \in S
    PROVE  SumOf(table, S) = SizeOf(table, x) + SumOf(table, S \ {x})
<1> DEFINE T == {n \in Nat : \E R : \E y \in R :
                    /\ IsFiniteSet(R) /\ Sizes(table, R) /\ Cardinality(R) = n
                    /\ SumOf(table, R) # SizeOf(table, y) + SumOf(table, R \ {y})}
<1>1. T = {}
  <2> SUFFICES ASSUME T # {} PROVE FALSE
    OBVIOUS
  <2>1. PICK n \in T : \A k \in T : n <= k
    <3>1. T \subseteq Nat
      OBVIOUS
    <3> HIDE DEF T
    <3> QED
      BY <3>1, LeastElement
  <2>2. PICK R : \E y \in R :
                    /\ IsFiniteSet(R) /\ Sizes(table, R) /\ Cardinality(R) = n
                    /\ SumOf(table, R) # SizeOf(table, y) + SumOf(table, R \ {y})
    OBVIOUS
  <2>3. PICK y \in R : /\ IsFiniteSet(R) /\ Sizes(table, R) /\ Cardinality(R) = n
                       /\ SumOf(table, R) # SizeOf(table, y) + SumOf(table, R \ {y})
    BY <2>2
  <2> DEFINE c == Some(R)
  <2>4. /\ c \in R /\ IsFiniteSet(R \ {c}) /\ Cardinality(R \ {c}) \in Nat
        /\ n \in Nat /\ Cardinality(R \ {c}) = n - 1 /\ ~(n <= n - 1)
    <3>1. R # {} /\ IsFiniteSet(R)
      BY <2>3
    <3> QED
      BY <2>3, <3>1, SomeProperties
  <2>5. SumOf(table, R) = SizeOf(table, c) + SumOf(table, R \ {c})
    BY <2>3, SumStep
  <2> HIDE DEF c
  <2>6. c # y
    BY <2>3, <2>5
  <2>7. IsFiniteSet(R \ {y}) /\ Cardinality(R \ {y}) \in Nat /\ Cardinality(R \ {y}) = n - 1
    BY <2>3, FS_RemoveElement, FS_CardinalityType
  <2>8. Sizes(table, R \ {c}) /\ Sizes(table, R \ {y}) /\ Sizes(table, (R \ {c}) \ {y})
    BY <2>3 DEF Sizes
  <2>a. ASSUME NEW Q, NEW z \in Q, IsFiniteSet(Q), Sizes(table, Q), Cardinality(Q) = n - 1
        PROVE  SumOf(table, Q) = SizeOf(table, z) + SumOf(table, Q \ {z})
    <3>1. Cardinality(Q) \in Nat /\ ~(n <= Cardinality(Q))
      BY <2>4, <2>a
    <3>2. Cardinality(Q) \notin T
      <4> HIDE DEF T
      <4> QED
        BY <2>1, <3>1
    <3> QED
      BY <2>a, <3>1, <3>2
  <2>9. SumOf(table, R \ {c}) = SizeOf(table, y) + SumOf(table, (R \ {c}) \ {y})
    <3>1. y \in R \ {c}
      BY <2>3, <2>6
    <3> QED
      BY <2>4, <2>8, <2>a, <3>1
  <2>10. SumOf(table, R \ {y}) = SizeOf(table, c) + SumOf(table, (R \ {y}) \ {c})
    <3>1. c \in R \ {y}
      BY <2>4, <2>6
    <3> QED
      BY <2>7, <2>8, <2>a, <3>1
  <2>11. (R \ {y}) \ {c} = (R \ {c}) \ {y}
    OBVIOUS
  <2>12. IsFiniteSet((R \ {c}) \ {y})
    BY <2>4, FS_RemoveElement
  <2>13. /\ SizeOf(table, c) \in Nat /\ SizeOf(table, y) \in Nat
         /\ SumOf(table, (R \ {c}) \ {y}) \in Nat
    BY <2>3, <2>4, <2>8, <2>12, SumNat DEF Sizes
  <2>14. SumOf(table, R) = SizeOf(table, c) + (SizeOf(table, y) + SumOf(table, (R \ {c}) \ {y}))
    BY <2>5, <2>9
  <2>15. SumOf(table, R \ {y}) = SizeOf(table, c) + SumOf(table, (R \ {c}) \ {y})
    BY <2>10, <2>11
  <2>16. SumOf(table, R) = SizeOf(table, y) + SumOf(table, R \ {y})
    BY <2>13, <2>14, <2>15
  <2> QED
    BY <2>3, <2>16
<1>2. Cardinality(S) \in Nat
  BY FS_CardinalityType
<1> HIDE DEF T
<1>3. Cardinality(S) \notin T
  BY <1>1
<1> QED
  BY <1>2, <1>3 DEF T

\* The sum of a set and of two parts of it.
LEMMA SumSplit ==
    ASSUME NEW table, NEW S, IsFiniteSet(S), Sizes(table, S), NEW A \in SUBSET S
    PROVE  /\ SumOf(table, A) \in Nat /\ SumOf(table, S \ A) \in Nat
           /\ SumOf(table, S) = SumOf(table, A) + SumOf(table, S \ A)
<1> DEFINE Split(B) == SumOf(table, S) = SumOf(table, B) + SumOf(table, S \ B)
           T == {n \in Nat : \E B \in SUBSET S : Cardinality(B) = n /\ ~Split(B)}
<1>1. \A B \in SUBSET S : /\ IsFiniteSet(B) /\ Cardinality(B) \in Nat /\ Sizes(table, B)
                          /\ SumOf(table, B) \in Nat
  <2> SUFFICES ASSUME NEW B \in SUBSET S
               PROVE  /\ IsFiniteSet(B) /\ Cardinality(B) \in Nat /\ Sizes(table, B)
                      /\ SumOf(table, B) \in Nat
    OBVIOUS
  <2>1. IsFiniteSet(B) /\ Cardinality(B) \in Nat
    BY FS_Subset, FS_CardinalityType
  <2>2. Sizes(table, B)
    BY DEF Sizes
  <2> QED
    BY <2>1, <2>2, SumNat
<1>2. T = {}
  <2> SUFFICES ASSUME T # {} PROVE FALSE
    OBVIOUS
  <2>1. PICK n \in T : \A k \in T : n <= k
    <3>1. T \subseteq Nat
      OBVIOUS
    <3> HIDE DEF T
    <3> QED
      BY <3>1, LeastElement
  <2>2. PICK B \in SUBSET S : Cardinality(B) = n /\ ~Split(B)
    OBVIOUS
  <2>3. B # {}
    <3>1. S \ {} = S /\ {} \in SUBSET S /\ SumOf(table, {}) = 0 /\ SumOf(table, S) \in Nat
      BY <1>1, SumStep
    <3>2. Split({})
      BY <3>1
    <3> QED
      BY <2>2, <3>2
  <2> DEFINE x == Some(B)
             C == B \ {x}
  <2>4. /\ x \in B /\ C \in SUBSET S /\ Cardinality(C) \in Nat
        /\ n \in Nat /\ Cardinality(C) = n - 1 /\ ~(n <= n - 1)
    BY <1>1, <2>2, <2>3, SomeProperties
  <2>5. Split(C)
    <3> HIDE DEF C, Split
    <3> QED
      BY <2>1, <2>4
  <2>6. SumOf(table, B) = SizeOf(table, x) + SumOf(table, C)
    BY <1>1, <2>4, SumRemove
  <2>7. SumOf(table, S \ C) = SizeOf(table, x) + SumOf(table, (S \ C) \ {x})
    <3>1. x \in S \ C /\ S \ C \in SUBSET S
      BY <2>4
    <3> HIDE DEF x, C
    <3> QED
      BY <1>1, <3>1, SumRemove
  <2>8. (S \ C) \ {x} = S \ B
    BY <2>4
  <2>9. /\ SizeOf(table, x) \in Nat /\ SumOf(table, C) \in Nat /\ SumOf(table, S \ B) \in Nat
    BY <1>1, <2>4 DEF Sizes
  <2> HIDE DEF x, C
  <2>10. SumOf(table, S \ C) = SizeOf(table, x) + SumOf(table, S \ B)
    BY <2>7, <2>8
  <2>11. SumOf(table, S) = SumOf(table, C) + SumOf(table, S \ C)
    BY <2>5
  <2>12. SumOf(table, S) = SumOf(table, B) + SumOf(table, S \ B)
    BY <2>6, <2>9, <2>10, <2>11
  <2> QED
    BY <2>2, <2>12
<1>3. Cardinality(A) \notin T
  BY <1>2
<1> QED
  BY <1>1, <1>3

\* A sum only depends on the sizes of what is summed.
LEMMA SumSame ==
    ASSUME NEW t, NEW u, NEW S, IsFiniteSet(S), \A s \in S : t[s] = u[s]
    PROVE  SumOf(t, S) = SumOf(u, S)
<1> DEFINE T == {n \in Nat : \E R \in SUBSET S : Cardinality(R) = n /\ SumOf(t, R) # SumOf(u, R)}
<1>1. \A R \in SUBSET S : IsFiniteSet(R) /\ Cardinality(R) \in Nat
  BY FS_Subset, FS_CardinalityType
<1>2. T = {}
  <2> SUFFICES ASSUME T # {} PROVE FALSE
    OBVIOUS
  <2>1. PICK n \in T : \A k \in T : n <= k
    <3>1. T \subseteq Nat
      OBVIOUS
    <3> HIDE DEF T
    <3> QED
      BY <3>1, LeastElement
  <2>2. PICK R \in SUBSET S : Cardinality(R) = n /\ SumOf(t, R) # SumOf(u, R)
    OBVIOUS
  <2>3. R # {}
    BY <2>2, SumStep
  <2> DEFINE Q == R \ {Some(R)}
  <2>4. /\ Some(R) \in R /\ Q \in SUBSET S /\ Cardinality(Q) \in Nat
        /\ n \in Nat /\ Cardinality(Q) = n - 1 /\ ~(n <= n - 1)
    BY <1>1, <2>2, <2>3, SomeProperties
  <2>5. SumOf(t, Q) = SumOf(u, Q)
    <3> HIDE DEF Q
    <3> QED
      BY <2>1, <2>4
  <2>6. SizeOf(t, Some(R)) = SizeOf(u, Some(R))
    BY <2>4 DEF SizeOf
  <2> QED
    BY <1>1, <2>2, <2>3, <2>5, <2>6, SumStep
<1>3. Cardinality(S) \notin T
  BY <1>2
<1> QED
  BY <1>1, <1>3
-----------------------------------------------------------------------------
(* Tables.                                                                 *)

Tables == [Slots -> Rows \cup {NoRow}]

\* A row has a size and a time; no row has neither.
LEMMA RowProperties ==
    /\ NoRow \notin Rows /\ estimated_size(NoRow) = 0
    /\ \A r \in Rows : /\ r.data \in Nat /\ r.headers \in Nat /\ r.associated \in Nat
                       /\ r.time \in Nat /\ estimated_size(r) \in Nat
<1>1. NoRow \notin Rows
  BY DEF NoRow, Rows
<1>2. estimated_size(NoRow) = 0
  BY DEF NoRow, estimated_size
<1>3. \A r \in Rows : /\ r.data \in Nat /\ r.headers \in Nat /\ r.associated \in Nat /\ r.time \in Nat
  BY CacheIndexAssumption DEF CacheIndexAssumption, Rows
<1>4. \A r \in Rows : estimated_size(r) \in Nat
  BY <1>3 DEF estimated_size
<1> QED
  BY <1>1, <1>2, <1>3, <1>4

\* What a table holds.
LEMMA TableProperties ==
    ASSUME NEW table \in Tables
    PROVE  /\ Stored(table) \subseteq Slots
           /\ \A s \in Slots : s \in Stored(table) <=> table[s] \in Rows
           /\ \A s \in Slots : s \notin Stored(table) <=> table[s] = NoRow
           /\ \A s \in Slots : SizeOf(table, s) \in Nat
           /\ \A s \in Slots : s \notin Stored(table) => SizeOf(table, s) = 0
           /\ \A S : S \subseteq Slots => Sizes(table, S)
<1>1. \A s \in Slots : table[s] \in Rows \/ table[s] = NoRow
  BY DEF Tables
<1>2. \A s \in Slots : SizeOf(table, s) \in Nat
  BY <1>1, RowProperties DEF SizeOf
<1>3. \A s \in Slots : s \in Stored(table) <=> table[s] # NoRow
  BY DEF Stored
<1>4. Stored(table) \subseteq Slots
  BY DEF Stored
<1>5. \A s \in Slots : s \notin Stored(table) => SizeOf(table, s) = 0
  BY <1>3, RowProperties DEF SizeOf
<1>6. \A S : S \subseteq Slots => Sizes(table, S)
  BY <1>2 DEF Sizes
<1> QED
  BY <1>1, <1>2, <1>3, <1>4, <1>5, <1>6, RowProperties

\* Rows are taken out.
LEMMA WithoutProperties ==
    ASSUME NEW table \in Tables, NEW S
    PROVE  /\ Without(table, S) \in Tables
           /\ Stored(Without(table, S)) = Stored(table) \ S
           /\ \A s \in Slots : s \notin S => Without(table, S)[s] = table[s]
<1>1. \A s \in Slots : Without(table, S)[s] = IF s \in S THEN NoRow ELSE table[s]
  BY DEF Without
<1>2. Without(table, S) \in Tables
  BY DEF Without, Tables
<1>3. Stored(Without(table, S)) = Stored(table) \ S
  BY <1>1 DEF Stored
<1> QED
  BY <1>1, <1>2, <1>3

Written(table, s, r) == [table EXCEPT ![s] = r]

\* One row is written: the sum changes by what the row had and what it has.
LEMMA WriteProperties ==
    ASSUME NEW table \in Tables, IsFiniteSet(Stored(table)), NEW s \in Slots, NEW r \in Rows
    PROVE  LET new == Written(table, s, r) IN
           /\ new \in Tables /\ new[s] = r /\ \A t \in Slots : t # s => new[t] = table[t]
           /\ Stored(new) = Stored(table) \cup {s} /\ IsFiniteSet(Stored(new))
           /\ SumOf(table, Stored(table)) \in Nat /\ SizeOf(table, s) \in Nat
           /\ SumOf(new, Stored(new)) =
                SumOf(table, Stored(table)) - SizeOf(table, s) + estimated_size(r)
<1> DEFINE new == Written(table, s, r)
           P == Stored(table) \ {s}
<1>1. new \in Tables /\ new[s] = r /\ \A t \in Slots : t # s => new[t] = table[t]
  BY DEF Tables, Written
<1>2. Stored(new) = Stored(table) \cup {s}
  BY <1>1, RowProperties DEF Stored
<1>3. IsFiniteSet(Stored(new))
  BY <1>2, FS_AddElement
<1>4. IsFiniteSet(P) /\ P \subseteq Slots
  BY FS_RemoveElement DEF Stored
<1> HIDE DEF new
<1>5. SumOf(table, P) \in Nat /\ SizeOf(table, s) \in Nat /\ estimated_size(r) \in Nat
  BY <1>4, SumNat, TableProperties, RowProperties
<1>6. SumOf(table, Stored(table)) = SizeOf(table, s) + SumOf(table, P)
  <2>1. CASE s \in Stored(table)
    BY <2>1, SumRemove, TableProperties
  <2>2. CASE s \notin Stored(table)
    <3>1. P = Stored(table) /\ SizeOf(table, s) = 0
      BY <2>2, TableProperties
    <3> HIDE DEF P
    <3> QED
      BY <1>5, <3>1
  <2> QED
    BY <2>1, <2>2
<1>7. SumOf(new, Stored(new)) = SizeOf(new, s) + SumOf(new, Stored(new) \ {s})
  <2>1. s \in Stored(new) /\ Sizes(new, Stored(new))
    BY <1>1, <1>2, TableProperties
  <2> QED
    BY <1>3, <2>1, SumRemove
<1>8. Stored(new) \ {s} = P
  BY <1>2
<1>9. SumOf(new, P) = SumOf(table, P)
  <2>1. \A t \in P : new[t] = table[t]
    BY <1>1, <1>4
  <2> HIDE DEF P
  <2> QED
    BY <1>4, <2>1, SumSame
<1>10. SizeOf(new, s) = estimated_size(r)
  BY <1>1 DEF SizeOf
<1>11. SumOf(new, Stored(new)) = estimated_size(r) + SumOf(table, P)
  BY <1>7, <1>8, <1>9, <1>10
<1> HIDE DEF P
<1>12. SumOf(new, Stored(new)) = SumOf(table, Stored(table)) - SizeOf(table, s) + estimated_size(r)
  BY <1>5, <1>6, <1>11
<1>13. SumOf(table, Stored(table)) \in Nat
  BY <1>5, <1>6
<1> QED
  BY <1>1, <1>2, <1>3, <1>5, <1>12, <1>13 DEF new
-----------------------------------------------------------------------------
(* The inductive invariant.                                                *)

\* An entry of the size that is allowed fits the cache.
LimitsAgree == limits.entry <= limits.cache

\* m_entries and the keys it has, of a table.
Cached(table, memory, keys) ==
    \A s \in Slots : memory[s] # NoRow => memory[s] = table[s] /\ s[1] \in keys

CacheIndexInv ==
    /\ TypeOK
    /\ IsFiniteSet(Stored(rows))
    /\ LimitsAgree
    /\ TotalIsSum
    /\ EntriesAreRows

\* The limits that compute_limits gives.
LEMMA LimitsProperties ==
    ASSUME NEW n \in Settings
    PROVE  Limits(n) \in [cache : Nat, entry : Nat] /\ Limits(n).entry <= Limits(n).cache
<1> DEFINE m == IF n < FreeShare THEN n ELSE FreeShare
<1>1. m \in Nat /\ EntryShare \in Nat \ {0}
  BY CacheIndexAssumption DEF CacheIndexAssumption
<1>2. m \div EntryShare \in Nat /\ m \div EntryShare <= m
  <2> HIDE DEF m
  <2> QED
    BY <1>1
<1>3. Limits(n) = [cache |-> m, entry |-> m \div EntryShare]
  BY DEF Limits
<1> HIDE DEF m
<1> QED
  BY <1>1, <1>2, <1>3

\* What DELETE ... RETURNING removes leaves the total and the entries right, whether rows are
\* removed as such or to make room.
LEMMA RemoveKeepsInv ==
    ASSUME NEW table \in Tables, NEW memory \in Tables, NEW keys, keys \subseteq Keys,
           NEW size, NEW S, S \subseteq Slots, IsFiniteSet(Stored(table)),
           size = SumOf(table, Stored(table)), Cached(table, memory, keys),
           limits \in [cache : Nat, entry : Nat], LimitsAgree, UNCHANGED limits,
           rows' = Without(table, S), entries' = Without(memory, S),
           total' = size - SumOf(table, S \cap Stored(table)),
           loaded' = keys \ {k \in Keys : /\ \E s \in S : s[1] = k
                                          /\ \A s \in Stored(memory) : s[1] = k => s \in S}
    PROVE  CacheIndexInv' /\ total' = SumOf(table, Stored(table) \ S)
<1> DEFINE A == S \cap Stored(table)
<1>1. /\ rows' \in Tables /\ Stored(rows') = Stored(table) \ S
      /\ \A s \in Slots : s \notin S => rows'[s] = table[s]
  BY WithoutProperties
<1>2. /\ entries' \in Tables /\ Stored(entries') = Stored(memory) \ S
      /\ \A s \in Slots : s \notin S => entries'[s] = memory[s]
  BY WithoutProperties
<1>3. Stored(table) \ A = Stored(table) \ S /\ A \in SUBSET Stored(table)
  OBVIOUS
<1>4. /\ SumOf(table, A) \in Nat /\ SumOf(table, Stored(table) \ S) \in Nat
      /\ size = SumOf(table, A) + SumOf(table, Stored(table) \ S)
  <2>1. Sizes(table, Stored(table))
    BY TableProperties
  <2>2. /\ SumOf(table, A) \in Nat /\ SumOf(table, Stored(table) \ A) \in Nat
        /\ SumOf(table, Stored(table)) = SumOf(table, A) + SumOf(table, Stored(table) \ A)
    <3> HIDE DEF A
    <3> QED
      BY <1>3, <2>1, SumSplit
  <2> QED
    BY <1>3, <2>2
<1>5. total' = SumOf(table, Stored(table) \ S)
  <2>1. total' = size - SumOf(table, A)
    OBVIOUS
  <2> HIDE DEF A
  <2> QED
    BY <1>4, <2>1
<1>6. IsFiniteSet(Stored(rows'))
  BY <1>1, FS_Subset
<1>7. total' = SumOf(rows', Stored(rows'))
  <2>1. \A s \in Stored(rows') : rows'[s] = table[s]
    BY <1>1, TableProperties
  <2>2. SumOf(rows', Stored(rows')) = SumOf(table, Stored(rows'))
    BY <1>6, <2>1, SumSame
  <2> QED
    BY <1>1, <1>5, <2>2
<1>8. \A s \in Slots : entries'[s] # NoRow => entries'[s] = rows'[s] /\ s[1] \in loaded'
  <2> SUFFICES ASSUME NEW s \in Slots, entries'[s] # NoRow
               PROVE  entries'[s] = rows'[s] /\ s[1] \in loaded'
    OBVIOUS
  <2>1. s \in Stored(memory) /\ s \notin S
    BY <1>2 DEF Stored
  <2>2. memory[s] # NoRow
    BY <2>1 DEF Stored
  <2>3. entries'[s] = rows'[s] /\ s[1] \in keys
    BY <1>1, <1>2, <2>1, <2>2 DEF Cached
  <2>4. s[1] \in loaded'
    BY <2>1, <2>3
  <2> QED
    BY <2>3, <2>4
<1>9. TypeOK'
  BY <1>1, <1>2, <1>4, <1>5 DEF TypeOK, Tables
<1>10. EntriesAreRows'
  BY <1>8 DEF EntriesAreRows, has_entry
<1>11. TotalIsSum' /\ IsFiniteSet(Stored(rows))' /\ LimitsAgree'
  BY <1>6, <1>7 DEF TotalIsSum, LimitsAgree, Stored
<1> QED
  BY <1>5, <1>9, <1>10, <1>11 DEF CacheIndexInv

\* remove_entries_exceeding_cache_limit keeps the invariant; what is left fits, and was
\* accessed after all that went.
LEMMA EvictKeepsInv ==
    ASSUME NEW table \in Tables, NEW memory \in Tables, NEW keys, keys \subseteq Keys,
           NEW size, IsFiniteSet(Stored(table)), size = SumOf(table, Stored(table)),
           Cached(table, memory, keys), limits \in [cache : Nat, entry : Nat], LimitsAgree,
           EvictFrom(table, memory, keys, size)
    PROVE  /\ CacheIndexInv' /\ total' <= limits.cache
           /\ \A s \in Slots : rows'[s] = table[s] \/ rows'[s] = NoRow
           /\ \A s \in Stored(table) : rows'[s] = NoRow => Cumulative(table, s) > limits.cache
           /\ \A s \in Stored(table), t \in Slots :
                 rows'[s] = NoRow /\ rows'[t] # NoRow => table[s].time < table[t].time
<1> DEFINE S == IF size > limits.cache THEN Exceeding(table) ELSE {}
           Since(s) == {t \in Stored(table) : table[t].time >= table[s].time}
           L == limits.cache
<1>1. /\ rows' = Without(table, S) /\ total' = size - SumOf(table, S)
      /\ entries' = Without(memory, S) /\ UNCHANGED limits
      /\ loaded' = keys \ {k \in Keys : /\ \E s \in S : s[1] = k
                                        /\ \A s \in Stored(memory) : s[1] = k => s \in S}
  BY DEF EvictFrom
<1>2. S \subseteq Stored(table) /\ Stored(table) \subseteq Slots
  BY DEF Exceeding, Stored
<1>3. size \in Nat /\ L \in Nat
  <2>1. SumOf(table, Stored(table)) \in Nat
    BY SumNat, TableProperties
  <2> QED
    BY <2>1
<1>4. \A s \in Stored(table) : Cumulative(table, s) = SumOf(table, Since(s))
  BY DEF Cumulative
<1>5. \A s \in Stored(table) : s \in S => Cumulative(table, s) > L
  BY DEF Exceeding
<1>6. size > L => \A s \in Stored(table) : s \notin S => ~(Cumulative(table, s) > L)
  BY DEF Exceeding
<1>7. ~(size > L) => S = {}
  OBVIOUS
<1> HIDE DEF S, L
<1>8. CacheIndexInv' /\ total' = SumOf(table, Stored(table) \ S)
  <2>1. S \cap Stored(table) = S /\ S \subseteq Slots
    BY <1>2
  <2>2. total' = size - SumOf(table, S \cap Stored(table))
    BY <1>1, <2>1
  <2> QED
    BY <1>1, <2>1, <2>2, RemoveKeepsInv
<1>9. /\ \A s \in Slots : s \notin S => rows'[s] = table[s]
      /\ Stored(rows') = Stored(table) \ S /\ rows' \in Tables
  BY <1>1, WithoutProperties
<1>10. \A s \in Slots : rows'[s] = NoRow <=> s \notin Stored(table) \ S
  BY <1>9, TableProperties
<1>11. \A s \in Stored(table) : table[s].time \in Nat
  BY TableProperties, RowProperties
\* The sums of parts of the table are ordered as the parts are.
<1>12. ASSUME NEW A, NEW B \in SUBSET A, A \subseteq Stored(table)
       PROVE  SumOf(table, A) \in Nat /\ SumOf(table, B) \in Nat /\ SumOf(table, B) <= SumOf(table, A)
  <2>1. IsFiniteSet(A) /\ Sizes(table, A)
    BY <1>12, FS_Subset, TableProperties
  <2>2. /\ SumOf(table, B) \in Nat /\ SumOf(table, A \ B) \in Nat
        /\ SumOf(table, A) = SumOf(table, B) + SumOf(table, A \ B)
    BY <2>1, SumSplit
  <2> QED
    BY <2>2
<1>13. ASSUME NEW s \in Stored(table), NEW t \in Stored(table), s \in S, t \notin S
       PROVE  table[s].time < table[t].time
  <2> SUFFICES ASSUME ~(table[s].time < table[t].time) PROVE FALSE
    OBVIOUS
  <2>1. Since(s) \subseteq Since(t) /\ Since(t) \subseteq Stored(table)
    BY <1>11
  <2> HIDE DEF Since
  <2>2. /\ SumOf(table, Since(t)) \in Nat /\ SumOf(table, Since(s)) \in Nat
        /\ SumOf(table, Since(s)) <= SumOf(table, Since(t))
    BY <1>12, <2>1
  <2>3. SumOf(table, Since(s)) > L
    BY <1>4, <1>5, <1>13
  <2>4. size > L
    BY <1>7, <1>13
  <2>5. ~(SumOf(table, Since(t)) > L)
    BY <1>4, <1>6, <1>13, <2>4
  <2> QED
    BY <1>3, <2>2, <2>3, <2>5
<1>14. total' <= L
  <2>1. CASE ~(size > L)
    <3>1. S = {} /\ Stored(table) \ S = Stored(table)
      BY <1>7, <2>1
    <3>2. total' = size
      BY <1>8, <3>1
    <3> QED
      BY <1>3, <2>1, <3>2
  <2>2. CASE size > L
    <3> DEFINE K == Stored(table) \ S
               Ages == {table[s].time : s \in K}
    <3>1. CASE K = {}
      <4>1. total' = 0
        BY <1>8, <3>1, SumStep
      <4> QED
        BY <1>3, <4>1
    <3>2. CASE K # {}
      \* The oldest row that stays counts all that stay.
      <4>1. Ages \subseteq Nat /\ Ages # {}
        BY <1>11, <3>2
      <4>2. PICK a \in Ages : \A b \in Ages : a <= b
        <5> HIDE DEF Ages
        <5> QED
          BY <4>1, LeastElement
      <4>3. PICK t \in K : table[t].time = a
        BY <4>2
      <4>4. \A s \in K : table[s].time >= table[t].time
        <5>1. \A s \in K : table[s].time \in Ages /\ table[s].time \in Nat
          BY <1>11
        <5> QED
          BY <4>2, <4>3, <5>1
      <4>5. K \subseteq Since(t) /\ Since(t) \subseteq Stored(table)
        BY <4>4
      <4> HIDE DEF Since
      <4>6. /\ SumOf(table, Since(t)) \in Nat /\ SumOf(table, K) \in Nat
            /\ SumOf(table, K) <= SumOf(table, Since(t))
        <5> HIDE DEF K
        <5> QED
          BY <1>12, <4>5
      <4>7. ~(SumOf(table, Since(t)) > L)
        BY <1>4, <1>6, <2>2, <4>3
      <4>8. total' = SumOf(table, K)
        BY <1>8
      <4> HIDE DEF K
      <4> QED
        BY <1>3, <4>6, <4>7, <4>8
    <3> QED
      BY <3>1, <3>2
  <2> QED
    BY <2>1, <2>2
<1>15. \A s \in Stored(table), t \in Slots :
          rows'[s] = NoRow /\ rows'[t] # NoRow => table[s].time < table[t].time
  BY <1>2, <1>10, <1>13
<1>16. \A s \in Stored(table) : rows'[s] = NoRow => Cumulative(table, s) > L
  BY <1>2, <1>5, <1>10
<1>17. \A s \in Slots : rows'[s] = table[s] \/ rows'[s] = NoRow
  BY <1>9, <1>10
<1> QED
  BY <1>8, <1>14, <1>15, <1>16, <1>17 DEF L
-----------------------------------------------------------------------------
(* The operations.                                                         *)

\* create_entry, seen as a write and an eviction.
LEMMA CreateEntryWrites ==
    ASSUME CacheIndexInv, NEW s \in Slots, NEW e \in NewRows, create_entry(s, e)
    PROVE  LET table == [rows EXCEPT ![s] = e]
               memory == [entries EXCEPT ![s] = e]
               size == total - estimated_size(rows[s]) + estimated_size(e)
           IN  /\ table \in Tables /\ memory \in Tables /\ IsFiniteSet(Stored(table))
               /\ Stored(table) = Stored(rows) \cup {s} /\ table[s] = e
               /\ \A t \in Slots : t # s => table[t] = rows[t]
               /\ loaded \cup {s[1]} \subseteq Keys /\ size = SumOf(table, Stored(table))
               /\ Cached(table, memory, loaded \cup {s[1]})
               /\ EvictFrom(table, memory, loaded \cup {s[1]}, size)
               /\ e \in Rows /\ estimated_size(e) <= limits.entry
<1> DEFINE table == [rows EXCEPT ![s] = e]
           memory == [entries EXCEPT ![s] = e]
<1>1. e \in Rows
  BY DEF NewRows
<1>2. rows \in Tables /\ entries \in Tables /\ loaded \subseteq Keys /\ IsFiniteSet(Stored(rows))
  BY DEF CacheIndexInv, TypeOK, Tables
<1>3. /\ table \in Tables /\ table[s] = e /\ \A t \in Slots : t # s => table[t] = rows[t]
      /\ Stored(table) = Stored(rows) \cup {s} /\ IsFiniteSet(Stored(table))
      /\ SumOf(table, Stored(table)) =
            SumOf(rows, Stored(rows)) - SizeOf(rows, s) + estimated_size(e)
  <2>1. table = Written(rows, s, e)
    BY DEF Written
  <2> HIDE DEF table
  <2> QED
    BY <1>1, <1>2, <2>1, WriteProperties
<1>4. memory \in Tables /\ memory[s] = e /\ \A t \in Slots : t # s => memory[t] = entries[t]
  BY <1>1, <1>2 DEF Tables
<1>5. s[1] \in Keys
  BY DEF Slots
<1>6. total - estimated_size(rows[s]) + estimated_size(e) = SumOf(table, Stored(table))
  BY <1>3 DEF CacheIndexInv, TotalIsSum, SizeOf
<1>7. Cached(table, memory, loaded \cup {s[1]})
  <2> HIDE DEF table, memory
  <2> QED
    BY <1>3, <1>4 DEF Cached, CacheIndexInv, EntriesAreRows, has_entry
<1>8. /\ EvictFrom(table, memory, loaded \cup {s[1]},
                   total - estimated_size(rows[s]) + estimated_size(e))
      /\ estimated_size(e) <= limits.entry
  BY DEF create_entry
<1> QED
  BY <1>1, <1>2, <1>3, <1>4, <1>5, <1>6, <1>7, <1>8

\* A field of an entry changes, in the table and in memory.
LEMMA UpdateProperties ==
    ASSUME CacheIndexInv, NEW s \in Slots, has_entry(s), NEW r \in Rows
    PROVE  LET table == [rows EXCEPT ![s] = r]
               memory == [entries EXCEPT ![s] = r]
           IN  /\ table \in Tables /\ memory \in Tables
               /\ Stored(table) = Stored(rows) /\ IsFiniteSet(Stored(table))
               /\ \A t \in Slots : t # s => table[t] = rows[t]
               /\ table[s] = r /\ memory[s] = r /\ Cached(table, memory, loaded)
               /\ SumOf(table, Stored(table)) =
                     total - estimated_size(entries[s]) + estimated_size(r)
<1> DEFINE table == [rows EXCEPT ![s] = r]
           memory == [entries EXCEPT ![s] = r]
<1>1. rows \in Tables /\ entries \in Tables /\ IsFiniteSet(Stored(rows))
  BY DEF CacheIndexInv, TypeOK, Tables
<1>2. entries[s] = rows[s] /\ entries[s] # NoRow /\ s[1] \in loaded
  BY DEF CacheIndexInv, EntriesAreRows, has_entry
<1>3. s \in Stored(rows)
  BY <1>2 DEF Stored
<1>4. /\ table \in Tables /\ table[s] = r /\ \A t \in Slots : t # s => table[t] = rows[t]
      /\ Stored(table) = Stored(rows) \cup {s} /\ IsFiniteSet(Stored(table))
      /\ SumOf(table, Stored(table)) =
            SumOf(rows, Stored(rows)) - SizeOf(rows, s) + estimated_size(r)
  <2>1. table = Written(rows, s, r)
    BY DEF Written
  <2> HIDE DEF table
  <2> QED
    BY <1>1, <2>1, WriteProperties
<1>5. memory \in Tables /\ memory[s] = r /\ \A t \in Slots : t # s => memory[t] = entries[t]
  BY <1>1 DEF Tables
<1>6. Stored(table) = Stored(rows)
  BY <1>3, <1>4
<1>7. SumOf(table, Stored(table)) = total - estimated_size(entries[s]) + estimated_size(r)
  BY <1>2, <1>4 DEF CacheIndexInv, TotalIsSum, SizeOf
<1>8. Cached(table, memory, loaded)
  <2> HIDE DEF table, memory
  <2> QED
    BY <1>2, <1>4, <1>5 DEF Cached, CacheIndexInv, EntriesAreRows, has_entry
<1> QED
  BY <1>4, <1>5, <1>6, <1>7, <1>8

\* An entry that is updated is a row of the table.
LEMMA EntryIsRow ==
    ASSUME CacheIndexInv, NEW s \in Slots, has_entry(s)
    PROVE  entries[s] \in Rows /\ entries[s] = rows[s]
<1>1. entries \in Tables /\ entries[s] # NoRow /\ entries[s] = rows[s]
  BY DEF CacheIndexInv, TypeOK, Tables, EntriesAreRows, has_entry
<1> QED
  BY <1>1 DEF Tables

\* update_associated_data_size, seen as a write and an eviction.
LEMMA UpdateAssociatedWrites ==
    ASSUME CacheIndexInv, NEW s \in Slots, update_associated_data_size(s)
    PROVE  \E table \in Tables, memory \in Tables :
              /\ Stored(table) = Stored(rows) /\ IsFiniteSet(Stored(table))
              /\ \A t \in Stored(rows) : table[t].time = rows[t].time
              /\ Cached(table, memory, loaded)
              /\ EvictFrom(table, memory, loaded, SumOf(table, Stored(table)))
<1>1. has_entry(s)
  BY DEF update_associated_data_size
<1>2. PICK n \in AssociatedSizes :
        EvictFrom([rows EXCEPT ![s].associated = n], [entries EXCEPT ![s].associated = n],
                  loaded, total - entries[s].associated + n)
  BY DEF update_associated_data_size
<1> DEFINE r == [entries[s] EXCEPT !.associated = n]
           table == [rows EXCEPT ![s] = r]
           memory == [entries EXCEPT ![s] = r]
           size == total - entries[s].associated + n
<1>3. entries[s] \in Rows /\ entries[s] = rows[s]
  BY <1>1, EntryIsRow
<1>4. r \in Rows
  BY <1>3 DEF Rows
<1>5. r.time = rows[s].time /\ r.data = entries[s].data /\ r.headers = entries[s].headers /\ r.associated = n
  BY <1>3 DEF Rows
<1>6. [rows EXCEPT ![s].associated = n] = table /\ [entries EXCEPT ![s].associated = n] = memory
  BY <1>3
<1>7. entries[s].data \in Nat /\ entries[s].headers \in Nat /\ entries[s].associated \in Nat /\ n \in Nat
  BY <1>3, RowProperties, CacheIndexAssumption DEF CacheIndexAssumption
<1> HIDE DEF r
<1>8. /\ table \in Tables /\ memory \in Tables
      /\ Stored(table) = Stored(rows) /\ IsFiniteSet(Stored(table))
      /\ \A t \in Slots : t # s => table[t] = rows[t]
      /\ table[s] = r /\ Cached(table, memory, loaded)
      /\ SumOf(table, Stored(table)) = total - estimated_size(entries[s]) + estimated_size(r)
  BY <1>1, <1>4, UpdateProperties
<1>9. total \in Nat
  BY DEF CacheIndexInv, TypeOK
<1>10. total - estimated_size(entries[s]) + estimated_size(r) = size
  BY <1>5, <1>7, <1>9 DEF estimated_size
<1>11. \A t \in Stored(rows) : table[t].time = rows[t].time
  BY <1>5, <1>8 DEF Stored
<1>12. EvictFrom(table, memory, loaded, size)
  BY <1>2, <1>6
<1> HIDE DEF table, memory, size
<1> QED
  BY <1>8, <1>10, <1>11, <1>12

\* Every operation of the index keeps the invariant.
LEMMA CacheIndexNext == CacheIndexInv /\ [Next]_vars => CacheIndexInv'
<1> SUFFICES ASSUME CacheIndexInv, [Next]_vars PROVE CacheIndexInv'
  OBVIOUS
<1>t. /\ rows \in Tables /\ entries \in Tables /\ loaded \subseteq Keys /\ total \in Nat
      /\ limits \in [cache : Nat, entry : Nat] /\ LimitsAgree /\ IsFiniteSet(Stored(rows))
      /\ total = SumOf(rows, Stored(rows)) /\ Cached(rows, entries, loaded)
  BY DEF CacheIndexInv, TypeOK, Tables, TotalIsSum, EntriesAreRows, has_entry, Cached
<1>1. ASSUME NEW s \in Slots, NEW e \in NewRows, create_entry(s, e) PROVE CacheIndexInv'
  <2> DEFINE table == [rows EXCEPT ![s] = e]
             memory == [entries EXCEPT ![s] = e]
             size == total - estimated_size(rows[s]) + estimated_size(e)
             keys == loaded \cup {s[1]}
  <2>1. /\ table \in Tables /\ memory \in Tables /\ IsFiniteSet(Stored(table))
        /\ keys \subseteq Keys /\ size = SumOf(table, Stored(table))
        /\ Cached(table, memory, keys) /\ EvictFrom(table, memory, keys, size)
    BY <1>1, CreateEntryWrites
  <2> HIDE DEF table, memory, size, keys
  <2> QED
    BY <1>t, <2>1, EvictKeepsInv
<1>2. ASSUME NEW s \in Slots, update_associated_data_size(s) PROVE CacheIndexInv'
  <2>1. PICK table \in Tables, memory \in Tables :
              /\ Stored(table) = Stored(rows) /\ IsFiniteSet(Stored(table))
              /\ \A t \in Stored(rows) : table[t].time = rows[t].time
              /\ Cached(table, memory, loaded)
              /\ EvictFrom(table, memory, loaded, SumOf(table, Stored(table)))
    BY <1>2, UpdateAssociatedWrites
  <2> QED
    BY <1>t, <2>1, EvictKeepsInv
<1>3. ASSUME NEW S, S \subseteq Slots, RemoveRows(S) PROVE CacheIndexInv'
  <2>1. /\ rows' = Without(rows, S) /\ total' = total - SumOf(rows, S \cap Stored(rows))
        /\ entries' = Without(entries, S) /\ UNCHANGED limits
        /\ loaded' = loaded \ {k \in Keys : /\ \E s \in S : s[1] = k
                                            /\ \A s \in Stored(entries) : s[1] = k => s \in S}
    BY <1>3 DEF RemoveRows, KeysLeft
  <2> QED
    BY <1>3, <1>t, <2>1, RemoveKeepsInv
<1>4. ASSUME NEW s \in Slots, has_entry(s), NEW r \in Rows,
             rows' = [rows EXCEPT ![s] = r], entries' = [entries EXCEPT ![s] = r],
             total' = total - estimated_size(entries[s]) + estimated_size(r),
             UNCHANGED <<loaded, limits>>
      PROVE  CacheIndexInv'
  <2>1. /\ rows' \in Tables /\ entries' \in Tables /\ IsFiniteSet(Stored(rows'))
        /\ Cached(rows', entries', loaded) /\ total' = SumOf(rows', Stored(rows'))
    BY <1>4, UpdateProperties
  <2>2. total' \in Nat
    <3>1. Sizes(rows', Stored(rows'))
      BY <2>1, TableProperties
    <3> QED
      BY <2>1, <3>1, SumNat
  <2>3. TypeOK'
    BY <1>4, <1>t, <2>1, <2>2 DEF TypeOK, Tables
  <2>4. EntriesAreRows' /\ TotalIsSum' /\ LimitsAgree'
    BY <1>4, <1>t, <2>1 DEF EntriesAreRows, has_entry, Cached, TotalIsSum, LimitsAgree, Stored
  <2>5. IsFiniteSet(Stored(rows))'
    BY <2>1 DEF Stored
  <2> QED
    BY <2>3, <2>4, <2>5 DEF CacheIndexInv
<1>5. ASSUME NEW s \in Slots, update_response_headers(s) PROVE CacheIndexInv'
  <2>1. PICK n \in HeaderSizes : /\ rows' = [rows EXCEPT ![s].headers = n]
                                 /\ entries' = [entries EXCEPT ![s].headers = n]
                                 /\ total' = total - entries[s].headers + n
    BY <1>5 DEF update_response_headers
  <2> DEFINE r == [entries[s] EXCEPT !.headers = n]
  <2>2. has_entry(s) /\ UNCHANGED <<loaded, limits>>
    BY <1>5 DEF update_response_headers
  <2>3. entries[s] \in Rows /\ entries[s] = rows[s]
    BY <2>2, EntryIsRow
  <2>4. r \in Rows /\ r.data = entries[s].data /\ r.associated = entries[s].associated /\ r.headers = n
    BY <2>3 DEF Rows
  <2>5. rows' = [rows EXCEPT ![s] = r] /\ entries' = [entries EXCEPT ![s] = r]
    BY <2>1, <2>3
  <2>6. entries[s].data \in Nat /\ entries[s].headers \in Nat /\ entries[s].associated \in Nat /\ n \in Nat
    BY <2>3, RowProperties, CacheIndexAssumption DEF CacheIndexAssumption
  <2> HIDE DEF r
  <2>7. total' = total - estimated_size(entries[s]) + estimated_size(r)
    BY <1>t, <2>1, <2>4, <2>6 DEF estimated_size
  <2> QED
    BY <1>4, <2>2, <2>4, <2>5, <2>7
<1>6. ASSUME NEW s \in Slots, update_last_access_time(s) PROVE CacheIndexInv'
  <2>1. PICK now \in Times : /\ rows' = [rows EXCEPT ![s].time = now]
                             /\ entries' = [entries EXCEPT ![s].time = now]
    BY <1>6 DEF update_last_access_time
  <2> DEFINE r == [entries[s] EXCEPT !.time = now]
  <2>2. has_entry(s) /\ UNCHANGED <<loaded, total, limits>>
    BY <1>6 DEF update_last_access_time
  <2>3. entries[s] \in Rows /\ entries[s] = rows[s]
    BY <2>2, EntryIsRow
  <2>4. /\ r \in Rows /\ r.data = entries[s].data /\ r.associated = entries[s].associated
        /\ r.headers = entries[s].headers
    BY <2>3 DEF Rows
  <2>5. rows' = [rows EXCEPT ![s] = r] /\ entries' = [entries EXCEPT ![s] = r]
    BY <2>1, <2>3
  <2>6. estimated_size(entries[s]) \in Nat
    BY <2>3, RowProperties
  <2> HIDE DEF r
  <2>7. total' = total - estimated_size(entries[s]) + estimated_size(r)
    <3>1. estimated_size(r) = estimated_size(entries[s])
      BY <2>4 DEF estimated_size
    <3> QED
      BY <1>t, <2>2, <2>6, <3>1
  <2> QED
    BY <1>4, <2>2, <2>4, <2>5, <2>7
<1>7. ASSUME NEW k \in Keys, find_entry(k) PROVE CacheIndexInv'
  <2>1. /\ UNCHANGED <<rows, total, limits>> /\ loaded' = loaded \cup {k}
        /\ entries' = [s \in Slots |-> IF s[1] = k THEN rows[s] ELSE entries[s]]
    BY <1>7 DEF find_entry
  <2>2. entries' \in Tables
    BY <1>t, <2>1 DEF Tables
  <2>3. Cached(rows', entries', loaded')
    BY <1>t, <2>1 DEF Cached
  <2>4. TypeOK'
    BY <1>t, <2>1, <2>2 DEF TypeOK, Tables
  <2>5. EntriesAreRows'
    BY <2>3 DEF EntriesAreRows, has_entry, Cached
  <2>6. TotalIsSum' /\ LimitsAgree' /\ IsFiniteSet(Stored(rows))'
    BY <1>t, <2>1 DEF TotalIsSum, LimitsAgree, Stored
  <2> QED
    BY <2>4, <2>5, <2>6 DEF CacheIndexInv
<1>8. CASE set_maximum_disk_cache_size
  <2>1. PICK n \in Settings : limits' = Limits(n)
    BY <1>8 DEF set_maximum_disk_cache_size
  <2>2. limits' \in [cache : Nat, entry : Nat] /\ limits'.entry <= limits'.cache
    BY <2>1, LimitsProperties
  <2>3. UNCHANGED <<rows, entries, loaded, total>>
    BY <1>8 DEF set_maximum_disk_cache_size
  <2> QED
    BY <2>2, <2>3 DEF CacheIndexInv, TypeOK, LimitsAgree, TotalIsSum, EntriesAreRows, has_entry,
                      Stored
<1>9. CASE Create
  <2>1. PICK n \in Settings : limits' = Limits(n)
    BY <1>9 DEF Create
  <2>2. limits' \in [cache : Nat, entry : Nat] /\ limits'.entry <= limits'.cache
    BY <2>1, LimitsProperties
  <2>3. /\ rows' \in {rows, [s \in Slots |-> NoRow]} /\ entries' = [s \in Slots |-> NoRow]
        /\ loaded' = {} /\ total' = SumOf(rows', Stored(rows'))
    BY <1>9 DEF Create
  <2>4. [s \in Slots |-> NoRow] \in Tables /\ Stored([s \in Slots |-> NoRow]) = {}
    BY DEF Tables, Stored
  <2>5. rows' \in Tables /\ IsFiniteSet(Stored(rows'))
    BY <1>t, <2>3, <2>4, FS_EmptySet
  <2>6. total' \in Nat
    <3>1. Sizes(rows', Stored(rows'))
      BY <2>5, TableProperties
    <3> QED
      BY <2>3, <2>5, <3>1, SumNat
  <2>7. TypeOK'
    BY <2>2, <2>3, <2>4, <2>5, <2>6 DEF TypeOK, Tables
  <2>8. EntriesAreRows' /\ TotalIsSum' /\ LimitsAgree' /\ IsFiniteSet(Stored(rows))'
    BY <2>2, <2>3, <2>5 DEF EntriesAreRows, has_entry, TotalIsSum, LimitsAgree, Stored
  <2> QED
    BY <2>7, <2>8 DEF CacheIndexInv
<1>10. CASE UNCHANGED vars
  BY <1>10 DEF vars, CacheIndexInv, TypeOK, LimitsAgree, TotalIsSum, EntriesAreRows, has_entry, Stored
<1>11. ASSUME NEW s \in Slots, remove_entry(s) PROVE CacheIndexInv'
  BY <1>3, <1>11 DEF remove_entry
<1>12. CASE remove_entries_accessed_since
  <2>1. PICK since \in Times : RemoveRows({s \in Stored(rows) : rows[s].time >= since})
    BY <1>12 DEF remove_entries_accessed_since
  <2>2. {s \in Stored(rows) : rows[s].time >= since} \subseteq Slots
    BY DEF Stored
  <2> QED
    BY <1>3, <2>1, <2>2
<1> QED
  BY <1>1, <1>2, <1>5, <1>6, <1>7, <1>8, <1>9, <1>10, <1>11, <1>12 DEF Next
-----------------------------------------------------------------------------
(* The theorems.                                                           *)

\* The invariant holds whatever is stored, looked up, updated, removed and evicted, and
\* however often RequestServer is started again.
THEOREM CacheIndexInvariance == Spec => []CacheIndexInv
<1>1. Init => CacheIndexInv
  <2> SUFFICES ASSUME Init PROVE CacheIndexInv
    OBVIOUS
  <2>1. PICK n \in Settings : limits = Limits(n)
    BY DEF Init
  <2>2. limits \in [cache : Nat, entry : Nat] /\ LimitsAgree
    BY <2>1, LimitsProperties DEF LimitsAgree
  <2>3. Stored(rows) = {}
    BY DEF Init, Stored
  <2>4. TotalIsSum /\ IsFiniteSet(Stored(rows))
    BY <2>3, SumStep, FS_EmptySet DEF Init, TotalIsSum
  <2>5. TypeOK
    BY <2>2 DEF Init, TypeOK
  <2>6. EntriesAreRows
    BY DEF Init, EntriesAreRows, has_entry
  <2> QED
    BY <2>2, <2>4, <2>5, <2>6 DEF CacheIndexInv
<1> QED
  BY <1>1, CacheIndexNext, PTL DEF Spec

\* Type correctness of the index.
THEOREM CacheIndexTypeOK == Spec => []TypeOK
BY CacheIndexInvariance, PTL DEF CacheIndexInv

\* m_total_estimated_size is the sum of the table, loaded or not, for any keys, sizes and
\* limits: it never drifts, although every operation only adds to it and subtracts from it.
THEOREM CacheIndexTotalIsSum == Spec => []TotalIsSum
BY CacheIndexInvariance, PTL DEF CacheIndexInv

\* What m_entries holds are rows of the table, under keys that are loaded.
THEOREM CacheIndexEntriesAreRows == Spec => []EntriesAreRows
BY CacheIndexInvariance, PTL DEF CacheIndexInv

\* Whenever create_entry or update_associated_data_size evicts, what is left fits the limit
\* and all that went was accessed before all that stays.
THEOREM CacheIndexEvictsLeastRecent == Spec => EvictsLeastRecent
<1> DEFINE A == \A s \in Slots :
        /\ \A e \in NewRows : create_entry(s, e) => EvictionIsOrdered([rows EXCEPT ![s] = e])
        /\ update_associated_data_size(s) => EvictionIsOrdered(rows)
<1>1. CacheIndexInv => A
  <2> SUFFICES ASSUME CacheIndexInv, NEW s \in Slots
               PROVE  /\ \A e \in NewRows :
                            create_entry(s, e) => EvictionIsOrdered([rows EXCEPT ![s] = e])
                      /\ update_associated_data_size(s) => EvictionIsOrdered(rows)
    OBVIOUS
  <2>t. loaded \subseteq Keys /\ limits \in [cache : Nat, entry : Nat] /\ LimitsAgree
    BY DEF CacheIndexInv, TypeOK
  <2>1. ASSUME NEW e \in NewRows, create_entry(s, e)
        PROVE  EvictionIsOrdered([rows EXCEPT ![s] = e])
    <3> DEFINE table == [rows EXCEPT ![s] = e]
               memory == [entries EXCEPT ![s] = e]
               size == total - estimated_size(rows[s]) + estimated_size(e)
               keys == loaded \cup {s[1]}
    <3>1. /\ table \in Tables /\ memory \in Tables /\ IsFiniteSet(Stored(table))
          /\ keys \subseteq Keys /\ size = SumOf(table, Stored(table))
          /\ Cached(table, memory, keys) /\ EvictFrom(table, memory, keys, size)
      BY <2>1, CreateEntryWrites
    <3> HIDE DEF table, memory, size, keys
    <3>2. /\ total' <= limits.cache
          /\ \A t \in Slots : rows'[t] = table[t] \/ rows'[t] = NoRow
          /\ \A t \in Stored(table), u \in Slots :
                rows'[t] = NoRow /\ rows'[u] # NoRow => table[t].time < table[u].time
      BY <2>t, <3>1, EvictKeepsInv
    <3>3. EvictionIsOrdered(table)
      BY <3>2 DEF EvictionIsOrdered
    <3> QED
      BY <3>3 DEF table
  <2>2. ASSUME update_associated_data_size(s) PROVE EvictionIsOrdered(rows)
    <3>1. PICK table \in Tables, memory \in Tables :
              /\ Stored(table) = Stored(rows) /\ IsFiniteSet(Stored(table))
              /\ \A t \in Stored(rows) : table[t].time = rows[t].time
              /\ Cached(table, memory, loaded)
              /\ EvictFrom(table, memory, loaded, SumOf(table, Stored(table)))
      BY <2>2, UpdateAssociatedWrites
    <3>2. /\ total' <= limits.cache
          /\ \A t \in Slots : rows'[t] = table[t] \/ rows'[t] = NoRow
          /\ \A t \in Stored(table), u \in Slots :
                rows'[t] = NoRow /\ rows'[u] # NoRow => table[t].time < table[u].time
      BY <2>t, <3>1, EvictKeepsInv
    <3> QED
      BY <3>1, <3>2 DEF EvictionIsOrdered
  <2> QED
    BY <2>1, <2>2
<1> HIDE DEF A
<1>2. CacheIndexInv /\ [Next]_vars => [A]_vars
  BY <1>1
<1>3. Spec => [][A]_vars
  BY <1>2, CacheIndexInvariance, PTL DEF Spec
<1> QED
  BY <1>3 DEF EvictsLeastRecent, A

\* The entry that was written last survives its own flush, whatever the sizes and the limits.
THEOREM CacheIndexNewestSurvives == Spec => NewestSurvives
<1> DEFINE A == \A s \in Slots, e \in NewRows :
        create_entry(s, e) /\ (\A t \in Stored(rows) \ {s} : rows[t].time < e.time)
            => rows'[s] = e
<1>1. CacheIndexInv => A
  <2> SUFFICES ASSUME CacheIndexInv, NEW s \in Slots, NEW e \in NewRows, create_entry(s, e),
                      \A t \in Stored(rows) \ {s} : rows[t].time < e.time
               PROVE  rows'[s] = e
    OBVIOUS
  <2>t. loaded \subseteq Keys /\ limits \in [cache : Nat, entry : Nat] /\ LimitsAgree
    BY DEF CacheIndexInv, TypeOK
  <2> DEFINE table == [rows EXCEPT ![s] = e]
             memory == [entries EXCEPT ![s] = e]
             size == total - estimated_size(rows[s]) + estimated_size(e)
             keys == loaded \cup {s[1]}
             Since == {t \in Stored(table) : table[t].time >= table[s].time}
  <2>1. /\ table \in Tables /\ memory \in Tables /\ IsFiniteSet(Stored(table))
        /\ keys \subseteq Keys /\ size = SumOf(table, Stored(table))
        /\ Cached(table, memory, keys) /\ EvictFrom(table, memory, keys, size)
        /\ Stored(table) = Stored(rows) \cup {s} /\ table[s] = e
        /\ \A t \in Slots : t # s => table[t] = rows[t]
        /\ e \in Rows /\ estimated_size(e) <= limits.entry
    <3>1. /\ table \in Tables /\ memory \in Tables /\ IsFiniteSet(Stored(table))
          /\ keys \subseteq Keys /\ size = SumOf(table, Stored(table))
          /\ Cached(table, memory, keys) /\ EvictFrom(table, memory, keys, size)
      BY CreateEntryWrites
    <3>2. /\ Stored(table) = Stored(rows) \cup {s} /\ table[s] = e
          /\ \A t \in Slots : t # s => table[t] = rows[t]
      <4>1. rows \in Tables /\ e \in Rows
        BY DEF CacheIndexInv, TypeOK, Tables, NewRows
      <4>2. table[s] = e /\ \A t \in Slots : t # s => table[t] = rows[t]
        BY <4>1 DEF Tables
      <4> HIDE DEF table
      <4> QED
        BY <4>1, <4>2, RowProperties DEF Stored
    <3>3. e \in Rows /\ estimated_size(e) <= limits.entry
      BY CreateEntryWrites
    <3> QED
      BY <3>1, <3>2, <3>3
  <2> HIDE DEF table, memory, size, keys
  <2>2. /\ \A t \in Slots : rows'[t] = table[t] \/ rows'[t] = NoRow
        /\ \A t \in Stored(table) : rows'[t] = NoRow => Cumulative(table, t) > limits.cache
    BY <2>t, <2>1, EvictKeepsInv
  <2>3. Since = {s}
    <3>1. e.time \in Nat /\ \A t \in Stored(table) : table[t].time \in Nat /\ t \in Slots
      BY <2>1, TableProperties, RowProperties
    <3>2. \A t \in Stored(table) : t # s => table[t].time < e.time
      BY <2>1, <3>1
    <3> QED
      BY <2>1, <3>1, <3>2
  <2>4. Cumulative(table, s) = SumOf(table, {s})
    BY <2>3 DEF Cumulative
  <2>5. SumOf(table, {s}) = estimated_size(e) /\ estimated_size(e) \in Nat
    <3>1. IsFiniteSet({s}) /\ {s} \ {s} = {} /\ Sizes(table, {s}) /\ SizeOf(table, s) = estimated_size(e)
      BY <2>1, FS_Singleton, TableProperties DEF SizeOf
    <3>2. estimated_size(e) \in Nat /\ SumOf(table, {}) = 0
      BY <2>1, RowProperties, SumStep
    <3>3. SumOf(table, {s}) = SizeOf(table, s) + SumOf(table, {s} \ {s})
      BY <3>1, SumRemove
    <3>4. SumOf(table, {s}) = estimated_size(e) + 0
      BY <3>1, <3>2, <3>3, Zenon
    <3> QED
      BY <3>2, <3>4
  <2>6. ~(Cumulative(table, s) > limits.cache)
    <3>1. limits.entry \in Nat /\ limits.cache \in Nat /\ limits.entry <= limits.cache
      BY <2>t DEF LimitsAgree
    <3> QED
      BY <2>1, <2>4, <2>5, <3>1
  <2> QED
    BY <2>1, <2>2, <2>6
<1> HIDE DEF A
<1>2. CacheIndexInv /\ [Next]_vars => [A]_vars
  BY <1>1
<1>3. Spec => [][A]_vars
  BY <1>2, CacheIndexInvariance, PTL DEF Spec
<1> QED
  BY <1>3 DEF NewestSurvives, A
=============================================================================
