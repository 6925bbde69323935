----------------------------- MODULE SumTheorems -----------------------------
(***************************************************************************)
(* What SumFunctionOnSet computes on finite sets: the facts about the fee  *)
(* totals that EntryRuntime_proofs needs.  The sum is a recursive function *)
(* on the subsets of a set, so it first has to be shown to exist.  Where a *)
(* fact needs an induction over a finite set, the proof takes a smallest   *)
(* set on which the fact fails.                                            *)
(***************************************************************************)
EXTENDS FiniteSetTheorems, TLAPS

\* The element the sum takes next.
First(s) == CHOOSE x \in s : TRUE
Rest(s)  == s \ {First(s)}

\* g sums f up on the subsets of S.
Sums(f, S, g) == g = [s \in SUBSET S |-> IF s = {} THEN 0 ELSE f[First(s)] + g[Rest(s)]]

\* Sets that fail in some way have a smallest one among them.
LEMMA SmallestSet ==
  ASSUME NEW S, IsFiniteSet(S), NEW T \in SUBSET (SUBSET S), T # {}
  PROVE  \E s \in T : \A t \in T : t \subseteq s => t = s
<1>1. IsWellFoundedOn(StrictSubsetOrdering(S), FiniteSubsetsOf(S))
  BY FS_StrictSubsetOrderingWellFounded
<1>2. T \subseteq FiniteSubsetsOf(S)
  BY FS_Subset DEF FiniteSubsetsOf
<1>3. PICK s \in T : \A t \in T : ~(<<t, s>> \in StrictSubsetOrdering(S))
  BY <1>1, <1>2, WFMin
<1> QED
  BY <1>3 DEF StrictSubsetOrdering

----------------------------------------------------------------------------
(* The sum exists and depends on the set it is taken over only *)

LEMMA FirstInSet ==
  ASSUME NEW s, s # {}
  PROVE  First(s) \in s /\ Rest(s) \subseteq s /\ Rest(s) # s
  BY DEF First, Rest

LEMMA SumsAgree ==
  ASSUME NEW f, NEW S, IsFiniteSet(S), NEW U, NEW g, NEW h,
         Sums(f, S, g), Sums(f, U, h), NEW s \in SUBSET S, s \in SUBSET U
  PROVE  g[s] = h[s]
<1> DEFINE Bad == {t \in SUBSET S : t \in SUBSET U /\ g[t] # h[t]}
<1>1. SUFFICES ASSUME Bad # {} PROVE FALSE
  OBVIOUS
<1>2. PICK b \in Bad : \A t \in Bad : t \subseteq b => t = b
  <2>1. Bad \in SUBSET (SUBSET S)
    OBVIOUS
  <2> HIDE DEF Bad
  <2> QED
    BY <1>1, <2>1, SmallestSet
<1>3. g[b] = (IF b = {} THEN 0 ELSE f[First(b)] + g[Rest(b)])
  BY DEF Sums
<1>4. h[b] = (IF b = {} THEN 0 ELSE f[First(b)] + h[Rest(b)])
  BY DEF Sums
<1>5. b # {}
  BY <1>3, <1>4
<1>6. Rest(b) \notin Bad /\ Rest(b) \in SUBSET S /\ Rest(b) \in SUBSET U
  BY <1>2, <1>5, FirstInSet
<1> QED
  BY <1>3, <1>4, <1>5, <1>6

LEMMA SumsExist ==
  ASSUME NEW f, NEW S, IsFiniteSet(S)
  PROVE  \E g : Sums(f, S, g)
<1> DEFINE Bad == {t \in SUBSET S : ~\E g : Sums(f, t, g)}
<1>1. SUFFICES ASSUME Bad # {} PROVE FALSE
  OBVIOUS
<1>2. PICK b \in Bad : \A t \in Bad : t \subseteq b => t = b
  <2>1. Bad \in SUBSET (SUBSET S)
    OBVIOUS
  <2> HIDE DEF Bad
  <2> QED
    BY <1>1, <2>1, SmallestSet
<1> DEFINE G(u) == CHOOSE g : Sums(f, u, g)
           V(u) == G(u)[u]
           new  == [s \in SUBSET b |-> IF s = {} THEN 0 ELSE f[First(s)] + V(Rest(s))]
<1>3. ASSUME NEW u \in SUBSET b, u # b
      PROVE  Sums(f, u, G(u)) /\ IsFiniteSet(u)
  <2>1. u \notin Bad /\ u \in SUBSET S
    BY <1>2, <1>3
  <2>2. PICK g : Sums(f, u, g)
    BY <2>1
  <2> QED
    BY <2>1, <2>2, FS_Subset
<1>4. ASSUME NEW u \in SUBSET b, u # b
      PROVE  V(u) = new[u]
  <2>1. V(u) = (IF u = {} THEN 0 ELSE f[First(u)] + G(u)[Rest(u)])
    <3>1. Sums(f, u, G(u))
      BY <1>3, <1>4
    <3> HIDE DEF G
    <3> QED
      BY <3>1 DEF Sums
  <2>2. CASE u = {}
    BY <2>1, <2>2
  <2>3. CASE u # {}
    <3>1. Rest(u) \in SUBSET u /\ Rest(u) \in SUBSET b /\ Rest(u) # b
      BY <1>4, <2>3, FirstInSet
    <3>2. Sums(f, u, G(u)) /\ IsFiniteSet(u) /\ Sums(f, Rest(u), G(Rest(u)))
      BY <1>3, <1>4, <3>1
    <3> HIDE DEF G
    <3>3. G(u)[Rest(u)] = G(Rest(u))[Rest(u)]
      BY <3>1, <3>2, SumsAgree
    <3> QED
      BY <2>1, <2>3, <3>3
  <2> QED
    BY <2>2, <2>3
<1>5. Sums(f, b, new)
  <2>1. ASSUME NEW s \in SUBSET b, s # {} PROVE new[Rest(s)] = V(Rest(s))
    <3>1. Rest(s) \in SUBSET b /\ Rest(s) # b
      BY <2>1, FirstInSet
    <3> HIDE DEF V, new
    <3> QED
      BY <1>4, <3>1
  <2> HIDE DEF V
  <2>2. new = [s \in SUBSET b |-> IF s = {} THEN 0 ELSE f[First(s)] + new[Rest(s)]]
    BY <2>1
  <2> QED
    BY <2>2 DEF Sums
<1> QED
  BY <1>5, <1>2

LEMMA SumIsSums ==
  ASSUME NEW f, NEW S, IsFiniteSet(S)
  PROVE  \E g : Sums(f, S, g) /\ SumFunctionOnSet(f, S) = g[S]
<1> DEFINE g == CHOOSE h : Sums(f, S, h)
<1>1. SumFunctionOnSet(f, S) = g[S]
  BY DEF SumFunctionOnSet, FoldFunctionOnSet, MapThenFoldSet, Sums, First, Rest
<1>2. Sums(f, S, g)
  BY SumsExist
<1> QED
  BY <1>1, <1>2

----------------------------------------------------------------------------
(* Sums of numbers *)

\* A sum of no numbers is 0.
LEMMA SumOfNothing ==
  ASSUME NEW f
  PROVE  SumFunctionOnSet(f, {}) = 0
<1>1. PICK g : Sums(f, {}, g) /\ SumFunctionOnSet(f, {}) = g[{}]
  BY SumIsSums, FS_EmptySet
<1> QED
  BY <1>1 DEF Sums

LEMMA SumTakesFirst ==
  ASSUME NEW f, NEW S, IsFiniteSet(S), S # {}
  PROVE  SumFunctionOnSet(f, S) = f[First(S)] + SumFunctionOnSet(f, Rest(S))
<1>1. PICK g : Sums(f, S, g) /\ SumFunctionOnSet(f, S) = g[S]
  BY SumIsSums
<1>2. Rest(S) \in SUBSET S /\ IsFiniteSet(Rest(S))
  BY FirstInSet, FS_Subset
<1>3. PICK h : Sums(f, Rest(S), h) /\ SumFunctionOnSet(f, Rest(S)) = h[Rest(S)]
  BY <1>2, SumIsSums
<1>4. g[Rest(S)] = h[Rest(S)]
  BY <1>1, <1>2, <1>3, SumsAgree
<1>5. g[S] = f[First(S)] + g[Rest(S)]
  BY <1>1 DEF Sums
<1> QED
  BY <1>1, <1>3, <1>4, <1>5

LEMMA SumIsInt ==
  ASSUME NEW f, NEW S, IsFiniteSet(S), \A x \in S : f[x] \in Int
  PROVE  SumFunctionOnSet(f, S) \in Int
<1> DEFINE Bad == {t \in SUBSET S : SumFunctionOnSet(f, t) \notin Int}
<1>1. SUFFICES ASSUME Bad # {} PROVE FALSE
  OBVIOUS
<1>2. PICK b \in Bad : \A t \in Bad : t \subseteq b => t = b
  <2>1. Bad \in SUBSET (SUBSET S)
    OBVIOUS
  <2> HIDE DEF Bad
  <2> QED
    BY <1>1, <2>1, SmallestSet
<1>3. b # {}
  BY SumOfNothing
<1>4. Rest(b) \notin Bad /\ Rest(b) \in SUBSET S /\ f[First(b)] \in Int
  BY <1>2, <1>3, FirstInSet
<1>5. SumFunctionOnSet(f, b) = f[First(b)] + SumFunctionOnSet(f, Rest(b))
  BY <1>3, SumTakesFirst, FS_Subset
<1> QED
  BY <1>4, <1>5

\* The order in which the sum takes the elements makes no difference.
LEMMA SumTakesAny ==
  ASSUME NEW f, NEW S, IsFiniteSet(S), \A x \in S : f[x] \in Int, NEW x \in S
  PROVE  SumFunctionOnSet(f, S) = f[x] + SumFunctionOnSet(f, S \ {x})
<1> DEFINE Sum(t) == SumFunctionOnSet(f, t)
           Bad == {t \in SUBSET S : \E y \in t : Sum(t) # f[y] + Sum(t \ {y})}
<1>1. SUFFICES ASSUME Bad # {} PROVE FALSE
  OBVIOUS
<1>2. PICK b \in Bad : \A t \in Bad : t \subseteq b => t = b
  <2>1. Bad \in SUBSET (SUBSET S)
    OBVIOUS
  <2> HIDE DEF Bad
  <2> QED
    BY <1>1, <2>1, SmallestSet
<1>3. PICK y \in b : Sum(b) # f[y] + Sum(b \ {y})
  OBVIOUS
<1> DEFINE z == First(b)
<1>4. z \in b /\ Sum(b) = f[z] + Sum(b \ {z})
  BY <1>3, FirstInSet, SumTakesFirst, FS_Subset DEF Rest
<1>5. y # z /\ y \in b \ {z} /\ z \in b \ {y}
  BY <1>3, <1>4
<1>6. b \ {z} \notin Bad /\ b \ {y} \notin Bad /\ b \ {z} \in SUBSET S /\ b \ {y} \in SUBSET S
  BY <1>2, <1>4, <1>5
<1>7. Sum(b \ {z}) = f[y] + Sum((b \ {z}) \ {y}) /\ Sum(b \ {y}) = f[z] + Sum((b \ {y}) \ {z})
  <2> HIDE DEF Sum, z
  <2> QED
    BY <1>5, <1>6
<1>8. (b \ {z}) \ {y} = (b \ {y}) \ {z}
  OBVIOUS
<1>9. f[y] \in Int /\ f[z] \in Int /\ Sum((b \ {y}) \ {z}) \in Int
  <2>1. IsFiniteSet((b \ {y}) \ {z}) /\ (b \ {y}) \ {z} \subseteq S
    BY FS_Subset
  <2> QED
    BY <1>4, <2>1, SumIsInt
<1> HIDE DEF Sum, z, Bad
<1>10. Sum((b \ {z}) \ {y}) = Sum((b \ {y}) \ {z})
  BY <1>8
<1>11. f[z] + (f[y] + Sum((b \ {y}) \ {z})) = f[y] + (f[z] + Sum((b \ {y}) \ {z}))
  BY <1>9
<1> QED
  BY <1>3, <1>4, <1>7, <1>10, <1>11

LEMMA SumOfUnion ==
  ASSUME NEW f, NEW S, IsFiniteSet(S), \A x \in S : f[x] \in Int,
         NEW A \in SUBSET S, NEW B \in SUBSET S, A \cap B = {}
  PROVE  SumFunctionOnSet(f, A \cup B) = SumFunctionOnSet(f, A) + SumFunctionOnSet(f, B)
<1> DEFINE Sum(t) == SumFunctionOnSet(f, t)
           Bad == {t \in SUBSET A : Sum(t \cup B) # Sum(t) + Sum(B)}
<1>1. SUFFICES ASSUME Bad # {} PROVE FALSE
  OBVIOUS
<1>2. PICK b \in Bad : \A t \in Bad : t \subseteq b => t = b
  <2>1. IsFiniteSet(A)
    BY FS_Subset
  <2>2. Bad \in SUBSET (SUBSET A)
    OBVIOUS
  <2> HIDE DEF Bad
  <2> QED
    BY <1>1, <2>1, <2>2, SmallestSet
<1>3. ASSUME NEW t \in SUBSET S
      PROVE  /\ IsFiniteSet(t) /\ Sum(t) \in Int
             /\ \A x \in t : Sum(t) = f[x] + Sum(t \ {x})
  BY FS_Subset, SumIsInt, SumTakesAny
<1>4. b # {}
  <2>1. Sum({}) = 0 /\ {} \cup B = B /\ Sum(B) \in Int
    BY <1>3, SumOfNothing
  <2>2. Sum(b \cup B) # Sum(b) + Sum(B)
    OBVIOUS
  <2> HIDE DEF Sum, Bad
  <2>3. Sum({} \cup B) = Sum({}) + Sum(B)
    BY <2>1
  <2> QED
    BY <2>2, <2>3
<1>5. PICK x : x \in b
  BY <1>4
<1>6. b \ {x} \notin Bad /\ b \ {x} \in SUBSET A /\ b \ {x} \in SUBSET S
        /\ (b \cup B) \ {x} = (b \ {x}) \cup B /\ b \cup B \in SUBSET S /\ b \in SUBSET S
  BY <1>2, <1>5
<1>7. Sum((b \ {x}) \cup B) = Sum(b \ {x}) + Sum(B)
  BY <1>6
<1> HIDE DEF Sum
<1>8. Sum(b \cup B) = f[x] + Sum((b \ {x}) \cup B) /\ Sum(b) = f[x] + Sum(b \ {x})
  BY <1>3, <1>5, <1>6
<1>9. f[x] \in Int /\ Sum(b \ {x}) \in Int /\ Sum(B) \in Int
  BY <1>3, <1>5, <1>6
<1> QED
  BY <1>7, <1>8, <1>9

\* The elements fall into classes and the sums of the classes are known: they
\* add up to the sum of all elements.
LEMMA SumByClass ==
  ASSUME NEW f, NEW S, IsFiniteSet(S), \A x \in S : f[x] \in Int,
         NEW C, IsFiniteSet(C), NEW class \in [S -> C],
         NEW total, \A c \in C : total[c] = SumFunctionOnSet(f, {x \in S : class[x] = c})
  PROVE  SumFunctionOnSet(total, C) = SumFunctionOnSet(f, S)
<1> DEFINE Part(D) == {x \in S : class[x] \in D}
           One(c)  == {x \in S : class[x] = c}
           Bad == {D \in SUBSET C : SumFunctionOnSet(total, D) # SumFunctionOnSet(f, Part(D))}
<1>1. SUFFICES ASSUME Bad # {} PROVE FALSE
  <2>1. Part(C) = S
    OBVIOUS
  <2> HIDE DEF Part
  <2> QED
    BY <2>1
<1>2. PICK D \in Bad : \A t \in Bad : t \subseteq D => t = D
  <2>1. Bad \in SUBSET (SUBSET C)
    OBVIOUS
  <2> HIDE DEF Bad
  <2> QED
    BY <1>1, <2>1, SmallestSet
<1>3. D # {}
  <2>1. Part({}) = {}
    OBVIOUS
  <2> HIDE DEF Part
  <2> QED
    BY <2>1, SumOfNothing
<1>4. PICK c : c \in D
  BY <1>3
<1>5. \A d \in C : total[d] \in Int
  <2>1. ASSUME NEW d \in C PROVE total[d] \in Int
    <3>1. total[d] = SumFunctionOnSet(f, One(d)) /\ One(d) \in SUBSET S
      BY <2>1
    <3> HIDE DEF One
    <3> QED
      BY <3>1, FS_Subset, SumIsInt
  <2> QED
    BY <2>1
<1>6. SumFunctionOnSet(total, D) = total[c] + SumFunctionOnSet(total, D \ {c})
  BY <1>4, <1>5, FS_Subset, SumTakesAny
<1>7. SumFunctionOnSet(total, D \ {c}) = SumFunctionOnSet(f, Part(D \ {c}))
  BY <1>2, <1>4
<1>8. SumFunctionOnSet(f, Part(D)) = SumFunctionOnSet(f, One(c)) + SumFunctionOnSet(f, Part(D \ {c}))
  <2>1. /\ One(c) \in SUBSET S /\ Part(D \ {c}) \in SUBSET S
        /\ One(c) \cap Part(D \ {c}) = {} /\ One(c) \cup Part(D \ {c}) = Part(D)
    BY <1>4
  <2>2. \A A, B \in SUBSET S : A \cap B = {} =>
          SumFunctionOnSet(f, A \cup B) = SumFunctionOnSet(f, A) + SumFunctionOnSet(f, B)
    BY SumOfUnion
  <2> HIDE DEF One, Part, Bad
  <2> QED
    BY <2>1, <2>2
<1>9. total[c] = SumFunctionOnSet(f, One(c))
  BY <1>4
<1> QED
  BY <1>6, <1>7, <1>8, <1>9

\* Counting is summing ones.
LEMMA SumOfOnes ==
  ASSUME NEW one, NEW S, IsFiniteSet(S), \A x \in S : one[x] = 1
  PROVE  SumFunctionOnSet(one, S) = Cardinality(S)
<1> DEFINE Sum(t) == SumFunctionOnSet(one, t)
           Bad == {t \in SUBSET S : Sum(t) # Cardinality(t)}
<1>1. SUFFICES ASSUME Bad # {} PROVE FALSE
  OBVIOUS
<1>2. PICK b \in Bad : \A t \in Bad : t \subseteq b => t = b
  <2>1. Bad \in SUBSET (SUBSET S)
    OBVIOUS
  <2> HIDE DEF Bad
  <2> QED
    BY <1>1, <2>1, SmallestSet
<1>3. b # {}
  BY SumOfNothing, FS_EmptySet
<1>4. PICK x : x \in b
  BY <1>3
<1>5. Sum(b \ {x}) = Cardinality(b \ {x})
  <2>1. b \ {x} \notin Bad
    BY <1>2, <1>4
  <2> QED
    BY <2>1
<1>6. IsFiniteSet(b) /\ one[x] = 1 /\ \A y \in b : one[y] \in Int
  BY <1>4, FS_Subset
<1>7. Sum(b) = one[x] + Sum(b \ {x})
  BY <1>4, <1>6, SumTakesAny
<1>8. Cardinality(b \ {x}) = Cardinality(b) - 1 /\ Cardinality(b) \in Nat
  BY <1>4, <1>6, FS_RemoveElement, FS_CardinalityType
<1>9. Sum(b) # Cardinality(b)
  OBVIOUS
<1> HIDE DEF Sum, Bad
<1> QED
  BY <1>5, <1>6, <1>7, <1>8, <1>9

=============================================================================
