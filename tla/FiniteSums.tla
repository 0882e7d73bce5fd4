------------------------------ MODULE FiniteSums ------------------------------
(***************************************************************************)
(* Facts about finite sets and the sums over them that the other proofs    *)
(* cite: the wallet that adds up lots, the snapshot that adds up entries,  *)
(* the first free key of a storage.  Induction over a finite set is the    *)
(* choice of a smallest counterexample, by SmallestSet.                    *)
(***************************************************************************)
EXTENDS Integers, Functions, FiniteSetTheorems, TLAPS

\* A set of finite sets has a member that includes no other one.
LEMMA SmallestSet ==
  ASSUME NEW S, NEW F \in SUBSET FiniteSubsetsOf(S), F # {}
  PROVE  \E T \in F : \A U \in F : U \subseteq T => U = T
<1>1. PICK T \in F : \A U \in F : <<U, T>> \notin StrictSubsetOrdering(S)
  <2> DEFINE R == StrictSubsetOrdering(S)
             W == FiniteSubsetsOf(S)
  <2>1. IsWellFoundedOn(R, W)
    BY FS_StrictSubsetOrderingWellFounded
  <2>2. F \subseteq W
    OBVIOUS
  <2> HIDE DEF R, W
  <2> QED
    BY <2>1, <2>2, WFMin DEF R
<1> QED
  BY <1>1 DEF StrictSubsetOrdering, FiniteSubsetsOf

\* A set of numbers that is not empty has a least one.
LEMMA LeastNumber ==
  ASSUME NEW S \in SUBSET Nat, S # {}
  PROVE  \E n \in S : \A m \in S : n <= m
<1> DEFINE Upto(n) == {k \in S : k <= n}
           F       == {Upto(n) : n \in S}
<1>1. ASSUME NEW n \in S PROVE Upto(n) \in FiniteSubsetsOf(S)
  BY FS_BoundedSetOfNaturals DEF FiniteSubsetsOf
<1>2. F \in SUBSET FiniteSubsetsOf(S)
  BY <1>1
<1>3. F # {}
  OBVIOUS
<1>4. \E T \in F : \A U \in F : U \subseteq T => U = T
  <2> HIDE DEF F
  <2> QED
    BY <1>2, <1>3, SmallestSet
<1>5. PICK n \in S : \A U \in F : U \subseteq Upto(n) => U = Upto(n)
  BY <1>4
<1>6. ASSUME NEW m \in S, m < n PROVE FALSE
  <2>1. \A k \in S : k <= m => k <= n
    BY <1>6
  <2>2. Upto(m) \subseteq Upto(n)
    BY <2>1
  <2>3. Upto(m) = Upto(n)
    BY <1>5, <2>2
  <2>4. n \in Upto(n) /\ n \notin Upto(m)
    BY <1>6
  <2> QED
    BY <2>3, <2>4
<1> QED
  BY <1>6

-----------------------------------------------------------------------------
(* SumFunctionOnSet takes the elements in the order of a CHOOSE.           *)

Taken(s) == CHOOSE x \in s : TRUE

\* g holds the sum of f over every part of S.
HoldsSums(f, S, g) ==
  g = [s \in SUBSET S |-> IF s = {} THEN 0 ELSE f[Taken(s)] + g[s \ {Taken(s)}]]

LEMMA SumIsHeld == \A f, S : SumFunctionOnSet(f, S) = (CHOOSE g : HoldsSums(f, S, g))[S]
BY SMT DEF SumFunctionOnSet, FoldFunctionOnSet, MapThenFoldSet, HoldsSums, Taken

LEMMA TakenIsMember == ASSUME NEW s, s # {} PROVE Taken(s) \in s
BY DEF Taken

LEMMA HeldSums ==
  ASSUME NEW f, NEW S, NEW g, HoldsSums(f, S, g), NEW s \in SUBSET S
  PROVE  g[s] = IF s = {} THEN 0 ELSE f[Taken(s)] + g[s \ {Taken(s)}]
BY DEF HoldsSums

\* The sums over the parts of S contain those over the parts of a part of S.
LEMMA SumsOfPart ==
  ASSUME NEW f, NEW S, NEW g, HoldsSums(f, S, g), NEW T \in SUBSET S
  PROVE  HoldsSums(f, T, [s \in SUBSET T |-> g[s]])
<1> DEFINE h == [s \in SUBSET T |-> g[s]]
<1>1. ASSUME NEW s \in SUBSET T
      PROVE  h[s] = IF s = {} THEN 0 ELSE f[Taken(s)] + h[s \ {Taken(s)}]
  <2>1. s \in SUBSET S /\ s \ {Taken(s)} \in SUBSET T
    OBVIOUS
  <2>2. h[s] = g[s] /\ h[s \ {Taken(s)}] = g[s \ {Taken(s)}]
    BY <2>1
  <2>3. g[s] = IF s = {} THEN 0 ELSE f[Taken(s)] + g[s \ {Taken(s)}]
    BY <2>1, HeldSums
  <2> HIDE DEF h
  <2> QED
    BY <2>2, <2>3
<1>2. h = [s \in SUBSET T |-> h[s]]
  OBVIOUS
<1> HIDE DEF h
<1>3. h = [s \in SUBSET T |-> IF s = {} THEN 0 ELSE f[Taken(s)] + h[s \ {Taken(s)}]]
  BY <1>1, <1>2
<1> QED
  BY <1>3 DEF HoldsSums, h

LEMMA SumsAreUnique ==
  ASSUME NEW f, NEW S, IsFiniteSet(S), NEW g, NEW h, HoldsSums(f, S, g), HoldsSums(f, S, h)
  PROVE  g = h
<1> DEFINE F == {s \in SUBSET S : g[s] # h[s]}
<1>1. F \in SUBSET FiniteSubsetsOf(S)
  BY FS_FiniteSubsetsOfFinite
<1>2. ASSUME F # {} PROVE FALSE
  <2>1. PICK T \in F : \A U \in F : U \subseteq T => U = T
    <3> HIDE DEF F
    <3> QED
      BY <1>1, <1>2, SmallestSet
  <2>2. T \in SUBSET S /\ g[T] # h[T]
    BY <2>1
  <2>3. T # {}
    BY <2>2, HeldSums
  <2>4. Taken(T) \in T
    BY <2>3, TakenIsMember
  <2>5. T \ {Taken(T)} \notin F
    <3> HIDE DEF F
    <3> QED
      BY <2>1, <2>4
  <2>6. g[T \ {Taken(T)}] = h[T \ {Taken(T)}]
    BY <2>2, <2>5
  <2> QED
    BY <2>2, <2>3, <2>6, HeldSums
<1>3. \A s \in SUBSET S : g[s] = h[s]
  BY <1>2
<1>4. g = [s \in SUBSET S |-> g[s]] /\ h = [s \in SUBSET S |-> h[s]]
  BY DEF HoldsSums
<1> QED
  BY <1>3, <1>4

\* What a holder says of a part is the sum over it.
LEMMA HeldIsSum ==
  ASSUME NEW f, NEW S, IsFiniteSet(S), NEW g, HoldsSums(f, S, g), NEW T \in SUBSET S
  PROVE  g[T] = SumFunctionOnSet(f, T)
<1> DEFINE h == [s \in SUBSET T |-> g[s]]
           c == CHOOSE k : HoldsSums(f, T, k)
<1>1. HoldsSums(f, T, h)
  BY SumsOfPart
<1>2. h[T] = g[T]
  OBVIOUS
<1> HIDE DEF h
<1>3. HoldsSums(f, T, c)
  BY <1>1
<1> HIDE DEF c
<1>4. IsFiniteSet(T)
  BY FS_Subset
<1>5. h = c
  BY <1>1, <1>3, <1>4, SumsAreUnique
<1>6. SumFunctionOnSet(f, T) = c[T]
  BY SumIsHeld DEF c
<1> QED
  BY <1>2, <1>5, <1>6

LEMMA HeldAreSums ==
  ASSUME NEW f, NEW S, IsFiniteSet(S), NEW g, HoldsSums(f, S, g)
  PROVE  \A T \in SUBSET S : g[T] = SumFunctionOnSet(f, T)
<1> TAKE T \in SUBSET S
<1> QED
  BY HeldIsSum

LEMMA SumsExist ==
  ASSUME NEW f, NEW S, IsFiniteSet(S)
  PROVE  \E g : HoldsSums(f, S, g)
<1> DEFINE F == {T \in SUBSET S : ~ \E g : HoldsSums(f, T, g)}
<1>1. F \in SUBSET FiniteSubsetsOf(S)
  BY FS_FiniteSubsetsOfFinite
<1>2. ASSUME F # {} PROVE FALSE
  <2>1. PICK T \in F : \A U \in F : U \subseteq T => U = T
    <3> HIDE DEF F
    <3> QED
      BY <1>1, <1>2, SmallestSet
  <2>2. T \in SUBSET S /\ ~ \E g : HoldsSums(f, T, g)
    BY <2>1
  <2>3. ASSUME NEW U \in SUBSET T, U # T
        PROVE  \E g : HoldsSums(f, U, g)
    <3>1. U \in SUBSET S /\ U \notin F
      <4> HIDE DEF F
      <4> QED
        BY <2>1, <2>2, <2>3
    <3> QED
      BY <3>1
  <2> HIDE DEF F
  <2> DEFINE V(s) == SumFunctionOnSet(f, s)
             g    == [s \in SUBSET T |-> IF s = {} THEN 0 ELSE f[Taken(s)] + V(s \ {Taken(s)})]
  <2>4. ASSUME NEW U \in SUBSET T, U # T
        PROVE  V(U) = IF U = {} THEN 0 ELSE f[Taken(U)] + V(U \ {Taken(U)})
    <3>1. PICK k : HoldsSums(f, U, k)
      BY <2>3, <2>4
    <3>2. IsFiniteSet(U)
      BY <2>2, FS_Subset
    <3>3. U \in SUBSET U /\ U \ {Taken(U)} \in SUBSET U
      OBVIOUS
    <3>4. k[U] = V(U) /\ k[U \ {Taken(U)}] = V(U \ {Taken(U)})
      <4>1. \A s \in SUBSET U : k[s] = SumFunctionOnSet(f, s)
        BY <3>1, <3>2, HeldAreSums
      <4>2. \A s \in SUBSET U : k[s] = V(s)
        BY <4>1
      <4> HIDE DEF V
      <4> QED
        BY <3>3, <4>2
    <3>5. k[U] = IF U = {} THEN 0 ELSE f[Taken(U)] + k[U \ {Taken(U)}]
      BY <3>1, <3>3, HeldSums
    <3> HIDE DEF V
    <3> QED
      BY <3>4, <3>5
  <2> HIDE DEF V
  <2>5. ASSUME NEW s \in SUBSET T, s # {} PROVE g[s \ {Taken(s)}] = V(s \ {Taken(s)})
    <3>1. Taken(s) \in s
      BY <2>5, TakenIsMember
    <3>2. s \ {Taken(s)} \in SUBSET T /\ s \ {Taken(s)} # T
      BY <3>1
    <3> QED
      BY <2>4, <3>2
  <2>6. g = [s \in SUBSET T |-> IF s = {} THEN 0 ELSE f[Taken(s)] + g[s \ {Taken(s)}]]
    <3>1. \A s \in SUBSET T : (IF s = {} THEN 0 ELSE f[Taken(s)] + V(s \ {Taken(s)}))
                                = (IF s = {} THEN 0 ELSE f[Taken(s)] + g[s \ {Taken(s)}])
      <4> HIDE DEF g
      <4> QED
        BY <2>5
    <3> QED
      BY <3>1
  <2> HIDE DEF g
  <2> QED
    BY <2>2, <2>6 DEF HoldsSums
<1> QED
  <2>1. S \notin F
    BY <1>2
  <2> QED
    BY <2>1

\* The recursion that defines a sum.
LEMMA SumOverSet ==
  ASSUME NEW f, NEW S, IsFiniteSet(S)
  PROVE  SumFunctionOnSet(f, S) =
           IF S = {} THEN 0 ELSE f[Taken(S)] + SumFunctionOnSet(f, S \ {Taken(S)})
<1>1. PICK g : HoldsSums(f, S, g)
  BY SumsExist
<1>2. S \in SUBSET S /\ S \ {Taken(S)} \in SUBSET S
  OBVIOUS
<1>3. g[S] = SumFunctionOnSet(f, S) /\ g[S \ {Taken(S)}] = SumFunctionOnSet(f, S \ {Taken(S)})
  <2>1. \A s \in SUBSET S : g[s] = SumFunctionOnSet(f, s)
    BY <1>1, HeldAreSums
  <2> QED
    BY <1>2, <2>1
<1>4. g[S] = IF S = {} THEN 0 ELSE f[Taken(S)] + g[S \ {Taken(S)}]
  <2>1. S \in SUBSET S
    OBVIOUS
  <2> QED
    BY <1>1, <2>1, HeldSums
<1> QED
  BY <1>3, <1>4

-----------------------------------------------------------------------------
(* What follows by induction.                                              *)

LEMMA SumIsNumber ==
  ASSUME NEW S, IsFiniteSet(S), NEW f, \A x \in S : f[x] \in Int
  PROVE  SumFunctionOnSet(f, S) \in Int
<1> DEFINE F == {T \in SUBSET S : SumFunctionOnSet(f, T) \notin Int}
<1>1. F \in SUBSET FiniteSubsetsOf(S)
  BY FS_FiniteSubsetsOfFinite
<1>2. ASSUME F # {} PROVE FALSE
  <2>1. PICK T \in F : \A U \in F : U \subseteq T => U = T
    <3> HIDE DEF F
    <3> QED
      BY <1>1, <1>2, SmallestSet
  <2>2. T \in SUBSET S /\ IsFiniteSet(T) /\ SumFunctionOnSet(f, T) \notin Int
    BY <2>1, FS_Subset
  <2>3. SumFunctionOnSet(f, T) =
          IF T = {} THEN 0 ELSE f[Taken(T)] + SumFunctionOnSet(f, T \ {Taken(T)})
    BY <2>2, SumOverSet
  <2>4. T # {}
    BY <2>2, <2>3
  <2>5. Taken(T) \in T
    BY <2>4, TakenIsMember
  <2>6. T \ {Taken(T)} \notin F
    <3> HIDE DEF F
    <3> QED
      BY <2>1, <2>5
  <2>7. SumFunctionOnSet(f, T \ {Taken(T)}) \in Int /\ f[Taken(T)] \in Int
    BY <2>2, <2>5, <2>6
  <2> QED
    BY <2>2, <2>3, <2>4, <2>7
<1> QED
  <2>1. S \notin F
    BY <1>2
  <2> QED
    BY <2>1

\* Any element may be taken first.
LEMMA SumWithout ==
  ASSUME NEW S, IsFiniteSet(S), NEW f, \A x \in S : f[x] \in Int, NEW x \in S
  PROVE  SumFunctionOnSet(f, S) = f[x] + SumFunctionOnSet(f, S \ {x})
<1> DEFINE Sum(T) == SumFunctionOnSet(f, T)
           F == {T \in SUBSET S : \E y \in T : Sum(T) # f[y] + Sum(T \ {y})}
<1>1. F \in SUBSET FiniteSubsetsOf(S)
  BY FS_FiniteSubsetsOfFinite
<1>2. ASSUME NEW T \in SUBSET S
      PROVE  /\ IsFiniteSet(T) /\ Sum(T) \in Int
             /\ T # {} => Taken(T) \in T /\ Sum(T) = f[Taken(T)] + Sum(T \ {Taken(T)})
  <2>1. IsFiniteSet(T)
    BY FS_Subset
  <2> QED
    BY <2>1, SumIsNumber, SumOverSet, TakenIsMember
<1>3. ASSUME F # {} PROVE FALSE
  <2>1. PICK T \in F : \A U \in F : U \subseteq T => U = T
    <3> HIDE DEF F
    <3> QED
      BY <1>1, <1>3, SmallestSet
  <2>2. T \in SUBSET S
    BY <2>1
  <2>3. PICK y \in T : Sum(T) # f[y] + Sum(T \ {y})
    BY <2>1
  <2> DEFINE z == Taken(T)
  <2>4. z \in T /\ Sum(T) = f[z] + Sum(T \ {z})
    BY <1>2, <2>2, <2>3
  <2>5. y # z
    BY <2>3, <2>4
  <2> HIDE DEF z
  <2>6. T \ {z} \notin F /\ T \ {y} \notin F
    <3> HIDE DEF F
    <3> QED
      BY <2>1, <2>3, <2>4
  <2>7. Sum(T \ {z}) = f[y] + Sum((T \ {z}) \ {y})
    BY <2>2, <2>3, <2>5, <2>6
  <2>8. Sum(T \ {y}) = f[z] + Sum((T \ {y}) \ {z})
    BY <2>2, <2>4, <2>5, <2>6
  <2>9. (T \ {z}) \ {y} = (T \ {y}) \ {z} /\ (T \ {y}) \ {z} \in SUBSET S
    BY <2>2
  <2>10. f[y] \in Int /\ f[z] \in Int /\ Sum((T \ {y}) \ {z}) \in Int
    BY <1>2, <2>2, <2>3, <2>4, <2>9
  <2>11. Sum(T \ {z}) = f[y] + Sum((T \ {y}) \ {z})
    BY <2>7, <2>9
  <2> HIDE DEF Sum
  <2>12. f[z] + (f[y] + Sum((T \ {y}) \ {z})) = f[y] + (f[z] + Sum((T \ {y}) \ {z}))
    BY <2>10
  <2> QED
    BY <2>3, <2>4, <2>8, <2>11, <2>12
<1> QED
  <2>1. S \notin F
    BY <1>3
  <2> QED
    BY <2>1

LEMMA SumOfEqual ==
  ASSUME NEW S, IsFiniteSet(S), NEW f, NEW g, \A x \in S : f[x] = g[x]
  PROVE  SumFunctionOnSet(f, S) = SumFunctionOnSet(g, S)
<1> DEFINE F == {T \in SUBSET S : SumFunctionOnSet(f, T) # SumFunctionOnSet(g, T)}
<1>1. F \in SUBSET FiniteSubsetsOf(S)
  BY FS_FiniteSubsetsOfFinite
<1>2. ASSUME F # {} PROVE FALSE
  <2>1. PICK T \in F : \A U \in F : U \subseteq T => U = T
    <3> HIDE DEF F
    <3> QED
      BY <1>1, <1>2, SmallestSet
  <2>2. T \in SUBSET S /\ IsFiniteSet(T) /\ SumFunctionOnSet(f, T) # SumFunctionOnSet(g, T)
    BY <2>1, FS_Subset
  <2>3. /\ SumFunctionOnSet(f, T) =
             IF T = {} THEN 0 ELSE f[Taken(T)] + SumFunctionOnSet(f, T \ {Taken(T)})
        /\ SumFunctionOnSet(g, T) =
             IF T = {} THEN 0 ELSE g[Taken(T)] + SumFunctionOnSet(g, T \ {Taken(T)})
    BY <2>2, SumOverSet
  <2>4. T # {}
    BY <2>2, <2>3
  <2>5. Taken(T) \in T
    BY <2>4, TakenIsMember
  <2>6. T \ {Taken(T)} \notin F
    <3> HIDE DEF F
    <3> QED
      BY <2>1, <2>5
  <2>7. SumFunctionOnSet(f, T \ {Taken(T)}) = SumFunctionOnSet(g, T \ {Taken(T)})
    BY <2>2, <2>6
  <2> QED
    BY <2>2, <2>3, <2>4, <2>5, <2>7
<1> QED
  <2>1. S \notin F
    BY <1>2
  <2> QED
    BY <2>1

\* A sum changes by what one of its terms changes.
LEMMA SumChanges ==
  ASSUME NEW S, IsFiniteSet(S), NEW f, NEW g, NEW x \in S,
         \A y \in S : f[y] \in Int /\ g[y] \in Int, \A y \in S \ {x} : f[y] = g[y]
  PROVE  SumFunctionOnSet(g, S) = SumFunctionOnSet(f, S) + (g[x] - f[x])
<1>1. IsFiniteSet(S \ {x})
  BY FS_RemoveElement
<1>2. /\ SumFunctionOnSet(f, S) = f[x] + SumFunctionOnSet(f, S \ {x})
      /\ SumFunctionOnSet(g, S) = g[x] + SumFunctionOnSet(g, S \ {x})
  BY SumWithout
<1>3. SumFunctionOnSet(f, S \ {x}) = SumFunctionOnSet(g, S \ {x})
  BY <1>1, SumOfEqual
<1>4. SumFunctionOnSet(f, S \ {x}) \in Int
  BY <1>1, SumIsNumber
<1>5. f[x] \in Int /\ g[x] \in Int
  OBVIOUS
<1> QED
  BY <1>2, <1>3, <1>4, <1>5

LEMMA SumOfNothing == ASSUME NEW f PROVE SumFunctionOnSet(f, {}) = 0
BY FS_EmptySet, SumOverSet

\* A sum of zeros is zero.
LEMMA SumOfZeros ==
  ASSUME NEW S, IsFiniteSet(S), NEW f, \A x \in S : f[x] = 0
  PROVE  SumFunctionOnSet(f, S) = 0
<1> DEFINE F == {T \in SUBSET S : SumFunctionOnSet(f, T) # 0}
<1>1. F \in SUBSET FiniteSubsetsOf(S)
  BY FS_FiniteSubsetsOfFinite
<1>2. ASSUME F # {} PROVE FALSE
  <2>1. PICK T \in F : \A U \in F : U \subseteq T => U = T
    <3> HIDE DEF F
    <3> QED
      BY <1>1, <1>2, SmallestSet
  <2>2. T \in SUBSET S /\ IsFiniteSet(T) /\ SumFunctionOnSet(f, T) # 0
    BY <2>1, FS_Subset
  <2>3. SumFunctionOnSet(f, T) =
          IF T = {} THEN 0 ELSE f[Taken(T)] + SumFunctionOnSet(f, T \ {Taken(T)})
    BY <2>2, SumOverSet
  <2>4. T # {}
    BY <2>2, <2>3
  <2>5. Taken(T) \in T
    BY <2>4, TakenIsMember
  <2>6. T \ {Taken(T)} \notin F
    <3> HIDE DEF F
    <3> QED
      BY <2>1, <2>5
  <2>7. SumFunctionOnSet(f, T \ {Taken(T)}) = 0
    BY <2>2, <2>6
  <2>8. f[Taken(T)] = 0
    BY <2>2, <2>5
  <2> QED
    BY <2>2, <2>3, <2>4, <2>7, <2>8
<1> QED
  <2>1. S \notin F
    BY <1>2
  <2> QED
    BY <2>1

\* Sums add up term by term.
LEMMA SumOfSums ==
  ASSUME NEW S, IsFiniteSet(S), NEW f, NEW g, NEW h,
         \A x \in S : g[x] \in Int /\ h[x] \in Int /\ f[x] = g[x] + h[x]
  PROVE  SumFunctionOnSet(f, S) = SumFunctionOnSet(g, S) + SumFunctionOnSet(h, S)
<1> DEFINE Sum(k, T) == SumFunctionOnSet(k, T)
           F == {T \in SUBSET S : Sum(f, T) # Sum(g, T) + Sum(h, T)}
<1>1. F \in SUBSET FiniteSubsetsOf(S)
  BY FS_FiniteSubsetsOfFinite
<1>2. ASSUME NEW T \in SUBSET S
      PROVE  /\ IsFiniteSet(T) /\ Sum(g, T) \in Int /\ Sum(h, T) \in Int
             /\ T # {} => /\ Taken(T) \in T
                          /\ Sum(f, T) = f[Taken(T)] + Sum(f, T \ {Taken(T)})
                          /\ Sum(g, T) = g[Taken(T)] + Sum(g, T \ {Taken(T)})
                          /\ Sum(h, T) = h[Taken(T)] + Sum(h, T \ {Taken(T)})
             /\ T = {} => Sum(f, T) = 0 /\ Sum(g, T) = 0 /\ Sum(h, T) = 0
  <2>1. IsFiniteSet(T)
    BY FS_Subset
  <2>2. Sum(g, T) \in Int /\ Sum(h, T) \in Int
    BY <2>1, SumIsNumber
  <2>3. T # {} => Taken(T) \in T
    BY TakenIsMember
  <2>4. Sum(f, T) = IF T = {} THEN 0 ELSE f[Taken(T)] + Sum(f, T \ {Taken(T)})
    BY <2>1, SumOverSet
  <2>5. Sum(g, T) = IF T = {} THEN 0 ELSE g[Taken(T)] + Sum(g, T \ {Taken(T)})
    BY <2>1, SumOverSet
  <2>6. Sum(h, T) = IF T = {} THEN 0 ELSE h[Taken(T)] + Sum(h, T \ {Taken(T)})
    BY <2>1, SumOverSet
  <2> HIDE DEF Sum
  <2> QED
    BY <2>1, <2>2, <2>3, <2>4, <2>5, <2>6
<1>3. ASSUME F # {} PROVE FALSE
  <2>1. PICK T \in F : \A U \in F : U \subseteq T => U = T
    <3> HIDE DEF F
    <3> QED
      BY <1>1, <1>3, SmallestSet
  <2>2. T \in SUBSET S /\ Sum(f, T) # Sum(g, T) + Sum(h, T)
    BY <2>1
  <2> DEFINE x == Taken(T)
             U == T \ {x}
  <2>3. T # {}
    <3> SUFFICES ASSUME T = {} PROVE FALSE
      OBVIOUS
    <3> HIDE DEF Sum, F
    <3>1. Sum(f, T) = 0 /\ Sum(g, T) = 0 /\ Sum(h, T) = 0
      BY <1>2, <2>2
    <3> QED
      BY <2>2, <3>1
  <2>4. x \in T /\ x \in S
    BY <1>2, <2>2, <2>3
  <2>5. U \in SUBSET S /\ U \notin F
    <3> HIDE DEF F, x
    <3> QED
      BY <2>1, <2>2, <2>4
  <2>6. Sum(f, U) = Sum(g, U) + Sum(h, U)
    <3> HIDE DEF U, Sum
    <3> QED
      BY <2>5
  <2>7. /\ Sum(f, T) = f[x] + Sum(f, U) /\ Sum(g, T) = g[x] + Sum(g, U)
        /\ Sum(h, T) = h[x] + Sum(h, U) /\ Sum(g, U) \in Int /\ Sum(h, U) \in Int
    <3>1. Sum(g, U) \in Int /\ Sum(h, U) \in Int
      <4> HIDE DEF U, Sum
      <4> QED
        BY <1>2, <2>5
    <3> HIDE DEF Sum
    <3> QED
      BY <1>2, <2>2, <2>3, <3>1
  <2>8. g[x] \in Int /\ h[x] \in Int /\ f[x] = g[x] + h[x]
    BY <2>4
  <2> HIDE DEF Sum, U, x
  <2> QED
    BY <2>2, <2>6, <2>7, <2>8
<1> QED
  <2>1. S \notin F
    BY <1>3
  <2> QED
    BY <2>1

\* A set may be summed in two pieces.
LEMMA SumOfPieces ==
  ASSUME NEW S, IsFiniteSet(S), NEW f, \A x \in S : f[x] \in Int, NEW T \in SUBSET S
  PROVE  SumFunctionOnSet(f, S) = SumFunctionOnSet(f, T) + SumFunctionOnSet(f, S \ T)
<1> DEFINE Sum(U) == SumFunctionOnSet(f, U)
           F == {U \in SUBSET S : Sum(S) # Sum(U) + Sum(S \ U)}
<1>1. F \in SUBSET FiniteSubsetsOf(S)
  BY FS_FiniteSubsetsOfFinite
<1>2. ASSUME NEW U \in SUBSET S
      PROVE  Sum(U) \in Int /\ \A x \in U : Sum(U) = f[x] + Sum(U \ {x})
  <2>1. IsFiniteSet(U)
    BY FS_Subset
  <2>2. \A x \in U : f[x] \in Int
    OBVIOUS
  <2>3. Sum(U) \in Int
    BY <2>1, <2>2, SumIsNumber
  <2>4. ASSUME NEW x \in U PROVE Sum(U) = f[x] + Sum(U \ {x})
    BY <2>1, <2>2, SumWithout
  <2> QED
    BY <2>3, <2>4
<1>3. ASSUME F # {} PROVE FALSE
  <2>1. PICK U \in F : \A V \in F : V \subseteq U => V = U
    <3> HIDE DEF F
    <3> QED
      BY <1>1, <1>3, SmallestSet
  <2>2. U \in SUBSET S /\ Sum(S) # Sum(U) + Sum(S \ U)
    BY <2>1
  <2>3. Sum({}) = 0 /\ Sum(S) \in Int
    BY <1>2, SumOfNothing
  <2>4. U # {}
    <3> SUFFICES ASSUME U = {} PROVE FALSE
      OBVIOUS
    <3>1. S \ U = S
      OBVIOUS
    <3>2. Sum(U) = 0 /\ Sum(S \ U) = Sum(S)
      BY <2>3, <3>1
    <3> HIDE DEF Sum
    <3> QED
      BY <2>2, <2>3, <3>2
  <2>5. PICK x : x \in U
    BY <2>4
  <2>6. U \ {x} \notin F
    <3> HIDE DEF F
    <3> QED
      BY <2>1, <2>5
  <2>7. Sum(S) = Sum(U \ {x}) + Sum(S \ (U \ {x}))
    BY <2>2, <2>6
  <2>8. Sum(U) = f[x] + Sum(U \ {x})
    BY <1>2, <2>2, <2>5
  <2>9. Sum(S \ (U \ {x})) = f[x] + Sum(S \ U)
    <3>1. x \in S \ (U \ {x}) /\ S \ (U \ {x}) \in SUBSET S /\ (S \ (U \ {x})) \ {x} = S \ U
      BY <2>2, <2>5
    <3> HIDE DEF Sum
    <3> QED
      BY <1>2, <3>1
  <2>10. f[x] \in Int /\ Sum(U \ {x}) \in Int /\ Sum(S \ U) \in Int
    <3>1. U \ {x} \in SUBSET S /\ S \ U \in SUBSET S /\ x \in S
      BY <2>2, <2>5
    <3> QED
      BY <1>2, <3>1
  <2> HIDE DEF Sum
  <2> QED
    BY <2>2, <2>7, <2>8, <2>9, <2>10
<1> QED
  <2>1. T \notin F
    BY <1>3
  <2> QED
    BY <2>1

\* A sum is the sum of the sums of its classes.
LEMMA SumOfClasses ==
  ASSUME NEW S, IsFiniteSet(S), NEW f, \A x \in S : f[x] \in Int, NEW C, IsFiniteSet(C),
         NEW class, \A x \in S : class[x] \in C,
         NEW part, \A c \in C : \A x : x \in part[c] <=> x \in S /\ class[x] = c,
         NEW g, \A c \in C : g[c] = SumFunctionOnSet(f, part[c])
  PROVE  SumFunctionOnSet(f, S) = SumFunctionOnSet(g, C)
<1> DEFINE In(D) == {x \in S : class[x] \in D}
           F == {D \in SUBSET C : SumFunctionOnSet(f, In(D)) # SumFunctionOnSet(g, D)}
<1>1. F \in SUBSET FiniteSubsetsOf(C)
  BY FS_FiniteSubsetsOfFinite
<1>2. ASSUME NEW U \in SUBSET S PROVE IsFiniteSet(U) /\ \A x \in U : f[x] \in Int
  BY <1>2, FS_Subset
<1>3. \A c \in C : g[c] \in Int
  <2> SUFFICES ASSUME NEW c \in C PROVE g[c] \in Int
    OBVIOUS
  <2>1. part[c] \in SUBSET S
    OBVIOUS
  <2>2. SumFunctionOnSet(f, part[c]) \in Int
    BY <1>2, <2>1, SumIsNumber
  <2> QED
    BY <2>2
<1>4. ASSUME F # {} PROVE FALSE
  <2>1. PICK D \in F : \A E \in F : E \subseteq D => E = D
    <3> HIDE DEF F
    <3> QED
      BY <1>1, <1>4, SmallestSet
  <2>2. D \in SUBSET C /\ SumFunctionOnSet(f, In(D)) # SumFunctionOnSet(g, D)
    BY <2>1
  <2>3. D # {}
    <3>1. In({}) = {}
      OBVIOUS
    <3>2. SumFunctionOnSet(f, {}) = 0 /\ SumFunctionOnSet(g, {}) = 0
      BY SumOfNothing
    <3> HIDE DEF In
    <3> QED
      BY <2>2, <3>1, <3>2
  <2>4. PICK c : c \in D
    BY <2>3
  <2>5. D \ {c} \notin F
    <3> HIDE DEF F
    <3> QED
      BY <2>1, <2>4
  <2>6. SumFunctionOnSet(f, In(D \ {c})) = SumFunctionOnSet(g, D \ {c})
    BY <2>2, <2>5
  <2>7. PICK P, Q : P = In(D) /\ Q = part[c]
    OBVIOUS
  <2>8. SumFunctionOnSet(f, P) = SumFunctionOnSet(f, Q) + SumFunctionOnSet(f, In(D \ {c}))
    <3>0. c \in C /\ \A x : x \in Q <=> x \in S /\ class[x] = c
      BY <2>2, <2>4, <2>7
    <3>1. P \in SUBSET S /\ Q \in SUBSET P
      BY <2>4, <2>7, <3>0
    <3>2. P \ Q = In(D \ {c})
      BY <2>4, <2>7, <3>0
    <3>3. IsFiniteSet(P) /\ \A x \in P : f[x] \in Int
      BY <1>2, <3>1
    <3>4. SumFunctionOnSet(f, P) = SumFunctionOnSet(f, Q) + SumFunctionOnSet(f, P \ Q)
      BY <3>1, <3>3, SumOfPieces
    <3> QED
      BY <3>2, <3>4
  <2>9. SumFunctionOnSet(f, Q) = g[c]
    BY <2>2, <2>4, <2>7
  <2>10. SumFunctionOnSet(g, D) = g[c] + SumFunctionOnSet(g, D \ {c})
    <3>1. IsFiniteSet(D) /\ \A d \in D : g[d] \in Int
      BY <1>3, <2>2, FS_Subset
    <3> QED
      BY <2>4, <3>1, SumWithout
  <2> HIDE DEF In
  <2> QED
    BY <2>2, <2>6, <2>7, <2>8, <2>9, <2>10
<1> QED
  <2>1. C \notin F
    BY <1>4
  <2>2. In(C) = S
    OBVIOUS
  <2> QED
    BY <2>1, <2>2
=============================================================================
