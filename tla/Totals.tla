------------------------------- MODULE Totals -------------------------------
(***************************************************************************)
(* Sums over finite sets, for the modules that prove something about them. *)
(* MapThenSumSet takes an operator; Total is that sum of a function, about *)
(* which facts can be stated.  No induction is available over the elements *)
(* of a set: a fact about every finite set is proved here of a smallest    *)
(* set that would break it.                                                *)
(***************************************************************************)
EXTENDS Integers, FiniteSets, FiniteSetsExt, FiniteSetTheorems,
        WellFoundedInduction, TLAPS

(* A set of natural numbers that is not empty has a least element.         *)
LEMMA LeastElement ==
    ASSUME NEW S \in SUBSET Nat, S # {}
    PROVE  \E i \in S : \A j \in S : i <= j
<1> DEFINE R == {ss \in Nat \X Nat : ss[1] < ss[2]}
<1>1. IsWellFoundedOn(R, Nat)
  BY NatLessThanWellFounded DEF OpToRel
<1>2. PICK i \in S : \A j \in S : <<j, i>> \notin R
  <2> HIDE DEF R
  <2> QED
    BY <1>1, WFMin
<1>3. ASSUME NEW j \in S PROVE i <= j
  <2>1. <<j, i>> \in Nat \X Nat /\ <<j, i>>[1] = j /\ <<j, i>>[2] = i
    OBVIOUS
  <2>2. ~(j < i)
    BY <1>2, <2>1
  <2>3. QED
    BY <2>2
<1>4. QED
  BY <1>3

(* Among sets that are finite one has no proper subset among them.         *)
LEMMA SmallestSet ==
    ASSUME NEW C, C # {}, \A s \in C : IsFiniteSet(s)
    PROVE  \E s \in C : \A t \in C : t \subseteq s => t = s
<1> DEFINE N == {Cardinality(s) : s \in C}
<1>1. N \in SUBSET Nat /\ N # {}
  BY FS_CardinalityType
<1>2. PICK n \in N : \A m \in N : n <= m
  <2> HIDE DEF N
  <2> QED
    BY <1>1, LeastElement
<1>3. PICK s \in C : n = Cardinality(s)
  OBVIOUS
<1>4. ASSUME NEW t \in C, t \subseteq s PROVE t = s
  <2>1. Cardinality(t) \in Nat /\ Cardinality(s) \in Nat
    BY <1>4, FS_CardinalityType
  <2>2. Cardinality(s) <= Cardinality(t)
    BY <1>2, <1>3
  <2>3. Cardinality(t) <= Cardinality(s)
    BY <1>4, FS_Subset
  <2>4. Cardinality(t) = Cardinality(s)
    BY <2>1, <2>2, <2>3
  <2>5. QED
    BY <1>4, <2>4, FS_Subset
<1>5. QED
  BY <1>4

(* The element that the library's sum takes next.                          *)
Pick(s) == CHOOSE x \in s : TRUE

(* The sum of a function over a set.                                       *)
Total(f, S) == LET g(x) == f[x] IN MapThenSumSet(g, S)

(* it adds up f over the subsets of S.                                     *)
AddsUp(it, f, S) ==
    it = [s \in SUBSET S |->
             IF s = {} THEN 0 ELSE f[Pick(s)] + it[s \ {Pick(s)}]]

(* The element a sum takes next is one of the set.                         *)
LEMMA PickIn ==
    ASSUME NEW s, s # {} PROVE Pick(s) \in s
BY DEF Pick

(* A total is the value at the whole set of a function that adds up.       *)
LEMMA TotalIs ==
    ASSUME NEW f, NEW S, \E it : AddsUp(it, f, S)
    PROVE  \E it : AddsUp(it, f, S) /\ Total(f, S) = it[S]
<1> DEFINE it == CHOOSE it : AddsUp(it, f, S)
<1>1. AddsUp(it, f, S)
  OBVIOUS
<1>2. Total(f, S) = it[S]
  BY DEF Total, MapThenSumSet, MapThenFoldSet, AddsUp, Pick
<1>3. QED
  BY <1>1, <1>2

(* The recursion such a function satisfies.                                *)
LEMMA AddsUpAt ==
    ASSUME NEW it, NEW f, NEW S, AddsUp(it, f, S), NEW s \in SUBSET S
    PROVE  it[s] = IF s = {} THEN 0 ELSE f[Pick(s)] + it[s \ {Pick(s)}]
<1> DEFINE body(t) == IF t = {} THEN 0 ELSE f[Pick(t)] + it[t \ {Pick(t)}]
<1>1. it = [t \in SUBSET S |-> body(t)]
  BY DEF AddsUp
<1> HIDE DEF body
<1>2. it[s] = body(s)
  BY <1>1
<1>3. QED
  BY <1>2 DEF body

(* Two that add up the same agree.                                         *)
LEMMA AddsUpOnce ==
    ASSUME NEW a, NEW f, NEW S, AddsUp(a, f, S), NEW b, NEW g, NEW T,
           AddsUp(b, g, T), T \subseteq S, IsFiniteSet(T),
           \A x \in T : f[x] = g[x]
    PROVE  \A s \in SUBSET T : a[s] = b[s]
<1> DEFINE C == {s \in SUBSET T : a[s] # b[s]}
<1> SUFFICES ASSUME C # {} PROVE FALSE
  OBVIOUS
<1>1. \A s \in C : IsFiniteSet(s)
  BY FS_Subset
<1>2. PICK s \in C : \A t \in C : t \subseteq s => t = s
  <2> HIDE DEF C
  <2> QED
    BY <1>1, SmallestSet
<1>3. s \in SUBSET T /\ s \in SUBSET S /\ a[s] # b[s]
  OBVIOUS
<1>4. s # {}
  BY <1>3, AddsUpAt
<1> DEFINE t == s \ {Pick(s)}
<1>5. Pick(s) \in s /\ t \in SUBSET T
  BY <1>3, <1>4, PickIn
<1>6. a[t] = b[t]
  BY <1>2, <1>5
<1>7. a[s] = f[Pick(s)] + a[t] /\ b[s] = g[Pick(s)] + b[t]
  <2> HIDE DEF C, t
  <2>1. a[s] = IF s = {} THEN 0 ELSE f[Pick(s)] + a[s \ {Pick(s)}]
    BY <1>3, AddsUpAt
  <2>2. b[s] = IF s = {} THEN 0 ELSE g[Pick(s)] + b[s \ {Pick(s)}]
    BY <1>3, AddsUpAt
  <2>3. QED
    BY <1>4, <2>1, <2>2 DEF t
<1>8. QED
  BY <1>3, <1>5, <1>6, <1>7

(* There is one for every finite set.                                      *)
LEMMA AddsUpExists ==
    ASSUME NEW f, NEW S, IsFiniteSet(S)
    PROVE  \E it : AddsUp(it, f, S)
<1> DEFINE C == {T \in SUBSET S : ~\E it : AddsUp(it, f, T)}
<1> SUFFICES ASSUME C # {} PROVE FALSE
  OBVIOUS
<1>1. \A T \in C : IsFiniteSet(T)
  BY FS_Subset
<1>2. PICK T \in C : \A U \in C : U \subseteq T => U = T
  <2> HIDE DEF C
  <2> QED
    BY <1>1, SmallestSet
<1>3. \A U \in SUBSET T : U # T => \E it : AddsUp(it, f, U)
  BY <1>2
<1>4. IsFiniteSet(T)
  BY <1>1
<1> DEFINE body(s, h) == IF s = {} THEN 0 ELSE f[Pick(s)] + h
           it == [s \in SUBSET T |-> body(s, Total(f, s \ {Pick(s)}))]
<1>5. ASSUME NEW s \in SUBSET T, s # {}
      PROVE  it[s \ {Pick(s)}] = Total(f, s \ {Pick(s)})
  <2> DEFINE u == s \ {Pick(s)}
             v == u \ {Pick(u)}
  <2>1. u \in SUBSET T /\ u # T /\ v \in SUBSET u /\ v # T /\ v \in SUBSET T
    BY <1>5, PickIn
  <2>2. it[u] = body(u, Total(f, v))
    BY <2>1
  <2> HIDE DEF u, v
  <2>3. PICK a : AddsUp(a, f, u) /\ Total(f, u) = a[u]
    BY <1>3, <2>1, TotalIs
  <2>4. PICK b : AddsUp(b, f, v) /\ Total(f, v) = b[v]
    BY <1>3, <2>1, TotalIs
  <2>5. IsFiniteSet(v)
    BY <1>4, <2>1, FS_Subset
  <2>6. a[v] = b[v]
    BY <2>1, <2>3, <2>4, <2>5, AddsUpOnce
  <2>7. a[u] = body(u, a[v])
    BY <2>3, AddsUpAt DEF v
  <2>8. QED
    BY <2>2, <2>3, <2>4, <2>6, <2>7 DEF u
<1>6. \A s \in SUBSET T : it[s] = body(s, it[s \ {Pick(s)}])
  BY <1>5
<1>7. it = [s \in SUBSET T |-> it[s]]
  OBVIOUS
<1> HIDE DEF it
<1>8. it = [s \in SUBSET T |-> body(s, it[s \ {Pick(s)}])]
  BY <1>6, <1>7
<1>9. AddsUp(it, f, T)
  BY <1>8 DEF AddsUp
<1>10. QED
  BY <1>2, <1>9

(* Whatever adds up f gives its total.                                     *)
LEMMA SummedIs ==
    ASSUME NEW it, NEW f, NEW S, IsFiniteSet(S), AddsUp(it, f, S)
    PROVE  it[S] = Total(f, S)
<1>1. PICK a : AddsUp(a, f, S) /\ Total(f, S) = a[S]
  BY AddsUpExists, TotalIs
<1>2. QED
  BY <1>1, AddsUpOnce

(* The recursion of a total.                                               *)
LEMMA TotalStep ==
    ASSUME NEW f, NEW S, IsFiniteSet(S)
    PROVE  Total(f, S) = IF S = {} THEN 0
                         ELSE f[Pick(S)] + Total(f, S \ {Pick(S)})
<1> DEFINE T == S \ {Pick(S)}
<1>1. T \in SUBSET S /\ IsFiniteSet(T)
  BY FS_Subset
<1> HIDE DEF T
<1>2. PICK a : AddsUp(a, f, S) /\ Total(f, S) = a[S]
  BY AddsUpExists, TotalIs
<1>3. PICK b : AddsUp(b, f, T) /\ Total(f, T) = b[T]
  BY <1>1, AddsUpExists, TotalIs
<1>4. a[T] = b[T]
  BY <1>1, <1>2, <1>3, AddsUpOnce
<1>5. a[S] = IF S = {} THEN 0 ELSE f[Pick(S)] + a[T]
  BY <1>2, AddsUpAt DEF T
<1>6. QED
  BY <1>2, <1>3, <1>4, <1>5 DEF T

(* Equal summands have equal sums.                                         *)
LEMMA TotalSame ==
    ASSUME NEW f, NEW g, NEW S, IsFiniteSet(S), \A x \in S : f[x] = g[x]
    PROVE  Total(f, S) = Total(g, S)
<1>1. PICK a : AddsUp(a, f, S) /\ Total(f, S) = a[S]
  BY AddsUpExists, TotalIs
<1>2. PICK b : AddsUp(b, g, S) /\ Total(g, S) = b[S]
  BY AddsUpExists, TotalIs
<1>3. a[S] = b[S]
  BY <1>1, <1>2, AddsUpOnce
<1>4. QED
  BY <1>1, <1>2, <1>3

(* The sum of integers is one, and of natural numbers one.                 *)
LEMMA TotalType ==
    ASSUME NEW f, NEW S, IsFiniteSet(S), \A x \in S : f[x] \in Int
    PROVE  /\ Total(f, S) \in Int
           /\ (\A x \in S : f[x] >= 0) => Total(f, S) >= 0
<1> DEFINE P(T) == /\ Total(f, T) \in Int
                   /\ (\A x \in T : f[x] >= 0) => Total(f, T) >= 0
           C == {T \in SUBSET S : ~P(T)}
<1> SUFFICES ASSUME C # {} PROVE FALSE
  OBVIOUS
<1>1. \A T \in C : IsFiniteSet(T)
  BY FS_Subset
<1> HIDE DEF P
<1>2. PICK T \in C : \A U \in C : U \subseteq T => U = T
  <2> HIDE DEF C
  <2> QED
    BY <1>1, SmallestSet
<1> DEFINE U == T \ {Pick(T)}
<1>3. Total(f, T) = IF T = {} THEN 0 ELSE f[Pick(T)] + Total(f, U)
  BY <1>1, TotalStep
<1>4. T # {}
  BY <1>3 DEF P
<1>5. Pick(T) \in T /\ U \in SUBSET S /\ U \subseteq T /\ U # T
  BY <1>4, PickIn
<1>6. P(U)
  BY <1>2, <1>5
<1> HIDE DEF U
<1>7. P(T)
  BY <1>3, <1>4, <1>5, <1>6 DEF P
<1>8. QED
  BY <1>7

(* The summand taken off last may be any.                                  *)
LEMMA TotalOff ==
    ASSUME NEW f, NEW S, IsFiniteSet(S), \A x \in S : f[x] \in Int,
           NEW x \in S
    PROVE  Total(f, S) = f[x] + Total(f, S \ {x})
<1> DEFINE P(T) == \A y \in T : Total(f, T) = f[y] + Total(f, T \ {y})
           C == {T \in SUBSET S : ~P(T)}
<1> SUFFICES ASSUME C # {} PROVE FALSE
  OBVIOUS
<1>1. \A T \in C : IsFiniteSet(T)
  BY FS_Subset
<1> HIDE DEF P
<1>2. PICK T \in C : \A U \in C : U \subseteq T => U = T
  <2> HIDE DEF C
  <2> QED
    BY <1>1, SmallestSet
<1> DEFINE p == Pick(T)
<1>3. IsFiniteSet(T) /\ T \in SUBSET S
  BY <1>1
<1>4. ASSUME NEW y \in T PROVE Total(f, T) = f[y] + Total(f, T \ {y})
  <2>1. p \in T
    BY <1>4, PickIn
  <2> HIDE DEF p
  <2>2. Total(f, T) = f[p] + Total(f, T \ {p})
    BY <1>3, <2>1, TotalStep DEF p
  <2>3. CASE y = p
    BY <2>2, <2>3
  <2>4. CASE y # p
    <3>1. P(T \ {p}) /\ P(T \ {y})
      BY <1>2, <1>3, <1>4, <2>1
    <3> DEFINE V == (T \ {p}) \ {y}
    <3>2. V = (T \ {y}) \ {p} /\ V \in SUBSET S /\ IsFiniteSet(V)
      BY <1>3, FS_Subset
    <3>3. Total(f, T \ {p}) = f[y] + Total(f, V)
      BY <1>4, <2>4, <3>1 DEF P
    <3> HIDE DEF V
    <3>4. Total(f, T \ {y}) = f[p] + Total(f, V)
      BY <2>1, <2>4, <3>1, <3>2 DEF P
    <3>5. Total(f, V) \in Int /\ f[p] \in Int /\ f[y] \in Int
      BY <1>3, <1>4, <2>1, <3>2, TotalType
    <3>6. QED
      BY <2>2, <3>3, <3>4, <3>5
  <2>5. QED
    BY <2>3, <2>4
<1>5. P(T)
  BY <1>4 DEF P
<1>6. QED
  BY <1>5

(* One summand more.                                                       *)
LEMMA TotalAdd ==
    ASSUME NEW f, NEW S, IsFiniteSet(S), NEW x, x \notin S,
           \A y \in S \cup {x} : f[y] \in Int
    PROVE  Total(f, S \cup {x}) = Total(f, S) + f[x]
<1> DEFINE T == S \cup {x}
<1>1. IsFiniteSet(T)
  BY FS_AddElement
<1>2. T \ {x} = S /\ x \in T
  OBVIOUS
<1> HIDE DEF T
<1>3. Total(f, T) = f[x] + Total(f, S)
  BY <1>1, <1>2, TotalOff DEF T
<1>4. Total(f, S) \in Int
  BY TotalType
<1>5. QED
  BY <1>3, <1>4 DEF T

(* A summand that grows makes the sum grow as much.                        *)
LEMMA TotalChange ==
    ASSUME NEW S, IsFiniteSet(S), NEW f \in [S -> Int], NEW x \in S,
           NEW d \in Int
    PROVE  Total([f EXCEPT ![x] = @ + d], S) = Total(f, S) + d
<1> DEFINE g == [f EXCEPT ![x] = @ + d]
<1>1. g \in [S -> Int] /\ g[x] = f[x] + d /\ \A y \in S \ {x} : f[y] = g[y]
  OBVIOUS
<1>2. IsFiniteSet(S \ {x})
  BY FS_Subset
<1> HIDE DEF g
<1>3. Total(f, S) = f[x] + Total(f, S \ {x})
  BY TotalOff
<1>4. Total(g, S) = g[x] + Total(g, S \ {x})
  BY <1>1, TotalOff
<1>5. Total(f, S \ {x}) = Total(g, S \ {x})
  BY <1>1, <1>2, TotalSame
<1>6. Total(f, S \ {x}) \in Int
  BY <1>2, TotalType
<1>7. f[x] \in Int
  OBVIOUS
<1>8. Total(g, S) = Total(f, S) + d
  BY <1>1, <1>3, <1>4, <1>5, <1>6, <1>7
<1>9. QED
  BY <1>8 DEF g

(* Zeros sum up to zero.                                                   *)
LEMMA TotalZero ==
    ASSUME NEW S, IsFiniteSet(S), NEW f, \A x \in S : f[x] = 0
    PROVE  Total(f, S) = 0
<1> DEFINE C == {T \in SUBSET S : Total(f, T) # 0}
<1> SUFFICES ASSUME C # {} PROVE FALSE
  OBVIOUS
<1>1. \A T \in C : IsFiniteSet(T)
  BY FS_Subset
<1>2. PICK T \in C : \A U \in C : U \subseteq T => U = T
  <2> HIDE DEF C
  <2> QED
    BY <1>1, SmallestSet
<1> DEFINE U == T \ {Pick(T)}
<1>3. Total(f, T) = IF T = {} THEN 0 ELSE f[Pick(T)] + Total(f, U)
  BY <1>1, TotalStep
<1>4. T # {}
  BY <1>3
<1>5. Pick(T) \in T /\ U \in SUBSET S /\ U \subseteq T /\ U # T
  BY <1>4, PickIn
<1>6. Total(f, U) = 0
  BY <1>2, <1>5
<1>7. f[Pick(T)] = 0
  BY <1>5
<1> HIDE DEF U
<1>8. Total(f, T) = 0
  BY <1>3, <1>6, <1>7
<1>9. QED
  BY <1>8
=============================================================================
