-------------------------------- MODULE Sums --------------------------------
(***************************************************************************)
(* What the invariants about money need of a sum over a finite set: it is  *)
(* zero over the empty set, one term more with one element more, and       *)
(* depends on nothing but its terms. SumFunctionOnSet of the community     *)
(* modules is a recursive function, which stands for whatever function     *)
(* satisfies its equation: that there is one is proved first.              *)
(***************************************************************************)
EXTENDS Integers, Sequences, Functions, FiniteSetTheorems, WellFoundedInduction, TLAPS

(* The element the sum takes from a set, and what the recursion does with  *)
(* the function g at the set s.                                            *)
Taken(s) == CHOOSE x \in s : TRUE
StepSum(f, g, s) == IF s = {} THEN 0 ELSE f[Taken(s)] + g[s \ {Taken(s)}]

(* g satisfies the equation of a sum of f over every subset of S.          *)
IsSum(g, f, S) == g = [s \in SUBSET S |-> StepSum(f, g, s)]
-----------------------------------------------------------------------------
(* A set of natural numbers that is not empty has a least element.         *)
LEMMA LeastNatural ==
  ASSUME NEW T, T \subseteq Nat, T # {}
  PROVE  \E x \in T : \A y \in T : x <= y
<1>1. PICK x \in T : \A y \in T : ~(<<y, x>> \in OpToRel(<, Nat))
  BY NatLessThanWellFounded, WFMin
<1>2. \A y \in T : ~(y < x)
  BY <1>1, Zenon DEF OpToRel
<1> QED
  BY <1>2

LEMMA TakenIn ==
  ASSUME NEW s, s # {}
  PROVE  Taken(s) \in s
BY DEF Taken

(* Without one element a finite set is one smaller.                        *)
LEMMA OneLess ==
  ASSUME NEW s, IsFiniteSet(s), NEW x \in s
  PROVE  /\ IsFiniteSet(s \ {x})
         /\ Cardinality(s) \in Nat /\ Cardinality(s \ {x}) \in Nat
         /\ Cardinality(s \ {x}) = Cardinality(s) - 1
BY FS_RemoveElement, FS_CardinalityType

(* The equation has a solution: solutions for the subsets of n elements    *)
(* extend to those of n + 1.                                               *)
LEMMA SumExists ==
  ASSUME NEW S, IsFiniteSet(S), NEW f
  PROVE  \E g : IsSum(g, f, S)
<1> DEFINE Small(n) == {s \in SUBSET S : Cardinality(s) <= n}
           Has(n) == \E g : g = [s \in Small(n) |-> StepSum(f, g, s)]
           Fails == {n \in Nat : ~Has(n)}
<1>0. \A s \in SUBSET S : IsFiniteSet(s) /\ Cardinality(s) \in Nat
  BY FS_Subset, FS_CardinalityType
<1>1. Has(0)
  <2>1. \A s \in Small(0) : s = {}
    BY <1>0, FS_EmptySet
  <2> DEFINE g == [s \in Small(0) |-> 0]
  <2>2. g = [s \in Small(0) |-> StepSum(f, g, s)]
    BY <2>1 DEF StepSum
  <2> QED
    BY <2>2
<1>2. ASSUME NEW n \in Nat, Has(n)
      PROVE  Has(n + 1)
  <2>1. PICK g : g = [s \in Small(n) |-> StepSum(f, g, s)]
    BY <1>2
  <2> DEFINE h == [s \in Small(n + 1) |-> StepSum(f, g, s)]
  <2>2. \A s \in Small(n) : h[s] = g[s]
    <3>1. Small(n) \subseteq Small(n + 1)
      BY <1>0
    <3> QED
      BY <2>1, <3>1
  <2>3. ASSUME NEW s \in Small(n + 1)
        PROVE  StepSum(f, g, s) = StepSum(f, h, s)
    <3>1. CASE s = {}
      BY <3>1 DEF StepSum
    <3>2. CASE s # {}
      <4>1. Taken(s) \in s
        BY <3>2, TakenIn
      <4>2. s \ {Taken(s)} \in Small(n)
        BY <4>1, <1>0, OneLess
      <4> QED
        BY <4>2, <2>2, <3>2 DEF StepSum
    <3> QED
      BY <3>1, <3>2
  <2>4. h = [s \in Small(n + 1) |-> StepSum(f, h, s)]
    BY <2>3
  <2> QED
    BY <2>4
<1>3. \A n \in Nat : Has(n)
  <2> HIDE DEF Has
  <2> SUFFICES ASSUME Fails # {} PROVE FALSE
    OBVIOUS
  <2>1. PICK m \in Fails : \A y \in Fails : m <= y
    BY LeastNatural
  <2>2. m # 0 /\ m - 1 \in Nat /\ m - 1 \notin Fails
    BY <2>1, <1>1
  <2>3. Has((m - 1) + 1)
    BY <2>2, <1>2
  <2> QED
    BY <2>1, <2>2, <2>3
<1>4. Cardinality(S) \in Nat /\ Small(Cardinality(S)) = SUBSET S
  BY <1>0, FS_Subset, FS_CardinalityType
<1>5. PICK g : g = [s \in Small(Cardinality(S)) |-> StepSum(f, g, s)]
  BY <1>3, <1>4
<1>6. g = [s \in SUBSET S |-> StepSum(f, g, s)]
  BY <1>4, <1>5
<1> QED
  BY <1>6 DEF IsSum

(* Two solutions agree where both are defined and the functions they sum   *)
(* agree.                                                                  *)
LEMMA SumUnique ==
  ASSUME NEW S, NEW T, NEW f, NEW e, NEW g, NEW h,
         IsSum(g, f, S), IsSum(h, e, T),
         NEW U, U \subseteq S, U \subseteq T, IsFiniteSet(U),
         \A x \in U : f[x] = e[x]
  PROVE  g[U] = h[U]
<1> DEFINE Differ == {n \in Nat : \E V \in SUBSET U : Cardinality(V) = n /\ g[V] # h[V]}
<1> SUFFICES ASSUME Differ # {} PROVE FALSE
  BY FS_CardinalityType
<1>1. PICK m \in Differ : \A y \in Differ : m <= y
  BY LeastNatural
<1>2. PICK V \in SUBSET U : Cardinality(V) = m /\ g[V] # h[V]
  BY <1>1
<1>3. IsFiniteSet(V)
  BY FS_Subset
<1>4. g[V] = StepSum(f, g, V) /\ h[V] = StepSum(e, h, V)
  BY DEF IsSum
<1>5. CASE V = {}
  BY <1>2, <1>4, <1>5 DEF StepSum
<1>6. CASE V # {}
  <2> DEFINE W == V \ {Taken(V)}
  <2>1. Taken(V) \in V
    BY <1>6, TakenIn
  <2>2. W \in SUBSET U /\ Cardinality(W) \in Nat /\ Cardinality(W) = m - 1
    BY <2>1, <1>2, <1>3, OneLess
  <2>3. g[W] = h[W]
    BY <2>2, <1>1
  <2>4. f[Taken(V)] = e[Taken(V)]
    BY <2>1
  <2> QED
    BY <1>2, <1>4, <1>6, <2>3, <2>4 DEF StepSum
<1> QED
  BY <1>5, <1>6

(* The sum is the solution's value at the whole set.                       *)
LEMMA SumIs ==
  ASSUME NEW S, IsFiniteSet(S), NEW f
  PROVE  \E g : IsSum(g, f, S) /\ SumFunctionOnSet(f, S) = g[S]
<1> DEFINE G == CHOOSE g : IsSum(g, f, S)
<1>1. IsSum(G, f, S)
  BY SumExists, Zenon
<1>2. SumFunctionOnSet(f, S) = G[S]
  BY DEF SumFunctionOnSet, FoldFunctionOnSet, MapThenFoldSet, IsSum, StepSum, Taken
<1> QED
  BY <1>1, <1>2, Zenon

(* The sum over the empty set is zero.                                     *)
LEMMA SumOfNone ==
  ASSUME NEW f
  PROVE  SumFunctionOnSet(f, {}) = 0
BY SumIs, FS_EmptySet DEF IsSum, StepSum

(* A sum depends only on the values it adds up.                            *)
LEMMA SumSame ==
  ASSUME NEW S, IsFiniteSet(S), NEW f, NEW e, \A x \in S : f[x] = e[x]
  PROVE  SumFunctionOnSet(f, S) = SumFunctionOnSet(e, S)
BY SumIs, SumUnique

(* The recursion's own step: the sum is the taken term plus the rest.      *)
LEMMA SumTaken ==
  ASSUME NEW S, IsFiniteSet(S), S # {}, NEW f
  PROVE  SumFunctionOnSet(f, S)
           = f[Taken(S)] + SumFunctionOnSet(f, S \ {Taken(S)})
<1> DEFINE R == S \ {Taken(S)}
<1>1. IsFiniteSet(R)
  BY FS_Subset
<1>2. PICK g : IsSum(g, f, S) /\ SumFunctionOnSet(f, S) = g[S]
  BY SumIs
<1>3. PICK h : IsSum(h, f, R) /\ SumFunctionOnSet(f, R) = h[R]
  BY <1>1, SumIs
<1>4. g[R] = h[R]
  BY <1>1, <1>2, <1>3, SumUnique
<1>5. g[S] = f[Taken(S)] + g[R]
  BY <1>2 DEF IsSum, StepSum
<1> QED
  BY <1>2, <1>3, <1>4, <1>5

(* A sum of integers is an integer.                                        *)
LEMMA SumInt ==
  ASSUME NEW S, IsFiniteSet(S), NEW f, \A x \in S : f[x] \in Int
  PROVE  SumFunctionOnSet(f, S) \in Int
<1> DEFINE Bad == {n \in Nat : \E V \in SUBSET S :
                     Cardinality(V) = n /\ SumFunctionOnSet(f, V) \notin Int}
<1> SUFFICES ASSUME Bad # {} PROVE FALSE
  BY FS_CardinalityType
<1>1. PICK m \in Bad : \A y \in Bad : m <= y
  BY LeastNatural
<1>2. PICK V \in SUBSET S : Cardinality(V) = m /\ SumFunctionOnSet(f, V) \notin Int
  BY <1>1
<1>3. IsFiniteSet(V) /\ V # {}
  <2>1. V # {}
    BY <1>2, SumOfNone
  <2> QED
    BY <2>1, FS_Subset
<1>4. Taken(V) \in V
  BY <1>3, TakenIn
<1>5. V \ {Taken(V)} \in SUBSET S /\ Cardinality(V \ {Taken(V)}) \in Nat
      /\ Cardinality(V \ {Taken(V)}) = m - 1
  BY <1>2, <1>3, <1>4, OneLess
<1>6. SumFunctionOnSet(f, V \ {Taken(V)}) \in Int
  BY <1>1, <1>5
<1>7. f[Taken(V)] \in Int
  BY <1>4
<1> QED
  BY <1>2, <1>3, <1>6, <1>7, SumTaken

(* Any element may be taken first.                                         *)
LEMMA SumWithout ==
  ASSUME NEW S, IsFiniteSet(S), NEW f, \A x \in S : f[x] \in Int, NEW a \in S
  PROVE  SumFunctionOnSet(f, S) = f[a] + SumFunctionOnSet(f, S \ {a})
<1> DEFINE Bad == {n \in Nat : \E V \in SUBSET S : \E b \in V :
                     /\ Cardinality(V) = n
                     /\ SumFunctionOnSet(f, V) # f[b] + SumFunctionOnSet(f, V \ {b})}
<1> SUFFICES ASSUME Bad # {} PROVE FALSE
  BY FS_CardinalityType
<1>1. PICK m \in Bad : \A y \in Bad : m <= y
  BY LeastNatural
<1>2. PICK V \in SUBSET S, b \in S :
        /\ b \in V
        /\ Cardinality(V) = m
        /\ SumFunctionOnSet(f, V) # f[b] + SumFunctionOnSet(f, V \ {b})
  BY <1>1
<1>3. IsFiniteSet(V) /\ V # {}
  BY <1>2, FS_Subset
<1> DEFINE t == Taken(V)
<1>4. t \in V
  BY <1>3, TakenIn
<1> HIDE DEF t
<1>5. SumFunctionOnSet(f, V) = f[t] + SumFunctionOnSet(f, V \ {t})
  BY <1>3, SumTaken DEF t
<1>6. t # b
  BY <1>2, <1>5
<1> DEFINE R == (V \ {t}) \ {b}
<1>7. /\ V \ {t} \in SUBSET S /\ V \ {b} \in SUBSET S
      /\ Cardinality(V \ {t}) \in Nat /\ Cardinality(V \ {t}) = m - 1
      /\ Cardinality(V \ {b}) \in Nat /\ Cardinality(V \ {b}) = m - 1
  BY <1>2, <1>3, <1>4, OneLess
<1> DEFINE Swaps(W, c) == SumFunctionOnSet(f, W) = f[c] + SumFunctionOnSet(f, W \ {c})
<1>8. ASSUME NEW W \in SUBSET S, NEW c \in W,
              Cardinality(W) \in Nat, Cardinality(W) = m - 1
       PROVE  Swaps(W, c)
  <2> SUFFICES ASSUME ~Swaps(W, c) PROVE FALSE
    OBVIOUS
  <2>1. \E d \in W : Cardinality(W) = m - 1 /\ ~Swaps(W, d)
    BY <1>8
  <2>2. m - 1 \in Nat
    BY <1>8
  <2>3. m - 1 \in Bad /\ m \in Nat
    BY <2>1, <2>2
  <2> HIDE DEF Bad, Swaps
  <2>4. m <= m - 1
    BY <1>1, <2>3
  <2> QED
    BY <2>3, <2>4
<1>9. SumFunctionOnSet(f, V \ {t}) = f[b] + SumFunctionOnSet(f, R)
  <2>1. b \in V \ {t}
    BY <1>2, <1>6
  <2> QED
    BY <2>1, <1>7, <1>8
<1>10. SumFunctionOnSet(f, V \ {b}) = f[t] + SumFunctionOnSet(f, R)
  <2>1. SumFunctionOnSet(f, V \ {b}) = f[t] + SumFunctionOnSet(f, (V \ {b}) \ {t})
    <3>1. t \in V \ {b}
      BY <1>4, <1>6
    <3> QED
      BY <3>1, <1>7, <1>8
  <2>2. (V \ {b}) \ {t} = R
    OBVIOUS
  <2> QED
    BY <2>1, <2>2
<1>11. f[t] \in Int /\ f[b] \in Int /\ SumFunctionOnSet(f, R) \in Int
  <2>1. R \in SUBSET S /\ IsFiniteSet(R)
    BY <1>3, FS_Subset
  <2> QED
    BY <2>1, <1>4, SumInt
<1> HIDE DEF R
<1>12. SumFunctionOnSet(f, V) = f[b] + SumFunctionOnSet(f, V \ {b})
  BY <1>5, <1>9, <1>10, <1>11
<1> QED
  BY <1>2, <1>12

(* One element more adds its term.                                         *)
LEMMA SumWith ==
  ASSUME NEW S, IsFiniteSet(S), NEW f, NEW a, a \notin S,
         f[a] \in Int, \A x \in S : f[x] \in Int
  PROVE  SumFunctionOnSet(f, S \cup {a}) = f[a] + SumFunctionOnSet(f, S)
<1>1. IsFiniteSet(S \cup {a}) /\ (S \cup {a}) \ {a} = S
  BY FS_AddElement
<1> QED
  BY <1>1, SumWithout

(* A sum of natural numbers is one, and is at least each of its terms.     *)
LEMMA SumNat ==
  ASSUME NEW S, IsFiniteSet(S), NEW f, \A x \in S : f[x] \in Nat
  PROVE  /\ SumFunctionOnSet(f, S) \in Nat
         /\ \A x \in S : f[x] <= SumFunctionOnSet(f, S)
<1> DEFINE Bad == {n \in Nat : \E V \in SUBSET S :
                     Cardinality(V) = n /\ SumFunctionOnSet(f, V) \notin Nat}
<1>1. ASSUME NEW m \in Bad, \A y \in Bad : m <= y
      PROVE  FALSE
  <2>1. PICK V \in SUBSET S : Cardinality(V) = m /\ SumFunctionOnSet(f, V) \notin Nat
    OBVIOUS
  <2>2. IsFiniteSet(V) /\ V # {}
    <3>1. V # {}
      BY <2>1, SumOfNone
    <3> QED
      BY <3>1, FS_Subset
  <2>3. Taken(V) \in V
    BY <2>2, TakenIn
  <2>4. V \ {Taken(V)} \in SUBSET S /\ Cardinality(V \ {Taken(V)}) \in Nat
        /\ Cardinality(V \ {Taken(V)}) = m - 1
    BY <2>1, <2>2, <2>3, OneLess
  <2>5. SumFunctionOnSet(f, V \ {Taken(V)}) \in Nat
    BY <1>1, <2>4
  <2>6. f[Taken(V)] \in Nat
    BY <2>3
  <2>7. SumFunctionOnSet(f, V) = f[Taken(V)] + SumFunctionOnSet(f, V \ {Taken(V)})
    BY <2>2, SumTaken
  <2> QED
    BY <2>1, <2>5, <2>6, <2>7
<1>2. Bad = {}
  <2> HIDE DEF Bad
  <2>1. Bad \subseteq Nat
    BY DEF Bad
  <2> QED
    BY <1>1, <2>1, LeastNatural
<1>3. \A V \in SUBSET S : SumFunctionOnSet(f, V) \in Nat
  BY <1>2, FS_Subset, FS_CardinalityType
<1>4. ASSUME NEW x \in S
      PROVE  f[x] <= SumFunctionOnSet(f, S)
  <2>1. SumFunctionOnSet(f, S) = f[x] + SumFunctionOnSet(f, S \ {x})
    BY SumWithout
  <2>2. SumFunctionOnSet(f, S \ {x}) \in Nat /\ SumFunctionOnSet(f, S) \in Nat
    BY <1>3
  <2> QED
    BY <2>1, <2>2
<1> QED
  BY <1>3, <1>4

(* Of natural numbers, some add up to no more than all.                    *)
LEMMA SumOfFewer ==
  ASSUME NEW S, IsFiniteSet(S), NEW f, \A x \in S : f[x] \in Nat, NEW T, T \subseteq S
  PROVE  SumFunctionOnSet(f, T) <= SumFunctionOnSet(f, S)
<1> DEFINE Bad == {n \in Nat : \E V \in SUBSET S :
                     /\ Cardinality(V) = n /\ T \subseteq V
                     /\ ~(SumFunctionOnSet(f, T) <= SumFunctionOnSet(f, V))}
<1>1. \A V \in SUBSET S : IsFiniteSet(V) /\ SumFunctionOnSet(f, V) \in Nat
  <2> TAKE V \in SUBSET S
  <2>1. IsFiniteSet(V)
    BY FS_Subset
  <2> QED
    BY <2>1, SumNat
<1>2. ASSUME NEW m \in Bad, \A y \in Bad : m <= y
      PROVE  FALSE
  <2>1. PICK V \in SUBSET S : /\ Cardinality(V) = m /\ T \subseteq V
                              /\ ~(SumFunctionOnSet(f, T) <= SumFunctionOnSet(f, V))
    OBVIOUS
  <2>2. IsFiniteSet(V) /\ T \in SUBSET S
    BY <1>1
  <2>3. V # T
    BY <1>1, <2>1, <2>2
  <2>4. PICK a \in V : a \notin T
    BY <2>1, <2>3
  <2>5. /\ V \ {a} \in SUBSET S /\ T \subseteq V \ {a} /\ Cardinality(V \ {a}) \in Nat
        /\ Cardinality(V \ {a}) = m - 1
    BY <2>1, <2>2, <2>4, OneLess
  <2>6. SumFunctionOnSet(f, T) <= SumFunctionOnSet(f, V \ {a})
    BY <1>2, <2>5
  <2>7. f[a] \in Nat /\ SumFunctionOnSet(f, V) = f[a] + SumFunctionOnSet(f, V \ {a})
    BY <2>2, <2>4, SumWithout
  <2>8. SumFunctionOnSet(f, V \ {a}) \in Nat /\ SumFunctionOnSet(f, T) \in Nat
    BY <1>1, <2>2, <2>5
  <2> QED
    BY <2>1, <2>6, <2>7, <2>8
<1>3. Bad = {}
  <2> HIDE DEF Bad
  <2>1. Bad \subseteq Nat
    BY DEF Bad
  <2> QED
    BY <1>2, <2>1, LeastNatural
<1> QED
  BY <1>1, <1>3, FS_CardinalityType

-----------------------------------------------------------------------------
(* Sums over sequences.                                                    *)

LEMMA IndicesFinite ==
  ASSUME NEW n \in Nat
  PROVE  IsFiniteSet(1 .. n)
BY FS_Interval

(* A sequence grows by one at the end.                                     *)
LEMMA SumAppended ==
  ASSUME NEW s \in Seq(Int), NEW n \in Int
  PROVE  SumFunctionOnSet(Append(s, n), DOMAIN Append(s, n)) = n + SumFunctionOnSet(s, DOMAIN s)
<1> DEFINE t == Append(s, n)
           k == Len(s) + 1
<1>1. k \in Nat /\ DOMAIN s = 1 .. Len(s) /\ DOMAIN t = (1 .. Len(s)) \cup {k} /\ k \notin 1 .. Len(s)
      /\ t[k] = n /\ (\A i \in 1 .. Len(s) : t[i] = s[i] /\ s[i] \in Int) /\ Len(s) \in Nat
  OBVIOUS
<1>2. IsFiniteSet(1 .. Len(s))
  BY <1>1, IndicesFinite
<1> HIDE DEF t, k
<1>3. SumFunctionOnSet(t, (1 .. Len(s)) \cup {k}) = t[k] + SumFunctionOnSet(t, 1 .. Len(s))
  BY <1>1, <1>2, SumWith
<1>4. SumFunctionOnSet(t, 1 .. Len(s)) = SumFunctionOnSet(s, 1 .. Len(s))
  BY <1>1, <1>2, SumSame
<1>5. SumFunctionOnSet(t, DOMAIN t) = n + SumFunctionOnSet(s, DOMAIN s)
  BY <1>1, <1>3, <1>4
<1> QED
  BY <1>5 DEF t

LEMMA FrontGrows ==
  ASSUME NEW n \in Nat
  PROVE  1 .. n + 1 = (1 .. n) \cup {n + 1} /\ n + 1 \notin 1 .. n
OBVIOUS

LEMMA PlusLater ==
  ASSUME NEW x, NEW y, NEW p \in Int, NEW q \in Int, NEW r \in Int, x = p + y, y = q + r
  PROVE  x = q + (p + r)
OBVIOUS

(* It loses the element at i: so do all its fronts that reach as far.      *)
OneGone(s, L, i, t) ==
  /\ L \in Nat /\ i \in 1 .. L
  /\ \A j \in 1 .. L : s[j] \in Int
  /\ \A j \in 1 .. L : j < i => t[j] = s[j]
  /\ \A j \in 1 .. L : i <= j /\ j < L => t[j] = s[j + 1]

LEMMA SumFronts ==
  ASSUME NEW s, NEW L, NEW i, NEW t, OneGone(s, L, i, t),
         NEW n \in Nat, i <= n + 1, n < L
  PROVE  SumFunctionOnSet(s, 1 .. n + 1) = s[i] + SumFunctionOnSet(t, 1 .. n)
<1>0. /\ L \in Nat /\ i \in 1 .. L
      /\ \A j \in 1 .. L : s[j] \in Int
      /\ \A j \in 1 .. L : j < i => t[j] = s[j]
      /\ \A j \in 1 .. L : i <= j /\ j < L => t[j] = s[j + 1]
  BY DEF OneGone
<1> USE <1>0
<1> DEFINE Bad == {k \in Nat : /\ i <= k + 1 /\ k < L
                               /\ SumFunctionOnSet(s, 1 .. k + 1) # s[i] + SumFunctionOnSet(t, 1 .. k)}
<1>1. i \in Nat /\ 1 <= i /\ i <= L /\ s[i] \in Int
  OBVIOUS
<1>2. ASSUME NEW j \in Nat, j > 0, j < L PROVE t[j] \in Int
  <2>1. j \in 1 .. L /\ j + 1 \in 1 .. L
    BY <1>2
  <2>2. CASE j < i
    BY <2>1, <2>2
  <2>3. CASE i <= j
    BY <1>2, <2>1, <2>3
  <2> QED
    BY <1>1, <2>2, <2>3
<1>3. ASSUME NEW m \in Bad, \A y \in Bad : m <= y PROVE FALSE
  <2>1. m \in Nat /\ m < L /\ i <= m + 1
        /\ SumFunctionOnSet(s, 1 .. m + 1) # s[i] + SumFunctionOnSet(t, 1 .. m)
    OBVIOUS
  <2>0. \A y \in Nat : i <= y + 1 /\ y < L /\ y < m
           => SumFunctionOnSet(s, 1 .. y + 1) = s[i] + SumFunctionOnSet(t, 1 .. y)
    <3> SUFFICES ASSUME NEW y \in Nat, i <= y + 1, y < L, y < m,
                        SumFunctionOnSet(s, 1 .. y + 1) # s[i] + SumFunctionOnSet(t, 1 .. y)
                 PROVE  FALSE
      OBVIOUS
    <3>1. y \in Bad
      OBVIOUS
    <3> HIDE DEF Bad
    <3>2. m <= y
      BY <1>3, <3>1
    <3> QED
      BY <2>1, <3>2
  <2> HIDE DEF Bad
  <2>2. CASE m + 1 = i
    <3>1. 1 .. m + 1 = (1 .. m) \cup {i} /\ i \notin 1 .. m /\ s[i] \in Int
      BY <1>1, <2>1, <2>2
    <3>2. IsFiniteSet(1 .. m) /\ \A j \in 1 .. m : s[j] \in Int /\ s[j] = t[j]
      <4>1. \A j \in 1 .. m : j \in 1 .. L /\ j < i
        BY <1>1, <2>1, <2>2
      <4> QED
        BY <2>1, <4>1, IndicesFinite
    <3>3. SumFunctionOnSet(s, (1 .. m) \cup {i}) = s[i] + SumFunctionOnSet(s, 1 .. m)
      BY <3>1, <3>2, SumWith
    <3>4. SumFunctionOnSet(s, 1 .. m) = SumFunctionOnSet(t, 1 .. m)
      BY <3>2, SumSame
    <3> QED
      BY <2>1, <3>1, <3>3, <3>4
  <2>3. CASE m + 1 # i
    <3>1. PICK j \in Nat : m = j + 1 /\ j < L /\ i <= m
      <4>1. m - 1 \in Nat /\ m = (m - 1) + 1 /\ m - 1 < L /\ i <= m
        BY <1>1, <2>1, <2>3
      <4> QED
        BY <4>1
    <3>2. i <= j + 1 /\ j < m
      BY <2>1, <3>1
    <3>3. SumFunctionOnSet(s, 1 .. m) = s[i] + SumFunctionOnSet(t, 1 .. j)
      BY <2>0, <3>1, <3>2
    <3>4. /\ 1 .. m + 1 = (1 .. m) \cup {m + 1} /\ m + 1 \notin 1 .. m
          /\ 1 .. m = (1 .. j) \cup {m} /\ m \notin 1 .. j
      <4>1. 1 .. j + 1 = (1 .. j) \cup {j + 1} /\ j + 1 \notin 1 .. j
        BY <3>1, FrontGrows
      <4> QED
        BY <2>1, <3>1, <4>1, FrontGrows, Zenon
    <3>4a. m + 1 \in 1 .. L /\ m \in 1 .. L /\ s[m + 1] \in Int
      BY <2>1, <3>1
    <3>5. SumFunctionOnSet(s, 1 .. m + 1) = s[m + 1] + SumFunctionOnSet(s, 1 .. m)
      <4>1. IsFiniteSet(1 .. m) /\ \A k \in 1 .. m : s[k] \in Int
        <5>1. \A k \in 1 .. m : k \in 1 .. L
          BY <2>1
        <5> QED
          BY <2>1, <5>1, IndicesFinite
      <4>2. SumFunctionOnSet(s, (1 .. m) \cup {m + 1}) = s[m + 1] + SumFunctionOnSet(s, 1 .. m)
        BY <3>4, <3>4a, <4>1, SumWith, Zenon
      <4> QED
        BY <3>4, <4>2
    <3>6. IsFiniteSet(1 .. j) /\ \A k \in 1 .. j : t[k] \in Int
      <4>1. \A k \in 1 .. j : k \in Nat /\ k > 0 /\ k < L
        BY <3>1
      <4> QED
        BY <1>2, <3>1, <4>1, IndicesFinite
    <3>7. SumFunctionOnSet(t, 1 .. m) = s[m + 1] + SumFunctionOnSet(t, 1 .. j)
      <4>1. t[m] = s[m + 1] /\ t[m] \in Int
        BY <2>1, <3>1, <3>4a
      <4>2. SumFunctionOnSet(t, (1 .. j) \cup {m}) = t[m] + SumFunctionOnSet(t, 1 .. j)
        BY <3>4, <3>6, <4>1, SumWith, Zenon
      <4> QED
        BY <3>4, <4>1, <4>2
    <3>8. SumFunctionOnSet(s, 1 .. m + 1) = s[i] + (s[m + 1] + SumFunctionOnSet(t, 1 .. j))
      <4> DEFINE x == SumFunctionOnSet(s, 1 .. m + 1)
                 y == SumFunctionOnSet(s, 1 .. m)
                 r == SumFunctionOnSet(t, 1 .. j)
                 p == s[m + 1]
                 q == s[i]
      <4>1. r \in Int
        BY <3>6, SumInt
      <4>2. x = p + y /\ y = q + r /\ p \in Int /\ q \in Int /\ r \in Int
        BY <1>1, <3>3, <3>4a, <3>5, <4>1
      <4> HIDE DEF x, y, r, p, q
      <4>3. x = q + (p + r)
        BY <4>2, PlusLater
      <4> QED
        BY <4>3 DEF x, p, q, r
    <3> QED
      BY <2>1, <3>7, <3>8
  <2> QED
    BY <2>2, <2>3
<1>4. n \notin Bad
  <2>1. Bad \subseteq Nat
    OBVIOUS
  <2> HIDE DEF Bad
  <2> QED
    BY <1>3, <2>1, LeastNatural
<1> QED
  BY <1>4

LEMMA SumAllFronts ==
  ASSUME NEW s, NEW i, NEW t, NEW n \in Nat, OneGone(s, n + 1, i, t)
  PROVE  SumFunctionOnSet(s, 1 .. n + 1) = s[i] + SumFunctionOnSet(t, 1 .. n)
<1>1. i <= n + 1 /\ n < n + 1
  BY DEF OneGone
<1> QED
  BY <1>1, SumFronts

LEMMA LengthIs ==
  ASSUME NEW s \in Seq(Int)
  PROVE  Len(s) \in Nat /\ DOMAIN s = 1 .. Len(s)
OBVIOUS

LEMMA SumOneGone ==
  ASSUME NEW s \in Seq(Int), NEW t \in Seq(Int), NEW i \in DOMAIN s, Len(t) + 1 = Len(s),
         \A j \in 1 .. Len(t) : t[j] = IF j < i THEN s[j] ELSE s[j + 1]
  PROVE  SumFunctionOnSet(s, DOMAIN s) = s[i] + SumFunctionOnSet(t, DOMAIN t)
<1>1. PICK n \in Nat : n = Len(t) /\ DOMAIN t = 1 .. n /\ DOMAIN s = 1 .. n + 1
  <2>1. Len(t) \in Nat /\ DOMAIN t = 1 .. Len(t)
    BY LengthIs
  <2>2. DOMAIN s = 1 .. Len(s)
    BY LengthIs
  <2>3. DOMAIN s = 1 .. Len(t) + 1
    BY <2>2, Zenon
  <2> QED
    BY <2>1, <2>3
<1>2. /\ i \in 1 .. n + 1 /\ n + 1 \in Nat /\ \A j \in 1 .. n + 1 : s[j] \in Int
      /\ \A j \in 1 .. n : t[j] = IF j < i THEN s[j] ELSE s[j + 1]
  BY <1>1
<1>3. /\ \A j \in 1 .. n + 1 : j < i => t[j] = s[j]
      /\ \A j \in 1 .. n + 1 : i <= j /\ j < n + 1 => t[j] = s[j + 1]
  BY <1>2
<1>4. OneGone(s, n + 1, i, t)
  BY <1>2, <1>3 DEF OneGone
<1> QED
  BY <1>1, <1>4, SumAllFronts
=============================================================================
