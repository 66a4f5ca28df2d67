------------------------- MODULE OrderScalerProofs -------------------------
(***************************************************************************)
(* Proofs about the order scaler: for any orders, lot, multipliers and     *)
(* reports, any number of edits of the operator beside the orders that are *)
(* scaled.                                                                 *)
(***************************************************************************)
EXTENDS OrderScaler, FiniteSetTheorems, WellFoundedInduction, TLAPS

-----------------------------------------------------------------------------
(* Sums *)

\* A set of numbers has a smallest one.
LEMMA Smallest ==
    ASSUME NEW S, S \subseteq Nat, S # {}
    PROVE  \E v \in S : \A u \in S : v <= u
<1> DEFINE R == OpToRel(<, Nat)
<1>1. IsWellFoundedOn(R, Nat)
  BY NatLessThanWellFounded
<1>2. \A u, v \in Nat : u < v => <<u, v>> \in R
  BY DEF OpToRel
<1> HIDE DEF R
<1>3. PICK v \in S : \A u \in S : ~(<<u, v>> \in R)
  BY <1>1, WFMin
<1>4. \A u \in S : ~(u < v)
  BY <1>2, <1>3
<1> QED
  BY <1>4

\* The element that a fold takes out of s first.
Pick(s) == CHOOSE x \in s : TRUE

\* g gives the sum of f over every subset of S.
Sums(f, S, g) ==
    g = [s \in SUBSET S |-> IF s = {} THEN 0 ELSE f[Pick(s)] + g[s \ {Pick(s)}]]

\* So it does over the subsets of up to n elements.
SumsTo(f, S, g, n) ==
    /\ g \in [SUBSET S -> Int]
    /\ \A s \in SUBSET S : Cardinality(s) <= n =>
          g[s] = IF s = {} THEN 0 ELSE f[Pick(s)] + g[s \ {Pick(s)}]

\* The sum of the library is taken from such a function.
LEMMA SumIs ==
    ASSUME NEW f, NEW S
    PROVE  SumFunctionOnSet(f, S) = (CHOOSE g : Sums(f, S, g))[S]
BY DEF SumFunctionOnSet, FoldFunctionOnSet, MapThenFoldSet, Sums, Pick

\* A subset without one of its elements.
LEMMA PickedOff ==
    ASSUME NEW S, IsFiniteSet(S), NEW s \in SUBSET S
    PROVE  /\ Cardinality(s) \in Nat
           /\ s = {} <=> Cardinality(s) = 0
           /\ s # {} => /\ Pick(s) \in s /\ s \ {Pick(s)} \in SUBSET S
                        /\ Cardinality(s \ {Pick(s)}) = Cardinality(s) - 1
<1>1. IsFiniteSet(s)
  BY FS_Subset
<1>2. Cardinality(s) \in Nat
  BY <1>1, FS_CardinalityType
<1>3. s = {} <=> Cardinality(s) = 0
  BY <1>1, FS_EmptySet
<1>4. ASSUME s # {} PROVE Pick(s) \in s
  BY <1>4 DEF Pick
<1>5. ASSUME s # {} PROVE Cardinality(s \ {Pick(s)}) = Cardinality(s) - 1
  BY <1>1, <1>4, <1>5, FS_RemoveElement
<1> QED
  BY <1>2, <1>3, <1>4, <1>5

\* One more element: what SumsTo has is extended.
LEMMA SumsFurther ==
    ASSUME NEW S, IsFiniteSet(S), NEW f \in [S -> Int], NEW n \in Nat,
           NEW g, SumsTo(f, S, g, n)
    PROVE  \E h : SumsTo(f, S, h, n + 1)
<1> DEFINE h == [s \in SUBSET S |-> IF Cardinality(s) <= n THEN g[s]
                                    ELSE f[Pick(s)] + g[s \ {Pick(s)}]]
<1>0. g \in [SUBSET S -> Int]
  BY DEF SumsTo
<1>1. ASSUME NEW s \in SUBSET S
      PROVE  h[s] \in Int
  <2>1. CASE Cardinality(s) <= n
    BY <1>0, <2>1
  <2>2. CASE ~(Cardinality(s) <= n)
    <3>0. s = {} <=> Cardinality(s) = 0
      BY PickedOff
    <3>1. s # {}
      BY <2>2, <3>0
    <3>2. Pick(s) \in S /\ s \ {Pick(s)} \in SUBSET S
      BY <3>1, PickedOff
    <3>3. f[Pick(s)] + g[s \ {Pick(s)}] \in Int
      BY <1>0, <3>2
    <3> QED
      BY <2>2, <3>3
  <2> QED
    BY <2>1, <2>2
<1>2. h \in [SUBSET S -> Int]
  BY <1>1
<1>3. ASSUME NEW s \in SUBSET S, Cardinality(s) <= n + 1
      PROVE  h[s] = IF s = {} THEN 0 ELSE f[Pick(s)] + h[s \ {Pick(s)}]
  <2>1. CASE s = {}
    <3>1. Cardinality(s) = 0
      BY <2>1, PickedOff
    <3>2. h[s] = g[s] /\ g[s] = 0
      BY <2>1, <3>1 DEF SumsTo
    <3> QED
      BY <2>1, <3>2
  <2>2. CASE s # {}
    <3> DEFINE t == s \ {Pick(s)}
    <3>1. t \in SUBSET S /\ Cardinality(t) = Cardinality(s) - 1 /\ Cardinality(s) \in Nat
      BY <2>2, PickedOff
    <3>2. Cardinality(t) <= n
      BY <1>3, <3>1
    <3>3. h[t] = g[t]
      BY <3>1, <3>2
    <3>4. h[s] = f[Pick(s)] + g[t]
      <4>1. CASE Cardinality(s) <= n
        BY <2>2, <4>1 DEF SumsTo
      <4>2. CASE ~(Cardinality(s) <= n)
        BY <4>2
      <4> QED
        BY <4>1, <4>2
    <3> QED
      BY <2>2, <3>3, <3>4
  <2> QED
    BY <2>1, <2>2
<1> HIDE DEF h
<1> QED
  BY <1>2, <1>3 DEF SumsTo

\* There is such a function for any number of elements.
LEMMA SumsExist ==
    ASSUME NEW S, IsFiniteSet(S), NEW f \in [S -> Int]
    PROVE  \A n \in Nat : \E g : SumsTo(f, S, g, n)
<1> DEFINE Without == {n \in Nat : ~\E g : SumsTo(f, S, g, n)}
<1> SUFFICES ASSUME Without # {} PROVE FALSE
  OBVIOUS
<1>1. PICK n \in Without : \A m \in Without : n <= m
  BY Smallest
<1>2. CASE n = 0
  <2> DEFINE g == [s \in SUBSET S |-> 0]
  <2>1. g \in [SUBSET S -> Int]
    OBVIOUS
  <2>2. ASSUME NEW s \in SUBSET S, Cardinality(s) <= 0 PROVE s = {}
    <3>1. Cardinality(s) \in Nat /\ (s = {} <=> Cardinality(s) = 0)
      BY PickedOff
    <3> QED
      BY <2>2, <3>1
  <2>3. SumsTo(f, S, g, 0)
    BY <2>1, <2>2 DEF SumsTo
  <2> QED
    BY <1>2, <2>3
<1>3. CASE n # 0
  <2>1. n - 1 \in Nat /\ n - 1 \notin Without
    BY <1>1, <1>3
  <2>2. PICK g : SumsTo(f, S, g, n - 1)
    BY <2>1
  <2>3. \E h : SumsTo(f, S, h, (n - 1) + 1)
    BY <2>1, <2>2, SumsFurther
  <2>4. (n - 1) + 1 = n
    OBVIOUS
  <2> QED
    BY <2>3, <2>4
<1> QED
  BY <1>2, <1>3

\* The sum of the library, element by element.
SumsUp(f, S, h) ==
    /\ SumFunctionOnSet(f, S) = h[S]
    /\ \A s \in SUBSET S : h[s] = IF s = {} THEN 0 ELSE f[Pick(s)] + h[s \ {Pick(s)}]

\* The library takes its sum from a function that exists.
LEMMA SumSteps ==
    ASSUME NEW S, IsFiniteSet(S), NEW f \in [S -> Int]
    PROVE  \E h : SumsUp(f, S, h)
<1>1. Cardinality(S) \in Nat
  BY FS_CardinalityType
<1>2. PICK g : SumsTo(f, S, g, Cardinality(S))
  BY <1>1, SumsExist
<1>3. \A s \in SUBSET S : Cardinality(s) <= Cardinality(S)
  BY FS_Subset
<1>4. g = [s \in SUBSET S |-> g[s]] /\ \A s \in SUBSET S :
         g[s] = IF s = {} THEN 0 ELSE f[Pick(s)] + g[s \ {Pick(s)}]
  BY <1>2, <1>3 DEF SumsTo
<1>5. Sums(f, S, g)
  BY <1>4 DEF Sums
<1> DEFINE h == CHOOSE k : Sums(f, S, k)
<1>6. Sums(f, S, h)
  BY <1>5
<1> HIDE DEF h
<1>7. \A s \in SUBSET S : h[s] = IF s = {} THEN 0 ELSE f[Pick(s)] + h[s \ {Pick(s)}]
  BY <1>6 DEF Sums
<1>8. SumFunctionOnSet(f, S) = h[S]
  BY SumIs DEF h
<1> QED
  BY <1>7, <1>8 DEF SumsUp

\* The sum of integers is an integer.
LEMMA SumTyped ==
    ASSUME NEW S, IsFiniteSet(S), NEW f \in [S -> Int]
    PROVE  SumFunctionOnSet(f, S) \in Int
<1>1. PICK h : SumsUp(f, S, h)
  BY SumSteps
<1>2. Cardinality(S) \in Nat
  BY FS_CardinalityType
<1> DEFINE Wrong == {n \in Nat : \E s \in SUBSET S : Cardinality(s) = n /\ h[s] \notin Int}
<1>3. Wrong = {}
  <2> SUFFICES ASSUME Wrong # {} PROVE FALSE
    OBVIOUS
  <2>1. PICK n \in Wrong : \A m \in Wrong : n <= m
    BY Smallest
  <2>2. PICK s \in SUBSET S : Cardinality(s) = n /\ h[s] \notin Int
    BY <2>1
  <2>3. s # {}
    <3>1. h[{}] = 0
      BY <1>1 DEF SumsUp
    <3> QED
      BY <2>2, <3>1
  <2>4. Pick(s) \in S /\ s \ {Pick(s)} \in SUBSET S /\ Cardinality(s \ {Pick(s)}) = n - 1
    BY <2>2, <2>3, PickedOff
  <2>5. n - 1 \notin Wrong
    BY <2>1
  <2>6. n - 1 \in Nat
    <3>1. Cardinality(s) \in Nat /\ (s = {} <=> Cardinality(s) = 0)
      BY PickedOff
    <3> QED
      BY <2>2, <2>3, <3>1
  <2>7. h[s \ {Pick(s)}] \in Int
    BY <2>4, <2>5, <2>6
  <2>8. f[Pick(s)] \in Int
    BY <2>4
  <2>9. h[s] = f[Pick(s)] + h[s \ {Pick(s)}]
    BY <1>1, <2>3 DEF SumsUp
  <2> QED
    BY <2>2, <2>7, <2>8, <2>9
<1>4. h[S] \in Int
  BY <1>2, <1>3
<1> QED
  BY <1>1, <1>4 DEF SumsUp
-----------------------------------------------------------------------------
(* The cheapest ladder exists *)

\* A is ahead of all others in the finite set T.
Leads(R, T, x) == x \in T /\ \A y \in T \ {x} : <<x, y>> \in R

\* Of finitely many things that a transitive relation orders, one is ahead of the others.
LEMMA BestExists ==
    ASSUME NEW S, IsFiniteSet(S), S # {}, NEW R,
           \A x, y \in S : x # y => <<x, y>> \in R \/ <<y, x>> \in R,
           \A x, y, z \in S : <<x, y>> \in R /\ <<y, z>> \in R => <<x, z>> \in R
    PROVE  \E x \in S : Leads(R, S, x)
<1> DEFINE Bad == {n \in Nat : \E T \in SUBSET S : /\ T # {} /\ Cardinality(T) = n
                                                   /\ ~\E x \in T : Leads(R, T, x)}
<1>1. SUFFICES ASSUME Bad # {} PROVE FALSE
  <2>1. Cardinality(S) \in Nat
    BY FS_CardinalityType
  <2> QED
    BY <1>1, <2>1
<1>2. PICK n \in Bad : \A k \in Bad : n <= k
  BY <1>1, Smallest
<1>3. PICK T \in SUBSET S : /\ T # {} /\ Cardinality(T) = n
                            /\ ~\E x \in T : Leads(R, T, x)
  BY <1>2
<1>4. PICK x \in T : TRUE
  BY <1>3
<1> DEFINE U == T \ {x}
<1>5. IsFiniteSet(T)
  BY FS_Subset
<1>6. U \in SUBSET S /\ Cardinality(U) = n - 1 /\ n \in Nat
  BY <1>2, <1>3, <1>4, <1>5, FS_RemoveElement
<1>7. IsFiniteSet(U) /\ Cardinality(U) \in Nat
  BY <1>6, FS_Subset, FS_CardinalityType
<1>8. U # {}
  <2>1. ASSUME U = {} PROVE Leads(R, T, x)
    BY <2>1, <1>4 DEF Leads
  <2> QED
    BY <2>1, <1>3, <1>4
<1>9. n - 1 \notin Bad
  BY <1>2, <1>6
<1>10. PICK y \in U : Leads(R, U, y)
  <2>1. n - 1 \in Nat
    BY <1>6, <1>7
  <2> HIDE DEF U
  <2> QED
    BY <1>6, <1>8, <1>9, <2>1
<1>11. y \in T /\ x \in S /\ y \in S /\ x # y
  BY <1>4, <1>10
<1>12. CASE <<y, x>> \in R
  <2>1. Leads(R, T, y)
    BY <1>10, <1>11, <1>12 DEF Leads
  <2> QED
    BY <2>1, <1>3, <1>11
<1>13. CASE <<x, y>> \in R
  <2>1. ASSUME NEW z \in T \ {x} PROVE <<x, z>> \in R
    <3>1. CASE z = y
      BY <3>1, <1>13
    <3>2. CASE z # y
      <4>1. <<y, z>> \in R
        BY <2>1, <3>2, <1>10 DEF Leads
      <4> QED
        BY <4>1, <1>13, <1>11, <2>1
    <3> QED
      BY <3>1, <3>2
  <2>2. Leads(R, T, x)
    BY <2>1, <1>4 DEF Leads
  <2> QED
    BY <2>2, <1>3, <1>4
<1> QED
  BY <1>11, <1>12, <1>13

\* Products keep the order of their factors.
LEMMA Times ==
    ASSUME NEW x \in Int, NEW y \in Int, NEW k \in Int, k > 0
    PROVE  /\ x <= y <=> x * k <= y * k
           /\ x < y <=> x * k < y * k
OBVIOUS

\* Fractions with positive denominators are ordered.
LEMMA FractionsOrdered ==
    ASSUME NEW a \in Int, NEW b \in Int, NEW c \in Int, NEW d \in Int, NEW e \in Int,
           NEW f \in Int, b > 0, d > 0, f > 0,
           a * d <= c * b, c * f <= e * d
    PROVE  /\ a * f <= e * b
           /\ a * d < c * b \/ c * f < e * d => a * f < e * b
<1>1. (a * d) * f <= (c * b) * f /\ (a * d < c * b => (a * d) * f < (c * b) * f)
  BY Times
<1>2. (c * f) * b <= (e * d) * b /\ (c * f < e * d => (c * f) * b < (e * d) * b)
  BY Times
<1>3. (c * b) * f = (c * f) * b /\ (a * d) * f = (a * f) * d /\ (e * d) * b = (e * b) * d
  OBVIOUS
<1>4. (a * f) * d <= (e * b) * d
  BY <1>1, <1>2, <1>3
<1>5. a * d < c * b \/ c * f < e * d => (a * f) * d < (e * b) * d
  BY <1>1, <1>2, <1>3
<1> QED
  BY <1>4, <1>5, Times

\* Two ladders that differ do so at a first step.
LEMMA BeforeTotal ==
    ASSUME NEW n \in Nat, NEW r \in [1..n -> Int], NEW s \in [1..n -> Int], r # s
    PROVE  Before(r, s) \/ Before(s, r)
<1> DEFINE Q == {l \in 1..n : r[l] # s[l]}
<1>1. Q # {} /\ Q \subseteq Nat
  OBVIOUS
<1>2. PICK l \in Q : \A k \in Q : l <= k
  BY <1>1, Smallest
<1>3. l \in 1..n /\ r[l] # s[l]
  BY <1>2
<1>4. \A k \in 1..(l - 1) : r[k] = s[k]
  BY <1>2, <1>3
<1>5. r[l] < s[l] \/ s[l] < r[l]
  BY <1>3
<1> QED
  BY <1>3, <1>4, <1>5 DEF Before

\* The order in which backtrack meets the ladders is transitive.
LEMMA BeforeTransitive ==
    ASSUME NEW n \in Nat, NEW r \in [1..n -> Int], NEW s \in [1..n -> Int],
           NEW t \in [1..n -> Int], Before(r, s), Before(s, t)
    PROVE  Before(r, t)
<1>1. PICK i \in 1..n : r[i] < s[i] /\ \A k \in 1..(i - 1) : r[k] = s[k]
  BY DEF Before
<1>2. PICK j \in 1..n : s[j] < t[j] /\ \A k \in 1..(j - 1) : s[k] = t[k]
  BY DEF Before
<1>0. \A k \in 1..n : r[k] \in Int /\ s[k] \in Int /\ t[k] \in Int
  OBVIOUS
<1>3. CASE i <= j
  <2>0. s[i] <= t[i]
    <3>1. CASE i = j
      BY <1>0, <1>2, <3>1
    <3>2. CASE i < j
      <4>1. i \in 1..(j - 1)
        BY <3>2
      <4> QED
        BY <1>0, <1>2, <4>1
    <3> QED
      BY <1>3, <3>1, <3>2
  <2>1. r[i] < t[i]
    BY <1>0, <1>1, <2>0
  <2>2. \A k \in 1..(i - 1) : r[k] = t[k]
    BY <1>1, <1>2, <1>3
  <2> QED
    BY <2>1, <2>2 DEF Before
<1>4. CASE j < i
  <2>0. r[j] = s[j]
    <3>1. j \in 1..(i - 1)
      BY <1>4
    <3> QED
      BY <1>1, <3>1
  <2>1. r[j] < t[j]
    BY <1>2, <2>0
  <2>2. \A k \in 1..(j - 1) : r[k] = t[k]
    BY <1>1, <1>2, <1>4
  <2> QED
    BY <2>1, <2>2 DEF Before
<1> QED
  BY <1>3, <1>4

-----------------------------------------------------------------------------
(* The ladders of computeStackRoundedSizes *)

\* The parts of computeStackRoundedSizes by name.
Target(O, m) == [l \in DOMAIN O |-> O[l] * m]
Down(x) == (x \div SizeStep) * SizeStep
Options(x) == IF Down(x) = x THEN {Down(x)} ELSE {Down(x), Down(x) + SizeStep}
Ladders(O, m) ==
    {r \in [DOMAIN O -> UNION {Options(Target(O, m)[l]) : l \in DOMAIN O}] :
        \A l \in DOMAIN O : r[l] \in Options(Target(O, m)[l])}
Cost(O, m, r) == evaluateStackCost(O, Target(O, m), r)
Better(c, d, r, s) == Cheaper(c, d) \/ (~Cheaper(d, c) /\ Before(r, s))

\* The sizes of a stack that computeStackRoundedSizes is asked for.
Stack == {O \in Seq(Nat \ {0}) : O # <<>>}

\* computeStackRoundedSizes in these terms.
LEMMA Chosen ==
    ASSUME NEW O, NEW m
    PROVE  computeStackRoundedSizes(O, m) =
              CHOOSE r \in Ladders(O, m) :
                  \A s \in Ladders(O, m) \ {r} : Better(Cost(O, m, r), Cost(O, m, s), r, s)
BY DEF computeStackRoundedSizes, Ladders, Options, Down, Target, Cost, Better

\* The size step is positive.
LEMMA StepPositive == SizeStep \in Nat \ {0}
<1>1. Lot \in Nat \ {0} /\ Unit \in Nat \ {0}
  BY OrderScalerAssumption
<1>2. Lot * Unit \in Int
  BY <1>1
<1>3. Lot * Unit > 0
  BY <1>1, Times
<1> QED
  BY <1>2, <1>3 DEF SizeStep

\* Rounding down to a whole lot takes off less than a lot.
LEMMA DownWithin ==
    ASSUME NEW x \in Int
    PROVE  /\ Down(x) \in Int
           /\ Down(x) <= x /\ x < Down(x) + SizeStep
           /\ x >= 0 => Down(x) >= 0
<1>0. SizeStep \in Nat \ {0}
  BY StepPositive
<1>1. ASSUME NEW S \in Nat \ {0}
      PROVE  /\ (x \div S) \in Int
             /\ (x \div S) * S <= x /\ x < (x \div S) * S + S
             /\ x >= 0 => (x \div S) >= 0
  OBVIOUS
<1>2. \A q \in Int, S \in Nat \ {0} : q >= 0 => q * S >= 0
  OBVIOUS
<1> QED
  BY <1>0, <1>1, <1>2 DEF Down

\* Each option is an integer less than a lot away.
LEMMA OptionsWithin ==
    ASSUME NEW x \in Int, NEW y \in Options(x)
    PROVE  y \in Int /\ Abs(y - x) < SizeStep
<1>0. SizeStep \in Nat \ {0}
  BY StepPositive
<1>1. Down(x) \in Int /\ Down(x) <= x /\ x < Down(x) + SizeStep
  BY DownWithin
<1>2. CASE Down(x) = x
  BY <1>0, <1>1, <1>2 DEF Options, Abs
<1>3. CASE Down(x) # x
  <2>1. y = Down(x) \/ y = Down(x) + SizeStep
    BY <1>3 DEF Options
  <2> QED
    BY <1>0, <1>1, <1>3, <2>1 DEF Abs
<1> QED
  BY <1>2, <1>3

\* A ladder is one of finitely many, and there is one.
LEMMA LaddersFinite ==
    ASSUME NEW O \in Stack, NEW m \in Int
    PROVE  /\ IsFiniteSet(Ladders(O, m)) /\ Ladders(O, m) # {}
           /\ Ladders(O, m) \subseteq [1..Len(O) -> Int]
<1> DEFINE n == Len(O)
<1>1. n \in Nat /\ n >= 1 /\ DOMAIN O = 1..n /\ \A l \in 1..n : O[l] \in Nat \ {0}
  BY DEF Stack
<1> HIDE DEF n
<1>2. \A l \in 1..n : Target(O, m)[l] = O[l] * m /\ Target(O, m)[l] \in Int
  BY <1>1 DEF Target
<1>3. \A r \in Ladders(O, m) : \A l \in 1..n : r[l] \in Int
  BY <1>1, <1>2, OptionsWithin DEF Ladders
<1>4. \A r \in Ladders(O, m) : r = [l \in 1..n |-> r[l]]
  BY <1>1 DEF Ladders
<1>5. Ladders(O, m) \subseteq [1..n -> Int]
  BY <1>3, <1>4
<1> DEFINE low == [l \in 1..n |-> Down(Target(O, m)[l])]
<1>6. low \in Ladders(O, m)
  <2>1. \A l \in 1..n : low[l] \in Options(Target(O, m)[l])
    BY DEF Options
  <2> HIDE DEF low
  <2>2. low \in [1..n -> UNION {Options(Target(O, m)[l]) : l \in 1..n}]
    <3>1. low = [l \in 1..n |-> low[l]]
      BY DEF low
    <3> QED
      BY <2>1, <3>1
  <2> QED
    BY <1>1, <2>1, <2>2 DEF Ladders
<1> DEFINE up == [r \in Ladders(O, m) |-> {l \in 1..n : r[l] # Down(Target(O, m)[l])}]
<1>7. up \in [Ladders(O, m) -> SUBSET (1..n)]
  OBVIOUS
<1>8. ASSUME NEW r \in Ladders(O, m), NEW s \in Ladders(O, m), up[r] = up[s] PROVE r = s
  <2>1. ASSUME NEW l \in 1..n PROVE r[l] = s[l]
    <3>1. /\ r[l] \in Options(Target(O, m)[l])
          /\ s[l] \in Options(Target(O, m)[l])
      BY <1>1 DEF Ladders
    <3>2. l \in up[r] <=> l \in up[s]
      BY <1>8
    <3>3. r[l] # Down(Target(O, m)[l]) <=> s[l] # Down(Target(O, m)[l])
      BY <3>2
    <3> QED
      BY <3>1, <3>3 DEF Options
  <2> QED
    BY <2>1, <1>4
<1> HIDE DEF up
<1>9. up \in Injection(Ladders(O, m), SUBSET (1..n))
  BY <1>7, <1>8 DEF Injection, IsInjective
<1>10. IsFiniteSet(SUBSET (1..n))
  <2>1. IsFiniteSet(1..n)
    BY <1>1, FS_Interval
  <2> QED
    BY <2>1, FS_SUBSET
<1>11. IsFiniteSet(Ladders(O, m))
  BY <1>9, <1>10, FS_Injection
<1> QED
  BY <1>5, <1>6, <1>11 DEF n

\* The sum over an interval.
LEMMA SumOver ==
    ASSUME NEW a \in Int, NEW b \in Int, NEW f \in [a..b -> Int]
    PROVE  SumFunction(f) \in Int
<1>1. IsFiniteSet(a..b)
  BY FS_Interval
<1>2. SumFunctionOnSet(f, a..b) \in Int
  BY <1>1, SumTyped
<1>3. DOMAIN f = a..b
  OBVIOUS
<1> QED
  BY <1>2, <1>3 DEF SumFunction

\* The denominator of a cost.
Whole(O, r) == IF r[1] > 0 THEN r[1] * O[1] ELSE 1

\* A cost is a fraction with a positive denominator.
LEMMA CostTyped ==
    ASSUME NEW O \in Stack, NEW m \in Int, NEW r \in [1..Len(O) -> Int]
    PROVE  /\ Cost(O, m, r).num \in Int
           /\ Cost(O, m, r).den \in Int /\ Cost(O, m, r).den > 0
<1> DEFINE n == Len(O)
           t == Target(O, m)
           coin == 20 * SizeStep * LotsPerCoin
           total == Abs(SumFunction([l \in 1..n |-> r[l] - t[l]]))
           each == SumFunction([l \in 1..n |-> Abs(r[l] - t[l])])
           flat == Cardinality({l \in 2..n : levelled(O, r, l)})
           ratios == IF r[1] = 0 THEN 0
                     ELSE SumFunction([l \in 2..n |-> Abs(r[l] * O[1] - O[l] * r[1])])
<1>1. Cost(O, m, r) = [num |-> (2 * total + each + coin * flat) * Whole(O, r) + coin * ratios,
                       den |-> Whole(O, r)]
  BY DEF Cost, evaluateStackCost, Whole
<1>2. n \in Nat /\ n >= 1 /\ DOMAIN O = 1..n /\ \A l \in 1..n : O[l] \in Nat \ {0}
  BY DEF Stack
<1>3. \A l \in 1..n : r[l] \in Int
  OBVIOUS
<1> HIDE DEF n
<1>4. \A l \in 1..n : t[l] \in Int
  BY <1>2 DEF Target
<1> HIDE DEF t
<1>5. \A x \in Int : Abs(x) \in Int
  BY DEF Abs
<1>6. total \in Int
  <2>1. \A l \in 1..n : r[l] - t[l] \in Int
    BY <1>3, <1>4
  <2>2. [l \in 1..n |-> r[l] - t[l]] \in [1..n -> Int]
    BY <2>1
  <2>3. SumFunction([l \in 1..n |-> r[l] - t[l]]) \in Int
    BY <2>2, <1>2, SumOver
  <2> QED
    BY <2>3, <1>5
<1>7. each \in Int
  <2>1. \A l \in 1..n : r[l] - t[l] \in Int
    BY <1>3, <1>4
  <2>2. [l \in 1..n |-> Abs(r[l] - t[l])] \in [1..n -> Int]
    BY <2>1, <1>5
  <2> QED
    BY <2>2, <1>2, SumOver
<1>8. flat \in Int
  <2>1. IsFiniteSet(2..n)
    BY <1>2, FS_Interval
  <2>2. {l \in 2..n : levelled(O, r, l)} \in SUBSET (2..n)
    OBVIOUS
  <2>3. IsFiniteSet({l \in 2..n : levelled(O, r, l)})
    BY <2>1, <2>2, FS_Subset
  <2> QED
    BY <2>3, FS_CardinalityType
<1>9. ratios \in Int
  <2>0. \A l \in 2..n : l \in 1..n
    BY <1>2
  <2>a. \A l \in 1..n : r[l] \in Int /\ O[l] \in Int
    BY <1>2, <1>3
  <2>b. r[1] \in Int /\ O[1] \in Int
    BY <1>2, <2>a
  <2>1. ASSUME NEW l \in 2..n PROVE r[l] * O[1] - O[l] * r[1] \in Int
    <3>1. r[l] \in Int /\ O[l] \in Int
      BY <2>0, <2>a
    <3>2. \A u, v, w, x \in Int : u * v - w * x \in Int
      OBVIOUS
    <3> QED
      BY <3>1, <3>2, <2>b
  <2>2. [l \in 2..n |-> Abs(r[l] * O[1] - O[l] * r[1])] \in [2..n -> Int]
    BY <2>1, <1>5
  <2>3. SumFunction([l \in 2..n |-> Abs(r[l] * O[1] - O[l] * r[1])]) \in Int
    BY <2>2, <1>2, SumOver
  <2> QED
    BY <2>3
<1>10. coin \in Int
  BY StepPositive, OrderScalerAssumption
<1>11. Whole(O, r) \in Int /\ Whole(O, r) > 0
  <2>1. r[1] \in Int /\ O[1] \in Nat \ {0}
    BY <1>2, <1>3
  <2>2. r[1] > 0 => r[1] * O[1] > 0
    BY <2>1, Times
  <2> QED
    BY <2>1, <2>2 DEF Whole
<1> HIDE DEF total, each, flat, ratios, coin
<1>12. (2 * total + each + coin * flat) * Whole(O, r) + coin * ratios \in Int
  BY <1>6, <1>7, <1>8, <1>9, <1>10, <1>11
<1> QED
  BY <1>1, <1>11, <1>12

\* computeStackRoundedSizes returns one of the ladders, and no other is better.
LEMMA BestLadder ==
    ASSUME NEW O \in Stack, NEW m \in Int
    PROVE  LET r == computeStackRoundedSizes(O, m)
           IN  /\ r \in Ladders(O, m)
               /\ \A s \in Ladders(O, m) \ {r} : Better(Cost(O, m, r), Cost(O, m, s), r, s)
<1> DEFINE L == Ladders(O, m)
           C(r) == Cost(O, m, r)
           R == {p \in L \X L : Better(C(p[1]), C(p[2]), p[1], p[2])}
<1>1. IsFiniteSet(L) /\ L # {} /\ L \subseteq [1..Len(O) -> Int] /\ Len(O) \in Nat
  BY LaddersFinite DEF Stack
<1>2. \A r \in L : C(r).num \in Int /\ C(r).den \in Int /\ C(r).den > 0
  BY <1>1, CostTyped
<1>3. \A r, s \in L : <<r, s>> \in R <=> Better(C(r), C(s), r, s)
  OBVIOUS
<1> HIDE DEF L, R, C
<1>4. ASSUME NEW r \in L, NEW s \in L, r # s PROVE <<r, s>> \in R \/ <<s, r>> \in R
  <2>1. Before(r, s) \/ Before(s, r)
    BY <1>1, <1>4, BeforeTotal
  <2> QED
    BY <2>1, <1>3 DEF Better
<1>5. ASSUME NEW r \in L, NEW s \in L, NEW t \in L, <<r, s>> \in R, <<s, t>> \in R
      PROVE  <<r, t>> \in R
  <2>1. Better(C(r), C(s), r, s) /\ Better(C(s), C(t), s, t)
    BY <1>3, <1>5
  <2> DEFINE a == C(r).num  b == C(r).den  c == C(s).num  d == C(s).den
             e == C(t).num  f == C(t).den
  <2>2. /\ a \in Int /\ b \in Int /\ c \in Int /\ d \in Int /\ e \in Int /\ f \in Int
        /\ b > 0 /\ d > 0 /\ f > 0
    BY <1>2
  <2>3. /\ Cheaper(C(r), C(s)) <=> a * d < c * b
        /\ Cheaper(C(s), C(r)) <=> c * b < a * d
        /\ Cheaper(C(s), C(t)) <=> c * f < e * d
        /\ Cheaper(C(t), C(s)) <=> e * d < c * f
        /\ Cheaper(C(r), C(t)) <=> a * f < e * b
        /\ Cheaper(C(t), C(r)) <=> e * b < a * f
    BY DEF Cheaper
  <2> HIDE DEF a, b, c, d, e, f
  <2>4. a * d <= c * b /\ c * f <= e * d
    <3>1. /\ a * d \in Int /\ c * b \in Int /\ c * f \in Int /\ e * d \in Int
      BY <2>2
    <3> QED
      BY <2>1, <2>3, <3>1 DEF Better
  <2>5. a * f <= e * b /\ (a * d < c * b \/ c * f < e * d => a * f < e * b)
    BY <2>2, <2>4, FractionsOrdered
  <2>6. a * f \in Int /\ e * b \in Int
    BY <2>2
  <2>7. CASE Cheaper(C(r), C(s)) \/ Cheaper(C(s), C(t))
    <3>1. Cheaper(C(r), C(t))
      BY <2>3, <2>5, <2>7
    <3> QED
      BY <3>1, <1>3 DEF Better
  <2>8. CASE ~Cheaper(C(r), C(s)) /\ ~Cheaper(C(s), C(t))
    <3>1. Before(r, s) /\ Before(s, t)
      BY <2>1, <2>8 DEF Better
    <3>2. Before(r, t)
      BY <3>1, <1>1, BeforeTransitive
    <3>3. ~Cheaper(C(t), C(r))
      BY <2>3, <2>5, <2>6
    <3> QED
      BY <3>2, <3>3, <1>3 DEF Better
  <2> QED
    BY <2>7, <2>8
<1>6. PICK x \in L : Leads(R, L, x)
  BY <1>1, <1>4, <1>5, BestExists
<1>7. \A s \in L \ {x} : Better(C(x), C(s), x, s)
  BY <1>3, <1>6 DEF Leads
<1>8. computeStackRoundedSizes(O, m) =
        CHOOSE r \in L : \A s \in L \ {r} : Better(C(r), C(s), r, s)
  BY Chosen DEF L, C
<1>9. /\ computeStackRoundedSizes(O, m) \in L
      /\ \A s \in L \ {computeStackRoundedSizes(O, m)} :
            Better(C(computeStackRoundedSizes(O, m)), C(s), computeStackRoundedSizes(O, m), s)
  BY <1>7, <1>8
<1> QED
  BY <1>9 DEF L, C

-----------------------------------------------------------------------------
(* The stack that Scale reads, and the size it makes of it *)

Step == [id : Int, amount : Int, percent : Int]

\* A nonempty set of steps has a first and a last one.
LEMMA FirstAndLast ==
    ASSUME NEW n \in Nat, NEW S \in SUBSET (1..n), S # {}
    PROVE  Min(S) \in S /\ Max(S) \in S
<1>0. \A u \in S : u \in Nat /\ u >= 1 /\ u <= n
  OBVIOUS
<1>1. \E v \in S : \A u \in S : v <= u
  <2>1. S \subseteq Nat
    BY <1>0
  <2> QED
    BY <2>1, Smallest
<1>2. \E v \in S : \A u \in S : v >= u
  <2> DEFINE T == {n - u : u \in S}
  <2>0. \A u \in S : n - u \in Nat
    BY <1>0
  <2>1. T \subseteq Nat /\ T # {}
    BY <2>0
  <2>2. PICK v \in T : \A u \in T : v <= u
    BY <2>1, Smallest
  <2>3. PICK w \in S : v = n - w
    BY <2>2
  <2>4. \A u \in S : n - w <= n - u
    BY <2>2, <2>3
  <2>5. \A u \in S : w >= u
    BY <1>0, <2>3, <2>4
  <2> QED
    BY <2>3, <2>5
<1> QED
  BY <1>1, <1>2 DEF Min, Max

\* The ladder of a payload has sizes, or 0 where it has none.
LEMMA DealTyped ==
    ASSUME NEW deal \in Seq(Step), NEW n \in Nat
    PROVE  takeProfitStackFromDeal(deal, n) \in [1..n -> Nat]
<1> DEFINE size(s) == IF s.amount > 0 THEN s.amount ELSE (BaseVolume * s.percent) \div 100
           at(i) == CASE deal[i].id > 0 -> deal[i].id
                      [] deal[i].id = 0 -> 1
                      [] OTHER -> i
           here(l) == {i \in DOMAIN deal : at(i) = l /\ size(deal[i]) > 0}
           of(l) == IF here(l) = {} THEN 0 ELSE size(deal[Max(here(l))])
<1>1. takeProfitStackFromDeal(deal, n) = [l \in 1..n |-> of(l)]
  BY DEF takeProfitStackFromDeal
<1>2. DOMAIN deal = 1..Len(deal) /\ Len(deal) \in Nat
  OBVIOUS
<1>3. ASSUME NEW i \in DOMAIN deal PROVE size(deal[i]) \in Int
  <2>1. deal[i] \in Step
    BY <1>2
  <2>2. deal[i].amount \in Int /\ deal[i].percent \in Int
    BY <2>1 DEF Step
  <2>3. BaseVolume * deal[i].percent \in Int
    <3>1. BaseVolume \in Int
      BY OrderScalerAssumption
    <3> QED
      BY <2>2, <3>1
  <2>4. \A x \in Int : x \div 100 \in Int
    OBVIOUS
  <2> QED
    BY <2>2, <2>3, <2>4
<1>4. ASSUME NEW l \in 1..n PROVE of(l) \in Nat
  <2>1. CASE here(l) = {}
    BY <2>1
  <2>2. CASE here(l) # {}
    <3>1. here(l) \in SUBSET (1..Len(deal))
      BY <1>2
    <3> HIDE DEF here
    <3>2. Max(here(l)) \in here(l)
      BY <1>2, <2>2, <3>1, FirstAndLast
    <3>3. Max(here(l)) \in DOMAIN deal /\ size(deal[Max(here(l))]) > 0
      BY <3>2 DEF here
    <3> HIDE DEF size
    <3> QED
      BY <1>3, <2>2, <3>3
  <2> QED
    BY <2>1, <2>2
<1> HIDE DEF of
<1> QED
  BY <1>1, <1>4

\* The latest event of each order: one per type and position.
EventTable(K) == K \subseteq Event /\ \A e, f \in K : SameOrder(e, f) => e = f

\* The sizes in the events are found again at their positions.
LEMMA SizesListed ==
    ASSUME EventTable(known), NEW n \in Nat
    PROVE  /\ listLatestTakeProfitStackSizes(n) \in [1..n -> Nat]
           /\ \A e \in known : e.type = TakeProfitOrder /\ e.position \in 1..n
                  => listLatestTakeProfitStackSizes(n)[e.position] = e.size
<1> DEFINE here(l) == {e \in known : e.type = TakeProfitOrder /\ e.position = l}
           of(l) == IF here(l) = {} THEN 0 ELSE (CHOOSE e \in here(l) : TRUE).size
<1>1. listLatestTakeProfitStackSizes(n) = [l \in 1..n |-> of(l)]
  BY DEF listLatestTakeProfitStackSizes
<1>2. \A e \in known : e \in Event /\ e.size \in Nat
  BY DEF EventTable, Event
<1>3. ASSUME NEW l \in 1..n PROVE of(l) \in Nat
  <2>1. CASE here(l) = {}
    BY <2>1
  <2>2. CASE here(l) # {}
    <3>1. (CHOOSE e \in here(l) : TRUE) \in here(l)
      BY <2>2
    <3>2. (CHOOSE e \in here(l) : TRUE) \in known
      BY <3>1
    <3> HIDE DEF here
    <3> QED
      BY <1>2, <2>2, <3>2
  <2> QED
    BY <2>1, <2>2
<1>4. ASSUME NEW e \in known, e.type = TakeProfitOrder, e.position \in 1..n
      PROVE  of(e.position) = e.size
  <2>1. e \in here(e.position)
    BY <1>4
  <2>2. \A f \in here(e.position) : f = e
    BY <1>4 DEF EventTable, SameOrder
  <2> HIDE DEF here
  <2>3. (CHOOSE f \in here(e.position) : TRUE) = e
    BY <2>1, <2>2
  <2> QED
    BY <2>1, <2>3
<1> HIDE DEF of
<1> QED
  BY <1>1, <1>3, <1>4

\* A full stack has every step, and those of which there was an event with its size.
LEMMA FullStack ==
    ASSUME EventTable(known), payload \in Seq(Step), NEW N \in Nat \ {0},
           Len(ListTakeProfitStackSizes(N)) = N
    PROVE  /\ ListTakeProfitStackSizes(N) \in Stack
           /\ \A e \in known : /\ e.type = TakeProfitOrder /\ e.position \in 1..N
                                /\ e.size > 0
                  => ListTakeProfitStackSizes(N)[e.position] = e.size
<1> DEFINE listed == listLatestTakeProfitStackSizes(N)
           all == mergeStackFromDealLocked(listed, N)
           gaps == {l \in 1..N : all[l] = 0}
           n == IF gaps = {} THEN N ELSE Min(gaps) - 1
<1>1. ListTakeProfitStackSizes(N) = SubSeq(all, 1, n)
  BY DEF ListTakeProfitStackSizes
<1>2. N \in Nat /\ N >= 1
  OBVIOUS
<1>3. all \in [1..N -> Nat] /\ \A l \in 1..N : listed[l] > 0 => all[l] = listed[l]
  <2>1. takeProfitStackFromDeal(payload, N) \in [1..N -> Nat]
    BY DealTyped
  <2>2. listed \in [1..N -> Nat]
    BY <1>2, SizesListed
  <2> HIDE DEF listed
  <2> QED
    BY <2>1, <2>2 DEF mergeStackFromDealLocked, fetchDeal
<1>e. \A e \in known : /\ e.type = TakeProfitOrder /\ e.position \in 1..N /\ e.size > 0
                      => all[e.position] = e.size
  <2>1. \A e \in known : e.type = TakeProfitOrder /\ e.position \in 1..N
            => listed[e.position] = e.size
    BY <1>2, SizesListed
  <2> HIDE DEF listed, all
  <2> QED
    BY <1>3, <2>1
<1> HIDE DEF all
<1>4. all \in Seq(Nat) /\ Len(all) = N
  BY <1>2, <1>3
<1>5. n \in Nat /\ n <= N /\ (gaps # {} => n < N)
  <2>1. CASE gaps = {}
    BY <2>1, <1>2
  <2>2. CASE gaps # {}
    <3>1. gaps \in SUBSET (1..N)
      OBVIOUS
    <3> HIDE DEF gaps
    <3>2. Min(gaps) \in gaps
      BY <1>2, <2>2, <3>1, FirstAndLast
    <3>3. Min(gaps) \in Nat /\ Min(gaps) >= 1 /\ Min(gaps) <= N
      <4>1. \A g \in 1..N : g \in Nat /\ g >= 1 /\ g <= N
        BY <1>2
      <4>2. Min(gaps) \in 1..N
        BY <3>1, <3>2
      <4> QED
        BY <4>1, <4>2
    <3> QED
      BY <1>2, <2>2, <3>3
  <2> QED
    BY <2>1, <2>2
<1> HIDE DEF gaps
<1>6. Len(SubSeq(all, 1, n)) = n /\ \A l \in 1..n : SubSeq(all, 1, n)[l] = all[l]
  <2> HIDE DEF n
  <2> QED
    BY <1>2, <1>4, <1>5
<1>7. gaps = {} /\ n = N
  BY <1>1, <1>5, <1>6
<1>8. \A l \in 1..N : all[l] \in Nat \ {0}
  BY <1>3, <1>7 DEF gaps
<1>9. SubSeq(all, 1, n) \in Seq(Nat \ {0})
  <2>1. SubSeq(all, 1, n) \in Seq(Nat)
    BY <1>2, <1>4, <1>7
  <2>2. \A l \in 1..Len(SubSeq(all, 1, n)) : SubSeq(all, 1, n)[l] \in Nat \ {0}
    BY <1>6, <1>7, <1>8
  <2> HIDE DEF n
  <2> QED
    BY <2>1, <2>2
<1>10. SubSeq(all, 1, n) # <<>>
  <2>1. Len(SubSeq(all, 1, n)) # 0
    BY <1>2, <1>6, <1>7
  <2>2. Len(<<>>) = 0
    OBVIOUS
  <2> QED
    BY <2>1, <2>2
<1>11. \A l \in 1..N : SubSeq(all, 1, n)[l] = all[l]
  BY <1>6, <1>7
<1> HIDE DEF n
<1>12. \A e \in known : /\ e.type = TakeProfitOrder /\ e.position \in 1..N /\ e.size > 0
                       => SubSeq(all, 1, n)[e.position] = e.size
  BY <1>e, <1>11
<1> QED
  BY <1>1, <1>9, <1>10, <1>12 DEF Stack

\* A step of a ladder that is rounded as a whole is less than a lot off.
LEMMA LadderWithin ==
    ASSUME NEW O \in Stack, NEW m \in Int, NEW l \in 1..Len(O)
    PROVE  /\ computeStackRoundedSizes(O, m)[l] \in Int
           /\ Abs(computeStackRoundedSizes(O, m)[l] - O[l] * m) < SizeStep
<1>1. DOMAIN O = 1..Len(O) /\ O[l] \in Nat
  BY DEF Stack
<1>2. Target(O, m)[l] = O[l] * m /\ O[l] * m \in Int
  BY <1>1 DEF Target
<1>3. computeStackRoundedSizes(O, m) \in Ladders(O, m)
  BY BestLadder
<1>4. computeStackRoundedSizes(O, m)[l] \in Options(O[l] * m)
  BY <1>1, <1>2, <1>3 DEF Ladders
<1> QED
  BY <1>2, <1>4, OptionsWithin

\* So is an order that is rounded by itself.
LEMMA RoundWithin ==
    ASSUME NEW x \in Int
    PROVE  RoundSize(x) \in Int /\ Abs(RoundSize(x) - x) < SizeStep
<1> DEFINE S == SizeStep
           q == (2 * x + S) \div (2 * S)
<1>1. S \in Nat \ {0}
  BY StepPositive
<1> HIDE DEF S
<1>2. \A u \in Int, v \in Nat \ {0} :
        (u \div v) \in Int /\ (u \div v) * v <= u /\ u < (u \div v) * v + v
  OBVIOUS
<1>3. q \in Int /\ q * (2 * S) <= 2 * x + S /\ 2 * x + S < q * (2 * S) + 2 * S
  <2>1. 2 * x + S \in Int /\ 2 * S \in Nat \ {0}
    BY <1>1
  <2> QED
    BY <1>2, <2>1
<1> HIDE DEF q
<1>4. q * (2 * S) = 2 * (q * S) /\ q * S \in Int
  BY <1>1, <1>3
<1>5. q * S \in Int /\ Abs(q * S - x) < S
  BY <1>1, <1>3, <1>4 DEF Abs
<1> QED
  BY <1>5 DEF RoundSize, S, q

-----------------------------------------------------------------------------
(* The audit *)

AuditRow == [event : Event, index : Nat \ {0}, original : Nat, scaled : Int,
             multiplier : Nat \ {0}, delta : Int, seen : SUBSET Nat, stack : Seq(Nat)]
Request == [event : Event, index : Nat \ {0}, stackSize : Nat \ {0}, original : Nat]
Job == [at : {"constraints", "stack", "record", "insert"},
        request : Request, multiplier : Nat \ {0}, seen : SUBSET Nat,
        stack : Seq(Nat), scaled : Int \cup AuditRow]

\* A request has its place in the ladder and the size of its event, if that has one.
Placed(q) ==
    /\ q.index <= q.stackSize
    /\ q.event.size > 0 => q.original = q.event.size

\* How a size came about: alone, or as the entry at its index in a ladder, which for a take
\* profit step at its place is its own.
FromLadder(e, index, original, m, stack, scaled) ==
    LET base == IF stack = <<>> THEN original ELSE stack[index]
    IN  /\ Abs(scaled - base * m) < SizeStep
        /\ e.type = TakeProfitOrder /\ e.position = index /\ e.size > 0 => base = original

Explains(r) ==
    /\ r \in AuditRow
    /\ r.multiplier \in r.seen /\ r.multiplier <= MaxMultiplier
    /\ r.delta = r.scaled - r.original * r.multiplier
    /\ FromLadder(r.event, r.index, r.original, r.multiplier, r.stack, r.scaled)

\* While a Scale is under way its event is the latest of its order.
JobInv(j) ==
    /\ j \in Job
    /\ j.request.event \in known /\ Placed(j.request)
    /\ j.multiplier \in j.seen /\ j.multiplier <= MaxMultiplier
    /\ j.at = "record" =>
          /\ j.scaled \in Int
          /\ FromLadder(j.request.event, j.request.index, j.request.original, j.multiplier,
                        j.stack, j.scaled)
    /\ j.at = "insert" => Explains(j.scaled)

ScalerInv ==
    /\ default \in Nat \ {0}
    /\ override = None \/ override \in Nat \ {0}
    /\ payload \in Seq(Step)
    /\ EventTable(known)
    /\ todo \subseteq known
    /\ job = None \/ JobInv(job)
    /\ \A r \in audits : Explains(r)

\* The multiplier that Scale resolves is positive and within the maximum.
LEMMA Clamped ==
    ASSUME NEW d \in Nat \ {0}, NEW o, o = None \/ o \in Nat \ {0}
    PROVE  /\ Clamp(ResolveEffectiveOrderScaler(d, o)) \in Nat \ {0}
           /\ Clamp(ResolveEffectiveOrderScaler(d, o)) <= MaxMultiplier
<1>1. MaxMultiplier \in Nat \ {0}
  BY OrderScalerAssumption
<1>2. ResolveEffectiveOrderScaler(d, o) \in Nat \ {0}
  BY DEF ResolveEffectiveOrderScaler
<1> QED
  BY <1>1, <1>2 DEF Clamp

\* An edit adds to what a job has seen, and leaves what the job has read alone.
LEMMA EditStep ==
    ASSUME ScalerInv, Edit, default' \in Nat \ {0}, override' = None \/ override' \in Nat \ {0}
    PROVE  ScalerInv'
<1> DEFINE c == Clamp(ResolveEffectiveOrderScaler(default', override'))
<1>1. c \in Nat
  BY Clamped
<1>2. UNCHANGED <<payload, known, todo, audits>>
  BY DEF Edit
<1>3. job = None => job' = None
  BY DEF Edit
<1>4. ASSUME job # None PROVE JobInv(job)'
  <2>1. JobInv(job) /\ job' = [job EXCEPT !.seen = @ \cup {c}]
    BY <1>4 DEF Edit, ScalerInv
  <2> HIDE DEF c
  <2>2. job \in Job
    BY <2>1 DEF JobInv
  <2>3. /\ job'.at = job.at /\ job'.request = job.request /\ job'.scaled = job.scaled
        /\ job'.multiplier = job.multiplier /\ job'.stack = job.stack
        /\ job'.seen = job.seen \cup {c}
    BY <2>1, <2>2 DEF Job
  <2>4. job' \in Job
    <3>1. job.seen \cup {c} \in SUBSET Nat
      BY <1>1, <2>2 DEF Job
    <3> QED
      BY <2>1, <2>2, <3>1 DEF Job
  <2> QED
    BY <1>2, <2>1, <2>3, <2>4 DEF JobInv
<1> QED
  BY <1>2, <1>3, <1>4 DEF ScalerInv

\* The API keeps the multipliers positive.
LEMMA ConfigStep ==
    ASSUME ScalerInv, NEW m \in Multipliers,
           UpdateOrderScalerConfig(m) \/ UpsertBotOrderScalerConfig(m)
    PROVE  ScalerInv'
<1>1. m \in Nat \ {0}
  <2>1. m \in Int
    BY OrderScalerAssumption
  <2>2. m > 0
    BY DEF UpdateOrderScalerConfig, UpsertBotOrderScalerConfig, validateOrderScalerMultiplier
  <2> QED
    BY <2>1, <2>2
<1>2. Edit /\ default' \in Nat \ {0} /\ (override' = None \/ override' \in Nat \ {0})
  BY <1>1 DEF UpdateOrderScalerConfig, UpsertBotOrderScalerConfig, upsertOrderScaler,
              upsertBotOrderScaler, ScalerInv
<1> QED
  BY <1>2, EditStep

\* A poll comes while nothing is being scaled; every order keeps one latest event.
LEMMA HandleDealStep ==
    ASSUME ScalerInv, NEW report \in Reports, HandleDeal(report)
    PROVE  ScalerInv'
<1>1. EventTable(report)
  BY OrderScalerAssumption DEF EventTable
<1>2. /\ job' = None /\ payload' = payload
      /\ known' = {e \in known : \A f \in report : ~SameOrder(e, f)} \cup report
      /\ todo' = report \ known
      /\ UNCHANGED <<default, override, audits>>
  BY DEF HandleDeal
<1>3. EventTable(known)
  BY DEF ScalerInv
<1>4. EventTable(known')
  <2>1. known' \subseteq Event
    BY <1>1, <1>2, <1>3 DEF EventTable
  <2>2. \A e, f \in Event : SameOrder(e, f) <=> SameOrder(f, e)
    BY DEF SameOrder
  <2>3. \A e, f \in known' : SameOrder(e, f) => e = f
    BY <1>1, <1>2, <1>3, <2>1, <2>2 DEF EventTable
  <2> QED
    BY <2>1, <2>3 DEF EventTable
<1>5. todo' \subseteq known'
  BY <1>2
<1> QED
  BY <1>1, <1>2, <1>4, <1>5 DEF ScalerInv

\* A request finds its place.
LEMMA Requested ==
    ASSUME NEW e \in Event, NEW ordered \in Nat
    PROVE  /\ BuildRequest(e, ordered) \in Request /\ Placed(BuildRequest(e, ordered))
           /\ BuildRequest(e, ordered).event = e
<1> DEFINE n == IF e.group > 0 THEN e.group ELSE 1
           at == IF e.position > 1 THEN e.position ELSE 1
           index == IF at > n THEN n ELSE at
           original == IF e.size > 0 THEN e.size ELSE ordered
<1>1. BuildRequest(e, ordered) =
        [event |-> e, index |-> index, stackSize |-> n, original |-> original]
  BY DEF BuildRequest
<1>2. e.group \in Int /\ e.position \in Int /\ e.size \in Nat
  BY DEF Event
<1>3. n \in Nat \ {0} /\ at \in Nat \ {0}
  BY <1>2
<1>4. index \in Nat \ {0} /\ index <= n
  <2> HIDE DEF n, at
  <2> QED
    BY <1>3
<1>5. original \in Nat /\ (e.size > 0 => original = e.size)
  BY <1>2
<1> HIDE DEF n, at, index, original
<1> QED
  BY <1>1, <1>3, <1>4, <1>5 DEF Request, Placed

\* Scale resolves the multiplier.
LEMMA ResolvesStep == ASSUME ScalerInv, ScaleResolves PROVE ScalerInv'
<1>1. PICK e \in todo, ordered \in OrderSizes :
        job' = [at |-> "constraints", request |-> BuildRequest(e, ordered),
                multiplier |-> Clamp(ResolveEffectiveOrderScaler(default, override)),
                seen |-> {Clamp(ResolveEffectiveOrderScaler(default, override))},
                stack |-> <<>>, scaled |-> 0]
  BY DEF ScaleResolves
<1>2. UNCHANGED <<default, override, payload, known, todo, audits>>
  BY DEF ScaleResolves
<1> DEFINE c == Clamp(ResolveEffectiveOrderScaler(default, override))
           q == BuildRequest(e, ordered)
<1>3. c \in Nat \ {0} /\ c <= MaxMultiplier
  BY Clamped DEF ScalerInv
<1>4. job' = [at |-> "constraints", request |-> q, multiplier |-> c, seen |-> {c},
              stack |-> <<>>, scaled |-> 0]
  BY <1>1
<1>5. e \in known /\ e \in Event /\ ordered \in Nat
  BY OrderScalerAssumption DEF ScalerInv, EventTable
<1>6. q \in Request /\ Placed(q) /\ q.event = e
  BY <1>5, Requested
<1> HIDE DEF c, q
<1>7. job' \in Job
  <2>1. <<>> \in Seq(Nat) /\ {c} \in SUBSET Nat /\ 0 \in Int \cup AuditRow
    BY <1>3
  <2> QED
    BY <1>3, <1>4, <1>6, <2>1 DEF Job
<1>8. JobInv(job)'
  BY <1>2, <1>3, <1>4, <1>5, <1>6, <1>7 DEF JobInv
<1> QED
  BY <1>2, <1>8 DEF ScalerInv

\* The constraints are known, or the deal is given up.
LEMMA ConstraintsStep == ASSUME ScalerInv, Resolve PROVE ScalerInv'
<1>1. UNCHANGED <<default, override, payload, known, audits>>
  BY DEF Resolve
<1>2. CASE decimals' = "failed"
  <2>1. job' = None /\ todo' = {}
    BY <1>2 DEF Resolve
  <2> QED
    BY <1>1, <2>1 DEF ScalerInv
<1>3. CASE decimals' # "failed"
  <2>1. job # None /\ job.at = "constraints" /\ job' = [job EXCEPT !.at = "stack"] /\ todo' = todo
    BY <1>3 DEF Resolve
  <2>2. JobInv(job) /\ job \in Job
    BY <2>1 DEF ScalerInv, JobInv
  <2>3. /\ job'.at = "stack" /\ job'.request = job.request
        /\ job'.multiplier = job.multiplier /\ job'.seen = job.seen
    BY <2>1, <2>2 DEF Job
  <2>4. job' \in Job
    BY <2>1, <2>2 DEF Job
  <2>5. JobInv(job)'
    BY <1>1, <2>1, <2>2, <2>3, <2>4 DEF JobInv
  <2> QED
    BY <1>1, <2>1, <2>5 DEF ScalerInv
<1> QED
  BY <1>2, <1>3

\* The size is rounded, by itself or with the ladder that was read.
LEMMA RoundsStep == ASSUME ScalerInv, ScaleRounds PROVE ScalerInv'
<1> DEFINE e == job.request.event  i == job.request.index  o == job.request.original
           m == job.multiplier  n == job.request.stackSize
           whole(s) == n > 1 /\ Len(s) = n
           keptOf(s) == IF whole(s) THEN s ELSE <<>>
           sizeOf(s) == IF whole(s) THEN computeStackRoundedSizes(s, m)[i] ELSE RoundSize(o * m)
<1>1. /\ UNCHANGED <<default, override, payload, known, todo, audits>>
      /\ job # None /\ job.at = "stack"
  BY DEF ScaleRounds
<1>2. PICK st \in {ListTakeProfitStackSizes(n), <<>>} :
        job' = [job EXCEPT !.at = "record", !.stack = keptOf(st), !.scaled = sizeOf(st)]
  BY DEF ScaleRounds
<1> DEFINE kept == keptOf(st)  size == sizeOf(st)
<1>3. JobInv(job) /\ job \in Job
  BY <1>1 DEF ScalerInv, JobInv
<1>4. /\ job.request \in Request /\ m \in Nat \ {0}
      /\ e \in known /\ Placed(job.request)
  BY <1>3 DEF JobInv, Job
<1>5. /\ i \in Nat \ {0} /\ n \in Nat \ {0} /\ i <= n /\ o \in Nat
      /\ (e.size > 0 => o = e.size)
  BY <1>4 DEF Request, Placed
<1>6. o * m \in Int
  BY <1>4, <1>5
<1>7. size \in Int /\ kept \in Seq(Nat) /\ FromLadder(e, i, o, m, kept, size)
  <2>1. CASE whole(st)
    <3>1. st = ListTakeProfitStackSizes(n) /\ Len(st) = n
      <4>1. Len(<<>>) = 0
        OBVIOUS
      <4> QED
        BY <1>2, <1>5, <2>1, <4>1
    <3>2. /\ st \in Stack
          /\ e.type = TakeProfitOrder /\ e.position = i /\ e.size > 0 => st[i] = e.size
      <4>1. EventTable(known) /\ payload \in Seq(Step)
        BY DEF ScalerInv
      <4>2. /\ ListTakeProfitStackSizes(n) \in Stack
            /\ \A f \in known :
                  /\ f.type = TakeProfitOrder /\ f.position \in 1..n /\ f.size > 0
                  => ListTakeProfitStackSizes(n)[f.position] = f.size
        BY <1>5, <3>1, <4>1, FullStack
      <4>3. i \in 1..n
        BY <1>5
      <4> QED
        BY <1>4, <3>1, <4>2, <4>3
    <3>3. i \in 1..Len(st) /\ m \in Int
      BY <1>4, <1>5, <3>1
    <3>4. st \in Seq(Nat) /\ st # <<>>
      BY <3>2 DEF Stack
    <3>5. kept = st /\ size = computeStackRoundedSizes(st, m)[i]
      BY <2>1
    <3> HIDE DEF kept, size, e, i, o, m, n
    <3>6. size \in Int /\ Abs(size - st[i] * m) < SizeStep
      BY <3>2, <3>3, <3>5, LadderWithin
    <3>7. FromLadder(e, i, o, m, kept, size)
      BY <1>5, <3>2, <3>4, <3>5, <3>6 DEF FromLadder
    <3> QED
      BY <3>4, <3>5, <3>6, <3>7
  <2>2. CASE ~whole(st)
    <3>1. kept = <<>> /\ size = RoundSize(o * m)
      BY <2>2
    <3> HIDE DEF kept, size, e, i, o, m
    <3>2. size \in Int /\ Abs(size - o * m) < SizeStep
      BY <1>6, <3>1, RoundWithin
    <3>3. <<>> \in Seq(Nat)
      OBVIOUS
    <3> QED
      BY <3>1, <3>2, <3>3 DEF FromLadder
  <2> QED
    BY <2>1, <2>2
<1>8. job' = [job EXCEPT !.at = "record", !.stack = kept, !.scaled = size]
  BY <1>2
<1> HIDE DEF kept, size, keptOf, sizeOf, whole
<1>9. /\ job'.at = "record" /\ job'.request = job.request /\ job'.multiplier = m
      /\ job'.seen = job.seen /\ job'.stack = kept /\ job'.scaled = size
  BY <1>3, <1>8 DEF Job
<1>10. job' \in Job
  BY <1>3, <1>7, <1>8 DEF Job
<1>11. JobInv(job)'
  BY <1>1, <1>3, <1>7, <1>9, <1>10 DEF JobInv
<1> QED
  BY <1>1, <1>11 DEF ScalerInv

\* The row says what was done.
LEMMA RecordsStep == ASSUME ScalerInv, ScaleRecords PROVE ScalerInv'
<1>1. /\ UNCHANGED <<default, override, payload, known, todo, audits>>
      /\ job # None /\ job.at = "record"
      /\ job' = [job EXCEPT !.at = "insert", !.scaled = Audited(@)]
  BY DEF ScaleRecords
<1>2. JobInv(job) /\ job \in Job
  BY <1>1 DEF ScalerInv, JobInv
<1> DEFINE row == Audited(job.scaled)
<1>3. row = [event |-> job.request.event, index |-> job.request.index,
             original |-> job.request.original, scaled |-> job.scaled,
             multiplier |-> job.multiplier,
             delta |-> job.scaled - job.request.original * job.multiplier,
             seen |-> job.seen, stack |-> job.stack]
  BY DEF Audited, RecordScaledOrder
<1> HIDE DEF row
<1>4. /\ job.request.event \in Event /\ job.request.index \in Nat \ {0}
      /\ job.request.original \in Nat /\ job.scaled \in Int /\ job.multiplier \in Nat \ {0}
      /\ job.seen \in SUBSET Nat /\ job.stack \in Seq(Nat)
  BY <1>1, <1>2 DEF JobInv, Job, Request
<1>5. job.scaled - job.request.original * job.multiplier \in Int
  BY <1>4
<1>6. row \in AuditRow
  BY <1>3, <1>4, <1>5 DEF AuditRow
<1>7. Explains(row)
  BY <1>1, <1>2, <1>3, <1>6 DEF Explains, JobInv
<1>8. /\ job'.at = "insert" /\ job'.request = job.request /\ job'.multiplier = job.multiplier
      /\ job'.seen = job.seen /\ job'.scaled = row
  BY <1>1, <1>2 DEF Job, row
<1>9. job' \in Job
  <2>1. job' = [job EXCEPT !.at = "insert", !.scaled = row]
    BY <1>1 DEF row
  <2> QED
    BY <1>2, <1>6, <2>1 DEF Job
<1>10. JobInv(job)'
  BY <1>1, <1>2, <1>7, <1>8, <1>9 DEF JobInv
<1> QED
  BY <1>1, <1>10 DEF ScalerInv

\* The row is inserted, and the order is done.
LEMMA InsertStep == ASSUME ScalerInv, InsertScaledOrderAudit PROVE ScalerInv'
<1>1. /\ UNCHANGED <<default, override, payload, known>>
      /\ job # None /\ job.at = "insert" /\ job' = None
      /\ audits' = audits \cup {job.scaled}
      /\ todo' = todo \ {job.request.event}
  BY DEF InsertScaledOrderAudit
<1>2. Explains(job.scaled)
  BY <1>1 DEF ScalerInv, JobInv
<1>3. \A r \in audits' : Explains(r)
  BY <1>1, <1>2 DEF ScalerInv
<1> QED
  BY <1>1, <1>3 DEF ScalerInv

\* Every step keeps the invariant.
LEMMA ScalerStep == ScalerInv /\ [NextScaler]_scalerVars => ScalerInv'
<1> SUFFICES ASSUME ScalerInv, [NextScaler]_scalerVars PROVE ScalerInv'
  OBVIOUS
<1>1. CASE DeleteBotOrderScalerConfig
  <2>1. Edit /\ default' \in Nat \ {0} /\ override' = None
    BY <1>1 DEF DeleteBotOrderScalerConfig, deleteBotOrderScaler, ScalerInv
  <2> QED
    BY <2>1, EditStep
<1>2. CASE UNCHANGED scalerVars
  BY <1>2 DEF scalerVars, ScalerInv, JobInv
<1>3. ASSUME NEW deal \in Deals, RecordThreeCommasDeal(deal) PROVE ScalerInv'
  <2>1. payload' \in Seq(Step)
    BY <1>3, OrderScalerAssumption DEF RecordThreeCommasDeal, Step
  <2>2. UNCHANGED <<default, override, known, todo, job, audits>>
    BY <1>3 DEF RecordThreeCommasDeal
  <2> QED
    BY <2>1, <2>2 DEF ScalerInv, JobInv
<1> QED
  BY <1>1, <1>2, <1>3, ConfigStep, HandleDealStep, ResolvesStep, ConstraintsStep, RoundsStep,
     RecordsStep, InsertStep DEF NextScaler

\* The invariant holds at the start.
LEMMA ScalerInit == InitScaler => ScalerInv
<1> SUFFICES ASSUME InitScaler PROVE ScalerInv
  OBVIOUS
<1>1. Unit \in Nat \ {0} /\ Multipliers \subseteq Int
  BY OrderScalerAssumption
<1>2. default \in Nat \ {0}
  BY <1>1 DEF InitScaler
<1>3. <<>> \in Seq(Step)
  OBVIOUS
<1> QED
  BY <1>2, <1>3 DEF InitScaler, ScalerInv, EventTable

\* Whatever operators edit while orders of any type, position and group are scaled, every
\* audit row says how its order got its size: it names a multiplier that was in force during
\* that Scale and is within the maximum, the size is less than a lot from that multiple of
\* what was rounded, and a take profit step is rounded from its own size, alone or with its
\* ladder, whatever events and payloads came before.
THEOREM AuditsExplainSizes == SpecScaler => []AuditExplainsSize
<1>1. ScalerInv => AuditExplainsSize
  BY DEF ScalerInv, AuditExplainsSize, Explains, FromLadder, OwnStep, Rounded
<1> QED
  BY <1>1, ScalerInit, ScalerStep, PTL DEF SpecScaler
=============================================================================
