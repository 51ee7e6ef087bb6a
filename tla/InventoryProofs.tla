-------------------------- MODULE InventoryProofs --------------------------
(***************************************************************************)
(* Theorems about Inventory, for any bags, kinds, coins and slots, and any *)
(* prices.  What is proved of worlds is said by counting: a bag is counted *)
(* once (Total), and of any set of bags one lies outside of it (Grounded), *)
(* so that none is inside itself; from this and what is in order cylinder  *)
(* by cylinder (Tidy) follows that each thing is in its place, and every   *)
(* change is told by what comes and goes (Comes).  Sound is what all       *)
(* operations keep; the searches are told by what they find (FitFor), the  *)
(* loops by what holds after each of their rounds (Filled, Taken, Given,   *)
(* Paying).                                                                *)
(***************************************************************************)
EXTENDS Inventory, FiniteSetTheorems, WellFoundedInduction, TLAPS

-----------------------------------------------------------------------------
(* Induction, and least elements.                                          *)

Before == {pair \in Nat \X Nat : pair[1] < pair[2]}

\* A set of numbers that is not empty has a least member.
LEMMA LeastExists ==
    ASSUME NEW T \in SUBSET Nat, T # {}
    PROVE  \E x \in T : \A y \in T : x <= y
<1>1. IsWellFoundedOn(Before, Nat)
  BY NatLessThanWellFounded DEF OpToRel, Before
<1>2. PICK x \in T : \A y \in T : <<y, x>> \notin Before
  BY <1>1, WFMin
<1>3. ASSUME NEW y \in T PROVE x <= y
  <2>1. ~(y < x)
    BY <1>2, <1>3 DEF Before
  <2>2. x \in Nat /\ y \in Nat
    OBVIOUS
  <2> QED BY <2>1, <2>2
<1> QED BY <1>3

\* Induction, for a set of numbers.
LEMMA SetInduction ==
    ASSUME NEW A, 0 \in A, \A n \in Nat : n \in A => n + 1 \in A
    PROVE  Nat \subseteq A
<1> DEFINE T == Nat \ A
<1> SUFFICES ASSUME T # {} PROVE FALSE
  OBVIOUS
<1>1. PICK x \in T : \A y \in T : x <= y
  <2>1. T \in SUBSET Nat
    OBVIOUS
  <2> HIDE DEF T
  <2> QED BY <2>1, LeastExists
<1>2. x - 1 \in Nat /\ x - 1 < x /\ (x - 1) + 1 = x
  OBVIOUS
<1> QED BY <1>1, <1>2

\* Induction, for a set of finite subsets.
LEMMA FiniteInduction ==
    ASSUME NEW S, IsFiniteSet(S), NEW A, {} \in A,
           \A T \in SUBSET S : \A x \in S \ T : T \in A => T \cup {x} \in A
    PROVE  S \in A
<1> DEFINE B == {n \in Nat : \A T \in SUBSET S : Cardinality(T) = n => T \in A}
<1>1. 0 \in B
  <2> SUFFICES ASSUME NEW T \in SUBSET S, Cardinality(T) = 0 PROVE T \in A
    OBVIOUS
  <2>1. IsFiniteSet(T)
    BY FS_Subset
  <2> QED BY <2>1, FS_EmptySet
<1>2. ASSUME NEW n \in Nat, n \in B PROVE n + 1 \in B
  <2> SUFFICES ASSUME NEW T \in SUBSET S, Cardinality(T) = n + 1 PROVE T \in A
    OBVIOUS
  <2>1. IsFiniteSet(T)
    BY FS_Subset
  <2>2. PICK x \in T : TRUE
    BY <2>1, FS_EmptySet
  <2>3. Cardinality(T \ {x}) = n
    <3>1. Cardinality(T \ {x}) = Cardinality(T) - 1
      BY <2>1, <2>2, FS_RemoveElement
    <3> QED BY <3>1
  <2>4. T \ {x} \in A /\ T \ {x} \in SUBSET S /\ x \in S \ (T \ {x})
    BY <1>2, <2>3
  <2>5. (T \ {x}) \cup {x} = T
    OBVIOUS
  <2>6. (T \ {x}) \cup {x} \in A
    BY <2>4
  <2> QED BY <2>5, <2>6
<1> HIDE DEF B
<1>3. Nat \subseteq B
  BY <1>1, <1>2, SetInduction
<1>4. Cardinality(S) \in Nat
  BY FS_CardinalityType
<1> QED BY <1>3, <1>4 DEF B

-----------------------------------------------------------------------------
(* Sums.                                                                   *)

\* What the folding function of a sum does.
Summing(f, S, iter) ==
    iter = [s \in SUBSET S |->
              IF s = {} THEN 0
              ELSE f[CHOOSE x \in s : TRUE] + iter[s \ {CHOOSE x \in s : TRUE}]]

LEMMA SumIs ==
    ASSUME NEW f, NEW S
    PROVE  SumFunctionOnSet(f, S) = (CHOOSE iter : Summing(f, S, iter))[S]
BY DEF SumFunctionOnSet, FoldFunctionOnSet, MapThenFoldSet, Summing

SummingUpTo(f, S, g, n) ==
    g = [s \in {s \in SUBSET S : Cardinality(s) <= n} |->
            IF s = {} THEN 0
            ELSE f[CHOOSE x \in s : TRUE] + g[s \ {CHOOSE x \in s : TRUE}]]

\* It exists for finite sets.
LEMMA SummingExists ==
    ASSUME NEW f, NEW S, IsFiniteSet(S)
    PROVE  \E iter : Summing(f, S, iter)
<1> DEFINE Small(n) == {s \in SUBSET S : Cardinality(s) <= n}
           Partial(g, n) == SummingUpTo(f, S, g, n)
           A == {n \in Nat : \E g : Partial(g, n)}
<1>0. \A s \in SUBSET S : IsFiniteSet(s) /\ Cardinality(s) \in Nat
  BY FS_Subset, FS_CardinalityType
<1>1. 0 \in A
  <2>1. Small(0) = {{}}
    BY <1>0, FS_EmptySet
  <2> DEFINE g == [s \in Small(0) |-> 0]
  <2>2. Partial(g, 0)
    BY <2>1 DEF SummingUpTo
  <2> QED BY <2>2
<1>2. ASSUME NEW n \in Nat, n \in A PROVE n + 1 \in A
  <2>1. PICK g : Partial(g, n)
    BY <1>2
  <2> DEFINE x(s) == CHOOSE x \in s : TRUE
             h == [s \in Small(n + 1) |->
                    IF Cardinality(s) <= n THEN g[s] ELSE f[x(s)] + g[s \ {x(s)}]]
  <2>2. ASSUME NEW s \in Small(n + 1), s # {} PROVE h[s \ {x(s)}] = g[s \ {x(s)}]
    <3>1. x(s) \in s
      BY <2>2
    <3>2. Cardinality(s \ {x(s)}) = Cardinality(s) - 1
      BY <1>0, <3>1, FS_RemoveElement
    <3>3. s \ {x(s)} \in SUBSET S /\ Cardinality(s \ {x(s)}) <= n
      BY <1>0, <3>2
    <3>4. s \ {x(s)} \in Small(n + 1)
      BY <1>0, <3>3
    <3> HIDE DEF x, Small
    <3> QED BY <3>3, <3>4
  <2>3. ASSUME NEW s \in Small(n + 1)
        PROVE  h[s] = IF s = {} THEN 0 ELSE f[x(s)] + h[s \ {x(s)}]
    <3>1. CASE s = {}
      <4>1. s \in Small(n) /\ Cardinality(s) <= n
        BY <3>1, FS_EmptySet
      <4>2. g[s] = 0
        BY <2>1, <4>1, <3>1 DEF SummingUpTo
      <4> QED BY <3>1, <4>1, <4>2
    <3>2. CASE s # {} /\ Cardinality(s) <= n
      <4>1. s \in Small(n)
        BY <3>2
      <4>2. g[s] = f[x(s)] + g[s \ {x(s)}]
        BY <2>1, <4>1, <3>2 DEF SummingUpTo
      <4>3. h[s] = g[s]
        BY <3>2
      <4> QED BY <2>2, <3>2, <4>2, <4>3
    <3>3. CASE s # {} /\ ~(Cardinality(s) <= n)
      <4>1. h[s] = f[x(s)] + g[s \ {x(s)}]
        BY <3>3
      <4> HIDE DEF h, x, Small
      <4> QED BY <2>2, <3>3, <4>1
    <3> HIDE DEF h, x, Small
    <3> QED BY <3>1, <3>2, <3>3
  <2>4. h = [s \in Small(n + 1) |-> h[s]]
    OBVIOUS
  <2> HIDE DEF h
  <2>5. Partial(h, n + 1)
    BY <2>3, <2>4 DEF SummingUpTo
  <2> QED BY <2>5
<1>3. Cardinality(S) \in A
  <2> HIDE DEF A
  <2>1. Nat \subseteq A
    BY <1>1, <1>2, SetInduction
  <2> QED BY <1>0, <2>1
<1>4. PICK g : Partial(g, Cardinality(S))
  BY <1>3
<1>5. Small(Cardinality(S)) = SUBSET S
  <2>1. \A s \in SUBSET S : Cardinality(s) <= Cardinality(S)
    BY FS_Subset
  <2> QED BY <2>1
<1>6. Summing(f, S, g)
  BY <1>4, <1>5 DEF Summing, SummingUpTo
<1> QED BY <1>6

\* Two of them agree where both are defined.
LEMMA SummingAgrees ==
    ASSUME NEW f, NEW S, IsFiniteSet(S), NEW T \in SUBSET S, NEW g, NEW h,
           Summing(f, S, g), Summing(f, T, h)
    PROVE  g[T] = h[T]
<1> DEFINE A == {n \in Nat : \A s \in SUBSET T : Cardinality(s) = n => g[s] = h[s]}
<1>0. \A s \in SUBSET T : IsFiniteSet(s) /\ Cardinality(s) \in Nat /\ s \in SUBSET S
  BY FS_Subset, FS_CardinalityType
<1>1. 0 \in A
  <2> SUFFICES ASSUME NEW s \in SUBSET T, Cardinality(s) = 0 PROVE g[s] = h[s]
    OBVIOUS
  <2>1. s = {}
    BY <1>0, FS_EmptySet
  <2>2. g[{}] = 0
    BY DEF Summing
  <2>3. h[{}] = 0
    BY DEF Summing
  <2> QED BY <2>1, <2>2, <2>3
<1>2. ASSUME NEW n \in Nat, n \in A PROVE n + 1 \in A
  <2> SUFFICES ASSUME NEW s \in SUBSET T, Cardinality(s) = n + 1 PROVE g[s] = h[s]
    OBVIOUS
  <2> DEFINE x == CHOOSE x \in s : TRUE
  <2>1. s # {}
    BY FS_EmptySet
  <2>2. x \in s
    BY <2>1
  <2>3. Cardinality(s \ {x}) = n
    <3>1. Cardinality(s \ {x}) = Cardinality(s) - 1
      BY <1>0, <2>2, FS_RemoveElement
    <3> QED BY <3>1
  <2>4. g[s \ {x}] = h[s \ {x}]
    BY <1>2, <2>3
  <2>5. g[s] = f[x] + g[s \ {x}]
    BY <1>0, <2>1 DEF Summing
  <2>6. h[s] = f[x] + h[s \ {x}]
    BY <2>1 DEF Summing
  <2> QED BY <2>4, <2>5, <2>6
<1> HIDE DEF A
<1>3. Nat \subseteq A
  BY <1>1, <1>2, SetInduction
<1>4. Cardinality(T) \in A /\ T \in SUBSET T
  BY <1>0, <1>3
<1> QED BY <1>4 DEF A

LEMMA SumStep ==
    ASSUME NEW f, NEW S, IsFiniteSet(S)
    PROVE  SumFunctionOnSet(f, S) =
             IF S = {} THEN 0
             ELSE f[CHOOSE x \in S : TRUE] + SumFunctionOnSet(f, S \ {CHOOSE x \in S : TRUE})
<1> DEFINE T == S \ {CHOOSE x \in S : TRUE}
           g == CHOOSE iter : Summing(f, S, iter)
           h == CHOOSE iter : Summing(f, T, iter)
<1>1. IsFiniteSet(T) /\ T \in SUBSET S
  BY FS_Subset
<1>2. Summing(f, S, g)
  BY SummingExists
<1>3. Summing(f, T, h)
  <2> HIDE DEF T
  <2> QED BY <1>1, SummingExists
<1>4. SumFunctionOnSet(f, S) = g[S]
  BY SumIs
<1>5. SumFunctionOnSet(f, T) = h[T]
  <2> HIDE DEF T
  <2> QED BY SumIs
<1> HIDE DEF g, h
<1>6. g[T] = h[T]
  <2> HIDE DEF T
  <2> QED BY <1>1, <1>2, <1>3, SummingAgrees
<1>7. g[S] = IF S = {} THEN 0 ELSE f[CHOOSE x \in S : TRUE] + g[T]
  BY <1>2 DEF Summing
<1> QED BY <1>4, <1>5, <1>6, <1>7

LEMMA SumEmpty ==
    ASSUME NEW f
    PROVE  SumFunctionOnSet(f, {}) = 0
BY SumStep, FS_EmptySet

\* Any summand can be taken first.
LEMMA SumSplit ==
    ASSUME NEW f, NEW S, IsFiniteSet(S), \A y \in S : f[y] \in Int
    PROVE  /\ SumFunctionOnSet(f, S) \in Int
           /\ \A x \in S : SumFunctionOnSet(f, S) = f[x] + SumFunctionOnSet(f, S \ {x})
<1> DEFINE Sum(T) == SumFunctionOnSet(f, T)
           Good(T) == Sum(T) \in Int /\ \A x \in T : Sum(T) = f[x] + Sum(T \ {x})
           A == {n \in Nat : \A T \in SUBSET S : Cardinality(T) <= n => Good(T)}
<1>0. \A T \in SUBSET S : IsFiniteSet(T) /\ Cardinality(T) \in Nat
  BY FS_Subset, FS_CardinalityType
<1>1. 0 \in A
  <2> SUFFICES ASSUME NEW T \in SUBSET S, Cardinality(T) <= 0 PROVE Good(T)
    OBVIOUS
  <2>1. T = {}
    <3>1. Cardinality(T) = 0
      BY <1>0
    <3> QED BY <1>0, <3>1, FS_EmptySet
  <2> QED BY <2>1, SumEmpty
<1>2. ASSUME NEW n \in Nat, n \in A PROVE n + 1 \in A
  <2> SUFFICES ASSUME NEW T \in SUBSET S, Cardinality(T) <= n + 1 PROVE Good(T)
    OBVIOUS
  <2>0. \A U \in SUBSET S : Cardinality(U) <= n => Good(U)
    BY <1>2
  <2>1. CASE T = {}
    BY <2>1, SumEmpty
  <2>2. CASE T # {}
    <3> DEFINE y == CHOOSE y \in T : TRUE
    <3>1. y \in T
      BY <2>2
    <3>2. \A x \in T : T \ {x} \in SUBSET S /\ Cardinality(T \ {x}) <= n
      <4> TAKE x \in T
      <4>1. Cardinality(T \ {x}) = Cardinality(T) - 1
        BY <1>0, FS_RemoveElement
      <4> QED BY <1>0, <4>1
    <3>3. Sum(T) = f[y] + Sum(T \ {y})
      BY <1>0, <2>2, SumStep
    <3> HIDE DEF y, Sum
    <3>4. \A x \in T : Good(T \ {x})
      BY <2>0, <3>2
    <3>5. Sum(T) \in Int
      BY <3>1, <3>3, <3>4
    <3>6. ASSUME NEW x \in T, x # y PROVE Sum(T) = f[x] + Sum(T \ {x})
      <4>1. x \in T \ {y} /\ y \in T \ {x} /\ (T \ {y}) \ {x} = (T \ {x}) \ {y}
        BY <3>1, <3>6
      <4>2. Sum(T \ {y}) = f[x] + Sum((T \ {y}) \ {x})
        BY <3>1, <3>4, <4>1
      <4>3. Sum(T \ {x}) = f[y] + Sum((T \ {y}) \ {x})
        BY <3>4, <4>1
      <4>4. Sum(T \ {x}) \in Int /\ Sum(T \ {y}) \in Int /\ f[x] \in Int /\ f[y] \in Int
        BY <3>1, <3>4
      <4>5. Sum((T \ {y}) \ {x}) \in Int
        <5>1. (T \ {y}) \ {x} \in SUBSET S /\ Cardinality((T \ {y}) \ {x}) <= n
          <6>1. Cardinality((T \ {y}) \ {x}) = Cardinality(T \ {y}) - 1
            <7>1. IsFiniteSet(T \ {y})
              BY <1>0
            <7> QED BY <4>1, <7>1, FS_RemoveElement
          <6>2. Cardinality(T \ {y}) \in Int /\ T \ {y} \in SUBSET S
            BY <1>0
          <6> QED BY <3>1, <3>2, <6>1, <6>2
        <5> QED BY <2>0, <5>1
      <4> QED BY <3>3, <4>2, <4>3, <4>4, <4>5
    <3> QED BY <3>3, <3>5, <3>6
  <2> QED BY <2>1, <2>2
<1> HIDE DEF A
<1>3. Nat \subseteq A
  BY <1>1, <1>2, SetInduction
<1>4. Cardinality(S) \in A /\ S \in SUBSET S /\ Cardinality(S) <= Cardinality(S)
  BY <1>0, <1>3
<1>5. Good(S)
  BY <1>4 DEF A
<1> QED BY <1>5

LEMMA SumAdd ==
    ASSUME NEW f, NEW S, IsFiniteSet(S), NEW x, x \notin S, \A y \in S \cup {x} : f[y] \in Int
    PROVE  SumFunctionOnSet(f, S \cup {x}) = f[x] + SumFunctionOnSet(f, S)
<1>1. IsFiniteSet(S \cup {x}) /\ (S \cup {x}) \ {x} = S
  BY FS_AddElement
<1> QED BY <1>1, SumSplit

\* Sums of the same summands, told apart by other names.
LEMMA SumRenamed ==
    ASSUME NEW f, NEW g, NEW S, IsFiniteSet(S), NEW h,
           \A x \in S : f[x] \in Int /\ g[h[x]] = f[x],
           \A x, y \in S : h[x] = h[y] => x = y
    PROVE  SumFunctionOnSet(g, {h[x] : x \in S}) = SumFunctionOnSet(f, S)
<1> DEFINE Image(T) == {h[x] : x \in T}
           A == {T \in SUBSET S :
                    /\ IsFiniteSet(T) /\ IsFiniteSet(Image(T))
                    /\ SumFunctionOnSet(g, Image(T)) = SumFunctionOnSet(f, T)}
<1>1. {} \in A
  <2>1. Image({}) = {}
    OBVIOUS
  <2>2. SumFunctionOnSet(g, {}) = 0 /\ SumFunctionOnSet(f, {}) = 0
    BY SumEmpty
  <2> HIDE DEF Image
  <2> QED BY <2>1, <2>2, FS_EmptySet
<1>2. ASSUME NEW T \in SUBSET S, NEW x \in S \ T, T \in A PROVE T \cup {x} \in A
  <2>1. Image(T \cup {x}) = Image(T) \cup {h[x]}
    OBVIOUS
  <2>2. h[x] \notin Image(T)
    OBVIOUS
  <2>3. \A y \in Image(T) \cup {h[x]} : g[y] \in Int
    OBVIOUS
  <2>4. \A y \in T \cup {x} : f[y] \in Int
    OBVIOUS
  <2>5. /\ IsFiniteSet(T) /\ IsFiniteSet(Image(T))
        /\ SumFunctionOnSet(g, Image(T)) = SumFunctionOnSet(f, T)
    BY <1>2
  <2> HIDE DEF Image
  <2>6. SumFunctionOnSet(g, Image(T) \cup {h[x]}) = g[h[x]] + SumFunctionOnSet(g, Image(T))
    BY <2>2, <2>3, <2>5, SumAdd
  <2>7. SumFunctionOnSet(f, T \cup {x}) = f[x] + SumFunctionOnSet(f, T)
    BY <2>4, <2>5, SumAdd
  <2>8. IsFiniteSet(T \cup {x}) /\ IsFiniteSet(Image(T \cup {x}))
    <3>1. IsFiniteSet(Image(T) \cup {h[x]})
      BY <2>5, FS_AddElement
    <3>2. IsFiniteSet(T \cup {x})
      BY <2>5, FS_AddElement
    <3> QED BY <2>1, <3>1, <3>2
  <2>9. T \cup {x} \in SUBSET S
    OBVIOUS
  <2> QED BY <2>1, <2>5, <2>6, <2>7, <2>8, <2>9
<1> HIDE DEF A
<1>3. S \in A
  BY <1>1, <1>2, FiniteInduction
<1> QED BY <1>3 DEF A

\* The same, for the summands of S that h finds in T under other names.
Renaming(f, S, g, T, h) ==
    /\ \A x \in S : f[x] \in Int /\ h[x] \in T /\ g[h[x]] = f[x]
    /\ \A x, y \in S : h[x] = h[y] => x = y
    /\ \A y \in T : \E x \in S : y = h[x]

LEMMA SumMapped ==
    ASSUME NEW f, NEW g, NEW S, IsFiniteSet(S), NEW T, NEW h, Renaming(f, S, g, T, h)
    PROVE  SumFunctionOnSet(g, T) = SumFunctionOnSet(f, S)
<1>1. \A x \in S : f[x] \in Int /\ g[h[x]] = f[x]
  BY DEF Renaming
<1>2. \A x, y \in S : h[x] = h[y] => x = y
  BY DEF Renaming
<1>3. SumFunctionOnSet(g, {h[x] : x \in S}) = SumFunctionOnSet(f, S)
  BY <1>1, <1>2, SumRenamed
<1>4. T = {h[x] : x \in S}
  BY DEF Renaming
<1> QED BY <1>3, <1>4

\* Sums of the same summands.
LEMMA SumSame ==
    ASSUME NEW f, NEW g, NEW S, IsFiniteSet(S), \A x \in S : f[x] \in Int /\ g[x] = f[x]
    PROVE  SumFunctionOnSet(g, S) = SumFunctionOnSet(f, S)
<1> DEFINE h == [x \in S |-> x]
<1>1. {h[x] : x \in S} = S
  OBVIOUS
<1>2. \A x \in S : f[x] \in Int /\ g[h[x]] = f[x]
  OBVIOUS
<1>3. \A x, y \in S : h[x] = h[y] => x = y
  OBVIOUS
<1> HIDE DEF h
<1>4. SumFunctionOnSet(g, {h[x] : x \in S}) = SumFunctionOnSet(f, S)
  BY <1>2, <1>3, SumRenamed
<1> QED BY <1>1, <1>4

\* Sums that differ in one summand.
LEMMA SumChanged ==
    ASSUME NEW f, NEW g, NEW S, IsFiniteSet(S), NEW x \in S,
           \A y \in S : f[y] \in Int /\ g[y] \in Int,
           \A y \in S \ {x} : g[y] = f[y]
    PROVE  SumFunctionOnSet(g, S) = SumFunctionOnSet(f, S) + g[x] - f[x]
<1>1. IsFiniteSet(S \ {x})
  BY FS_RemoveElement
<1>2. SumFunctionOnSet(g, S \ {x}) = SumFunctionOnSet(f, S \ {x})
  BY <1>1, SumSame
<1>3. SumFunctionOnSet(f, S) = f[x] + SumFunctionOnSet(f, S \ {x})
  BY SumSplit
<1>4. SumFunctionOnSet(g, S) = g[x] + SumFunctionOnSet(g, S \ {x})
  BY SumSplit
<1>5. SumFunctionOnSet(f, S \ {x}) \in Int
  BY <1>1, SumSplit
<1>6. f[x] \in Int /\ g[x] \in Int
  OBVIOUS
<1> QED BY <1>2, <1>3, <1>4, <1>5, <1>6

\* A sum of natural numbers, which is positive if some of them is.
LEMMA SumNatural ==
    ASSUME NEW f, NEW S, IsFiniteSet(S), \A x \in S : f[x] \in Nat
    PROVE  /\ SumFunctionOnSet(f, S) \in Nat
           /\ \A x \in S : SumFunctionOnSet(f, S) >= f[x]
           /\ SumFunctionOnSet(f, S) > 0 => \E x \in S : f[x] > 0
<1> DEFINE A == {T \in SUBSET S :
                    /\ IsFiniteSet(T)
                    /\ SumFunctionOnSet(f, T) \in Nat
                    /\ SumFunctionOnSet(f, T) > 0 => \E x \in T : f[x] > 0}
<1>1. {} \in A
  BY SumEmpty, FS_EmptySet
<1>2. ASSUME NEW T \in SUBSET S, NEW x \in S \ T, T \in A PROVE T \cup {x} \in A
  <2>1. SumFunctionOnSet(f, T \cup {x}) = f[x] + SumFunctionOnSet(f, T)
    BY <1>2, SumAdd
  <2>2. IsFiniteSet(T \cup {x})
    BY <1>2, FS_AddElement
  <2>3. f[x] \in Nat /\ SumFunctionOnSet(f, T) \in Nat
    BY <1>2
  <2>4. f[x] > 0 \/ SumFunctionOnSet(f, T \cup {x}) = SumFunctionOnSet(f, T)
    BY <2>1, <2>3
  <2> QED BY <1>2, <2>1, <2>2, <2>3, <2>4
<1>3. ASSUME NEW T \in SUBSET S PROVE T \in A
  <2>1. IsFiniteSet(T)
    BY FS_Subset
  <2>2. \A U \in SUBSET T : \A x \in T \ U : U \in A => U \cup {x} \in A
    BY <1>2
  <2> HIDE DEF A
  <2> QED BY <1>1, <2>1, <2>2, FiniteInduction
<1>4. ASSUME NEW x \in S PROVE SumFunctionOnSet(f, S) >= f[x]
  <2>1. SumFunctionOnSet(f, S) = f[x] + SumFunctionOnSet(f, S \ {x})
    BY SumSplit
  <2>2. SumFunctionOnSet(f, S \ {x}) \in Nat
    BY <1>3
  <2>3. f[x] \in Nat
    OBVIOUS
  <2> QED BY <2>1, <2>2, <2>3
<1>5. S \in A
  BY <1>3
<1> QED BY <1>4, <1>5

\* A smaller sum over a smaller set.
LEMMA SumSmaller ==
    ASSUME NEW f, NEW S, IsFiniteSet(S), NEW T \in SUBSET S, \A x \in S : f[x] \in Nat
    PROVE  SumFunctionOnSet(f, T) <= SumFunctionOnSet(f, S)
<1> DEFINE A == {U \in SUBSET (S \ T) :
                    /\ IsFiniteSet(T \cup U)
                    /\ SumFunctionOnSet(f, T) <= SumFunctionOnSet(f, T \cup U)}
<1>0. IsFiniteSet(T) /\ SumFunctionOnSet(f, T) \in Nat
  <2>1. IsFiniteSet(T)
    BY FS_Subset
  <2> QED BY <2>1, SumNatural
<1>1. {} \in A
  BY <1>0
<1>2. ASSUME NEW U \in SUBSET (S \ T), NEW x \in (S \ T) \ U, U \in A PROVE U \cup {x} \in A
  <2> DEFINE V == T \cup U
  <2>1. T \cup (U \cup {x}) = V \cup {x} /\ x \notin V /\ \A y \in V \cup {x} : f[y] \in Nat
    OBVIOUS
  <2>2. IsFiniteSet(V) /\ SumFunctionOnSet(f, T) <= SumFunctionOnSet(f, V)
    BY <1>2
  <2>3. U \cup {x} \in SUBSET (S \ T)
    OBVIOUS
  <2> HIDE DEF V
  <2>4. SumFunctionOnSet(f, V \cup {x}) = f[x] + SumFunctionOnSet(f, V)
    BY <2>1, <2>2, SumAdd
  <2>5. SumFunctionOnSet(f, V) \in Nat /\ f[x] \in Nat
    BY <2>1, <2>2, SumNatural
  <2>6. IsFiniteSet(V \cup {x})
    BY <2>2, FS_AddElement
  <2> QED BY <1>0, <2>1, <2>2, <2>3, <2>4, <2>5, <2>6
<1>3. S \ T \in A
  <2>1. IsFiniteSet(S \ T)
    BY FS_Subset
  <2> HIDE DEF A
  <2> QED BY <1>1, <1>2, <2>1, FiniteInduction
<1>4. T \cup (S \ T) = S
  OBVIOUS
<1> QED BY <1>3, <1>4

-----------------------------------------------------------------------------
(* What the things in a cylinder count for.                                *)

Items == [kind : AnyKind, n : Nat]
Weights == [AnyKind -> Nat]
Value(e, w) == w[e.kind] * e.n

LEMMA ValueNatural ==
    ASSUME NEW e \in Items, NEW w \in Weights
    PROVE  Value(e, w) \in Nat
<1>1. w[e.kind] \in Nat /\ e.n \in Nat
  BY DEF Items, Weights
<1> QED BY <1>1 DEF Value

LEMMA RemoveAtIs ==
    ASSUME NEW T, NEW s \in Seq(T), NEW i \in DOMAIN s
    PROVE  /\ RemoveAt(s, i) \in Seq(T)
           /\ Len(RemoveAt(s, i)) = Len(s) - 1
           /\ \A j \in DOMAIN RemoveAt(s, i) :
                RemoveAt(s, i)[j] = s[IF j < i THEN j ELSE j + 1]
<1>1. i \in 1..Len(s) /\ Len(s) \in Nat
  OBVIOUS
<1>2. SubSeq(s, 1, i - 1) \in Seq(T) /\ SubSeq(s, i + 1, Len(s)) \in Seq(T)
  BY <1>1
<1>3. Len(SubSeq(s, 1, i - 1)) = i - 1 /\ Len(SubSeq(s, i + 1, Len(s))) = Len(s) - i
  BY <1>1
<1>4. \A j \in 1..(i - 1) : SubSeq(s, 1, i - 1)[j] = s[j]
  BY <1>1
<1>5. \A j \in 1..(Len(s) - i) : SubSeq(s, i + 1, Len(s))[j] = s[i + j]
  BY <1>1
<1> DEFINE a == SubSeq(s, 1, i - 1)
           b == SubSeq(s, i + 1, Len(s))
<1>6. RemoveAt(s, i) = a \o b
  BY DEF RemoveAt
<1> HIDE DEF a, b
<1>7. a \in Seq(T) /\ b \in Seq(T) /\ Len(a) = i - 1 /\ Len(b) = Len(s) - i
  BY <1>2, <1>3 DEF a, b
<1>8. a \o b \in Seq(T) /\ Len(a \o b) = Len(s) - 1
  BY <1>1, <1>7
<1>9. ASSUME NEW j \in 1..(Len(s) - 1) PROVE (a \o b)[j] = s[IF j < i THEN j ELSE j + 1]
  <2>1. CASE j < i
    <3>1. j \in 1..(i - 1) /\ (a \o b)[j] = a[j]
      BY <1>1, <1>7, <2>1
    <3> QED BY <1>4, <2>1, <3>1 DEF a
  <2>2. CASE ~(j < i)
    <3>1. j - (i - 1) \in 1..(Len(s) - i) /\ (a \o b)[j] = b[j - (i - 1)]
      BY <1>1, <1>7, <2>2
    <3>2. i + (j - (i - 1)) = j + 1
      BY <1>1
    <3>3. b[j - (i - 1)] = s[i + (j - (i - 1))]
      BY <1>5, <3>1 DEF b
    <3> QED BY <2>2, <3>1, <3>2, <3>3
  <2> QED BY <2>1, <2>2
<1>10. DOMAIN (a \o b) = 1..(Len(s) - 1)
  BY <1>8
<1> QED BY <1>6, <1>8, <1>9, <1>10

LEMMA PrependIs ==
    ASSUME NEW T, NEW s \in Seq(T), NEW e \in T
    PROVE  /\ <<e>> \o s \in Seq(T)
           /\ Len(<<e>> \o s) = Len(s) + 1
           /\ (<<e>> \o s)[1] = e
           /\ \A j \in DOMAIN s : (<<e>> \o s)[j + 1] = s[j]
OBVIOUS

LEMMA WeightIs ==
    ASSUME NEW s \in Seq(Items), NEW w \in Weights
    PROVE  /\ Weight(s, w) = SumFunctionOnSet([i \in DOMAIN s |-> Value(s[i], w)], DOMAIN s)
           /\ IsFiniteSet(DOMAIN s)
           /\ \A i \in DOMAIN s : Value(s[i], w) \in Nat
<1>1. DOMAIN s = 1..Len(s) /\ Len(s) \in Nat /\ \A i \in DOMAIN s : s[i] \in Items
  OBVIOUS
<1>2. IsFiniteSet(1..Len(s))
  BY <1>1, FS_Interval
<1>3. \A i \in DOMAIN s : Value(s[i], w) \in Nat
  BY <1>1, ValueNatural
<1> QED BY <1>1, <1>2, <1>3 DEF Weight, SumFunction, Value

LEMMA WeightNatural ==
    ASSUME NEW s \in Seq(Items), NEW w \in Weights
    PROVE  /\ Weight(s, w) \in Nat
           /\ \A i \in DOMAIN s : Weight(s, w) >= Value(s[i], w)
           /\ Weight(s, w) > 0 => \E i \in DOMAIN s : Value(s[i], w) > 0
<1> DEFINE f == [i \in DOMAIN s |-> Value(s[i], w)]
<1>1. Weight(s, w) = SumFunctionOnSet(f, DOMAIN s) /\ IsFiniteSet(DOMAIN s)
  BY WeightIs
<1>2. \A i \in DOMAIN s : f[i] \in Nat /\ f[i] = Value(s[i], w)
  BY WeightIs
<1> HIDE DEF f
<1> QED BY <1>1, <1>2, SumNatural

LEMMA WeightPrepended ==
    ASSUME NEW s \in Seq(Items), NEW e \in Items, NEW w \in Weights
    PROVE  Weight(<<e>> \o s, w) = Weight(s, w) + Value(e, w)
<1> DEFINE t == <<e>> \o s
           f == [i \in DOMAIN s |-> Value(s[i], w)]
           g == [i \in DOMAIN t |-> Value(t[i], w)]
           h == [i \in DOMAIN s |-> i + 1]
<1>1. /\ t \in Seq(Items) /\ Len(t) = Len(s) + 1 /\ t[1] = e
      /\ \A j \in DOMAIN s : t[j + 1] = s[j]
  BY PrependIs
<1>2. Weight(s, w) = SumFunctionOnSet(f, DOMAIN s) /\ IsFiniteSet(DOMAIN s)
  BY WeightIs
<1> HIDE DEF t
<1>3. Weight(t, w) = SumFunctionOnSet(g, DOMAIN t) /\ IsFiniteSet(DOMAIN t)
  BY <1>1, WeightIs
<1>4. \A i \in DOMAIN t : g[i] \in Nat
  BY <1>1, WeightIs
<1>5. g[1] = Value(e, w) /\ 1 \in DOMAIN t
  BY <1>1
<1>6. /\ \A x \in DOMAIN s : h[x] \in DOMAIN t \ {1}
      /\ \A y \in DOMAIN t \ {1} : \E x \in DOMAIN s : y = h[x]
  <2>1. \A x \in DOMAIN s : h[x] \in DOMAIN t \ {1}
    BY <1>1
  <2>2. ASSUME NEW y \in DOMAIN t \ {1} PROVE \E x \in DOMAIN s : y = h[x]
    <3>1. y - 1 \in DOMAIN s /\ h[y - 1] = y
      BY <1>1
    <3> QED BY <3>1
  <2> QED BY <2>1, <2>2
<1>7. \A x \in DOMAIN s : f[x] \in Int /\ g[h[x]] = f[x]
  <2> TAKE x \in DOMAIN s
  <2>1. f[x] \in Nat
    BY WeightIs
  <2>2. h[x] = x + 1 /\ x + 1 \in DOMAIN t
    BY <1>1
  <2> QED BY <1>1, <2>1, <2>2
<1>8. \A x, y \in DOMAIN s : h[x] = h[y] => x = y
  OBVIOUS
<1> HIDE DEF f, g, h
<1>9. SumFunctionOnSet(g, DOMAIN t \ {1}) = SumFunctionOnSet(f, DOMAIN s)
  <2>1. Renaming(f, DOMAIN s, g, DOMAIN t \ {1}, h)
    BY <1>6, <1>7, <1>8 DEF Renaming
  <2> QED BY <1>2, <2>1, SumMapped
<1>10. SumFunctionOnSet(g, DOMAIN t) = g[1] + SumFunctionOnSet(g, DOMAIN t \ {1})
  BY <1>3, <1>4, <1>5, SumSplit
<1>11. Weight(s, w) \in Nat /\ Value(e, w) \in Nat
  BY WeightNatural, ValueNatural
<1> QED BY <1>2, <1>3, <1>5, <1>9, <1>10, <1>11 DEF t

LEMMA WeightRemoved ==
    ASSUME NEW s \in Seq(Items), NEW i \in DOMAIN s, NEW w \in Weights
    PROVE  Weight(RemoveAt(s, i), w) = Weight(s, w) - Value(s[i], w)
<1> DEFINE t == RemoveAt(s, i)
           f == [j \in DOMAIN s |-> Value(s[j], w)]
           g == [j \in DOMAIN t |-> Value(t[j], w)]
           h == [j \in DOMAIN t |-> IF j < i THEN j ELSE j + 1]
<1>1. /\ t \in Seq(Items) /\ Len(t) = Len(s) - 1
      /\ \A j \in DOMAIN t : t[j] = s[IF j < i THEN j ELSE j + 1]
  BY RemoveAtIs
<1>2. Weight(s, w) = SumFunctionOnSet(f, DOMAIN s) /\ IsFiniteSet(DOMAIN s)
  BY WeightIs
<1> HIDE DEF t
<1>3. Weight(t, w) = SumFunctionOnSet(g, DOMAIN t) /\ IsFiniteSet(DOMAIN t)
  BY <1>1, WeightIs
<1>4. \A j \in DOMAIN t : g[j] \in Nat
  BY <1>1, WeightIs
<1>5. \A j \in DOMAIN s : f[j] \in Nat /\ f[j] = Value(s[j], w)
  BY WeightIs
<1>6. {h[x] : x \in DOMAIN t} = DOMAIN s \ {i}
  <2>1. \A x \in DOMAIN t : h[x] \in DOMAIN s \ {i}
    BY <1>1
  <2>2. ASSUME NEW y \in DOMAIN s \ {i} PROVE y \in {h[x] : x \in DOMAIN t}
    <3>1. CASE y < i
      <4>1. y \in DOMAIN t /\ h[y] = y
        BY <1>1, <3>1
      <4> QED BY <4>1
    <3>2. CASE ~(y < i)
      <4>1. y - 1 \in DOMAIN t /\ h[y - 1] = y
        BY <1>1, <3>2
      <4> QED BY <4>1
    <3> QED BY <3>1, <3>2
  <2> QED BY <2>1, <2>2
<1>7. \A x \in DOMAIN t : g[x] \in Int /\ f[h[x]] = g[x]
  <2> TAKE x \in DOMAIN t
  <2>1. h[x] \in DOMAIN s /\ t[x] = s[h[x]]
    BY <1>1
  <2> HIDE DEF h
  <2> QED BY <1>4, <2>1
<1>8. \A x, y \in DOMAIN t : h[x] = h[y] => x = y
  BY <1>1
<1> HIDE DEF f, g, h
<1>9. SumFunctionOnSet(f, DOMAIN s \ {i}) = SumFunctionOnSet(g, DOMAIN t)
  BY <1>3, <1>6, <1>7, <1>8, SumRenamed
<1>10. SumFunctionOnSet(f, DOMAIN s) = f[i] + SumFunctionOnSet(f, DOMAIN s \ {i})
  BY <1>2, <1>5, SumSplit
<1>11. Weight(t, w) \in Nat /\ Value(s[i], w) \in Nat
  BY <1>1, <1>5, WeightNatural
<1> QED BY <1>2, <1>3, <1>5, <1>9, <1>10, <1>11 DEF t

LEMMA WeightPut ==
    ASSUME NEW s \in Seq(Items), NEW i \in DOMAIN s, NEW e \in Items, NEW w \in Weights
    PROVE  /\ [s EXCEPT ![i] = e] \in Seq(Items)
           /\ Weight([s EXCEPT ![i] = e], w) = Weight(s, w) + Value(e, w) - Value(s[i], w)
<1> DEFINE t == [s EXCEPT ![i] = e]
           f == [j \in DOMAIN s |-> Value(s[j], w)]
           g == [j \in DOMAIN t |-> Value(t[j], w)]
<1>1. /\ t \in Seq(Items) /\ DOMAIN t = DOMAIN s /\ t[i] = e
      /\ \A j \in DOMAIN s \ {i} : t[j] = s[j]
  OBVIOUS
<1>2. Weight(s, w) = SumFunctionOnSet(f, DOMAIN s) /\ IsFiniteSet(DOMAIN s)
  BY WeightIs
<1> HIDE DEF t
<1>3. Weight(t, w) = SumFunctionOnSet(g, DOMAIN s)
  BY <1>1, WeightIs
<1>4. \A j \in DOMAIN s : f[j] \in Nat /\ g[j] \in Nat
  BY <1>1, WeightIs
<1>5. /\ g[i] = Value(e, w) /\ f[i] = Value(s[i], w)
      /\ \A j \in DOMAIN s \ {i} : g[j] = f[j]
  BY <1>1
<1> HIDE DEF f, g
<1>6. SumFunctionOnSet(g, DOMAIN s) = SumFunctionOnSet(f, DOMAIN s) + g[i] - f[i]
  BY <1>2, <1>4, <1>5, SumChanged
<1> QED BY <1>1, <1>2, <1>3, <1>5, <1>6 DEF t

LEMMA CylinderFinite == IsFiniteSet(Cylinder)
<1>1. IsFiniteSet(Bag)
  BY InventoryAssumption
<1>2. IsFiniteSet(Bag \cup {Player})
  BY <1>1, FS_AddElement
<1>3. IsFiniteSet((Bag \cup {Player}) \cup {Ground})
  BY <1>2, FS_AddElement
<1>4. Cylinder = (Bag \cup {Player}) \cup {Ground}
  BY DEF Cylinder
<1> QED BY <1>3, <1>4

LEMMA WorldsAre == Worlds = [Cylinder -> Seq(Items)]
BY DEF Worlds, Items

\* Kinds are told apart.
LEMMA KindsAre ==
    /\ Bag \subseteq Kind /\ Plain \subseteq Kind /\ Stackable \subseteq Kind
    /\ \A k \in Kind : k # Player /\ k # Ground /\ k # "nothing" /\ k \in AnyKind
    /\ \A k \in Bag : k \in Cylinder /\ k \notin Stackable /\ k \notin Plain
    /\ \A k \in Plain : k \notin Stackable /\ k \notin Bag
    /\ \A k \in Stackable : k \notin Plain /\ k \notin Bag
    /\ "nothing" \notin Stackable /\ "nothing" \notin Bag /\ "nothing" \in AnyKind
    /\ Player \in Cylinder /\ Ground \in Cylinder /\ Player # Ground
    /\ Player \notin Bag /\ Ground \notin Bag /\ "nothing" \notin Cylinder
BY InventoryAssumption DEF Kind, AnyKind, Cylinder, Player, Ground

LEMMA OnlyIs == \A k : Only(k) \in Weights /\ \A x \in AnyKind : Only(k)[x] = IF x = k THEN 1 ELSE 0
BY DEF Only, Weights

LEMMA MoneyIs ==
    /\ Money \in Weights
    /\ \A k \in Stackable : Money[k] = Worth[k] /\ Worth[k] \in Nat /\ Worth[k] > 0
    /\ \A k \in AnyKind \ Stackable : Money[k] = 0
<1>1. \A k \in Stackable : Worth[k] \in Nat /\ Worth[k] > 0 /\ k \in AnyKind
  BY InventoryAssumption, KindsAre
<1> QED BY <1>1 DEF Money, Weights

LEMMA AmountIs ==
    ASSUME NEW S \in Worlds, NEW C \in SUBSET Cylinder, NEW w \in Weights
    PROVE  /\ Amount(S, C, w) \in Nat
           /\ IsFiniteSet(C)
           /\ \A c \in C : Amount(S, C, w) >= Weight(S[c], w)
           /\ Amount(S, C, w) > 0 => \E c \in C : Weight(S[c], w) > 0
<1> DEFINE f == [c \in Cylinder |-> Weight(S[c], w)]
<1>1. IsFiniteSet(C)
  BY CylinderFinite, FS_Subset
<1>2. \A c \in C : f[c] \in Nat /\ f[c] = Weight(S[c], w)
  BY WorldsAre, WeightNatural
<1>3. Amount(S, C, w) = SumFunctionOnSet(f, C)
  BY DEF Amount
<1> HIDE DEF f
<1> QED BY <1>1, <1>2, <1>3, SumNatural

\* What changes in one cylinder.
LEMMA AmountChanged ==
    ASSUME NEW S \in Worlds, NEW T \in Worlds, NEW c \in Cylinder,
           \A d \in Cylinder \ {c} : T[d] = S[d],
           NEW C \in SUBSET Cylinder, NEW w \in Weights
    PROVE  Amount(T, C, w) =
             IF c \in C THEN Amount(S, C, w) + Weight(T[c], w) - Weight(S[c], w)
             ELSE Amount(S, C, w)
<1> DEFINE f == [d \in Cylinder |-> Weight(S[d], w)]
           g == [d \in Cylinder |-> Weight(T[d], w)]
<1>1. IsFiniteSet(C)
  BY AmountIs
<1>2. \A d \in C : f[d] \in Nat /\ g[d] \in Nat
  BY WorldsAre, WeightNatural
<1>3. Amount(S, C, w) = SumFunctionOnSet(f, C) /\ Amount(T, C, w) = SumFunctionOnSet(g, C)
  BY DEF Amount
<1>4. f[c] = Weight(S[c], w) /\ g[c] = Weight(T[c], w)
  OBVIOUS
<1>5. \A d \in C \ {c} : g[d] = f[d]
  OBVIOUS
<1> HIDE DEF f, g
<1>6. CASE c \in C
  <2>1. SumFunctionOnSet(g, C) = SumFunctionOnSet(f, C) + g[c] - f[c]
    BY <1>1, <1>2, <1>5, <1>6, SumChanged
  <2> QED BY <1>3, <1>4, <1>6, <2>1
<1>7. CASE c \notin C
  <2>1. SumFunctionOnSet(g, C) = SumFunctionOnSet(f, C)
    BY <1>1, <1>2, <1>5, <1>7, SumSame
  <2> QED BY <1>3, <1>7, <2>1
<1> QED BY <1>6, <1>7

\* The same cylinders, whatever else there is.
LEMMA AmountSame ==
    ASSUME NEW S \in Worlds, NEW T \in Worlds, NEW C \in SUBSET Cylinder, NEW w \in Weights,
           \A d \in C : T[d] = S[d]
    PROVE  Amount(T, C, w) = Amount(S, C, w)
<1> DEFINE f == [d \in Cylinder |-> Weight(S[d], w)]
           g == [d \in Cylinder |-> Weight(T[d], w)]
<1>1. IsFiniteSet(C)
  BY AmountIs
<1>2. \A d \in C : f[d] \in Nat /\ g[d] = f[d]
  BY WorldsAre, WeightNatural
<1>3. Amount(S, C, w) = SumFunctionOnSet(f, C) /\ Amount(T, C, w) = SumFunctionOnSet(g, C)
  BY DEF Amount
<1> HIDE DEF f, g
<1> QED BY <1>1, <1>2, <1>3, SumSame

\* A world in which the cylinder c comes to hold s.
LEMMA WorldChanged ==
    ASSUME NEW S \in Worlds, NEW c \in Cylinder, NEW s \in Seq(Items)
    PROVE  /\ [S EXCEPT ![c] = s] \in Worlds
           /\ [S EXCEPT ![c] = s][c] = s
           /\ \A d \in Cylinder \ {c} : [S EXCEPT ![c] = s][d] = S[d]
BY WorldsAre

LEMMA ThingIs ==
    ASSUME NEW S \in Worlds, NEW c \in Cylinder, NEW i \in DOMAIN S[c]
    PROVE  /\ S[c] \in Seq(Items) /\ S[c][i] \in Items
           /\ S[c][i].kind \in AnyKind /\ S[c][i].n \in Nat
           /\ S[c][i] = [kind |-> S[c][i].kind, n |-> S[c][i].n]
<1>1. S[c] \in Seq(Items) /\ S[c][i] \in Items
  BY WorldsAre
<1> QED BY <1>1 DEF Items

-----------------------------------------------------------------------------
(* The three changes all others are made of.                               *)

LEMMA Times ==
    \A a, b, c \in Int :
        /\ a * (b + c) = a * b + a * c
        /\ a * (-b) = -(a * b)
        /\ a * b \in Int
OBVIOUS

\* From S to T, m of the kind k come into the cylinder c.
Comes(S, T, c, k, m) ==
    /\ T \in Worlds
    /\ \A d \in Cylinder \ {c} : T[d] = S[d]
    /\ \A C \in SUBSET Cylinder, w \in Weights :
            Amount(T, C, w) = Amount(S, C, w) + IF c \in C THEN w[k] * m ELSE 0

\* A stack of another height.
LEMMA GrownIs ==
    ASSUME NEW S \in Worlds, NEW c \in Cylinder, NEW i \in DOMAIN S[c], NEW m \in Int,
           S[c][i].n + m \in Nat
    PROVE  /\ Comes(S, Grown(S, c, i, m), c, S[c][i].kind, m)
           /\ Grown(S, c, i, m)[c] = [S[c] EXCEPT ![i] = Thing(@.kind, @.n + m)]
<1> DEFINE e == S[c][i]
           f == Thing(e.kind, e.n + m)
           t == [S[c] EXCEPT ![i] = f]
           T == [S EXCEPT ![c] = t]
<1>1. e \in Items /\ S[c] \in Seq(Items) /\ e.n \in Nat /\ e.kind \in AnyKind
  BY ThingIs
<1>2. f \in Items
  BY <1>1 DEF Items, Thing
<1>3. t \in Seq(Items)
  BY <1>1, <1>2
<1>4. Grown(S, c, i, m) = T
  <2>1. [e EXCEPT !.n = @ + m] = f
    BY <1>1 DEF Items, Thing
  <2> QED BY <2>1 DEF Grown
<1> HIDE DEF t
<1>5. T \in Worlds /\ T[c] = t /\ \A d \in Cylinder \ {c} : T[d] = S[d]
  BY <1>3, WorldChanged
<1>6. ASSUME NEW C \in SUBSET Cylinder, NEW w \in Weights
      PROVE  Amount(T, C, w) = Amount(S, C, w) + IF c \in C THEN w[e.kind] * m ELSE 0
  <2>1. Weight(t, w) = Weight(S[c], w) + Value(f, w) - Value(e, w)
    <3> HIDE DEF f
    <3> QED BY <1>1, <1>2, WeightPut DEF t
  <2>2. w[e.kind] \in Nat
    BY <1>1 DEF Weights
  <2>3. Value(f, w) = Value(e, w) + w[e.kind] * m /\ w[e.kind] * m \in Int
    <3>1. Value(f, w) = w[e.kind] * (e.n + m) /\ Value(e, w) = w[e.kind] * e.n
      BY DEF Value, Thing
    <3> QED BY <1>1, <2>2, <3>1, Times
  <2>4. /\ Amount(S, C, w) \in Nat /\ Weight(t, w) \in Nat /\ Weight(S[c], w) \in Nat
        /\ Value(e, w) \in Nat
    BY <1>1, <1>3, AmountIs, WeightNatural, ValueNatural
  <2> HIDE DEF T
  <2>5. Amount(T, C, w) = IF c \in C THEN Amount(S, C, w) + Weight(T[c], w) - Weight(S[c], w)
                          ELSE Amount(S, C, w)
    BY <1>5, AmountChanged
  <2> QED BY <1>5, <2>1, <2>3, <2>4, <2>5
<1> HIDE DEF T
<1> QED BY <1>4, <1>5, <1>6 DEF t, Comes

\* What is gone when n of the thing e are taken.
Gone(e, n) == IF e.kind \in Stackable THEN n ELSE e.n

LEMMA TakeOutIs ==
    ASSUME NEW S \in Worlds, NEW c \in Cylinder, NEW i \in DOMAIN S[c], NEW n \in Nat,
           S[c][i].kind \in Stackable => n <= S[c][i].n
    PROVE  Comes(S, TakeOut(S, c, i, n), c, S[c][i].kind, -Gone(S[c][i], n))
<1> DEFINE e == S[c][i]
           Becomes(t, v) == /\ t \in Seq(Items)
                            /\ \A w \in Weights : Weight(t, w) = Weight(S[c], w) - v[w]
<1>1. e \in Items /\ S[c] \in Seq(Items) /\ e.n \in Nat /\ e.kind \in AnyKind
  BY ThingIs
<1>2. CASE e.kind \in Stackable /\ n # e.n
  <2> DEFINE m == -n
  <2>1. S[c][i].n + m \in Nat /\ m \in Int
    BY <1>1, <1>2
  <2>2. TakeOut(S, c, i, n) = Grown(S, c, i, m) /\ -Gone(e, n) = m
    BY <1>2 DEF TakeOut, Gone
  <2> HIDE DEF m
  <2>3. Comes(S, Grown(S, c, i, m), c, S[c][i].kind, m)
    BY <2>1, GrownIs
  <2> QED BY <2>2, <2>3
<1>3. CASE ~(e.kind \in Stackable /\ n # e.n)
  <2> DEFINE t == IF c = Player THEN [S[c] EXCEPT ![i] = Nothing] ELSE RemoveAt(S[c], i)
             T == [S EXCEPT ![c] = t]
  <2>1. TakeOut(S, c, i, n) = T /\ Gone(e, n) = e.n
    BY <1>3 DEF TakeOut, Gone
  <2>2. Nothing \in Items /\ \A w \in Weights : Value(Nothing, w) = 0
    <3>1. Nothing \in Items /\ Nothing.kind = "nothing" /\ Nothing.n = 0
      BY KindsAre DEF Nothing, Thing, Items
    <3>2. \A w \in Weights : w["nothing"] \in Nat
      BY KindsAre DEF Weights
    <3> QED BY <3>1, <3>2 DEF Value
  <2>3. t \in Seq(Items) /\ \A w \in Weights : Weight(t, w) = Weight(S[c], w) - Value(e, w)
    <3>1. CASE c = Player
      <4>1. ASSUME NEW w \in Weights
            PROVE  /\ [S[c] EXCEPT ![i] = Nothing] \in Seq(Items)
                   /\ Weight([S[c] EXCEPT ![i] = Nothing], w) = Weight(S[c], w) + 0 - Value(e, w)
        BY <1>1, <2>2, WeightPut
      <4>2. [S[c] EXCEPT ![i] = Nothing] \in Seq(Items)
        BY <1>1, <2>2
      <4>3. \A w \in Weights : Weight(S[c], w) \in Nat /\ Value(e, w) \in Nat
        BY <1>1, WeightNatural, ValueNatural
      <4> HIDE DEF e
      <4>4. \A w \in Weights :
              Weight([S[c] EXCEPT ![i] = Nothing], w) = Weight(S[c], w) - Value(e, w)
        BY <4>1, <4>3
      <4> QED BY <3>1, <4>2, <4>4
    <3>2. CASE c # Player
      BY <1>1, <3>2, RemoveAtIs, WeightRemoved
    <3> QED BY <3>1, <3>2
  <2> HIDE DEF t
  <2>4. T \in Worlds /\ T[c] = t /\ \A d \in Cylinder \ {c} : T[d] = S[d]
    BY <2>3, WorldChanged
  <2> HIDE DEF T
  <2>5. ASSUME NEW C \in SUBSET Cylinder, NEW w \in Weights
        PROVE  Amount(T, C, w) = Amount(S, C, w) + IF c \in C THEN w[e.kind] * (-e.n) ELSE 0
    <3>1. /\ Amount(S, C, w) \in Nat /\ Weight(t, w) \in Nat /\ Weight(S[c], w) \in Nat
          /\ Value(e, w) \in Nat
      BY <1>1, <2>3, AmountIs, WeightNatural, ValueNatural
    <3>2. Amount(T, C, w) = IF c \in C THEN Amount(S, C, w) + Weight(T[c], w) - Weight(S[c], w)
                            ELSE Amount(S, C, w)
      BY <2>4, AmountChanged
    <3>3. w[e.kind] * (-e.n) = -Value(e, w)
      <4>1. w[e.kind] \in Nat
        BY <1>1 DEF Weights
      <4>2. e.n \in Int /\ w[e.kind] \in Int
        BY <1>1, <4>1
      <4> DEFINE x == w[e.kind]
                 y == e.n
      <4> HIDE DEF x, y
      <4>3. x * (-y) = -(x * y)
        <5>1. x \in Int /\ y \in Int
          BY <4>2 DEF x, y
        <5> QED BY <5>1, Times
      <4> QED BY <4>3 DEF Value, x, y
    <3> QED BY <2>3, <2>4, <3>1, <3>2, <3>3
  <2> QED BY <2>1, <2>4, <2>5 DEF Comes
<1> QED BY <1>2, <1>3

LEMMA InsertIs ==
    ASSUME NEW S \in Worlds, NEW c \in Cylinder, NEW i, NEW e \in Items,
           c = Player => i \in DOMAIN S[Player] /\ S[Player][i] = Nothing
    PROVE  Comes(S, Insert(S, c, i, e), c, e.kind, e.n)
<1> DEFINE t == IF c = Player THEN [S[c] EXCEPT ![i] = e] ELSE <<e>> \o S[c]
           T == [S EXCEPT ![c] = t]
<1>1. S[c] \in Seq(Items)
  BY WorldsAre
<1>2. Insert(S, c, i, e) = T
  BY DEF Insert
<1>3. Nothing \in Items /\ \A w \in Weights : Value(Nothing, w) = 0
  <2>1. Nothing \in Items /\ Nothing.kind = "nothing" /\ Nothing.n = 0
    BY KindsAre DEF Nothing, Thing, Items
  <2>2. \A w \in Weights : w["nothing"] \in Nat
    BY KindsAre DEF Weights
  <2> QED BY <2>1, <2>2 DEF Value
<1>4. t \in Seq(Items) /\ \A w \in Weights : Weight(t, w) = Weight(S[c], w) + Value(e, w)
  <2>1. CASE c = Player
    <3>1. i \in DOMAIN S[c] /\ S[c][i] = Nothing
      BY <2>1
    <3>2. ASSUME NEW w \in Weights
          PROVE  Weight([S[c] EXCEPT ![i] = e], w) =
                   Weight(S[c], w) + Value(e, w) - Value(S[c][i], w)
      BY <1>1, <3>1, WeightPut
    <3>3. [S[c] EXCEPT ![i] = e] \in Seq(Items)
      BY <1>1, <3>1
    <3>4. \A w \in Weights : Weight(S[c], w) \in Nat /\ Value(e, w) \in Nat
      BY <1>1, WeightNatural, ValueNatural
    <3> QED BY <1>3, <2>1, <3>1, <3>2, <3>3, <3>4
  <2>2. CASE c # Player
    BY <1>1, <2>2, PrependIs, WeightPrepended
  <2> QED BY <2>1, <2>2
<1> HIDE DEF t
<1>5. T \in Worlds /\ T[c] = t /\ \A d \in Cylinder \ {c} : T[d] = S[d]
  BY <1>4, WorldChanged
<1> HIDE DEF T
<1>6. ASSUME NEW C \in SUBSET Cylinder, NEW w \in Weights
      PROVE  Amount(T, C, w) = Amount(S, C, w) + IF c \in C THEN w[e.kind] * e.n ELSE 0
  <2>1. /\ Amount(S, C, w) \in Nat /\ Weight(t, w) \in Nat /\ Weight(S[c], w) \in Nat
        /\ Value(e, w) \in Nat
    BY <1>1, <1>4, AmountIs, WeightNatural, ValueNatural
  <2>2. Amount(T, C, w) = IF c \in C THEN Amount(S, C, w) + Weight(T[c], w) - Weight(S[c], w)
                          ELSE Amount(S, C, w)
    BY <1>5, AmountChanged
  <2>3. Value(e, w) = w[e.kind] * e.n
    BY DEF Value
  <2> QED BY <1>4, <1>5, <2>1, <2>2, <2>3
<1> QED BY <1>2, <1>5, <1>6 DEF Comes

-----------------------------------------------------------------------------
(* What is done again and again.                                           *)

\* One step of each recursive function of Inventory.
Round(kind, x, S, k, u, v) ==
    CASE kind = "around" -> Around(S, x)
      [] kind = "queue" -> Queued(S, x, k, u)
      [] kind = "ask" -> Ask(S, x, k, u, v)
      [] kind = "fill" -> Fill(x, k, u)
      [] kind = "give" -> Give(x, u, v)
      [] kind = "pay" -> UNION {Pay(r, S, u) : r \in x}
      [] kind = "take" -> UNION {Take(r, k, u) : r \in x}

Rounds(f, kind, x, S, k, u, v, n) ==
    f = [i \in 0..n |-> IF i = 0 THEN x ELSE Round(kind, f[i - 1], S, k, u, v)]

LEMMA RoundsExist ==
    ASSUME NEW kind, NEW x, NEW S, NEW k, NEW u, NEW v, NEW n \in Nat
    PROVE  \E f : Rounds(f, kind, x, S, k, u, v, n)
<1> DEFINE Eqn(f, m) == Rounds(f, kind, x, S, k, u, v, m)
           R(y) == Round(kind, y, S, k, u, v)
           A == {m \in Nat : \E f : Eqn(f, m)}
<1>1. 0 \in A
  <2> DEFINE f == [i \in 0..0 |-> x]
  <2>1. Eqn(f, 0)
    BY DEF Rounds
  <2> QED BY <2>1
<1>2. ASSUME NEW m \in Nat, m \in A PROVE m + 1 \in A
  <2>1. PICK f : Eqn(f, m)
    BY <1>2
  <2>0. f = [i \in 0..m |-> IF i = 0 THEN x ELSE R(f[i - 1])]
    BY <2>1 DEF Rounds
  <2> DEFINE g == [i \in 0..(m + 1) |-> IF i <= m THEN f[i] ELSE R(f[m])]
  <2> HIDE DEF R
  <2>2. ASSUME NEW i \in 0..(m + 1)
        PROVE  g[i] = IF i = 0 THEN x ELSE R(g[i - 1])
    <3>1. CASE i = 0
      BY <2>0, <3>1
    <3>2. CASE i # 0 /\ i <= m
      <4>1. i - 1 \in 0..(m + 1) /\ i - 1 <= m /\ i \in 0..m
        BY <3>2
      <4>2. g[i - 1] = f[i - 1] /\ g[i] = f[i]
        BY <4>1, <3>2
      <4>3. f[i] = R(f[i - 1])
        BY <2>0, <3>2, <4>1
      <4> QED BY <3>2, <4>2, <4>3
    <3>3. CASE i = m + 1
      <4>1. i - 1 = m /\ i # 0 /\ ~(i <= m) /\ m \in 0..(m + 1) /\ m <= m
        BY <3>3
      <4>2. g[m] = f[m] /\ g[i] = R(f[m])
        BY <4>1, <3>3
      <4> QED BY <4>1, <4>2
    <3> QED BY <3>1, <3>2, <3>3
  <2>3. g = [i \in 0..(m + 1) |-> g[i]]
    OBVIOUS
  <2> HIDE DEF g
  <2>4. Eqn(g, m + 1)
    BY <2>2, <2>3 DEF Rounds, R
  <2> QED BY <2>4
<1> HIDE DEF A
<1>3. Nat \subseteq A
  BY <1>1, <1>2, SetInduction
<1> QED BY <1>3 DEF A

LEMMA BagsCounted == Cardinality(Bag) \in Nat
BY InventoryAssumption, FS_CardinalityType

LEMMA EnclosingIs ==
    ASSUME NEW S, NEW c
    PROVE  \E f : /\ f[0] = {c}
                  /\ \A i \in 1..Cardinality(Bag) : f[i] = Around(S, f[i - 1])
                  /\ Enclosing(S, c) = f[Cardinality(Bag)]
<1> DEFINE Eqn(f) == f = [i \in 0..Cardinality(Bag) |-> IF i = 0 THEN {c} ELSE Around(S, f[i - 1])]
           chosen == CHOOSE f : Eqn(f)
<1>0. Cardinality(Bag) \in Nat
  BY BagsCounted
<1>1. \E f : Eqn(f)
  <2>1. PICK f : Rounds(f, "around", {c}, S, 0, 0, 0, Cardinality(Bag))
    BY <1>0, RoundsExist
  <2>2. Eqn(f)
    BY <2>1 DEF Rounds, Round
  <2> QED BY <2>2
<1>2. Enclosing(S, c) = chosen[Cardinality(Bag)]
  BY DEF Enclosing
<1>3. Eqn(chosen)
  <2> HIDE DEF Eqn
  <2> QED BY <1>1
<1> HIDE DEF chosen
<1>4. chosen[0] = {c}
  <2>1. 0 \in 0..Cardinality(Bag)
    BY <1>0
  <2> QED BY <1>3, <2>1
<1>5. ASSUME NEW i \in 1..Cardinality(Bag) PROVE chosen[i] = Around(S, chosen[i - 1])
  <2>1. i \in 0..Cardinality(Bag) /\ i # 0
    BY <1>0
  <2> QED BY <1>3, <2>1
<1> QED BY <1>2, <1>4, <1>5

LEMMA SearchedIs ==
    ASSUME NEW S, NEW k, NEW offered
    PROVE  \E f : /\ f[0] = <<Player>>
                  /\ \A i \in 1..Cardinality(Bag) : f[i] = Queued(S, f[i - 1], k, offered)
                  /\ Searched(S, k, offered) = f[Cardinality(Bag)]
<1> DEFINE Eqn(f) ==
               f = [i \in 0..Cardinality(Bag) |->
                   IF i = 0 THEN <<Player>>
                   ELSE Queued(S, f[i - 1], k, offered)]
           chosen == CHOOSE f : Eqn(f)
<1>0. Cardinality(Bag) \in Nat
  BY BagsCounted
<1>1. \E f : Eqn(f)
  <2>1. PICK f : Rounds(f, "queue", <<Player>>, S, k, offered, 0, Cardinality(Bag))
    BY <1>0, RoundsExist
  <2>2. Eqn(f)
    BY <2>1 DEF Rounds, Round
  <2> QED BY <2>2
<1>2. Searched(S, k, offered) = chosen[Cardinality(Bag)]
  BY DEF Searched
<1>3. Eqn(chosen)
  <2> HIDE DEF Eqn
  <2> QED BY <1>1
<1> HIDE DEF chosen
<1>4. chosen[0] = <<Player>>
  <2>1. 0 \in 0..Cardinality(Bag)
    BY <1>0
  <2> QED BY <1>3, <2>1
<1>5. ASSUME NEW i \in 1..Cardinality(Bag) PROVE chosen[i] = Queued(S, chosen[i - 1], k, offered)
  <2>1. i \in 0..Cardinality(Bag) /\ i # 0
    BY <1>0
  <2> QED BY <1>3, <2>1
<1> QED BY <1>2, <1>4, <1>5

Asked(c, i) == [c |-> c, i |-> i, target |-> 0, found |-> FALSE]

LEMMA DestinationIs ==
    ASSUME NEW S, NEW c, NEW i, NEW k, NEW self, NEW offered
    PROVE  \E f : /\ f[0] = Asked(c, i)
                  /\ \A j \in 1..(Cardinality(Bag) + 3) : f[j] = Ask(S, f[j - 1], k, self, offered)
                  /\ Destination(S, c, i, k, self, offered) = f[Cardinality(Bag) + 3]
<1> DEFINE Eqn(f) ==
               f = [j \in 0..(Cardinality(Bag) + 3) |->
                   IF j = 0 THEN Asked(c, i)
                   ELSE Ask(S, f[j - 1], k, self, offered)]
           chosen == CHOOSE f : Eqn(f)
<1>0. (Cardinality(Bag) + 3) \in Nat
  BY BagsCounted
<1>1. \E f : Eqn(f)
  <2>1. PICK f : Rounds(f, "ask", Asked(c, i), S, k, self, offered, Cardinality(Bag) + 3)
    BY <1>0, RoundsExist
  <2>2. Eqn(f)
    BY <2>1 DEF Rounds, Round
  <2> QED BY <2>2
<1>2. Destination(S, c, i, k, self, offered) = chosen[Cardinality(Bag) + 3]
  BY DEF Destination, Asked
<1>3. Eqn(chosen)
  <2> HIDE DEF Eqn
  <2> QED BY <1>1
<1> HIDE DEF chosen
<1>4. chosen[0] = Asked(c, i)
  <2>1. 0 \in 0..(Cardinality(Bag) + 3)
    BY <1>0
  <2> QED BY <1>3, <2>1
<1>5. ASSUME NEW j \in 1..(Cardinality(Bag) + 3)
      PROVE  chosen[j] = Ask(S, chosen[j - 1], k, self, offered)
  <2>1. j \in 0..(Cardinality(Bag) + 3) /\ j # 0
    BY <1>0
  <2> QED BY <1>3, <2>1
<1> QED BY <1>2, <1>4, <1>5

Beginning(S, n) ==
    [S |-> S, left |-> n, stuck |-> FALSE, first |-> [c |-> Player, i |-> 0, n |-> 0]]

LEMMA AddedIs ==
    ASSUME NEW S, NEW k, NEW n \in Nat, NEW offered
    PROVE  \E f : /\ f[0] = Beginning(S, n)
                  /\ \A i \in 1..n : f[i] = Fill(f[i - 1], k, offered)
                  /\ Added(S, k, n, offered) = f[n]
<1> DEFINE Eqn(f) ==
               f = [i \in 0..n |->
                   IF i = 0 THEN Beginning(S, n)
                   ELSE Fill(f[i - 1], k, offered)]
           chosen == CHOOSE f : Eqn(f)
<1>0. n \in Nat
  OBVIOUS
<1>1. \E f : Eqn(f)
  <2>1. PICK f : Rounds(f, "fill", Beginning(S, n), S, k, offered, 0, n)
    BY <1>0, RoundsExist
  <2>2. Eqn(f)
    BY <2>1 DEF Rounds, Round
  <2> QED BY <2>2
<1>2. Added(S, k, n, offered) = chosen[n]
  BY DEF Added, Beginning
<1>3. Eqn(chosen)
  <2> HIDE DEF Eqn
  <2> QED BY <1>1
<1> HIDE DEF chosen
<1>4. chosen[0] = Beginning(S, n)
  <2>1. 0 \in 0..n
    BY <1>0
  <2> QED BY <1>3, <2>1
<1>5. ASSUME NEW i \in 1..n PROVE chosen[i] = Fill(chosen[i - 1], k, offered)
  <2>1. i \in 0..n /\ i # 0
    BY <1>0
  <2> QED BY <1>3, <2>1
<1> QED BY <1>2, <1>4, <1>5

Owing(S, money) == [S |-> S, owed |-> money, done |-> TRUE]

LEMMA MoneyAddedIs ==
    ASSUME NEW S, NEW money \in Nat, NEW drop, NEW offered
    PROVE  \E f : /\ f[0] = Owing(S, money)
                  /\ \A i \in 1..money : f[i] = Give(f[i - 1], drop, offered)
                  /\ MoneyAdded(S, money, drop, offered) = f[money]
<1> DEFINE Eqn(f) ==
               f = [i \in 0..money |->
                   IF i = 0 THEN Owing(S, money)
                   ELSE Give(f[i - 1], drop, offered)]
           chosen == CHOOSE f : Eqn(f)
<1>0. money \in Nat
  OBVIOUS
<1>1. \E f : Eqn(f)
  <2>1. PICK f : Rounds(f, "give", Owing(S, money), S, 0, drop, offered, money)
    BY <1>0, RoundsExist
  <2>2. Eqn(f)
    BY <2>1 DEF Rounds, Round
  <2> QED BY <2>2
<1>2. MoneyAdded(S, money, drop, offered) = chosen[money]
  BY DEF MoneyAdded, Owing
<1>3. Eqn(chosen)
  <2> HIDE DEF Eqn
  <2> QED BY <1>1
<1> HIDE DEF chosen
<1>4. chosen[0] = Owing(S, money)
  <2>1. 0 \in 0..money
    BY <1>0
  <2> QED BY <1>3, <2>1
<1>5. ASSUME NEW i \in 1..money PROVE chosen[i] = Give(chosen[i - 1], drop, offered)
  <2>1. i \in 0..money /\ i # 0
    BY <1>0
  <2> QED BY <1>3, <2>1
<1> QED BY <1>2, <1>4, <1>5

Indebted(S, money, offered) == [S |-> S, offered |-> offered, owed |-> money, done |-> TRUE]

PaidAll(f, S, savings, money, drop, offered) ==
    /\ f[0] = {Indebted(S, money, offered)}
    /\ \A i \in 1..money : f[i] = UNION {Pay(r, Purse(S), drop) : r \in f[i - 1]}
    /\ MoneyRemoved(S, savings, money, drop, offered) =
          IF Purse(S) + savings < money
          THEN {[S |-> S, savings |-> savings, done |-> FALSE]}
          ELSE {[S |-> r.S, done |-> r.done,
                 savings |-> IF r.done THEN savings - r.owed ELSE savings] :
                    r \in f[money]}

LEMMA PaidIs ==
    ASSUME NEW S, NEW savings, NEW money \in Nat, NEW drop, NEW offered
    PROVE  \E f : PaidAll(f, S, savings, money, drop, offered)
<1> DEFINE Eqn(f) ==
               f = [i \in 0..money |->
                   IF i = 0 THEN {Indebted(S, money, offered)}
                   ELSE UNION {Pay(r, Purse(S), drop) : r \in f[i - 1]}]
           chosen == CHOOSE f : Eqn(f)
<1>0. money \in Nat
  OBVIOUS
<1>1. \E f : Eqn(f)
  <2>1. PICK f : Rounds(f, "pay", {Indebted(S, money, offered)}, Purse(S), 0, drop, 0, money)
    BY <1>0, RoundsExist
  <2>2. Eqn(f)
    BY <2>1 DEF Rounds, Round
  <2> QED BY <2>2
<1>2. MoneyRemoved(S, savings, money, drop, offered) =
                        IF Purse(S) + savings < money
                        THEN {[S |-> S, savings |-> savings, done |-> FALSE]}
                        ELSE {[S |-> r.S, done |-> r.done,
                               savings |-> IF r.done THEN savings - r.owed ELSE savings] :
                                  r \in chosen[money]}
  BY DEF MoneyRemoved, Indebted
<1>3. Eqn(chosen)
  <2> HIDE DEF Eqn
  <2> QED BY <1>1
<1> HIDE DEF chosen
<1>4. chosen[0] = {Indebted(S, money, offered)}
  <2>1. 0 \in 0..money
    BY <1>0
  <2> QED BY <1>3, <2>1
<1>5. ASSUME NEW i \in 1..money
      PROVE  chosen[i] = UNION {Pay(r, Purse(S), drop) : r \in chosen[i - 1]}
  <2>1. i \in 0..money /\ i # 0
    BY <1>0
  <2> QED BY <1>3, <2>1
<1> QED BY <1>2, <1>4, <1>5 DEF PaidAll

TakenAll(f, S, k, n, onlyContainers) ==
    /\ f[0] = {[S |-> S, left |-> n]}
    /\ \A i \in 1..n : f[i] = UNION {Take(r, k, onlyContainers) : r \in f[i - 1]}
    /\ TypeRemoved(S, k, n, onlyContainers) =
          IF TypeCount(S, k) < n THEN {[S |-> S, done |-> FALSE]}
          ELSE {[S |-> r.S, done |-> r.left = 0] : r \in f[n]}

LEMMA TakenIs ==
    ASSUME NEW S, NEW k, NEW n \in Nat, NEW onlyContainers
    PROVE  \E f : TakenAll(f, S, k, n, onlyContainers)
<1> DEFINE Eqn(f) ==
               f = [i \in 0..n |->
                   IF i = 0 THEN {[S |-> S, left |-> n]}
                   ELSE UNION {Take(r, k, onlyContainers) : r \in f[i - 1]}]
           chosen == CHOOSE f : Eqn(f)
<1>0. n \in Nat
  OBVIOUS
<1>1. \E f : Eqn(f)
  <2>1. PICK f : Rounds(f, "take", {[S |-> S, left |-> n]}, 0, k, onlyContainers, 0, n)
    BY <1>0, RoundsExist
  <2>2. Eqn(f)
    BY <2>1 DEF Rounds, Round
  <2> QED BY <2>2
<1>2. TypeRemoved(S, k, n, onlyContainers) =
                        IF TypeCount(S, k) < n THEN {[S |-> S, done |-> FALSE]}
                        ELSE {[S |-> r.S, done |-> r.left = 0] : r \in chosen[n]}
  BY DEF TypeRemoved
<1>3. Eqn(chosen)
  <2> HIDE DEF Eqn
  <2> QED BY <1>1
<1> HIDE DEF chosen
<1>4. chosen[0] = {[S |-> S, left |-> n]}
  <2>1. 0 \in 0..n
    BY <1>0
  <2> QED BY <1>3, <2>1
<1>5. ASSUME NEW i \in 1..n
      PROVE  chosen[i] = UNION {Take(r, k, onlyContainers) : r \in chosen[i - 1]}
  <2>1. i \in 0..n /\ i # 0
    BY <1>0
  <2> QED BY <1>3, <2>1
<1> QED BY <1>2, <1>4, <1>5 DEF TakenAll

LEMMA SumPair ==
    ASSUME NEW f, NEW S, IsFiniteSet(S), \A x \in S : f[x] \in Nat,
           NEW x \in S, NEW y \in S, x # y
    PROVE  SumFunctionOnSet(f, S) >= f[x] + f[y]
<1>1. IsFiniteSet(S \ {x}) /\ y \in S \ {x} /\ f[x] \in Nat /\ f[y] \in Nat
  BY FS_RemoveElement
<1>2. SumFunctionOnSet(f, S) = f[x] + SumFunctionOnSet(f, S \ {x})
  BY SumSplit
<1>3. SumFunctionOnSet(f, S \ {x}) >= f[y] /\ SumFunctionOnSet(f, S \ {x}) \in Nat
  BY <1>1, SumNatural
<1> QED BY <1>1, <1>2, <1>3

LEMMA SumOne ==
    ASSUME NEW f, NEW S, IsFiniteSet(S), NEW x \in S, f[x] \in Nat, \A y \in S \ {x} : f[y] = 0
    PROVE  SumFunctionOnSet(f, S) = f[x]
<1>1. IsFiniteSet(S \ {x}) /\ \A y \in S : f[y] \in Nat
  BY FS_RemoveElement
<1>2. SumFunctionOnSet(f, S) = f[x] + SumFunctionOnSet(f, S \ {x})
  BY <1>1, SumSplit
<1>3. SumFunctionOnSet(f, S \ {x}) \in Nat
  BY <1>1, SumNatural
<1>4. ~(SumFunctionOnSet(f, S \ {x}) > 0)
  BY <1>1, SumNatural
<1> QED BY <1>2, <1>3, <1>4

-----------------------------------------------------------------------------
(* The invariant.                                                          *)

Count(S, d, k) == Weight(S[d], Only(k))

\* What is in order cylinder by cylinder.
Tidy(S) ==
    /\ S \in Worlds
    /\ \A c \in Cylinder : \A i \in DOMAIN S[c] :
        IF S[c][i] = Nothing THEN c = Player
        ELSE S[c][i].kind \in Kind /\ S[c][i].n \in Counts(S[c][i].kind)
    /\ Len(S[Player]) = Slots

\* However many bags are taken together, one of them is in something else.
Grounded(S, M) ==
    \A B \in SUBSET (Bag \ M) :
        B # {} => \E b \in B, d \in Cylinder \ B : Count(S, d, b) > 0

\* Each bag is there once, but for those of M, which are not there.
Sound(S, M) ==
    /\ Tidy(S)
    /\ \A b \in Bag : Total(S, b) = IF b \in M THEN 0 ELSE 1
    /\ Grounded(S, M)

\* What the bags of E lie in is in E.
Closed(S, E) == \A b \in E \cap Bag, d \in Cylinder : Count(S, d, b) > 0 => d \in E

LEMMA CountIs ==
    ASSUME NEW S \in Worlds, NEW d \in Cylinder, NEW w \in Weights
    PROVE  Amount(S, {d}, w) = Weight(S[d], w) /\ Weight(S[d], w) \in Nat
<1> DEFINE f == [c \in Cylinder |-> Weight(S[c], w)]
<1>1. Amount(S, {d}, w) = SumFunctionOnSet(f, {d})
  BY DEF Amount
<1>2. IsFiniteSet({d}) /\ f[d] = Weight(S[d], w)
  BY FS_Singleton
<1>3. Weight(S[d], w) \in Nat
  BY WorldsAre, WeightNatural
<1> HIDE DEF f
<1>4. SumFunctionOnSet(f, {d}) = f[d]
  BY <1>2, <1>3, SumOne
<1> QED BY <1>1, <1>2, <1>3, <1>4

LEMMA CountNatural ==
    ASSUME NEW S \in Worlds, NEW d \in Cylinder, NEW k
    PROVE  Count(S, d, k) \in Nat /\ Total(S, k) \in Nat
BY CountIs, OnlyIs, AmountIs DEF Count, Total

\* Who is counted is there.
LEMMA CountedIsThere ==
    ASSUME NEW S, Tidy(S), NEW d \in Cylinder, NEW k \in Kind
    PROVE  Count(S, d, k) > 0 <=> \E i \in DOMAIN S[d] : S[d][i].kind = k
<1>1. S \in Worlds /\ S[d] \in Seq(Items) /\ Only(k) \in Weights /\ k # "nothing"
  BY WorldsAre, OnlyIs, KindsAre DEF Tidy
<1>2. ASSUME NEW i \in DOMAIN S[d], S[d][i].kind = k
      PROVE  Count(S, d, k) > 0
  <2>1. S[d][i].kind \in AnyKind /\ S[d][i].n \in Nat
    BY <1>1, ThingIs
  <2>2. S[d][i] # Nothing
    BY <1>1, <1>2 DEF Nothing, Thing
  <2>3. S[d][i].n > 0
    BY <2>1, <2>2 DEF Tidy, Counts
  <2>4. Value(S[d][i], Only(k)) > 0
    BY <1>2, <2>1, <2>3, OnlyIs DEF Value
  <2> HIDE DEF Value
  <2>5. Weight(S[d], Only(k)) >= Value(S[d][i], Only(k)) /\ Weight(S[d], Only(k)) \in Nat
    BY <1>1, WeightNatural
  <2>6. Value(S[d][i], Only(k)) \in Nat
    BY <1>1, ThingIs, ValueNatural
  <2> QED BY <2>4, <2>5, <2>6 DEF Count
<1>3. ASSUME Count(S, d, k) > 0
      PROVE  \E i \in DOMAIN S[d] : S[d][i].kind = k
  <2>1. PICK i \in DOMAIN S[d] : Value(S[d][i], Only(k)) > 0
    BY <1>1, <1>3, WeightNatural DEF Count
  <2>2. S[d][i].kind \in AnyKind /\ S[d][i].n \in Nat
    BY <1>1, ThingIs
  <2>3. CASE S[d][i].kind # k
    <3>1. Value(S[d][i], Only(k)) = 0
      BY <2>2, <2>3, OnlyIs DEF Value
    <3> QED BY <2>1, <3>1
  <2> QED BY <2>3
<1> QED BY <1>2, <1>3

\* One is in one place only.
LEMMA OneHolder ==
    ASSUME NEW S \in Worlds, NEW k, Total(S, k) <= 1, NEW d \in Cylinder, NEW e \in Cylinder,
           Count(S, d, k) > 0, Count(S, e, k) > 0
    PROVE  d = e
<1> DEFINE f == [c \in Cylinder |-> Weight(S[c], Only(k))]
<1>1. \A c \in Cylinder : f[c] \in Nat /\ f[c] = Count(S, c, k)
  BY CountNatural DEF Count
<1>2. Total(S, k) = SumFunctionOnSet(f, Cylinder) /\ IsFiniteSet(Cylinder)
  BY CylinderFinite DEF Total, Amount
<1> HIDE DEF f
<1>3. SUFFICES ASSUME d # e PROVE FALSE
  OBVIOUS
<1>4. SumFunctionOnSet(f, Cylinder) >= f[d] + f[e]
  BY <1>1, <1>2, <1>3, SumPair
<1>5. f[d] \in Nat /\ f[e] \in Nat /\ f[d] > 0 /\ f[e] > 0 /\ Total(S, k) \in Nat
  BY <1>1, CountNatural
<1> QED BY <1>2, <1>4, <1>5

LEMMA OneThing ==
    ASSUME NEW S, Tidy(S), NEW d \in Cylinder, NEW k \in Kind, Total(S, k) <= 1,
           NEW i \in DOMAIN S[d], NEW j \in DOMAIN S[d], S[d][i].kind = k, S[d][j].kind = k
    PROVE  i = j
<1>1. S \in Worlds /\ S[d] \in Seq(Items) /\ Only(k) \in Weights /\ k # "nothing"
  BY WorldsAre, OnlyIs, KindsAre DEF Tidy
<1> DEFINE f == [x \in DOMAIN S[d] |-> Value(S[d][x], Only(k))]
<1>2. /\ Weight(S[d], Only(k)) = SumFunctionOnSet(f, DOMAIN S[d])
      /\ IsFiniteSet(DOMAIN S[d])
      /\ \A x \in DOMAIN S[d] : f[x] \in Nat
  BY <1>1, WeightIs
<1>3. \A x \in DOMAIN S[d] : S[d][x].kind = k => f[x] > 0
  <2> SUFFICES ASSUME NEW x \in DOMAIN S[d], S[d][x].kind = k PROVE f[x] > 0
    OBVIOUS
  <2>1. S[d][x].kind \in AnyKind /\ S[d][x].n \in Nat
    BY <1>1, ThingIs
  <2>2. S[d][x] # Nothing
    BY <1>1 DEF Nothing, Thing
  <2>3. S[d][x].n > 0
    BY <2>1, <2>2 DEF Tidy, Counts
  <2> QED BY <2>1, <2>3, OnlyIs DEF Value
<1> HIDE DEF f
<1>4. SUFFICES ASSUME i # j PROVE FALSE
  OBVIOUS
<1>5. SumFunctionOnSet(f, DOMAIN S[d]) >= f[i] + f[j]
  BY <1>2, <1>4, SumPair
<1>6. f[i] \in Nat /\ f[j] \in Nat /\ f[i] > 0 /\ f[j] > 0
  BY <1>2, <1>3
<1>7. Total(S, k) >= Weight(S[d], Only(k)) /\ Total(S, k) \in Nat
  BY <1>1, AmountIs DEF Total
<1>8. Weight(S[d], Only(k)) \in Nat
  BY <1>1, WeightNatural
<1> QED BY <1>2, <1>5, <1>6, <1>7, <1>8

-----------------------------------------------------------------------------
(* What is around what.                                                    *)

LEMMA AroundIs ==
    ASSUME NEW S, Tidy(S), NEW E \in SUBSET Cylinder
    PROVE  Around(S, E) = E \cup {d \in Cylinder : \E b \in E \cap Bag : Count(S, d, b) > 0}
<1>1. ASSUME NEW d \in Cylinder, NEW i \in DOMAIN S[d], S[d][i].kind \in E
      PROVE  S[d][i].kind \in E \cap Bag
  <2>1. S[d][i].kind \in AnyKind
    BY ThingIs DEF Tidy
  <2> QED BY <1>1, <2>1, KindsAre DEF AnyKind, Cylinder
<1>2. \A d \in Cylinder, b \in E \cap Bag :
        Count(S, d, b) > 0 <=> \E i \in DOMAIN S[d] : S[d][i].kind = b
  BY CountedIsThere, KindsAre
<1> QED BY <1>1, <1>2 DEF Around

LEMMA EnclosingClosed ==
    ASSUME NEW S, Tidy(S), \A b \in Bag : Total(S, b) <= 1, NEW c \in Cylinder
    PROVE  /\ Enclosing(S, c) \subseteq Cylinder
           /\ c \in Enclosing(S, c)
           /\ Closed(S, Enclosing(S, c))
<1> DEFINE N == Cardinality(Bag)
           Held(E, X) == \A b \in X, d \in Cylinder : Count(S, d, b) > 0 => d \in E
           Chain(E, n) == /\ E \subseteq Bag
                          /\ Cardinality(E) >= n + 1
                          /\ \E l \in E : Held(E, E \ {l})
           Good(E, n) == /\ E \subseteq Cylinder /\ c \in E
                         /\ Closed(S, E) \/ Chain(E, n)
<1>0. S \in Worlds /\ N \in Nat
  BY BagsCounted DEF Tidy
<1>1. PICK f : /\ f[0] = {c}
               /\ \A i \in 1..N : f[i] = Around(S, f[i - 1])
               /\ Enclosing(S, c) = f[N]
  BY EnclosingIs
<1>2. Good({c}, 0)
  <2>1. CASE c \in Bag
    <3>1. Cardinality({c}) = 1
      BY FS_Singleton
    <3> QED BY <2>1, <3>1
  <2>2. CASE c \notin Bag
    BY <2>2 DEF Closed
  <2> QED BY <2>1, <2>2
<1>3. ASSUME NEW E, NEW n \in Nat, Good(E, n) PROVE Good(Around(S, E), n + 1)
  <2> DEFINE F == Around(S, E)
  <2>1. F = E \cup {d \in Cylinder : \E b \in E \cap Bag : Count(S, d, b) > 0}
    BY <1>3, AroundIs
  <2>2. CASE Closed(S, E)
    <3>1. F = E
      BY <2>1, <2>2 DEF Closed
    <3> QED BY <1>3, <2>2, <3>1
  <2>3. CASE ~Closed(S, E)
    <3>1. Chain(E, n)
      BY <1>3, <2>3
    <3>2. PICK l \in E : Held(E, E \ {l})
      BY <3>1
    <3>3. PICK d \in Cylinder \ E : Count(S, d, l) > 0
      BY <2>3, <3>2 DEF Closed
    <3>4. \A e \in Cylinder : Count(S, e, l) > 0 => e = d
      <4>1. Total(S, l) <= 1
        BY <3>1
      <4> QED BY <1>0, <3>3, <4>1, OneHolder
    <3>5. F = E \cup {d}
      BY <2>1, <3>1, <3>2, <3>3, <3>4
    <3>6. Held(F, E)
      BY <3>2, <3>4, <3>5
    <3>7. CASE d \in Bag
      <4>1. IsFiniteSet(E) /\ Cardinality(E) \in Nat
        BY <3>1, InventoryAssumption, FS_Subset, FS_CardinalityType
      <4>2. Cardinality(F) = Cardinality(E) + 1
        BY <3>3, <3>5, <4>1, FS_AddElement
      <4>3. F \subseteq Bag /\ d \in F /\ F \ {d} = E
        BY <3>1, <3>3, <3>5, <3>7
      <4>4. Cardinality(F) >= (n + 1) + 1
        BY <3>1, <4>1, <4>2
      <4> QED BY <1>3, <3>5, <3>6, <4>3, <4>4
    <3>8. CASE d \notin Bag
      <4>1. F \cap Bag = E
        BY <3>1, <3>5, <3>8
      <4>2. Closed(S, F)
        BY <3>6, <4>1 DEF Closed
      <4> QED BY <1>3, <3>5, <4>2
    <3> QED BY <3>7, <3>8
  <2> QED BY <2>2, <2>3
<1> DEFINE A == {n \in Nat : n <= N => Good(f[n], n)}
<1> HIDE DEF Good
<1>4. 0 \in A
  BY <1>1, <1>2
<1>5. ASSUME NEW n \in Nat, n \in A PROVE n + 1 \in A
  <2> SUFFICES ASSUME n + 1 <= N PROVE Good(f[n + 1], n + 1)
    OBVIOUS
  <2>1. n <= N /\ n + 1 \in 1..N /\ (n + 1) - 1 = n
    BY <1>0
  <2>2. f[n + 1] = Around(S, f[n])
    BY <1>1, <2>1
  <2>3. Good(f[n], n)
    BY <1>5, <2>1
  <2> QED BY <1>3, <2>2, <2>3
<1> HIDE DEF A
<1>6. Nat \subseteq A
  BY <1>4, <1>5, SetInduction
<1>7. Good(f[N], N)
  BY <1>0, <1>6 DEF A
<1>8. ~Chain(f[N], N)
  <2> SUFFICES ASSUME f[N] \subseteq Bag, Cardinality(f[N]) >= N + 1 PROVE FALSE
    OBVIOUS
  <2>1. Cardinality(f[N]) <= N /\ Cardinality(f[N]) \in Nat
    BY InventoryAssumption, FS_Subset, FS_CardinalityType
  <2> QED BY <1>0, <2>1
<1> QED BY <1>1, <1>7, <1>8 DEF Good

\* Nothing is around what is not: from any cylinder one comes to the player or
\* to the ground.
LEMMA EnclosingRooted ==
    ASSUME NEW S, Sound(S, {}), NEW c \in Cylinder
    PROVE  {Player, Ground} \cap Enclosing(S, c) # {}
<1> DEFINE E == Enclosing(S, c)
<1>1. E \subseteq Cylinder /\ c \in E /\ Closed(S, E)
  BY EnclosingClosed DEF Sound
<1> HIDE DEF E
<1> SUFFICES ASSUME {Player, Ground} \cap E = {} PROVE FALSE
  BY DEF E
<1>2. E \in SUBSET (Bag \ {}) /\ E # {}
  BY <1>1 DEF Cylinder
<1>3. PICK b \in E, d \in Cylinder \ E : Count(S, d, b) > 0
  BY <1>2 DEF Sound, Grounded
<1> QED BY <1>1, <1>2, <1>3 DEF Closed

LEMMA SoundInPlace ==
    ASSUME NEW S, Sound(S, {})
    PROVE  InPlace(S)
<1>0. Tidy(S) /\ S \in Worlds
  BY DEF Sound, Tidy
<1>1. ASSUME NEW b \in Bag
      PROVE  Cardinality({p \in Positions(S) : S[p[1]][p[2]].kind = b}) = 1
  <2>1. Total(S, b) = 1
    BY DEF Sound
  <2>2. Amount(S, Cylinder, Only(b)) > 0 /\ Only(b) \in Weights
    BY <2>1, OnlyIs DEF Total
  <2>3. PICK c \in Cylinder : Weight(S[c], Only(b)) > 0
    BY <1>0, <2>2, AmountIs
  <2>4. b \in Kind
    BY KindsAre
  <2>5. PICK i \in DOMAIN S[c] : S[c][i].kind = b
    BY <1>0, <2>3, <2>4, CountedIsThere DEF Count
  <2>6. ASSUME NEW d \in Cylinder, NEW j \in DOMAIN S[d], S[d][j].kind = b
        PROVE  d = c /\ j = i
    <3>1. Count(S, d, b) > 0 /\ Count(S, c, b) > 0
      BY <1>0, <2>3, <2>4, <2>6, CountedIsThere DEF Count
    <3>2. d = c
      BY <1>0, <2>1, <3>1, OneHolder
    <3>3. j \in DOMAIN S[c] /\ S[c][j].kind = b
      BY <2>6, <3>2
    <3> QED BY <1>0, <2>1, <2>4, <2>5, <3>2, <3>3, OneThing
  <2>7. {p \in Positions(S) : S[p[1]][p[2]].kind = b} = {<<c, i>>}
    <3>1. <<c, i>> \in Positions(S)
      BY DEF Positions
    <3>2. \A p \in Positions(S) :
            \E d \in Cylinder : \E j \in DOMAIN S[d] : p = <<d, j>>
      BY DEF Positions
    <3> QED BY <2>5, <2>6, <3>1, <3>2
  <2> QED BY <2>7, FS_Singleton
<1>2. \A b \in Bag : {Player, Ground} \cap Enclosing(S, b) # {}
  BY EnclosingRooted, KindsAre
<1>3. \A p \in Positions(S) :
        LET e == S[p[1]][p[2]]
        IN  IF e = Nothing THEN p[1] = Player ELSE e.kind \in Kind /\ e.n \in Counts(e.kind)
  <2>1. \A p \in Positions(S) :
            \E d \in Cylinder : \E j \in DOMAIN S[d] : p = <<d, j>>
    BY DEF Positions
  <2> QED BY <1>0, <2>1 DEF Tidy
<1> QED BY <1>0, <1>1, <1>2, <1>3 DEF InPlace, Tidy

LEMMA InPlaceTidy ==
    ASSUME NEW S \in Worlds, InPlace(S)
    PROVE  Tidy(S)
<1>1. \A c \in Cylinder : \A i \in DOMAIN S[c] : <<c, i>> \in Positions(S)
  BY DEF Positions
<1>2. ASSUME NEW c \in Cylinder, NEW i \in DOMAIN S[c]
      PROVE  IF S[c][i] = Nothing THEN c = Player
             ELSE S[c][i].kind \in Kind /\ S[c][i].n \in Counts(S[c][i].kind)
  <2> DEFINE p == <<c, i>>
  <2>1. p \in Positions(S) /\ p[1] = c /\ p[2] = i
    BY <1>1
  <2> HIDE DEF p
  <2>2. IF S[p[1]][p[2]] = Nothing THEN p[1] = Player
        ELSE S[p[1]][p[2]].kind \in Kind /\ S[p[1]][p[2]].n \in Counts(S[p[1]][p[2]].kind)
    BY <2>1 DEF InPlace
  <2> QED BY <2>1, <2>2
<1> QED BY <1>2 DEF InPlace, Tidy

\* A bag in one place is there once.
LEMMA InPlaceOnce ==
    ASSUME NEW S \in Worlds, InPlace(S), NEW b \in Bag
    PROVE  Total(S, b) = 1
<1> DEFINE w == Only(b)
           P == {p \in Positions(S) : S[p[1]][p[2]].kind = b}
<1>0. Tidy(S) /\ w \in Weights /\ b \in Kind /\ b # "nothing" /\ b \notin Stackable
  BY InPlaceTidy, OnlyIs, KindsAre
<1>1. Cardinality(P) = 1
  BY DEF InPlace
<1>2. \E q : P = {q}
  <2>1. IsFiniteSet(P)
    <3>2. IsFiniteSet(Cylinder) /\ \A c \in Cylinder : IsFiniteSet(DOMAIN S[c])
      <4>1. ASSUME NEW c \in Cylinder PROVE IsFiniteSet(DOMAIN S[c])
        <5>1. DOMAIN S[c] = 1..Len(S[c]) /\ Len(S[c]) \in Nat
          BY WorldsAre
        <5> QED BY <5>1, FS_Interval
      <4> QED BY <4>1, CylinderFinite
    <3> DEFINE At1(c) == {<<c, i>> : i \in DOMAIN S[c]}
               All == {At1(c) : c \in Cylinder}
    <3>3. \A c \in Cylinder : IsFiniteSet(At1(c))
      <4> TAKE c \in Cylinder
      <4> DEFINE h == [i \in DOMAIN S[c] |-> <<c, i>>]
      <4>1. h \in Surjection(DOMAIN S[c], At1(c))
        BY DEF Surjection
      <4> HIDE DEF h, At1
      <4> QED BY <3>2, <4>1, FS_Surjection
    <3>4. IsFiniteSet(All)
      <4> DEFINE h == [c \in Cylinder |-> At1(c)]
      <4> HIDE DEF At1
      <4>1. h \in Surjection(Cylinder, All)
        BY DEF Surjection
      <4> HIDE DEF h, All
      <4> QED BY <3>2, <4>1, FS_Surjection
    <3>5. IsFiniteSet(UNION All)
      <4> HIDE DEF At1
      <4>1. \A x \in All : IsFiniteSet(x)
        BY <3>3
      <4> HIDE DEF All
      <4> QED BY <3>4, <4>1, FS_UNION
    <3>6. Positions(S) = UNION All
      BY DEF Positions
    <3> HIDE DEF All
    <3>7. P \subseteq UNION All
      BY <3>6
    <3> QED BY <3>5, <3>7, FS_Subset
  <2> HIDE DEF P
  <2> QED BY <1>1, <2>1, FS_Singleton
<1>3a. PICK c \in Cylinder : \E i \in DOMAIN S[c] : P = {<<c, i>>}
  <2>1. PICK q : P = {q}
    BY <1>2
  <2>2. q \in Positions(S)
    BY <2>1
  <2> QED BY <2>1, <2>2 DEF Positions
<1>3. PICK i \in DOMAIN S[c] : P = {<<c, i>>}
  BY <1>3a
<1>4. S[c][i].kind = b
  <2>1. <<c, i>> \in P
    BY <1>3
  <2> QED BY <2>1
<1>5. ASSUME NEW d \in Cylinder, NEW j \in DOMAIN S[d], S[d][j].kind = b
      PROVE  d = c /\ j = i
  <2>1. <<d, j>> \in P
    BY <1>5 DEF Positions
  <2> QED BY <1>3, <2>1
<1> HIDE DEF P
<1>6. S[c] \in Seq(Items) /\ S[c][i].n = 1
  <2>1. S[c][i] # Nothing
    BY <1>0, <1>4 DEF Nothing, Thing
  <2>2. S[c][i].n \in Counts(b)
    BY <1>0, <1>4, <2>1 DEF Tidy
  <2> QED BY <1>0, <2>2, WorldsAre DEF Counts, Most
<1>7. Weight(S[c], w) = 1
  <2> DEFINE f == [x \in DOMAIN S[c] |-> Value(S[c][x], w)]
  <2>1. Weight(S[c], w) = SumFunctionOnSet(f, DOMAIN S[c]) /\ IsFiniteSet(DOMAIN S[c])
    BY <1>0, <1>6, WeightIs
  <2>2. f[i] = 1
    BY <1>4, <1>6, OnlyIs, KindsAre DEF Value
  <2>3. \A x \in DOMAIN S[c] \ {i} : f[x] = 0
    <3> TAKE x \in DOMAIN S[c] \ {i}
    <3>1. S[c][x].kind # b /\ S[c][x].kind \in AnyKind /\ S[c][x].n \in Nat
      BY <1>5, ThingIs
    <3> QED BY <3>1, OnlyIs DEF Value
  <2> HIDE DEF f
  <2> QED BY <2>1, <2>2, <2>3, SumOne
<1>8. \A d \in Cylinder \ {c} : Weight(S[d], w) = 0
  <2> TAKE d \in Cylinder \ {c}
  <2>1. ~(Count(S, d, b) > 0)
    BY <1>0, <1>5, CountedIsThere
  <2>2. Count(S, d, b) \in Nat
    BY CountNatural
  <2> QED BY <2>1, <2>2 DEF Count
<1> DEFINE g == [d \in Cylinder |-> Weight(S[d], w)]
<1>9. Total(S, b) = SumFunctionOnSet(g, Cylinder)
  BY DEF Total, Amount
<1>10. g[c] = 1 /\ \A d \in Cylinder \ {c} : g[d] = 0
  BY <1>7, <1>8
<1> HIDE DEF g
<1> QED BY <1>9, <1>10, CylinderFinite, SumOne

LEMMA InPlaceSound ==
    ASSUME NEW S \in Worlds, InPlace(S)
    PROVE  Sound(S, {})
<1>1. Tidy(S) /\ \A b \in Bag : Total(S, b) = 1
  BY InPlaceTidy, InPlaceOnce
<1>2. ASSUME NEW B \in SUBSET Bag, B # {},
             \A b \in B, d \in Cylinder \ B : ~(Count(S, d, b) > 0)
      PROVE  FALSE
  <2> DEFINE N == Cardinality(Bag)
  <2>1. PICK b \in B : TRUE
    BY <1>2
  <2>2. PICK f : /\ f[0] = {b}
                 /\ \A i \in 1..N : f[i] = Around(S, f[i - 1])
                 /\ Enclosing(S, b) = f[N]
    BY EnclosingIs
  <2> DEFINE A == {n \in Nat : n <= N => f[n] \subseteq B}
  <2>0. N \in Nat
    BY BagsCounted
  <2>3. 0 \in A
    BY <2>1, <2>2
  <2>4. ASSUME NEW n \in Nat, n \in A PROVE n + 1 \in A
    <3> SUFFICES ASSUME n + 1 <= N PROVE f[n + 1] \subseteq B
      OBVIOUS
    <3>1. n + 1 \in 1..N /\ (n + 1) - 1 = n /\ f[n] \subseteq B
      BY <2>0, <2>4
    <3>2. f[n + 1] = Around(S, f[n])
      BY <2>2, <3>1
    <3>3. f[n] \in SUBSET Cylinder
      BY <3>1 DEF Cylinder
    <3>4. f[n + 1] = f[n] \cup {d \in Cylinder : \E x \in f[n] \cap Bag : Count(S, d, x) > 0}
      BY <1>1, <3>2, <3>3, AroundIs
    <3> QED BY <1>2, <3>1, <3>4
  <2> HIDE DEF A
  <2>5. Nat \subseteq A
    BY <2>3, <2>4, SetInduction
  <2>6. Enclosing(S, b) \subseteq B
    BY <2>0, <2>2, <2>5 DEF A
  <2>7. {Player, Ground} \cap Enclosing(S, b) # {}
    BY DEF InPlace
  <2> QED BY <2>6, <2>7, KindsAre
<1>3. Grounded(S, {})
  BY <1>2 DEF Grounded
<1> QED BY <1>1, <1>3 DEF Sound

-----------------------------------------------------------------------------
(* What the changes keep.                                                  *)

LEMMA ComesCount ==
    ASSUME NEW S \in Worlds, NEW T, NEW c \in Cylinder, NEW k \in AnyKind, NEW m \in Int,
           Comes(S, T, c, k, m)
    PROVE  /\ \A b : Total(T, b) = Total(S, b) + IF k = b THEN m ELSE 0
           /\ \A d \in Cylinder : \A b :
                Count(T, d, b) = Count(S, d, b) + IF d = c /\ k = b THEN m ELSE 0
<1>1. T \in Worlds
  BY DEF Comes
<1>2. \A b : Only(b) \in Weights /\ Only(b)[k] = IF k = b THEN 1 ELSE 0
  BY OnlyIs
<1>3. \A b : Only(b)[k] * m = IF k = b THEN m ELSE 0
  BY <1>2
<1>4. ASSUME NEW b PROVE Total(T, b) = Total(S, b) + IF k = b THEN m ELSE 0
  <2>1. Amount(T, Cylinder, Only(b)) = Amount(S, Cylinder, Only(b))
          + IF c \in Cylinder THEN Only(b)[k] * m ELSE 0
    BY <1>2 DEF Comes
  <2> QED BY <1>3, <2>1 DEF Total
<1>5. ASSUME NEW d \in Cylinder, NEW b
      PROVE  Count(T, d, b) = Count(S, d, b) + IF d = c /\ k = b THEN m ELSE 0
  <2>1. Amount(T, {d}, Only(b)) = Amount(S, {d}, Only(b))
          + IF c \in {d} THEN Only(b)[k] * m ELSE 0
    BY <1>2 DEF Comes
  <2>2. Amount(T, {d}, Only(b)) = Count(T, d, b) /\ Amount(S, {d}, Only(b)) = Count(S, d, b)
    BY <1>1, <1>2, CountIs DEF Count
  <2>3. Count(S, d, b) \in Nat
    BY CountNatural
  <2> QED BY <1>3, <2>1, <2>2, <2>3
<1> QED BY <1>4, <1>5

\* There is m more of k in all.
MoreOf(S, T, k, m) == \A b : Total(T, b) = Total(S, b) + IF k = b THEN m ELSE 0

LEMMA ComesMore ==
    ASSUME NEW S \in Worlds, NEW T, NEW c \in Cylinder, NEW k \in AnyKind, NEW m \in Int,
           Comes(S, T, c, k, m)
    PROVE  MoreOf(S, T, k, m)
<1>1. \A b : Total(T, b) = Total(S, b) + IF k = b THEN m ELSE 0
  BY ComesCount
<1> QED BY <1>1 DEF MoreOf

\* No bag comes or goes.
SameBags(S, T) == \A b \in Bag, d \in Cylinder : Count(T, d, b) = Count(S, d, b)

LEMMA SoundKept ==
    ASSUME NEW S, NEW M, Sound(S, M), NEW T, Tidy(T), NEW c \in Cylinder,
           NEW k \in AnyKind \ Bag, NEW m \in Int, Comes(S, T, c, k, m)
    PROVE  Sound(T, M) /\ SameBags(S, T)
<1>0. S \in Worlds
  BY DEF Sound, Tidy
<1>c. /\ \A b : Total(T, b) = Total(S, b) + IF k = b THEN m ELSE 0
      /\ \A d \in Cylinder : \A b :
           Count(T, d, b) = Count(S, d, b) + IF d = c /\ k = b THEN m ELSE 0
  BY <1>0, ComesCount, KindsAre
<1>1. \A b \in Bag : Total(S, b) \in Nat /\ \A d \in Cylinder : Count(S, d, b) \in Nat
  BY <1>0, CountNatural
<1>2. \A b \in Bag : Total(T, b) = Total(S, b)
  BY <1>1, <1>c
<1>3. SameBags(S, T)
  BY <1>1, <1>c DEF SameBags
<1>4. Grounded(T, M)
  BY <1>3 DEF Sound, Grounded, SameBags
<1> QED BY <1>2, <1>3, <1>4 DEF Sound

LEMMA SoundOut ==
    ASSUME NEW S, Sound(S, {}), NEW T, Tidy(T), NEW c \in Cylinder,
           NEW k \in Bag, Comes(S, T, c, k, -1)
    PROVE  Sound(T, {k}) /\ \A E : Closed(S, E) => Closed(T, E)
<1>0. S \in Worlds /\ k \in AnyKind /\ -1 \in Int
  BY KindsAre DEF Sound, Tidy
<1>c. /\ \A b : Total(T, b) = Total(S, b) + IF k = b THEN -1 ELSE 0
      /\ \A d \in Cylinder : \A b :
           Count(T, d, b) = Count(S, d, b) + IF d = c /\ k = b THEN -1 ELSE 0
  BY <1>0, ComesCount
<1>1. \A b \in Bag : Total(S, b) = 1 /\ \A d \in Cylinder : Count(S, d, b) \in Nat
  BY <1>0, CountNatural DEF Sound
<1>2. \A b \in Bag : Total(T, b) = IF b \in {k} THEN 0 ELSE 1
  BY <1>1, <1>c
<1>3. \A b \in Bag, d \in Cylinder : b # k => Count(T, d, b) = Count(S, d, b)
  BY <1>1, <1>c
<1>4. \A b \in Bag, d \in Cylinder : Count(T, d, b) > 0 => Count(S, d, b) > 0
  BY <1>1, <1>c
<1>5. Grounded(T, {k})
  <2> SUFFICES ASSUME NEW B \in SUBSET (Bag \ {k}), B # {}
               PROVE  \E b \in B, d \in Cylinder \ B : Count(T, d, b) > 0
    BY DEF Grounded
  <2>1. PICK b \in B, d \in Cylinder \ B : Count(S, d, b) > 0
    <3>1. B \in SUBSET (Bag \ {})
      OBVIOUS
    <3> QED BY <3>1 DEF Sound, Grounded
  <2> QED BY <1>3, <2>1
<1>6. \A E : Closed(S, E) => Closed(T, E)
  BY <1>4 DEF Closed
<1> QED BY <1>2, <1>5, <1>6 DEF Sound

LEMMA SoundIn ==
    ASSUME NEW S, NEW k \in Bag, Sound(S, {k}), NEW T, Tidy(T), NEW c \in Cylinder,
           Comes(S, T, c, k, 1), NEW E \in SUBSET Cylinder, Closed(S, E), c \in E, k \notin E
    PROVE  Sound(T, {})
<1>0. S \in Worlds /\ k \in AnyKind /\ 1 \in Int
  BY KindsAre DEF Sound, Tidy
<1>c. /\ \A b : Total(T, b) = Total(S, b) + IF k = b THEN 1 ELSE 0
      /\ \A d \in Cylinder : \A b :
           Count(T, d, b) = Count(S, d, b) + IF d = c /\ k = b THEN 1 ELSE 0
  BY <1>0, ComesCount
<1>1. \A b \in Bag : /\ Total(S, b) = IF b \in {k} THEN 0 ELSE 1
                     /\ \A d \in Cylinder : Count(S, d, b) \in Nat
  BY <1>0, CountNatural DEF Sound
<1>2. \A b \in Bag : Total(T, b) = 1
  BY <1>1, <1>c
<1>3. \A b \in Bag, d \in Cylinder : b # k => Count(T, d, b) = Count(S, d, b)
  BY <1>1, <1>c
<1>4. Count(T, c, k) > 0
  BY <1>1, <1>c
<1>5. ASSUME NEW B \in SUBSET Bag, B # {}
      PROVE  \E b \in B, d \in Cylinder \ B : Count(T, d, b) > 0
  <2>1. CASE k \in B /\ c \notin B
    BY <1>4, <2>1
  <2>2. CASE k \notin B
    <3>1. B \in SUBSET (Bag \ {k})
      BY <2>2
    <3>2. PICK b \in B, d \in Cylinder \ B : Count(S, d, b) > 0
      BY <1>5, <3>1 DEF Sound, Grounded
    <3> QED BY <1>3, <2>2, <3>2
  <2>3. CASE k \in B /\ c \in B
    <3> DEFINE F == B \cap E
    <3>1. F \in SUBSET (Bag \ {k}) /\ F # {}
      BY <2>3
    <3>2. PICK b \in F, d \in Cylinder \ F : Count(S, d, b) > 0
      BY <3>1 DEF Sound, Grounded
    <3>3. d \in E /\ b # k
      BY <3>1, <3>2 DEF Closed
    <3>4. d \in Cylinder \ B /\ b \in B
      BY <3>2, <3>3
    <3> QED BY <1>3, <3>2, <3>3, <3>4
  <2> QED BY <2>1, <2>2, <2>3
<1>6. Grounded(T, {})
  BY <1>5 DEF Grounded
<1> QED BY <1>2, <1>6 DEF Sound

\* The things of a cylinder that are as they were.
LEMMA TidyChanged ==
    ASSUME NEW S, Tidy(S), NEW T \in Worlds, NEW c \in Cylinder,
           \A d \in Cylinder \ {c} : T[d] = S[d],
           \A j \in DOMAIN T[c] :
              \/ \E i \in DOMAIN S[c] : T[c][j] = S[c][i]
              \/ T[c][j] = Nothing /\ c = Player
              \/ /\ T[c][j] # Nothing /\ T[c][j].kind \in Kind
                 /\ T[c][j].n \in Counts(T[c][j].kind),
           c = Player => Len(T[c]) = Len(S[c])
    PROVE  Tidy(T)
<1>1. Len(T[Player]) = Slots
  BY KindsAre DEF Tidy
<1>2. ASSUME NEW d \in Cylinder, NEW j \in DOMAIN T[d]
      PROVE  IF T[d][j] = Nothing THEN d = Player
             ELSE T[d][j].kind \in Kind /\ T[d][j].n \in Counts(T[d][j].kind)
  <2>1. CASE d = c
    BY <1>2, <2>1 DEF Tidy
  <2>2. CASE d # c
    BY <2>2 DEF Tidy
  <2> QED BY <2>1, <2>2
<1> QED BY <1>1, <1>2 DEF Tidy

LEMMA TidyGrown ==
    ASSUME NEW S, Tidy(S), NEW c \in Cylinder, NEW i \in DOMAIN S[c], NEW m \in Int,
           S[c][i].kind \in Stackable, S[c][i].n + m \in 1..StackSize
    PROVE  Tidy(Grown(S, c, i, m))
<1> DEFINE T == Grown(S, c, i, m)
<1>0. S \in Worlds /\ S[c] \in Seq(Items) /\ StackSize \in Nat
  BY WorldsAre, InventoryAssumption DEF Tidy
<1>1. /\ T \in Worlds /\ \A d \in Cylinder \ {c} : T[d] = S[d]
      /\ T[c] = [S[c] EXCEPT ![i] = Thing(@.kind, @.n + m)]
  <2>1. S[c][i].n + m \in Nat
    OBVIOUS
  <2> QED BY <1>0, <2>1, GrownIs DEF Comes
<1> HIDE DEF T
<1>2. DOMAIN T[c] = DOMAIN S[c] /\ Len(T[c]) = Len(S[c])
  BY <1>0, <1>1
<1>3. \A j \in DOMAIN S[c] \ {i} : T[c][j] = S[c][j]
  BY <1>1
<1>4. T[c][i] # Nothing /\ T[c][i].kind \in Kind /\ T[c][i].n \in Counts(T[c][i].kind)
  BY <1>1, KindsAre DEF Nothing, Thing, Counts, Most
<1>5. Tidy(T)
  BY <1>0, <1>1, <1>2, <1>3, <1>4, TidyChanged
<1> QED BY <1>5 DEF T

LEMMA TidyTakeOut ==
    ASSUME NEW S, Tidy(S), NEW c \in Cylinder, NEW i \in DOMAIN S[c], NEW n \in Nat,
           S[c][i].kind \in Stackable => n \in 1..S[c][i].n
    PROVE  Tidy(TakeOut(S, c, i, n))
<1> DEFINE e == S[c][i]
           T == TakeOut(S, c, i, n)
<1>0. S \in Worlds /\ S[c] \in Seq(Items) /\ e.n \in Nat /\ StackSize \in Nat
  BY WorldsAre, ThingIs, InventoryAssumption DEF Tidy
<1>1. CASE e.kind \in Stackable /\ n # e.n
  <2> DEFINE m == -n
  <2>1. T = Grown(S, c, i, m) /\ m \in Int
    BY <1>1 DEF TakeOut
  <2>2. e # Nothing
    BY <1>1, KindsAre DEF Nothing, Thing
  <2>3. e.n \in 1..StackSize
    BY <1>1, <2>2 DEF Tidy, Counts, Most
  <2>4. S[c][i].n + m \in 1..StackSize
    BY <1>0, <1>1, <2>3
  <2> HIDE DEF m
  <2> QED BY <1>1, <2>1, <2>4, TidyGrown
<1>2. CASE ~(e.kind \in Stackable /\ n # e.n)
  <2>1. T = [S EXCEPT ![c] = IF c = Player THEN [S[c] EXCEPT ![i] = Nothing]
                             ELSE RemoveAt(S[c], i)]
    BY <1>2 DEF TakeOut
  <2>2. T \in Worlds /\ \A d \in Cylinder \ {c} : T[d] = S[d]
    <3>1. S[c][i].kind \in Stackable => n <= S[c][i].n
      BY <1>0
    <3> QED BY <1>0, <3>1, TakeOutIs DEF Comes
  <2>3. T[c] = IF c = Player THEN [S[c] EXCEPT ![i] = Nothing] ELSE RemoveAt(S[c], i)
    BY <1>0, <2>1, WorldsAre
  <2> HIDE DEF T
  <2>4. CASE c = Player
    <3>1. DOMAIN T[c] = DOMAIN S[c] /\ Len(T[c]) = Len(S[c])
      BY <1>0, <2>3, <2>4
    <3>2. \A j \in DOMAIN T[c] : T[c][j] = Nothing \/ T[c][j] = S[c][j]
      BY <2>3, <2>4
    <3>3. Tidy(T)
      BY <2>2, <2>4, <3>1, <3>2, TidyChanged
    <3> QED BY <3>3 DEF T
  <2>5. CASE c # Player
    <3>1. \A j \in DOMAIN T[c] : \E x \in DOMAIN S[c] : T[c][j] = S[c][x]
      <4> TAKE j \in DOMAIN T[c]
      <4>1. /\ T[c] = RemoveAt(S[c], i) /\ Len(T[c]) = Len(S[c]) - 1 /\ T[c] \in Seq(Items)
            /\ T[c][j] = S[c][IF j < i THEN j ELSE j + 1]
        BY <1>0, <2>3, <2>5, RemoveAtIs
      <4>2. (IF j < i THEN j ELSE j + 1) \in DOMAIN S[c]
        BY <1>0, <4>1
      <4> QED BY <4>1, <4>2
    <3>2. Tidy(T)
      BY <2>2, <2>5, <3>1, TidyChanged
    <3> QED BY <3>2 DEF T
  <2> QED BY <2>4, <2>5
<1> QED BY <1>1, <1>2

LEMMA TidyInsert ==
    ASSUME NEW S, Tidy(S), NEW c \in Cylinder, NEW i, NEW e,
           e = Thing(e.kind, e.n), e.kind \in Kind, e.n \in Counts(e.kind),
           c = Player => i \in DOMAIN S[Player] /\ S[Player][i] = Nothing
    PROVE  Tidy(Insert(S, c, i, e)) /\ e \in Items
<1> DEFINE T == Insert(S, c, i, e)
<1>0. S \in Worlds /\ S[c] \in Seq(Items) /\ StackSize \in Nat
  BY WorldsAre, InventoryAssumption DEF Tidy
<1>1. e.n \in Nat
  BY <1>0 DEF Counts, Most
<1>2. e \in Items
  <2>1. e.kind \in AnyKind
    BY KindsAre
  <2>2. Thing(e.kind, e.n) \in Items
    BY <1>1, <2>1 DEF Thing, Items
  <2> QED BY <2>2
<1>3. T \in Worlds /\ \A d \in Cylinder \ {c} : T[d] = S[d]
  BY <1>0, <1>2, InsertIs DEF Comes
<1>4. T[c] = IF c = Player THEN [S[c] EXCEPT ![i] = e] ELSE <<e>> \o S[c]
  BY <1>0, WorldsAre DEF Insert
<1>5. e # Nothing
  BY KindsAre DEF Nothing, Thing
<1> HIDE DEF T
<1>6. CASE c = Player
  <2>1. DOMAIN T[c] = DOMAIN S[c] /\ Len(T[c]) = Len(S[c])
    BY <1>0, <1>4, <1>6
  <2>2. \A j \in DOMAIN T[c] : T[c][j] = e \/ T[c][j] = S[c][j]
    BY <1>4, <1>6
  <2>3. Tidy(T)
    BY <1>3, <1>5, <1>6, <2>1, <2>2, TidyChanged
  <2> QED BY <1>2, <2>3 DEF T
<1>7. CASE c # Player
  <2>1. \A j \in DOMAIN T[c] : T[c][j] = e \/ \E x \in DOMAIN S[c] : T[c][j] = S[c][x]
    <3> TAKE j \in DOMAIN T[c]
    <3>1. /\ T[c] \in Seq(Items) /\ Len(T[c]) = Len(S[c]) + 1 /\ T[c][1] = e
          /\ \A x \in DOMAIN S[c] : T[c][x + 1] = S[c][x]
      BY <1>0, <1>2, <1>4, <1>7, PrependIs
    <3>2. CASE j = 1
      BY <3>1, <3>2
    <3>3. CASE j # 1
      <4>1. j - 1 \in DOMAIN S[c] /\ (j - 1) + 1 = j
        BY <1>0, <3>1, <3>3
      <4>2. T[c][(j - 1) + 1] = S[c][j - 1]
        BY <3>1, <4>1
      <4> QED BY <4>1, <4>2
    <3> QED BY <3>2, <3>3
  <2>2. Tidy(T)
    BY <1>3, <1>5, <1>7, <2>1, TidyChanged
  <2> QED BY <1>2, <2>2 DEF T
<1> QED BY <1>6, <1>7

LEMMA TidyThing ==
    ASSUME NEW S, Tidy(S), NEW c \in Cylinder, NEW i \in DOMAIN S[c], S[c][i] # Nothing
    PROVE  /\ S[c][i].kind \in Kind /\ S[c][i].n \in 1..StackSize
           /\ S[c][i].kind \notin Stackable => S[c][i].n = 1
           /\ S[c][i] = Thing(S[c][i].kind, S[c][i].n)
           /\ StackSize \in Nat
<1>1. S[c][i].kind \in Kind /\ S[c][i].n \in Counts(S[c][i].kind)
  BY DEF Tidy
<1>2. StackSize \in Nat /\ StackSize >= 1
  BY InventoryAssumption
<1>3. S[c][i] = Thing(S[c][i].kind, S[c][i].n)
  BY ThingIs DEF Tidy, Thing
<1> QED BY <1>1, <1>2, <1>3 DEF Counts, Most

LEMMA RoomIs ==
    ASSUME NEW S, Tidy(S), NEW c \in Cylinder, NEW i \in DOMAIN S[c], NEW k
    PROVE  /\ Room(S[c][i], k) \in Nat
           /\ Room(S[c][i], k) > 0 => /\ S[c][i].kind = k /\ k \in Stackable
                                      /\ S[c][i] # Nothing
                                      /\ Room(S[c][i], k) = StackSize - S[c][i].n
<1>1. CASE S[c][i] = Nothing
  <2>1. S[c][i].kind \notin Stackable
    BY <1>1, KindsAre DEF Nothing, Thing
  <2> QED BY <2>1 DEF Room
<1>2. CASE S[c][i] # Nothing
  <2>1. S[c][i].n \in 1..StackSize /\ StackSize \in Nat
    BY <1>2, TidyThing
  <2> QED BY <1>2, <2>1 DEF Room
<1> QED BY <1>1, <1>2

LEMMA RoomThere ==
    ASSUME NEW S, Tidy(S), NEW c \in Cylinder, NEW i \in DOMAIN S[c], NEW k, Room(S[c][i], k) > 0
    PROVE  S[c][i] # Nothing
BY RoomIs

LEMMA RoomOfKind ==
    ASSUME NEW S, Tidy(S), NEW c \in Cylinder, NEW i \in DOMAIN S[c], NEW k, Room(S[c][i], k) > 0
    PROVE  S[c][i].kind = k
BY RoomIs

-----------------------------------------------------------------------------
(* Where a free place or a stack is found.                                 *)

LEMMA FirstIs ==
    ASSUME NEW P \in SUBSET (Nat \X Nat), P # {}
    PROVE  First(P) \in P
<1> DEFINE J == {p[1] : p \in P}
<1>1. J \in SUBSET Nat /\ J # {}
  OBVIOUS
<1>2. PICK j \in J : \A x \in J : j <= x
  <2> HIDE DEF J
  <2> QED BY <1>1, LeastExists
<1> DEFINE I == {p[2] : p \in {p \in P : p[1] = j}}
<1>3. I \in SUBSET Nat /\ I # {}
  OBVIOUS
<1>4. PICK i \in I : \A x \in I : i <= x
  <2> HIDE DEF I
  <2> QED BY <1>3, LeastExists
<1>5. PICK p \in P : p[1] = j /\ p[2] = i
  OBVIOUS
<1>6. \A o \in P : p[1] < o[1] \/ (p[1] = o[1] /\ p[2] <= o[2])
  <2> TAKE o \in P
  <2>1. o[1] \in J /\ o[1] \in Nat /\ j \in Nat /\ j <= o[1]
    BY <1>2
  <2>2. CASE o[1] = j
    <3>1. o[2] \in I
      BY <2>2
    <3> QED BY <1>4, <1>5, <2>2, <3>1
  <2>3. CASE o[1] # j
    BY <1>5, <2>1, <2>3
  <2> QED BY <2>2, <2>3
<1> QED BY <1>6 DEF First

LEMMA MinIs ==
    ASSUME NEW T \in SUBSET Nat, T # {}
    PROVE  Min(T) \in T
BY LeastExists DEF Min

\* What is around a cylinder is the least there is to it.
LEMMA EnclosingLeast ==
    ASSUME NEW S, Tidy(S), NEW E \in SUBSET Cylinder, Closed(S, E), NEW c \in E
    PROVE  Enclosing(S, c) \subseteq E
<1> DEFINE N == Cardinality(Bag)
<1>1. PICK f : /\ f[0] = {c}
               /\ \A i \in 1..N : f[i] = Around(S, f[i - 1])
               /\ Enclosing(S, c) = f[N]
  BY EnclosingIs
<1>2. N \in Nat
  BY BagsCounted
<1> DEFINE A == {n \in Nat : n <= N => f[n] \subseteq E}
<1>3. 0 \in A
  BY <1>1
<1>4. ASSUME NEW n \in Nat, n \in A PROVE n + 1 \in A
  <2> SUFFICES ASSUME n + 1 <= N PROVE f[n + 1] \subseteq E
    OBVIOUS
  <2>1. n + 1 \in 1..N /\ (n + 1) - 1 = n /\ f[n] \subseteq E
    BY <1>2, <1>4
  <2>2. f[n + 1] = Around(S, f[n]) /\ f[n] \in SUBSET Cylinder
    BY <1>1, <2>1
  <2>3. f[n + 1] = f[n] \cup {d \in Cylinder : \E x \in f[n] \cap Bag : Count(S, d, x) > 0}
    BY <2>2, AroundIs
  <2> QED BY <2>1, <2>3 DEF Closed
<1> HIDE DEF A
<1>5. Nat \subseteq A
  BY <1>3, <1>4, SetInduction
<1> QED BY <1>1, <1>2, <1>5 DEF A

\* What lies in something that is carried is carried.
LEMMA CarriedDown ==
    ASSUME NEW S, Sound(S, {}), NEW d \in Cylinder, Carried(S, d), NEW b \in Bag,
           Count(S, d, b) > 0
    PROVE  Carried(S, b)
<1>0. Tidy(S) /\ b \in Cylinder /\ \A x \in Bag : Total(S, x) <= 1
  BY KindsAre DEF Sound
<1> DEFINE E == Enclosing(S, b)
<1>1. E \in SUBSET Cylinder /\ b \in E /\ Closed(S, E)
  BY <1>0, EnclosingClosed
<1>2. d \in E
  BY <1>1 DEF Closed
<1>3. Enclosing(S, d) \subseteq E
  <2> HIDE DEF E
  <2> QED BY <1>0, <1>1, <1>2, EnclosingLeast
<1> QED BY <1>3 DEF Carried

LEMMA PlayerCarried ==
    ASSUME NEW S, Sound(S, {})
    PROVE  Carried(S, Player) /\ CarriedIn(S) \subseteq Cylinder
<1>1. Player \in Enclosing(S, Player)
  BY EnclosingClosed, KindsAre DEF Sound
<1> QED BY <1>1 DEF Carried, CarriedIn

LEMMA PlacesAre ==
    ASSUME NEW S, Tidy(S), NEW q \in Seq(Cylinder)
    PROVE  /\ PlacesIn(S, q) \in SUBSET (Nat \X Nat)
           /\ \A p \in PlacesIn(S, q) :
                /\ p = <<p[1], p[2]>> /\ p[1] \in DOMAIN q /\ q[p[1]] \in Cylinder
                /\ p[2] \in Visible(S, q[p[1]]) /\ p[2] \in DOMAIN S[q[p[1]]]
           /\ \A j \in DOMAIN q : \A i \in Visible(S, q[j]) : <<j, i>> \in PlacesIn(S, q)
<1>1. \A j \in DOMAIN q : q[j] \in Cylinder /\ j \in Nat
  OBVIOUS
<1>2. \A j \in DOMAIN q : \A i \in Visible(S, q[j]) : i \in DOMAIN S[q[j]] /\ i \in Nat
  <2> TAKE j \in DOMAIN q
  <2>1. S[q[j]] \in Seq(Items)
    BY <1>1, WorldsAre DEF Tidy
  <2> QED BY <2>1 DEF Visible
<1>3. \A p \in PlacesIn(S, q) : \E j \in DOMAIN q : \E i \in Visible(S, q[j]) : p = <<j, i>>
  BY DEF PlacesIn
<1>4. \A j \in DOMAIN q : \A i \in Visible(S, q[j]) : <<j, i>> \in PlacesIn(S, q)
  BY DEF PlacesIn
<1>5. ASSUME NEW p \in PlacesIn(S, q)
      PROVE  /\ p = <<p[1], p[2]>> /\ p[1] \in DOMAIN q /\ q[p[1]] \in Cylinder
             /\ p[2] \in Visible(S, q[p[1]]) /\ p[2] \in DOMAIN S[q[p[1]]]
             /\ p \in Nat \X Nat
  <2>1. PICK j \in DOMAIN q : \E i \in Visible(S, q[j]) : p = <<j, i>>
    BY <1>3
  <2>2. PICK i \in Visible(S, q[j]) : p = <<j, i>>
    BY <2>1
  <2> QED BY <1>1, <1>2, <2>2
<1> QED BY <1>4, <1>5

\* Nothing that can be seen in q is missing from it.
Complete(S, q, k, offered) ==
    \A p \in PlacesIn(S, q) :
        At(S, q, p).kind \in Bag =>
            At(S, q, p).kind \in ToSet(q) \cup {k} \/ OnOffer(S, q[p[1]], p[2], offered)

LEMMA SearchedHas ==
    ASSUME NEW S, Sound(S, {}), NEW k, NEW offered
    PROVE  /\ Searched(S, k, offered) \in Seq(Cylinder)
           /\ Player \in ToSet(Searched(S, k, offered))
           /\ ToSet(Searched(S, k, offered)) \subseteq CarriedIn(S) \cap ({Player} \cup Bag)
           /\ Complete(S, Searched(S, k, offered), k, offered)
<1> DEFINE N == Cardinality(Bag)
           Good(q, n) == /\ q \in Seq(Cylinder) /\ Player \in ToSet(q)
                         /\ ToSet(q) \subseteq CarriedIn(S) \cap ({Player} \cup Bag)
                         /\ IsFiniteSet(ToSet(q))
                         /\ Complete(S, q, k, offered) \/ Cardinality(ToSet(q)) >= n + 1
<1>0. Tidy(S) /\ S \in Worlds /\ N \in Nat /\ Player \in Cylinder
  BY BagsCounted, KindsAre DEF Sound, Tidy
<1>1. PICK f : /\ f[0] = <<Player>>
               /\ \A i \in 1..N : f[i] = Queued(S, f[i - 1], k, offered)
               /\ Searched(S, k, offered) = f[N]
  BY SearchedIs
<1>2. Good(<<Player>>, 0)
  <2>1. ToSet(<<Player>>) = {Player}
    BY DEF ToSet
  <2>2. Cardinality({Player}) = 1 /\ IsFiniteSet({Player})
    BY FS_Singleton
  <2>3. Player \in CarriedIn(S)
    BY <1>0, PlayerCarried DEF CarriedIn
  <2> QED BY <1>0, <2>1, <2>2, <2>3
<1>3. ASSUME NEW q, NEW n \in Nat, Good(q, n) PROVE Good(Queued(S, q, k, offered), n + 1)
  <2> DEFINE next == {p \in PlacesIn(S, q) :
                        /\ At(S, q, p).kind \in Bag \ (ToSet(q) \cup {k})
                        /\ ~OnOffer(S, q[p[1]], p[2], offered)}
  <2>1. Queued(S, q, k, offered) =
            IF next = {} THEN q ELSE Append(q, At(S, q, First(next)).kind)
    BY DEF Queued
  <2>2. CASE next = {}
    <3>1. Complete(S, q, k, offered)
      BY <2>2 DEF Complete
    <3> QED BY <1>3, <2>1, <2>2, <3>1
  <2>3. CASE next # {}
    <3> DEFINE p == First(next)
               b == At(S, q, p).kind
    <3>0. next \in SUBSET (Nat \X Nat)
      BY <1>0, <1>3, PlacesAre
    <3>1. p \in next
      <4> HIDE DEF next
      <4> QED BY <2>3, <3>0, FirstIs
    <3>2. p \in PlacesIn(S, q) /\ b \in Bag /\ b \notin ToSet(q) /\ b \in Cylinder
      BY <3>1, KindsAre
    <3>3. Queued(S, q, k, offered) = Append(q, b)
      BY <2>1, <2>3
    <3> HIDE DEF next, p
    <3>4. q[p[1]] \in Cylinder /\ q[p[1]] \in ToSet(q) /\ p[2] \in DOMAIN S[q[p[1]]]
      BY <1>0, <1>3, <3>2, PlacesAre DEF ToSet
    <3>5. Carried(S, b)
      <4>1. Carried(S, q[p[1]])
        BY <1>3, <3>4 DEF CarriedIn
      <4>2. Count(S, q[p[1]], b) > 0
        <5>1. S[q[p[1]]][p[2]].kind = b
          BY DEF At
        <5>2. b \in Kind
          BY <3>2, KindsAre
        <5> HIDE DEF b
        <5> QED BY <1>0, <3>4, <5>1, <5>2, CountedIsThere
      <4> HIDE DEF b
      <4> QED BY <3>2, <3>4, <4>1, <4>2, CarriedDown
    <3> HIDE DEF b
    <3>6. Append(q, b) \in Seq(Cylinder) /\ ToSet(Append(q, b)) = ToSet(q) \cup {b}
      <4>1. Append(q, b) \in Seq(Cylinder) /\ Len(Append(q, b)) = Len(q) + 1
        BY <1>3, <3>2
      <4>2. Append(q, b)[Len(q) + 1] = b /\ \A j \in DOMAIN q : Append(q, b)[j] = q[j]
        BY <1>3, <3>2
      <4>3. \A j \in DOMAIN Append(q, b) : j \in DOMAIN q \/ j = Len(q) + 1
        BY <1>3, <4>1
      <4>4. \A j \in DOMAIN q : j \in DOMAIN Append(q, b)
        BY <1>3, <4>1
      <4>5. Len(q) + 1 \in DOMAIN Append(q, b)
        BY <1>3, <4>1
      <4> QED BY <4>1, <4>2, <4>3, <4>4, <4>5 DEF ToSet
    <3>7. b \in CarriedIn(S)
      BY <3>2, <3>5 DEF CarriedIn
    <3>8. \/ Complete(S, Append(q, b), k, offered)
          \/ Cardinality(ToSet(Append(q, b))) >= (n + 1) + 1
      <4>1. CASE Complete(S, q, k, offered)
        <5>1. b \in ToSet(q) \cup {k} \/ OnOffer(S, q[p[1]], p[2], offered)
          BY <3>2, <4>1 DEF Complete, b
        <5> QED BY <3>1, <5>1 DEF next, b
      <4>2. CASE Cardinality(ToSet(q)) >= n + 1
        <5>1. IsFiniteSet(ToSet(q)) /\ Cardinality(ToSet(q)) \in Nat
          BY <1>3, FS_CardinalityType
        <5>2. Cardinality(ToSet(q) \cup {b}) = Cardinality(ToSet(q)) + 1
          BY <3>2, <5>1, FS_AddElement
        <5> QED BY <3>6, <4>2, <5>1, <5>2
      <4> QED BY <1>3, <4>1, <4>2
    <3>9. IsFiniteSet(ToSet(Append(q, b)))
      BY <1>3, <3>6, FS_AddElement
    <3> QED BY <1>3, <3>2, <3>3, <3>6, <3>7, <3>8, <3>9
  <2> QED BY <2>2, <2>3
<1> DEFINE A == {n \in Nat : n <= N => Good(f[n], n)}
<1> HIDE DEF Good
<1>4. 0 \in A
  BY <1>1, <1>2
<1>5. ASSUME NEW n \in Nat, n \in A PROVE n + 1 \in A
  <2> SUFFICES ASSUME n + 1 <= N PROVE Good(f[n + 1], n + 1)
    OBVIOUS
  <2>1. n <= N /\ n + 1 \in 1..N /\ (n + 1) - 1 = n
    BY <1>0
  <2>2. f[n + 1] = Queued(S, f[n], k, offered)
    BY <1>1, <2>1
  <2>3. Good(f[n], n)
    BY <1>5, <2>1
  <2> QED BY <1>3, <2>2, <2>3
<1> HIDE DEF A
<1>6. Nat \subseteq A
  BY <1>4, <1>5, SetInduction
<1>7. Good(f[N], N)
  BY <1>0, <1>6 DEF A
<1> DEFINE q == f[N]
<1>8. Complete(S, q, k, offered)
  <2> SUFFICES ASSUME Cardinality(ToSet(q)) >= N + 1 PROVE Complete(S, q, k, offered)
    BY <1>7 DEF Good
  <2> HIDE DEF q
  <2>1. ToSet(q) \subseteq Bag \cup {Player} /\ IsFiniteSet(Bag)
    BY <1>7, InventoryAssumption DEF Good, q
  <2>2. Cardinality(Bag \cup {Player}) = N + 1 /\ IsFiniteSet(Bag \cup {Player})
    BY <2>1, KindsAre, FS_AddElement
  <2>3. ToSet(q) = Bag \cup {Player}
    <3>1. Cardinality(ToSet(q)) <= Cardinality(Bag \cup {Player}) /\ Cardinality(ToSet(q)) \in Nat
      BY <2>1, <2>2, FS_Subset, FS_CardinalityType
    <3>2. Cardinality(ToSet(q)) = Cardinality(Bag \cup {Player})
      BY <1>0, <2>2, <3>1
    <3> QED BY <2>1, <2>2, <3>2, FS_Subset
  <2> QED BY <2>3 DEF Complete
<1> QED BY <1>1, <1>7, <1>8 DEF Good

\* A stack that is found has room, and so has a free place.
OnStack(S, d, k, self) ==
    /\ d.c \in CarriedIn(S) /\ d.i \in DOMAIN S[d.c] /\ d.target = d.i
    /\ <<d.c, d.i>> # self
    /\ Room(S[d.c][d.i], k) > 0
    /\ d.c = Player => Fits(k, d.i)

OnPlace(S, d, k) ==
    /\ d.c \in CarriedIn(S) /\ d.target = 0
    /\ Accepts(S, d.c, d.i, k)
    /\ d.c = Player => d.i \in DOMAIN S[Player] /\ S[Player][d.i] = Nothing
    /\ d.c # Player => d.c \in Bag /\ Free(S, d.c) > 0

Nowhere == [c |-> Player, i |-> 0, target |-> 0]

\* Places of the cylinders that are searched.
StackIn(S, Q, k, self, offered) ==
    \E c \in Q : \E i \in Visible(S, c) :
        /\ <<c, i>> # self /\ ~OnOffer(S, c, i, offered)
        /\ Room(S[c][i], k) > 0 /\ (c = Player => Fits(k, i))
PlaceIn(S, Q, k) ==
    \E c \in Q :
        \/ c = Player /\ \E i \in DOMAIN S[c] : S[c][i] = Nothing /\ Accepts(S, c, i, k)
        \/ c # Player /\ Free(S, c) > 0 /\ Accepts(S, c, Len(S[c]) + 1, k)

LEMMA SearchIs ==
    ASSUME NEW S, Sound(S, {}), NEW k, NEW self, NEW offered
    PROVE  LET d == Search(S, k, self, offered)
               Q == ToSet(Searched(S, k, offered))
           IN  \/ OnStack(S, d, k, self)
               \/ OnPlace(S, d, k)
               \/ d = Nowhere /\ ~StackIn(S, Q, k, self, offered) /\ ~PlaceIn(S, Q, k)
<1> DEFINE q == Searched(S, k, offered)
           d == Search(S, k, self, offered)
           stacks == Stacks(S, q, k, self, offered)
           places == FreePlaces(S, q, k)
           empty(c) == IF c = Player THEN {i \in DOMAIN S[Player] : S[Player][i] = Nothing}
                       ELSE {i \in {Len(S[c]) + 1} : Free(S, c) > 0}
<1>0. Tidy(S) /\ S \in Worlds
  BY DEF Sound, Tidy
<1>1. d = Best(q, stacks, places)
  BY DEF Search
<1>2. /\ q \in Seq(Cylinder) /\ ToSet(q) \subseteq CarriedIn(S)
      /\ ToSet(q) \subseteq {Player} \cup Bag
  BY SearchedHas
<1> HIDE DEF q
<1>3. stacks \in SUBSET (Nat \X Nat)
  <2>1. PlacesIn(S, q) \in SUBSET (Nat \X Nat)
    BY <1>0, <1>2, PlacesAre
  <2> QED BY <2>1 DEF Stacks
<1>4. \A p \in places : \E j \in DOMAIN q : \E i \in empty(q[j]) :
            p = <<j, i>> /\ Accepts(S, q[j], i, k)
  BY DEF FreePlaces
<1>5. \A j \in DOMAIN q : /\ q[j] \in Cylinder /\ j \in Nat /\ empty(q[j]) \subseteq Nat
                          /\ q[j] \in ToSet(q)
  <2> TAKE j \in DOMAIN q
  <2>1. q[j] \in Cylinder /\ j \in Nat /\ Player \in Cylinder
    BY <1>2, KindsAre
  <2>2. S[q[j]] \in Seq(Items) /\ S[Player] \in Seq(Items)
    BY <1>0, <2>1, WorldsAre
  <2> QED BY <2>1, <2>2 DEF ToSet
<1>6. places \in SUBSET (Nat \X Nat)
  BY <1>4, <1>5
<1>7. CASE stacks # {}
  <2> DEFINE p == First(stacks)
  <2>1. p \in stacks
    BY <1>3, <1>7, FirstIs
  <2>2. d = [c |-> q[p[1]], i |-> p[2], target |-> p[2]]
    BY <1>1, <1>7 DEF Best, Found
  <2>3. /\ p \in PlacesIn(S, q) /\ <<q[p[1]], p[2]>> # self
        /\ Room(At(S, q, p), k) > 0 /\ (q[p[1]] = Player => Fits(k, p[2]))
    BY <2>1 DEF Stacks
  <2> HIDE DEF p, d
  <2>4. p[1] \in DOMAIN q /\ p[2] \in DOMAIN S[q[p[1]]]
    BY <1>0, <1>2, <2>3, PlacesAre
  <2>5. OnStack(S, d, k, self)
    BY <1>2, <1>5, <2>2, <2>3, <2>4 DEF OnStack, At
  <2> QED BY <2>5 DEF d
<1>8. CASE stacks = {} /\ places # {}
  <2> DEFINE p == First(places)
  <2>1. p \in places
    <3> HIDE DEF places
    <3> QED BY <1>6, <1>8, FirstIs
  <2>2. d = [c |-> q[p[1]], i |-> p[2], target |-> 0]
    BY <1>1, <1>8 DEF Best, Found
  <2>3. PICK j \in DOMAIN q : \E i \in empty(q[j]) : p = <<j, i>> /\ Accepts(S, q[j], i, k)
    BY <1>4, <2>1
  <2>4. PICK i \in empty(q[j]) : p = <<j, i>> /\ Accepts(S, q[j], i, k)
    BY <2>3
  <2> HIDE DEF p, d
  <2>5. d = [c |-> q[j], i |-> i, target |-> 0]
    BY <2>2, <2>4
  <2>6. q[j] \in CarriedIn(S) /\ (q[j] # Player => q[j] \in Bag)
    BY <1>2, <1>5
  <2>7. q[j] = Player => i \in DOMAIN S[Player] /\ S[Player][i] = Nothing
    BY <2>4
  <2>8. q[j] # Player => Free(S, q[j]) > 0
    BY <2>4
  <2>9. OnPlace(S, d, k)
    BY <2>4, <2>5, <2>6, <2>7, <2>8 DEF OnPlace
  <2> QED BY <2>9 DEF d
<1>9. CASE stacks = {} /\ places = {}
  <2>1. d = Nowhere
    BY <1>1, <1>9 DEF Best, Nowhere
  <2>2. \A c \in ToSet(q) : \E j \in DOMAIN q : c = q[j]
    BY DEF ToSet
  <2>3. ~StackIn(S, ToSet(q), k, self, offered)
    <3> SUFFICES ASSUME NEW c \in ToSet(q), NEW i \in Visible(S, c), <<c, i>> # self,
                        ~OnOffer(S, c, i, offered), Room(S[c][i], k) > 0, c = Player => Fits(k, i)
                 PROVE  FALSE
      BY DEF StackIn
    <3>1. PICK j \in DOMAIN q : c = q[j]
      BY <2>2
    <3>2. <<j, i>> \in PlacesIn(S, q)
      BY <3>1 DEF PlacesIn
    <3>3. <<j, i>> \in stacks
      BY <3>1, <3>2 DEF Stacks, At
    <3> QED BY <1>9, <3>3
  <2>4. \A j \in DOMAIN q : \A i \in empty(q[j]) : ~Accepts(S, q[j], i, k)
    <3> SUFFICES ASSUME NEW j \in DOMAIN q, NEW i \in empty(q[j]), Accepts(S, q[j], i, k)
                 PROVE  FALSE
      OBVIOUS
    <3>1. <<j, i>> \in places
      BY DEF FreePlaces
    <3> QED BY <1>9, <3>1
  <2>5. ~PlaceIn(S, ToSet(q), k)
    BY <2>2, <2>4 DEF PlaceIn
  <2> QED BY <2>1, <2>3, <2>5 DEF q
<1> QED BY <1>7, <1>8, <1>9

-----------------------------------------------------------------------------
(* Where a thing that is moved may come to.                                *)

\* On a stack, or where there is nothing: only in bags and on the ground is
\* there always a place.
FitFor(S, d) ==
    /\ d.c \in Cylinder
    /\ d.target = 0 \/ (d.target \in DOMAIN S[d.c] /\ S[d.c][d.target] # Nothing)
    /\ d.c = Player =>
          \/ d.target = d.i
          \/ d.target = 0 /\ (d.i \in DOMAIN S[Player] => S[Player][d.i] = Nothing)

LEMMA QueryFits ==
    ASSUME NEW S, Sound(S, {}), NEW c \in Cylinder, NEW i, NEW k, NEW self, NEW offered
    PROVE  FitFor(S, QueryDestination(S, c, i, k, self, offered))
<1> DEFINE here == IF i \in DOMAIN S[c] /\ S[c][i] # Nothing THEN i ELSE 0
           stacks == {j \in DOMAIN S[c] : <<c, j>> # self /\ Room(S[c][j], k) > 0}
           parent == CHOOSE d \in Cylinder : \E j \in DOMAIN S[d] : S[d][j].kind = c
           d == QueryDestination(S, c, i, k, self, offered)
<1>0. Tidy(S) /\ S \in Worlds /\ S[c] \in Seq(Items) /\ S[Player] \in Seq(Items)
  BY WorldsAre, KindsAre DEF Sound, Tidy
<1>1. \A b \in Cylinder : FitFor(S, Into(b))
  <2> TAKE b \in Cylinder
  <2>1. 0 \notin DOMAIN S[Player]
    BY <1>0
  <2> QED BY <2>1 DEF FitFor, Into
<1>2. CASE c = Ground
  <2>1. d = [c |-> c, i |-> i, target |-> IF S[Ground] = <<>> THEN 0 ELSE 1]
    BY <1>2 DEF QueryDestination
  <2>2. S[Ground] # <<>> => 1 \in DOMAIN S[Ground] /\ S[Ground][1] # Nothing
    <3>1. S[Ground] # <<>> => 1 \in DOMAIN S[Ground]
      BY <1>0, <1>2
    <3> QED BY <1>0, <1>2, <3>1, KindsAre DEF Tidy
  <2> QED BY <1>2, <2>1, <2>2, KindsAre DEF FitFor
<1>3. CASE c = Player /\ i = 0
  <2>1. d = Search(S, k, self, offered)
    BY <1>3, KindsAre DEF QueryDestination
  <2> HIDE DEF d
  <2>2. \/ OnStack(S, d, k, self) \/ OnPlace(S, d, k) \/ d = Nowhere
    BY <2>1, SearchIs
  <2>3. CarriedIn(S) \subseteq Cylinder
    BY PlayerCarried
  <2>4. ASSUME OnStack(S, d, k, self) PROVE FitFor(S, d)
    <3>1. d.c \in Cylinder /\ d.i \in DOMAIN S[d.c] /\ Room(S[d.c][d.i], k) > 0 /\ d.target = d.i
      BY <2>3, <2>4 DEF OnStack
    <3>2. S[d.c][d.i] # Nothing
      BY <1>0, <3>1, RoomThere
    <3> QED BY <3>1, <3>2 DEF FitFor
  <2>5. ASSUME OnPlace(S, d, k) PROVE FitFor(S, d)
    BY <2>3, <2>5 DEF OnPlace, FitFor
  <2>6. ASSUME d = Nowhere PROVE FitFor(S, d)
    <3>1. 0 \notin DOMAIN S[Player]
      BY <1>0
    <3> QED BY <2>6, <3>1, KindsAre DEF Nowhere, FitFor
  <2>7. FitFor(S, d)
    BY <2>2, <2>4, <2>5, <2>6
  <2> QED BY <2>7 DEF d
<1>4. CASE c # Ground /\ ~(c = Player /\ i = 0) /\ i = Up
  <2>1. d = Into(IF parent \in Bag THEN parent ELSE c)
    BY <1>4 DEF QueryDestination
  <2>2. (IF parent \in Bag THEN parent ELSE c) \in Cylinder
    BY KindsAre
  <2> QED BY <1>1, <2>1, <2>2
<1>5. CASE c # Ground /\ ~(c = Player /\ i = 0) /\ i # Up /\ here # 0 /\ S[c][here].kind \in Bag
  <2>1. d = Into(S[c][here].kind)
    BY <1>5 DEF QueryDestination
  <2> QED BY <1>1, <1>5, <2>1, KindsAre
<1>6. CASE /\ c # Ground /\ ~(c = Player /\ i = 0) /\ i # Up
           /\ ~(here # 0 /\ S[c][here].kind \in Bag)
           /\ c \in Bag /\ self[1] # c /\ here \notin stacks /\ stacks # {}
  <2>1. d = [c |-> c, i |-> Min(stacks), target |-> Min(stacks)]
    BY <1>6 DEF QueryDestination
  <2>2. stacks \in SUBSET Nat
    BY <1>0
  <2>3. Min(stacks) \in stacks
    <3> HIDE DEF stacks
    <3> QED BY <1>6, <2>2, MinIs
  <2>4. \A j \in stacks : S[c][j] # Nothing
    BY <1>0, RoomThere
  <2>5. d.c = c /\ d.i = Min(stacks) /\ d.target = Min(stacks)
    BY <2>1
  <2>6. d.target \in DOMAIN S[d.c] /\ S[d.c][d.target] # Nothing
    BY <2>3, <2>4, <2>5
  <2> HIDE DEF d
  <2>7. FitFor(S, d)
    BY <1>6, <2>5, <2>6, KindsAre DEF FitFor
  <2> QED BY <2>7 DEF d
<1>7. CASE /\ c # Ground /\ ~(c = Player /\ i = 0) /\ i # Up
           /\ ~(here # 0 /\ S[c][here].kind \in Bag)
           /\ ~(c \in Bag /\ self[1] # c /\ here \notin stacks /\ stacks # {})
  <2>1. d = [c |-> c, i |-> i, target |-> here]
    BY <1>7 DEF QueryDestination
  <2>2. here = 0 \/ (here \in DOMAIN S[c] /\ S[c][here] # Nothing)
    OBVIOUS
  <2>3. here = i \/ (here = 0 /\ (i \in DOMAIN S[c] => S[c][i] = Nothing))
    <3>1. CASE i \in DOMAIN S[c] /\ S[c][i] # Nothing
      BY <3>1
    <3>2. CASE ~(i \in DOMAIN S[c] /\ S[c][i] # Nothing)
      BY <3>2
    <3> QED BY <3>1, <3>2
  <2> QED BY <2>1, <2>2, <2>3 DEF FitFor
<1> QED BY <1>2, <1>3, <1>4, <1>5, <1>6, <1>7

LEMMA DestinationFits ==
    ASSUME NEW S, Sound(S, {}), NEW c \in Cylinder, NEW i, NEW k, NEW self, NEW offered
    PROVE  /\ FitFor(S, Destination(S, c, i, k, self, offered))
           /\ DOMAIN Destination(S, c, i, k, self, offered) = {"c", "i", "target", "found"}
<1> DEFINE N == Cardinality(Bag) + 3
           Good(d, n) == /\ d.c \in Cylinder /\ (n > 0 => FitFor(S, d)) /\ (d.found => n > 0)
                         /\ DOMAIN d = {"c", "i", "target", "found"}
<1>1. PICK f : /\ f[0] = Asked(c, i)
               /\ \A j \in 1..N : f[j] = Ask(S, f[j - 1], k, self, offered)
               /\ Destination(S, c, i, k, self, offered) = f[N]
  BY DestinationIs
<1>2. N \in Nat /\ N > 0
  BY BagsCounted
<1>3. Good(f[0], 0)
  BY <1>1 DEF Asked
<1>4. ASSUME NEW d, NEW n \in Nat, Good(d, n) PROVE Good(Ask(S, d, k, self, offered), n + 1)
  <2>1. CASE d.found
    BY <1>4, <2>1 DEF Ask
  <2>2. CASE ~d.found
    <3> DEFINE e == QueryDestination(S, d.c, d.i, k, self, offered)
               a == Answer(d, e)
    <3>1. FitFor(S, e)
      BY <1>4, QueryFits
    <3>2. Ask(S, d, k, self, offered) = a
      BY <2>2 DEF Ask
    <3> HIDE DEF e
    <3>3. /\ a.c = e.c /\ a.i = e.i /\ a.target = e.target
          /\ DOMAIN a = {"c", "i", "target", "found"}
      BY DEF Answer
    <3> HIDE DEF a
    <3>4. FitFor(S, a)
      BY <3>1, <3>3 DEF FitFor
    <3> QED BY <3>2, <3>3, <3>4 DEF FitFor
  <2> QED BY <2>1, <2>2
<1> DEFINE A == {n \in Nat : n <= N => Good(f[n], n)}
<1> HIDE DEF Good
<1>5. 0 \in A
  BY <1>3
<1>6. ASSUME NEW n \in Nat, n \in A PROVE n + 1 \in A
  <2> SUFFICES ASSUME n + 1 <= N PROVE Good(f[n + 1], n + 1)
    OBVIOUS
  <2>1. n <= N /\ n + 1 \in 1..N /\ (n + 1) - 1 = n
    BY <1>2
  <2>2. f[n + 1] = Ask(S, f[n], k, self, offered)
    BY <1>1, <2>1
  <2>3. Good(f[n], n)
    BY <1>6, <2>1
  <2> QED BY <1>4, <2>2, <2>3
<1> HIDE DEF A
<1>7. Nat \subseteq A
  BY <1>5, <1>6, SetInduction
<1>8. Good(f[N], N)
  BY <1>2, <1>7 DEF A
<1> QED BY <1>1, <1>2, <1>8 DEF Good

-----------------------------------------------------------------------------
(* What a move keeps.                                                      *)

\* Everything is in its place, and as much is there as was.
Kept(S, T) == Sound(T, {}) /\ \A k : Total(T, k) = Total(S, k)

\* A thing that is taken out of one place and put into another.
LEMMA PutElsewhere ==
    ASSUME NEW S, Sound(S, {}), NEW T, Tidy(T), NEW V, Tidy(V),
           NEW from \in Cylinder, NEW c \in Cylinder, NEW k \in Kind, NEW m \in Nat,
           k \notin Stackable => m = 1,
           Comes(S, T, from, k, -m), Comes(T, V, c, k, m),
           c \in Bag => (k \in Bag => k \notin Enclosing(S, c))
    PROVE  Kept(S, V)
<1>0. S \in Worlds /\ T \in Worlds /\ k \in AnyKind /\ -m \in Int /\ m \in Int
  BY KindsAre DEF Sound, Tidy
<1>1. \A b : Total(V, b) = Total(S, b)
  <2> TAKE b
  <2>1. Total(T, b) = Total(S, b) + IF k = b THEN -m ELSE 0
    BY <1>0, ComesCount
  <2>2. Total(V, b) = Total(T, b) + IF k = b THEN m ELSE 0
    BY <1>0, ComesCount
  <2>3. Total(S, b) \in Nat
    BY <1>0, AmountIs, OnlyIs DEF Total
  <2> QED BY <2>1, <2>2, <2>3
<1>2. CASE k \notin Bag
  <2>1. Sound(T, {})
    BY <1>0, <1>2, SoundKept
  <2>2. Sound(V, {})
    BY <1>0, <1>2, <2>1, SoundKept
  <2> QED BY <1>1, <2>2 DEF Kept
<1>3. CASE k \in Bag
  <2>0. Comes(S, T, from, k, -1) /\ Comes(T, V, c, k, 1)
    BY <1>3, KindsAre
  <2>1. Sound(T, {k}) /\ \A E : Closed(S, E) => Closed(T, E)
    BY <1>3, <2>0, SoundOut
  <2> DEFINE E == IF c \in Bag THEN Enclosing(S, c) ELSE {c}
  <2>2. E \in SUBSET Cylinder /\ c \in E /\ k \notin E /\ Closed(S, E)
    <3>1. CASE c \in Bag
      BY <1>3, <3>1, EnclosingClosed DEF Sound
    <3>2. CASE c \notin Bag
      BY <1>3, <3>2 DEF Closed
    <3> QED BY <3>1, <3>2
  <2> HIDE DEF E
  <2>3. Sound(V, {})
    BY <1>3, <2>0, <2>1, <2>2, SoundIn
  <2> QED BY <1>1, <2>3 DEF Kept
<1> QED BY <1>2, <1>3

\* Taking a thing out leaves the others where they are, or one place before.
LEMMA TakeOutLeaves ==
    ASSUME NEW S, Tidy(S), NEW c \in Cylinder, NEW i \in DOMAIN S[c], NEW n \in Nat
    PROVE  /\ c = Player => /\ DOMAIN TakeOut(S, c, i, n)[c] = DOMAIN S[c]
                            /\ \A j \in DOMAIN S[c] \ {i} : TakeOut(S, c, i, n)[c][j] = S[c][j]
           /\ S[c][i].kind \in Stackable /\ n # S[c][i].n =>
                /\ DOMAIN TakeOut(S, c, i, n)[c] = DOMAIN S[c]
                /\ \A j \in DOMAIN S[c] \ {i} : TakeOut(S, c, i, n)[c][j] = S[c][j]
           /\ c # Player /\ ~(S[c][i].kind \in Stackable /\ n # S[c][i].n) =>
                \A j \in DOMAIN S[c] \ {i} :
                    /\ (IF i < j THEN j - 1 ELSE j) \in DOMAIN TakeOut(S, c, i, n)[c]
                    /\ TakeOut(S, c, i, n)[c][IF i < j THEN j - 1 ELSE j] = S[c][j]
<1> DEFINE T == TakeOut(S, c, i, n)
<1>0. S \in Worlds /\ S[c] \in Seq(Items) /\ i \in Nat
  BY WorldsAre DEF Tidy
<1>1. CASE S[c][i].kind \in Stackable /\ n # S[c][i].n
  <2>1. T = [S EXCEPT ![c][i].n = @ + (-n)]
    BY <1>1 DEF TakeOut, Grown
  <2>2. T[c] = [S[c] EXCEPT ![i].n = @ + (-n)]
    BY <1>0, <2>1, WorldsAre
  <2>3. DOMAIN T[c] = DOMAIN S[c] /\ \A j \in DOMAIN S[c] \ {i} : T[c][j] = S[c][j]
    BY <1>0, <2>2
  <2> QED BY <1>1, <2>3
<1>2. CASE ~(S[c][i].kind \in Stackable /\ n # S[c][i].n) /\ c = Player
  <2>1. T = [S EXCEPT ![c] = [S[c] EXCEPT ![i] = Nothing]]
    BY <1>2 DEF TakeOut
  <2>2. T[c] = [S[c] EXCEPT ![i] = Nothing]
    BY <1>0, <2>1, WorldsAre
  <2>3. DOMAIN T[c] = DOMAIN S[c] /\ \A j \in DOMAIN S[c] \ {i} : T[c][j] = S[c][j]
    BY <1>0, <2>2
  <2> QED BY <1>2, <2>3
<1>3. CASE ~(S[c][i].kind \in Stackable /\ n # S[c][i].n) /\ c # Player
  <2>1. T = [S EXCEPT ![c] = RemoveAt(S[c], i)]
    BY <1>3 DEF TakeOut
  <2>2. T[c] = RemoveAt(S[c], i)
    BY <1>0, <2>1, WorldsAre
  <2> HIDE DEF T
  <2>3. /\ T[c] \in Seq(Items) /\ Len(T[c]) = Len(S[c]) - 1
        /\ \A j \in DOMAIN T[c] : T[c][j] = S[c][IF j < i THEN j ELSE j + 1]
    BY <1>0, <2>2, RemoveAtIs
  <2>4. ASSUME NEW j \in DOMAIN S[c] \ {i}
        PROVE  /\ (IF i < j THEN j - 1 ELSE j) \in DOMAIN T[c]
               /\ T[c][IF i < j THEN j - 1 ELSE j] = S[c][j]
    <3>0. i \in 1..Len(S[c]) /\ j \in 1..Len(S[c]) /\ Len(S[c]) \in Nat /\ j # i
      BY <1>0
    <3>1. CASE i < j
      <4>1. j - 1 \in DOMAIN T[c] /\ ~(j - 1 < i) /\ (j - 1) + 1 = j
        BY <2>3, <3>0, <3>1
      <4> QED BY <2>3, <3>1, <4>1
    <3>2. CASE ~(i < j)
      <4>1. j \in DOMAIN T[c] /\ j < i
        BY <2>3, <3>0, <3>2
      <4> QED BY <2>3, <3>2, <4>1
    <3> QED BY <3>1, <3>2
  <2> QED BY <1>3, <2>4 DEF T
<1> QED BY <1>1, <1>2, <1>3

\* What is taken out of a slot leaves it empty.
LEMMA SlotEmptied ==
    ASSUME NEW S, Tidy(S), NEW i \in DOMAIN S[Player], NEW n,
           S[Player][i].kind \in Stackable => n = S[Player][i].n
    PROVE  /\ TakeOut(S, Player, i, n)[Player][i] = Nothing
           /\ i \in DOMAIN TakeOut(S, Player, i, n)[Player]
<1>0. S \in Worlds /\ S[Player] \in Seq(Items) /\ Player \in Cylinder
  BY WorldsAre, KindsAre DEF Tidy
<1>1. TakeOut(S, Player, i, n) = [S EXCEPT ![Player] = [S[Player] EXCEPT ![i] = Nothing]]
  BY DEF TakeOut
<1> QED BY <1>0, <1>1, WorldsAre

\* What a move may do with a thing that is at a place.
Movement(S, from, at, d) ==
    /\ Sound(S, {})
    /\ from \in Cylinder /\ at \in DOMAIN S[from] /\ S[from][at] # Nothing
    /\ FitFor(S, d)
    /\ ~(d.c = from /\ d.target = at)
    /\ Accepts(S, d.c, d.i, S[from][at].kind)

\* A slot that accepts a thing is empty, or has a stack that is the target.
LEMMA SlotAccepts ==
    ASSUME NEW S, NEW from, NEW at, NEW d, Movement(S, from, at, d), d.c = Player
    PROVE  /\ d.i \in DOMAIN S[Player]
           /\ <<from, at>> # <<Player, d.i>>
           /\ \/ S[Player][d.i] = Nothing /\ d.target = 0
              \/ /\ d.target = d.i /\ S[Player][d.i] # Nothing
                 /\ SameStack(S, d.i, S[from][at].kind)
<1> DEFINE k == S[from][at].kind
<1>1. d.i \in DOMAIN S[Player] /\ (S[Player][d.i] = Nothing \/ SameStack(S, d.i, k))
  BY KindsAre DEF Movement, Accepts
<1>2. SameStack(S, d.i, k) => S[Player][d.i] # Nothing
  BY KindsAre DEF SameStack, Nothing, Thing
<1>3. d.target = d.i \/ (d.target = 0 /\ S[Player][d.i] = Nothing)
  BY <1>1 DEF Movement, FitFor
<1>4. d.target = 0 \/ S[Player][d.target] # Nothing
  BY DEF Movement, FitFor
<1>5. CASE S[Player][d.i] = Nothing
  <2>1. <<from, at>> # <<Player, d.i>>
    BY <1>5 DEF Movement
  <2>2. d.target = 0 \/ d.target = d.i
    BY <1>3
  <2> QED BY <1>1, <1>3, <1>4, <1>5, <2>1
<1>6. CASE S[Player][d.i] # Nothing
  <2>1. d.target = d.i /\ SameStack(S, d.i, k)
    BY <1>1, <1>3, <1>6
  <2>2. <<from, at>> # <<Player, d.i>>
    BY <2>1 DEF Movement
  <2> QED BY <1>1, <1>6, <2>1, <2>2
<1> QED BY <1>5, <1>6

\* How much may go: for a slot that is taken, as much as there is room for.
CanGo(S, from, at, m, d) ==
    LET e == S[from][at]
    IN  /\ m \in Nat \ {0}
        /\ e.kind \in Stackable => m <= e.n
        /\ d.c = Player /\ S[Player][d.i] # Nothing => m <= Room(S[Player][d.i], e.kind)

\* Something that does not stack goes as a whole.
LEMMA TransferOther ==
    ASSUME NEW S, NEW from, NEW at, NEW m, NEW d, Movement(S, from, at, d),
           CanGo(S, from, at, m, d), S[from][at].kind \notin Stackable
    PROVE  Kept(S, Transfer(S, from, at, m, d))
<1> DEFINE e == S[from][at]
           k == e.kind
           T == TakeOut(S, from, at, m)
           one == Thing(k, 1)
           V == Insert(T, d.c, d.i, one)
<1>0. /\ Tidy(S) /\ S \in Worlds /\ from \in Cylinder /\ at \in DOMAIN S[from] /\ m \in Nat /\ m > 0
      /\ d.c \in Cylinder
  BY DEF Movement, CanGo, Sound, Tidy, FitFor
<1>1. k \in Kind /\ e.n = 1
  BY <1>0, TidyThing DEF Movement
<1>2. Merged(S, d.c, d.target, k, m) = 0
  <2>1. d.target # 0 => Room(S[d.c][d.target], k) = 0
    BY DEF Room
  <2> QED BY <1>0, <2>1 DEF Merged, Least
<1>3. Transfer(S, from, at, m, d) = V
  BY <1>2 DEF Transfer
<1>4. Comes(S, T, from, k, -1) /\ Tidy(T)
  <2>1. Gone(e, m) = 1
    BY <1>1 DEF Gone
  <2>2. Comes(S, T, from, k, -Gone(e, m))
    BY <1>0, TakeOutIs
  <2>3. Tidy(T)
    BY <1>0, TidyTakeOut
  <2> QED BY <2>1, <2>2, <2>3
<1>5. d.c = Player => d.i \in DOMAIN T[Player] /\ T[Player][d.i] = Nothing
  <2> SUFFICES ASSUME d.c = Player PROVE d.i \in DOMAIN T[Player] /\ T[Player][d.i] = Nothing
    OBVIOUS
  <2>1. /\ d.i \in DOMAIN S[Player] /\ S[Player][d.i] = Nothing
        /\ <<from, at>> # <<Player, d.i>>
    BY SlotAccepts DEF SameStack
  <2>2. CASE from = Player
    <3>1. /\ DOMAIN T[from] = DOMAIN S[from]
          /\ \A j \in DOMAIN S[from] \ {at} : T[from][j] = S[from][j]
      BY <1>0, <2>2, TakeOutLeaves
    <3> QED BY <2>1, <2>2, <3>1
  <2>3. CASE from # Player
    <3>1. T[Player] = S[Player]
      BY <1>4, <2>3, KindsAre DEF Comes
    <3> QED BY <2>1, <3>1
  <2> QED BY <2>2, <2>3
<1>6. one.kind = k /\ one.n = 1 /\ one = Thing(one.kind, one.n) /\ one.n \in Counts(one.kind)
  BY InventoryAssumption DEF Thing, Counts, Most
<1> HIDE DEF T, one
<1>7. Tidy(V) /\ one \in Items
  BY <1>0, <1>1, <1>4, <1>5, <1>6, TidyInsert
<1>8. T \in Worlds
  BY <1>4 DEF Comes
<1>9. Comes(T, V, d.c, k, 1)
  BY <1>0, <1>5, <1>6, <1>7, <1>8, InsertIs
<1>10. d.c \in Bag => (k \in Bag => k \notin Enclosing(S, d.c))
  BY KindsAre DEF Movement, Accepts
<1> HIDE DEF V, e
<1>11. Sound(S, {})
  BY DEF Movement
<1>12. Kept(S, V)
  BY <1>0, <1>1, <1>4, <1>7, <1>9, <1>10, <1>11, PutElsewhere
<1> QED BY <1>3, <1>12

\* Of a stack some goes onto the other stack, and the rest beside it.
LEMMA TransferStack ==
    ASSUME NEW S, NEW from, NEW at, NEW m, NEW d, Movement(S, from, at, d),
           CanGo(S, from, at, m, d), S[from][at].kind \in Stackable
    PROVE  Kept(S, Transfer(S, from, at, m, d))
<1> DEFINE e == S[from][at]
           k == e.kind
           T == TakeOut(S, from, at, m)
           x == Merged(S, d.c, d.target, k, m)
           target == Target(S, from, at, k \notin Stackable \/ m = e.n, d)
           U == IF x > 0 THEN Grown(T, d.c, target, x) ELSE T
           r == m - x
           V == IF r > 0 THEN Insert(U, d.c, d.i, Thing(k, r)) ELSE U
<1>0. /\ Sound(S, {}) /\ Tidy(S) /\ S \in Worlds /\ from \in Cylinder /\ at \in DOMAIN S[from]
      /\ m \in Nat /\ m > 0 /\ d.c \in Cylinder /\ k \in AnyKind /\ k \in Kind /\ k \notin Bag
  BY KindsAre DEF Movement, CanGo, Sound, Tidy, FitFor
<1>1. e.n \in 1..StackSize /\ m <= e.n /\ StackSize \in Nat
  BY <1>0, TidyThing DEF Movement, CanGo
<1>2. Transfer(S, from, at, m, d) = V
  BY DEF Transfer
<1>3. Comes(S, T, from, k, -m) /\ Tidy(T) /\ T \in Worlds
  <2>1. Gone(e, m) = m
    BY DEF Gone
  <2>2. Comes(S, T, from, k, -Gone(e, m))
    BY <1>0, <1>1, TakeOutIs
  <2>3. Tidy(T)
    BY <1>0, <1>1, TidyTakeOut
  <2> QED BY <2>1, <2>2, <2>3 DEF Tidy
<1>4. x \in Nat /\ x <= m
      /\ (x > 0 => /\ d.target \in DOMAIN S[d.c] /\ S[d.c][d.target].kind = k
                   /\ S[d.c][d.target].n + x \in 1..StackSize)
  <2>1. CASE d.target = 0
    BY <1>0, <2>1 DEF Merged
  <2>2. CASE d.target # 0
    <3>1. d.target \in DOMAIN S[d.c] /\ S[d.c][d.target] # Nothing
      BY <2>2 DEF Movement, FitFor
    <3> DEFINE room == Room(S[d.c][d.target], k)
               o == S[d.c][d.target]
    <3>2. room \in Nat /\ (room > 0 => o.kind = k /\ room = StackSize - o.n)
      BY <1>0, <3>1, RoomIs
    <3>3. o.n \in 1..StackSize
      BY <1>0, <3>1, TidyThing
    <3>4. x = IF room < m THEN room ELSE m
      BY <2>2 DEF Merged, Least
    <3> HIDE DEF room, o, x
    <3>5. x \in Nat /\ x <= m /\ x <= room
      BY <1>0, <3>2, <3>4
    <3>6. x > 0 => o.kind = k /\ o.n + x \in 1..StackSize
      BY <1>1, <3>2, <3>3, <3>5
    <3> QED BY <3>1, <3>5, <3>6 DEF o
  <2> QED BY <2>1, <2>2
<1>5. x > 0 => target \in DOMAIN T[d.c] /\ T[d.c][target] = S[d.c][d.target]
  <2> SUFFICES ASSUME x > 0 PROVE target \in DOMAIN T[d.c] /\ T[d.c][target] = S[d.c][d.target]
    OBVIOUS
  <2>0. d.target \in DOMAIN S[d.c] /\ ~(from = d.c /\ at = d.target)
    BY <1>4 DEF Movement
  <2>1. CASE from # d.c
    <3>1. target = d.target
      BY <2>1 DEF Target
    <3>2. T[d.c] = S[d.c]
      BY <1>0, <1>3, <2>1 DEF Comes
    <3> QED BY <2>0, <3>1, <3>2
  <2>2. CASE from = d.c /\ (d.c = Player \/ m # e.n)
    <3>1. target = d.target
      BY <2>2 DEF Target
    <3>2. /\ DOMAIN T[from] = DOMAIN S[from]
          /\ \A j \in DOMAIN S[from] \ {at} : T[from][j] = S[from][j]
      BY <1>0, <2>2, TakeOutLeaves
    <3> QED BY <2>0, <2>2, <3>1, <3>2
  <2>3. CASE from = d.c /\ d.c # Player /\ m = e.n
    <3>1. target = IF at < d.target THEN d.target - 1 ELSE d.target
      BY <2>3 DEF Target
    <3>2. \A j \in DOMAIN S[from] \ {at} :
                    /\ (IF at < j THEN j - 1 ELSE j) \in DOMAIN T[from]
                    /\ T[from][IF at < j THEN j - 1 ELSE j] = S[from][j]
      BY <1>0, <2>3, TakeOutLeaves, SMTT(20), ZenonT(20)
    <3> QED BY <2>0, <2>3, <3>1, <3>2
  <2> QED BY <2>1, <2>2, <2>3
<1>6. d.c = Player /\ r > 0 =>
        /\ d.i \in DOMAIN S[Player] /\ S[Player][d.i] = Nothing /\ x = 0
        /\ <<from, at>> # <<Player, d.i>>
  <2> SUFFICES ASSUME d.c = Player, r > 0
               PROVE  /\ d.i \in DOMAIN S[Player] /\ S[Player][d.i] = Nothing /\ x = 0
                      /\ <<from, at>> # <<Player, d.i>>
    OBVIOUS
  <2>1. /\ d.i \in DOMAIN S[Player] /\ <<from, at>> # <<Player, d.i>>
        /\ \/ S[Player][d.i] = Nothing /\ d.target = 0
           \/ d.target = d.i /\ S[Player][d.i] # Nothing /\ SameStack(S, d.i, k)
    BY SlotAccepts
  <2>2. CASE d.target = d.i /\ S[Player][d.i] # Nothing
    <3>1. m <= Room(S[Player][d.i], k)
      BY <2>2 DEF CanGo
    <3>2. d.target # 0
      <4>1. S[Player] \in Seq(Items)
        BY <1>0, WorldsAre, KindsAre
      <4> QED BY <2>1, <2>2, <4>1
    <3>3. x = Least(Room(S[Player][d.i], k), m)
      BY <2>2, <3>2 DEF Merged
    <3>4. Room(S[Player][d.i], k) \in Nat
      BY <1>0, <2>1, RoomIs, KindsAre
    <3>5. x = m
      BY <1>0, <3>1, <3>3, <3>4 DEF Least
    <3> HIDE DEF x
    <3> QED BY <1>0, <3>5
  <2>3. CASE S[Player][d.i] = Nothing /\ d.target = 0
    BY <2>1, <2>3 DEF Merged
  <2> QED BY <2>1, <2>2, <2>3
<1> HIDE DEF x, target
<1>7. /\ Tidy(U) /\ U \in Worlds
      /\ \A b : Total(U, b) = Total(T, b) + IF k = b THEN x ELSE 0
      /\ \A M : Sound(T, M) => Sound(U, M)
  <2>1. CASE x > 0
    <3>1. U = Grown(T, d.c, target, x)
      BY <2>1
    <3>2. T[d.c][target].kind = k /\ T[d.c][target].n + x \in 1..StackSize /\ x \in Int
      BY <1>4, <1>5, <2>1
    <3> HIDE DEF T, U
    <3>3. Tidy(U)
      BY <1>0, <1>3, <1>5, <2>1, <3>1, <3>2, TidyGrown
    <3>4. Comes(T, U, d.c, k, x)
      <4>1. T[d.c][target].n + x \in Nat
        BY <3>2
      <4>2. Comes(T, Grown(T, d.c, target, x), d.c, T[d.c][target].kind, x)
        BY <1>0, <1>3, <1>5, <2>1, <3>2, <4>1, GrownIs
      <4> QED BY <3>1, <3>2, <4>2
    <3>5. \A b : Total(U, b) = Total(T, b) + IF k = b THEN x ELSE 0
      <4>1. T \in Worlds /\ d.c \in Cylinder /\ k \in AnyKind /\ x \in Int
        BY <1>0, <1>3, <3>2
      <4> HIDE DEF k
      <4>2. MoreOf(T, U, k, x)
        BY <3>4, <4>1, ComesMore
      <4> QED BY <4>2 DEF MoreOf
    <3>6. \A M : Sound(T, M) => Sound(U, M)
      BY <1>0, <3>2, <3>3, <3>4, SoundKept
    <3> QED BY <3>3, <3>5, <3>6 DEF Tidy
  <2>2. CASE ~(x > 0)
    <3>1. U = T /\ x = 0
      BY <1>4, <2>2
    <3>2. \A b : Total(T, b) \in Nat
      BY <1>3, AmountIs, OnlyIs DEF Total
    <3> HIDE DEF U, T
    <3> QED BY <1>3, <3>1, <3>2
  <2> QED BY <2>1, <2>2
<1>8. d.c = Player /\ r > 0 => d.i \in DOMAIN U[Player] /\ U[Player][d.i] = Nothing
  <2> SUFFICES ASSUME d.c = Player, r > 0
               PROVE d.i \in DOMAIN U[Player] /\ U[Player][d.i] = Nothing
    OBVIOUS
  <2>1. /\ d.i \in DOMAIN S[Player] /\ S[Player][d.i] = Nothing /\ U = T
        /\ <<from, at>> # <<Player, d.i>>
    BY <1>6
  <2>2. CASE from = Player
    <3>1. /\ DOMAIN T[from] = DOMAIN S[from]
          /\ \A j \in DOMAIN S[from] \ {at} : T[from][j] = S[from][j]
      BY <1>0, <2>2, TakeOutLeaves
    <3> HIDE DEF U, T
    <3> QED BY <2>1, <2>2, <3>1
  <2>3. CASE from # Player
    <3>1. T[Player] = S[Player]
      BY <1>3, <2>3, KindsAre DEF Comes
    <3> HIDE DEF U, T
    <3> QED BY <2>1, <3>1
  <2> QED BY <2>2, <2>3
<1> HIDE DEF U
<1>9. /\ \A b : Total(V, b) = Total(U, b) + IF k = b THEN r ELSE 0
      /\ \A M : Sound(U, M) => Sound(V, M)
  <2>1. CASE r > 0
    <3> DEFINE g == Thing(k, r)
    <3>1. V = Insert(U, d.c, d.i, g)
      BY <2>1
    <3>2. /\ g.kind = k /\ g.n = r /\ g = Thing(g.kind, g.n) /\ g.n \in Counts(g.kind)
          /\ r \in Int
      BY <1>0, <1>1, <1>4, <2>1 DEF Thing, Counts, Most
    <3> HIDE DEF g, V, r
    <3>3. Tidy(V) /\ g \in Items
      BY <1>0, <1>7, <1>8, <2>1, <3>1, <3>2, TidyInsert
    <3>4. Comes(U, V, d.c, k, r)
      BY <1>0, <1>7, <1>8, <2>1, <3>1, <3>2, <3>3, InsertIs
    <3>5. \A b : Total(V, b) = Total(U, b) + IF k = b THEN r ELSE 0
      <4>1. k \in AnyKind /\ r \in Int /\ U \in Worlds /\ d.c \in Cylinder
        BY <1>0, <1>7, <3>2
      <4>2. Comes(U, V, d.c, k, r)
        BY <3>4
      <4> HIDE DEF U, e, k, T
      <4>3. /\ \A b : Total(V, b) = Total(U, b) + IF k = b THEN r ELSE 0
            /\ \A c \in Cylinder : \A b :
                 Count(V, c, b) = Count(U, c, b) + IF c = d.c /\ k = b THEN r ELSE 0
        BY Z3T(60), <4>1, <4>2, ComesCount
      <4> QED BY <4>3
    <3>6. \A M : Sound(U, M) => Sound(V, M)
      BY <1>0, <3>2, <3>3, <3>4, SoundKept
    <3> QED BY <3>5, <3>6
  <2>2. CASE ~(r > 0)
    <3>1. V = U /\ r = 0
      BY <1>0, <1>4, <2>2
    <3>2. \A b : Total(U, b) \in Nat
      BY <1>7, AmountIs, OnlyIs DEF Total
    <3> HIDE DEF V, r
    <3> QED BY <3>1, <3>2
  <2> QED BY <2>1, <2>2
<1>10. Sound(T, {})
  <2>1. -m \in Int
    BY <1>0
  <2> HIDE DEF T
  <2> QED BY <1>0, <1>3, <2>1, SoundKept
<1>11. \A b : Total(T, b) = Total(S, b) + IF k = b THEN -m ELSE 0
  <2>1. -m \in Int
    BY <1>0
  <2> HIDE DEF T
  <2> QED BY <1>0, <1>3, <2>1, ComesCount
<1>12. \A b : Total(V, b) = Total(S, b)
  <2> TAKE b
  <2>1. Total(T, b) = Total(S, b) + IF k = b THEN -m ELSE 0
    BY <1>11
  <2>2. Total(U, b) = Total(T, b) + IF k = b THEN x ELSE 0
    BY <1>7
  <2>3. Total(V, b) = Total(U, b) + IF k = b THEN m - x ELSE 0
    BY <1>9
  <2>4. Total(S, b) \in Nat
    BY <1>0, AmountIs, OnlyIs DEF Total
  <2> HIDE DEF V, T, e
  <2> QED BY <1>0, <1>4, <2>1, <2>2, <2>3, <2>4
<1>13. Sound(V, {})
  BY <1>7, <1>9, <1>10
<1> HIDE DEF V
<1> QED BY <1>2, <1>12, <1>13 DEF Kept

LEMMA TransferKeeps ==
    ASSUME NEW S, NEW from, NEW at, NEW m, NEW d, Movement(S, from, at, d),
           CanGo(S, from, at, m, d)
    PROVE  Kept(S, Transfer(S, from, at, m, d))
BY TransferOther, TransferStack

LEMMA MostIs == \A k : Most(k) \in Nat /\ Most(k) > 0 /\ Counts(k) \subseteq Nat \ {0}
BY InventoryAssumption DEF Most, Counts

\* A slot that is taken has room only on its stack.
LEMMA MaxCountIs ==
    ASSUME NEW S, Tidy(S), NEW c \in Cylinder, NEW i, NEW k, NEW n \in Nat, NEW self,
           c = Player => i \in DOMAIN S[Player]
    PROVE  /\ MaxCount(S, c, i, k, n, self) \in Nat
           /\ c = Player /\ S[Player][i] # Nothing =>
                MaxCount(S, c, i, k, n, self) = Room(S[Player][i], k)
<1>1. CASE c = Ground
  BY <1>1, KindsAre DEF MaxCount
<1>2. CASE c \in Bag
  <2> DEFINE others == {j \in DOMAIN S[c] : <<c, j>> # self /\ i \in {0, j}}
             f == [j \in DOMAIN S[c] |-> Room(S[c][j], k)]
  <2>1. c # Ground /\ c # Player
    BY <1>2, KindsAre
  <2>2. MaxCount(S, c, i, k, n, self) = Free(S, c) * Most(k) + SumFunctionOnSet(f, others)
    BY <1>2, <2>1 DEF MaxCount
  <2>3. S[c] \in Seq(Items) /\ Capacity \in Nat
    BY WorldsAre, InventoryAssumption DEF Tidy
  <2>4. Free(S, c) \in Nat
    BY <2>3 DEF Free
  <2>5. IsFiniteSet(others)
    <3>1. IsFiniteSet(DOMAIN S[c])
      BY <2>3, FS_Interval
    <3> QED BY <3>1, FS_Subset
  <2>6. \A j \in others : f[j] \in Nat
    BY RoomIs
  <2> HIDE DEF f, others
  <2>7. SumFunctionOnSet(f, others) \in Nat
    BY <2>5, <2>6, SumNatural
  <2>8. Free(S, c) * Most(k) \in Nat
    BY <2>4, MostIs
  <2> QED BY <2>1, <2>2, <2>7, <2>8
<1>3. CASE c = Player
  <2>1. MaxCount(S, c, i, k, n, self) =
            IF S[Player][i] # Nothing THEN Room(S[Player][i], k)
            ELSE IF Accepts(S, Player, i, k) THEN Most(k) ELSE 0
    BY <1>3, KindsAre DEF MaxCount
  <2>2. Room(S[Player][i], k) \in Nat
    BY <1>3, RoomIs
  <2> QED BY <2>1, <2>2, MostIs
<1> QED BY <1>1, <1>2, <1>3 DEF Cylinder

LEMMA KeptSame ==
    ASSUME NEW S, Sound(S, {})
    PROVE  Kept(S, S)
BY DEF Kept

LEMMA MoveOnKeeps ==
    ASSUME NEW S, Sound(S, {}), NEW from \in Cylinder, NEW at \in DOMAIN S[from],
           S[from][at] # Nothing, NEW n \in Nat, NEW d, FitFor(S, d),
           ~(d.c = from /\ d.target = at)
    PROVE  Kept(S, MoveOn(S, from, at, n, d))
<1> DEFINE e == S[from][at]
           k == e.kind
           most == MaxCount(S, d.c, d.i, k, n, <<from, at>>)
           m == IF k \in Stackable THEN Least(n, most) ELSE most
           moves == Accepts(S, d.c, d.i, k) /\ m > 0 /\ (k \in Stackable => m <= e.n)
<1>1. MoveOn(S, from, at, n, d) = IF moves THEN Transfer(S, from, at, m, d) ELSE S
  BY DEF MoveOn, MoveUpTo
<1>2. CASE ~moves
  BY <1>1, <1>2, KeptSame
<1>3. CASE moves
  <2>1. Movement(S, from, at, d)
    BY <1>3 DEF Movement
  <2>2. Tidy(S) /\ d.c \in Cylinder
    BY DEF Sound, FitFor
  <2>3. d.c = Player => d.i \in DOMAIN S[Player]
    BY <2>1, SlotAccepts
  <2> HIDE DEF k
  <2>4. /\ most \in Nat
        /\ d.c = Player /\ S[Player][d.i] # Nothing => most = Room(S[Player][d.i], k)
    BY <2>2, <2>3, MaxCountIs
  <2> HIDE DEF most
  <2>5. m \in Nat /\ m <= most
    BY <2>4 DEF Least
  <2>6. CanGo(S, from, at, m, d)
    <3>1. m \in Nat \ {0} /\ (k \in Stackable => m <= e.n)
      BY <1>3, <2>5
    <3>2. d.c = Player /\ S[Player][d.i] # Nothing => m <= Room(S[Player][d.i], k)
      BY <2>4, <2>5
    <3> HIDE DEF m
    <3> QED BY <3>1, <3>2 DEF CanGo, k
  <2> HIDE DEF m
  <2>7. Kept(S, Transfer(S, from, at, m, d))
    BY <2>1, <2>6, TransferKeeps
  <2> QED BY <1>1, <1>3, <2>7
<1> QED BY <1>2, <1>3

\* A slot that needs an exchange comes to be empty, and what lay in it lies
\* before what is moved: that does not come out of another slot.
LEMMA ExchangedKeeps ==
    ASSUME NEW S, Sound(S, {}), NEW from \in Cylinder, NEW at \in DOMAIN S[from],
           S[from][at] # Nothing, NEW d, NeedsExchange(S, d.c, d.i, S[from][at].kind),
           Accepts(S, from, at, S[d.c][d.i].kind)
    PROVE  LET T == Exchanged(S, from, d)
           IN  /\ Kept(S, T)
               /\ d.c = Player /\ from # Player
               /\ at + 1 \in DOMAIN T[from] /\ T[from][at + 1] = S[from][at]
               /\ d.i \in DOMAIN T[Player] /\ T[Player][d.i] = Nothing
<1> DEFINE o == S[Player][d.i]
           U == TakeOut(S, Player, d.i, o.n)
           T == Insert(U, from, 0, o)
<1>1. /\ d.c = Player /\ d.i \in DOMAIN S[Player] /\ o # Nothing
      /\ ~SameStack(S, d.i, S[from][at].kind)
  BY DEF NeedsExchange
<1>2. Exchanged(S, from, d) = T
  BY <1>1 DEF Exchanged
<1>3. from # Player
  <2> SUFFICES ASSUME from = Player PROVE FALSE
    OBVIOUS
  <2>1. SameStack(S, at, o.kind)
    BY <1>1, KindsAre DEF Accepts
  <2>2. o.kind \in Stackable /\ S[from][at].kind = o.kind
    BY <2>1 DEF SameStack
  <2> QED BY <1>1, <2>2 DEF SameStack
<1>4. Tidy(S) /\ S \in Worlds /\ Player \in Cylinder
  BY KindsAre DEF Sound, Tidy
<1>5. /\ o.kind \in Kind /\ o.n \in Nat /\ o.n > 0 /\ o = Thing(o.kind, o.n)
      /\ (o.kind \notin Stackable => o.n = 1) /\ o.n \in Counts(o.kind)
  <2>1. /\ o.kind \in Kind /\ o.n \in 1..StackSize /\ o = Thing(o.kind, o.n)
        /\ (o.kind \notin Stackable => o.n = 1) /\ StackSize \in Nat
    BY <1>1, <1>4, TidyThing
  <2>2. o.n \in Counts(o.kind)
    BY <1>1, <1>4 DEF Tidy
  <2> QED BY <2>1, <2>2
<1>6. Tidy(U) /\ Comes(S, U, Player, o.kind, -o.n)
  <2>1. o.kind \in Stackable => o.n \in 1..o.n
    BY <1>5
  <2>2. Tidy(U)
    BY <1>1, <1>4, <1>5, <2>1, TidyTakeOut
  <2>3. Comes(S, U, Player, o.kind, -Gone(o, o.n))
    <3>1. o.kind \in Stackable => o.n <= o.n
      BY <1>5
    <3> QED BY <1>1, <1>4, <1>5, <3>1, TakeOutIs
  <2>4. Gone(o, o.n) = o.n
    BY DEF Gone
  <2> QED BY <2>2, <2>3, <2>4
<1>7. U[Player][d.i] = Nothing /\ d.i \in DOMAIN U[Player] /\ U[from] = S[from] /\ U \in Worlds
  <2>1. U[Player][d.i] = Nothing /\ d.i \in DOMAIN U[Player]
    BY <1>1, <1>4, SlotEmptied
  <2> QED BY <1>3, <1>6, <2>1 DEF Comes
<1> HIDE DEF o, U
<1>8. Tidy(T) /\ Comes(U, T, from, o.kind, o.n)
  <2>1. Tidy(T) /\ o \in Items
    BY <1>3, <1>5, <1>6, TidyInsert
  <2>2. Comes(U, T, from, o.kind, o.n)
    BY <1>3, <1>7, <2>1, InsertIs
  <2> QED BY <2>1, <2>2
<1>9. Kept(S, T)
  <2>1. from \in Bag => (o.kind \in Bag => o.kind \notin Enclosing(S, from))
    BY <1>1, KindsAre DEF Accepts, o
  <2> HIDE DEF T
  <2> QED BY <1>4, <1>5, <1>6, <1>8, <2>1, PutElsewhere
<1>10. T[Player] = U[Player]
  BY <1>3, <1>4, <1>8 DEF Comes
<1>11. at + 1 \in DOMAIN T[from] /\ T[from][at + 1] = S[from][at]
  <2>1. S[from] \in Seq(Items) /\ o \in Items
    BY <1>1, <1>4, ThingIs, WorldsAre DEF o
  <2>2. T = [U EXCEPT ![from] = <<o>> \o U[from]]
    BY <1>3 DEF Insert
  <2>3. T[from] = <<o>> \o S[from]
    BY <1>7, <2>2, WorldsAre
  <2> HIDE DEF T
  <2>4. /\ <<o>> \o S[from] \in Seq(Items)
        /\ Len(<<o>> \o S[from]) = Len(S[from]) + 1
        /\ (<<o>> \o S[from])[at + 1] = S[from][at]
    BY <2>1, PrependIs
  <2>5. T[from] \in Seq(Items) /\ Len(T[from]) = Len(S[from]) + 1 /\ T[from][at + 1] = S[from][at]
    BY <2>3, <2>4
  <2>6. at + 1 \in 1..Len(T[from])
    BY <2>1, <2>5
  <2> QED BY <2>5, <2>6
<1> HIDE DEF T
<1> QED BY <1>1, <1>2, <1>3, <1>7, <1>9, <1>10, <1>11

LEMMA MovedKeeps ==
    ASSUME NEW S, Sound(S, {}), NEW from \in Cylinder, NEW at \in DOMAIN S[from],
           S[from][at] # Nothing, NEW n \in Nat, NEW d, FitFor(S, d),
           DOMAIN d = {"c", "i", "target", "found"}, d.c \in Cylinder, NEW strong
    PROVE  Kept(S, Moved(S, from, at, n, d, strong))
<1> DEFINE needs == NeedsExchange(S, d.c, d.i, S[from][at].kind)
           other == S[d.c][d.i]
           exchangeable == /\ Accepts(S, from, at, other.kind)
                           /\ MaxCount(S, from, 0, other.kind, other.n, <<>>) > 0
           T == Exchanged(S, from, d)
           d2 == [d EXCEPT !.target = 0]
<1>0. Moved(S, from, at, n, d, strong) =
        IF d.c = from /\ d.target = at THEN S
        ELSE IF ~needs THEN MoveOn(S, from, at, n, d)
        ELSE IF ~exchangeable THEN S
        ELSE IF ~strong THEN T ELSE MoveOn(T, from, at + 1, n, d2)
  BY DEF Moved
<1>1. Kept(S, S)
  BY KeptSame
<1>2. ~(d.c = from /\ d.target = at) => Kept(S, MoveOn(S, from, at, n, d))
  BY MoveOnKeeps
<1>3. ASSUME needs, exchangeable
      PROVE  Kept(S, T) /\ Kept(S, MoveOn(T, from, at + 1, n, d2))
  <2>1. /\ Kept(S, T) /\ d.c = Player /\ from # Player
        /\ at + 1 \in DOMAIN T[from] /\ T[from][at + 1] = S[from][at]
        /\ d.i \in DOMAIN T[Player] /\ T[Player][d.i] = Nothing
    BY <1>3, ExchangedKeeps
  <2> HIDE DEF T
  <2>2. d2.c = Player /\ d2.i = d.i /\ d2.target = 0
    BY <2>1
  <2> HIDE DEF d2
  <2>3. FitFor(T, d2)
    BY <2>1, <2>2, KindsAre DEF FitFor
  <2>4. Sound(T, {})
    BY <2>1 DEF Kept
  <2>5. Kept(T, MoveOn(T, from, at + 1, n, d2))
    BY <2>1, <2>2, <2>3, <2>4, MoveOnKeeps
  <2>6. Kept(S, MoveOn(T, from, at + 1, n, d2))
    BY <2>1, <2>5 DEF Kept
  <2> QED BY <2>1, <2>6
<1> HIDE DEF T, needs, exchangeable, d2
<1> QED BY <1>0, <1>1, <1>2, <1>3

\* However a thing is moved.
LEMMA MovesKeep ==
    ASSUME NEW S, Sound(S, {}), NEW p \in Movable(S), NEW c \in Cylinder, NEW i,
           NEW T \in Moves(S, p, c, i)
    PROVE  Kept(S, T)
<1> DEFINE k == S[p[1]][p[2]].kind
           to(offered) == Destination(S, c, i, k, p, offered)
<1>1. /\ p = <<p[1], p[2]>> /\ p[1] \in Cylinder /\ p[2] \in DOMAIN S[p[1]]
      /\ S[p[1]][p[2]] # Nothing
  BY DEF Movable, Positions
<1> DEFINE offers == IF c = Player /\ i = 0 THEN Offers(S) ELSE {<<>>}
           strengths == {s \in BOOLEAN : s \/ (c = Player /\ i # 0)}
<1>2. Moves(S, p, c, i) =
        {Moved(S, p[1], p[2], n, e, strong) :
            n \in Counts(k), strong \in strengths, e \in {to(offered) : offered \in offers}}
  BY DEF Moves
<1> HIDE DEF offers, strengths
<1>3. PICK n \in Counts(k), strong \in strengths, e \in {to(offered) : offered \in offers} :
            T = Moved(S, p[1], p[2], n, e, strong)
  BY <1>2
<1>7. PICK offered : e = to(offered)
  BY <1>3
<1>4. n \in Nat
  BY MostIs
<1> DEFINE d == to(offered)
<1>5. FitFor(S, d) /\ DOMAIN d = {"c", "i", "target", "found"}
  BY DestinationFits
<1> HIDE DEF k, to, d
<1>6. T = Moved(S, p[1], p[2], n, d, strong) /\ d.c \in Cylinder
  BY <1>3, <1>5, <1>7 DEF d, FitFor
<1> QED BY <1>1, <1>4, <1>5, <1>6, MovedKeeps

-----------------------------------------------------------------------------
(* Adding.                                                                 *)

\* From S to T, x more of the kind k have come, wherever to.
More(S, T, k, x) ==
    /\ Sound(T, {}) /\ SameBags(S, T)
    /\ \A w \in Weights : Amount(T, Cylinder, w) = Amount(S, Cylinder, w) + w[k] * x
    /\ \A C \in SUBSET Cylinder, w \in Weights : Amount(T, C, w) <= Amount(S, C, w) + w[k] * x

LEMMA MoreNone ==
    ASSUME NEW S, Sound(S, {}), NEW k \in AnyKind
    PROVE  More(S, S, k, 0)
<1>1. S \in Worlds
  BY DEF Sound, Tidy
<1>2. \A w \in Weights : w[k] * 0 = 0
  <2> TAKE w \in Weights
  <2>1. w[k] \in Nat
    BY DEF Weights
  <2> QED BY <2>1
<1>3. \A C \in SUBSET Cylinder, w \in Weights : Amount(S, C, w) \in Nat
  BY <1>1, AmountIs
<1> QED BY <1>2, <1>3 DEF More, SameBags

LEMMA MoreThen ==
    ASSUME NEW S, NEW T, NEW k \in Kind \ Bag, NEW x \in Nat, More(S, T, k, x), S \in Worlds,
           NEW U, Tidy(U), NEW c \in Cylinder, NEW m \in Nat, Comes(T, U, c, k, m)
    PROVE  More(S, U, k, x + m)
<1>0. k \in AnyKind \ Bag /\ m \in Int /\ Sound(T, {}) /\ T \in Worlds /\ U \in Worlds
  BY KindsAre DEF More, Sound, Tidy
<1>1. Sound(U, {}) /\ SameBags(T, U)
  BY <1>0, SoundKept
<1>2. SameBags(S, U)
  BY <1>1 DEF SameBags, More
<1>3. ASSUME NEW C \in SUBSET Cylinder, NEW w \in Weights
      PROVE  /\ Amount(U, C, w) <= Amount(S, C, w) + w[k] * (x + m)
             /\ C = Cylinder => Amount(U, C, w) = Amount(S, C, w) + w[k] * (x + m)
  <2>1. w[k] \in Nat
    BY <1>0 DEF Weights
  <2>2. Amount(U, C, w) = Amount(T, C, w) + IF c \in C THEN w[k] * m ELSE 0
    BY DEF Comes
  <2>3. /\ Amount(T, C, w) <= Amount(S, C, w) + w[k] * x
        /\ C = Cylinder => Amount(T, C, w) = Amount(S, C, w) + w[k] * x
    BY DEF More
  <2>4. Amount(T, C, w) \in Nat /\ Amount(S, C, w) \in Nat
    BY <1>0, AmountIs
  <2>5. w[k] * (x + m) = w[k] * x + w[k] * m /\ w[k] * x \in Int /\ w[k] * m \in Nat
    BY <2>1, Times
  <2> DEFINE xx == w[k] * x
             mm == w[k] * m
  <2> HIDE DEF xx, mm
  <2>6. /\ Amount(U, C, w) = Amount(T, C, w) + IF c \in C THEN mm ELSE 0
        /\ Amount(T, C, w) <= Amount(S, C, w) + xx
        /\ C = Cylinder => Amount(T, C, w) = Amount(S, C, w) + xx
        /\ w[k] * (x + m) = xx + mm /\ xx \in Int /\ mm \in Nat
    BY <2>2, <2>3, <2>5 DEF xx, mm
  <2> QED BY <2>4, <2>6
<1> QED BY <1>1, <1>2, <1>3 DEF More

\* What a search says of a place.
LEMMA SearchSays ==
    ASSUME NEW S, Sound(S, {}), NEW k \in Kind \ Bag, NEW offered
    PROVE  LET d == Search(S, k, <<>>, offered)
               Q == ToSet(Searched(S, k, offered))
           IN  /\ d.c \in Cylinder
               /\ d.target # 0 => OnStack(S, d, k, <<>>) /\ Accepts(S, d.c, d.i, k)
               /\ d.target = 0 /\ Accepts(S, d.c, d.i, k) => OnPlace(S, d, k)
               /\ StackIn(S, Q, k, <<>>, offered) \/ PlaceIn(S, Q, k) => Accepts(S, d.c, d.i, k)
<1> DEFINE d == Search(S, k, <<>>, offered)
           Q == ToSet(Searched(S, k, offered))
<1>0. Tidy(S) /\ S \in Worlds /\ CarriedIn(S) \subseteq Cylinder
  BY PlayerCarried DEF Sound, Tidy
<1>1. \/ OnStack(S, d, k, <<>>)
      \/ OnPlace(S, d, k)
      \/ d = Nowhere /\ ~StackIn(S, Q, k, <<>>, offered) /\ ~PlaceIn(S, Q, k)
  BY SearchIs
<1> HIDE DEF d, Q
<1>2. CASE OnStack(S, d, k, <<>>)
  <2>1. d.c \in Cylinder /\ d.i \in DOMAIN S[d.c] /\ d.target = d.i /\ Room(S[d.c][d.i], k) > 0
    BY <1>0, <1>2 DEF OnStack
  <2>2. d.i # 0
    <3>1. S[d.c] \in Seq(Items)
      BY <1>0, <2>1, WorldsAre
    <3> QED BY <2>1, <3>1
  <2>3. S[d.c][d.i].kind = k /\ k \in Stackable
    BY <1>0, <2>1, RoomIs
  <2>4. Accepts(S, d.c, d.i, k)
    <3>1. CASE d.c = Player
      BY <1>2, <2>1, <2>3, <3>1 DEF Accepts, SameStack, OnStack
    <3>2. CASE d.c # Player
      BY <2>1, <2>2, <3>2 DEF Accepts, Cylinder
    <3> QED BY <3>1, <3>2
  <2> QED BY <1>2, <2>1, <2>2, <2>4 DEF d, Q
<1>3. CASE OnPlace(S, d, k)
  BY <1>0, <1>3 DEF OnPlace, d, Q
<1>4. CASE d = Nowhere /\ ~StackIn(S, Q, k, <<>>, offered) /\ ~PlaceIn(S, Q, k)
  <2>1. d.c = Player /\ d.i = 0 /\ d.target = 0
    BY <1>4 DEF Nowhere
  <2>2. Player \in Cylinder /\ Player # Ground /\ Player \notin Bag
    BY KindsAre
  <2>3. 0 \notin DOMAIN S[Player]
    <3>1. S[Player] \in Seq(Items)
      BY <1>0, <2>2, WorldsAre
    <3> QED BY <3>1
  <2>4. ~Accepts(S, d.c, d.i, k)
    BY <2>1, <2>2, <2>3 DEF Accepts
  <2> QED BY <1>4, <2>1, <2>2, <2>4 DEF d, Q
<1> QED BY <1>1, <1>2, <1>3, <1>4

\* What has been filled so far: while something is left, the first stack that
\* took something still has what it had, and more.
Filled(S, k, n, a) ==
    /\ DOMAIN a = {"S", "left", "stuck", "first"} /\ a.stuck \in BOOLEAN
    /\ a.left \in 0..n
    /\ More(S, a.S, k, n - a.left)
    /\ a.first.n \in 0..(n - a.left)
    /\ a.stuck => a.left > 0
    /\ a.left > 0 /\ a.first.n > 0 =>
          /\ k \in Stackable
          /\ a.first.c \in Cylinder /\ a.first.i \in DOMAIN a.S[a.first.c]
          /\ a.S[a.first.c][a.first.i].kind = k
          /\ a.S[a.first.c][a.first.i].n > a.first.n

LEMMA CountsIn ==
    ASSUME NEW k \in Kind, NEW n \in Counts(k), NEW m \in 1..n
    PROVE  m \in Counts(k) /\ n \in Nat /\ m \in Nat
BY InventoryAssumption DEF Counts, Most

\* All that is left goes to a free place.
LEMMA FillPlace ==
    ASSUME NEW S \in Worlds, NEW k \in Kind \ Bag, NEW n \in Counts(k), NEW a, Filled(S, k, n, a),
           a.left > 0, ~a.stuck, NEW d, OnPlace(a.S, d, k)
    PROVE  LET T == Insert(a.S, d.c, d.i, Thing(k, a.left))
           IN  /\ Filled(S, k, n, [a EXCEPT !.S = T, !.left = 0])
               /\ Comes(a.S, T, d.c, k, a.left)
<1> DEFINE e == Thing(k, a.left)
           R == a.S
           T == Insert(R, d.c, d.i, e)
           b == [a EXCEPT !.S = T, !.left = 0]
<1>0. /\ Sound(R, {}) /\ Tidy(R) /\ R \in Worlds /\ n \in Nat /\ a.left \in 1..n
      /\ k \in AnyKind /\ d.c \in Cylinder /\ a.left \in Nat /\ a.left \in Counts(k)
  <2>1. Sound(R, {}) /\ a.left \in 0..n
    BY DEF Filled, More
  <2>2. n \in Nat
    BY MostIs
  <2>3. a.left \in 1..n
    BY <2>1, <2>2
  <2>4. Tidy(R) /\ R \in Worlds /\ d.c \in Cylinder
    BY <2>1, PlayerCarried DEF Sound, Tidy, OnPlace
  <2> QED BY <2>1, <2>2, <2>3, <2>4, CountsIn, KindsAre
<1>1. e.kind = k /\ e.n = a.left /\ e = Thing(e.kind, e.n) /\ e.n \in Counts(e.kind)
  BY <1>0 DEF Thing
<1>2. d.c = Player => d.i \in DOMAIN R[Player] /\ R[Player][d.i] = Nothing
  BY DEF OnPlace
<1> HIDE DEF e, R
<1>3. Tidy(T) /\ e \in Items
  BY <1>0, <1>1, <1>2, TidyInsert
<1>4. Comes(R, T, d.c, k, a.left)
  BY <1>0, <1>1, <1>2, <1>3, InsertIs
<1> HIDE DEF T
<1>5. More(S, T, k, n)
  <2>1. n - a.left \in Nat /\ (n - a.left) + a.left = n
    BY <1>0
  <2>2. More(S, R, k, n - a.left)
    BY DEF Filled, R
  <2>3. More(S, T, k, (n - a.left) + a.left)
    BY <1>0, <1>3, <1>4, <2>1, <2>2, MoreThen
  <2> QED BY <2>1, <2>3
<1>6. /\ DOMAIN b = DOMAIN a /\ b.S = T /\ b.left = 0 /\ b.stuck = a.stuck /\ b.first = a.first
  BY DEF Filled
<1>7. ~a.stuck => Filled(S, k, n, b)
  <2>1. n - 0 = n /\ 0 \in 0..n /\ ~(0 > 0)
    BY <1>0
  <2>2. a.first.n \in 0..n
    <3>1. a.first.n \in 0..(n - a.left)
      BY DEF Filled
    <3> QED BY <1>0, <3>1
  <2> HIDE DEF b
  <2> QED BY <1>5, <1>6, <2>1, <2>2 DEF Filled
<1> QED BY <1>4, <1>7 DEF T, R, e

\* A stack takes as much as it can.
LEMMA FillStack ==
    ASSUME NEW S \in Worlds, NEW k \in Kind \ Bag, NEW n \in Counts(k), NEW a, Filled(S, k, n, a),
           a.left > 0, ~a.stuck, NEW d, d.c \in Cylinder, OnStack(a.S, d, k, <<>>)
    PROVE  LET m == Merged(a.S, d.c, d.target, k, a.left)
               T == Grown(a.S, d.c, d.i, m)
               b == [a EXCEPT !.S = T, !.left = @ - m,
                              !.first = IF @.n = 0 THEN [c |-> d.c, i |-> d.i, n |-> m] ELSE @]
           IN  /\ Filled(S, k, n, b)
               /\ Comes(a.S, T, d.c, k, m)
               /\ T[d.c] = [a.S[d.c] EXCEPT ![d.i] = Thing(@.kind, @.n + m)]
               /\ m \in 1..a.left /\ m <= Room(a.S[d.c][d.i], k)
<1> DEFINE R == a.S
           m == Merged(R, d.c, d.target, k, a.left)
           T == Grown(R, d.c, d.i, m)
           one == [c |-> d.c, i |-> d.i, n |-> m]
           b == [a EXCEPT !.S = T, !.left = @ - m,
                          !.first = IF @.n = 0 THEN one ELSE @]
           o == R[d.c][d.i]
<1>0. /\ Sound(R, {}) /\ Tidy(R) /\ R \in Worlds /\ n \in Nat /\ a.left \in 1..n
      /\ k \in AnyKind /\ a.left \in Nat /\ d.i \in DOMAIN R[d.c]
  <2>1. Sound(R, {}) /\ a.left \in 0..n
    BY DEF Filled, More
  <2>2. n \in Nat
    BY MostIs
  <2>3. a.left \in 1..n
    BY <2>1, <2>2
  <2> QED BY <2>1, <2>2, <2>3, KindsAre DEF Sound, Tidy, OnStack
<1> HIDE DEF R
<1>1. /\ o.kind = k /\ k \in Stackable /\ o.n \in 1..StackSize /\ StackSize \in Nat
      /\ Room(o, k) = StackSize - o.n /\ Room(o, k) > 0
  <2>1. Room(o, k) > 0
    BY DEF OnStack, R
  <2>2. o.kind = k /\ k \in Stackable /\ o # Nothing /\ Room(o, k) = StackSize - o.n
    <3> DEFINE c == d.c
               i == d.i
    <3>1. Tidy(R) /\ c \in Cylinder /\ i \in DOMAIN R[c] /\ Room(R[c][i], k) > 0
      BY <1>0, <2>1
    <3> HIDE DEF c, i
    <3>2. /\ R[c][i].kind = k /\ k \in Stackable /\ R[c][i] # Nothing
          /\ Room(R[c][i], k) = StackSize - R[c][i].n
      BY <3>1, RoomIs
    <3> QED BY <3>2 DEF c, i
  <2>3. o.n \in 1..StackSize /\ StackSize \in Nat
    BY <1>0, <2>2, TidyThing
  <2> QED BY <2>1, <2>2, <2>3
<1>2. m = Least(Room(o, k), a.left)
  <2>1. d.target = d.i /\ d.i # 0
    <3>1. R[d.c] \in Seq(Items)
      BY <1>0, WorldsAre
    <3> QED BY <1>0, <3>1 DEF OnStack, R
  <2> QED BY <2>1 DEF Merged
<1> HIDE DEF m, o
<1>3. m \in 1..a.left /\ m <= Room(o, k) /\ m \in Nat /\ m > 0
  BY <1>0, <1>1, <1>2 DEF Least
<1>4. o.n + m \in 1..StackSize /\ m \in Int /\ o.n + m \in Nat
  BY <1>1, <1>3
<1>5. Tidy(T)
  BY <1>0, <1>1, <1>4, TidyGrown DEF o
<1>6. Comes(R, T, d.c, k, m) /\ T[d.c] = [R[d.c] EXCEPT ![d.i] = Thing(@.kind, @.n + m)]
  <2>1. /\ Comes(R, Grown(R, d.c, d.i, m), d.c, R[d.c][d.i].kind, m)
        /\ Grown(R, d.c, d.i, m)[d.c] = [R[d.c] EXCEPT ![d.i] = Thing(@.kind, @.n + m)]
    BY <1>0, <1>4, GrownIs DEF o
  <2> QED BY <1>1, <2>1 DEF o
<1> HIDE DEF T
<1>7. More(S, T, k, n - (a.left - m))
  <2>1. n - a.left \in Nat /\ (n - a.left) + m = n - (a.left - m)
    BY <1>0, <1>3
  <2>2. More(S, R, k, n - a.left)
    BY DEF Filled, R
  <2>3. More(S, T, k, (n - a.left) + m)
    BY <1>0, <1>3, <1>5, <1>6, <2>1, <2>2, MoreThen
  <2> QED BY <2>1, <2>3
<1>8. /\ DOMAIN T[d.c] = DOMAIN R[d.c] /\ T[d.c][d.i].kind = k /\ T[d.c][d.i].n = o.n + m
      /\ \A j \in DOMAIN R[d.c] \ {d.i} : T[d.c][j] = R[d.c][j]
      /\ \A c \in Cylinder \ {d.c} : T[c] = R[c]
  <2>1. \A c \in Cylinder \ {d.c} : T[c] = R[c]
    BY <1>6 DEF Comes
  <2>2. R[d.c] \in Seq(Items)
    BY <1>0, WorldsAre
  <2> QED BY <1>0, <1>1, <1>6, <2>1, <2>2 DEF Thing, o
<1>9. /\ DOMAIN b = DOMAIN a /\ b.S = T /\ b.left = a.left - m /\ b.stuck = a.stuck
      /\ b.first = IF a.first.n = 0 THEN one ELSE a.first
  BY DEF Filled
<1>10. one.c = d.c /\ one.i = d.i /\ one.n = m
  OBVIOUS
<1> HIDE DEF b, one
<1>11. a.first.n \in 0..(n - a.left)
  BY DEF Filled
<1>12. b.first.n \in 0..(n - b.left) /\ b.left \in 0..n
  BY <1>0, <1>3, <1>9, <1>10, <1>11
<1>13. /\ k \in Stackable
       /\ b.first.c \in Cylinder /\ b.first.i \in DOMAIN T[b.first.c]
       /\ T[b.first.c][b.first.i].kind = k
       /\ T[b.first.c][b.first.i].n > b.first.n
  <2>1. CASE a.first.n = 0
    <3>1. b.first.c = d.c /\ b.first.i = d.i /\ b.first.n = m
      BY <1>9, <1>10, <2>1
    <3>2. o.n + m > m
      BY <1>1, <1>3
    <3> QED BY <1>0, <1>1, <1>8, <3>1, <3>2
  <2>2. CASE a.first.n # 0
    <3> DEFINE c == a.first.c
               i == a.first.i
    <3>1. b.first = a.first
      BY <1>9, <2>2
    <3>2. a.first.n > 0 /\ a.first.n \in Nat
      BY <1>0, <1>11, <2>2
    <3>3. c \in Cylinder /\ i \in DOMAIN R[c] /\ R[c][i].kind = k /\ R[c][i].n > a.first.n
      BY <3>2 DEF Filled, R
    <3>4. CASE c = d.c /\ i = d.i
      <4>1. o.n + m > a.first.n
        BY <1>1, <1>3, <3>2, <3>3, <3>4 DEF o
      <4> QED BY <1>1, <1>8, <3>1, <3>3, <3>4, <4>1
    <3>5. CASE ~(c = d.c /\ i = d.i)
      <4>1. i \in DOMAIN T[c] /\ T[c][i] = R[c][i]
        <5> HIDE DEF c, i
        <5>1. CASE c = d.c
          <6>1. i # d.i
            BY <3>5, <5>1
          <6> QED BY <1>8, <3>3, <5>1, <6>1
        <5>2. CASE c # d.c
          BY <1>8, <3>3, <5>2
        <5> QED BY <5>1, <5>2
      <4> QED BY <1>1, <3>1, <3>3, <4>1
    <3> QED BY <3>4, <3>5
  <2> QED BY <2>1, <2>2
<1>14. Filled(S, k, n, b)
  <2>1. DOMAIN b = {"S", "left", "stuck", "first"} /\ b.stuck \in BOOLEAN /\ ~b.stuck
    BY <1>9 DEF Filled
  <2>2. More(S, b.S, k, n - b.left)
    BY <1>7, <1>9
  <2> QED BY <1>9, <1>12, <1>13, <2>1, <2>2 DEF Filled
<1> QED BY <1>3, <1>6, <1>14 DEF R, m, T, b, one, o

\* The place and the stack that Fill comes to.
FillsPlace(a, k, d, b) ==
    /\ OnPlace(a.S, d, k)
    /\ b = [a EXCEPT !.S = Insert(a.S, d.c, d.i, Thing(k, a.left)), !.left = 0]
FillsStack(a, k, d, m, b) ==
    /\ d.c \in Cylinder /\ OnStack(a.S, d, k, <<>>)
    /\ m = Merged(a.S, d.c, d.target, k, a.left)
    /\ b = [a EXCEPT !.S = Grown(a.S, d.c, d.i, m), !.left = @ - m,
                     !.first = IF @.n = 0 THEN [c |-> d.c, i |-> d.i, n |-> m] ELSE @]
GetsStuck(a, k, offered, b) ==
    /\ \/ CountedRoom(a.S, k, a.left) < a.left
       \/ LET Q == ToSet(Searched(a.S, k, offered))
          IN  ~StackIn(a.S, Q, k, <<>>, offered) /\ ~PlaceIn(a.S, Q, k)
    /\ b = [a EXCEPT !.stuck = TRUE]

LEMMA FillIs ==
    ASSUME NEW S, NEW k \in Kind \ Bag, NEW n \in Counts(k), NEW a, Filled(S, k, n, a),
           NEW offered
    PROVE  LET b == Fill(a, k, offered)
           IN  \/ (a.left = 0 \/ a.stuck) /\ b = a
               \/ /\ a.left > 0 /\ ~a.stuck
                  /\ \/ GetsStuck(a, k, offered, b)
                     \/ /\ ~(CountedRoom(a.S, k, a.left) < a.left)
                        /\ \/ \E d : FillsPlace(a, k, d, b)
                           \/ \E d, m : FillsStack(a, k, d, m, b)
<1> DEFINE b == Fill(a, k, offered)
           R == a.S
           d == Search(R, k, <<>>, offered)
           m == Merged(R, d.c, d.target, k, a.left)
           Q == ToSet(Searched(R, k, offered))
<1>1. CASE a.left = 0 \/ a.stuck
  BY <1>1 DEF Fill
<1>2. CASE ~(a.left = 0 \/ a.stuck)
  <2>1. a.left > 0 /\ ~a.stuck
    <3>1. n \in Nat /\ a.left \in 0..n
      BY MostIs DEF Filled
    <3> QED BY <1>2, <3>1
  <2>2. b = FillAt(a, k, d)
    BY <1>2 DEF Fill
  <2>3. b = IF ~Accepts(R, d.c, d.i, k) \/ CountedRoom(R, k, a.left) < a.left
            THEN [a EXCEPT !.stuck = TRUE]
            ELSE IF d.target = 0
            THEN [a EXCEPT !.S = Insert(a.S, d.c, d.i, Thing(k, a.left)), !.left = 0]
            ELSE [a EXCEPT !.S = Grown(a.S, d.c, d.i, m), !.left = @ - m,
                           !.first = IF @.n = 0 THEN [c |-> d.c, i |-> d.i, n |-> m] ELSE @]
    BY <2>2 DEF FillAt
  <2>4. /\ d.c \in Cylinder
        /\ d.target # 0 => OnStack(R, d, k, <<>>) /\ Accepts(R, d.c, d.i, k)
        /\ d.target = 0 /\ Accepts(R, d.c, d.i, k) => OnPlace(R, d, k)
        /\ StackIn(R, Q, k, <<>>, offered) \/ PlaceIn(R, Q, k) => Accepts(R, d.c, d.i, k)
    <3>1. Sound(R, {})
      BY DEF Filled, More
    <3> HIDE DEF R
    <3> QED BY <3>1, SearchSays
  <2> HIDE DEF b, d
  <2>5. CASE ~Accepts(R, d.c, d.i, k) \/ CountedRoom(R, k, a.left) < a.left
    <3>1. b = [a EXCEPT !.stuck = TRUE]
      BY <2>3, <2>5
    <3>2. GetsStuck(a, k, offered, b)
      BY <2>4, <2>5, <3>1 DEF GetsStuck
    <3> QED BY <2>1, <3>2 DEF b
  <2>6. CASE Accepts(R, d.c, d.i, k) /\ ~(CountedRoom(R, k, a.left) < a.left) /\ d.target = 0
    <3>1. FillsPlace(a, k, d, b)
      BY <2>3, <2>4, <2>6 DEF FillsPlace
    <3> QED BY <2>1, <2>6, <3>1 DEF b
  <2>7. CASE Accepts(R, d.c, d.i, k) /\ ~(CountedRoom(R, k, a.left) < a.left) /\ d.target # 0
    <3>1. FillsStack(a, k, d, m, b)
      BY <2>3, <2>4, <2>7 DEF FillsStack
    <3> QED BY <2>1, <2>7, <3>1 DEF b
  <2> QED BY <2>5, <2>6, <2>7
<1> QED BY <1>1, <1>2

LEMMA FillKeeps ==
    ASSUME NEW S \in Worlds, NEW k \in Kind \ Bag, NEW n \in Counts(k), NEW a, Filled(S, k, n, a),
           NEW offered
    PROVE  /\ Filled(S, k, n, Fill(a, k, offered))
           /\ LET b == Fill(a, k, offered) IN b.stuck \/ b.left = 0 \/ b.left < a.left
<1> DEFINE b == Fill(a, k, offered)
<1>0. a.left \in Nat /\ DOMAIN a = {"S", "left", "stuck", "first"}
  <2>1. n \in Nat /\ a.left \in 0..n
    BY MostIs DEF Filled
  <2> QED BY <2>1 DEF Filled
<1>1. CASE (a.left = 0 \/ a.stuck) /\ b = a
  BY <1>1
<1>2. ASSUME a.left > 0, ~a.stuck, GetsStuck(a, k, offered, b)
      PROVE  Filled(S, k, n, b) /\ b.stuck
  <2>1. b = [a EXCEPT !.stuck = TRUE]
    BY <1>2 DEF GetsStuck
  <2> HIDE DEF b
  <2>2. /\ DOMAIN b = DOMAIN a /\ b.S = a.S /\ b.left = a.left /\ b.first = a.first
        /\ b.stuck = TRUE
    BY <1>0, <2>1
  <2> QED BY <1>2, <2>2 DEF Filled
<1>3. ASSUME a.left > 0, ~a.stuck, NEW d, FillsPlace(a, k, d, b)
      PROVE  Filled(S, k, n, b) /\ b.left = 0
  <2>1. OnPlace(a.S, d, k)
    BY <1>3 DEF FillsPlace
  <2>2. b = [a EXCEPT !.S = Insert(a.S, d.c, d.i, Thing(k, a.left)), !.left = 0]
    BY <1>3 DEF FillsPlace
  <2>3. Filled(S, k, n, [a EXCEPT !.S = Insert(a.S, d.c, d.i, Thing(k, a.left)), !.left = 0])
    BY <1>3, <2>1, FillPlace
  <2>4. [a EXCEPT !.S = Insert(a.S, d.c, d.i, Thing(k, a.left)), !.left = 0].left = 0
    BY <1>0
  <2> HIDE DEF b
  <2> QED BY <2>2, <2>3, <2>4
<1>4. ASSUME a.left > 0, ~a.stuck, NEW d, NEW m, FillsStack(a, k, d, m, b)
      PROVE  Filled(S, k, n, b) /\ b.left < a.left
  <2> DEFINE M == Merged(a.S, d.c, d.target, k, a.left)
             B == [a EXCEPT !.S = Grown(a.S, d.c, d.i, M), !.left = @ - M,
                            !.first = IF @.n = 0 THEN [c |-> d.c, i |-> d.i, n |-> M] ELSE @]
  <2>1. d.c \in Cylinder /\ OnStack(a.S, d, k, <<>>)
    BY <1>4 DEF FillsStack
  <2>2. b = B
    BY <1>4 DEF FillsStack
  <2>3. Filled(S, k, n, B) /\ M \in 1..a.left
    BY <1>4, <2>1, FillStack
  <2>4. B.left = a.left - M
    BY <1>0
  <2> HIDE DEF b, B, M
  <2> QED BY <1>0, <2>2, <2>3, <2>4
<1>5. \/ (a.left = 0 \/ a.stuck) /\ b = a
      \/ /\ a.left > 0 /\ ~a.stuck
         /\ \/ GetsStuck(a, k, offered, b)
            \/ \E d : FillsPlace(a, k, d, b)
            \/ \E d, m : FillsStack(a, k, d, m, b)
  BY FillIs
<1> HIDE DEF b
<1> QED BY <1>1, <1>2, <1>3, <1>4, <1>5 DEF b

LEMMA BeginningFilled ==
    ASSUME NEW S, Sound(S, {}), NEW k \in Kind \ Bag, NEW n \in Counts(k)
    PROVE  Filled(S, k, n, Beginning(S, n))
<1> DEFINE a == Beginning(S, n)
<1>1. n \in Nat
  BY MostIs
<1>2. /\ DOMAIN a = {"S", "left", "stuck", "first"} /\ a.S = S /\ a.left = n /\ a.stuck = FALSE
      /\ a.first.n = 0
  BY DEF Beginning
<1>3. More(S, S, k, n - n)
  BY <1>1, MoreNone, KindsAre
<1> HIDE DEF a
<1>4. More(S, a.S, k, n - a.left)
  BY <1>2, <1>3
<1>5. /\ a.left \in 0..n /\ a.first.n \in 0..(n - a.left) /\ ~(a.first.n > 0)
      /\ a.stuck \in BOOLEAN /\ ~a.stuck
  <2>1. a.left \in 0..n /\ n - a.left = 0
    BY <1>1, <1>2
  <2>2. a.first.n \in 0..(n - a.left) /\ ~(a.first.n > 0)
    BY <1>2, <2>1
  <2>3. a.stuck \in BOOLEAN /\ ~a.stuck
    BY <1>2
  <2> QED BY <2>1, <2>2, <2>3
<1>6. Filled(S, k, n, a)
  BY <1>2, <1>4, <1>5 DEF Filled
<1> QED BY <1>6 DEF a

LEMMA AddedFilled ==
    ASSUME NEW S, Sound(S, {}), NEW k \in Kind \ Bag, NEW n \in Counts(k), NEW offered
    PROVE  LET a == Added(S, k, n, offered)
           IN  Filled(S, k, n, a) /\ (a.stuck \/ a.left = 0)
<1>0. n \in Nat /\ S \in Worlds
  BY MostIs DEF Sound, Tidy
<1>1. PICK f : /\ f[0] = Beginning(S, n)
               /\ \A i \in 1..n : f[i] = Fill(f[i - 1], k, offered)
               /\ Added(S, k, n, offered) = f[n]
  BY <1>0, AddedIs
<1> DEFINE Good(a, i) == Filled(S, k, n, a) /\ (a.stuck \/ a.left <= n - i)
           A == {i \in Nat : i <= n => Good(f[i], i)}
<1>2. 0 \in A
  <2>1. Filled(S, k, n, f[0])
    BY <1>1, BeginningFilled
  <2>2. f[0].left = n
    BY <1>1 DEF Beginning
  <2> QED BY <1>0, <2>1, <2>2
<1>3. ASSUME NEW i \in Nat, i \in A PROVE i + 1 \in A
  <2> SUFFICES ASSUME i + 1 <= n PROVE Good(f[i + 1], i + 1)
    OBVIOUS
  <2> DEFINE a == f[i]
             b == Fill(a, k, offered)
  <2>1. i <= n /\ i + 1 \in 1..n /\ (i + 1) - 1 = i
    BY <1>0
  <2>2. f[i + 1] = b /\ Good(a, i)
    BY <1>1, <1>3, <2>1
  <2> HIDE DEF a
  <2>3. Filled(S, k, n, b) /\ (b.stuck \/ b.left = 0 \/ b.left < a.left)
    BY <1>0, <2>2, FillKeeps
  <2>4. a.stuck => b = a
    BY DEF Fill
  <2>5. a.left \in 0..n /\ b.left \in 0..n
    BY <2>2, <2>3 DEF Filled
  <2> HIDE DEF b
  <2>6. b.stuck \/ b.left <= n - (i + 1)
    BY <1>0, <2>1, <2>2, <2>3, <2>4, <2>5
  <2> QED BY <2>2, <2>3, <2>6
<1> HIDE DEF A
<1>4. Nat \subseteq A
  BY <1>2, <1>3, SetInduction
<1>5. Good(f[n], n)
  BY <1>0, <1>4 DEF A
<1>6. f[n].left \in 0..n
  BY <1>5 DEF Filled
<1> QED BY <1>0, <1>1, <1>5, <1>6

\* What is dropped comes to the ground, onto the stack there or beside it.
LEMMA DroppedIs ==
    ASSUME NEW S0 \in Worlds, NEW S, NEW k \in Kind \ Bag, NEW x \in Nat, More(S0, S, k, x),
           NEW n \in Nat, n > 0 => n \in Counts(k)
    PROVE  /\ More(S0, Dropped(S, k, n), k, x + n)
           /\ \A c \in Cylinder \ {Ground} : Dropped(S, k, n)[c] = S[c]
<1> DEFINE m == IF S[Ground] = <<>> THEN 0 ELSE Merged(S, Ground, 1, k, n)
           T == IF m > 0 THEN Grown(S, Ground, 1, m) ELSE S
           e == Thing(k, n - m)
           U == IF n > m THEN Insert(T, Ground, 0, e) ELSE T
<1>0. /\ Sound(S, {}) /\ Tidy(S) /\ S \in Worlds /\ k \in AnyKind
      /\ Ground \in Cylinder /\ Ground # Player
  BY KindsAre DEF More, Sound, Tidy
<1>1. Dropped(S, k, n) = U
  BY DEF Dropped
<1>2. /\ m \in 0..n
      /\ m > 0 => /\ 1 \in DOMAIN S[Ground] /\ S[Ground][1].kind = k /\ k \in Stackable
                  /\ S[Ground][1].n + m \in 1..StackSize
  <2>1. CASE S[Ground] = <<>>
    BY <2>1
  <2>2. CASE S[Ground] # <<>>
    <3> DEFINE o == S[Ground][1]
    <3>1. 1 \in DOMAIN S[Ground]
      <4>1. S[Ground] \in Seq(Items)
        BY <1>0, WorldsAre
      <4>2. Len(S[Ground]) \in Nat /\ Len(S[Ground]) # 0 /\ DOMAIN S[Ground] = 1..Len(S[Ground])
        BY <2>2, <4>1
      <4> QED BY <4>2
    <3>2. m = Least(Room(o, k), n)
      BY <2>2 DEF Merged
    <3>3. Room(o, k) \in Nat /\ (Room(o, k) > 0 => o.kind = k /\ k \in Stackable /\ o # Nothing
                                    /\ Room(o, k) = StackSize - o.n)
      BY <1>0, <3>1, RoomIs
    <3>4. o # Nothing => o.n \in 1..StackSize /\ StackSize \in Nat
      BY <1>0, <3>1, TidyThing
    <3> HIDE DEF m, o
    <3>5. m \in 0..n /\ m <= Room(o, k)
      BY <3>2, <3>3 DEF Least
    <3>6. m > 0 => o.kind = k /\ k \in Stackable /\ o.n + m \in 1..StackSize
      <4> SUFFICES ASSUME m > 0 PROVE o.kind = k /\ k \in Stackable /\ o.n + m \in 1..StackSize
        OBVIOUS
      <4>1. Room(o, k) > 0
        BY <3>3, <3>5
      <4> QED BY <3>3, <3>4, <3>5, <4>1
    <3> QED BY <3>1, <3>5, <3>6 DEF o
  <2> QED BY <2>1, <2>2
<1> HIDE DEF m
<1>3. More(S0, T, k, x + m) /\ \A c \in Cylinder \ {Ground} : T[c] = S[c]
  <2>1. CASE m > 0
    <3>1. /\ T = Grown(S, Ground, 1, m) /\ m \in Nat /\ m \in Int /\ S[Ground][1].n + m \in Nat
          /\ S[Ground][1].kind = k
      BY <1>2, <2>1
    <3>2. Comes(S, Grown(S, Ground, 1, m), Ground, S[Ground][1].kind, m)
      BY <1>0, <1>2, <2>1, <3>1, GrownIs
    <3>3. Tidy(Grown(S, Ground, 1, m))
      BY <1>0, <1>2, <2>1, <3>1, TidyGrown
    <3> HIDE DEF T
    <3>4. Comes(S, T, Ground, k, m) /\ Tidy(T)
      BY <3>1, <3>2, <3>3
    <3>5. More(S0, T, k, x + m)
      BY <1>0, <3>1, <3>4, MoreThen
    <3> QED BY <3>4, <3>5 DEF Comes
  <2>2. CASE ~(m > 0)
    <3>1. m = 0 /\ x + m = x /\ T = S
      BY <1>2, <2>2
    <3> QED BY <3>1
  <2> QED BY <2>1, <2>2
<1> HIDE DEF T
<1>4. Tidy(T) /\ T \in Worlds
  BY <1>3 DEF More, Sound, Tidy
<1>5. More(S0, U, k, x + n) /\ \A c \in Cylinder \ {Ground} : U[c] = T[c]
  <2>1. CASE n > m
    <3>1. U = Insert(T, Ground, 0, e) /\ n - m \in 1..n /\ n - m \in Nat /\ x + m \in Nat
      BY <1>2, <2>1
    <3>2. e.kind = k /\ e.n = n - m /\ e = Thing(e.kind, e.n)
      BY DEF Thing
    <3>3. n - m \in Counts(k)
      <4>1. n \in Counts(k) /\ n - m \in 1..n
        BY <1>2, <3>1
      <4> QED BY <4>1, CountsIn
    <3> HIDE DEF e, U
    <3>4. Tidy(U) /\ e \in Items
      BY <1>0, <1>4, <3>1, <3>2, <3>3, TidyInsert
    <3>5. Comes(T, U, Ground, k, n - m)
      BY <1>0, <1>4, <3>1, <3>2, <3>4, InsertIs
    <3>6. More(S0, U, k, (x + m) + (n - m))
      BY <1>0, <1>3, <3>1, <3>4, <3>5, MoreThen
    <3>7. (x + m) + (n - m) = x + n
      BY <1>2
    <3> QED BY <3>5, <3>6, <3>7 DEF Comes
  <2>2. CASE ~(n > m)
    <3>1. m = n /\ U = T
      BY <1>2, <2>2
    <3> QED BY <1>3, <3>1
  <2> QED BY <2>1, <2>2
<1> HIDE DEF U
<1> QED BY <1>1, <1>3, <1>5

\* internalPlayerAddItem: what is there more, and what was said.
LEMMA FinishedIs ==
    ASSUME NEW S, Sound(S, {}), NEW k \in Kind \ Bag, NEW n \in Counts(k), NEW a,
           Filled(S, k, n, a), a.stuck \/ a.left = 0, NEW drop
    PROVE  LET r == Finished(a, k, n, drop)
           IN  /\ Sound(r.S, {})
               /\ r.done = (~a.stuck \/ drop)
               /\ Total(r.S, k) - Total(S, k) =
                    IF ~a.stuck THEN n
                    ELSE (n - a.left) + (IF drop THEN n - a.first.n ELSE -a.first.n)
               /\ Total(S, k) \in Nat /\ a.left \in 0..n /\ a.first.n \in 0..(n - a.left)
<1> DEFINE r == Finished(a, k, n, drop)
           R == a.S
           f == a.first
<1>0. /\ S \in Worlds /\ n \in Nat /\ a.left \in 0..n /\ f.n \in 0..(n - a.left)
      /\ More(S, R, k, n - a.left) /\ Sound(R, {}) /\ R \in Worlds /\ k \in AnyKind
      /\ n - a.left \in Nat /\ Total(S, k) \in Nat
  <2>1. /\ a.left \in 0..n /\ f.n \in 0..(n - a.left) /\ More(S, R, k, n - a.left) /\ Sound(R, {})
    BY DEF Filled, More
  <2>2. n \in Nat /\ S \in Worlds /\ R \in Worlds
    BY <2>1, MostIs DEF Sound, Tidy
  <2>3. Total(S, k) \in Nat
    BY <2>2, AmountIs, OnlyIs DEF Total
  <2> QED BY <2>1, <2>2, <2>3, KindsAre
<1>1. ASSUME NEW T, NEW y \in Nat, More(S, T, k, y)
      PROVE  Total(T, k) = Total(S, k) + y
  <2>1. Only(k) \in Weights /\ Only(k)[k] = 1
    BY <1>0, OnlyIs
  <2>2. Amount(T, Cylinder, Only(k)) = Amount(S, Cylinder, Only(k)) + Only(k)[k] * y
    BY <1>1, <2>1 DEF More
  <2> QED BY <2>1, <2>2 DEF Total
<1>2. CASE ~a.stuck
  <2>1. r = [S |-> R, done |-> TRUE] /\ a.left = 0
    BY <1>2 DEF Finished
  <2>2. Total(R, k) = Total(S, k) + n
    BY <1>0, <1>1, <2>1
  <2>3. Total(R, k) - Total(S, k) = n
    BY <1>0, <2>2
  <2> HIDE DEF R, r
  <2>4. r.S = R /\ r.done = TRUE
    BY <2>1
  <2> QED BY <1>0, <1>2, <2>3, <2>4 DEF r
<1>3. CASE a.stuck /\ drop
  <2> DEFINE D == Dropped(R, k, n - f.n)
  <2>1. r = [S |-> D, done |-> TRUE]
    BY <1>3 DEF Finished
  <2>2. n - f.n \in Nat /\ (n - f.n > 0 => n - f.n \in Counts(k))
    <3>1. n - f.n \in Nat /\ n - f.n <= n
      BY <1>0
    <3>2. n - f.n > 0 => n - f.n \in 1..n
      BY <1>0, <3>1
    <3> QED BY <3>1, <3>2, CountsIn
  <2> HIDE DEF R, f
  <2>3. More(S, D, k, (n - a.left) + (n - f.n))
    BY <1>0, <2>2, DroppedIs
  <2> HIDE DEF D
  <2>4. Total(D, k) = Total(S, k) + ((n - a.left) + (n - f.n))
    <3>1. (n - a.left) + (n - f.n) \in Nat
      BY <1>0, <2>2
    <3> QED BY <1>1, <2>3, <3>1
  <2>5. Sound(D, {})
    BY <2>3 DEF More
  <2>6. Total(D, k) - Total(S, k) = (n - a.left) + (n - f.n)
    BY <1>0, <2>2, <2>4
  <2> HIDE DEF r
  <2>7. r.S = D /\ r.done = TRUE
    BY <2>1
  <2> QED BY <1>0, <1>3, <2>5, <2>6, <2>7 DEF r, f
<1>4. CASE a.stuck /\ ~drop /\ f.n = 0
  <2>1. r = [S |-> R, done |-> FALSE]
    BY <1>4 DEF Finished
  <2>2. Total(R, k) = Total(S, k) + (n - a.left)
    BY <1>0, <1>1
  <2>3. Total(R, k) - Total(S, k) = (n - a.left) + (-f.n)
    BY <1>0, <1>4, <2>2
  <2> HIDE DEF R, r
  <2>4. r.S = R /\ r.done = FALSE
    BY <2>1
  <2> QED BY <1>0, <1>4, <2>3, <2>4 DEF r
<1>5. CASE a.stuck /\ ~drop /\ f.n # 0
  <2> DEFINE D == Grown(R, f.c, f.i, -f.n)
             c == f.c
             i == f.i
  <2>1. r = [S |-> D, done |-> FALSE]
    BY <1>5 DEF Finished
  <2>2. /\ k \in Stackable /\ c \in Cylinder /\ i \in DOMAIN R[c] /\ R[c][i].kind = k
        /\ R[c][i].n > f.n
    <3>1. a.left > 0 /\ f.n > 0
      BY <1>0, <1>5 DEF Filled
    <3> QED BY <3>1 DEF Filled
  <2> HIDE DEF c, i
  <2>3. Tidy(R) /\ R[c][i].n \in 1..StackSize /\ StackSize \in Nat
    <3>1. Tidy(R)
      BY <1>0 DEF Sound
    <3>2. R[c][i] # Nothing
      BY <2>2, KindsAre DEF Nothing, Thing
    <3> HIDE DEF R
    <3> QED BY <2>2, <3>1, <3>2, TidyThing
  <2>4. -f.n \in Int /\ R[c][i].n + (-f.n) \in 1..StackSize /\ R[c][i].n + (-f.n) \in Nat
    BY <1>0, <2>2, <2>3
  <2> DEFINE G == Grown(R, c, i, -f.n)
             g == -f.n
  <2> HIDE DEF R, f, g
  <2>5. g \in Int /\ R[c][i].n + g \in 1..StackSize /\ R[c][i].n + g \in Nat
    BY <2>4 DEF g
  <2>6. Comes(R, Grown(R, c, i, g), c, R[c][i].kind, g)
    BY <1>0, <2>2, <2>5, GrownIs
  <2>7. Tidy(Grown(R, c, i, g))
    BY <2>2, <2>3, <2>5, TidyGrown
  <2>8. D = Grown(R, c, i, g)
    BY DEF c, i, g
  <2> HIDE DEF D
  <2>9. Comes(R, D, c, k, g) /\ Tidy(D)
    BY <2>2, <2>6, <2>7, <2>8
  <2>10. Sound(D, {})
    BY <1>0, <2>2, <2>5, <2>9, SoundKept
  <2>11. Total(D, k) = Total(R, k) + g
    BY <1>0, <2>2, <2>5, <2>9, ComesCount
  <2>12. Total(R, k) = Total(S, k) + (n - a.left)
    BY <1>0, <1>1
  <2>13. Total(D, k) - Total(S, k) = (n - a.left) + (-f.n)
    <3>1. g = -f.n
      BY DEF g
    <3> QED BY <1>0, <2>11, <2>12, <3>1
  <2> HIDE DEF r
  <2>14. r.S = D /\ r.done = FALSE
    BY <2>1
  <2> QED BY <1>0, <1>5, <2>10, <2>13, <2>14 DEF r, f
<1> QED BY <1>2, <1>3, <1>4, <1>5

-----------------------------------------------------------------------------
(* Room.                                                                   *)

\* The same is carried when no bag comes or goes.
LEMMA SameCarried ==
    ASSUME NEW S, Sound(S, {}), NEW T, Sound(T, {}), SameBags(S, T)
    PROVE  /\ CarriedIn(T) = CarriedIn(S)
           /\ \A c \in Cylinder : Carried(T, c) <=> Carried(S, c)
<1>1. \A E : Closed(S, E) <=> Closed(T, E)
  BY KindsAre DEF SameBags, Closed
<1>2. ASSUME NEW c \in Cylinder PROVE Carried(T, c) <=> Carried(S, c)
  <2>0. Tidy(S) /\ Tidy(T) /\ (\A b \in Bag : Total(S, b) <= 1) /\ (\A b \in Bag : Total(T, b) <= 1)
    BY DEF Sound
  <2>1. Enclosing(S, c) \subseteq Cylinder /\ c \in Enclosing(S, c) /\ Closed(S, Enclosing(S, c))
    BY <2>0, EnclosingClosed
  <2>2. Enclosing(T, c) \subseteq Cylinder /\ c \in Enclosing(T, c) /\ Closed(T, Enclosing(T, c))
    BY <2>0, EnclosingClosed
  <2>3. Enclosing(S, c) \subseteq Enclosing(T, c)
    BY <1>1, <2>0, <2>2, EnclosingLeast
  <2>4. Enclosing(T, c) \subseteq Enclosing(S, c)
    BY <1>1, <2>0, <2>1, EnclosingLeast
  <2> QED BY <2>3, <2>4 DEF Carried
<1> QED BY <1>2 DEF CarriedIn

LEMMA GroundNotCarried ==
    ASSUME NEW S, Sound(S, {})
    PROVE  ~Carried(S, Ground)
<1>1. Ground \in Cylinder /\ Ground \notin Bag /\ Player # Ground
  BY KindsAre
<1>2. Closed(S, {Ground})
  BY <1>1 DEF Closed
<1>3. Enclosing(S, Ground) \subseteq {Ground}
  BY <1>1, <1>2, EnclosingLeast DEF Sound
<1> QED BY <1>1, <1>3 DEF Carried

\* What is counted in a slot and in a bag.
SlotRoom(S, k, i) ==
    IF ~Fits(k, i) THEN 0
    ELSE IF S[Player][i] # Nothing THEN Room(S[Player][i], k)
    ELSE IF Accepts(S, Player, i, k) THEN Most(k) ELSE 0
BagRoom(S, k, b) ==
    Free(S, b) * Most(k) + SumFunctionOnSet([j \in DOMAIN S[b] |-> Room(S[b][j], k)], DOMAIN S[b])

LEMMA BagRoomIs ==
    ASSUME NEW S, Tidy(S), NEW k, NEW b \in Bag
    PROVE  /\ \A n : MaxCount(S, b, 0, k, n, <<>>) = BagRoom(S, k, b)
           /\ BagRoom(S, k, b) \in Nat /\ Free(S, b) \in Nat
           /\ IsFiniteSet(DOMAIN S[b]) /\ \A j \in DOMAIN S[b] : Room(S[b][j], k) \in Nat
<1>1. b \in Cylinder /\ b # Ground /\ b # Player
  BY KindsAre
<1>2. S[b] \in Seq(Items) /\ Capacity \in Nat
  BY <1>1, WorldsAre, InventoryAssumption DEF Tidy
<1>3. IsFiniteSet(DOMAIN S[b]) /\ \A j \in DOMAIN S[b] : Room(S[b][j], k) \in Nat
  <2>1. IsFiniteSet(DOMAIN S[b])
    BY <1>2, FS_Interval
  <2> QED BY <1>1, <2>1, RoomIs
<1>4. Free(S, b) \in Nat
  BY <1>2 DEF Free
<1> DEFINE f == [j \in DOMAIN S[b] |-> Room(S[b][j], k)]
<1>5. SumFunctionOnSet(f, DOMAIN S[b]) \in Nat
  <2>1. \A j \in DOMAIN S[b] : f[j] \in Nat
    BY <1>3
  <2> HIDE DEF f
  <2> QED BY <1>3, <2>1, SumNatural
<1>6. Free(S, b) * Most(k) \in Nat
  BY <1>4, MostIs
<1>7. {j \in DOMAIN S[b] : <<b, j>> # <<>> /\ 0 \in {0, j}} = DOMAIN S[b]
  OBVIOUS
<1>8. ASSUME NEW n PROVE MaxCount(S, b, 0, k, n, <<>>) = BagRoom(S, k, b)
  <2>1. MaxCount(S, b, 0, k, n, <<>>) =
            Free(S, b) * Most(k)
            + SumFunctionOnSet(f, {j \in DOMAIN S[b] : <<b, j>> # <<>> /\ 0 \in {0, j}})
    BY <1>1 DEF MaxCount
  <2> QED BY <1>7, <2>1 DEF BagRoom
<1> HIDE DEF f
<1>9. BagRoom(S, k, b) \in Nat
  BY <1>5, <1>6 DEF BagRoom, f
<1> QED BY <1>3, <1>4, <1>8, <1>9

LEMMA SlotRoomIs ==
    ASSUME NEW S, Tidy(S), NEW k, NEW i \in DOMAIN S[Player]
    PROVE  /\ SlotRoom(S, k, i) \in Nat
           /\ \A n : (IF Fits(k, i) THEN MaxCount(S, Player, i, k, n, <<>>) ELSE 0) =
                        SlotRoom(S, k, i)
<1>1. Player \in Cylinder /\ Player # Ground /\ Player \notin Bag
  BY KindsAre
<1>2. Room(S[Player][i], k) \in Nat /\ Most(k) \in Nat
  BY <1>1, RoomIs, MostIs
<1>3. SlotRoom(S, k, i) \in Nat
  BY <1>2 DEF SlotRoom
<1>4. ASSUME NEW n
      PROVE  (IF Fits(k, i) THEN MaxCount(S, Player, i, k, n, <<>>) ELSE 0) = SlotRoom(S, k, i)
  <2>1. MaxCount(S, Player, i, k, n, <<>>) =
            IF S[Player][i] # Nothing THEN Room(S[Player][i], k)
            ELSE IF Accepts(S, Player, i, k) THEN Most(k) ELSE 0
    BY <1>1 DEF MaxCount
  <2> QED BY <2>1 DEF SlotRoom
<1> QED BY <1>3, <1>4

\* All of it.
SlotRooms(S, k) == [i \in DOMAIN S[Player] |-> SlotRoom(S, k, i)]
BagRooms(S, k) == [b \in Bag |-> BagRoom(S, k, b)]
CarriedBags(S) == {b \in Bag : Carried(S, b)}

LEMMA CountedRoomIs ==
    ASSUME NEW S, Tidy(S), NEW k
    PROVE  /\ \A n : CountedRoom(S, k, n) = SumFunctionOnSet(SlotRooms(S, k), DOMAIN S[Player])
                                        + SumFunctionOnSet(BagRooms(S, k), CarriedBags(S))
           /\ IsFiniteSet(DOMAIN S[Player]) /\ IsFiniteSet(CarriedBags(S))
           /\ \A i \in DOMAIN S[Player] : SlotRooms(S, k)[i] = SlotRoom(S, k, i)
                                         /\ SlotRoom(S, k, i) \in Nat
           /\ \A b \in CarriedBags(S) : BagRooms(S, k)[b] = BagRoom(S, k, b)
                                         /\ BagRoom(S, k, b) \in Nat
           /\ SumFunctionOnSet(SlotRooms(S, k), DOMAIN S[Player]) \in Nat
           /\ SumFunctionOnSet(BagRooms(S, k), CarriedBags(S)) \in Nat
<1>1. IsFiniteSet(DOMAIN S[Player])
  <2>1. S[Player] \in Seq(Items)
    BY WorldsAre, KindsAre DEF Tidy
  <2> QED BY <2>1, FS_Interval
<1>2. IsFiniteSet(CarriedBags(S))
  BY InventoryAssumption, FS_Subset DEF CarriedBags
<1>3. \A i \in DOMAIN S[Player] :
              SlotRooms(S, k)[i] = SlotRoom(S, k, i) /\ SlotRoom(S, k, i) \in Nat
  BY SlotRoomIs DEF SlotRooms
<1>4. \A b \in CarriedBags(S) : BagRooms(S, k)[b] = BagRoom(S, k, b) /\ BagRoom(S, k, b) \in Nat
  BY BagRoomIs DEF BagRooms, CarriedBags
<1>5. SumFunctionOnSet(SlotRooms(S, k), DOMAIN S[Player]) \in Nat
  BY <1>1, <1>3, SumNatural
<1>6. SumFunctionOnSet(BagRooms(S, k), CarriedBags(S)) \in Nat
  BY <1>2, <1>4, SumNatural
<1>7. ASSUME NEW n
      PROVE  CountedRoom(S, k, n) = SumFunctionOnSet(SlotRooms(S, k), DOMAIN S[Player])
                                    + SumFunctionOnSet(BagRooms(S, k), CarriedBags(S))
  <2> DEFINE f == [i \in DOMAIN S[Player] |->
                    IF Fits(k, i) THEN MaxCount(S, Player, i, k, n, <<>>) ELSE 0]
             g == [b \in Bag |-> MaxCount(S, b, 0, k, n, <<>>)]
  <2>1. f = SlotRooms(S, k)
    BY SlotRoomIs DEF SlotRooms
  <2>2. g = BagRooms(S, k)
    BY BagRoomIs DEF BagRooms
  <2>3. CountedRoom(S, k, n) = SumFunctionOnSet(f, DOMAIN f) + SumFunctionOnSet(g, CarriedBags(S))
    BY DEF CountedRoom, SumFunction, CarriedBags
  <2>4. DOMAIN f = DOMAIN S[Player]
    OBVIOUS
  <2> HIDE DEF f, g
  <2> QED BY <2>1, <2>2, <2>3, <2>4
<1> QED BY <1>1, <1>2, <1>3, <1>4, <1>5, <1>6, <1>7

\* The halves of Plainly: what a search sees, and where there is space for all.
Shown(S, offered, K) ==
    \A p \in Positions(S) :
        OnOffer(S, p[1], p[2], offered) => S[p[1]][p[2]].kind \notin Bag \cup K
Spacious(S) == \A b \in Bag : Carried(S, b) => Len(S[b]) <= Capacity

LEMMA ShownIs ==
    ASSUME NEW S, NEW offered, NEW K, Shown(S, offered, K), NEW c \in Cylinder,
           NEW i \in DOMAIN S[c], S[c][i].kind \in Bag \cup K
    PROVE  ~OnOffer(S, c, i, offered)
<1>1. <<c, i>> \in Positions(S)
  BY DEF Positions
<1>2. <<c, i>>[1] = c /\ <<c, i>>[2] = i
  OBVIOUS
<1> QED BY <1>1, <1>2 DEF Shown

\* Nothing on offer hides nothing.
LEMMA NothingOffered ==
    ASSUME NEW S, NEW K
    PROVE  Shown(S, <<>>, K)
<1>1. \A a, b : <<>> # <<a, b>>
  OBVIOUS
<1> QED BY <1>1 DEF Shown, OnOffer

\* Where no room is hidden, all bags are searched.
LEMMA SearchedAll ==
    ASSUME NEW S, Sound(S, {}), Spacious(S), NEW k \in Kind \ Bag, NEW offered,
           Shown(S, offered, {k})
    PROVE  CarriedIn(S) \subseteq ToSet(Searched(S, k, offered))
<1> DEFINE q == Searched(S, k, offered)
           E == Cylinder \ ToSet(q)
<1>0. /\ q \in Seq(Cylinder) /\ Player \in ToSet(q)
      /\ ToSet(q) \subseteq CarriedIn(S) \cap ({Player} \cup Bag)
      /\ Complete(S, q, k, offered) /\ Tidy(S)
  BY SearchedHas DEF Sound
<1> HIDE DEF q
<1>1. Closed(S, E)
  <2> SUFFICES ASSUME NEW b \in E \cap Bag, NEW d \in Cylinder, Count(S, d, b) > 0, d \in ToSet(q)
               PROVE  FALSE
    BY DEF Closed
  <2>1. PICK j \in DOMAIN q : q[j] = d
    BY DEF ToSet
  <2>2. b \in Kind
    BY KindsAre
  <2>3. PICK i \in DOMAIN S[d] : S[d][i].kind = b
    BY <1>0, <2>2, CountedIsThere
  <2>4. i \in Visible(S, d)
    <3>1. d \in Bag => i <= Capacity
      <4> SUFFICES ASSUME d \in Bag PROVE i <= Capacity
        OBVIOUS
      <4>1. Len(S[d]) <= Capacity
        BY <1>0 DEF Spacious, CarriedIn
      <4>2. S[d] \in Seq(Items) /\ Capacity \in Nat
        BY <1>0, WorldsAre, InventoryAssumption DEF Tidy
      <4> QED BY <4>1, <4>2
    <3> QED BY <3>1 DEF Visible
  <2>5. <<j, i>> \in PlacesIn(S, q)
    BY <1>0, <2>1, <2>4, PlacesAre
  <2>6. At(S, q, <<j, i>>).kind = b
    BY <2>1, <2>3 DEF At
  <2>7. b \in ToSet(q) \cup {k} \/ OnOffer(S, d, i, offered)
    <3>1. <<j, i>>[1] = j /\ <<j, i>>[2] = i
      OBVIOUS
    <3> QED BY <1>0, <2>1, <2>5, <2>6, <3>1 DEF Complete
  <2>8. ~OnOffer(S, d, i, offered)
    BY <2>3, ShownIs
  <2> QED BY <2>7, <2>8
<1>2. ASSUME NEW c \in CarriedIn(S), c \notin ToSet(q) PROVE FALSE
  <2>1. c \in E /\ Carried(S, c)
    BY <1>2 DEF CarriedIn
  <2>2. Enclosing(S, c) \subseteq E
    <3> HIDE DEF E
    <3>1. E \in SUBSET Cylinder
      BY DEF E
    <3> QED BY <1>0, <1>1, <2>1, <3>1, EnclosingLeast
  <2> QED BY <1>0, <2>1, <2>2 DEF Carried
<1> QED BY <1>2 DEF q

\* Room that is counted is found.
LEMMA RoomFound ==
    ASSUME NEW S, Sound(S, {}), Spacious(S), NEW k \in Kind \ Bag, NEW n, NEW offered,
           Shown(S, offered, {k}),
           CountedRoom(S, k, n) > 0
    PROVE  LET Q == ToSet(Searched(S, k, offered))
           IN  StackIn(S, Q, k, <<>>, offered) \/ PlaceIn(S, Q, k)
<1> DEFINE Q == ToSet(Searched(S, k, offered))
<1>0. Tidy(S) /\ CarriedIn(S) \subseteq Q /\ Player \in Q /\ Player \in Cylinder
  BY SearchedAll, SearchedHas, KindsAre DEF Sound
<1> HIDE DEF Q
<1>1. \/ \E i \in DOMAIN S[Player] : SlotRoom(S, k, i) > 0
      \/ \E b \in CarriedBags(S) : BagRoom(S, k, b) > 0
  <2> DEFINE s == SumFunctionOnSet(SlotRooms(S, k), DOMAIN S[Player])
             t == SumFunctionOnSet(BagRooms(S, k), CarriedBags(S))
  <2>1. s + t > 0 /\ s \in Nat /\ t \in Nat
    BY <1>0, CountedRoomIs
  <2>2. s > 0 => \E i \in DOMAIN S[Player] : SlotRooms(S, k)[i] > 0
    BY <1>0, CountedRoomIs, SumNatural
  <2>3. t > 0 => \E b \in CarriedBags(S) : BagRooms(S, k)[b] > 0
    BY <1>0, CountedRoomIs, SumNatural
  <2> HIDE DEF s, t
  <2>4. s > 0 \/ t > 0
    BY <2>1
  <2> QED BY <1>0, <2>2, <2>3, <2>4, CountedRoomIs
<1>2. ASSUME NEW i \in DOMAIN S[Player], SlotRoom(S, k, i) > 0
      PROVE  StackIn(S, Q, k, <<>>, offered) \/ PlaceIn(S, Q, k)
  <2>1. Fits(k, i)
    BY <1>2 DEF SlotRoom
  <2>2. CASE S[Player][i] # Nothing
    <3>1. Room(S[Player][i], k) > 0
      BY <1>2, <2>1, <2>2 DEF SlotRoom
    <3>2. i \in Visible(S, Player) /\ <<Player, i>> # <<>>
      BY KindsAre DEF Visible
    <3>3. ~OnOffer(S, Player, i, offered)
      <4>1. S[Player][i].kind \in Bag \cup {k}
        BY <1>0, <3>1, RoomOfKind
      <4> QED BY <1>0, <4>1, ShownIs
    <3> QED BY <1>0, <2>1, <3>1, <3>2, <3>3 DEF StackIn
  <2>3. CASE S[Player][i] = Nothing
    <3>1. Accepts(S, Player, i, k)
      BY <1>2, <2>1, <2>3 DEF SlotRoom
    <3> QED BY <1>0, <2>3, <3>1 DEF PlaceIn
  <2> QED BY <2>2, <2>3
<1>3. ASSUME NEW b \in CarriedBags(S), BagRoom(S, k, b) > 0
      PROVE  StackIn(S, Q, k, <<>>, offered) \/ PlaceIn(S, Q, k)
  <2>1. b \in Bag /\ b \in Cylinder /\ b \in Q /\ b # Player /\ Len(S[b]) <= Capacity
    <3>1. b \in Bag /\ Carried(S, b)
      BY DEF CarriedBags
    <3>2. b \in Cylinder /\ b # Player
      BY <3>1, KindsAre
    <3>3. b \in CarriedIn(S)
      BY <3>1, <3>2 DEF CarriedIn
    <3> QED BY <1>0, <3>1, <3>2, <3>3 DEF Spacious
  <2>2. S[b] \in Seq(Items) /\ Capacity \in Nat
    BY <1>0, <2>1, WorldsAre, InventoryAssumption DEF Tidy
  <2>3. CASE Free(S, b) > 0
    <3>1. Accepts(S, b, Len(S[b]) + 1, k)
      <4>1. Len(S[b]) + 1 # 0
        BY <2>2
      <4> QED BY <2>1, <4>1 DEF Accepts
    <3> QED BY <2>1, <2>3, <3>1 DEF PlaceIn
  <2>4. CASE ~(Free(S, b) > 0)
    <3> DEFINE f == [j \in DOMAIN S[b] |-> Room(S[b][j], k)]
               s == SumFunctionOnSet(f, DOMAIN S[b])
    <3>1. Free(S, b) = 0 /\ IsFiniteSet(DOMAIN S[b]) /\ \A j \in DOMAIN S[b] : f[j] \in Nat
      <4>1. /\ Free(S, b) \in Nat /\ IsFiniteSet(DOMAIN S[b])
            /\ \A j \in DOMAIN S[b] : Room(S[b][j], k) \in Nat
        BY <1>0, <2>1, BagRoomIs
      <4> QED BY <2>4, <4>1
    <3>2. s > 0
      <4>1. BagRoom(S, k, b) = Free(S, b) * Most(k) + s
        BY DEF BagRoom
      <4>2. s \in Nat
        <5> HIDE DEF f
        <5> QED BY <3>1, SumNatural
      <4>3. 0 * Most(k) = 0
        BY MostIs
      <4> HIDE DEF s
      <4> QED BY <1>3, <3>1, <4>1, <4>2, <4>3
    <3>3. PICK j \in DOMAIN S[b] : f[j] > 0
      <4> HIDE DEF f
      <4> QED BY <3>1, <3>2, SumNatural
    <3>4. Room(S[b][j], k) > 0 /\ j \in Visible(S, b) /\ <<b, j>> # <<>>
      BY <2>1, <2>2, <3>3 DEF Visible
    <3> HIDE DEF f, s
    <3>5. ~OnOffer(S, b, j, offered)
      <4>1. Tidy(S) /\ b \in Cylinder /\ Room(S[b][j], k) > 0
        BY <1>0, <2>1, <3>4
      <4>2. S[b][j].kind = k
        BY <4>1, RoomOfKind
      <4> QED BY <4>1, <4>2, ShownIs
    <3> QED BY <2>1, <3>4, <3>5 DEF StackIn
  <2> QED BY <2>3, <2>4
<1> QED BY <1>1, <1>2, <1>3 DEF Q

LEMMA SlotRoomsAre ==
    ASSUME NEW S, Tidy(S), NEW k
    PROVE  /\ IsFiniteSet(DOMAIN S[Player])
           /\ \A i \in DOMAIN S[Player] : SlotRooms(S, k)[i] = SlotRoom(S, k, i)
                                         /\ SlotRoom(S, k, i) \in Nat
BY CountedRoomIs

LEMMA BagRoomsAre ==
    ASSUME NEW S, Tidy(S), NEW k
    PROVE  /\ IsFiniteSet(CarriedBags(S))
           /\ \A b \in CarriedBags(S) : BagRooms(S, k)[b] = BagRoom(S, k, b)
                                         /\ BagRoom(S, k, b) \in Nat
BY CountedRoomIs

LEMMA CountedRoomNatural ==
    ASSUME NEW S, Tidy(S), NEW k, NEW n
    PROVE  CountedRoom(S, k, n) \in Nat
<1>1. /\ CountedRoom(S, k, n) = SumFunctionOnSet(SlotRooms(S, k), DOMAIN S[Player])
                                + SumFunctionOnSet(BagRooms(S, k), CarriedBags(S))
      /\ SumFunctionOnSet(SlotRooms(S, k), DOMAIN S[Player]) \in Nat
      /\ SumFunctionOnSet(BagRooms(S, k), CarriedBags(S)) \in Nat
  BY CountedRoomIs
<1> QED BY <1>1

\* In a slot or a bag that is as it was there is as much room.
LEMMA RoomSame ==
    ASSUME NEW S, Tidy(S), NEW T, Tidy(T), NEW k
    PROVE  /\ \A b \in Bag : T[b] = S[b] => BagRoom(T, k, b) = BagRoom(S, k, b)
           /\ \A i \in DOMAIN S[Player] :
                T[Player][i] = S[Player][i] /\ DOMAIN T[Player] = DOMAIN S[Player] =>
                    SlotRoom(T, k, i) = SlotRoom(S, k, i)
<1>1. \A b \in Bag : T[b] = S[b] => BagRoom(T, k, b) = BagRoom(S, k, b)
  <2> SUFFICES ASSUME NEW b \in Bag, T[b] = S[b] PROVE BagRoom(T, k, b) = BagRoom(S, k, b)
    OBVIOUS
  <2>1. Free(T, b) = Free(S, b)
    BY DEF Free
  <2> QED BY <2>1 DEF BagRoom
<1>2. ASSUME NEW i \in DOMAIN S[Player], T[Player][i] = S[Player][i],
             DOMAIN T[Player] = DOMAIN S[Player]
      PROVE  SlotRoom(T, k, i) = SlotRoom(S, k, i)
  <2>1. Accepts(T, Player, i, k) <=> Accepts(S, Player, i, k)
    BY <1>2, KindsAre DEF Accepts, SameStack
  <2> QED BY <1>2, <2>1 DEF SlotRoom
<1> QED BY <1>1, <1>2

\* A stack that is carried takes as much from the room as comes onto it.
LEMMA RoomShrinks ==
    ASSUME NEW S, Sound(S, {}), NEW T, Sound(T, {}), SameBags(S, T), NEW k \in Stackable,
           NEW c \in CarriedIn(S), NEW i \in DOMAIN S[c], S[c][i].kind = k,
           c = Player => Fits(k, i), NEW m \in Nat, m <= Room(S[c][i], k),
           \A d \in Cylinder \ {c} : T[d] = S[d],
           T[c] = [S[c] EXCEPT ![i] = Thing(@.kind, @.n + m)], NEW n, NEW x
    PROVE  CountedRoom(T, k, n) = CountedRoom(S, k, x) - m
<1> DEFINE SS(R) == SumFunctionOnSet(SlotRooms(R, k), DOMAIN R[Player])
           BB(R) == SumFunctionOnSet(BagRooms(R, k), CarriedBags(R))
<1>0. /\ Tidy(S) /\ Tidy(T) /\ c \in Cylinder /\ Carried(S, c) /\ S[c] \in Seq(Items)
      /\ Player \in Cylinder /\ Player \notin Bag
  <2>1. c \in Cylinder /\ Carried(S, c)
    BY DEF CarriedIn
  <2> QED BY <2>1, WorldsAre, KindsAre DEF Sound, Tidy
<1>1. /\ CountedRoom(S, k, x) = SS(S) + BB(S) /\ CountedRoom(T, k, n) = SS(T) + BB(T)
      /\ SS(S) \in Nat /\ SS(T) \in Nat /\ BB(S) \in Nat /\ BB(T) \in Nat
  BY <1>0, CountedRoomIs
<1>2. CarriedBags(T) = CarriedBags(S)
  BY SameCarried, KindsAre DEF CarriedBags
<1>3. /\ DOMAIN T[c] = DOMAIN S[c] /\ \A j \in DOMAIN S[c] \ {i} : T[c][j] = S[c][j]
      /\ T[c][i] # Nothing /\ S[c][i] # Nothing
      /\ Room(T[c][i], k) = Room(S[c][i], k) - m
      /\ Room(S[c][i], k) \in Int
  <2>1. DOMAIN T[c] = DOMAIN S[c] /\ \A j \in DOMAIN S[c] \ {i} : T[c][j] = S[c][j]
    BY <1>0
  <2>2. T[c][i] = Thing(k, S[c][i].n + m)
    BY <1>0
  <2>3. T[c][i].kind = k /\ T[c][i].n = S[c][i].n + m
    BY <2>2 DEF Thing
  <2>4. S[c][i].n \in Nat /\ StackSize \in Nat
    BY <1>0, ThingIs, InventoryAssumption DEF Tidy
  <2>5. T[c][i] # Nothing /\ S[c][i] # Nothing
    BY <2>3, KindsAre DEF Nothing, Thing
  <2>6. Room(T[c][i], k) = StackSize - T[c][i].n /\ Room(S[c][i], k) = StackSize - S[c][i].n
    BY <2>3 DEF Room
  <2> QED BY <2>1, <2>3, <2>4, <2>5, <2>6
<1> HIDE DEF SS, BB
<1>4. CASE c = Player
  <2>1. SS(T) = SS(S) - m
    <3> DEFINE f == SlotRooms(S, k)
               g == SlotRooms(T, k)
               D == DOMAIN S[Player]
    <3>1. DOMAIN T[Player] = D
      BY <1>3, <1>4
    <3>2. IsFiniteSet(D) /\ \A j \in D : f[j] = SlotRoom(S, k, j) /\ SlotRoom(S, k, j) \in Nat
      BY <1>0, SlotRoomsAre
    <3>3. \A j \in D : g[j] = SlotRoom(T, k, j) /\ SlotRoom(T, k, j) \in Nat
      BY <1>0, <3>1, SlotRoomsAre
    <3>4. \A j \in D \ {i} : SlotRoom(T, k, j) = SlotRoom(S, k, j)
      BY <1>0, <1>3, <1>4, <3>1, RoomSame
    <3>5. SlotRoom(T, k, i) = SlotRoom(S, k, i) - m
      BY <1>3, <1>4 DEF SlotRoom
    <3>6. i \in D
      BY <1>4
    <3> HIDE DEF f, g, D
    <3>7. SumFunctionOnSet(g, D) = SumFunctionOnSet(f, D) + g[i] - f[i]
      BY <3>2, <3>3, <3>4, <3>6, SumChanged
    <3>8. SumFunctionOnSet(f, D) \in Nat /\ f[i] \in Nat /\ g[i] = f[i] - m
      BY <3>2, <3>3, <3>5, <3>6, SumNatural
    <3>9. SumFunctionOnSet(g, D) = SumFunctionOnSet(f, D) - m
      BY <3>7, <3>8
    <3> QED BY <3>1, <3>9 DEF SS, f, g, D
  <2>2. BB(T) = BB(S)
    <3>1. BagRooms(T, k) = BagRooms(S, k)
      <4>1. \A b \in Bag : T[b] = S[b]
        BY <1>4, KindsAre
      <4> QED BY <1>0, <4>1, RoomSame DEF BagRooms
    <3> QED BY <1>2, <3>1 DEF BB
  <2> QED BY <1>1, <2>1, <2>2
<1>5. CASE c \in Bag
  <2>1. SS(T) = SS(S)
    <3>1. T[Player] = S[Player]
      BY <1>0, <1>5
    <3>2. SlotRooms(T, k) = SlotRooms(S, k)
      BY <1>0, <3>1, RoomSame DEF SlotRooms
    <3> QED BY <3>1, <3>2 DEF SS
  <2>2. BagRoom(T, k, c) = BagRoom(S, k, c) - m
    <3> DEFINE f == [j \in DOMAIN S[c] |-> Room(S[c][j], k)]
               g == [j \in DOMAIN T[c] |-> Room(T[c][j], k)]
               D == DOMAIN S[c]
               y == Free(S, c) * Most(k)
    <3>1. /\ IsFiniteSet(D) /\ \A j \in D : Room(S[c][j], k) \in Nat /\ Room(T[c][j], k) \in Nat
          /\ Free(S, c) \in Nat
      BY <1>0, <1>3, <1>5, BagRoomIs
    <3>2. /\ \A j \in D : f[j] \in Nat /\ g[j] \in Nat
          /\ \A j \in D \ {i} : g[j] = f[j]
          /\ g[i] = f[i] - m
      BY <1>3, <3>1
    <3>3. Free(T, c) = Free(S, c) /\ y \in Nat
      <4>1. Len(T[c]) = Len(S[c])
        BY <1>0
      <4> QED BY <3>1, <4>1, MostIs DEF Free
    <3>4. BagRoom(S, k, c) = y + SumFunctionOnSet(f, D)
      BY DEF BagRoom
    <3>5. BagRoom(T, k, c) = y + SumFunctionOnSet(g, D)
      BY <1>3, <3>3 DEF BagRoom
    <3> HIDE DEF f, g, D, y
    <3>6. i \in D
      BY DEF D
    <3>7. SumFunctionOnSet(g, D) = SumFunctionOnSet(f, D) + g[i] - f[i]
      BY <3>1, <3>2, <3>6, SumChanged
    <3>8. SumFunctionOnSet(f, D) \in Nat /\ f[i] \in Nat
      BY <3>1, <3>2, <3>6, SumNatural
    <3> QED BY <3>2, <3>3, <3>4, <3>5, <3>7, <3>8
  <2>3. BB(T) = BB(S) - m
    <3> DEFINE f == BagRooms(S, k)
               g == BagRooms(T, k)
               D == CarriedBags(S)
    <3>1. IsFiniteSet(D) /\ \A b \in D : f[b] = BagRoom(S, k, b) /\ BagRoom(S, k, b) \in Nat
      <4>1. /\ IsFiniteSet(CarriedBags(S))
            /\ \A b \in CarriedBags(S) : BagRooms(S, k)[b] = BagRoom(S, k, b)
                                          /\ BagRoom(S, k, b) \in Nat
        BY <1>0, BagRoomsAre
      <4> QED BY <4>1
    <3>2. \A b \in D : g[b] = BagRoom(T, k, b) /\ BagRoom(T, k, b) \in Nat
      BY <1>0, <1>2, BagRoomsAre
    <3>3. \A b \in D \ {c} : BagRoom(T, k, b) = BagRoom(S, k, b)
      <4>1. \A b \in D \ {c} : b \in Bag /\ T[b] = S[b]
        BY KindsAre DEF CarriedBags
      <4> QED BY <1>0, <4>1, RoomSame
    <3>4. c \in D
      BY <1>0, <1>5 DEF CarriedBags
    <3> HIDE DEF f, g, D
    <3>5. SumFunctionOnSet(g, D) = SumFunctionOnSet(f, D) + g[c] - f[c]
      BY <3>1, <3>2, <3>3, <3>4, SumChanged
    <3>6. SumFunctionOnSet(f, D) \in Nat /\ f[c] \in Nat /\ g[c] = f[c] - m
      BY <2>2, <3>1, <3>2, <3>4, SumNatural
    <3>7. SumFunctionOnSet(g, D) = SumFunctionOnSet(f, D) - m
      BY <3>5, <3>6
    <3> QED BY <1>2, <3>7 DEF BB, f, g, D
  <2> QED BY <1>1, <2>1, <2>3
<1>6. c # Ground
  BY <1>0, GroundNotCarried
<1> QED BY <1>0, <1>4, <1>5, <1>6 DEF Cylinder

-----------------------------------------------------------------------------
(* Adding where no room is hidden.                                         *)

\* No bag comes to hold more than it can.
LEMMA SpaciousKept ==
    ASSUME NEW S, Sound(S, {}), NEW T, Sound(T, {}), SameBags(S, T), Spacious(S),
           \A b \in CarriedBags(S) : Len(T[b]) <= Len(S[b]) \/ Len(T[b]) <= Capacity
    PROVE  Spacious(T)
<1> SUFFICES ASSUME NEW b \in Bag, Carried(T, b) PROVE Len(T[b]) <= Capacity
  BY DEF Spacious
<1>1. b \in Cylinder /\ Carried(S, b)
  BY KindsAre, SameCarried
<1>2. Len(S[b]) <= Capacity /\ b \in CarriedBags(S)
  BY <1>1 DEF Spacious, CarriedBags
<1>3. Len(S[b]) \in Nat /\ Len(T[b]) \in Nat /\ Capacity \in Nat
  <2>1. S[b] \in Seq(Items) /\ T[b] \in Seq(Items)
    BY <1>1, WorldsAre DEF Sound, Tidy
  <2> QED BY <2>1, InventoryAssumption
<1> QED BY <1>2, <1>3

\* What comes onto a stack hides nothing.
LEMMA ShownKept ==
    ASSUME NEW S, Tidy(S), NEW T, NEW c \in Cylinder, NEW i \in DOMAIN S[c], NEW m,
           T[c] = [S[c] EXCEPT ![i] = Thing(@.kind, @.n + m)],
           \A d \in Cylinder \ {c} : T[d] = S[d],
           NEW offered, NEW K, Shown(S, offered, K)
    PROVE  Shown(T, offered, K)
<1>1. \A d \in Cylinder : S[d] \in Seq(Items)
  BY WorldsAre DEF Tidy
<1>2. ASSUME NEW d \in Cylinder
      PROVE  /\ DOMAIN T[d] = DOMAIN S[d] /\ Len(T[d]) = Len(S[d])
             /\ \A j \in DOMAIN S[d] : T[d][j].kind = S[d][j].kind
  <2>1. CASE d # c
    BY <2>1
  <2>2. CASE d = c
    <3>1. DOMAIN T[c] = DOMAIN S[c]
      OBVIOUS
    <3>2. Len(T[c]) = Len(S[c])
      <4>1. S[c] \in Seq(Items)
        BY <1>1
      <4> QED BY <4>1
    <3>3. \A j \in DOMAIN S[c] : T[c][j].kind = S[c][j].kind
      BY DEF Thing
    <3> QED BY <2>2, <3>1, <3>2, <3>3
  <2> QED BY <2>1, <2>2
<1>3. Positions(T) = Positions(S)
  BY <1>2 DEF Positions
<1>4. \A p \in Positions(S) : p[1] \in Cylinder /\ p[2] \in DOMAIN S[p[1]]
  BY DEF Positions
<1> QED BY <1>2, <1>3, <1>4 DEF Shown, OnOffer

\* It gets stuck at once or never, for the room is there for all that is left.
FilledPlainly(k, n, offered, a) ==
    /\ Spacious(a.S)
    /\ a.left > 0 => Shown(a.S, offered, {k})
    /\ a.stuck => a.left = n
    /\ ~a.stuck /\ a.left > 0 /\ a.left < n => \A x : CountedRoom(a.S, k, x) >= a.left

LEMMA StackFilled ==
    ASSUME NEW S \in Worlds, NEW k \in Kind \ Bag, NEW n \in Counts(k), NEW a, Filled(S, k, n, a),
           a.left > 0, ~a.stuck, NEW d, d.c \in Cylinder, OnStack(a.S, d, k, <<>>)
    PROVE  LET m == Merged(a.S, d.c, d.target, k, a.left)
               T == Grown(a.S, d.c, d.i, m)
           IN  /\ Comes(a.S, T, d.c, k, m)
               /\ T[d.c] = [a.S[d.c] EXCEPT ![d.i] = Thing(@.kind, @.n + m)]
               /\ m \in 1..a.left /\ m <= Room(a.S[d.c][d.i], k)
<1> DEFINE m == Merged(a.S, d.c, d.target, k, a.left)
           T == Grown(a.S, d.c, d.i, m)
           b == [a EXCEPT !.S = T, !.left = @ - m,
                          !.first = IF @.n = 0 THEN [c |-> d.c, i |-> d.i, n |-> m] ELSE @]
<1>1. /\ Filled(S, k, n, b)
      /\ Comes(a.S, T, d.c, k, m)
      /\ T[d.c] = [a.S[d.c] EXCEPT ![d.i] = Thing(@.kind, @.n + m)]
      /\ m \in 1..a.left /\ m <= Room(a.S[d.c][d.i], k)
  BY FillStack
<1> HIDE DEF m, T, b
<1>2. /\ Comes(a.S, T, d.c, k, m)
      /\ T[d.c] = [a.S[d.c] EXCEPT ![d.i] = Thing(@.kind, @.n + m)]
      /\ m \in 1..a.left /\ m <= Room(a.S[d.c][d.i], k)
  BY <1>1
<1> QED BY <1>2 DEF m, T

LEMMA FillPlainly ==
    ASSUME NEW S \in Worlds, NEW k \in Kind \ Bag, NEW n \in Counts(k), NEW a, Filled(S, k, n, a),
           NEW offered, FilledPlainly(k, n, offered, a)
    PROVE  FilledPlainly(k, n, offered, Fill(a, k, offered))
<1> DEFINE R == a.S
           b == Fill(a, k, offered)
           Q == ToSet(Searched(R, k, offered))
<1>0. /\ Sound(R, {}) /\ Tidy(R) /\ n \in Nat /\ a.left \in 0..n /\ Spacious(R)
      /\ DOMAIN a = {"S", "left", "stuck", "first"} /\ Sound(b.S, {}) /\ SameBags(S, R)
      /\ SameBags(S, b.S) /\ R \in Worlds
  <2>1. Sound(R, {}) /\ a.left \in 0..n /\ SameBags(S, R)
    BY DEF Filled, More
  <2>2. Filled(S, k, n, b)
    BY FillKeeps
  <2>3. Sound(b.S, {}) /\ SameBags(S, b.S)
    <3> HIDE DEF b
    <3> QED BY <2>2 DEF Filled, More
  <2> QED BY <2>1, <2>3, MostIs DEF Filled, FilledPlainly, Sound, Tidy
<1>1. SameBags(R, b.S)
  BY <1>0 DEF SameBags
<1>2. CASE (a.left = 0 \/ a.stuck) /\ b = a
  BY <1>2
<1>3. ASSUME a.left > 0, ~a.stuck, GetsStuck(a, k, offered, b)
      PROVE  FilledPlainly(k, n, offered, b)
  <2>1. b = [a EXCEPT !.stuck = TRUE]
    BY <1>3 DEF GetsStuck
  <2>2. b.S = R /\ b.left = a.left /\ b.stuck
    BY <1>0, <2>1
  <2>3. a.left = n
    <3> SUFFICES ASSUME a.left # n PROVE FALSE
      OBVIOUS
    <3>1. \A x : CountedRoom(R, k, x) >= a.left
      BY <1>0, <1>3 DEF FilledPlainly
    <3>2. CountedRoom(R, k, a.left) \in Nat
      BY <1>0, CountedRoomNatural
    <3>3. CountedRoom(R, k, a.left) > 0 /\ ~(CountedRoom(R, k, a.left) < a.left)
      BY <1>0, <1>3, <3>1, <3>2
    <3> HIDE DEF R
    <3>s. Shown(R, offered, {k})
      BY <1>3 DEF FilledPlainly, R
    <3>4. StackIn(R, Q, k, <<>>, offered) \/ PlaceIn(R, Q, k)
      BY <1>0, <3>3, <3>s, RoomFound
    <3> HIDE DEF Q, b
    <3> QED BY <1>3, <3>3, <3>4 DEF GetsStuck, R, Q
  <2> HIDE DEF b
  <2> QED BY <1>0, <1>3, <2>2, <2>3 DEF FilledPlainly
<1>4. ASSUME a.left > 0, ~a.stuck, NEW d, FillsPlace(a, k, d, b)
      PROVE  FilledPlainly(k, n, offered, b)
  <2> DEFINE e == Thing(k, a.left)
             T == Insert(R, d.c, d.i, e)
  <2>1. OnPlace(R, d, k) /\ b = [a EXCEPT !.S = T, !.left = 0]
    BY <1>4 DEF FillsPlace
  <2>2. b.S = T /\ b.left = 0 /\ b.stuck = a.stuck
    BY <1>0, <2>1
  <2>3. Comes(R, T, d.c, k, a.left)
    BY <1>4, <2>1, FillPlace
  <2>4. ASSUME NEW g \in CarriedBags(R) PROVE Len(T[g]) <= Len(R[g]) \/ Len(T[g]) <= Capacity
    <3>0. g \in Bag /\ g \in Cylinder /\ g # Player
      BY KindsAre DEF CarriedBags
    <3>1. CASE g # d.c
      <4>1. T[g] = R[g]
        BY <2>3, <3>0, <3>1 DEF Comes
      <4>2. R[g] \in Seq(Items)
        BY <1>0, <3>0, WorldsAre
      <4> QED BY <4>1, <4>2
    <3>2. CASE g = d.c
      <4>1. T = [R EXCEPT ![g] = <<e>> \o @]
        BY <3>0, <3>2 DEF Insert
      <4>2. T[g] = <<e>> \o R[g]
        BY <1>0, <3>0, <4>1, WorldsAre
      <4>3. R[g] \in Seq(Items) /\ e \in Items /\ Capacity \in Nat
        <5>1. a.left \in Nat
          BY <1>0
        <5> QED BY <1>0, <3>0, <5>1, WorldsAre, KindsAre, InventoryAssumption DEF Items, Thing
      <4> HIDE DEF T, e
      <4>4. Len(T[g]) = Len(R[g]) + 1
        BY <4>2, <4>3, PrependIs
      <4>5. Free(R, g) > 0
        BY <2>1, <3>0, <3>2 DEF OnPlace
      <4>6. Len(R[g]) < Capacity
        BY <4>3, <4>5 DEF Free
      <4> HIDE DEF R
      <4> QED BY <4>3, <4>4, <4>6
    <3> QED BY <3>1, <3>2
  <2> HIDE DEF T, b, R
  <2>5. Spacious(b.S)
    BY <1>0, <1>1, <2>2, <2>4, SpaciousKept
  <2> QED BY <1>4, <2>2, <2>5 DEF FilledPlainly
<1>5. ASSUME a.left > 0, ~a.stuck, ~(CountedRoom(R, k, a.left) < a.left),
             NEW d, NEW m, FillsStack(a, k, d, m, b)
      PROVE  FilledPlainly(k, n, offered, b)
  <2> DEFINE M == Merged(a.S, d.c, d.target, k, a.left)
             T == Grown(R, d.c, d.i, M)
             B == [a EXCEPT !.S = T, !.left = @ - M,
                            !.first = IF @.n = 0 THEN [c |-> d.c, i |-> d.i, n |-> M] ELSE @]
             c == d.c
             i == d.i
  <2>1. c \in Cylinder /\ OnStack(R, d, k, <<>>) /\ b = B
    BY <1>5 DEF FillsStack
  <2>2. /\ Comes(R, T, c, k, M)
        /\ T[c] = [R[c] EXCEPT ![i] = Thing(@.kind, @.n + M)]
        /\ M \in 1..a.left /\ M <= Room(R[c][i], k)
    <3>1. OnStack(a.S, d, k, <<>>) /\ d.c \in Cylinder
      BY <2>1
    <3> QED BY <1>5, <3>1, StackFilled
  <2>3. B.S = T /\ B.left = a.left - M /\ B.stuck = a.stuck
    BY <1>0
  <2>4. /\ c \in CarriedIn(R) /\ i \in DOMAIN R[c] /\ Room(R[c][i], k) > 0
        /\ c = Player => Fits(k, i)
    BY <2>1 DEF OnStack
  <2> HIDE DEF B, T, b, M, c, i, R
  <2>5. b.S = T /\ b.left = a.left - M /\ b.stuck = a.stuck
    BY <2>1, <2>3
  <2>6. k \in Stackable /\ R[c][i].kind = k
    BY <1>0, <2>1, <2>4, RoomIs
  <2>7. /\ \A e \in Cylinder \ {c} : T[e] = R[e]
        /\ M \in Nat /\ Sound(T, {}) /\ SameBags(R, T)
    BY <1>0, <1>1, <2>2, <2>5 DEF Comes
  <2>8. \A x : CountedRoom(T, k, x) = CountedRoom(R, k, a.left) - M
    <3> TAKE x
    <3> QED BY <1>0, <2>2, <2>4, <2>6, <2>7, RoomShrinks
  <2>9. CountedRoom(R, k, a.left) \in Nat
    BY <1>0, CountedRoomNatural
  <2>10. \A x : CountedRoom(T, k, x) >= a.left - M
    BY <1>0, <1>5, <2>7, <2>8, <2>9
  <2>11. ASSUME NEW g \in CarriedBags(R) PROVE Len(T[g]) <= Len(R[g])
    <3>0. g \in Cylinder
      BY KindsAre DEF CarriedBags
    <3>1. R[g] \in Seq(Items) /\ T[g] \in Seq(Items)
      BY <1>0, <2>7, <3>0, WorldsAre DEF Sound, Tidy
    <3>2. DOMAIN T[g] = DOMAIN R[g]
      BY <2>2, <2>7, <3>0
    <3>3. Len(T[g]) = Len(R[g])
      BY <3>1, <3>2
    <3> QED BY <3>1, <3>3
  <2>12. Spacious(T)
    BY <1>0, <2>7, <2>11, SpaciousKept
  <2>13. Shown(T, offered, {k})
    <3>1. Shown(R, offered, {k})
      BY <1>5 DEF FilledPlainly, R
    <3> QED BY <1>0, <2>1, <2>2, <2>4, <2>7, <3>1, ShownKept
  <2> QED BY <1>5, <2>5, <2>10, <2>12, <2>13 DEF FilledPlainly
<1>6. \/ (a.left = 0 \/ a.stuck) /\ b = a
      \/ /\ a.left > 0 /\ ~a.stuck
         /\ \/ GetsStuck(a, k, offered, b)
            \/ /\ ~(CountedRoom(R, k, a.left) < a.left)
               /\ \/ \E d : FillsPlace(a, k, d, b)
                  \/ \E d, m : FillsStack(a, k, d, m, b)
  BY FillIs
<1> HIDE DEF b, R
<1> QED BY <1>2, <1>3, <1>4, <1>5, <1>6 DEF b, R

LEMMA AddedPlainly ==
    ASSUME NEW S, Sound(S, {}), NEW k \in Kind \ Bag, NEW n \in Counts(k), NEW offered,
           Spacious(S), Shown(S, offered, {k})
    PROVE  FilledPlainly(k, n, offered, Added(S, k, n, offered))
<1>0. n \in Nat /\ S \in Worlds
  BY MostIs DEF Sound, Tidy
<1>1. PICK f : /\ f[0] = Beginning(S, n)
               /\ \A i \in 1..n : f[i] = Fill(f[i - 1], k, offered)
               /\ Added(S, k, n, offered) = f[n]
  BY <1>0, AddedIs
<1> DEFINE Good(a) == Filled(S, k, n, a) /\ FilledPlainly(k, n, offered, a)
           A == {i \in Nat : i <= n => Good(f[i])}
<1>2. 0 \in A
  <2> DEFINE a == f[0]
  <2>1. Filled(S, k, n, a)
    BY <1>1, BeginningFilled
  <2>2. a.left = n /\ a.S = S /\ a.stuck = FALSE
    BY <1>1 DEF Beginning
  <2> HIDE DEF a
  <2>3. FilledPlainly(k, n, offered, a)
    BY <1>0, <2>2 DEF FilledPlainly
  <2> QED BY <1>0, <2>1, <2>3 DEF a
<1>3. ASSUME NEW i \in Nat, i \in A PROVE i + 1 \in A
  <2> SUFFICES ASSUME i + 1 <= n PROVE Good(f[i + 1])
    OBVIOUS
  <2>1. i <= n /\ i + 1 \in 1..n /\ (i + 1) - 1 = i
    BY <1>0
  <2>2. f[i + 1] = Fill(f[i], k, offered) /\ Filled(S, k, n, f[i]) /\ FilledPlainly(k, n, offered, f[i])
    BY <1>1, <1>3, <2>1
  <2>3. Filled(S, k, n, Fill(f[i], k, offered))
    BY <1>0, <2>2, FillKeeps
  <2>4. FilledPlainly(k, n, offered, Fill(f[i], k, offered))
    BY <1>0, <2>2, FillPlainly
  <2> QED BY <2>2, <2>3, <2>4
<1> HIDE DEF A
<1>4. Nat \subseteq A
  BY <1>2, <1>3, SetInduction
<1> QED BY <1>0, <1>1, <1>4 DEF A

LEMMA PlayerAddedSound ==
    ASSUME NEW S, Sound(S, {}), NEW k \in Kind \ Bag, NEW n \in Counts(k), NEW drop, NEW offered
    PROVE  Sound(PlayerAdded(S, k, n, drop, offered).S, {})
<1> DEFINE a == Added(S, k, n, offered)
<1>1. Filled(S, k, n, a) /\ (a.stuck \/ a.left = 0)
  BY AddedFilled
<1> HIDE DEF a
<1>2. Sound(Finished(a, k, n, drop).S, {})
  BY <1>1, FinishedIs
<1> QED BY <1>2 DEF PlayerAdded, a

LEMMA SaidOfAdded ==
    ASSUME Sound(world, {}), NEW k \in Kind \ Bag, NEW n \in Counts(k), NEW drop \in BOOLEAN,
           NEW offered
    PROVE  AddedAsTold(k, n, drop, offered)
<1> DEFINE a == Added(world, k, n, offered)
           r == Finished(a, k, n, drop)
           more == Total(r.S, k) - Total(world, k)
           said == IF r.done THEN n ELSE 0
<1>0. n \in Nat
  BY MostIs
<1>1. Filled(world, k, n, a) /\ (a.stuck \/ a.left = 0)
  BY AddedFilled
<1>2. Plainly(world, offered, {k}) => (a.stuck => a.left = n)
  <2> SUFFICES ASSUME Plainly(world, offered, {k}) PROVE a.stuck => a.left = n
    OBVIOUS
  <2>1. Spacious(world) /\ Shown(world, offered, {k})
    BY DEF Plainly, Spacious, Shown
  <2>2. FilledPlainly(k, n, offered, Added(world, k, n, offered))
    BY <2>1, AddedPlainly
  <2> QED BY <2>2 DEF FilledPlainly
<1> HIDE DEF a
<1>3. /\ r.done = (~a.stuck \/ drop)
      /\ more = IF ~a.stuck THEN n
                ELSE (n - a.left) + (IF drop THEN n - a.first.n ELSE -a.first.n)
      /\ a.left \in 0..n /\ a.first.n \in 0..(n - a.left)
  BY <1>1, FinishedIs
<1> HIDE DEF more
<1> DEFINE l == a.left
           f == a.first.n
<1> HIDE DEF l, f
<1>4. CASE ~a.stuck
  <2>1. r.done /\ more = n
    BY <1>3, <1>4
  <2> HIDE DEF r
  <2>2. said = n
    BY <2>1
  <2> QED BY <1>0, <2>1, <2>2 DEF AddedAsTold, PlayerAdded, a, r, more
<1>5. CASE a.stuck /\ drop
  <2>1. r.done /\ more = (n - l) + (n - f) /\ l \in 0..n /\ f \in 0..(n - l)
    BY <1>3, <1>5 DEF l, f
  <2> HIDE DEF r
  <2>2. said = n /\ more >= said
    BY <1>0, <2>1
  <2>3. Plainly(world, offered, {k}) => more = said
    <3>1. Plainly(world, offered, {k}) => l = n
      BY <1>2, <1>5 DEF l
    <3> QED BY <1>0, <2>1, <2>2, <3>1
  <2> QED BY <2>2, <2>3 DEF AddedAsTold, PlayerAdded, a, r, more
<1>6. CASE a.stuck /\ ~drop
  <2>1. ~r.done /\ more = (n - l) + (-f) /\ l \in 0..n /\ f \in 0..(n - l)
    BY <1>3, <1>6 DEF l, f
  <2> HIDE DEF r
  <2>2. said = 0 /\ more >= said
    BY <1>0, <2>1
  <2>3. Plainly(world, offered, {k}) => more = said
    <3>1. Plainly(world, offered, {k}) => l = n
      BY <1>2, <1>6 DEF l
    <3> QED BY <1>0, <2>1, <2>2, <3>1
  <2> QED BY <2>2, <2>3 DEF AddedAsTold, PlayerAdded, a, r, more
<1> QED BY <1>4, <1>5, <1>6

-----------------------------------------------------------------------------
(* Removing.                                                               *)

\* What is taken out of something that is carried.
LEMMA CarriedTaken ==
    ASSUME NEW S, Sound(S, {}), NEW c \in CarriedIn(S), NEW i \in DOMAIN S[c],
           S[c][i] # Nothing, S[c][i].kind \notin Bag, NEW m \in Nat, m > 0, m <= S[c][i].n
    PROVE  LET T == TakeOut(S, c, i, m)
           IN  /\ Comes(S, T, c, S[c][i].kind, -m)
               /\ Sound(T, {}) /\ SameBags(S, T) /\ CarriedIn(T) = CarriedIn(S)
               /\ S[c][i].kind \in Kind \ Bag
<1> DEFINE T == TakeOut(S, c, i, m)
           k == S[c][i].kind
<1>0. Tidy(S) /\ S \in Worlds /\ c \in Cylinder
  BY DEF Sound, Tidy, CarriedIn
<1>1. /\ k \in Kind /\ S[c][i].n \in 1..StackSize /\ (k \notin Stackable => S[c][i].n = 1)
      /\ k \in AnyKind \ Bag /\ -m \in Int
  BY <1>0, TidyThing, KindsAre
<1>2. Comes(S, T, c, k, -m)
  <2>1. Gone(S[c][i], m) = m
    BY <1>1 DEF Gone
  <2>2. Comes(S, T, c, k, -Gone(S[c][i], m))
    BY <1>0, TakeOutIs
  <2> QED BY <2>1, <2>2
<1>3. Tidy(T)
  <2>1. k \in Stackable => m \in 1..S[c][i].n
    BY <1>1
  <2> QED BY <1>0, <2>1, TidyTakeOut
<1> HIDE DEF T, k
<1>4. Sound(T, {}) /\ SameBags(S, T)
  BY <1>0, <1>1, <1>2, <1>3, SoundKept
<1>5. CarriedIn(T) = CarriedIn(S)
  BY <1>4, SameCarried
<1> QED BY <1>1, <1>2, <1>4, <1>5 DEF T, k

\* What has been taken so far.
Taken(S, k, n, r) ==
    /\ r.left \in 0..n
    /\ Sound(r.S, {})
    /\ Total(r.S, k) = Total(S, k) - (n - r.left)
    /\ TypeCount(r.S, k) = TypeCount(S, k) - (n - r.left)

LEMMA TypeCountNatural ==
    ASSUME NEW S, Sound(S, {}), NEW k
    PROVE  TypeCount(S, k) \in Nat /\ Total(S, k) \in Nat /\ CarriedIn(S) \in SUBSET Cylinder
<1>1. S \in Worlds /\ CarriedIn(S) \in SUBSET Cylinder
  BY PlayerCarried DEF Sound, Tidy
<1> QED BY <1>1, AmountIs, OnlyIs DEF TypeCount, Total

LEMMA TakeKeeps ==
    ASSUME NEW S, Sound(S, {}), NEW k \in Kind \ Bag, NEW n \in Nat, NEW r, Taken(S, k, n, r),
           NEW onlyContainers \in BOOLEAN, NEW t \in Take(r, k, onlyContainers)
    PROVE  /\ Taken(S, k, n, t)
           /\ \/ t.left < r.left
              \/ t.left = r.left /\ (r.left = 0 \/ onlyContainers \/ TypeCount(r.S, k) = 0)
<1> DEFINE R == r.S
           there == {p \in Of(R, k) : onlyContainers => p[1] # Player}
<1>0. /\ Sound(R, {}) /\ Tidy(R) /\ R \in Worlds /\ r.left \in 0..n /\ k \in AnyKind
      /\ TypeCount(R, k) \in Nat /\ Total(R, k) \in Nat /\ CarriedIn(R) \in SUBSET Cylinder
      /\ TypeCount(S, k) \in Nat /\ Total(S, k) \in Nat
  <2>1. Sound(R, {}) /\ r.left \in 0..n
    BY DEF Taken
  <2> HIDE DEF R
  <2> QED BY <2>1, TypeCountNatural, KindsAre DEF Sound, Tidy
<1>1. CASE r.left = 0 \/ there = {}
  <2>1. t = r
    BY <1>1 DEF Take
  <2>2. there = {} => onlyContainers \/ TypeCount(R, k) = 0
    <3> SUFFICES ASSUME there = {}, ~onlyContainers, TypeCount(R, k) # 0 PROVE FALSE
      OBVIOUS
    <3> HIDE DEF R
    <3>1. Amount(R, CarriedIn(R), Only(k)) > 0
      BY <1>0 DEF TypeCount
    <3>2. PICK c \in CarriedIn(R) : Weight(R[c], Only(k)) > 0
      BY <1>0, <3>1, AmountIs, OnlyIs
    <3>3. c \in Cylinder /\ Carried(R, c) /\ Count(R, c, k) > 0
      BY <3>2 DEF CarriedIn, Count
    <3>4. PICK i \in DOMAIN R[c] : R[c][i].kind = k
      BY <1>0, <3>3, CountedIsThere
    <3>5. <<c, i>> \in Of(R, k)
      BY <3>3, <3>4 DEF Of, Positions
    <3> QED BY <3>5
  <2> HIDE DEF there, R
  <2> QED BY <1>0, <1>1, <2>1, <2>2 DEF R
<1>2. CASE ~(r.left = 0 \/ there = {})
  <2>1. t \in {[S |-> TakeOut(R, p[1], p[2], Least(r.left, R[p[1]][p[2]].n)),
                left |-> r.left - Least(r.left, R[p[1]][p[2]].n)] : p \in there}
    BY <1>2 DEF Take
  <2>2. PICK p \in there : t = [S |-> TakeOut(R, p[1], p[2], Least(r.left, R[p[1]][p[2]].n)),
                                left |-> r.left - Least(r.left, R[p[1]][p[2]].n)]
    BY <2>1
  <2> DEFINE c == p[1]
             i == p[2]
             m == Least(r.left, R[c][i].n)
             T == TakeOut(R, c, i, m)
  <2>3. c \in CarriedIn(R) /\ i \in DOMAIN R[c] /\ R[c][i].kind = k /\ c \in Cylinder
    BY DEF Of, Positions, CarriedIn
  <2>4. t.S = T /\ t.left = r.left - m
    BY <2>2
  <2> HIDE DEF c, i, R, m, T
  <2>5. R[c][i] # Nothing
    BY <2>3, KindsAre DEF Nothing, Thing
  <2>6. R[c][i].n \in 1..StackSize /\ StackSize \in Nat
    BY <1>0, <2>3, <2>5, TidyThing
  <2>7. m \in Nat /\ m > 0 /\ m <= R[c][i].n /\ m <= r.left
    BY <1>0, <1>2, <2>6 DEF Least, m, R
  <2>8. /\ Comes(R, TakeOut(R, c, i, m), c, R[c][i].kind, -m)
        /\ Sound(TakeOut(R, c, i, m), {}) /\ CarriedIn(TakeOut(R, c, i, m)) = CarriedIn(R)
    BY <1>0, <2>3, <2>5, <2>7, CarriedTaken
  <2>9. Comes(R, T, c, k, -m) /\ Sound(T, {}) /\ CarriedIn(T) = CarriedIn(R)
    BY <2>3, <2>8 DEF T
  <2>10. ASSUME NEW C \in SUBSET Cylinder, c \in C
         PROVE  Amount(T, C, Only(k)) = Amount(R, C, Only(k)) - m
    <3>1. Only(k) \in Weights /\ Only(k)[k] = 1
      BY <1>0, OnlyIs
    <3>2. Amount(T, C, Only(k)) = Amount(R, C, Only(k)) + Only(k)[k] * (-m)
      BY <2>9, <2>10, <3>1 DEF Comes
    <3>3. Amount(R, C, Only(k)) \in Nat
      BY <1>0, <3>1, AmountIs
    <3> QED BY <2>7, <3>1, <3>2, <3>3
  <2>11. Total(T, k) = Total(R, k) - m
    BY <2>3, <2>10 DEF Total
  <2>12. TypeCount(T, k) = TypeCount(R, k) - m
    BY <1>0, <2>3, <2>9, <2>10 DEF TypeCount
  <2>13. /\ Total(R, k) = Total(S, k) - (n - r.left)
         /\ TypeCount(R, k) = TypeCount(S, k) - (n - r.left)
    BY DEF Taken, R
  <2>14. t.left \in 0..n /\ t.left < r.left
    BY <1>0, <2>4, <2>7
  <2>15. /\ Total(T, k) = Total(S, k) - (n - t.left)
         /\ TypeCount(T, k) = TypeCount(S, k) - (n - t.left)
    BY <1>0, <2>4, <2>7, <2>11, <2>12, <2>13
  <2> QED BY <2>4, <2>9, <2>14, <2>15 DEF Taken
<1> QED BY <1>1, <1>2

\* Whatever is taken: all that is wanted, unless equipped things are spared.
LEMMA TypeRemovedIs ==
    ASSUME NEW S, Sound(S, {}), NEW k \in Kind \ Bag, NEW n \in Nat,
           NEW onlyContainers \in BOOLEAN, NEW u \in TypeRemoved(S, k, n, onlyContainers)
    PROVE  /\ Sound(u.S, {})
           /\ Total(u.S, k) \in Nat /\ Total(S, k) \in Nat
           /\ u.done => Total(S, k) - Total(u.S, k) = n
           /\ ~u.done => \/ Total(S, k) - Total(u.S, k) = 0
                         \/ onlyContainers /\ Total(S, k) - Total(u.S, k) < n
<1>f. PICK f : TakenAll(f, S, k, n, onlyContainers)
  BY TakenIs
<1>1. /\ f[0] = {[S |-> S, left |-> n]}
      /\ \A i \in 1..n : f[i] = UNION {Take(r, k, onlyContainers) : r \in f[i - 1]}
      /\ TypeRemoved(S, k, n, onlyContainers) =
            IF TypeCount(S, k) < n THEN {[S |-> S, done |-> FALSE]}
            ELSE {[S |-> r.S, done |-> r.left = 0] : r \in f[n]}
  BY <1>f DEF TakenAll
<1>0. TypeCount(S, k) \in Nat /\ Total(S, k) \in Nat
  BY TypeCountNatural
<1>2. CASE TypeCount(S, k) < n
  <2>1. u.S = S /\ u.done = FALSE
    BY <1>1, <1>2
  <2> QED BY <1>0, <2>1
<1>3. CASE ~(TypeCount(S, k) < n)
  <2> DEFINE Good(r, i) == Taken(S, k, n, r) /\ (onlyContainers \/ r.left <= n - i)
             A == {i \in Nat : i <= n => \A r \in f[i] : Good(r, i)}
  <2>1. 0 \in A
    <3> SUFFICES ASSUME NEW r \in f[0] PROVE Good(r, 0)
      OBVIOUS
    <3>1. r.S = S /\ r.left = n
      BY <1>1
    <3>2. r.left \in 0..n /\ n - r.left = 0 /\ r.left <= n - 0
      BY <3>1
    <3>3. /\ Total(r.S, k) = Total(S, k) - (n - r.left)
          /\ TypeCount(r.S, k) = TypeCount(S, k) - (n - r.left)
      BY <1>0, <3>1, <3>2
    <3> QED BY <3>1, <3>2, <3>3 DEF Taken
  <2>2. ASSUME NEW i \in Nat, i \in A PROVE i + 1 \in A
    <3> SUFFICES ASSUME i + 1 <= n, NEW t \in f[i + 1] PROVE Good(t, i + 1)
      OBVIOUS
    <3>1. i <= n /\ i + 1 \in 1..n /\ (i + 1) - 1 = i
      OBVIOUS
    <3>2. f[i + 1] = UNION {Take(r, k, onlyContainers) : r \in f[i]}
      BY <1>1, <3>1
    <3>3. PICK r \in f[i] : t \in Take(r, k, onlyContainers)
      BY <3>2
    <3>4. Good(r, i)
      BY <2>2, <3>1
    <3>5. /\ Taken(S, k, n, t)
          /\ \/ t.left < r.left
             \/ t.left = r.left /\ (r.left = 0 \/ onlyContainers \/ TypeCount(r.S, k) = 0)
      BY <3>3, <3>4, TakeKeeps
    <3>6. t.left \in 0..n /\ r.left \in 0..n /\ TypeCount(r.S, k) = TypeCount(S, k) - (n - r.left)
      BY <3>4, <3>5 DEF Taken
    <3>7. TypeCount(r.S, k) = 0 => r.left = 0
      BY <1>0, <1>3, <3>6
    <3>8. onlyContainers \/ t.left <= n - (i + 1)
      BY <3>1, <3>4, <3>5, <3>6, <3>7
    <3> QED BY <3>5, <3>8
  <2> HIDE DEF A
  <2>3. Nat \subseteq A
    BY <2>1, <2>2, SetInduction
  <2>4. PICK r \in f[n] : u = [S |-> r.S, done |-> r.left = 0]
    BY <1>1, <1>3
  <2>5. Good(r, n)
    BY <2>3 DEF A
  <2>6. u.S = r.S /\ (u.done <=> r.left = 0)
    BY <2>4
  <2>7. /\ r.left \in 0..n /\ Sound(r.S, {}) /\ Total(r.S, k) = Total(S, k) - (n - r.left)
        /\ (onlyContainers \/ r.left <= n - n)
    BY <2>5 DEF Taken
  <2>8. Total(r.S, k) \in Nat
    BY <2>7, TypeCountNatural
  <2>9. Total(S, k) - Total(r.S, k) = n - r.left
    BY <1>0, <2>7, <2>8
  <2>10. r.left = 0 => n - r.left = n
    BY <2>7
  <2>11. r.left # 0 => onlyContainers /\ n - r.left < n
    BY <2>7
  <2> QED BY <1>0, <2>6, <2>7, <2>8, <2>9, <2>10, <2>11
<1> QED BY <1>2, <1>3

LEMMA SaidOfRemoved ==
    ASSUME Sound(world, {}), NEW k \in Kind \ Bag, NEW n \in Nat, NEW onlyContainers \in BOOLEAN
    PROVE  RemovedAsTold(k, n, onlyContainers)
<1> SUFFICES ASSUME NEW r \in TypeRemoved(world, k, n, onlyContainers)
             PROVE  LET gone == Total(world, k) - Total(r.S, k)
                    IN  IF r.done THEN gone = n ELSE gone = 0 \/ (onlyContainers /\ gone < n)
  BY DEF RemovedAsTold
<1> QED BY TypeRemovedIs

-----------------------------------------------------------------------------
(* Money.                                                                  *)

LEMMA Commutes == \A a, b \in Int : a * b = b * a
OBVIOUS

\* Division, for numbers as they are here.
LEMMA Divided ==
    ASSUME NEW a \in Nat, NEW b \in Nat, b > 0, b <= a
    PROVE  a \div b \in Nat /\ a \div b > 0 /\ b * (a \div b) <= a
<1> DEFINE q == a \div b
           m == a % b
<1>1. q \in Int /\ m \in 0..(b - 1) /\ a = b * q + m
  OBVIOUS
<1> HIDE DEF q, m
<1>2. q > 0
  <2> SUFFICES ASSUME q <= 0 PROVE FALSE
    BY <1>1
  <2>1. b * q <= 0
    BY <1>1
  <2> QED BY <1>1, <2>1
<1> QED BY <1>1, <1>2 DEF q

LEMMA Larger ==
    ASSUME NEW b \in Nat, NEW x \in Nat, NEW y \in Nat, x <= y
    PROVE  b * x <= b * y /\ b * x \in Nat /\ b * y \in Nat
OBVIOUS

\* There are coins for whatever is owed, and they are worth no more.
LEMMA CoinIs ==
    ASSUME NEW owed \in Nat, owed > 0
    PROVE  /\ Coin(owed) \in Stackable /\ Coin(owed) \in Kind \ Bag
           /\ Worth[Coin(owed)] \in Nat /\ Worth[Coin(owed)] > 0
           /\ Number(owed) \in Counts(Coin(owed)) /\ Number(owed) \in Nat /\ Number(owed) > 0
           /\ Worth[Coin(owed)] * Number(owed) <= owed
           /\ Worth[Coin(owed)] * Number(owed) > 0
           /\ Worth[Coin(owed)] * Number(owed) \in Nat
           /\ Number(owed) * Worth[Coin(owed)] = Worth[Coin(owed)] * Number(owed)
<1> DEFINE J == {j \in DOMAIN Coins : Worth[Coins[j]] <= owed}
           P(j) == /\ Worth[Coins[j]] <= owed
                   /\ \A i \in 1..(j - 1) : Worth[Coins[i]] > owed
<1>0. /\ Coins \in Seq(Stackable) /\ Coins # <<>> /\ Worth \in [Stackable -> Nat \ {0}]
      /\ Worth[Coins[Len(Coins)]] = 1 /\ StackSize \in Nat \ {0}
  BY InventoryAssumption
<1>1. /\ DOMAIN Coins = 1..Len(Coins)
      /\ Len(Coins) \in Nat \ {0}
      /\ \A j \in DOMAIN Coins : Coins[j] \in Stackable
  BY <1>0
<1>2. Len(Coins) \in J /\ J \in SUBSET Nat
  BY <1>0, <1>1
<1>3. PICK x \in J : \A y \in J : x <= y
  <2> HIDE DEF J
  <2>1. J # {}
    BY <1>2
  <2> QED BY <1>2, <2>1, LeastExists
<1>4. P(x)
  <2>1. ASSUME NEW i \in 1..(x - 1) PROVE Worth[Coins[i]] > owed
    <3>1. x \in 1..Len(Coins)
      BY <1>1, <1>3
    <3>2. i \in DOMAIN Coins /\ i < x
      BY <1>1, <3>1
    <3>3. i \notin J
      BY <1>1, <1>3, <3>1, <3>2
    <3>4. Worth[Coins[i]] \in Nat
      BY <1>0, <1>1, <3>2
    <3> QED BY <3>2, <3>3, <3>4
  <2> QED BY <1>3, <2>1
<1> DEFINE j == CHOOSE j \in DOMAIN Coins : P(j)
<1>5. j \in DOMAIN Coins /\ P(j)
  <2>1. x \in DOMAIN Coins
    BY <1>3
  <2> HIDE DEF P
  <2> QED BY <1>4, <2>1
<1>6. Coin(owed) = Coins[j]
  BY DEF Coin
<1> HIDE DEF j
<1> DEFINE k == Coin(owed)
           w == Worth[k]
           n == Number(owed)
<1>7. k \in Stackable /\ w \in Nat /\ w > 0 /\ w <= owed
  BY <1>0, <1>1, <1>5, <1>6
<1>8. k \in Kind \ Bag
  BY <1>7, KindsAre
<1>9. n = Least(StackSize, owed \div w)
  BY DEF Number
<1> HIDE DEF k, w, n
<1>10. owed \div w \in Nat /\ owed \div w > 0 /\ w * (owed \div w) <= owed
  BY <1>7, Divided
<1>11. n \in Nat /\ n > 0 /\ n <= owed \div w /\ n <= StackSize
  BY <1>0, <1>9, <1>10 DEF Least
<1>12. w * n <= w * (owed \div w) /\ w * n \in Nat /\ w * (owed \div w) \in Nat
  BY <1>7, <1>10, <1>11, Larger
<1>13. w * n > 0
  <2>1. w * 1 <= w * n /\ w * 1 = w
    BY <1>7, <1>11, Larger
  <2> QED BY <1>7, <1>12, <2>1
<1>14. n \in Counts(k)
  BY <1>0, <1>7, <1>11 DEF Counts, Most
<1>15. n * w = w * n
  BY <1>7, <1>11, Commutes
<1> QED BY <1>7, <1>8, <1>10, <1>11, <1>12, <1>13, <1>14, <1>15 DEF k, w, n

\* What has been given so far, and what comes of it where no room is hidden.
Given(S, money, drop, r) ==
    /\ DOMAIN r = {"S", "owed", "done"} /\ r.done \in BOOLEAN
    /\ r.owed \in 0..money
    /\ Sound(r.S, {}) /\ SameBags(S, r.S)
    /\ drop => r.done
    /\ ~drop => \A C \in SUBSET Cylinder :
            Amount(r.S, C, Money) <=
                Amount(S, C, Money) + (money - IF r.done THEN r.owed ELSE 0)
    /\ r.done => Riches(r.S) >= Riches(S) + (money - r.owed)
GivenPlainly(S, money, r) ==
    /\ Spacious(r.S)
    /\ r.done => Riches(r.S) = Riches(S) + (money - r.owed)

LEMMA RichesNatural ==
    ASSUME NEW S, Sound(S, {})
    PROVE  /\ \A C \in SUBSET Cylinder : Amount(S, C, Money) \in Nat
           /\ Riches(S) \in Nat /\ Purse(S) \in Nat
           /\ CarriedIn(S) \in SUBSET Cylinder /\ S \in Worlds
<1>1. S \in Worlds /\ CarriedIn(S) \in SUBSET Cylinder
  BY PlayerCarried DEF Sound, Tidy
<1> QED BY <1>1, AmountIs, MoneyIs DEF Riches, Purse

\* What n more coins are worth.
LEMMA MoreRiches ==
    ASSUME NEW S, NEW T, NEW k \in Stackable, NEW x \in Nat, More(S, T, k, x)
    PROVE  /\ Riches(T) = Riches(S) + Worth[k] * x
           /\ \A C \in SUBSET Cylinder : Amount(T, C, Money) <= Amount(S, C, Money) + Worth[k] * x
<1>1. Money \in Weights /\ Money[k] = Worth[k]
  BY MoneyIs
<1> QED BY <1>1 DEF More, Riches

\* What is known of one stack of coins being given.
LEMMA HandedIs ==
    ASSUME NEW S, Sound(S, {}), NEW money \in Nat, NEW drop \in BOOLEAN, NEW r,
           Given(S, money, drop, r), r.owed # 0, r.done, NEW a,
           LET k == Coin(r.owed) IN
               /\ Filled(r.S, k, Number(r.owed), a) /\ (a.stuck \/ a.left = 0)
    PROVE  LET q == Handed(r, a, drop)
           IN  /\ Given(S, money, drop, q)
               /\ q.done => q.owed < r.owed
               /\ /\ GivenPlainly(S, money, r)
                  /\ FilledPlainly(Coin(r.owed), Number(r.owed), <<>>, a)
                  => GivenPlainly(S, money, q)
<1> DEFINE q == Handed(r, a, drop)
           R == r.S
           k == Coin(r.owed)
           n == Number(r.owed)
           y == Worth[k] * n
<1>0. /\ r.owed \in Nat /\ r.owed > 0 /\ r.owed \in 0..money /\ Sound(R, {}) /\ SameBags(S, R)
      /\ DOMAIN r = {"S", "owed", "done"} /\ R \in Worlds
  <2>1. r.owed \in 0..money /\ Sound(R, {}) /\ SameBags(S, R) /\ DOMAIN r = {"S", "owed", "done"}
    BY DEF Given
  <2> QED BY <2>1 DEF Sound, Tidy
<1>1. /\ k \in Stackable /\ k \in Kind \ Bag /\ n \in Counts(k) /\ n \in Nat /\ n > 0
      /\ y \in Nat /\ y > 0 /\ y <= r.owed /\ n * Worth[k] = y
      /\ Worth[k] \in Nat
  BY <1>0, CoinIs
<1>2. Filled(R, k, n, a) /\ (a.stuck \/ a.left = 0)
  OBVIOUS
<1> DEFINE f == a.first.n
           D == Dropped(a.S, k, n - f)
<1>3. q = IF ~a.stuck THEN [r EXCEPT !.S = a.S, !.owed = @ - n * Worth[k]]
          ELSE IF drop THEN [r EXCEPT !.S = D, !.owed = @ - n * Worth[k]]
          ELSE [r EXCEPT !.S = a.S, !.done = FALSE]
  BY DEF Handed
<1> HIDE DEF k, n, y, R, q, D
<1>4. /\ a.left \in 0..n /\ f \in 0..(n - a.left) /\ More(R, a.S, k, n - a.left)
  BY <1>2 DEF Filled
<1> HIDE DEF f
<1>5. ~drop => \A C \in SUBSET Cylinder :
        Amount(R, C, Money) <= Amount(S, C, Money) + (money - r.owed)
  BY DEF Given, R
<1>6. /\ \A C \in SUBSET Cylinder : Amount(R, C, Money) \in Nat /\ Amount(S, C, Money) \in Nat
      /\ Riches(R) \in Nat /\ Riches(S) \in Nat
  BY <1>0, RichesNatural
<1>7. CASE ~a.stuck
  <2>1. q = [r EXCEPT !.S = a.S, !.owed = @ - n * Worth[k]]
    BY <1>3, <1>7
  <2>2. DOMAIN q = DOMAIN r /\ q.S = a.S /\ q.owed = r.owed - y /\ q.done = r.done
    BY <1>0, <1>1, <2>1
  <2>3. a.left = 0 /\ n - a.left = n
    BY <1>1, <1>2, <1>7
  <2>4. More(R, a.S, k, n)
    BY <1>4, <2>3
  <2>5. Riches(a.S) = Riches(R) + y /\ \A C \in SUBSET Cylinder :
                Amount(a.S, C, Money) <= Amount(R, C, Money) + y
    BY <1>1, <2>4, MoreRiches DEF y
  <2>6. Sound(a.S, {}) /\ SameBags(S, a.S)
    BY <1>0, <2>4 DEF More, SameBags
  <2>7. \A C \in SUBSET Cylinder : Amount(a.S, C, Money) \in Nat
    BY <2>6, RichesNatural
  <2>8. q.owed \in 0..money /\ q.owed < r.owed
    BY <1>0, <1>1, <2>2
  <2>9. ~drop => \A C \in SUBSET Cylinder :
            Amount(q.S, C, Money) <= Amount(S, C, Money) + (money - q.owed)
    <3> SUFFICES ASSUME ~drop, NEW C \in SUBSET Cylinder
                 PROVE  Amount(q.S, C, Money) <= Amount(S, C, Money) + (money - q.owed)
      OBVIOUS
    <3>1. Amount(a.S, C, Money) <= Amount(R, C, Money) + y
      BY <2>5
    <3>2. Amount(R, C, Money) <= Amount(S, C, Money) + (money - r.owed)
      BY <1>5
    <3>3. /\ Amount(a.S, C, Money) \in Nat /\ Amount(R, C, Money) \in Nat
          /\ Amount(S, C, Money) \in Nat
      BY <1>6, <2>7
    <3>4. Amount(a.S, C, Money) <= Amount(S, C, Money) + (money - (r.owed - y))
      BY <1>0, <1>1, <3>1, <3>2, <3>3
    <3> QED BY <2>2, <3>4
  <2>r. Riches(q.S) >= Riches(S) + (money - q.owed)
    <3>1. Riches(R) >= Riches(S) + (money - r.owed)
      BY DEF Given, R
    <3> QED BY <1>0, <1>1, <1>6, <2>2, <2>5, <3>1
  <2>10. Given(S, money, drop, q)
    BY <1>0, <2>2, <2>6, <2>8, <2>9, <2>r DEF Given
  <2>11. ASSUME GivenPlainly(S, money, r), FilledPlainly(k, n, <<>>, a) PROVE GivenPlainly(S, money, q)
    <3>1. Spacious(q.S)
      BY <2>2, <2>11 DEF FilledPlainly
    <3>2. Riches(R) = Riches(S) + (money - r.owed)
      BY <2>11 DEF GivenPlainly, R
    <3>3. Riches(q.S) = Riches(S) + (money - q.owed)
      BY <1>0, <1>1, <1>6, <2>2, <2>5, <3>2
    <3> QED BY <3>1, <3>3 DEF GivenPlainly
  <2> QED BY <2>8, <2>10, <2>11 DEF q, k, n
<1>8. CASE a.stuck /\ drop
  <2>1. q = [r EXCEPT !.S = D, !.owed = @ - n * Worth[k]]
    BY <1>3, <1>8
  <2>2. DOMAIN q = DOMAIN r /\ q.S = D /\ q.owed = r.owed - y /\ q.done = r.done
    BY <1>0, <1>1, <2>1
  <2>3. n - f \in Nat /\ (n - f > 0 => n - f \in Counts(k))
    <3>1. n - f \in Nat /\ n - f <= n
      BY <1>1, <1>4
    <3>2. n - f > 0 => n - f \in 1..n
      BY <1>1, <1>4, <3>1
    <3> QED BY <1>1, <3>1, <3>2, CountsIn
  <2>4. n - a.left \in Nat
    BY <1>1, <1>4
  <2>5. /\ More(R, D, k, (n - a.left) + (n - f))
        /\ \A c \in Cylinder \ {Ground} : D[c] = a.S[c]
    <3> DEFINE A == a.S
               x == n - a.left
               e == n - f
               X == Dropped(A, k, e)
    <3>1. R \in Worlds /\ k \in Kind \ Bag /\ x \in Nat /\ More(R, A, k, x) /\ e \in Nat
      BY <1>0, <1>1, <1>4, <2>3, <2>4
    <3>2. e > 0 => e \in Counts(k)
      BY <2>3
    <3>3. D = X
      BY DEF D
    <3> HIDE DEF A, x, e, X
    <3>4. More(R, Dropped(A, k, e), k, x + e)
      BY <3>1, <3>2, DroppedIs
    <3>5. \A c \in Cylinder \ {Ground} : Dropped(A, k, e)[c] = A[c]
      BY <3>1, <3>2, DroppedIs
    <3>6. More(R, D, k, x + e)
      BY <3>3, <3>4 DEF X
    <3>7. \A c \in Cylinder \ {Ground} : D[c] = A[c]
      BY <3>3, <3>5 DEF X
    <3> QED BY <3>6, <3>7 DEF x, e, A
  <2>6. Sound(D, {}) /\ SameBags(S, D)
    BY <1>0, <2>5 DEF More, SameBags
  <2>7. q.owed \in 0..money /\ q.owed < r.owed
    BY <1>0, <1>1, <2>2
  <2>r. Riches(q.S) >= Riches(S) + (money - q.owed)
    <3> DEFINE x == (n - a.left) + (n - f)
    <3>1. x \in Nat /\ n <= x
      BY <1>1, <1>4, <2>3
    <3> HIDE DEF x
    <3>2. y <= Worth[k] * x /\ Worth[k] * x \in Nat
      BY <1>1, <3>1, Larger DEF y
    <3>3. Riches(D) = Riches(R) + Worth[k] * x
      BY <1>1, <2>5, <3>1, MoreRiches DEF x
    <3>4. Riches(R) >= Riches(S) + (money - r.owed)
      BY DEF Given, R
    <3> DEFINE z == Worth[k] * x
    <3> HIDE DEF z
    <3>5. y <= z /\ z \in Nat /\ Riches(D) = Riches(R) + z
      BY <3>2, <3>3 DEF z
    <3> QED BY <1>0, <1>1, <1>6, <2>2, <3>4, <3>5
  <2>8. Given(S, money, drop, q)
    BY <1>0, <1>8, <2>2, <2>6, <2>7, <2>r DEF Given
  <2>9. ASSUME GivenPlainly(S, money, r), FilledPlainly(k, n, <<>>, a) PROVE GivenPlainly(S, money, q)
    <3>1. a.left = n /\ f = 0
      <4>1. a.left = n
        BY <1>8, <2>9 DEF FilledPlainly
      <4> QED BY <1>1, <1>4, <4>1
    <3>2. More(R, D, k, n)
      <4>1. (n - a.left) + (n - f) = n
        BY <1>1, <3>1
      <4> QED BY <2>5, <4>1
    <3>3. Riches(D) = Riches(R) + y
      BY <1>1, <3>2, MoreRiches DEF y
    <3>4. Spacious(D)
      <4>1. Sound(a.S, {}) /\ SameBags(R, a.S) /\ SameBags(R, D)
        BY <1>4, <2>5 DEF More
      <4>2. SameBags(a.S, D)
        BY <4>1 DEF SameBags
      <4>3. Spacious(a.S)
        BY <2>9 DEF FilledPlainly
      <4>4. \A b \in CarriedBags(a.S) : Len(D[b]) <= Len(a.S[b]) \/ Len(D[b]) <= Capacity
        <5> TAKE b \in CarriedBags(a.S)
        <5>1. b \in Cylinder /\ b # Ground
          BY KindsAre DEF CarriedBags
        <5>2. D[b] = a.S[b] /\ a.S[b] \in Seq(Items)
          BY <2>5, <4>1, <5>1, WorldsAre DEF Sound, Tidy
        <5> QED BY <5>2
      <4> QED BY <2>6, <4>1, <4>2, <4>3, <4>4, SpaciousKept
    <3>5. Riches(R) = Riches(S) + (money - r.owed)
      BY <2>9 DEF GivenPlainly, R
    <3>6. Riches(q.S) = Riches(S) + (money - q.owed)
      BY <1>0, <1>1, <1>6, <2>2, <3>3, <3>5
    <3> QED BY <2>2, <3>4, <3>6 DEF GivenPlainly
  <2> QED BY <2>7, <2>8, <2>9 DEF q, k, n
<1>9. CASE a.stuck /\ ~drop
  <2>1. q = [r EXCEPT !.S = a.S, !.done = FALSE]
    BY <1>3, <1>9
  <2>2. DOMAIN q = DOMAIN r /\ q.S = a.S /\ q.owed = r.owed /\ q.done = FALSE
    BY <1>0, <2>1
  <2>3. n - a.left \in Nat /\ n - a.left <= n
    BY <1>1, <1>4
  <2>4. \A C \in SUBSET Cylinder :
                Amount(a.S, C, Money) <= Amount(R, C, Money) + Worth[k] * (n - a.left)
    BY <1>1, <1>4, <2>3, MoreRiches
  <2>5. Worth[k] * (n - a.left) <= y /\ Worth[k] * (n - a.left) \in Nat
    BY <1>1, <2>3, Larger DEF y
  <2>6. Sound(a.S, {}) /\ SameBags(S, a.S)
    BY <1>0, <1>4 DEF More, SameBags
  <2>7. \A C \in SUBSET Cylinder : Amount(a.S, C, Money) \in Nat
    BY <2>6, RichesNatural
  <2> DEFINE z == Worth[k] * (n - a.left)
  <2> HIDE DEF z
  <2>8. \A C \in SUBSET Cylinder :
            Amount(q.S, C, Money) <= Amount(S, C, Money) + (money - 0)
    <3> TAKE C \in SUBSET Cylinder
    <3>1. Amount(a.S, C, Money) <= Amount(R, C, Money) + z
      BY <2>4 DEF z
    <3>2. Amount(R, C, Money) <= Amount(S, C, Money) + (money - r.owed)
      BY <1>5, <1>9
    <3>3. /\ Amount(a.S, C, Money) \in Nat /\ Amount(R, C, Money) \in Nat
          /\ Amount(S, C, Money) \in Nat
      BY <1>6, <2>7
    <3>4. z <= y /\ z \in Nat
      BY <2>5 DEF z
    <3>5. Amount(a.S, C, Money) <= Amount(S, C, Money) + (money - 0)
      BY <1>0, <1>1, <3>1, <3>2, <3>3, <3>4
    <3> QED BY <2>2, <3>5
  <2>9. q.owed \in 0..money /\ ~q.done /\ q.done \in BOOLEAN
    BY <1>0, <2>2
  <2>10. Given(S, money, drop, q)
    BY <1>0, <1>9, <2>2, <2>6, <2>8, <2>9 DEF Given
  <2>11. FilledPlainly(k, n, <<>>, a) => GivenPlainly(S, money, q)
    BY <2>2, <2>9 DEF FilledPlainly, GivenPlainly
  <2> QED BY <2>9, <2>10, <2>11 DEF q, k, n
<1> QED BY <1>7, <1>8, <1>9

\* addMoney.
LEMMA MoneyAddedGiven ==
    ASSUME NEW S, Sound(S, {}), NEW money \in Nat, NEW drop \in BOOLEAN, NEW offered
    PROVE  LET r == MoneyAdded(S, money, drop, offered)
           IN  /\ Given(S, money, drop, r)
               /\ r.done => r.owed = 0
               /\ Spacious(S) /\ offered = <<>> => GivenPlainly(S, money, r)
<1> DEFINE plain == Spacious(S) /\ offered = <<>>
           Good(r, i) == /\ Given(S, money, drop, r)
                         /\ r.done => r.owed <= money - i
                         /\ plain => GivenPlainly(S, money, r)
<1>1. PICK f : /\ f[0] = Owing(S, money)
               /\ \A i \in 1..money : f[i] = Give(f[i - 1], drop, offered)
               /\ MoneyAdded(S, money, drop, offered) = f[money]
  BY MoneyAddedIs
<1>2. Good(Owing(S, money), 0)
  <2> DEFINE r == Owing(S, money)
  <2>1. r.S = S /\ r.owed = money /\ r.done = TRUE /\ DOMAIN r = {"S", "owed", "done"}
    BY DEF Owing
  <2> HIDE DEF r
  <2>2. /\ r.owed \in 0..money /\ money - r.owed = 0 /\ r.owed <= money - 0
        /\ r.done \in BOOLEAN /\ r.done
    <3>1. r.owed = money /\ r.done = TRUE
      BY <2>1
    <3>2. r.owed \in 0..money /\ money - r.owed = 0 /\ r.owed <= money - 0
      BY <3>1
    <3> QED BY <3>1, <3>2
  <2>3. /\ \A C \in SUBSET Cylinder : Amount(S, C, Money) <= Amount(S, C, Money) + 0
        /\ Riches(S) = Riches(S) + 0
    BY RichesNatural
  <2>4. Given(S, money, drop, r)
    <3>1. SameBags(S, S)
      BY DEF SameBags
    <3>2. ASSUME NEW C \in SUBSET Cylinder
          PROVE  Amount(r.S, C, Money)
                     <= Amount(S, C, Money) + money - (IF r.done THEN r.owed ELSE 0)
      BY <2>1, RichesNatural
    <3>3. Riches(r.S) >= Riches(S) + money - r.owed
      BY <2>1, RichesNatural
    <3> QED BY <2>1, <2>2, <3>1, <3>2, <3>3 DEF Given
  <2>5. plain => GivenPlainly(S, money, r)
    BY <2>1, <2>2, <2>3 DEF GivenPlainly
  <2> QED BY <2>2, <2>4, <2>5 DEF r
<1>3. ASSUME NEW r, NEW i \in Nat, i < money, Good(r, i) PROVE Good(Give(r, drop, offered), i + 1)
  <2> DEFINE q == Give(r, drop, offered)
  <2>0. r.owed \in 0..money
    BY <1>3 DEF Given
  <2>1. CASE r.owed = 0 \/ ~r.done
    <3>1. q = r
      BY <2>1 DEF Give
    <3>2. r.done => r.owed <= money - (i + 1)
      BY <1>3, <2>1
    <3> HIDE DEF q
    <3> QED BY <1>3, <3>1, <3>2 DEF q
  <2>2. CASE ~(r.owed = 0 \/ ~r.done)
    <3> DEFINE k == Coin(r.owed)
               n == Number(r.owed)
               a == Added(r.S, k, n, offered)
    <3>1. q = Handed(r, a, drop)
      BY <2>2 DEF Give
    <3>2. k \in Kind \ Bag /\ n \in Counts(k) /\ Sound(r.S, {})
      <4>1. r.owed \in Nat /\ r.owed > 0
        BY <2>0, <2>2
      <4> QED BY <1>3, <4>1, CoinIs DEF Given
    <3>3. Filled(r.S, k, n, a) /\ (a.stuck \/ a.left = 0)
      <4> HIDE DEF k, n
      <4> QED BY <3>2, AddedFilled
    <3>4. plain => FilledPlainly(k, n, <<>>, a)
      <4> SUFFICES ASSUME plain PROVE FilledPlainly(k, n, <<>>, a)
        OBVIOUS
      <4>1. Spacious(r.S)
        BY <1>3 DEF GivenPlainly
      <4> HIDE DEF k, n
      <4>2. FilledPlainly(k, n, <<>>, Added(r.S, k, n, <<>>))
        BY <3>2, <4>1, NothingOffered, AddedPlainly
      <4> QED BY <4>2
    <3> HIDE DEF a
    <3>5. LET h == Handed(r, a, drop)
          IN  /\ Given(S, money, drop, h)
              /\ h.done => h.owed < r.owed
              /\ GivenPlainly(S, money, r) /\ FilledPlainly(k, n, <<>>, a) => GivenPlainly(S, money, h)
      BY <1>3, <2>2, <3>3, HandedIs
    <3> HIDE DEF q, k, n
    <3>6. /\ Given(S, money, drop, q)
          /\ q.done => q.owed < r.owed
          /\ GivenPlainly(S, money, r) /\ FilledPlainly(k, n, <<>>, a) => GivenPlainly(S, money, q)
      BY <3>1, <3>5
    <3>7. q.owed \in 0..money
      BY <3>6 DEF Given
    <3>8. q.done => q.owed <= money - (i + 1)
      BY <1>3, <2>0, <2>2, <3>6, <3>7
    <3> HIDE DEF plain
    <3> QED BY <1>3, <3>4, <3>6, <3>8 DEF q
  <2> QED BY <2>1, <2>2
<1> DEFINE A == {i \in Nat : i <= money => Good(f[i], i)}
<1> HIDE DEF Good
<1>4. 0 \in A
  BY <1>1, <1>2
<1>5. ASSUME NEW i \in Nat, i \in A PROVE i + 1 \in A
  <2> SUFFICES ASSUME i + 1 <= money PROVE Good(f[i + 1], i + 1)
    OBVIOUS
  <2>1. i <= money /\ i < money /\ i + 1 \in 1..money /\ (i + 1) - 1 = i
    OBVIOUS
  <2>2. f[i + 1] = Give(f[i], drop, offered) /\ Good(f[i], i)
    BY <1>1, <1>5, <2>1
  <2> QED BY <1>3, <2>1, <2>2
<1> HIDE DEF A
<1>6. Nat \subseteq A
  BY <1>4, <1>5, SetInduction
<1>7. Good(f[money], money)
  BY <1>6 DEF A
<1>8. f[money].owed \in 0..money /\ (f[money].done => f[money].owed <= money - money)
  BY <1>7 DEF Good, Given
<1> QED BY <1>1, <1>7, <1>8 DEF Good

\* A stack of coins that is carried is taken.
LEMMA CoinsTaken ==
    ASSUME NEW R, Sound(R, {}), NEW p \in Coffers(R)
    PROVE  LET v == CoinsAt(R, p)
               T == TakeOut(R, p[1], p[2], R[p[1]][p[2]].n)
           IN  /\ v \in Nat /\ v > 0
               /\ Sound(T, {}) /\ SameBags(R, T) /\ CarriedIn(T) = CarriedIn(R)
               /\ Purse(T) = Purse(R) - v /\ Riches(T) = Riches(R) - v
               /\ Spacious(R) => Spacious(T)
<1> DEFINE c == p[1]
           i == p[2]
           k == R[c][i].kind
           n == R[c][i].n
           T == TakeOut(R, c, i, n)
           v == Worth[k] * n
<1>1. c \in CarriedIn(R) /\ c \in Cylinder /\ i \in DOMAIN R[c] /\ k \in Stackable
  BY DEF Coffers, Positions, CarriedIn
<1>2. CoinsAt(R, p) = v
  BY DEF CoinsAt
<1> HIDE DEF c, i
<1>3. Tidy(R) /\ R \in Worlds /\ R[c][i] # Nothing /\ k \notin Bag
  BY <1>1, KindsAre DEF Sound, Tidy, Nothing, Thing
<1>4. n \in Nat /\ n > 0 /\ n <= n
  <2>1. n \in 1..StackSize
    BY <1>1, <1>3, TidyThing
  <2> QED BY <2>1
<1> DEFINE m == n
<1> HIDE DEF m
<1>5. m \in Nat /\ m > 0 /\ m <= R[c][i].n /\ m = n
  BY <1>4 DEF m
<1>6. /\ Comes(R, TakeOut(R, c, i, m), c, R[c][i].kind, -m)
      /\ Sound(TakeOut(R, c, i, m), {}) /\ SameBags(R, TakeOut(R, c, i, m))
      /\ CarriedIn(TakeOut(R, c, i, m)) = CarriedIn(R)
  BY <1>1, <1>3, <1>5, CarriedTaken
<1> HIDE DEF T
<1>7. Comes(R, T, c, k, -n) /\ Sound(T, {}) /\ SameBags(R, T) /\ CarriedIn(T) = CarriedIn(R)
  BY <1>5, <1>6 DEF T
<1>8. Money[k] = Worth[k] /\ Worth[k] \in Nat /\ Worth[k] > 0 /\ Money \in Weights
  BY <1>1, MoneyIs
<1> HIDE DEF k, n
<1>9. v \in Nat /\ v > 0 /\ Worth[k] * (-n) = -v
  <2>1. Worth[k] * 1 <= Worth[k] * n /\ Worth[k] * n \in Nat /\ Worth[k] * 1 = Worth[k]
    BY <1>4, <1>8, Larger
  <2>2. Worth[k] * (-n) = -(Worth[k] * n)
    BY <1>4, <1>8, Times
  <2> QED BY <1>8, <2>1, <2>2
<1> HIDE DEF v
<1>10. ASSUME NEW C \in SUBSET Cylinder, c \in C
       PROVE  Amount(T, C, Money) = Amount(R, C, Money) - v
  <2>1. Amount(T, C, Money) = Amount(R, C, Money) + Money[k] * (-n)
    BY <1>7, <1>8, <1>10 DEF Comes
  <2>2. Amount(R, C, Money) \in Nat
    BY <1>3, <1>8, AmountIs
  <2> QED BY <1>8, <1>9, <2>1, <2>2
<1>11. Purse(T) = Purse(R) - v /\ Riches(T) = Riches(R) - v
  BY <1>1, <1>7, <1>10, RichesNatural DEF Purse, Riches
<1>12. Spacious(R) => Spacious(T)
  <2>1. \A b \in CarriedBags(R) : Len(T[b]) <= Len(R[b]) \/ Len(T[b]) <= Capacity
    <3> TAKE b \in CarriedBags(R)
    <3>1. b \in Cylinder /\ b # Player
      BY KindsAre DEF CarriedBags
    <3>2. R[b] \in Seq(Items) /\ Len(R[b]) \in Nat
      BY <1>3, <3>1, WorldsAre
    <3>3. CASE b # c
      BY <1>7, <3>1, <3>2, <3>3 DEF Comes
    <3>4. CASE b = c
      <4>1. T = [R EXCEPT ![c] = RemoveAt(R[c], i)]
        BY <3>1, <3>4 DEF T, TakeOut, n, k
      <4>2. T[c] = RemoveAt(R[c], i)
        BY <1>1, <1>3, <4>1 DEF Worlds
      <4>3. Len(T[c]) = Len(R[c]) - 1
        BY <1>1, <3>2, <3>4, <4>2, RemoveAtIs
      <4> QED BY <3>2, <3>4, <4>3
    <3> QED BY <3>3, <3>4
  <2> QED BY <1>7, <2>1, SpaciousKept
<1> QED BY <1>2, <1>7, <1>9, <1>11, <1>12 DEF T, v, k, n, c, i

\* Where there is money, there are coins.
LEMMA CoffersAre ==
    ASSUME NEW R, Sound(R, {}), Coffers(R) = {}
    PROVE  Purse(R) = 0
<1>0. R \in Worlds /\ Money \in Weights /\ Purse(R) \in Nat /\ CarriedIn(R) \in SUBSET Cylinder
  BY RichesNatural, MoneyIs
<1> SUFFICES ASSUME Purse(R) > 0 PROVE FALSE
  BY <1>0
<1>1. Amount(R, CarriedIn(R), Money) > 0
  BY DEF Purse
<1>2. PICK c \in CarriedIn(R) : Weight(R[c], Money) > 0
  BY <1>0, <1>1, AmountIs
<1>3. c \in Cylinder /\ Carried(R, c) /\ R[c] \in Seq(Items)
  BY <1>0, WorldsAre DEF CarriedIn
<1>4. PICK i \in DOMAIN R[c] : Value(R[c][i], Money) > 0
  BY <1>0, <1>2, <1>3, WeightNatural
<1>5. R[c][i].kind \in AnyKind /\ R[c][i].n \in Nat
  <2>1. R[c][i] \in Items
    BY <1>3
  <2> QED BY <2>1 DEF Items
<1>6. R[c][i].kind \in Stackable
  <2> SUFFICES ASSUME R[c][i].kind \notin Stackable PROVE FALSE
    OBVIOUS
  <2>1. Money[R[c][i].kind] = 0
    BY <1>5, MoneyIs
  <2> QED BY <1>4, <1>5, <2>1 DEF Value
<1>7. <<c, i>> \in Coffers(R)
  BY <1>3, <1>6 DEF Coffers, Positions
<1> QED BY <1>7

\* What has been paid so far, and what it comes to where no room is hidden.
Paying(S, money, drop, r) ==
    /\ DOMAIN r = {"S", "offered", "owed", "done"} /\ r.done \in BOOLEAN
    /\ r.owed \in 0..money
    /\ Sound(r.S, {}) /\ SameBags(S, r.S)
    /\ drop => r.done
    /\ r.done => Riches(r.S) >= Riches(S) - (money - r.owed)
    /\ r.done /\ r.owed # 0 => Purse(r.S) = Purse(S) - (money - r.owed)
    /\ ~r.done => Purse(r.S) <= Purse(S)
PayingPlainly(S, money, r) ==
    r.done =>
        Spacious(r.S) /\ r.offered = <<>> /\ Riches(r.S) = Riches(S) - (money - r.owed)

\* More than is owed is taken, and there is change.
LEMMA ChangedIs ==
    ASSUME NEW S, Sound(S, {}), NEW money \in Nat, NEW drop \in BOOLEAN, NEW offered, NEW r,
           Paying(S, money, drop, r), r.done, r.owed # 0,
           NEW T, Sound(T, {}), SameBags(r.S, T), NEW v \in Nat, v > r.owed,
           Purse(T) = Purse(r.S) - v, Riches(T) = Riches(r.S) - v
    PROVE  LET q == Changed(MoneyAdded(T, v - r.owed, drop, offered), r.owed, Purse(S),
                            drop, offered)
           IN  /\ Paying(S, money, drop, q)
               /\ q.done => q.owed = 0
               /\ PayingPlainly(S, money, r) /\ Spacious(T) /\ offered = <<>>
                  => PayingPlainly(S, money, q)
<1> DEFINE a == MoneyAdded(T, v - r.owed, drop, offered)
           x == v - r.owed
           R == r.S
           back == Purse(S) - Purse(a.S)
           q == Changed(a, r.owed, Purse(S), drop, offered)
<1>0. /\ r.owed \in 0..money /\ r.owed \in Nat /\ Sound(R, {}) /\ SameBags(S, R)
      /\ x \in Nat /\ x = v - r.owed /\ v = x + r.owed
      /\ Purse(R) = Purse(S) - (money - r.owed)
  BY DEF Paying
<1>1. SameBags(S, T) /\ CarriedIn(T) = CarriedIn(S)
  <2>1. SameBags(S, T)
    BY <1>0 DEF SameBags
  <2> QED BY <2>1, SameCarried
<1> HIDE DEF x, R
<1>2. LET m == MoneyAdded(T, x, drop, offered)
      IN  /\ Given(T, x, drop, m)
          /\ m.done => m.owed = 0
          /\ Spacious(T) /\ offered = <<>> => GivenPlainly(T, x, m)
  BY <1>0, MoneyAddedGiven
<1>3. a = MoneyAdded(T, x, drop, offered)
  BY DEF x
<1> HIDE DEF a
<1>4. /\ Given(T, x, drop, a)
      /\ a.done => a.owed = 0
      /\ Spacious(T) /\ offered = <<>> => GivenPlainly(T, x, a)
  BY <1>2, <1>3
<1>5. /\ a.owed \in 0..x /\ a.done \in BOOLEAN /\ Sound(a.S, {}) /\ SameBags(T, a.S)
      /\ drop => a.done
  BY <1>4 DEF Given
<1>6. SameBags(S, a.S) /\ CarriedIn(a.S) = CarriedIn(T)
  BY <1>1, <1>5, SameCarried DEF SameBags
<1>7. /\ Purse(S) \in Nat /\ Purse(T) \in Nat /\ Purse(a.S) \in Nat /\ Purse(R) \in Nat
      /\ Riches(S) \in Nat /\ Riches(T) \in Nat /\ Riches(a.S) \in Nat /\ Riches(R) \in Nat
  BY <1>0, <1>5, RichesNatural
<1>8. CASE a.done
  <2>1. q = [S |-> a.S, offered |-> offered, owed |-> 0, done |-> TRUE]
    BY <1>5, <1>8 DEF Changed
  <2> HIDE DEF q
  <2>2. q.S = a.S /\ q.offered = offered /\ q.owed = 0 /\ q.done = TRUE /\ DOMAIN q = {"S", "offered", "owed", "done"}
    BY <2>1
  <2>3. q.owed \in 0..money /\ q.owed = 0
    BY <2>2
  <2>r. Riches(q.S) >= Riches(S) - (money - q.owed)
    <3>1. Riches(R) >= Riches(S) - (money - r.owed)
      BY DEF Paying, R
    <3>2. Riches(a.S) >= Riches(T) + (x - 0)
      BY <1>4, <1>8 DEF Given
    <3>3. Riches(T) = Riches(R) - v
      BY DEF R
    <3> QED BY <1>0, <1>7, <2>2, <3>1, <3>2, <3>3
  <2>4. Paying(S, money, drop, q)
    BY <1>5, <1>6, <2>2, <2>3, <2>r DEF Paying
  <2>5. ASSUME PayingPlainly(S, money, r), Spacious(T), offered = <<>>
        PROVE  PayingPlainly(S, money, q)
    <3>1. Spacious(a.S) /\ Riches(a.S) = Riches(T) + (x - a.owed)
      BY <1>4, <1>8, <2>5 DEF GivenPlainly
    <3>2. Riches(R) = Riches(S) - (money - r.owed)
      BY <2>5 DEF PayingPlainly, R
    <3>3. a.owed = 0 /\ Riches(T) = Riches(R) - v
      BY <1>4, <1>8 DEF R
    <3>4. Riches(a.S) = Riches(S) - (money - 0)
      BY <1>0, <1>7, <3>1, <3>2, <3>3
    <3> QED BY <2>2, <2>5, <3>1, <3>4 DEF PayingPlainly
  <2> QED BY <2>3, <2>4, <2>5 DEF q, a
<1>9. CASE ~a.done
  <2>1. q = [S |-> GivenBack(a.S, back, drop, offered), offered |-> offered,
              owed |-> r.owed, done |-> FALSE]
    BY <1>5, <1>9 DEF Changed
  <2>2. Purse(a.S) <= Purse(T) + x
    <3>1. ~drop
      BY <1>5, <1>9
    <3>2. \A C \in SUBSET Cylinder :
            Amount(a.S, C, Money) <= Amount(T, C, Money) + (x - IF a.done THEN a.owed ELSE 0)
      BY <1>4, <3>1 DEF Given
    <3>3. CarriedIn(T) \in SUBSET Cylinder
      BY RichesNatural
    <3>4. Amount(a.S, CarriedIn(T), Money) <= Amount(T, CarriedIn(T), Money) + (x - 0)
      BY <1>9, <3>2, <3>3
    <3>5. Purse(a.S) <= Purse(T) + (x - 0)
      BY <1>6, <3>4 DEF Purse
    <3> QED BY <1>0, <1>7, <3>5
  <2>3. back \in Nat
    <3>1. Purse(T) = Purse(R) - v
      BY DEF R
    <3> QED BY <1>0, <1>7, <2>2, <3>1
  <2> DEFINE B == GivenBack(a.S, back, drop, offered)
  <2> HIDE DEF back, q
  <2>4. Sound(B, {}) /\ SameBags(a.S, B) /\ Purse(B) <= Purse(S)
    <3>1. CASE back = 0
      <4>1. B = a.S
        BY <3>1 DEF GivenBack
      <4>2. Purse(B) <= Purse(S)
        BY <1>7, <3>1, <4>1 DEF back
      <4> QED BY <1>5, <4>1, <4>2 DEF SameBags
    <3>2. CASE back # 0
      <4> DEFINE m == MoneyAdded(a.S, back, drop, offered)
      <4>1. B = m.S
        BY <3>2 DEF GivenBack
      <4>2. Given(a.S, back, drop, m)
        BY <1>5, <2>3, MoneyAddedGiven
      <4> HIDE DEF m, B
      <4>3. Sound(B, {}) /\ SameBags(a.S, B) /\ m.owed \in 0..back
        BY <4>1, <4>2 DEF Given
      <4>4. ~drop /\ CarriedIn(a.S) \in SUBSET Cylinder /\ CarriedIn(B) = CarriedIn(a.S)
        BY <1>5, <1>9, <4>3, RichesNatural, SameCarried
      <4>5. Amount(B, CarriedIn(a.S), Money) <=
                Amount(a.S, CarriedIn(a.S), Money) + (back - IF m.done THEN m.owed ELSE 0)
        BY <4>1, <4>2, <4>4 DEF Given
      <4>6. Purse(B) <= Purse(a.S) + (back - IF m.done THEN m.owed ELSE 0)
        BY <4>4, <4>5 DEF Purse
      <4>7. Purse(B) \in Nat
        BY <4>3, RichesNatural
      <4>8. Purse(B) <= Purse(a.S) + back
        BY <1>7, <2>3, <4>3, <4>6, <4>7
      <4> QED BY <1>7, <4>3, <4>7, <4>8 DEF back
    <3> QED BY <3>1, <3>2
  <2>5. SameBags(S, B)
    BY <1>6, <2>4 DEF SameBags
  <2> HIDE DEF B
  <2>6. q.S = B /\ q.owed = r.owed /\ q.done = FALSE /\ DOMAIN q = {"S", "offered", "owed", "done"}
    BY <2>1 DEF B
  <2>7. Paying(S, money, drop, q)
    BY <1>0, <1>5, <1>9, <2>4, <2>5, <2>6 DEF Paying
  <2>8. PayingPlainly(S, money, q) /\ ~q.done
    BY <2>6 DEF PayingPlainly
  <2> QED BY <2>7, <2>8 DEF q, a
<1> QED BY <1>5, <1>8, <1>9

\* A stack is taken, or all has been done.
LEMMA PayKeeps ==
    ASSUME NEW S, Sound(S, {}), NEW money \in Nat, NEW drop \in BOOLEAN, NEW r,
           Paying(S, money, drop, r), NEW t \in Pay(r, Purse(S), drop)
    PROVE  /\ Paying(S, money, drop, t)
           /\ t.done => \/ r.done /\ t.owed < r.owed
                        \/ t = r /\ (r.owed = 0 \/ Coffers(r.S) = {})
                        \/ t.owed = 0
           /\ PayingPlainly(S, money, r) => PayingPlainly(S, money, t)
<1> DEFINE R == r.S
           cheapest == {p \in Coffers(R) : \A o \in Coffers(R) : CoinsAt(R, p) <= CoinsAt(R, o)}
           Taking(p) == TakeOut(R, p[1], p[2], R[p[1]][p[2]].n)
           Left(p) == StillOffered(R, p, r.offered)
           Without(p) ==
                IF CoinsAt(R, p) <= r.owed
                THEN [r EXCEPT !.S = Taking(p), !.offered = Left(p), !.owed = @ - CoinsAt(R, p)]
                ELSE Changed(MoneyAdded(Taking(p), CoinsAt(R, p) - r.owed, drop, Left(p)),
                             r.owed, Purse(S), drop, Left(p))
<1>0. /\ r.owed \in 0..money /\ r.owed \in Nat /\ Sound(R, {}) /\ SameBags(S, R)
      /\ DOMAIN r = {"S", "offered", "owed", "done"} /\ r.done \in BOOLEAN
  BY DEF Paying
<1>1. CASE r.owed = 0 \/ ~r.done \/ Coffers(R) = {}
  <2>1. t = r
    BY <1>1 DEF Pay
  <2> QED BY <1>1, <2>1
<1>2. CASE ~(r.owed = 0 \/ ~r.done \/ Coffers(R) = {})
  <2>1. t \in {Without(p) : p \in cheapest}
    BY <1>2 DEF Pay
  <2>2. PICK p \in cheapest : t = Without(p)
    BY <2>1
  <2> DEFINE v == CoinsAt(R, p)
             T == Taking(p)
             left == Left(p)
  <2>3. t = IF v <= r.owed THEN [r EXCEPT !.S = T, !.offered = left, !.owed = @ - v]
            ELSE Changed(MoneyAdded(T, v - r.owed, drop, left), r.owed, Purse(S), drop, left)
    BY <2>2
  <2>p. p \in Coffers(R)
    OBVIOUS
  <2> HIDE DEF R
  <2>4. /\ v \in Nat /\ v > 0
        /\ Sound(T, {}) /\ SameBags(R, T) /\ CarriedIn(T) = CarriedIn(R)
        /\ Purse(T) = Purse(R) - v /\ Riches(T) = Riches(R) - v
        /\ Spacious(R) => Spacious(T)
    BY <1>0, <2>p, CoinsTaken
  <2>o. r.offered = <<>> => left = <<>>
    BY DEF StillOffered
  <2> HIDE DEF v, T, left, Left, cheapest, Without
  <2>5. PayingPlainly(S, money, r) =>
            /\ Spacious(T) /\ left = <<>> /\ Riches(R) = Riches(S) - (money - r.owed)
    BY <1>2, <2>4, <2>o DEF PayingPlainly, R
  <2>6. Purse(R) = Purse(S) - (money - r.owed)
    BY <1>2 DEF Paying, R
  <2>7. CASE v <= r.owed
    <3>1. t = [r EXCEPT !.S = T, !.offered = left, !.owed = @ - v]
      BY <2>3, <2>7
    <3>2. t.S = T /\ t.offered = left /\ t.owed = r.owed - v /\ t.done = r.done /\ DOMAIN t = {"S", "offered", "owed", "done"}
      BY <1>0, <3>1
    <3>3. t.owed \in 0..money /\ t.owed < r.owed
      BY <1>0, <2>4, <2>7, <3>2
    <3>4. SameBags(S, T)
      BY <1>0, <2>4 DEF SameBags
    <3>5. /\ Purse(S) \in Nat /\ Purse(R) \in Nat /\ Purse(T) \in Nat
          /\ Riches(S) \in Nat /\ Riches(R) \in Nat /\ Riches(T) \in Nat
      BY <1>0, <2>4, RichesNatural
    <3>6. Purse(T) = Purse(S) - (money - t.owed)
      BY <1>0, <2>4, <2>6, <3>2, <3>5
    <3>7. drop => t.done
      BY <3>2 DEF Paying
    <3>8. Paying(S, money, drop, t)
      <4>1. t.done
        BY <1>2, <3>2
      <4>2. Riches(R) >= Riches(S) - (money - r.owed)
        BY <1>2 DEF Paying, R
      <4>3. Riches(T) >= Riches(S) - (money - t.owed)
        BY <1>0, <2>4, <3>2, <3>5, <4>2
      <4> QED BY <1>0, <2>4, <3>2, <3>3, <3>4, <3>6, <3>7, <4>1, <4>3 DEF Paying
    <3>9. PayingPlainly(S, money, r) => PayingPlainly(S, money, t)
      <4> SUFFICES ASSUME PayingPlainly(S, money, r) PROVE PayingPlainly(S, money, t)
        OBVIOUS
      <4>1. Riches(T) = Riches(S) - (money - t.owed)
        BY <1>0, <2>4, <2>5, <3>2, <3>5
      <4> QED BY <2>5, <3>2, <4>1 DEF PayingPlainly
    <3> QED BY <1>2, <3>3, <3>8, <3>9
  <2>8. CASE ~(v <= r.owed)
    <3> DEFINE q == Changed(MoneyAdded(T, v - r.owed, drop, left), r.owed, Purse(S), drop, left)
    <3>1. t = q
      BY <2>3, <2>8
    <3>2. v > r.owed
      BY <1>0, <2>4, <2>8
    <3>3. SameBags(r.S, T) /\ Purse(T) = Purse(r.S) - v /\ Riches(T) = Riches(r.S) - v
      BY <2>4 DEF R
    <3>4. LET u == Changed(MoneyAdded(T, v - r.owed, drop, left), r.owed, Purse(S), drop, left)
          IN  /\ Paying(S, money, drop, u)
              /\ u.done => u.owed = 0
              /\ PayingPlainly(S, money, r) /\ Spacious(T) /\ left = <<>>
                 => PayingPlainly(S, money, u)
      BY <1>2, <2>4, <3>2, <3>3, ChangedIs
    <3> HIDE DEF q
    <3>5. /\ Paying(S, money, drop, q)
          /\ q.done => q.owed = 0
          /\ PayingPlainly(S, money, r) /\ Spacious(T) /\ left = <<>>
             => PayingPlainly(S, money, q)
      BY <3>4 DEF q
    <3> QED BY <2>5, <3>1, <3>5
  <2> QED BY <2>7, <2>8
<1> QED BY <1>1, <1>2

\* removeMoney, whatever is on offer: what is taken, and what is refused.
LEMMA MoneyRemovedIs ==
    ASSUME NEW S, Sound(S, {}), NEW savings \in Nat, NEW money \in Nat, NEW drop \in BOOLEAN,
           NEW offered, NEW u \in MoneyRemoved(S, savings, money, drop, offered)
    PROVE  /\ Sound(u.S, {})
           /\ u.savings \in Nat
           /\ ~u.done => Purse(u.S) <= Purse(S) /\ u.savings = savings
           /\ drop => (u.done <=> Purse(S) + savings >= money)
           /\ u.done => Riches(u.S) + u.savings + money >= Riches(S) + savings
           /\ u.done /\ Spacious(S) /\ offered = <<>> =>
                Riches(u.S) + u.savings + money = Riches(S) + savings
<1>f. PICK f : PaidAll(f, S, savings, money, drop, offered)
  BY PaidIs
<1>1. /\ f[0] = {Indebted(S, money, offered)}
      /\ \A i \in 1..money : f[i] = UNION {Pay(r, Purse(S), drop) : r \in f[i - 1]}
      /\ MoneyRemoved(S, savings, money, drop, offered) =
            IF Purse(S) + savings < money
            THEN {[S |-> S, savings |-> savings, done |-> FALSE]}
            ELSE {[S |-> r.S, done |-> r.done,
                   savings |-> IF r.done THEN savings - r.owed ELSE savings] : r \in f[money]}
  BY <1>f DEF PaidAll
<1>0. Purse(S) \in Nat /\ Riches(S) \in Nat
  BY RichesNatural
<1>2. CASE Purse(S) + savings < money
  <2>1. u = [S |-> S, savings |-> savings, done |-> FALSE]
    BY <1>1, <1>2
  <2>2. u.S = S /\ u.savings = savings /\ u.done = FALSE
    BY <2>1
  <2>3. ~(Purse(S) + savings >= money)
    BY <1>0, <1>2
  <2> QED BY <1>0, <2>2, <2>3
<1>3. CASE ~(Purse(S) + savings < money)
  <2> DEFINE plain == Spacious(S) /\ offered = <<>>
             Enough(r, i) == r.owed <= money - i \/ Coffers(r.S) = {}
             Good(r, i) == /\ Paying(S, money, drop, r)
                           /\ r.done => r.owed = 0 \/ Enough(r, i)
                           /\ plain => PayingPlainly(S, money, r)
             A == {i \in Nat : i <= money => \A r \in f[i] : Good(r, i)}
  <2>1. Good(Indebted(S, money, offered), 0)
    <3> DEFINE r == Indebted(S, money, offered)
    <3>1. /\ r.S = S /\ r.offered = offered /\ r.owed = money /\ r.done = TRUE
          /\ DOMAIN r = {"S", "offered", "owed", "done"}
      BY DEF Indebted
    <3> HIDE DEF r
    <3>2. r.owed \in 0..money /\ money - r.owed = 0 /\ r.owed <= money - 0
      BY <3>1
    <3>3. Purse(r.S) = Purse(S) - (money - r.owed) /\ Riches(r.S) = Riches(S) - (money - r.owed)
      BY <1>0, <3>1, <3>2
    <3>4. SameBags(S, S) /\ Riches(r.S) >= Riches(S) - (money - r.owed)
      BY <1>0, <3>1, <3>2 DEF SameBags
    <3>5. Paying(S, money, drop, r)
      BY <3>1, <3>2, <3>3, <3>4 DEF Paying
    <3>6. plain => PayingPlainly(S, money, r)
      BY <3>1, <3>3 DEF PayingPlainly
    <3> QED BY <3>2, <3>5, <3>6 DEF r
  <2>2. ASSUME NEW r, NEW i \in Nat, i < money, Good(r, i),
               NEW t \in Pay(r, Purse(S), drop)
        PROVE  Good(t, i + 1)
    <3>1. /\ Paying(S, money, drop, t)
          /\ t.done => \/ r.done /\ t.owed < r.owed
                       \/ t = r /\ (r.owed = 0 \/ Coffers(r.S) = {})
                       \/ t.owed = 0
          /\ PayingPlainly(S, money, r) => PayingPlainly(S, money, t)
      BY <2>2, PayKeeps
    <3>2. t.owed \in 0..money /\ r.owed \in 0..money
      BY <2>2, <3>1 DEF Paying
    <3>3. ASSUME t.done, t.owed # 0 PROVE Enough(t, i + 1)
      <4>1. CASE t = r /\ (r.owed = 0 \/ Coffers(r.S) = {})
        BY <3>3, <4>1
      <4>2. CASE r.done /\ t.owed < r.owed
        <5>1. CASE r.owed <= money - i
          BY <2>2, <3>2, <4>2, <5>1
        <5>2. CASE ~(r.owed <= money - i)
          <6>1. Coffers(r.S) = {}
            BY <2>2, <3>2, <4>2, <5>2
          <6>2. t = r
            BY <2>2, <6>1 DEF Pay
          <6> QED BY <6>1, <6>2
        <5> QED BY <5>1, <5>2
      <4> QED BY <3>1, <3>3, <4>1, <4>2
    <3>4. plain => PayingPlainly(S, money, t)
      BY <2>2, <3>1
    <3> HIDE DEF Enough, plain
    <3> QED BY <3>1, <3>3, <3>4
  <2> HIDE DEF Good
  <2>3. 0 \in A
    BY <1>1, <2>1
  <2>4. ASSUME NEW i \in Nat, i \in A PROVE i + 1 \in A
    <3> SUFFICES ASSUME i + 1 <= money, NEW t \in f[i + 1] PROVE Good(t, i + 1)
      OBVIOUS
    <3>1. i <= money /\ i < money /\ i + 1 \in 1..money /\ (i + 1) - 1 = i
      OBVIOUS
    <3>2. f[i + 1] = UNION {Pay(r, Purse(S), drop) : r \in f[i]}
      BY <1>1, <3>1
    <3>3. PICK r \in f[i] : t \in Pay(r, Purse(S), drop)
      BY <3>2
    <3>4. Good(r, i)
      BY <2>4, <3>1
    <3> QED BY <2>2, <3>1, <3>3, <3>4
  <2> HIDE DEF A
  <2>5. Nat \subseteq A
    BY <2>3, <2>4, SetInduction
  <2>6. PICK r \in f[money] : u = [S |-> r.S, done |-> r.done,
                                   savings |-> IF r.done THEN savings - r.owed ELSE savings]
    BY <1>1, <1>3
  <2>7. Good(r, money)
    BY <2>5 DEF A
  <2>8. /\ u.S = r.S /\ u.done = r.done
        /\ u.savings = IF r.done THEN savings - r.owed ELSE savings
    BY <2>6
  <2>9. /\ r.owed \in 0..money /\ Sound(r.S, {}) /\ (drop => r.done) /\ r.done \in BOOLEAN
        /\ r.done /\ r.owed # 0 => Purse(r.S) = Purse(S) - (money - r.owed)
        /\ ~r.done => Purse(r.S) <= Purse(S)
        /\ r.done => Riches(r.S) >= Riches(S) - (money - r.owed)
    BY <2>7 DEF Good, Paying
  <2>10. Purse(r.S) \in Nat /\ Riches(r.S) \in Nat
    BY <2>9, RichesNatural
  <2>11. r.done => r.owed <= savings
    <3> SUFFICES ASSUME r.done, r.owed # 0 PROVE r.owed <= savings
      BY <2>9
    <3>1. Enough(r, money)
      BY <2>7 DEF Good
    <3>2. Coffers(r.S) = {}
      BY <2>9, <3>1
    <3>3. Purse(r.S) = 0
      BY <2>9, <3>2, CoffersAre
    <3>4. Purse(r.S) = Purse(S) - (money - r.owed)
      BY <2>9
    <3> QED BY <1>0, <1>3, <2>9, <3>3, <3>4
  <2>12. u.savings \in Nat
    <3>1. CASE r.done
      BY <2>8, <2>9, <2>11, <3>1
    <3>2. CASE ~r.done
      BY <2>8, <3>2
    <3> QED BY <3>1, <3>2
  <2>13. Purse(S) + savings >= money
    BY <1>0, <1>3
  <2>14. ASSUME u.done, plain PROVE Riches(u.S) + u.savings + money = Riches(S) + savings
    <3>1. r.done /\ u.savings = savings - r.owed
      BY <2>8, <2>14
    <3>2. Riches(r.S) = Riches(S) - (money - r.owed)
      BY <2>7, <2>14, <3>1 DEF Good, PayingPlainly
    <3> QED BY <1>0, <2>8, <2>9, <2>10, <3>1, <3>2
  <2>15. ASSUME u.done PROVE Riches(u.S) + u.savings + money >= Riches(S) + savings
    <3>1. r.done /\ u.savings = savings - r.owed
      BY <2>8, <2>15
    <3> QED BY <1>0, <2>8, <2>9, <2>10, <3>1
  <2> QED BY <2>8, <2>9, <2>12, <2>13, <2>14, <2>15
<1> QED BY <1>2, <1>3

-----------------------------------------------------------------------------
(* What always holds.                                                      *)

\* Everything is where it can be and each bag in one place only, counted; no
\* bags lie in each other only; the bank owes nobody.
Held == Sound(world, {}) /\ balance \in Nat

LEMMA HeldAtFirst == InventoryInit => Held
<1> SUFFICES ASSUME InventoryInit PROVE Held
  OBVIOUS
<1>1. world \in Worlds /\ InPlace(world) /\ balance \in Nat
  BY StartAssumption, InventoryAssumption DEF InventoryInit
<1> QED BY <1>1, InPlaceSound DEF Held

LEMMA HeldByEach == Held /\ [InventoryNext]_inventoryVars => Held'
<1> SUFFICES ASSUME Held, [InventoryNext]_inventoryVars PROVE Held'
  OBVIOUS
<1>0. Sound(world, {}) /\ balance \in Nat /\ Prices \subseteq Nat
  BY InventoryAssumption DEF Held
<1>k. \A k \in Stackable \cup Plain : k \in Kind \ Bag /\ \A n \in Counts(k) : n \in Nat
  BY KindsAre, MostIs
<1>1. ASSUME NEW p \in Movable(world), NEW c \in Cylinder, NEW i \in IndicesOf(c), MoveItem(p, c, i)
      PROVE  Held'
  <2>1. Kept(world, world')
    BY <1>0, <1>1, MovesKeep DEF MoveItem
  <2>2. Sound(world', {})
    BY <2>1 DEF Kept
  <2> QED BY <1>0, <1>1, <2>2 DEF MoveItem, Held
<1>2. ASSUME NEW k \in Stackable \cup Plain, NEW n \in Counts(k), AddItem(k, n)
      PROVE  Held'
  <2>1. PICK drop \in BOOLEAN, offered \in Offers(world) :
            world' = PlayerAdded(world, k, n, drop, offered).S
    BY <1>2 DEF AddItem
  <2>2. Sound(PlayerAdded(world, k, n, drop, offered).S, {})
    BY <1>0, <1>k, PlayerAddedSound
  <2> QED BY <1>0, <1>2, <2>1, <2>2 DEF AddItem, Held
<1>3. ASSUME NEW k \in Stackable \cup Plain, NEW n \in Counts(k), RemoveItem(k, n)
      PROVE  Held'
  <2>1. PICK onlyContainers \in BOOLEAN :
            \E r \in TypeRemoved(world, k, n, onlyContainers) : world' = r.S
    BY <1>3 DEF RemoveItem
  <2>2. PICK r \in TypeRemoved(world, k, n, onlyContainers) : world' = r.S
    BY <2>1
  <2>3. Sound(r.S, {})
    BY <1>0, <1>k, TypeRemovedIs
  <2> QED BY <1>0, <1>3, <2>2, <2>3 DEF RemoveItem, Held
<1>4. ASSUME NEW money \in Prices, AddMoney(money) PROVE Held'
  <2>1. PICK offered \in Offers(world) : world' = MoneyAdded(world, money, TRUE, offered).S
    BY <1>4 DEF AddMoney
  <2>2. Given(world, money, TRUE, MoneyAdded(world, money, TRUE, offered))
    BY <1>0, MoneyAddedGiven
  <2>3. Sound(world', {})
    BY <2>1, <2>2 DEF Given
  <2> QED BY <1>0, <1>4, <2>3 DEF AddMoney, Held
<1>5. ASSUME NEW money \in Prices, RemoveMoney(money) PROVE Held'
  <2>1. PICK drop \in BOOLEAN, offered \in Offers(world) :
            \E r \in MoneyRemoved(world, balance, money, drop, offered) :
                world' = r.S /\ balance' = r.savings
    BY <1>5 DEF RemoveMoney
  <2>2. PICK r \in MoneyRemoved(world, balance, money, drop, offered) :
            world' = r.S /\ balance' = r.savings
    BY <2>1
  <2>3. Sound(r.S, {}) /\ r.savings \in Nat
    BY <1>0, MoneyRemovedIs
  <2> QED BY <2>2, <2>3 DEF Held
<1>6. CASE UNCHANGED inventoryVars
  BY <1>0, <1>6 DEF inventoryVars, Held
<1>7. CASE Handled
  BY <1>1, <1>2, <1>3, <1>4, <1>5, <1>7 DEF Handled
<1> QED BY <1>6, <1>7 DEF InventoryNext

\* Held is an invariant of whatever players and scripts do.
LEMMA AlwaysHeld == InventorySpec => []Held
<1> QED BY HeldAtFirst, HeldByEach, PTL DEF InventorySpec

\* Whatever is moved, added, taken and paid, every bag stays in one place and
\* none comes to be inside itself, stacks are neither empty nor too high, and a
\* player keeps the slots (queryAdd before every addThing, in game.cpp).
THEOREM AlwaysInItsPlace == InventorySpec => []EachInItsPlace
<1>1. Held => EachInItsPlace
  BY SoundInPlace DEF Held, EachInItsPlace
<1> QED BY <1>1, AlwaysHeld, PTL

\* internalMoveItem neither makes nor loses a thing, wherever it is told to move
\* to: what it splits, merges and exchanges is there before and after.
THEOREM MovesAlwaysKeepAll == InventorySpec => []MovesKeepAll
<1>1. Held => MovesKeepAll
  <2> DEFINE moved(p, c) == UNION {Moves(world, p, c, i) : i \in IndicesOf(c)}
  <2> SUFFICES ASSUME Held, NEW p \in Movable(world), NEW c \in Cylinder, NEW S \in moved(p, c),
                      NEW k \in Kind
               PROVE  Total(S, k) = Total(world, k)
    BY DEF MovesKeepAll
  <2>0. PICK i \in IndicesOf(c) : S \in Moves(world, p, c, i)
    OBVIOUS
  <2>1. Kept(world, S)
    BY <2>0, MovesKeep DEF Held
  <2> QED BY <2>1 DEF Kept
<1> QED BY <1>1, AlwaysHeld, PTL

\* internalPlayerAddItem and removeItemOfType do as they say: all that was to be
\* added or taken is, or nothing, but for what hidden room and spared equipment
\* allow.
THEOREM AnswersAlwaysTrue == InventorySpec => []AnswersAreTrue
<1>1. Held => AnswersAreTrue
  <2> SUFFICES ASSUME Held, NEW k \in Stackable \cup Plain, NEW n \in Counts(k)
               PROVE  /\ \A drop \in BOOLEAN, offered \in Offers(world) :
                            AddedAsTold(k, n, drop, offered)
                      /\ \A onlyContainers \in BOOLEAN : RemovedAsTold(k, n, onlyContainers)
    BY DEF AnswersAreTrue
  <2>1. Sound(world, {}) /\ k \in Kind \ Bag /\ n \in Nat
    BY KindsAre, MostIs DEF Held
  <2> QED BY <2>1, SaidOfAdded, SaidOfRemoved
<1> QED BY <1>1, AlwaysHeld, PTL

\* addMoney gives the amount and removeMoney takes the price, from the coins that
\* are carried and from the bank, which never pays more than it has; only where a
\* trade hides room is more given or less taken, and money never lost.  Who is
\* refused is no richer for it, and who can pay and may drop the change is not
\* refused.
THEOREM PricesPaidExactly == InventorySpec => []PaidExactly
<1>1. Held => PaidExactly
  <2> SUFFICES ASSUME Held, NEW money \in Prices, NEW offered \in Offers(world)
               PROVE  GivenExactly(money, offered) /\ PriceIsPaid(money, offered)
    BY DEF PaidExactly
  <2>0. /\ Sound(world, {}) /\ balance \in Nat /\ money \in Nat
        /\ Riches(world) \in Nat /\ Purse(world) \in Nat
    BY InventoryAssumption, RichesNatural DEF Held
  <2> DEFINE plain == Plainly(world, offered, Stackable)
  <2>p. plain => Spacious(world) /\ offered = <<>>
    <3> SUFFICES ASSUME plain PROVE Spacious(world) /\ offered = <<>>
      OBVIOUS
    <3>1. Spacious(world) /\ Shown(world, offered, Stackable)
      BY DEF Plainly, Spacious, Shown
    <3>2. ASSUME offered # <<>> PROVE FALSE
      <4>1. PICK p \in Positions(world) :
                /\ world[p[1]][p[2]].kind \in Bag \cup Stackable
                /\ offered = <<p[1], Len(world[p[1]]) - p[2]>>
        BY <3>2 DEF Offers
      <4> QED BY <3>1, <4>1 DEF Shown, OnOffer
    <3> QED BY <3>1, <3>2
  <2> HIDE DEF plain
  <2>1. GivenExactly(money, offered)
    <3> DEFINE a == MoneyAdded(world, money, TRUE, offered)
               more == Riches(a.S) - Riches(world)
    <3>1. /\ Given(world, money, TRUE, a)
          /\ a.done => a.owed = 0
          /\ plain => GivenPlainly(world, money, a)
      BY <2>0, <2>p, MoneyAddedGiven
    <3> HIDE DEF a
    <3>2. a.done /\ a.owed = 0 /\ Riches(a.S) \in Nat
      BY <3>1, RichesNatural DEF Given
    <3>3. more >= money
      <4>1. Riches(a.S) >= Riches(world) + (money - a.owed)
        BY <3>1, <3>2 DEF Given
      <4> QED BY <2>0, <3>2, <4>1
    <3>4. plain => more = money
      <4> SUFFICES ASSUME plain PROVE more = money
        OBVIOUS
      <4>1. Riches(a.S) = Riches(world) + (money - a.owed)
        BY <3>1, <3>2 DEF GivenPlainly
      <4> QED BY <2>0, <3>2, <4>1
    <3> QED BY <3>3, <3>4 DEF GivenExactly, a, plain
  <2>2. ASSUME NEW drop \in BOOLEAN, NEW r \in MoneyRemoved(world, balance, money, drop, offered)
        PROVE  LET paid == Riches(world) + balance - (Riches(r.S) + r.savings)
               IN  /\ r.done => paid <= money /\ (plain => paid = money)
                   /\ ~r.done => Purse(r.S) <= Purse(world) /\ r.savings = balance
                   /\ r.savings >= 0
                   /\ drop => (r.done <=> Purse(world) + balance >= money)
    <3> DEFINE paid == Riches(world) + balance - (Riches(r.S) + r.savings)
    <3>1. /\ Sound(r.S, {}) /\ r.savings \in Nat
          /\ ~r.done => Purse(r.S) <= Purse(world) /\ r.savings = balance
          /\ drop => (r.done <=> Purse(world) + balance >= money)
          /\ r.done => Riches(r.S) + r.savings + money >= Riches(world) + balance
          /\ r.done /\ plain => Riches(r.S) + r.savings + money = Riches(world) + balance
      BY <2>0, <2>p, MoneyRemovedIs
    <3>2. Riches(r.S) \in Nat
      BY <3>1, RichesNatural
    <3>3. r.done => paid <= money /\ (plain => paid = money)
      BY <2>0, <3>1, <3>2
    <3> QED BY <3>1, <3>3
  <2> QED BY <2>1, <2>2 DEF PriceIsPaid, plain
<1> QED BY <1>1, AlwaysHeld, PTL

============================================================
