---------------------------- MODULE DecayProofs ----------------------------
(***************************************************************************)
(* Theorems about items that decay, for every set of kinds and addresses   *)
(* and any number of buckets: an object has exactly the references that    *)
(* are listed, and what is marked as decaying is listed.                   *)
(*                                                                         *)
(* The methods work on states of their own; "Sound" says of such a state   *)
(* what the invariant says of the system, given how often each item is     *)
(* listed in the buckets that the state does not hold.                     *)
(***************************************************************************)
EXTENDS Decay, FiniteSetTheorems, SequenceTheorems, WellFoundedInduction, TLAPS

-----------------------------------------------------------------------------
(* Counting.                                                               *)

Before == {pair \in Nat \X Nat : pair[1] < pair[2]}

\* Induction, for a set of numbers.
LEMMA SetInduction ==
    ASSUME NEW S, 0 \in S, \A n \in Nat : n \in S => n + 1 \in S
    PROVE  Nat \subseteq S
<1> DEFINE T == Nat \ S
<1> SUFFICES ASSUME T # {} PROVE FALSE
  OBVIOUS
<1>1. IsWellFoundedOn(Before, Nat)
  BY NatLessThanWellFounded DEF OpToRel, Before
<1>2. PICK x \in T : \A y \in T : <<y, x>> \notin Before
  <2>1. T \subseteq Nat
    OBVIOUS
  <2> HIDE DEF T
  <2> QED BY <1>1, <2>1, WFMin
<1>3. x - 1 \in Nat /\ x - 1 < x /\ (x - 1) + 1 = x
  OBVIOUS
<1>4. x - 1 \in T
  BY <1>3
<1>5. <<x - 1, x>> \in Before
  BY <1>3 DEF Before
<1> QED BY <1>2, <1>4, <1>5

\* How often o is among the first n of s, and after them.
Among(s, n, o) == Cardinality({i \in DOMAIN s : i <= n /\ s[i] = o})
After(s, n, o) == Cardinality({i \in DOMAIN s : i > n /\ s[i] = o})

One(x, o) == IF x = o THEN 1 ELSE 0

LEMMA PlacesAreFinite ==
    ASSUME NEW X, NEW s \in Seq(X), NEW P \in SUBSET (DOMAIN s)
    PROVE  IsFiniteSet(P) /\ Cardinality(P) \in Nat
<1>1. DOMAIN s = 1..Len(s) /\ Len(s) \in Nat
  OBVIOUS
<1>2. IsFiniteSet(1..Len(s))
  BY <1>1, FS_Interval
<1> QED BY <1>1, <1>2, FS_Subset, FS_CardinalityType

LEMMA OneMore ==
    ASSUME NEW A, NEW B, NEW n, NEW x, NEW o, IsFiniteSet(A), Cardinality(A) \in Nat,
           n \notin A, B = IF x = o THEN A \cup {n} ELSE A
    PROVE  Cardinality(B) = Cardinality(A) + One(x, o)
<1>1. CASE x = o
  <2>1. Cardinality(A \cup {n}) = Cardinality(A) + 1
    BY FS_AddElement
  <2> QED BY <2>1, <1>1 DEF One
<1>2. CASE x # o
  <2>1. B = A /\ One(x, o) = 0
    BY <1>2 DEF One
  <2> QED BY <2>1
<1> QED BY <1>1, <1>2

LEMMA AmongSteps ==
    ASSUME NEW X, NEW s \in Seq(X), NEW o
    PROVE  /\ Among(s, 0, o) = 0
           /\ Among(s, Len(s), o) = Count(s, o)
           /\ \A n \in 1..Len(s) : /\ Among(s, n, o) = Among(s, n - 1, o) + One(s[n], o)
                                   /\ Among(s, n - 1, o) \in Nat
<1>1. DOMAIN s = 1..Len(s) /\ Len(s) \in Nat
  OBVIOUS
<1>2. {i \in DOMAIN s : i <= 0 /\ s[i] = o} = {}
  BY <1>1
<1>3. {i \in DOMAIN s : i <= Len(s) /\ s[i] = o} = {i \in DOMAIN s : s[i] = o}
  BY <1>1
<1>4. ASSUME NEW n \in 1..Len(s)
      PROVE  /\ Among(s, n, o) = Among(s, n - 1, o) + One(s[n], o)
             /\ Among(s, n - 1, o) \in Nat
  <2> DEFINE A == {i \in DOMAIN s : i <= n - 1 /\ s[i] = o}
             B == {i \in DOMAIN s : i <= n /\ s[i] = o}
  <2>1. IsFiniteSet(A) /\ Cardinality(A) \in Nat
    BY PlacesAreFinite
  <2>2. n \notin A /\ B = IF s[n] = o THEN A \cup {n} ELSE A
    BY <1>1
  <2> HIDE DEF A, B
  <2>3. Cardinality(B) = Cardinality(A) + One(s[n], o)
    BY <2>1, <2>2, OneMore
  <2> QED BY <2>1, <2>3 DEF A, B, Among
<1> QED BY <1>2, <1>3, <1>4, FS_EmptySet DEF Among, Count

LEMMA AfterSteps ==
    ASSUME NEW X, NEW s \in Seq(X), NEW o
    PROVE  /\ After(s, Len(s), o) = 0
           /\ After(s, 0, o) = Count(s, o)
           /\ \A n \in 1..Len(s) : /\ After(s, n - 1, o) = After(s, n, o) + One(s[n], o)
                                   /\ After(s, n, o) \in Nat
<1>1. DOMAIN s = 1..Len(s) /\ Len(s) \in Nat
  OBVIOUS
<1>2. {i \in DOMAIN s : i > Len(s) /\ s[i] = o} = {}
  BY <1>1
<1>3. {i \in DOMAIN s : i > 0 /\ s[i] = o} = {i \in DOMAIN s : s[i] = o}
  BY <1>1
<1>4. ASSUME NEW n \in 1..Len(s)
      PROVE  /\ After(s, n - 1, o) = After(s, n, o) + One(s[n], o)
             /\ After(s, n, o) \in Nat
  <2> DEFINE A == {i \in DOMAIN s : i > n /\ s[i] = o}
             B == {i \in DOMAIN s : i > n - 1 /\ s[i] = o}
  <2>1. IsFiniteSet(A) /\ Cardinality(A) \in Nat
    BY PlacesAreFinite
  <2>2. n \notin A /\ B = IF s[n] = o THEN A \cup {n} ELSE A
    BY <1>1
  <2> HIDE DEF A, B
  <2>3. Cardinality(B) = Cardinality(A) + One(s[n], o)
    BY <2>1, <2>2, OneMore
  <2> QED BY <2>1, <2>3 DEF A, B, After
<1> QED BY <1>2, <1>3, <1>4, FS_EmptySet DEF After, Count

LEMMA CountIs ==
    ASSUME NEW X, NEW s \in Seq(X), NEW o
    PROVE  /\ Count(s, o) \in Nat
           /\ Count(<<>>, o) = 0
           /\ \A i \in DOMAIN s : s[i] = o => Count(s, o) > 0
<1> DEFINE P == {i \in DOMAIN s : s[i] = o}
<1>1. IsFiniteSet(P) /\ Cardinality(P) \in Nat
  BY PlacesAreFinite
<1>2. {i \in DOMAIN <<>> : <<>>[i] = o} = {}
  OBVIOUS
<1>3. Count(s, o) = Cardinality(P)
  BY DEF Count
<1>4. ASSUME NEW i \in DOMAIN s, s[i] = o PROVE Cardinality(P) > 0
  <2>1. P # {}
    BY <1>4
  <2> HIDE DEF P
  <2>2. Cardinality(P) # 0
    BY <2>1, <1>1, FS_EmptySet
  <2> QED BY <1>1, <2>2
<1>5. Count(<<>>, o) = 0
  BY <1>2, FS_EmptySet DEF Count
<1> HIDE DEF P
<1> QED BY <1>1, <1>3, <1>4, <1>5

LEMMA CountAppend ==
    ASSUME NEW X, NEW s \in Seq(X), NEW x \in X, NEW o
    PROVE  Count(Append(s, x), o) = Count(s, o) + One(x, o)
<1> DEFINE A == {i \in DOMAIN s : s[i] = o}
           B == {i \in DOMAIN Append(s, x) : Append(s, x)[i] = o}
           n == Len(s) + 1
<1>1. IsFiniteSet(A) /\ Cardinality(A) \in Nat
  BY PlacesAreFinite
<1>2. n \notin A /\ B = IF x = o THEN A \cup {n} ELSE A
  OBVIOUS
<1> HIDE DEF A, B
<1>3. Cardinality(B) = Cardinality(A) + One(x, o)
  BY <1>1, <1>2, OneMore
<1> QED BY <1>3 DEF A, B, Count

-----------------------------------------------------------------------------
(* The buckets.                                                            *)

Slots == 0..(Buckets - 1)
Lists == [Slots -> Seq(Object)]

\* Where o is listed.
Spots(B, o) ==
    UNION {{<<b, i>> : i \in {i \in DOMAIN B[b] : B[b][i] = o}} : b \in DOMAIN B}

\* The part of them that is in bucket b.
SpotsIn(B, b, o) == {<<b, i>> : i \in {i \in DOMAIN B[b] : B[b][i] = o}}

LEMMA SpotsInCount ==
    ASSUME NEW B \in Lists, NEW b \in Slots, NEW o
    PROVE  IsFiniteSet(SpotsIn(B, b, o)) /\ Cardinality(SpotsIn(B, b, o)) = Count(B[b], o)
<1> DEFINE P == {i \in DOMAIN B[b] : B[b][i] = o}
           f == [i \in P |-> <<b, i>>]
<1>1. B[b] \in Seq(Object)
  BY DEF Lists
<1>2. IsFiniteSet(P)
  <2> HIDE DEF f
  <2> QED BY <1>1, PlacesAreFinite
<1>3. f \in Bijection(P, SpotsIn(B, b, o))
  BY DEF SpotsIn, Bijection, Injection, Surjection, IsInjective
<1> HIDE DEF P, f
<1>4. ExistsBijection(P, SpotsIn(B, b, o))
  BY <1>3 DEF ExistsBijection
<1> QED BY <1>2, <1>4, FS_Bijection DEF Count, P

LEMMA SpotsFinite ==
    ASSUME NEW B \in Lists, NEW o
    PROVE  IsFiniteSet(Spots(B, o)) /\ InBuckets(B, o) = Cardinality(Spots(B, o))
           /\ InBuckets(B, o) \in Nat
<1> DEFINE All == {SpotsIn(B, b, o) : b \in Slots}
<1>1. Spots(B, o) = UNION All /\ InBuckets(B, o) = Cardinality(Spots(B, o))
  BY DEF Spots, SpotsIn, Lists, InBuckets
<1>2. IsFiniteSet(Slots)
  <2>1. 0 \in Int /\ Buckets - 1 \in Int
    BY DecayAssumption
  <2> QED BY ONLY <2>1, FS_Interval DEF Slots
<1>3. IsFiniteSet(All)
  <2> DEFINE f == [b \in Slots |-> SpotsIn(B, b, o)]
  <2>1. f \in Surjection(Slots, All)
    BY DEF Surjection
  <2> HIDE DEF f, All
  <2> QED BY <1>2, <2>1, FS_Surjection
<1>4. \A T \in All : IsFiniteSet(T)
  BY SpotsInCount
<1> HIDE DEF All
<1>5. IsFiniteSet(UNION All)
  BY <1>3, <1>4, FS_UNION
<1> QED BY <1>1, <1>5, FS_CardinalityType

\* The entries of one bucket and those of the others.
LEMMA BucketsSplit ==
    ASSUME NEW B \in Lists, NEW b \in Slots, NEW s \in Seq(Object), NEW o
    PROVE  /\ [B EXCEPT ![b] = s] \in Lists
           /\ InBuckets([B EXCEPT ![b] = s], o) =
                InBuckets([B EXCEPT ![b] = <<>>], o) + Count(s, o)
           /\ InBuckets([B EXCEPT ![b] = <<>>], o) \in Nat
<1> DEFINE C == [B EXCEPT ![b] = s]
           D == [B EXCEPT ![b] = <<>>]
<1>1. C \in Lists /\ C[b] = s /\ D \in Lists /\ D[b] = <<>>
  BY DEF Lists
<1>2. \A c \in Slots \ {b} : C[c] = D[c]
  BY DEF Lists
<1>3. DOMAIN C = Slots /\ DOMAIN D = Slots
  BY <1>1 DEF Lists
<1> HIDE DEF C, D
<1>4. Spots(C, o) = Spots(D, o) \cup SpotsIn(C, b, o)
  <2>1. SpotsIn(D, b, o) = {}
    BY <1>1 DEF SpotsIn
  <2>2. \A c \in Slots \ {b} : SpotsIn(C, c, o) = SpotsIn(D, c, o)
    BY <1>2 DEF SpotsIn
  <2>3. Spots(C, o) = UNION {SpotsIn(C, c, o) : c \in Slots}
        /\ Spots(D, o) = UNION {SpotsIn(D, c, o) : c \in Slots}
    BY <1>3 DEF Spots, SpotsIn
  <2> QED BY <2>1, <2>2, <2>3
<1>5. Spots(D, o) \cap SpotsIn(C, b, o) = {}
  BY <1>1 DEF Spots, SpotsIn
<1>6. IsFiniteSet(Spots(D, o)) /\ IsFiniteSet(SpotsIn(C, b, o))
  BY <1>1, SpotsFinite, SpotsInCount
<1>7. Cardinality({}) = 0
  BY FS_EmptySet
<1>8. Cardinality(Spots(C, o)) = Cardinality(Spots(D, o)) + Cardinality(SpotsIn(C, b, o))
  <2>1. Cardinality(Spots(D, o) \cup SpotsIn(C, b, o)) =
            Cardinality(Spots(D, o)) + Cardinality(SpotsIn(C, b, o)) - 0
    BY <1>5, <1>6, <1>7, FS_Union
  <2>2. Cardinality(Spots(D, o)) \in Nat /\ Cardinality(SpotsIn(C, b, o)) \in Nat
    BY <1>6, FS_CardinalityType
  <2> QED BY <2>1, <2>2, <1>4
<1>9. Cardinality(SpotsIn(C, b, o)) = Count(s, o)
  BY <1>1, SpotsInCount
<1>10. /\ InBuckets(C, o) = Cardinality(Spots(C, o))
       /\ InBuckets(D, o) = Cardinality(Spots(D, o)) /\ InBuckets(D, o) \in Nat
  BY <1>1, SpotsFinite
<1>11. InBuckets(C, o) = InBuckets(D, o) + Count(s, o)
  BY <1>8, <1>9, <1>10
<1> QED BY <1>1, <1>10, <1>11 DEF C, D

\* x is listed once more.
With(B, b, x) == [B EXCEPT ![b] = Append(@, x)]

LEMMA BucketAppend ==
    ASSUME NEW B \in Lists, NEW b \in Slots, NEW x \in Object, NEW o
    PROVE  /\ With(B, b, x) \in Lists
           /\ InBuckets(With(B, b, x), o) = InBuckets(B, o) + One(x, o)
<1> DEFINE s == B[b]
<1>1. s \in Seq(Object) /\ Append(s, x) \in Seq(Object) /\ B = [B EXCEPT ![b] = s]
  BY DEF Lists
<1>2. With(B, b, x) = [B EXCEPT ![b] = Append(s, x)]
  BY DEF With
<1> HIDE DEF s
<1>3. InBuckets(B, o) = InBuckets([B EXCEPT ![b] = <<>>], o) + Count(s, o)
  BY <1>1, BucketsSplit
<1>4. InBuckets([B EXCEPT ![b] = Append(s, x)], o) =
        InBuckets([B EXCEPT ![b] = <<>>], o) + Count(Append(s, x), o)
  BY <1>1, BucketsSplit, SMTT(20), ZenonT(20)
<1>5. [B EXCEPT ![b] = Append(s, x)] \in Lists /\ InBuckets([B EXCEPT ![b] = <<>>], o) \in Nat
  BY <1>1, BucketsSplit
<1>6. Count(Append(s, x), o) = Count(s, o) + One(x, o) /\ Count(s, o) \in Nat
  BY <1>1, CountAppend, CountIs
<1>7. One(x, o) \in Nat
  BY DEF One
<1> QED BY <1>2, <1>3, <1>4, <1>5, <1>6, <1>7

-----------------------------------------------------------------------------
(* What the methods work on.                                               *)

Thing ==
    [kind : Kind \cup {None}, parent : Object \cup {World, None}, refs : Int,
     decaying : BOOLEAN, left : Int]

States ==
    [things : [Object -> Thing], todo : Seq(Object), releases : [Object -> Nat],
     kept : Seq(Object), room : BOOLEAN]

InSome(S, o) == IF S.things[o].parent # None THEN 1 ELSE 0

\* The entries of o, H of which are in buckets that S does not hold.
Listed(S, H, o) == Count(S.todo, o) + Count(S.kept, o) + H[o]

\* An object has as many references as it has holders, and exists while it has one.
Held(S, H) ==
    \A o \in Object :
        /\ S.things[o].refs = InSome(S, o) + Listed(S, H, o) + S.releases[o]
        /\ S.things[o].kind = None <=> S.things[o].refs = 0

\* What contains a thing exists, and nothing contains that.
Nested(S) ==
    \A o \in Object :
        S.things[o].parent \in Object =>
            /\ S.things[S.things[o].parent].kind # None
            /\ Holder(S.things[S.things[o].parent].kind) /\ ~Holder(S.things[o].kind)

\* A marked thing that is not listed is gone or does not decay.
Marked(S, H, X) ==
    \A o \in Object \ X :
        S.room /\ S.things[o].decaying =>
            \/ Listed(S, H, o) > 0
            \/ Removed(S, o)
            \/ DecayTime(S.things[o].kind) = 0 /\ S.things[o].left = 0

\* H counts all hidden entries, E those that are to stay; the marks of X are open.
Sound(S, H, E, X) ==
    S \in States /\ Held(S, H) /\ Nested(S) /\ Marked(S, E, X)

Hidden == [Object -> Nat]

Exists(S, o) == o \in Object /\ S.things[o].kind \in Kind

LEMMA ListedIs ==
    ASSUME NEW S \in States, NEW H \in Hidden, NEW o \in Object
    PROVE  /\ Listed(S, H, o) \in Nat /\ S.releases[o] \in Nat /\ InSome(S, o) \in 0..1
           /\ Count(S.todo, o) \in Nat /\ Count(S.kept, o) \in Nat
<1>1. S.todo \in Seq(Object) /\ S.kept \in Seq(Object) /\ S.releases[o] \in Nat
  BY DEF States
<1>2. Count(S.todo, o) \in Nat /\ Count(S.kept, o) \in Nat
  BY <1>1, CountIs
<1>3. H[o] \in Nat
  BY DEF Hidden
<1> QED BY <1>1, <1>2, <1>3 DEF Listed, InSome

LEMMA DistinctNames ==
    /\ None # World /\ None \notin Object /\ World \notin Object
    /\ None \notin Kind /\ "nothing" \notin Kind /\ "never" \notin Kind
BY DecayAssumption

\* What is listed exists.
LEMMA ListedExists ==
    ASSUME NEW S, NEW H \in Hidden, NEW o \in Object, S \in States, Held(S, H),
           Listed(S, H, o) > 0 \/ S.things[o].parent # None
    PROVE  Exists(S, o)
<1>1. Listed(S, H, o) \in Nat /\ S.releases[o] \in Nat /\ InSome(S, o) \in 0..1
  BY ListedIs
<1>2. S.things[o].refs # 0
  BY <1>1 DEF Held, InSome
<1>3. S.things[o].kind \in Kind \cup {None} /\ S.things[o].kind # None
  BY <1>2 DEF Held, States, Thing
<1> QED BY <1>3 DEF Exists

-----------------------------------------------------------------------------
(* The methods, one by one.                                                *)

LEMMA FreeThingFields ==
    ASSUME NEW S \in States, NEW o \in Object
    PROVE  LET F == FreeThing(S, o)
           IN  /\ F \in States
               /\ F.things = S.things /\ F.todo = S.todo /\ F.kept = S.kept
               /\ F.room = S.room
               /\ F.releases = [S.releases EXCEPT ![o] = @ + 1]
<1> DEFINE r == [S.releases EXCEPT ![o] = @ + 1]
<1>1. r \in [Object -> Nat]
  BY DEF States
<1>2. FreeThing(S, o) = [S EXCEPT !.releases = r]
  BY DEF FreeThing, States
<1> HIDE DEF r
<1>3. [S EXCEPT !.releases = r] \in States
  BY <1>1 DEF States
<1>4. /\ [S EXCEPT !.releases = r].releases = r
      /\ [S EXCEPT !.releases = r].things = S.things
      /\ [S EXCEPT !.releases = r].todo = S.todo
      /\ [S EXCEPT !.releases = r].kept = S.kept
      /\ [S EXCEPT !.releases = r].room = S.room
  BY DEF States
<1> QED BY <1>2, <1>3, <1>4 DEF r

LEMMA RemoveFields ==
    ASSUME NEW S \in States, NEW o \in Object
    PROVE  LET R == RemoveItem(S, o)
           IN  /\ R \in States
               /\ R.things = [S.things EXCEPT ![o].parent = None]
               /\ R.todo = S.todo /\ R.kept = S.kept /\ R.room = S.room
               /\ R.releases = [S.releases EXCEPT ![o] = @ + 1]
<1> DEFINE T == [S EXCEPT !.things[o].parent = None]
<1>1. T \in States
  BY DEF States, Thing
<1>2. /\ T.things = [S.things EXCEPT ![o].parent = None]
      /\ T.todo = S.todo /\ T.kept = S.kept /\ T.room = S.room
      /\ T.releases = S.releases
  BY DEF States
<1>3. RemoveItem(S, o) = FreeThing(T, o)
  BY DEF RemoveItem
<1> HIDE DEF T
<1> DEFINE F == FreeThing(T, o)
<1>4. /\ F \in States
      /\ F.things = T.things /\ F.todo = T.todo /\ F.kept = T.kept
      /\ F.room = T.room
      /\ F.releases = [T.releases EXCEPT ![o] = @ + 1]
  BY <1>1, FreeThingFields
<1> HIDE DEF F
<1> QED BY <1>2, <1>3, <1>4 DEF F

\* What was removed stays so when something else is removed.
LEMMA RemovedStays ==
    ASSUME NEW S \in States, NEW R \in States, NEW o \in Object, Removed(S, o),
           \A x \in Object : R.things[x].parent \in {S.things[x].parent, None},
           Nested(S)
    PROVE  Removed(R, o)
BY DistinctNames DEF Removed, States, Thing

\* The item is removed, whatever its mark.
LEMMA RemoveSound ==
    ASSUME NEW S, NEW H \in Hidden, NEW E \in Hidden, NEW o \in Object,
           Sound(S, H, E, {o}), S.things[o].parent # None
    PROVE  Sound(RemoveItem(S, o), H, E, {})
<1> DEFINE R == RemoveItem(S, o)
<1>0. S \in States /\ Held(S, H) /\ Nested(S) /\ Marked(S, E, {o})
  BY DEF Sound
<1>1. /\ R \in States
      /\ R.things = [S.things EXCEPT ![o].parent = None]
      /\ R.todo = S.todo /\ R.kept = S.kept /\ R.room = S.room
      /\ R.releases = [S.releases EXCEPT ![o] = @ + 1]
  BY <1>0, RemoveFields
<1> HIDE DEF R
<1>2. /\ \A x \in Object : /\ R.things[x].refs = S.things[x].refs
                           /\ R.things[x].kind = S.things[x].kind
                           /\ R.things[x].decaying = S.things[x].decaying
                           /\ R.things[x].left = S.things[x].left
                           /\ x # o => /\ R.things[x].parent = S.things[x].parent
                                       /\ R.releases[x] = S.releases[x]
      /\ R.things[o].parent = None /\ R.releases[o] = S.releases[o] + 1
  BY <1>0, <1>1 DEF States, Thing
<1>3. \A x \in Object : Listed(R, H, x) = Listed(S, H, x) /\ Listed(R, E, x) = Listed(S, E, x)
  BY <1>1 DEF Listed
<1>4. Held(R, H)
  <2> SUFFICES ASSUME NEW x \in Object
               PROVE  /\ R.things[x].refs = InSome(R, x) + Listed(R, H, x) + R.releases[x]
                      /\ R.things[x].kind = None <=> R.things[x].refs = 0
    BY DEF Held
  <2>1. Listed(S, H, x) \in Nat /\ S.releases[x] \in Nat
    BY <1>0, ListedIs
  <2>2. CASE x = o
    BY <2>1, <2>2, <1>0, <1>2, <1>3 DEF Held, InSome
  <2>3. CASE x # o
    BY <2>1, <2>3, <1>0, <1>2, <1>3, SMTT(20), ZenonT(20) DEF Held, InSome
  <2> QED BY <2>2, <2>3
<1>5. Nested(R)
  BY <1>0, <1>2, DistinctNames DEF Nested
<1>6. Marked(R, E, {})
  <2> SUFFICES ASSUME NEW x \in Object, R.room, R.things[x].decaying
               PROVE  \/ Listed(R, E, x) > 0
                      \/ Removed(R, x)
                      \/ DecayTime(R.things[x].kind) = 0 /\ R.things[x].left = 0
    BY DEF Marked
  <2>1. CASE x = o
    BY <2>1, <1>2 DEF Removed
  <2>2. CASE x # o
    <3>1. \A y \in Object : R.things[y].parent \in {S.things[y].parent, None}
      BY <1>2
    <3>2. Removed(S, x) => Removed(R, x)
      BY <3>1, <1>0, <1>1, RemovedStays
    <3> QED BY <3>2, <2>2, <1>0, <1>1, <1>2, <1>3 DEF Marked
  <2> QED BY <2>1, <2>2
<1> QED BY <1>1, <1>4, <1>5, <1>6 DEF Sound, R

\* An entry that is not in the state becomes a release.
LEMMA FreeEntrySound ==
    ASSUME NEW S, NEW H \in Hidden, NEW E \in Hidden, NEW X, NEW o \in Object,
           Sound(S, H, E, X), H[o] > 0
    PROVE  /\ [H EXCEPT ![o] = @ - 1] \in Hidden
           /\ Sound(FreeThing(S, o), [H EXCEPT ![o] = @ - 1], E, X)
<1> DEFINE F == FreeThing(S, o)
           G == [H EXCEPT ![o] = @ - 1]
<1>0. S \in States /\ Held(S, H) /\ Nested(S) /\ Marked(S, E, X)
  BY DEF Sound
<1>1. /\ F \in States
      /\ F.things = S.things /\ F.todo = S.todo /\ F.kept = S.kept /\ F.room = S.room
      /\ F.releases = [S.releases EXCEPT ![o] = @ + 1]
  BY <1>0, FreeThingFields
<1>2. G \in Hidden
  BY DEF Hidden
<1>3. \A x \in Object : G[x] = H[x] - One(o, x)
  BY DEF Hidden, One
<1>4. \A x \in Object : F.releases[x] = S.releases[x] + One(o, x)
  BY <1>0, <1>1 DEF States, One
<1> HIDE DEF F, G
<1>5. Held(F, G)
  <2> SUFFICES ASSUME NEW x \in Object
               PROVE  /\ F.things[x].refs = InSome(F, x) + Listed(F, G, x) + F.releases[x]
                      /\ F.things[x].kind = None <=> F.things[x].refs = 0
    BY DEF Held
  <2>1. /\ Count(S.todo, x) \in Nat /\ Count(S.kept, x) \in Nat /\ S.releases[x] \in Nat
        /\ H[x] \in Nat /\ InSome(S, x) \in 0..1
    BY <1>0, ListedIs DEF Hidden
  <2>2. Listed(F, G, x) = Count(S.todo, x) + Count(S.kept, x) + (H[x] - One(o, x))
    BY <1>1, <1>3 DEF Listed
  <2>3. InSome(F, x) = InSome(S, x) /\ F.things[x] = S.things[x] /\ One(o, x) \in 0..1
    BY <1>1 DEF InSome, One
  <2>4. S.things[x].refs
            = InSome(S, x) + (Count(S.todo, x) + Count(S.kept, x) + H[x]) + S.releases[x]
    BY <1>0 DEF Held, Listed
  <2>5. F.things[x].refs = InSome(F, x) + Listed(F, G, x) + F.releases[x]
    BY <2>1, <2>2, <2>3, <2>4, <1>4
  <2>6. F.things[x].kind = None <=> F.things[x].refs = 0
    BY <2>3, <1>0 DEF Held
  <2> QED BY <2>5, <2>6
<1>6. Nested(F)
  BY <1>0, <1>1 DEF Nested
<1>7. Marked(F, E, X)
  BY <1>0, <1>1 DEF Marked, Listed, Removed
<1> QED BY <1>1, <1>2, <1>5, <1>6, <1>7 DEF Sound, F, G

LEMMA Unmarked ==
    ASSUME NEW m \in Thing, NEW d \in Int
    PROVE  /\ [m EXCEPT !.decaying = FALSE, !.left = d] \in Thing
           /\ [m EXCEPT !.decaying = FALSE, !.left = d].kind = m.kind
           /\ [m EXCEPT !.decaying = FALSE, !.left = d].parent = m.parent
           /\ [m EXCEPT !.decaying = FALSE, !.left = d].refs = m.refs
           /\ [m EXCEPT !.decaying = FALSE, !.left = d].decaying = FALSE
BY DEF Thing

LEMMA SetIDFields ==
    ASSUME NEW S \in States, NEW o \in Object, NEW k \in Kind
    PROVE  /\ SetID(S, o, k) \in States
           /\ SetID(S, o, k).todo = S.todo /\ SetID(S, o, k).kept = S.kept
           /\ SetID(S, o, k).releases = S.releases /\ SetID(S, o, k).room = S.room
           /\ \A x \in Object \ {o} : SetID(S, o, k).things[x] = S.things[x]
           /\ LET old == S.things[o]
                  new == SetID(S, o, k).things[o]
              IN  /\ new.kind = k /\ new.parent = old.parent /\ new.refs = old.refs
                  /\ new.decaying => /\ old.decaying /\ new.left = old.left
                                     /\ DecayTime(k) > 0 => old.left # 0
<1> DEFINE old == S.things[o]
           mid == [old EXCEPT !.kind = k]
           new == IF DecayTime(k) = 0 /\ ~StopTime(k) /\ DecayTo(k) = "never"
                  THEN [mid EXCEPT !.decaying = FALSE, !.left = -1]
                  ELSE IF DecayTime(k) > 0 /\ (~StopTime(old.kind) \/ old.left = 0)
                  THEN [mid EXCEPT !.decaying = FALSE, !.left = DecayTime(k)]
                  ELSE mid
<1>1. DecayTime(k) \in Nat
  BY DecayAssumption
<1>2. old \in Thing
  BY DEF States
<1>3. /\ new \in Thing
      /\ new.kind = k /\ new.parent = old.parent /\ new.refs = old.refs
      /\ new.decaying => /\ old.decaying /\ new.left = old.left
                         /\ DecayTime(k) > 0 => old.left # 0
  <2> HIDE DEF old
  <2>1. /\ mid \in Thing /\ mid.kind = k /\ mid.parent = old.parent
        /\ mid.refs = old.refs /\ mid.decaying = old.decaying /\ mid.left = old.left
    BY <1>2 DEF Thing
  <2> HIDE DEF mid
  <2>2. CASE DecayTime(k) = 0 /\ ~StopTime(k) /\ DecayTo(k) = "never"
    <3>1. new = [mid EXCEPT !.decaying = FALSE, !.left = -1]
      BY <2>2
    <3> HIDE DEF new
    <3>2. -1 \in Int
      OBVIOUS
    <3> QED BY <3>1, <3>2, <2>1, Unmarked
  <2>3. CASE /\ ~(DecayTime(k) = 0 /\ ~StopTime(k) /\ DecayTo(k) = "never")
             /\ DecayTime(k) > 0 /\ (~StopTime(old.kind) \/ old.left = 0)
    <3>1. new = [mid EXCEPT !.decaying = FALSE, !.left = DecayTime(k)]
      BY <2>3
    <3> HIDE DEF new
    <3>2. DecayTime(k) \in Int
      BY <1>1
    <3> QED BY <3>1, <3>2, <2>1, Unmarked
  <2>4. CASE /\ ~(DecayTime(k) = 0 /\ ~StopTime(k) /\ DecayTo(k) = "never")
             /\ ~(DecayTime(k) > 0 /\ (~StopTime(old.kind) \/ old.left = 0))
    <3>1. new = mid
      BY <2>4
    <3> HIDE DEF new
    <3> QED BY <3>1, <2>1, <2>4
  <2> QED BY <2>2, <2>3, <2>4
<1>4. SetID(S, o, k) = [S EXCEPT !.things[o] = new]
  BY DEF SetID
<1> HIDE DEF new
<1>5. [S EXCEPT !.things[o] = new] \in States
  BY <1>3 DEF States
<1>6. /\ [S EXCEPT !.things[o] = new].things = [S.things EXCEPT ![o] = new]
      /\ [S EXCEPT !.things[o] = new].todo = S.todo
      /\ [S EXCEPT !.things[o] = new].kept = S.kept
      /\ [S EXCEPT !.things[o] = new].releases = S.releases
      /\ [S EXCEPT !.things[o] = new].room = S.room
  BY DEF States
<1>7. /\ [S.things EXCEPT ![o] = new][o] = new
      /\ \A x \in Object \ {o} : [S.things EXCEPT ![o] = new][x] = S.things[x]
  BY DEF States
<1> QED BY <1>3, <1>4, <1>5, <1>6, <1>7

\* The mark of o is in order, or a change of its kind puts it in order.
Mends(S, E, o) == Marked(S, E, {}) \/ ~S.things[o].decaying \/ S.things[o].left = 0

LEMMA SetIDSound ==
    ASSUME NEW S, NEW H \in Hidden, NEW E \in Hidden, NEW o \in Object, NEW k \in Kind,
           Sound(S, H, E, {o}), Exists(S, o), InPlace(S.things[o].kind, k), Mends(S, E, o)
    PROVE  Sound(SetID(S, o, k), H, E, {}) /\ Exists(SetID(S, o, k), o)
<1> DEFINE N == SetID(S, o, k)
<1>0. /\ S \in States /\ Held(S, H) /\ Nested(S) /\ Marked(S, E, {o})
      /\ S.things[o].kind \in Kind
  BY DEF Sound, Exists
<1>1. /\ N \in States
      /\ N.todo = S.todo /\ N.kept = S.kept /\ N.releases = S.releases
      /\ N.room = S.room
      /\ \A x \in Object \ {o} : N.things[x] = S.things[x]
      /\ N.things[o].kind = k /\ N.things[o].parent = S.things[o].parent
      /\ N.things[o].refs = S.things[o].refs
      /\ N.things[o].decaying => /\ S.things[o].decaying
                                 /\ N.things[o].left = S.things[o].left
                                 /\ DecayTime(k) > 0 => S.things[o].left # 0
  BY <1>0, SetIDFields
<1> HIDE DEF N
<1>2. k # None /\ S.things[o].kind # None /\ DecayTime(k) \in Nat
      /\ (Holder(S.things[o].kind) <=> Holder(k))
  BY <1>0, DecayAssumption
<1>3. \A x \in Object : /\ N.things[x].parent = S.things[x].parent
                        /\ N.things[x].refs = S.things[x].refs
                        /\ N.things[x].kind = None <=> S.things[x].kind = None
                        /\ Holder(N.things[x].kind) <=> Holder(S.things[x].kind)
                        /\ Listed(N, H, x) = Listed(S, H, x)
                        /\ Listed(N, E, x) = Listed(S, E, x)
  BY <1>1, <1>2 DEF Listed
<1>4. Held(N, H)
  BY <1>0, <1>1, <1>3 DEF Held, InSome
<1>5. Nested(N)
  BY <1>0, <1>1, <1>3 DEF Nested
<1>6. Marked(N, E, {})
  <2> SUFFICES ASSUME NEW x \in Object, N.room, N.things[x].decaying
               PROVE  \/ Listed(N, E, x) > 0
                      \/ Removed(N, x)
                      \/ DecayTime(N.things[x].kind) = 0 /\ N.things[x].left = 0
    BY DEF Marked
  <2>1. Removed(S, x) => Removed(N, x)
    <3>1. S.things[x].parent \in Object \cup {World, None}
      BY <1>0 DEF States, Thing
    <3> QED BY <3>1, <1>3 DEF Removed
  <2>2. CASE x = o
    BY <2>1, <2>2, <1>0, <1>1, <1>2, <1>3 DEF Marked, Mends
  <2>3. CASE x # o
    BY <2>1, <2>3, <1>0, <1>1, <1>3 DEF Marked
  <2> QED BY <2>2, <2>3
<1>7. Exists(N, o)
  BY <1>1 DEF Exists
<1> QED BY <1>1, <1>4, <1>5, <1>6, <1>7 DEF Sound, N

\* A thing in a free address, in the world or in a container.
LEMMA NewSound ==
    ASSUME NEW R, NEW N, NEW H \in Hidden, NEW E \in Hidden, NEW n \in Object,
           Sound(R, H, E, {}), N \in States, R.things[n].kind = None,
           N.todo = R.todo, N.kept = R.kept, N.releases = R.releases, N.room = R.room,
           \A x \in Object \ {n} : N.things[x] = R.things[x],
           N.things[n].kind \in Kind, N.things[n].refs = 1, ~N.things[n].decaying,
           N.things[n].parent # None,
           N.things[n].parent \in Object =>
                /\ R.things[N.things[n].parent].kind \in Kind
                /\ Holder(R.things[N.things[n].parent].kind) /\ ~Holder(N.things[n].kind)
    PROVE  Sound(N, H, E, {})
<1>0. R \in States /\ Held(R, H) /\ Nested(R) /\ Marked(R, E, {})
  BY DEF Sound
<1>1. \A x \in Object : Listed(N, H, x) = Listed(R, H, x) /\ Listed(N, E, x) = Listed(R, E, x)
  BY DEF Listed
<1>2. Listed(R, H, n) = 0 /\ R.releases[n] = 0
  <2>1. Listed(R, H, n) \in Nat /\ R.releases[n] \in Nat /\ InSome(R, n) \in 0..1
    BY <1>0, ListedIs
  <2>2. InSome(R, n) + Listed(R, H, n) + R.releases[n] = 0
    BY <1>0 DEF Held
  <2> QED BY <2>1, <2>2
<1>3. Held(N, H)
  <2> SUFFICES ASSUME NEW x \in Object
               PROVE  /\ N.things[x].refs = InSome(N, x) + Listed(N, H, x) + N.releases[x]
                      /\ N.things[x].kind = None <=> N.things[x].refs = 0
    BY DEF Held
  <2>1. CASE x = n
    <3>1. N.things[n].kind # None
      BY DistinctNames
    <3> QED BY <2>1, <3>1, <1>1, <1>2 DEF InSome
  <2>2. CASE x # n
    BY <2>2, <1>0, <1>1 DEF Held, InSome
  <2> QED BY <2>1, <2>2
<1>4. \A x \in Object : R.things[x].parent # n
  BY <1>0 DEF Nested
<1>5. Nested(N)
  <2> SUFFICES ASSUME NEW x \in Object, N.things[x].parent \in Object
               PROVE  /\ N.things[N.things[x].parent].kind # None
                      /\ Holder(N.things[N.things[x].parent].kind)
                      /\ ~Holder(N.things[x].kind)
    BY DEF Nested
  <2>1. CASE x = n
    <3>1. N.things[n].parent # n
      BY <2>1, DistinctNames
    <3> QED BY <2>1, <3>1, DistinctNames
  <2>2. CASE x # n
    BY <2>2, <1>0, <1>4 DEF Nested
  <2> QED BY <2>1, <2>2
<1>6. Marked(N, E, {})
  <2> SUFFICES ASSUME NEW x \in Object, N.room, N.things[x].decaying
               PROVE  \/ Listed(N, E, x) > 0
                      \/ Removed(N, x)
                      \/ DecayTime(N.things[x].kind) = 0 /\ N.things[x].left = 0
    BY DEF Marked
  <2>1. x # n
    OBVIOUS
  <2>2. Removed(R, x) => Removed(N, x)
    <3>1. R.things[x].parent \in Object \cup {World, None}
      BY <1>0 DEF States, Thing
    <3> QED BY <3>1, <2>1, <1>4 DEF Removed
  <2> QED BY <2>1, <2>2, <1>0, <1>1 DEF Marked
<1> QED BY <1>3, <1>5, <1>6 DEF Sound

\* What a kind may become.
Follows(S, o, k) == k \in Kind /\ (Holder(k) => Holder(S.things[o].kind))

LEMMA TransformSound ==
    ASSUME NEW S, NEW H \in Hidden, NEW E \in Hidden, NEW o \in Object, NEW k,
           Sound(S, H, E, {o}), Exists(S, o), Follows(S, o, k), Mends(S, E, o),
           S.things[o].parent # None
    PROVE  LET t == TransformItem(S, o, k)
           IN  /\ Sound(t.state, H, E, {}) /\ Exists(t.state, o) /\ t.state.kept = S.kept
               /\ t.item = None \/ Exists(t.state, t.item)
               /\ t = [state |-> t.state, item |-> t.item]
<1> DEFINE t == TransformItem(S, o, k)
<1>0. /\ S \in States /\ Held(S, H) /\ Nested(S)
      /\ S.things[o].kind \in Kind /\ k \in Kind
      /\ Holder(k) => Holder(S.things[o].kind)
  BY DEF Sound, Exists, Follows
<1>1. CASE InPlace(S.things[o].kind, k)
  <2>1. t = [state |-> SetID(S, o, k), item |-> o]
    BY <1>1 DEF TransformItem
  <2>2. Sound(SetID(S, o, k), H, E, {}) /\ Exists(SetID(S, o, k), o)
    BY <1>0, <1>1, SetIDSound
  <2>3. SetID(S, o, k).kept = S.kept
    BY <1>0, SetIDFields
  <2> HIDE DEF t
  <2> QED BY <2>1, <2>2, <2>3 DEF t
<1>2. CASE ~InPlace(S.things[o].kind, k) /\ \A n \in Object : S.things[n].kind # None
  <2> DEFINE N == [S EXCEPT !.room = FALSE]
  <2>1. t = [state |-> N, item |-> None]
    BY <1>2 DEF TransformItem
  <2>2. N \in States
    BY <1>0 DEF States
  <2>3. /\ N.things = S.things /\ N.todo = S.todo /\ N.kept = S.kept
        /\ N.releases = S.releases /\ ~N.room
    BY <1>0 DEF States
  <2> HIDE DEF N, t
  <2>4. Held(N, H)
    BY <1>0, <2>3 DEF Held, InSome, Listed
  <2>5. Nested(N)
    BY <1>0, <2>3 DEF Nested
  <2>6. Marked(N, E, {})
    BY <2>3 DEF Marked
  <2>7. Exists(N, o)
    BY <1>0, <2>3 DEF Exists
  <2> QED BY <2>1, <2>2, <2>3, <2>4, <2>5, <2>6, <2>7 DEF Sound, t
<1>3. CASE ~InPlace(S.things[o].kind, k) /\ \E n \in Object : S.things[n].kind = None
  <2> DEFINE n == Fresh(S)
             R == RemoveItem(S, o)
             new == [kind |-> k, parent |-> S.things[o].parent, refs |-> 1,
                     decaying |-> FALSE, left |-> 0]
             N == [R EXCEPT !.things[n] = new]
  <2>1. t = [state |-> N, item |-> n]
    BY <1>3 DEF TransformItem
  <2>2. /\ R \in States /\ R.things = [S.things EXCEPT ![o].parent = None]
        /\ R.kept = S.kept
    BY <1>0, RemoveFields
  <2>3. Sound(R, H, E, {})
    BY RemoveSound
  <2>4. S.things[o].parent \in Object \cup {World} /\ new \in Thing
    BY <1>0 DEF States, Thing
  <2>5. /\ new.kind = k /\ new.parent = S.things[o].parent /\ new.refs = 1
        /\ new.decaying = FALSE
    OBVIOUS
  <2>6. n \in Object /\ S.things[n].kind = None
    BY <1>3 DEF Fresh
  <2> HIDE DEF R, new, n
  <2>7. /\ N.todo = R.todo /\ N.kept = R.kept /\ N.releases = R.releases /\ N.room = R.room
        /\ N.things = [R.things EXCEPT ![n] = new]
    BY <2>2 DEF States
  <2>8. N \in States
    BY <2>2, <2>4 DEF States
  <2> HIDE DEF N
  <2>9. n # o
    BY <1>0, <2>6, DistinctNames
  <2>10. \A x \in Object \ {n} : N.things[x] = R.things[x]
    BY <2>2, <2>7 DEF States
  <2>11. N.things[n] = new
    BY <2>2, <2>6, <2>7 DEF States
  <2>12. \A x \in Object : R.things[x].kind = S.things[x].kind
    BY <1>0, <2>2 DEF States, Thing
  <2>13. new.parent \in Object => /\ R.things[new.parent].kind \in Kind
                                  /\ Holder(R.things[new.parent].kind) /\ ~Holder(new.kind)
    BY <1>0, <2>5, <2>12 DEF Nested, States, Thing
  <2>14. new.parent # None
    BY <2>5
  <2>15. Sound(N, H, E, {})
    BY <1>0, <2>3, <2>5, <2>6, <2>7, <2>8, <2>10, <2>11, <2>12, <2>13, <2>14, NewSound
  <2>16. Exists(N, n) /\ Exists(N, o)
    BY <1>0, <2>5, <2>6, <2>9, <2>10, <2>11, <2>12 DEF Exists
  <2> HIDE DEF t
  <2> QED BY <2>1, <2>2, <2>7, <2>15, <2>16 DEF t
<1> QED BY <1>1, <1>2, <1>3

LEMMA InternalDecaySound ==
    ASSUME NEW S, NEW H \in Hidden, NEW E \in Hidden, NEW o \in Object,
           Sound(S, H, E, {o}), Exists(S, o), CanDecay(S, o), Mends(S, E, o)
    PROVE  LET t == InternalDecay(S, o)
           IN  /\ Sound(t.state, H, E, {}) /\ t.state.kept = S.kept
               /\ t.item = None \/ Exists(t.state, t.item)
               /\ t = [state |-> t.state, item |-> t.item]
<1> DEFINE k == DecayTo(S.things[o].kind)
           t == InternalDecay(S, o)
<1>1. S.things[o].parent # None
  BY DEF CanDecay, Removed
<1>2. S.things[o].kind \in Kind /\ k # "never"
  BY DEF CanDecay, Decays, Exists
<1>3. CASE k = "nothing"
  <2>1. t = [state |-> RemoveItem(S, o), item |-> None]
    BY <1>3 DEF InternalDecay
  <2>2. Sound(RemoveItem(S, o), H, E, {})
    BY <1>1, RemoveSound
  <2>3. RemoveItem(S, o).kept = S.kept
    BY RemoveFields DEF Sound
  <2> HIDE DEF t
  <2> QED BY <2>1, <2>2, <2>3 DEF t
<1>4. CASE k # "nothing"
  <2>1. t = TransformItem(S, o, k)
    BY <1>4 DEF InternalDecay
  <2>2. k \in Kind
    BY <1>2, <1>4, DecayAssumption
  <2>3. Follows(S, o, k)
    BY <1>2, <2>2, DecayAssumption DEF Follows
  <2> HIDE DEF k, t
  <2> DEFINE u == TransformItem(S, o, k)
  <2>4. /\ Sound(u.state, H, E, {}) /\ u.state.kept = S.kept
        /\ u.item = None \/ Exists(u.state, u.item)
        /\ u = [state |-> u.state, item |-> u.item]
    BY <1>1, <2>3, TransformSound
  <2> HIDE DEF u
  <2> QED BY <2>1, <2>4 DEF t, u
<1> QED BY <1>3, <1>4

\* The entry in toDecayItems and its reference.
LEMMA WaitsSound ==
    ASSUME NEW S, NEW H \in Hidden, NEW E \in Hidden, NEW o \in Object,
           Sound(S, H, E, {}), Exists(S, o)
    PROVE  Sound(Waits(S, o), H, E, {}) /\ Waits(S, o).kept = S.kept
<1> DEFINE W == Waits(S, o)
<1>0. S \in States /\ Held(S, H) /\ Nested(S) /\ Marked(S, E, {})
  BY DEF Sound
<1>1. W \in States
  <2> DEFINE new == [S.things[o] EXCEPT !.refs = @ + 1, !.decaying = TRUE]
             th == [S.things EXCEPT ![o] = new]
             td == Append(S.todo, o)
  <2>1. new \in Thing
    <3> DEFINE old == S.things[o]
               r == old.refs + 1
    <3>1. old \in Thing /\ r \in Int
      BY <1>0 DEF States, Thing
    <3>2. new = [old EXCEPT !.refs = r, !.decaying = TRUE]
      OBVIOUS
    <3> HIDE DEF old, r, new
    <3>3. [old EXCEPT !.refs = r, !.decaying = TRUE] \in Thing
      BY <3>1 DEF Thing
    <3> QED BY <3>2, <3>3
  <2>2. W = [S EXCEPT !.things = th, !.todo = td]
    BY <1>0 DEF Waits, States
  <2> HIDE DEF new, W
  <2>3. th \in [Object -> Thing] /\ td \in Seq(Object)
    BY <1>0, <2>1 DEF States
  <2> HIDE DEF th, td
  <2> QED BY <1>0, <2>2, <2>3 DEF States
<1>2. /\ W.todo = Append(S.todo, o) /\ W.kept = S.kept /\ W.releases = S.releases
      /\ W.room = S.room
  BY <1>0 DEF Waits, States
<1>3. /\ W.things[o].refs = S.things[o].refs + 1
      /\ W.things[o].kind = S.things[o].kind /\ W.things[o].parent = S.things[o].parent
      /\ \A x \in Object \ {o} : W.things[x] = S.things[x]
  BY <1>0 DEF Waits, States, Thing
<1> HIDE DEF W
<1>4. S.todo \in Seq(Object)
  BY <1>0 DEF States
<1>5. ASSUME NEW x \in Object
      PROVE  /\ Listed(W, H, x) = Listed(S, H, x) + One(o, x)
             /\ Listed(W, E, x) = Listed(S, E, x) + One(o, x)
             /\ Listed(S, E, x) \in Nat /\ Listed(S, H, x) \in Nat
             /\ S.releases[x] \in Nat /\ InSome(S, x) \in 0..1 /\ InSome(W, x) = InSome(S, x)
  <2>1. Count(W.todo, x) = Count(S.todo, x) + One(o, x)
    BY <1>2, <1>4, CountAppend
  <2>2. Count(S.todo, x) \in Nat /\ Count(S.kept, x) \in Nat /\ H[x] \in Nat /\ E[x] \in Nat
    BY <1>0, ListedIs DEF Hidden
  <2>3. Listed(S, E, x) \in Nat /\ Listed(S, H, x) \in Nat /\ S.releases[x] \in Nat
        /\ InSome(S, x) \in 0..1
    BY <1>0, ListedIs
  <2>4. W.things[x].parent = S.things[x].parent
    BY <1>3
  <2>5. One(o, x) \in Nat
    BY DEF One
  <2>6. InSome(W, x) = InSome(S, x)
    BY <2>4 DEF InSome
  <2>7. Listed(W, H, x) = Listed(S, H, x) + One(o, x)
    BY <1>2, <2>1, <2>2, <2>5 DEF Listed
  <2>8. Listed(W, E, x) = Listed(S, E, x) + One(o, x)
    BY <1>2, <2>1, <2>2, <2>5 DEF Listed
  <2> QED BY <2>3, <2>6, <2>7, <2>8
<1>6. Held(W, H)
  <2> SUFFICES ASSUME NEW x \in Object
               PROVE  /\ W.things[x].refs = InSome(W, x) + Listed(W, H, x) + W.releases[x]
                      /\ W.things[x].kind = None <=> W.things[x].refs = 0
    BY DEF Held
  <2>1. /\ S.things[x].refs = InSome(S, x) + Listed(S, H, x) + S.releases[x]
        /\ S.things[x].kind = None <=> S.things[x].refs = 0
    BY <1>0 DEF Held
  <2>2. CASE x = o
    <3>1. S.things[o].kind # None
      BY DistinctNames DEF Exists
    <3>2. Listed(W, H, x) = Listed(S, H, x) + 1
      BY <2>2, <1>5 DEF One
    <3>3. W.things[x].refs = InSome(W, x) + Listed(W, H, x) + W.releases[x]
      <4>1. W.things[x].refs = S.things[x].refs + 1
        BY <2>2, <1>3
      <4>2. InSome(W, x) = InSome(S, x) /\ W.releases[x] = S.releases[x]
        BY <1>2, <1>5
      <4>3. InSome(S, x) \in Int /\ Listed(S, H, x) \in Int /\ S.releases[x] \in Int
        BY <1>5
      <4> QED BY <2>1, <3>2, <4>1, <4>2, <4>3
    <3>4. S.things[x].refs \in Nat /\ S.things[x].refs # 0
      BY <2>1, <2>2, <3>1, <1>5
    <3>5. W.things[x].kind # None /\ W.things[x].refs # 0
      BY <2>2, <3>1, <3>4, <1>3
    <3> QED BY <3>3, <3>5
  <2>3. CASE x # o
    <3>1. One(o, x) = 0
      BY <2>3 DEF One
    <3> QED BY <2>1, <2>3, <3>1, <1>2, <1>3, <1>5
  <2> QED BY <2>2, <2>3
<1>7. \A x \in Object : /\ W.things[x].parent = S.things[x].parent
                        /\ W.things[x].kind = S.things[x].kind
  BY <1>3
<1>8. Nested(W)
  BY <1>0, <1>7 DEF Nested
<1>9. Marked(W, E, {})
  <2> SUFFICES ASSUME NEW x \in Object, W.room, W.things[x].decaying
               PROVE  \/ Listed(W, E, x) > 0
                      \/ Removed(W, x)
                      \/ DecayTime(W.things[x].kind) = 0 /\ W.things[x].left = 0
    BY DEF Marked
  <2>1. CASE x = o
    <3>1. One(o, x) = 1
      BY <2>1 DEF One
    <3> QED BY <3>1, <1>5
  <2>2. CASE x # o
    <3>1. One(o, x) = 0
      BY <2>2 DEF One
    <3>2. Removed(S, x) => Removed(W, x)
      <4>1. S.things[x].parent \in Object \cup {World, None}
        BY <1>0 DEF States, Thing
      <4> QED BY <4>1, <1>7 DEF Removed
    <3>3. W.things[x] = S.things[x] /\ Listed(W, E, x) = Listed(S, E, x)
      BY <2>2, <3>1, <1>3, <1>5
    <3> QED BY <3>2, <3>3, <1>0, <1>2 DEF Marked
  <2> QED BY <2>1, <2>2
<1> QED BY <1>1, <1>2, <1>6, <1>8, <1>9 DEF Sound, W

LEMMA OpenMark ==
    ASSUME NEW S, NEW H, NEW E, NEW X, Sound(S, H, E, {})
    PROVE  Sound(S, H, E, X)
BY DEF Sound, Marked

-----------------------------------------------------------------------------
(* startDecay and internalDecayItem, which call each other.                *)

\* A state and the item to go on with, if any.
Pair(t, H, E, kept) ==
    /\ Sound(t.state, H, E, {}) /\ t.state.kept = kept
    /\ t.item = None \/ Exists(t.state, t.item)
    /\ t = [state |-> t.state, item |-> t.item]

LEMMA LinkSound ==
    ASSUME NEW H \in Hidden, NEW E \in Hidden, NEW t, NEW kept, Pair(t, H, E, kept)
    PROVE  Pair(Link(t), H, E, kept)
<1> DEFINE S == t.state
           o == t.item
<1>1. CASE o = None \/ ~CanDecay(S, o) \/ S.things[o].decaying
  <2>1. Link(t) = [t EXCEPT !.item = None]
    BY <1>1 DEF Link
  <2>2. t = [state |-> S, item |-> o]
    BY DEF Pair
  <2> HIDE DEF S, o
  <2>3. Link(t) = [state |-> S, item |-> None]
    BY <2>1, <2>2
  <2> QED BY <2>3 DEF Pair, S
<1>2. CASE /\ ~(o = None \/ ~CanDecay(S, o) \/ S.things[o].decaying)
           /\ S.things[o].left > 0
  <2>1. Link(t) = [state |-> Waits(S, o), item |-> None]
    BY <1>2 DEF Link
  <2>2. Sound(S, H, E, {}) /\ Exists(S, o) /\ o \in Object
    BY <1>2 DEF Pair, Exists
  <2>0. S.kept = kept
    BY DEF Pair
  <2> HIDE DEF S, o
  <2>3. Sound(Waits(S, o), H, E, {}) /\ Waits(S, o).kept = kept
    BY <2>0, <2>2, WaitsSound
  <2> QED BY <2>1, <2>3 DEF Pair
<1>3. CASE /\ ~(o = None \/ ~CanDecay(S, o) \/ S.things[o].decaying)
           /\ ~(S.things[o].left > 0)
  <2>1. Link(t) = InternalDecay(S, o)
    BY <1>3 DEF Link
  <2>2. /\ Sound(S, H, E, {}) /\ Exists(S, o) /\ o \in Object /\ CanDecay(S, o)
        /\ Mends(S, E, o) /\ S.kept = kept
    BY <1>3 DEF Pair, Exists, Mends
  <2> HIDE DEF S, o
  <2>3. Sound(S, H, E, {o})
    BY <2>2, OpenMark
  <2> QED BY <2>1, <2>2, <2>3, InternalDecaySound DEF Pair
<1> QED BY <1>1, <1>2, <1>3

\* The chain of links that startDecay follows.
LEMMA StartDecayIs ==
    ASSUME NEW S, NEW o
    PROVE  \E f : /\ f[0] = [state |-> S, item |-> o]
                  /\ \A n \in 1..Links : f[n] = Link(f[n - 1])
                  /\ StartDecay(S, o) = f[Links].state
<1> DEFINE z == [state |-> S, item |-> o]
           Eqn(f, m) == f = [n \in 0..m |-> IF n = 0 THEN z ELSE Link(f[n - 1])]
           A == {m \in Nat : \E f : Eqn(f, m)}
<1>1. 0 \in A
  <2> DEFINE f == [n \in 0..0 |-> z]
  <2>1. Eqn(f, 0)
    OBVIOUS
  <2> QED BY <2>1
<1>2. ASSUME NEW m \in Nat, m \in A PROVE m + 1 \in A
  <2>1. PICK f : Eqn(f, m)
    BY <1>2
  <2> DEFINE g == [n \in 0..(m + 1) |-> IF n <= m THEN f[n] ELSE Link(f[m])]
  <2>2. ASSUME NEW n \in 0..(m + 1)
        PROVE  g[n] = IF n = 0 THEN z ELSE Link(g[n - 1])
    <3>1. CASE n = 0
      BY <2>1, <3>1
    <3>2. CASE n # 0 /\ n <= m
      <4>1. n - 1 \in 0..(m + 1) /\ n - 1 <= m /\ n \in 0..m
        BY <3>2
      <4>2. g[n - 1] = f[n - 1] /\ g[n] = f[n]
        BY <4>1, <3>2
      <4>3. f[n] = Link(f[n - 1])
        BY <2>1, <3>2, <4>1
      <4> QED BY <3>2, <4>2, <4>3
    <3>3. CASE n = m + 1
      <4>1. n - 1 = m /\ n # 0 /\ ~(n <= m) /\ m \in 0..(m + 1) /\ m <= m
        BY <3>3
      <4>2. g[m] = f[m] /\ g[n] = Link(f[m])
        BY <4>1, <3>3
      <4> QED BY <4>1, <4>2
    <3> QED BY <3>1, <3>2, <3>3
  <2>3. g = [n \in 0..(m + 1) |-> g[n]]
    OBVIOUS
  <2> HIDE DEF g
  <2>4. Eqn(g, m + 1)
    BY <2>2, <2>3
  <2> QED BY <2>4
<1> HIDE DEF A
<1>3. Nat \subseteq A
  BY <1>1, <1>2, SetInduction
<1>4. Links \in Nat /\ \E f : Eqn(f, Links)
  BY <1>3, DecayAssumption DEF A
<1> DEFINE link == CHOOSE f : Eqn(f, Links)
<1>5. StartDecay(S, o) = link[Links].state
  BY DEF StartDecay
<1>6. Eqn(link, Links)
  <2> HIDE DEF Eqn
  <2> QED BY <1>4
<1> HIDE DEF link
<1>7. link[0] = z /\ \A n \in 1..Links : link[n] = Link(link[n - 1])
  <2>1. 0 \in 0..Links
    BY <1>4
  <2>2. link[0] = z
    BY <1>6, <2>1
  <2>3. ASSUME NEW n \in 1..Links PROVE link[n] = Link(link[n - 1])
    <3>1. n \in 0..Links /\ n # 0
      BY <1>4
    <3> QED BY <1>6, <3>1
  <2> QED BY <2>2, <2>3
<1> QED BY <1>5, <1>7

LEMMA StartDecaySound ==
    ASSUME NEW S, NEW H \in Hidden, NEW E \in Hidden, NEW o,
           Sound(S, H, E, {}), o = None \/ Exists(S, o)
    PROVE  Sound(StartDecay(S, o), H, E, {}) /\ StartDecay(S, o).kept = S.kept
<1>1. PICK f : /\ f[0] = [state |-> S, item |-> o]
               /\ \A n \in 1..Links : f[n] = Link(f[n - 1])
               /\ StartDecay(S, o) = f[Links].state
  BY StartDecayIs
<1> DEFINE A == {n \in Nat : n <= Links => Pair(f[n], H, E, S.kept)}
<1>2. Links \in Nat
  BY DecayAssumption
<1>3. 0 \in A
  BY <1>1 DEF Pair
<1>4. ASSUME NEW n \in Nat, n \in A PROVE n + 1 \in A
  <2>1. SUFFICES ASSUME n + 1 <= Links PROVE Pair(f[n + 1], H, E, S.kept)
    OBVIOUS
  <2>2. n + 1 \in 1..Links /\ (n + 1) - 1 = n /\ n <= Links
    BY <2>1, <1>2
  <2>3. Pair(f[n], H, E, S.kept)
    BY <1>4, <2>2
  <2>4. f[n + 1] = Link(f[n])
    BY <1>1, <2>2
  <2> QED BY <2>3, <2>4, LinkSound
<1> HIDE DEF A
<1>5. Links \in A
  BY <1>2, <1>3, <1>4, SetInduction
<1>6. Pair(f[Links], H, E, S.kept)
  BY <1>2, <1>5 DEF A
<1> QED BY <1>1, <1>6 DEF Pair

LEMMA DecaySound ==
    ASSUME NEW S, NEW H \in Hidden, NEW E \in Hidden, NEW o \in Object,
           Sound(S, H, E, {o}), Exists(S, o), CanDecay(S, o), Mends(S, E, o)
    PROVE  Sound(Decay(S, o), H, E, {})
<1> DEFINE t == InternalDecay(S, o)
<1>1. Decay(S, o) = IF t.item = None THEN t.state ELSE StartDecay(t.state, t.item)
  BY DEF Decay
<1>2. Sound(t.state, H, E, {}) /\ (t.item = None \/ Exists(t.state, t.item))
  BY InternalDecaySound
<1> HIDE DEF t
<1>3. Sound(StartDecay(t.state, t.item), H, E, {})
  BY <1>2, StartDecaySound
<1> QED BY <1>1, <1>2, <1>3

-----------------------------------------------------------------------------
(* checkDecay.                                                             *)

\* The methods that leave alone what holds a thing and what it is.
LEMMA SameShape ==
    ASSUME NEW S \in States, NEW N \in States, NEW H, NEW G, Held(S, H), Nested(S),
           \A x \in Object : /\ N.things[x].parent = S.things[x].parent
                             /\ N.things[x].kind = S.things[x].kind
                             /\ N.things[x].refs = S.things[x].refs
                             /\ N.releases[x] = S.releases[x]
                             /\ Listed(N, G, x) = Listed(S, H, x)
    PROVE  /\ Held(N, G) /\ Nested(N)
           /\ \A x \in Object : Removed(N, x) <=> Removed(S, x)
<1>1. Held(N, G)
  BY DEF Held, InSome
<1>2. Nested(N)
  BY DEF Nested
<1>3. ASSUME NEW x \in Object PROVE Removed(N, x) <=> Removed(S, x)
  <2>1. S.things[x].parent \in Object \cup {World, None}
    BY DEF States, Thing
  <2> QED BY <2>1 DEF Removed
<1> QED BY <1>1, <1>2, <1>3

LEMMA FieldOfThings ==
    ASSUME NEW S \in States, NEW o \in Object, NEW t \in Thing
    PROVE  /\ [S EXCEPT !.things[o] = t] \in States
           /\ [S EXCEPT !.things[o] = t].things[o] = t
           /\ \A x \in Object \ {o} : [S EXCEPT !.things[o] = t].things[x] = S.things[x]
           /\ [S EXCEPT !.things[o] = t].todo = S.todo
           /\ [S EXCEPT !.things[o] = t].kept = S.kept
           /\ [S EXCEPT !.things[o] = t].releases = S.releases
           /\ [S EXCEPT !.things[o] = t].room = S.room
BY DEF States

\* The count of hidden entries without the one of o that is visited.
Less(H, o) == [H EXCEPT ![o] = @ - 1]

LEMMA LessIs ==
    ASSUME NEW H \in Hidden, NEW o \in Object, H[o] > 0
    PROVE  Less(H, o) \in Hidden /\ \A x \in Object : Less(H, o)[x] = H[x] - One(o, x)
BY DEF Less, Hidden, One

\* The entry goes, and with it the mark that it justified.
LEMMA DropSound ==
    ASSUME NEW S, NEW H \in Hidden, NEW o \in Object, Sound(S, H, H, {}), H[o] > 0
    PROVE  Sound(Drop(S, o), Less(H, o), Less(H, o), {})
<1> DEFINE t == [S.things[o] EXCEPT !.decaying = FALSE]
           D == [S EXCEPT !.things[o] = t]
           G == Less(H, o)
<1>0. S \in States /\ Held(S, H) /\ Nested(S) /\ Marked(S, H, {})
  BY DEF Sound
<1>1. /\ t \in Thing /\ ~t.decaying /\ t.parent = S.things[o].parent
      /\ t.kind = S.things[o].kind /\ t.refs = S.things[o].refs
  <2> DEFINE old == S.things[o]
  <2>1. old \in Thing
    BY <1>0 DEF States
  <2> HIDE DEF old
  <2>2. [old EXCEPT !.decaying = FALSE] \in Thing
    BY <2>1 DEF Thing
  <2>3. /\ [old EXCEPT !.decaying = FALSE].decaying = FALSE
        /\ [old EXCEPT !.decaying = FALSE].parent = old.parent
        /\ [old EXCEPT !.decaying = FALSE].kind = old.kind
        /\ [old EXCEPT !.decaying = FALSE].refs = old.refs
    BY <2>1 DEF Thing
  <2> QED BY <2>2, <2>3 DEF old
<1>2. Drop(S, o) = FreeThing(D, o)
  BY <1>0 DEF Drop, States
<1> HIDE DEF t
<1>3. /\ D \in States /\ D.things[o] = t
      /\ \A x \in Object \ {o} : D.things[x] = S.things[x]
      /\ D.todo = S.todo /\ D.kept = S.kept /\ D.releases = S.releases /\ D.room = S.room
  BY <1>0, <1>1, FieldOfThings
<1> HIDE DEF D
<1>4. G \in Hidden /\ \A x \in Object : G[x] = H[x] - One(o, x)
  BY LessIs
<1>5. \A x \in Object : Listed(D, H, x) = Listed(S, H, x)
  BY <1>3 DEF Listed
<1>6. /\ Held(D, H) /\ Nested(D)
      /\ \A x \in Object : Removed(D, x) <=> Removed(S, x)
  <2>1. \A x \in Object : /\ D.things[x].parent = S.things[x].parent
                          /\ D.things[x].kind = S.things[x].kind
                          /\ D.things[x].refs = S.things[x].refs
                          /\ D.releases[x] = S.releases[x]
    BY <1>1, <1>3
  <2> QED BY <2>1, <1>0, <1>3, <1>5, SameShape
<1>7. Marked(D, G, {})
  <2> SUFFICES ASSUME NEW x \in Object, D.room, D.things[x].decaying
               PROVE  \/ Listed(D, G, x) > 0
                      \/ Removed(D, x)
                      \/ DecayTime(D.things[x].kind) = 0 /\ D.things[x].left = 0
    BY DEF Marked
  <2>1. x # o
    BY <1>1, <1>3
  <2>2. D.things[x] = S.things[x] /\ G[x] = H[x]
    <3>1. One(o, x) = 0 /\ H[x] \in Nat
      BY <2>1 DEF One, Hidden
    <3> QED BY <2>1, <3>1, <1>3, <1>4
  <2>3. Listed(D, G, x) = Listed(S, H, x)
    BY <2>2, <1>3 DEF Listed
  <2> QED BY <2>2, <2>3, <1>0, <1>3, <1>6 DEF Marked
<1>8. Sound(D, H, G, {})
  BY <1>3, <1>6, <1>7 DEF Sound
<1> HIDE DEF G
<1>9. Sound(FreeThing(D, o), [H EXCEPT ![o] = @ - 1], G, {})
  BY <1>4, <1>8, FreeEntrySound
<1> QED BY <1>2, <1>9 DEF G, Less

\* One visit turns the entry of o into a release, or keeps it.
LEMMA VisitSound ==
    ASSUME NEW S, NEW H \in Hidden, NEW o \in Object, Sound(S, H, H, {}), H[o] > 0
    PROVE  Sound(Visit(S, o), Less(H, o), Less(H, o), {})
<1> DEFINE less == IF S.things[o].left > 1 THEN 1 ELSE S.things[o].left
           t == [S.things[o] EXCEPT !.left = @ - less]
           T == [S EXCEPT !.things[o] = t]
           G == Less(H, o)
<1>0. S \in States /\ Held(S, H) /\ Nested(S) /\ Marked(S, H, {})
  BY DEF Sound
<1>1. /\ t \in Thing /\ t.parent = S.things[o].parent
      /\ t.kind = S.things[o].kind /\ t.refs = S.things[o].refs
      /\ t.decaying = S.things[o].decaying
      /\ t.left <= 0 => t.left = 0
  <2> DEFINE old == S.things[o]
             d == old.left - less
  <2>1. old \in Thing /\ old.left \in Int /\ less \in Int /\ d \in Int
    BY <1>0 DEF States, Thing
  <2>2. d <= 0 => d = 0
    <3>1. CASE old.left > 1
      <4>1. less = 1
        BY <3>1
      <4> HIDE DEF less, old
      <4> QED BY <2>1, <3>1, <4>1
    <3>2. CASE ~(old.left > 1)
      <4>1. less = old.left
        BY <3>2
      <4> HIDE DEF less, old
      <4> QED BY <2>1, <4>1
    <3> QED BY <3>1, <3>2
  <2>3. t = [old EXCEPT !.left = d]
    OBVIOUS
  <2> HIDE DEF old, d, less, t
  <2>4. [old EXCEPT !.left = d] \in Thing
    BY <2>1 DEF Thing
  <2>5. /\ [old EXCEPT !.left = d].decaying = old.decaying
        /\ [old EXCEPT !.left = d].parent = old.parent
        /\ [old EXCEPT !.left = d].kind = old.kind
        /\ [old EXCEPT !.left = d].refs = old.refs
        /\ [old EXCEPT !.left = d].left = d
    BY <2>1 DEF Thing
  <2> QED BY <2>2, <2>3, <2>4, <2>5 DEF old
<1>2. Visit(S, o) = IF ~CanDecay(S, o) THEN Drop(S, o)
                    ELSE IF T.things[o].left <= 0 THEN FreeThing(Decay(T, o), o)
                    ELSE [T EXCEPT !.kept = Append(@, o)]
  <2>1. T = [S EXCEPT !.things[o].left = @ - less]
    BY <1>0 DEF States
  <2> HIDE DEF T, less
  <2> QED BY <2>1 DEF Visit, less
<1> HIDE DEF t
<1>3. /\ T \in States /\ T.things[o] = t
      /\ \A x \in Object \ {o} : T.things[x] = S.things[x]
      /\ T.todo = S.todo /\ T.kept = S.kept /\ T.releases = S.releases /\ T.room = S.room
  BY <1>0, <1>1, FieldOfThings
<1> HIDE DEF T, less
<1>4. G \in Hidden /\ \A x \in Object : G[x] = H[x] - One(o, x) /\ H[x] \in Nat
  BY LessIs DEF Hidden
<1>5. \A x \in Object : /\ T.things[x].parent = S.things[x].parent
                        /\ T.things[x].kind = S.things[x].kind
                        /\ T.things[x].refs = S.things[x].refs
                        /\ T.things[x].decaying = S.things[x].decaying
                        /\ T.releases[x] = S.releases[x]
                        /\ Listed(T, H, x) = Listed(S, H, x)
  BY <1>1, <1>3 DEF Listed
<1>6. /\ Held(T, H) /\ Nested(T)
      /\ \A x \in Object : Removed(T, x) <=> Removed(S, x)
  <2>1. \A x \in Object : /\ T.things[x].parent = S.things[x].parent
                          /\ T.things[x].kind = S.things[x].kind
                          /\ T.things[x].refs = S.things[x].refs
                          /\ T.releases[x] = S.releases[x]
                          /\ Listed(T, H, x) = Listed(S, H, x)
    BY <1>5
  <2>2. T \in States
    BY <1>3
  <2> QED BY <2>1, <2>2, <1>0, SameShape
<1>7. Exists(S, o)
  <2>1. Listed(S, H, o) > 0
    BY <1>0, ListedIs DEF Listed, Hidden
  <2> QED BY <1>0, <2>1, ListedExists
<1>8. Exists(T, o) /\ (CanDecay(T, o) <=> CanDecay(S, o))
  BY <1>5, <1>6, <1>7 DEF Exists, CanDecay
<1>9. \A x \in Object \ {o} : T.room /\ T.things[x].decaying =>
            \/ Listed(T, H, x) > 0
            \/ Removed(T, x)
            \/ DecayTime(T.things[x].kind) = 0 /\ T.things[x].left = 0
  BY <1>0, <1>3, <1>5, <1>6 DEF Marked
<1>10. CASE ~CanDecay(S, o)
  BY <1>2, <1>10, DropSound
<1>11. CASE CanDecay(S, o) /\ T.things[o].left <= 0
  <2>1. T.things[o].left = 0
    BY <1>1, <1>3, <1>11
  <2>2. Marked(T, G, {o})
    <3> SUFFICES ASSUME NEW x \in Object \ {o}, T.room, T.things[x].decaying
                 PROVE  \/ Listed(T, G, x) > 0
                        \/ Removed(T, x)
                        \/ DecayTime(T.things[x].kind) = 0 /\ T.things[x].left = 0
      BY DEF Marked
    <3>1. G[x] = H[x]
      <4>1. One(o, x) = 0
        BY DEF One
      <4> QED BY <4>1, <1>4
    <3>2. Listed(T, G, x) = Listed(T, H, x)
      BY <3>1 DEF Listed
    <3> QED BY <3>2, <1>9
  <2>3. Sound(T, H, G, {o}) /\ Mends(T, G, o)
    BY <2>1, <2>2, <1>3, <1>6 DEF Sound, Mends
  <2> HIDE DEF G
  <2>4. Sound(Decay(T, o), H, G, {})
    BY <2>3, <1>4, <1>8, <1>11, DecaySound
  <2>5. Sound(FreeThing(Decay(T, o), o), [H EXCEPT ![o] = @ - 1], G, {})
    BY <2>4, <1>4, FreeEntrySound
  <2> QED BY <2>5, <1>2, <1>11 DEF G, Less
<1>12. CASE CanDecay(S, o) /\ ~(T.things[o].left <= 0)
  <2> DEFINE s == Append(T.kept, o)
             K == [T EXCEPT !.kept = s]
  <2>1. T.kept \in Seq(Object) /\ s \in Seq(Object)
    BY <1>3 DEF States
  <2>2. Visit(S, o) = K
    BY <1>2, <1>12
  <2>3. \A x \in Object : Count(s, x) = Count(T.kept, x) + One(o, x)
    BY <2>1, CountAppend
  <2> HIDE DEF s
  <2>4. /\ K \in States /\ K.kept = s
        /\ K.todo = T.todo /\ K.things = T.things
        /\ K.releases = T.releases /\ K.room = T.room
    BY <2>1, <1>3 DEF States
  <2> HIDE DEF K
  <2>5. \A x \in Object : Listed(K, G, x) = Listed(T, H, x)
    <3> TAKE x \in Object
    <3>1. /\ Count(T.todo, x) \in Nat /\ Count(T.kept, x) \in Nat
          /\ One(o, x) \in Nat /\ H[x] \in Nat
      BY <1>3, ListedIs, <1>4 DEF One
    <3> HIDE DEF G
    <3> QED BY <3>1, <2>3, <2>4, <1>4 DEF Listed
  <2>6. /\ Held(K, G) /\ Nested(K)
        /\ \A x \in Object : Removed(K, x) <=> Removed(T, x)
    <3>1. \A x \in Object : /\ K.things[x].parent = T.things[x].parent
                            /\ K.things[x].kind = T.things[x].kind
                            /\ K.things[x].refs = T.things[x].refs
                            /\ K.releases[x] = T.releases[x]
      BY <2>4
    <3> QED BY <3>1, <2>4, <2>5, <1>3, <1>6, SameShape
  <2>7. Marked(K, G, {})
    <3> SUFFICES ASSUME NEW x \in Object, K.room, K.things[x].decaying
                 PROVE  \/ Listed(K, G, x) > 0
                        \/ Removed(K, x)
                        \/ DecayTime(K.things[x].kind) = 0 /\ K.things[x].left = 0
      BY DEF Marked
    <3>1. CASE x = o
      <4>1. Listed(T, H, o) > 0
        BY <1>3, ListedIs DEF Listed, Hidden
      <4> QED BY <3>1, <4>1, <2>5
    <3>2. CASE x # o
      BY <3>2, <1>9, <2>4, <2>5, <2>6
    <3> QED BY <3>1, <3>2
  <2> QED BY <2>2, <2>4, <2>6, <2>7 DEF Sound
<1> QED BY <1>10, <1>11, <1>12

\* What checkDecay has done after n entries of the bucket s.
Visiting(z, s) ==
    CHOOSE f : f = [n \in 0..Len(s) |-> IF n = 0 THEN z ELSE Visit(f[n - 1], s[n])]

LEMMA VisitedIs ==
    ASSUME NEW z, NEW s, Len(s) \in Nat
    PROVE  /\ Visiting(z, s)[0] = z
           /\ \A n \in 1..Len(s) : Visiting(z, s)[n] = Visit(Visiting(z, s)[n - 1], s[n])
<1> DEFINE visited == Visiting(z, s)
<1> DEFINE Eqn(f, m) == f = [n \in 0..m |-> IF n = 0 THEN z ELSE Visit(f[n - 1], s[n])]
           A == {m \in Nat : \E f : Eqn(f, m)}
<1>1. 0 \in A
  <2> DEFINE f == [n \in 0..0 |-> z]
  <2>1. Eqn(f, 0)
    OBVIOUS
  <2> QED BY <2>1
<1>2. ASSUME NEW m \in Nat, m \in A PROVE m + 1 \in A
  <2>1. PICK f : Eqn(f, m)
    BY <1>2
  <2> DEFINE g == [n \in 0..(m + 1) |-> IF n <= m THEN f[n] ELSE Visit(f[m], s[n])]
  <2>2. ASSUME NEW n \in 0..(m + 1)
        PROVE  g[n] = IF n = 0 THEN z ELSE Visit(g[n - 1], s[n])
    <3>1. CASE n = 0
      BY <2>1, <3>1
    <3>2. CASE n # 0 /\ n <= m
      <4>1. n - 1 \in 0..(m + 1) /\ n - 1 <= m /\ n \in 0..m
        BY <3>2
      <4>2. g[n - 1] = f[n - 1] /\ g[n] = f[n]
        BY <4>1, <3>2
      <4>3. f[n] = Visit(f[n - 1], s[n])
        BY <2>1, <3>2, <4>1
      <4> QED BY <3>2, <4>2, <4>3
    <3>3. CASE n = m + 1
      <4>1. n - 1 = m /\ n # 0 /\ ~(n <= m) /\ m \in 0..(m + 1) /\ m <= m
        BY <3>3
      <4>2. g[m] = f[m] /\ g[n] = Visit(f[m], s[n])
        BY <4>1, <3>3
      <4> QED BY <4>1, <4>2
    <3> QED BY <3>1, <3>2, <3>3
  <2>3. g = [n \in 0..(m + 1) |-> g[n]]
    OBVIOUS
  <2> HIDE DEF g
  <2>4. Eqn(g, m + 1)
    BY <2>2, <2>3
  <2> QED BY <2>4
<1> HIDE DEF A
<1>3. \E f : Eqn(f, Len(s))
  <2>1. Nat \subseteq A
    BY <1>1, <1>2, SetInduction
  <2> QED BY <2>1 DEF A
<1>4. Eqn(visited, Len(s))
  <2>1. visited = CHOOSE f : Eqn(f, Len(s))
    BY DEF Visiting
  <2> HIDE DEF Eqn
  <2> QED BY <1>3, <2>1
<1>5. 0 \in 0..Len(s) /\ \A n \in 1..Len(s) : n \in 0..Len(s) /\ n # 0
  OBVIOUS
<1> QED BY <1>4, <1>5

\* The hidden entries while the list s of a bucket is visited: those of the other
\* buckets, and those of s that are still to come.
Coming(B, s, n) == [o \in Object |-> InBuckets(B, o) + After(s, n, o)]

LEMMA VisitsSound ==
    ASSUME NEW B \in Lists, NEW s \in Seq(Object), NEW z, NEW visited,
           visited[0] = z, \A n \in 1..Len(s) : visited[n] = Visit(visited[n - 1], s[n]),
           Sound(z, Coming(B, s, 0), Coming(B, s, 0), {})
    PROVE  LET H == Coming(B, s, Len(s)) IN Sound(visited[Len(s)], H, H, {})
<1> DEFINE C(n) == Coming(B, s, n)
           A == {n \in Nat : n <= Len(s) => Sound(visited[n], C(n), C(n), {})}
<1>1. Len(s) \in Nat /\ \A n \in 1..Len(s) : s[n] \in Object
  OBVIOUS
<1>2. 0 \in A
  OBVIOUS
<1>3. ASSUME NEW n \in Nat, n \in A PROVE n + 1 \in A
  <2>1. SUFFICES ASSUME n + 1 <= Len(s)
                 PROVE  Sound(visited[n + 1], C(n + 1), C(n + 1), {})
    OBVIOUS
  <2> DEFINE m == n + 1
             H == C(n)
  <2>2. m \in 1..Len(s) /\ m - 1 = n /\ n <= Len(s)
    BY <2>1, <1>1
  <2>3. s[m] \in Object /\ visited[m] = Visit(visited[n], s[m])
    BY <2>2, <1>1
  <2>4. Sound(visited[n], H, H, {})
    BY <1>3, <2>2
  <2>5. ASSUME NEW o \in Object
        PROVE  /\ InBuckets(B, o) \in Nat /\ After(s, m, o) \in Nat
               /\ After(s, n, o) = After(s, m, o) + One(s[m], o)
               /\ One(s[m], o) \in Nat
    <3>1. InBuckets(B, o) \in Nat
      BY SpotsFinite
    <3>2. After(s, m - 1, o) = After(s, m, o) + One(s[m], o) /\ After(s, m, o) \in Nat
      BY <2>2, AfterSteps
    <3> HIDE DEF m
    <3> QED BY <3>1, <3>2, <2>2 DEF One
  <2> HIDE DEF m
  <2>6. H \in Hidden /\ \A o \in Object : H[o] = InBuckets(B, o) + After(s, n, o)
    BY <2>5 DEF Coming, Hidden
  <2>7. H[s[m]] > 0
    <3>1. One(s[m], s[m]) = 1
      BY DEF One
    <3> QED BY <2>3, <2>5, <2>6, <3>1, SMTT(20), ZenonT(20)
  <2>8. Less(H, s[m]) = C(m)
    <3>1. Less(H, s[m]) \in Hidden /\ \A o \in Object : Less(H, s[m])[o] = H[o] - One(s[m], o)
      BY <2>3, <2>6, <2>7, LessIs
    <3>2. C(m) \in Hidden /\ \A o \in Object : C(m)[o] = InBuckets(B, o) + After(s, m, o)
      BY <2>5 DEF Coming, Hidden
    <3>3. \A o \in Object : Less(H, s[m])[o] = C(m)[o]
      BY <2>5, <2>6, <3>1, <3>2
    <3> QED BY <3>1, <3>2, <3>3 DEF Hidden
  <2> HIDE DEF H
  <2>9. Sound(Visit(visited[n], s[m]), Less(H, s[m]), Less(H, s[m]), {})
    BY <2>3, <2>4, <2>6, <2>7, VisitSound
  <2> QED BY <2>3, <2>8, <2>9 DEF m
<1> HIDE DEF A
<1>4. Len(s) \in A
  BY <1>1, <1>2, <1>3, SetInduction
<1> QED BY <1>1, <1>4 DEF A

-----------------------------------------------------------------------------
(* cleanup.                                                                *)

\* What becomes of one thing when the releases are carried out.
Remains(S, N, H, o) ==
    /\ N[o] \in Thing
    /\ N[o].refs = (IF N[o].parent # None THEN 1 ELSE 0) + Listed(S, H, o)
    /\ N[o].kind = None <=> N[o].refs = 0
    /\ N[o].decaying => /\ S.things[o].decaying /\ N[o].kind = S.things[o].kind
                        /\ N[o].left = S.things[o].left
    /\ N[o].parent \in {S.things[o].parent, None}
    /\ N[o].parent \in Object =>
        /\ N[o].kind = S.things[o].kind
        /\ N[N[o].parent].kind = S.things[N[o].parent].kind

LEMMA UnreferencedIs ==
    ASSUME NEW S, NEW H \in Hidden, Sound(S, H, H, {})
    PROVE  Unreferenced(S) \in [Object -> Thing]
           /\ \A o \in Object : Remains(S, Unreferenced(S), H, o)
<1> DEFINE after == [o \in Object |-> [S.things[o] EXCEPT !.refs = @ - S.releases[o]]]
           deleted == {o \in Object : S.things[o].kind # None /\ after[o].refs = 0}
           inside == {o \in Object : after[o].parent \in deleted}
           N == [o \in Object |->
                    IF o \in deleted \/ (o \in inside /\ after[o].refs = 1) THEN NoThing
                    ELSE IF o \in inside
                    THEN [after[o] EXCEPT !.parent = None, !.refs = @ - 1]
                    ELSE after[o]]
           L(o) == Listed(S, H, o)
<1>0. S \in States /\ Held(S, H) /\ Nested(S)
  BY DEF Sound
<1>1. N = Unreferenced(S)
  BY DEF Unreferenced
<1>2. ASSUME NEW o \in Object
      PROVE  /\ after[o] \in Thing
             /\ after[o].parent = S.things[o].parent /\ after[o].kind = S.things[o].kind
             /\ after[o].decaying = S.things[o].decaying
             /\ after[o].left = S.things[o].left
             /\ after[o].refs = InSome(S, o) + L(o)
             /\ L(o) \in Nat /\ InSome(S, o) \in 0..1
             /\ S.things[o].kind = None => InSome(S, o) + L(o) = 0
  <2> DEFINE old == S.things[o]
             r == old.refs - S.releases[o]
  <2>1. old \in Thing /\ S.releases[o] \in Nat /\ r \in Int /\ old.refs \in Int
    BY <1>0 DEF States, Thing
  <2>2. after[o] = [old EXCEPT !.refs = r]
    OBVIOUS
  <2>3. L(o) \in Nat /\ InSome(S, o) \in 0..1
    BY <1>0, ListedIs
  <2>4. /\ old.refs = InSome(S, o) + L(o) + S.releases[o]
        /\ old.kind = None <=> old.refs = 0
    BY <1>0 DEF Held
  <2> HIDE DEF old, after, L
  <2>5. r = InSome(S, o) + L(o) /\ (old.kind = None => InSome(S, o) + L(o) = 0)
    BY <2>1, <2>3, <2>4
  <2> HIDE DEF r
  <2>6. [old EXCEPT !.refs = r] \in Thing
    BY <2>1 DEF Thing
  <2>7. /\ [old EXCEPT !.refs = r].parent = old.parent
        /\ [old EXCEPT !.refs = r].kind = old.kind
        /\ [old EXCEPT !.refs = r].decaying = old.decaying
        /\ [old EXCEPT !.refs = r].left = old.left
        /\ [old EXCEPT !.refs = r].refs = r
    BY <2>1 DEF Thing
  <2> QED BY <2>2, <2>3, <2>5, <2>6, <2>7 DEF old
<1> HIDE DEF after, L
<1>3. ASSUME NEW o \in Object, o \in deleted PROVE InSome(S, o) = 0 /\ L(o) = 0
  BY <1>2, <1>3
<1>4. ASSUME NEW o \in Object, o \in inside
      PROVE  InSome(S, o) = 1 /\ S.things[o].parent \in deleted /\ o \notin deleted
  <2>1. S.things[o].parent \in deleted
    BY <1>2, <1>4
  <2>2. S.things[o].parent # None
    BY <2>1, DistinctNames
  <2>3. InSome(S, o) = 1
    BY <2>2 DEF InSome
  <2> HIDE DEF deleted
  <2> QED BY <2>1, <2>3, <1>3
<1>5. /\ NoThing \in Thing /\ NoThing.kind = None /\ NoThing.parent = None
      /\ NoThing.refs = 0 /\ NoThing.decaying = FALSE
  BY DEF NoThing, Thing
\* What is inside a thing that stays was not in one that goes.
<1>6. ASSUME NEW o \in Object, S.things[o].parent \in Object, o \notin inside
      PROVE  /\ S.things[o].parent \notin deleted /\ S.things[o].parent \notin inside
             /\ S.things[o].kind # None
  <2>1. S.things[o].parent \notin deleted
    BY <1>2, <1>6
  <2>2. Holder(S.things[S.things[o].parent].kind)
    BY <1>0, <1>6 DEF Nested
  <2>3. S.things[o].parent \notin inside
    <3>1. SUFFICES ASSUME S.things[o].parent \in inside PROVE FALSE
      OBVIOUS
    <3>2. S.things[S.things[o].parent].parent \in deleted
      BY <1>4, <1>6, <3>1
    <3>3. S.things[S.things[o].parent].parent \in Object
      BY <3>2
    <3>4. ~Holder(S.things[S.things[o].parent].kind)
      BY <1>0, <1>6, <3>3 DEF Nested
    <3> QED BY <2>2, <3>4
  <2>4. S.things[o].kind # None
    <3>1. InSome(S, o) = 1
      BY <1>6, DistinctNames DEF InSome
    <3> QED BY <3>1, <1>2
  <2> QED BY <2>1, <2>3, <2>4
<1> HIDE DEF deleted, inside, N
<1>7. ASSUME NEW o \in Object PROVE N[o] \in Thing /\ Remains(S, N, H, o)
  <2>1. CASE o \in deleted
    <3>1. N[o] = NoThing
      BY <2>1 DEF N
    <3>2. Listed(S, H, o) = 0
      BY <2>1, <1>3 DEF L
    <3> QED BY <3>1, <3>2, <1>5, DistinctNames DEF Remains
  <2>2. CASE o \in inside /\ after[o].refs = 1
    <3>1. N[o] = NoThing
      BY <2>2 DEF N
    <3>2. Listed(S, H, o) = 0
      BY <2>2, <1>2, <1>4 DEF L
    <3> QED BY <3>1, <3>2, <1>5, DistinctNames DEF Remains
  <2>3. CASE o \in inside /\ after[o].refs # 1
    <3> DEFINE a == after[o]
               r == a.refs - 1
    <3>1. N[o] = [a EXCEPT !.parent = None, !.refs = r]
      BY <2>3, <1>4 DEF N
    <3>2. a \in Thing /\ r \in Int /\ r = L(o) /\ L(o) \in Nat /\ r # 0
      BY <2>3, <1>2, <1>4 DEF Thing
    <3>3. S.things[o].kind # None
      BY <2>3, <1>2, <1>4
    <3>4. /\ a.kind = S.things[o].kind /\ a.decaying = S.things[o].decaying
          /\ a.left = S.things[o].left
      BY <1>2
    <3> HIDE DEF a, r
    <3>5. [a EXCEPT !.parent = None, !.refs = r] \in Thing
      BY <3>2 DEF Thing
    <3>6. /\ N[o].kind = a.kind /\ N[o].parent = None /\ N[o].decaying = a.decaying
          /\ N[o].left = a.left /\ N[o].refs = r
      BY <3>1, <3>2 DEF Thing
    <3>7. N[o].parent \notin Object
      BY <3>6, DistinctNames
    <3>8. r = 0 + Listed(S, H, o)
      BY <3>2 DEF L
    <3> QED BY <3>1, <3>2, <3>3, <3>4, <3>5, <3>6, <3>7, <3>8 DEF Remains
  <2>4. CASE o \notin deleted /\ o \notin inside
    <3>1. N[o] = after[o]
      BY <2>4 DEF N
    <3>2. N[o].kind = None <=> N[o].refs = 0
      <4>1. S.things[o].kind # None => after[o].refs # 0
        BY <2>4 DEF deleted
      <4> QED BY <3>1, <4>1, <1>2
    <3>3. N[o].refs = (IF N[o].parent # None THEN 1 ELSE 0) + Listed(S, H, o)
      BY <3>1, <1>2 DEF InSome, L
    <3>4. ASSUME N[o].parent \in Object
          PROVE  N[N[o].parent].kind = S.things[N[o].parent].kind
      <4> DEFINE p == S.things[o].parent
      <4>1. N[o].parent = p /\ p \in Object
        BY <3>1, <3>4, <1>2
      <4>2. p \notin deleted /\ p \notin inside
        BY <4>1, <2>4, <1>6
      <4>3. N[p] = after[p]
        BY <4>1, <4>2 DEF N
      <4> HIDE DEF p
      <4> QED BY <4>1, <4>3, <1>2
    <3>5. /\ N[o] \in Thing /\ N[o].parent = S.things[o].parent
          /\ N[o].kind = S.things[o].kind /\ N[o].left = S.things[o].left
          /\ N[o].decaying = S.things[o].decaying
      BY <3>1, <1>2
    <3> QED BY <3>2, <3>3, <3>4, <3>5 DEF Remains
  <2> QED BY <2>1, <2>2, <2>3, <2>4
<1>8. N \in [Object -> Thing]
  <2>1. N = [o \in Object |-> N[o]]
    BY DEF N
  <2> QED BY <2>1, <1>7
<1> QED BY <1>1, <1>7, <1>8

\* Where cleanup puts an item that waited.
Due(S, last, o) == IF S.things[o].left >= 1 THEN last ELSE (last + 1) % Buckets

LEMMA SlotFollows ==
    ASSUME NEW b \in Slots
    PROVE  (b + 1) % Buckets \in Slots
<1>1. Buckets \in Nat \ {0} /\ b + 1 \in Nat
  BY DecayAssumption DEF Slots
<1> QED BY <1>1 DEF Slots

\* f is what the buckets hold after each item that waited.
Sorting(f, S, B, last) ==
    /\ f[0] = B
    /\ \A n \in 1..Len(S.todo) :
        f[n] = With(f[n - 1], Due(S, last, S.todo[n]), S.todo[n])
    /\ Sorted(S, B, last) = f[Len(S.todo)]

LEMMA SortedIs ==
    ASSUME NEW S, NEW B, NEW last, Len(S.todo) \in Nat
    PROVE  \E f : Sorting(f, S, B, last)
<1> DEFINE l == Len(S.todo)
           Step(x, n) == With(x, Due(S, last, S.todo[n]), S.todo[n])
           Eqn(f, m) == f = [n \in 0..m |-> IF n = 0 THEN B ELSE Step(f[n - 1], n)]
           A == {m \in Nat : \E f : Eqn(f, m)}
           sorted == CHOOSE f : Eqn(f, l)
<1>1. Sorted(S, B, last) = sorted[l]
  BY DEF Sorted, Due, With
<1> HIDE DEF sorted
<1>2. 0 \in A
  <2> DEFINE f == [n \in 0..0 |-> B]
  <2>1. Eqn(f, 0)
    OBVIOUS
  <2> QED BY <2>1
<1>3. ASSUME NEW m \in Nat, m \in A PROVE m + 1 \in A
  <2>1. PICK f : Eqn(f, m)
    BY <1>3
  <2> HIDE DEF Step
  <2> DEFINE g == [n \in 0..(m + 1) |-> IF n <= m THEN f[n] ELSE Step(f[m], n)]
  <2>2. ASSUME NEW n \in 0..(m + 1)
        PROVE  g[n] = IF n = 0 THEN B ELSE Step(g[n - 1], n)
    <3>1. CASE n = 0
      BY <2>1, <3>1
    <3>2. CASE n # 0 /\ n <= m
      <4>1. n - 1 \in 0..(m + 1) /\ n - 1 <= m /\ n \in 0..m
        BY <3>2
      <4>2. g[n - 1] = f[n - 1] /\ g[n] = f[n]
        BY <4>1, <3>2
      <4>3. f[n] = Step(f[n - 1], n)
        BY <2>1, <3>2, <4>1
      <4> QED BY <3>2, <4>2, <4>3
    <3>3. CASE n = m + 1
      <4>1. n - 1 = m /\ n # 0 /\ ~(n <= m) /\ m \in 0..(m + 1) /\ m <= m
        BY <3>3
      <4>2. g[m] = f[m] /\ g[n] = Step(f[m], n)
        BY <4>1, <3>3
      <4> QED BY <4>1, <4>2
    <3> QED BY <3>1, <3>2, <3>3
  <2>3. g = [n \in 0..(m + 1) |-> g[n]]
    OBVIOUS
  <2> HIDE DEF g
  <2>4. Eqn(g, m + 1)
    BY <2>2, <2>3
  <2> QED BY <2>4
<1> HIDE DEF A
<1>4. \E f : Eqn(f, l)
  <2>1. Nat \subseteq A
    BY <1>2, <1>3, SetInduction
  <2> QED BY <2>1 DEF A
<1>5. Eqn(sorted, l)
  <2> HIDE DEF Eqn
  <2> QED BY <1>4 DEF sorted
<1>6. 0 \in 0..l /\ \A n \in 1..l : n \in 0..l /\ n # 0
  OBVIOUS
<1> HIDE DEF l, Step
<1>7. sorted[0] = B /\ \A n \in 1..l : sorted[n] = Step(sorted[n - 1], n)
  BY <1>5, <1>6
<1> QED BY <1>1, <1>7 DEF l, Step, Sorting

\* cleanup lists in the buckets what waited, and nothing else.
LEMMA SortedCounts ==
    ASSUME NEW S \in States, NEW B \in Lists, NEW last \in Slots
    PROVE  /\ Sorted(S, B, last) \in Lists
           /\ \A o \in Object :
                InBuckets(Sorted(S, B, last), o) = InBuckets(B, o) + Count(S.todo, o)
<1> DEFINE s == S.todo
           l == Len(s)
<1>1. s \in Seq(Object) /\ l \in Nat /\ \A n \in 1..l : s[n] \in Object
  BY DEF States
<1>0. PICK f : Sorting(f, S, B, last)
  BY <1>1, SortedIs
<1>2. /\ f[0] = B
      /\ \A n \in 1..l : f[n] = With(f[n - 1], Due(S, last, s[n]), s[n])
      /\ Sorted(S, B, last) = f[l]
  BY <1>0 DEF Sorting
<1> HIDE DEF s, l
<1> DEFINE Fine(n) == /\ f[n] \in Lists
                      /\ \A o \in Object :
                            InBuckets(f[n], o) = InBuckets(B, o) + Among(s, n, o)
           A == {n \in Nat : n <= l => Fine(n)}
<1>3. \A o \in Object : InBuckets(B, o) \in Nat
  BY SpotsFinite
<1>4. 0 \in A
  BY <1>1, <1>2, <1>3, AmongSteps
<1>5. ASSUME NEW n \in Nat, n \in A PROVE n + 1 \in A
  <2>1. SUFFICES ASSUME n + 1 <= l PROVE Fine(n + 1)
    OBVIOUS
  <2> DEFINE m == n + 1
             b == Due(S, last, s[m])
  <2>2. m \in 1..l /\ m - 1 = n /\ n <= l
    BY <2>1, <1>1
  <2>3. Fine(n)
    BY <1>5, <2>2
  <2> HIDE DEF m, Fine
  <2>4. b \in Slots /\ s[m] \in Object
    BY <1>1, <2>2, SlotFollows DEF Due
  <2>5. f[m] = With(f[n], b, s[m])
    BY <1>2, <2>2
  <2>6. f[n] \in Lists
    BY <2>3 DEF Fine
  <2> HIDE DEF b
  <2>7. ASSUME NEW o \in Object
        PROVE  f[m] \in Lists /\ InBuckets(f[m], o) = InBuckets(f[n], o) + One(s[m], o)
    BY <2>4, <2>5, <2>6, BucketAppend
  <2>8. ASSUME NEW o \in Object
        PROVE  InBuckets(f[m], o) = InBuckets(B, o) + Among(s, m, o)
    <3>1. /\ Among(s, m, o) = Among(s, m - 1, o) + One(s[m], o)
          /\ Among(s, m - 1, o) \in Nat
      BY <1>1, <2>2, AmongSteps DEF l
    <3>2. InBuckets(f[n], o) = InBuckets(B, o) + Among(s, n, o)
      BY <2>3 DEF Fine
    <3>3. One(s[m], o) \in Nat /\ InBuckets(B, o) \in Nat
      BY <1>3 DEF One
    <3> QED BY <3>1, <3>2, <3>3, <2>2, <2>7
  <2>9. f[m] \in Lists
    BY <2>4, <2>5, <2>6, BucketAppend
  <2> QED BY <2>8, <2>9 DEF Fine, m
<1> HIDE DEF A
<1>6. l \in A
  BY <1>1, <1>4, <1>5, SetInduction
<1>7. Fine(l)
  BY <1>1, <1>6 DEF A
<1>8. \A o \in Object : Among(s, l, o) = Count(s, o)
  BY <1>1, AmongSteps DEF l
<1> QED BY <1>2, <1>7, <1>8 DEF s

-----------------------------------------------------------------------------
(* The invariant.                                                          *)

\* The entries in the buckets, which a method does not see.
InLists == [o \in Object |-> InBuckets(bucket, o)]

DecayInv ==
    /\ bucket \in Lists
    /\ lastBucket \in Slots
    /\ Sound(Now, InLists, InLists, {})

LEMMA InListsHidden ==
    bucket \in Lists => InLists \in Hidden
BY SpotsFinite DEF InLists, Hidden

LEMMA NowIs ==
    /\ Now.things = things /\ Now.todo = todo /\ Now.releases = releases
    /\ Now.kept = <<>> /\ Now.room = TRUE
    /\ \A o \in Object : Count(Now.kept, o) = 0
<1>1. Now.things = things /\ Now.todo = todo /\ Now.releases = releases
      /\ Now.kept = <<>> /\ Now.room = TRUE
  BY DEF Now
<1>2. <<>> \in Seq(Object)
  OBVIOUS
<1> QED BY <1>1, <1>2, CountIs

LEMMA InvFacts ==
    DecayInv => /\ bucket \in Lists /\ lastBucket \in Slots
                /\ InLists \in Hidden /\ Sound(Now, InLists, InLists, {})
                /\ Now \in States /\ Held(Now, InLists) /\ Nested(Now)
                /\ Marked(Now, InLists, {})
BY InListsHidden DEF DecayInv, Sound

\* A handler that leaves the buckets alone.
LEMMA BecomesInv ==
    ASSUME NEW S, DecayInv, Sound(S, InLists, InLists, {}), S.kept = <<>>,
           Becomes(S), UNCHANGED <<bucket, lastBucket>>
    PROVE  DecayInv'
<1>1. S \in States /\ S.room = TRUE
  BY DEF Sound, Becomes, States
<1>2. S = [things |-> things', todo |-> todo', releases |-> releases', kept |-> <<>>,
           room |-> TRUE]
  BY <1>1 DEF States, Becomes
<1>3. Now' = S
  BY <1>2 DEF Now
<1>4. InLists' = InLists
  BY DEF InLists
<1>5. bucket' \in Lists /\ lastBucket' \in Slots
  BY DEF DecayInv
<1> QED BY <1>3, <1>4, <1>5 DEF DecayInv

LEMMA InitInv ==
    DecayInit => DecayInv
<1> SUFFICES ASSUME DecayInit PROVE DecayInv
  OBVIOUS
<1>1. <<>> \in Seq(Object)
  OBVIOUS
<1>2. bucket \in Lists /\ lastBucket \in Slots
  BY <1>1, DecayAssumption DEF DecayInit, Lists, Slots
<1>3. ASSUME NEW o \in Object PROVE InLists[o] = 0
  <2>1. Spots(bucket, o) = {}
    BY DEF Spots, DecayInit
  <2>2. InBuckets(bucket, o) = 0
    BY <2>1, <1>2, SpotsFinite, FS_EmptySet
  <2> QED BY <2>2 DEF InLists
<1>4. Now \in States
  BY <1>1, NowIs DEF DecayInit, Now, States, NoThing, Thing
<1>5. \A o \in Object : /\ things[o] = NoThing /\ releases[o] = 0 /\ Count(todo, o) = 0
                        /\ Listed(Now, InLists, o) = 0
  <2>1. \A o \in Object : Count(<<>>, o) = 0
    BY <1>1, CountIs
  <2> QED BY <2>1, <1>3, NowIs DEF DecayInit, Listed
<1>6. /\ NoThing.kind = None /\ NoThing.refs = 0 /\ NoThing.parent = None
      /\ NoThing.decaying = FALSE
  BY DEF NoThing
<1>7. Held(Now, InLists)
  BY <1>5, <1>6, NowIs DEF Held, InSome
<1>8. Nested(Now) /\ Marked(Now, InLists, {})
  BY <1>5, <1>6, NowIs, DistinctNames DEF Nested, Marked
<1> QED BY <1>2, <1>4, <1>7, <1>8 DEF DecayInv, Sound

LEMMA CreateInv ==
    ASSUME NEW k \in Kind, DecayInv, CreateItem(k)
    PROVE  DecayInv'
<1> DEFINE o == Fresh(Now)
           t == [kind |-> k, parent |-> World, refs |-> 1, decaying |-> FALSE,
                 left |-> DecayTime(k)]
           S == [Now EXCEPT !.things[o] = t]
<1>0. /\ InLists \in Hidden /\ Sound(Now, InLists, InLists, {}) /\ Now \in States
  BY InvFacts
<1>1. \E x \in Object : Now.things[x].kind = None
  <2>1. SUFFICES ASSUME \A x \in Object : things[x].kind # None PROVE FALSE
    BY NowIs
  <2>2. Existing = Object
    BY <2>1 DEF Existing
  <2>3. Cardinality(Object) \in Nat
    BY DecayAssumption, FS_CardinalityType
  <2>4. Cardinality(Existing) * 2 + 2 <= Cardinality(Object)
    BY DEF CreateItem
  <2> QED BY <2>2, <2>3, <2>4
<1>2. o \in Object /\ Now.things[o].kind = None
  BY <1>1 DEF Fresh
<1>3. /\ t \in Thing /\ t.kind = k /\ t.refs = 1 /\ t.decaying = FALSE
      /\ t.parent = World
  BY DecayAssumption DEF Thing
<1>4. Becomes(S) /\ UNCHANGED <<bucket, lastBucket>>
  BY DEF CreateItem
<1> HIDE DEF o, t
<1>5. /\ S \in States /\ S.things[o] = t
      /\ \A x \in Object \ {o} : S.things[x] = Now.things[x]
      /\ S.todo = Now.todo /\ S.kept = Now.kept /\ S.releases = Now.releases
      /\ S.room = Now.room
  BY <1>0, <1>2, <1>3, FieldOfThings
<1> HIDE DEF S
<1>6. Sound(S, InLists, InLists, {})
  BY <1>0, <1>2, <1>3, <1>5, NewSound, DistinctNames
<1> QED BY <1>4, <1>5, <1>6, NowIs, BecomesInv

LEMMA MoveInv ==
    ASSUME NEW o \in Object, DecayInv, MoveItem(o)
    PROVE  DecayInv'
<1>0. /\ InLists \in Hidden /\ Now \in States /\ Held(Now, InLists) /\ Nested(Now)
      /\ Marked(Now, InLists, {})
  BY InvFacts
<1>1. PICK p \in Places(o) \ {things[o].parent} : things' = [things EXCEPT ![o].parent = p]
  BY DEF MoveItem
<1> DEFINE t == [things[o] EXCEPT !.parent = p]
           S == [Now EXCEPT !.things[o] = t]
<1>2. things \in [Object -> Thing]
  BY <1>0, NowIs DEF States
<1>3. p \in Object \cup {World} /\ p # o
  BY <1>1, DecayAssumption DEF Places, Existing
<1>4. things[o].parent # None /\ things[o].kind # None /\ ~Removed(Now, o)
  BY NowIs DEF MoveItem, Removed, Existing
<1>5. /\ t \in Thing /\ t.parent = p /\ t.kind = things[o].kind
      /\ t.refs = things[o].refs /\ t.decaying = things[o].decaying
      /\ t.left = things[o].left
  <2> DEFINE old == things[o]
  <2>1. old \in Thing
    BY <1>2
  <2> HIDE DEF old
  <2>2. [old EXCEPT !.parent = p] \in Thing
    BY <2>1, <1>3 DEF Thing
  <2>3. /\ [old EXCEPT !.parent = p].parent = p
        /\ [old EXCEPT !.parent = p].kind = old.kind
        /\ [old EXCEPT !.parent = p].refs = old.refs
        /\ [old EXCEPT !.parent = p].decaying = old.decaying
        /\ [old EXCEPT !.parent = p].left = old.left
    BY <2>1 DEF Thing
  <2> QED BY <2>2, <2>3 DEF old
<1>6. Becomes(S) /\ UNCHANGED <<bucket, lastBucket>>
  BY <1>1 DEF MoveItem, Becomes, Now
<1> HIDE DEF t
<1>7. /\ S \in States /\ S.things[o] = t
      /\ \A x \in Object \ {o} : S.things[x] = things[x]
      /\ S.todo = Now.todo /\ S.kept = Now.kept /\ S.releases = Now.releases
      /\ S.room = Now.room
  BY <1>0, <1>5, NowIs, FieldOfThings
<1> HIDE DEF S
<1>8. \A x \in Object : Listed(S, InLists, x) = Listed(Now, InLists, x)
  BY <1>7 DEF Listed
<1>9. Held(S, InLists)
  <2> SUFFICES ASSUME NEW x \in Object
               PROVE  /\ S.things[x].refs
                            = InSome(S, x) + Listed(S, InLists, x) + S.releases[x]
                      /\ S.things[x].kind = None <=> S.things[x].refs = 0
    BY DEF Held
  <2>1. /\ things[x].refs = InSome(Now, x) + Listed(Now, InLists, x) + Now.releases[x]
        /\ things[x].kind = None <=> things[x].refs = 0
    BY <1>0, NowIs DEF Held
  <2>2. InSome(S, x) = InSome(Now, x)
    BY <1>3, <1>4, <1>5, <1>7, NowIs, DistinctNames DEF InSome
  <2>3. S.things[x].refs = things[x].refs /\ S.things[x].kind = things[x].kind
    BY <1>5, <1>7
  <2> QED BY <2>1, <2>2, <2>3, <1>7, <1>8
<1>10. Nested(S)
  <2> SUFFICES ASSUME NEW x \in Object, S.things[x].parent \in Object
               PROVE  /\ S.things[S.things[x].parent].kind # None
                      /\ Holder(S.things[S.things[x].parent].kind)
                      /\ ~Holder(S.things[x].kind)
    BY DEF Nested
  <2>1. \A y \in Object : S.things[y].kind = things[y].kind
    BY <1>5, <1>7
  <2>2. CASE x = o
    <3>1. S.things[x].parent = p /\ p \in Object
      BY <2>2, <1>5, <1>7
    <3>2. things[p].kind # None /\ Holder(things[p].kind) /\ ~Holder(things[o].kind)
      BY <1>1, <3>1, DecayAssumption DEF Places, Existing
    <3> QED BY <2>1, <2>2, <3>1, <3>2
  <2>3. CASE x # o
    <3>1. S.things[x].parent = things[x].parent
      BY <2>3, <1>7
    <3> QED BY <3>1, <2>1, <1>0, NowIs DEF Nested
  <2> QED BY <2>2, <2>3
<1>11. Marked(S, InLists, {})
  <2> SUFFICES ASSUME NEW x \in Object, S.room, S.things[x].decaying
               PROVE  \/ Listed(S, InLists, x) > 0
                      \/ Removed(S, x)
                      \/ DecayTime(S.things[x].kind) = 0 /\ S.things[x].left = 0
    BY DEF Marked
  <2>1. /\ S.things[x].kind = things[x].kind /\ S.things[x].left = things[x].left
        /\ things[x].decaying
    BY <1>5, <1>7
  <2>2. \/ Listed(Now, InLists, x) > 0 \/ Removed(Now, x)
        \/ DecayTime(things[x].kind) = 0 /\ things[x].left = 0
    BY <2>1, <1>0, NowIs DEF Marked
  <2>3. Removed(Now, x) => Removed(S, x)
    <3>1. SUFFICES ASSUME Removed(Now, x) PROVE Removed(S, x)
      OBVIOUS
    <3>2. x # o /\ S.things[x].parent = things[x].parent
      BY <3>1, <1>4, <1>7
    <3>3. things[x].parent # o
      BY <3>1, <1>4, NowIs, DecayAssumption DEF Removed
    <3>4. things[x].parent \in Object \cup {World, None}
      BY <1>2 DEF Thing
    <3> QED BY <3>1, <3>2, <3>3, <3>4, <1>7, NowIs DEF Removed
  <2> QED BY <2>1, <2>2, <2>3, <1>8
<1>12. Sound(S, InLists, InLists, {})
  BY <1>7, <1>9, <1>10, <1>11 DEF Sound
<1> QED BY <1>6, <1>7, <1>12, NowIs, BecomesInv

LEMMA DestroyInv ==
    ASSUME NEW o \in Object, DecayInv, DestroyItem(o)
    PROVE  DecayInv'
<1>1. InLists \in Hidden /\ Sound(Now, InLists, InLists, {o}) /\ Now \in States
  BY InvFacts, OpenMark
<1>2. Now.things[o].parent # None
  BY DEF DestroyItem, Removed
<1>3. Sound(RemoveItem(Now, o), InLists, InLists, {})
  BY <1>1, <1>2, RemoveSound
<1>4. RemoveItem(Now, o).kept = <<>>
  BY <1>1, RemoveFields, NowIs
<1>5. Becomes(RemoveItem(Now, o)) /\ UNCHANGED <<bucket, lastBucket>>
  BY DEF DestroyItem
<1> QED BY <1>3, <1>4, <1>5, BecomesInv

LEMMA TurnInv ==
    ASSUME NEW o \in Object, NEW k \in Kind, DecayInv, TurnItem(o, k)
    PROVE  DecayInv'
<1> DEFINE t == TransformItem(Now, o, k)
           S == StartDecay(t.state, o)
<1>1. /\ InLists \in Hidden /\ Sound(Now, InLists, InLists, {o}) /\ Now \in States
      /\ Mends(Now, InLists, o)
  BY InvFacts, OpenMark DEF Mends
<1>2. Now.things[o].parent # None
  BY DEF TurnItem, Removed
<1>3. Exists(Now, o)
  BY <1>1, NowIs DEF TurnItem, Existing, Exists, States, Thing
<1>4. Follows(Now, o, k)
  BY <1>3, NowIs, DecayAssumption DEF TurnItem, Follows, Exists
<1>5. Becomes(S) /\ UNCHANGED <<bucket, lastBucket>>
  BY DEF TurnItem
<1>6. Sound(t.state, InLists, InLists, {}) /\ Exists(t.state, o) /\ t.state.kept = <<>>
  BY <1>1, <1>2, <1>3, <1>4, NowIs, TransformSound
<1> HIDE DEF t
<1>7. Sound(S, InLists, InLists, {}) /\ S.kept = <<>>
  BY <1>1, <1>6, StartDecaySound
<1> QED BY <1>5, <1>7, BecomesInv

LEMMA BeginInv ==
    ASSUME NEW o \in Object, DecayInv, BeginDecay(o)
    PROVE  DecayInv'
<1> DEFINE S == StartDecay(Now, o)
<1>1. InLists \in Hidden /\ Sound(Now, InLists, InLists, {}) /\ Now \in States
  BY InvFacts
<1>2. Exists(Now, o)
  BY <1>1, NowIs DEF BeginDecay, Existing, Exists, States, Thing
<1>3. Becomes(S) /\ UNCHANGED <<bucket, lastBucket>>
  BY DEF BeginDecay
<1>4. Sound(S, InLists, InLists, {}) /\ S.kept = <<>>
  BY <1>1, <1>2, NowIs, StartDecaySound
<1> QED BY <1>3, <1>4, BecomesInv

\* H are the entries of the buckets B without those that S has kept.
LEMMA CleanupInv ==
    ASSUME NEW S, NEW H \in Hidden, Sound(S, H, H, {}), NEW B \in Lists, NEW last \in Slots,
           \A o \in Object : InBuckets(B, o) = H[o] + Count(S.kept, o),
           Cleanup(S, B, last)
    PROVE  DecayInv'
<1>0. S \in States /\ Marked(S, H, {}) /\ Nested(S) /\ S.room
  BY DEF Sound, Cleanup
<1>1. things' \in [Object -> Thing] /\ \A o \in Object : Remains(S, things', H, o)
  BY UnreferencedIs DEF Cleanup
<1>2. bucket' \in Lists /\ lastBucket' \in Slots
  BY <1>0, SortedCounts DEF Cleanup
<1>3. ASSUME NEW o \in Object PROVE InBuckets(bucket', o) = Listed(S, H, o)
  <2>1. InBuckets(bucket', o) = InBuckets(B, o) + Count(S.todo, o)
    BY <1>0, SortedCounts DEF Cleanup
  <2>2. Count(S.todo, o) \in Nat /\ Count(S.kept, o) \in Nat /\ H[o] \in Nat
    BY <1>0, ListedIs DEF Hidden
  <2> QED BY <2>1, <2>2 DEF Listed
<1> DEFINE N == Now'
           G == InLists'
<1>4. /\ N.things = things' /\ N.todo = <<>> /\ N.kept = <<>>
      /\ N.releases = [o \in Object |-> 0]
  BY DEF Now, Cleanup
<1>5. N \in States
  <2>1. <<>> \in Seq(Object) /\ [o \in Object |-> 0] \in [Object -> Nat]
    OBVIOUS
  <2>2. N = [things |-> things', todo |-> <<>>, releases |-> [o \in Object |-> 0],
             kept |-> <<>>, room |-> TRUE]
    BY DEF Now, Cleanup
  <2> HIDE DEF N
  <2> QED BY <1>1, <2>1, <2>2 DEF States
<1>6. ASSUME NEW o \in Object PROVE G[o] = Listed(S, H, o)
  BY <1>3 DEF InLists
<1> HIDE DEF N, G
<1>7. ASSUME NEW o \in Object
      PROVE  /\ Listed(N, G, o) = Listed(S, H, o) /\ Listed(S, H, o) \in Nat
             /\ N.releases[o] = 0
  <2>1. Count(<<>>, o) = 0
    <3>1. <<>> \in Seq(Object)
      OBVIOUS
    <3> QED BY <3>1, CountIs
  <2>2. Listed(S, H, o) \in Nat
    BY <1>0, ListedIs
  <2> QED BY <2>1, <2>2, <1>4, <1>6 DEF Listed
<1>8. Held(N, G)
  <2> SUFFICES ASSUME NEW o \in Object
               PROVE  /\ N.things[o].refs = InSome(N, o) + Listed(N, G, o) + N.releases[o]
                      /\ N.things[o].kind = None <=> N.things[o].refs = 0
    BY DEF Held
  <2>1. InSome(N, o) \in Nat
    BY DEF InSome
  <2> QED BY <2>1, <1>1, <1>4, <1>7 DEF Remains, InSome
<1>9. \A o \in Object : /\ things'[o].parent \in {S.things[o].parent, None}
                        /\ things'[o].parent \in Object =>
                            /\ things'[o].kind = S.things[o].kind
                            /\ things'[things'[o].parent].kind
                                 = S.things[things'[o].parent].kind
                            /\ things'[o].parent = S.things[o].parent
  BY <1>1, DistinctNames DEF Remains
<1>10. Nested(N)
  BY <1>0, <1>4, <1>9 DEF Nested
<1>11. Marked(N, G, {})
  <2> SUFFICES ASSUME NEW o \in Object, N.things[o].decaying
               PROVE  \/ Listed(N, G, o) > 0
                      \/ Removed(N, o)
                      \/ DecayTime(N.things[o].kind) = 0 /\ N.things[o].left = 0
    BY DEF Marked
  <2>1. /\ S.things[o].decaying /\ N.things[o].kind = S.things[o].kind
        /\ N.things[o].left = S.things[o].left
    BY <1>1, <1>4 DEF Remains
  <2>2. Removed(S, o) => Removed(N, o)
    <3>1. S.things[o].parent \in Object \cup {World, None}
      BY <1>0 DEF States, Thing
    <3> QED BY <3>1, <1>4, <1>9 DEF Removed
  <2> QED BY <2>1, <2>2, <1>0, <1>7 DEF Marked
<1>12. Sound(N, G, G, {})
  BY <1>5, <1>8, <1>10, <1>11 DEF Sound
<1> QED BY <1>2, <1>12 DEF DecayInv, N, G

LEMMA CheckInv ==
    ASSUME DecayInv, CheckDecay
    PROVE  DecayInv'
<1> DEFINE b == (lastBucket + 1) % Buckets
           s == bucket[b]
           B == [bucket EXCEPT ![b] = <<>>]
           visited == Visiting(Now, s)
           S == visited[Len(s)]
           H == Coming(B, s, Len(s))
           C == [bucket EXCEPT ![b] = S.kept]
<1>1. /\ bucket \in Lists /\ lastBucket \in Slots
      /\ InLists \in Hidden /\ Sound(Now, InLists, InLists, {})
  BY InvFacts
<1>2. Cleanup(S, C, b)
  BY DEF CheckDecay, Visiting
<1> HIDE DEF visited
<1>3. b \in Slots
  BY <1>1, SlotFollows
<1> HIDE DEF b
<1>4. s \in Seq(Object) /\ Len(s) \in Nat /\ bucket = [bucket EXCEPT ![b] = s]
  BY <1>1, <1>3 DEF Lists
<1> HIDE DEF s
<1>5. visited[0] = Now /\ \A n \in 1..Len(s) : visited[n] = Visit(visited[n - 1], s[n])
  BY <1>4, VisitedIs DEF visited
<1>6. B \in Lists /\ <<>> \in Seq(Object)
  BY <1>1, <1>3 DEF Lists
<1>7. ASSUME NEW o \in Object
      PROVE  /\ InBuckets(bucket, o) = InBuckets(B, o) + After(s, 0, o)
             /\ After(s, Len(s), o) = 0 /\ InBuckets(B, o) \in Nat
  <2>1. InBuckets([bucket EXCEPT ![b] = s], o) = InBuckets(B, o) + Count(s, o)
        /\ InBuckets(B, o) \in Nat
    BY <1>1, <1>3, <1>4, BucketsSplit, SMTT(20), ZenonT(20)
  <2>2. After(s, 0, o) = Count(s, o) /\ After(s, Len(s), o) = 0
    BY <1>4, AfterSteps
  <2> HIDE DEF B
  <2> QED BY <2>1, <2>2, <1>4
<1>8. Coming(B, s, 0) = InLists
  BY <1>7 DEF Coming, InLists
<1>9. H \in Hidden /\ \A o \in Object : H[o] = InBuckets(B, o)
  <2> HIDE DEF B
  <2>1. \A o \in Object : InBuckets(B, o) + After(s, Len(s), o) = InBuckets(B, o)
                          /\ InBuckets(B, o) \in Nat
    BY <1>7
  <2> QED BY <2>1 DEF Coming, Hidden
<1>10. Sound(S, H, H, {})
  <2> HIDE DEF B
  <2>1. Sound(visited[0], Coming(B, s, 0), Coming(B, s, 0), {})
    BY <1>1, <1>5, <1>8
  <2> QED BY <1>4, <1>5, <1>6, <2>1, VisitsSound
<1> HIDE DEF S, H
<1>11. S.kept \in Seq(Object)
  BY <1>10 DEF Sound, States
<1>12. C \in Lists /\ \A o \in Object : InBuckets(C, o) = H[o] + Count(S.kept, o)
  <2>1. C \in Lists
    BY <1>1, <1>3, <1>11 DEF Lists
  <2>2. ASSUME NEW o \in Object
        PROVE  InBuckets(C, o) = InBuckets(B, o) + Count(S.kept, o)
    BY <1>1, <1>3, <1>11, BucketsSplit, SMTT(20), ZenonT(20)
  <2> QED BY <2>1, <2>2, <1>9
<1> HIDE DEF C
<1> QED BY <1>2, <1>3, <1>9, <1>10, <1>12, CleanupInv

LEMMA OtherInv ==
    ASSUME DecayInv, OtherCleanup
    PROVE  DecayInv'
<1>1. /\ bucket \in Lists /\ lastBucket \in Slots
      /\ InLists \in Hidden /\ Sound(Now, InLists, InLists, {})
  BY InvFacts
<1>2. ASSUME NEW o \in Object
      PROVE  InBuckets(bucket, o) = InLists[o] + Count(Now.kept, o)
  <2>1. InBuckets(bucket, o) \in Nat
    BY <1>1, SpotsFinite
  <2> QED BY <2>1, NowIs DEF InLists
<1>3. Cleanup(Now, bucket, lastBucket)
  BY DEF OtherCleanup
<1> QED BY <1>1, <1>2, <1>3, CleanupInv

\* The invariant holds in every state.
LEMMA InvAlways ==
    DecaySpec => []DecayInv
<1>1. DecayInit => DecayInv
  BY InitInv
<1>2. DecayInv /\ [DecayNext]_decayVars => DecayInv'
  <2> SUFFICES ASSUME DecayInv, [DecayNext]_decayVars PROVE DecayInv'
    OBVIOUS
  <2>1. ASSUME NEW k \in Kind, CreateItem(k) PROVE DecayInv'
    BY <2>1, CreateInv
  <2>2. ASSUME NEW o \in Object, NEW k \in Kind, TurnItem(o, k) PROVE DecayInv'
    BY <2>2, TurnInv
  <2>3. ASSUME NEW o \in Object, MoveItem(o) PROVE DecayInv'
    BY <2>3, MoveInv
  <2>4. ASSUME NEW o \in Object, DestroyItem(o) PROVE DecayInv'
    BY <2>4, DestroyInv
  <2>5. ASSUME NEW o \in Object, BeginDecay(o) PROVE DecayInv'
    BY <2>5, BeginInv
  <2>6. CASE CheckDecay
    BY <2>6, CheckInv
  <2>7. CASE OtherCleanup
    BY <2>7, OtherInv
  <2>8. CASE UNCHANGED decayVars
    BY <2>8 DEF decayVars, DecayInv, Now, InLists
  <2> QED BY <2>1, <2>2, <2>3, <2>4, <2>5, <2>6, <2>7, <2>8 DEF DecayNext
<1> QED BY <1>1, <1>2, PTL DEF DecaySpec

-----------------------------------------------------------------------------
(* The theorems.                                                           *)

LEMMA EntriesAreListed ==
    DecayInv => \A o \in Object : EntriesOf(o) = Listed(Now, InLists, o)
                                  /\ EntriesOf(o) \in Nat
<1> SUFFICES ASSUME DecayInv, NEW o \in Object
             PROVE  EntriesOf(o) = Listed(Now, InLists, o) /\ EntriesOf(o) \in Nat
  OBVIOUS
<1>1. Listed(Now, InLists, o) \in Nat
  BY InvFacts, ListedIs
<1>2. Count(todo, o) \in Nat /\ InBuckets(bucket, o) \in Nat
  BY InvFacts, NowIs, ListedIs, SpotsFinite
<1> QED BY <1>1, <1>2, NowIs DEF EntriesOf, Listed, InLists

\* An item has one reference for what holds it, one for each entry in
\* toDecayItems and the buckets and one for each release not yet carried out, and
\* it is deleted when there is none: addRef in startDecay, freeThing and cleanup
\* balance, whatever scripts do to the item between two rounds of checkDecay.
THEOREM AlwaysHeldExactly == DecaySpec => []HeldExactly
<1>1. DecayInv => HeldExactly
  BY InvFacts, EntriesAreListed, NowIs DEF HeldExactly, Held, InSome
<1> QED BY <1>1, InvAlways, PTL

\* An item in the world that is marked as decaying is in toDecayItems or in a
\* bucket: checkDecay and setID never leave a mark behind that would make
\* startDecay pass the item over for ever.
THEOREM MarkedAlwaysListed == DecaySpec => []MarkedIsListed
<1>1. DecayInv => MarkedIsListed
  <2> SUFFICES ASSUME DecayInv, NEW o \in Object, CanDecay(Now, o), things[o].decaying
               PROVE  EntriesOf(o) > 0
    BY DEF MarkedIsListed
  <2>1. ~Removed(Now, o) /\ DecayTime(things[o].kind) # 0
    <3>1. DecayTime(things[o].kind) > 0
      BY NowIs DEF CanDecay, Decays
    <3>2. ~(0 > 0)
      OBVIOUS
    <3> QED BY <3>1, <3>2, NowIs DEF CanDecay
  <2> QED BY <2>1, InvFacts, EntriesAreListed, NowIs DEF Marked
<1> QED BY <1>1, InvAlways, PTL
===========================================================================
