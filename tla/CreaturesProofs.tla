-------------------------- MODULE CreaturesProofs --------------------------
(***************************************************************************)
(* What is proved of Creatures: references are counted exactly, pointers   *)
(* are live, the watchful are awake, who goes is replaced and the dead are *)
(* seen to.                                                                *)
(*                                                                         *)
(* The invariant is said of every state a method may be in (Sound), with   *)
(* the exceptions that hold in the middle of one.  A method that changes   *)
(* only what one monster has in mind is described by Minds, and its lemma  *)
(* says which of the creatures the monster watches afterwards.             *)
(***************************************************************************)
EXTENDS Creatures, FiniteSetTheorems, WellFoundedInduction, TLAPS

-----------------------------------------------------------------------------
(* The invariant.                                                          *)

States ==
    [exists : [Creature -> BOOLEAN], refs : [Creature -> Int],
     place : [Creature -> Place \cup {None}], alive : [Creature -> BOOLEAN],
     master : [Creature -> Creature \cup {None}],
     attacked : [Creature -> Creature \cup {None}],
     summons : [Creature -> SUBSET Monster], targets : [Creature -> SUBSET Creature],
     idle : [Creature -> BOOLEAN], inRange : [Creature -> BOOLEAN],
     home : [Creature -> BOOLEAN], spawned : [Creature -> BOOLEAN],
     checked : [Creature -> BOOLEAN], listed : [Creature -> BOOLEAN],
     releases : [Creature -> Nat], event : BOOLEAN]

One(p) == IF p THEN 1 ELSE 0

In(c, A) == IF c \in A THEN 1 ELSE 0

\* How many of the lists l have c.
Refer(l, c) == Cardinality({d \in Creature : c \in l[d]})

\* References are counted; what is gone has none.
Held(S) ==
    \A c \in Creature :
        /\ S.refs[c] = Refer(S.summons, c) + Refer(S.targets, c) + One(InWorld(S, c))
                       + One(S.listed[c]) + One(S.spawned[c]) + S.releases[c]
        /\ S.refs[c] > 0 => S.exists[c]

\* Masters and summons know each other, a summon has no summons, and is in the
\* world only with its master, except for those of X.
Bonds(S, X) ==
    \A c \in Creature :
        /\ \A d \in Creature : S.master[c] = d <=> c \in S.summons[d]
        /\ S.master[c] # None =>
              /\ S.summons[c] = {}
              /\ c \notin X /\ InWorld(S, c) => InWorld(S, S.master[c])

Aimed(S) ==
    \A c \in Creature : InWorld(S, c) /\ S.attacked[c] # None => Sees(S, c, S.attacked[c])

\* A free address.
Blank(S) ==
    \A c \in Creature :
        ~S.exists[c] => S.attacked[c] = None /\ S.summons[c] = {} /\ ~S.home[c]

\* The spawn knows who is at home there, and looks after the place of who went.
Replaced(S) ==
    \A m \in Monster :
        /\ S.spawned[m] /\ ~InWorld(S, m) => S.event
        /\ S.spawned[m] => S.home[m]
        /\ S.home[m] /\ InWorld(S, m) => S.spawned[m]

\* m is awake for d if d is a foe it sees and m is wild.
Watches(S, m, d) ==
    S.alive[m] /\ S.master[m] = None /\ d \in Near(S, m) /\ Opponent(S, m, d) =>
        d \in S.targets[m] /\ ~S.idle[m] /\ S.checked[m] /\ S.listed[m]

Vigil(S, Y) ==
    \A m \in Monster, d \in Creature : <<m, d>> \notin Y => Watches(S, m, d)

\* Must be checked: a player always, a monster when it is dead.
Due(S, c) == InWorld(S, c) /\ (c \in Player \/ ~S.alive[c])

Waits(S, c) == Due(S, c) /\ S.checked[c] /\ S.listed[c]

\* All who must be checked are, except for those of W.
Awaits(S, W) == \A c \in Creature \ W : Due(S, c) => Waits(S, c)

Sound(S, X, Y, W) ==
    /\ S \in States /\ Held(S) /\ Bonds(S, X) /\ Aimed(S) /\ Blank(S)
    /\ Replaced(S) /\ Vigil(S, Y) /\ Awaits(S, W)

\* What is there is held by something.
Kept(S) == \A c \in Creature : S.exists[c] => S.refs[c] > 0

\* The pairs of monsters with players of D, who lost the flag where they are.
Unseen(D) == Monster \X D

CreaturesInv ==
    /\ Sound(being, {}, Unseen(demoted), {}) /\ Kept(being)
    /\ ignored \in SUBSET Player /\ demoted \in SUBSET Player

-----------------------------------------------------------------------------
(* Counting.                                                               *)

LEMMA CreatureFacts ==
    /\ IsFiniteSet(Creature) /\ Player \subseteq Creature /\ Monster \subseteq Creature
    /\ None \notin Creature /\ None \notin Place /\ Player \cap Monster = {}
BY CreaturesAssumption DEF Creature

LEMMA ReferType ==
    ASSUME NEW l, NEW c
    PROVE  /\ Refer(l, c) \in Nat
           /\ Refer(l, c) = 0 <=> \A d \in Creature : c \notin l[d]
<1> DEFINE D == {d \in Creature : c \in l[d]}
<1>1. IsFiniteSet(D)
  BY CreatureFacts, FS_Subset
<1>2. Refer(l, c) = Cardinality(D)
  BY DEF Refer
<1>3. D = {} <=> \A d \in Creature : c \notin l[d]
  OBVIOUS
<1> HIDE DEF D
<1> QED BY <1>1, <1>2, <1>3, FS_CardinalityType, FS_EmptySet

\* One list is replaced.
ButOne(l, k, m) == m \in Creature /\ \A d \in Creature \ {m} : k[d] = l[d]

LEMMA ReferOne ==
    ASSUME NEW l, NEW k, NEW m, NEW c, ButOne(l, k, m)
    PROVE  Refer(k, c) = Refer(l, c) + In(c, k[m]) - In(c, l[m])
<1> DEFINE D == {d \in Creature : c \in l[d]}
           K == {d \in Creature : c \in k[d]}
<1>1. IsFiniteSet(D) /\ IsFiniteSet(K)
  BY CreatureFacts, FS_Subset
<1>2. Refer(l, c) = Cardinality(D) /\ Refer(k, c) = Cardinality(K)
  BY DEF Refer
<1>3. D \ {m} = K \ {m} /\ (m \in D <=> c \in l[m]) /\ (m \in K <=> c \in k[m])
  BY DEF ButOne
<1> HIDE DEF D, K
<1>4. /\ Cardinality(D) \in Nat /\ Cardinality(K) \in Nat
      /\ Cardinality(D \ {m}) = IF m \in D THEN Cardinality(D) - 1 ELSE Cardinality(D)
      /\ Cardinality(K \ {m}) = IF m \in K THEN Cardinality(K) - 1 ELSE Cardinality(K)
  BY <1>1, FS_CardinalityType, FS_RemoveElement
<1>5. c \in k[m] <=> In(c, k[m]) = 1
  BY DEF In
<1>6. c \in l[m] <=> In(c, l[m]) = 1
  BY DEF In
<1>7. In(c, k[m]) \in {0, 1} /\ In(c, l[m]) \in {0, 1}
  BY DEF In
<1>8. Cardinality(D \ {m}) = Cardinality(K \ {m})
  BY <1>3, Zenon
<1>9. Cardinality(K) = Cardinality(D) + In(c, k[m]) - In(c, l[m])
  BY <1>3, <1>4, <1>5, <1>6, <1>7, <1>8
<1> QED BY <1>2, <1>9

\* The lists of C are emptied; how many of them had c.
Emptied(l, k, C) ==
    C \subseteq Creature /\ \A d \in Creature : k[d] = IF d \in C THEN {} ELSE l[d]

Given(l, C, c) == Cardinality({d \in C : c \in l[d]})

LEMMA ReferLess ==
    ASSUME NEW l, NEW k, NEW C, NEW c, Emptied(l, k, C)
    PROVE  Refer(k, c) = Refer(l, c) - Given(l, C, c) /\ Given(l, C, c) \in Nat
<1> DEFINE D == {d \in Creature : c \in l[d]}
           K == {d \in Creature : c \in k[d]}
           E == {d \in C : c \in l[d]}
<1>1. IsFiniteSet(D) /\ IsFiniteSet(E)
  BY CreatureFacts, FS_Subset DEF Emptied
<1>2. Refer(l, c) = Cardinality(D) /\ Refer(k, c) = Cardinality(K)
  BY DEF Refer
<1>3. K = D \ C /\ E = D \cap C
  BY DEF Emptied
<1>4. Cardinality(D \ C) = Cardinality(D) - Cardinality(D \cap C)
  <2> HIDE DEF D
  <2> QED BY <1>1, FS_Difference
<1>5. Cardinality(E) \in Nat
  <2> HIDE DEF E
  <2> QED BY <1>1, FS_CardinalityType
<1> QED BY <1>2, <1>3, <1>4, <1>5 DEF Given

-----------------------------------------------------------------------------
(* What monsters have in mind.                                             *)

SameBody(S, T) ==
    /\ T.exists = S.exists /\ T.place = S.place /\ T.alive = S.alive
    /\ T.master = S.master /\ T.summons = S.summons /\ T.home = S.home
    /\ T.spawned = S.spawned /\ T.releases = S.releases

\* From S to T only the monsters of M (or a player that is checked) changed
\* their mind.
Minds(S, T, M) ==
    /\ T \in States /\ SameBody(S, T) /\ T.attacked = S.attacked
    /\ S.event => T.event
    /\ \A d \in Creature \ M :
          /\ T.targets[d] = S.targets[d] /\ T.idle[d] = S.idle[d]
          /\ T.checked[d] = S.checked[d] /\ T.listed[d] = S.listed[d]
    /\ \A c \in Creature :
          /\ T.refs[c] = S.refs[c] + (Refer(T.targets, c) - Refer(S.targets, c))
                         + (One(T.listed[c]) - One(S.listed[c]))
          /\ T.targets[c] \subseteq S.targets[c] \cup {d \in Creature : InWorld(S, d)}
          /\ T.listed[c] => S.listed[c] \/ InWorld(S, c)
          /\ Waits(S, c) => Waits(T, c)

LEMMA SameSight ==
    ASSUME NEW S, NEW T, SameBody(S, T)
    PROVE  /\ \A c : InWorld(T, c) <=> InWorld(S, c)
           /\ \A c, d : Sees(T, c, d) <=> Sees(S, c, d)
           /\ \A c : Near(T, c) = Near(S, c)
           /\ \A c, d : Opponent(T, c, d) <=> Opponent(S, c, d)
BY DEF SameBody, InWorld, Sees, Near, Opponent

LEMMA MindsTwice ==
    ASSUME NEW S \in States, NEW T, NEW U, NEW M, NEW N, Minds(S, T, M), Minds(T, U, N)
    PROVE  Minds(S, U, M \cup N)
<1>1. SameBody(S, T) /\ SameBody(T, U) /\ SameBody(S, U)
  BY DEF Minds, SameBody
<1>2. \A c : InWorld(T, c) <=> InWorld(S, c)
  BY <1>1, SameSight
<1>3. ASSUME NEW c \in Creature
      PROVE  /\ S.refs[c] \in Int /\ T.refs[c] \in Int /\ U.refs[c] \in Int
             /\ Refer(S.targets, c) \in Nat /\ Refer(T.targets, c) \in Nat
             /\ Refer(U.targets, c) \in Nat
             /\ One(S.listed[c]) \in Nat /\ One(T.listed[c]) \in Nat /\ One(U.listed[c]) \in Nat
  <2>1. T \in States /\ U \in States
    BY DEF Minds
  <2> QED BY <2>1, ReferType DEF States, One
<1>4. ASSUME NEW c \in Creature
      PROVE  /\ U.refs[c] = S.refs[c] + (Refer(U.targets, c) - Refer(S.targets, c))
                            + (One(U.listed[c]) - One(S.listed[c]))
             /\ U.targets[c] \subseteq S.targets[c] \cup {d \in Creature : InWorld(S, d)}
             /\ U.listed[c] => S.listed[c] \/ InWorld(S, c)
             /\ Waits(S, c) => Waits(U, c)
  <2>1. /\ T.refs[c] = S.refs[c] + (Refer(T.targets, c) - Refer(S.targets, c))
                       + (One(T.listed[c]) - One(S.listed[c]))
        /\ U.refs[c] = T.refs[c] + (Refer(U.targets, c) - Refer(T.targets, c))
                       + (One(U.listed[c]) - One(T.listed[c]))
    BY DEF Minds
  <2>2. U.refs[c] = S.refs[c] + (Refer(U.targets, c) - Refer(S.targets, c))
                    + (One(U.listed[c]) - One(S.listed[c]))
    BY <2>1, <1>3
  <2>3. /\ U.targets[c] \subseteq S.targets[c] \cup {d \in Creature : InWorld(S, d)}
        /\ U.listed[c] => S.listed[c] \/ InWorld(S, c)
        /\ Waits(S, c) => Waits(U, c)
    BY <1>2 DEF Minds
  <2> QED BY <2>2, <2>3
<1>5. \A d \in Creature \ (M \cup N) :
          /\ U.targets[d] = S.targets[d] /\ U.idle[d] = S.idle[d]
          /\ U.checked[d] = S.checked[d] /\ U.listed[d] = S.listed[d]
  BY DEF Minds
<1>6. U \in States /\ U.attacked = S.attacked /\ (S.event => U.event)
  BY DEF Minds
<1> QED BY <1>1, <1>4, <1>5, <1>6 DEF Minds

LEMMA MindsNone ==
    ASSUME NEW S \in States, NEW M PROVE Minds(S, S, M)
<1>1. \A c \in Creature :
        S.refs[c] = S.refs[c] + (Refer(S.targets, c) - Refer(S.targets, c))
                    + (One(S.listed[c]) - One(S.listed[c]))
  BY ReferType DEF States, One
<1> QED BY <1>1 DEF Minds, SameBody

\* All but watchfulness is kept when minds change.
LEMMA MindsSound ==
    ASSUME NEW S, NEW T, NEW M, NEW X, NEW Y, NEW Z, NEW W,
           Sound(S, X, Y, W), Minds(S, T, M), Vigil(T, Z)
    PROVE  Sound(T, X, Z, W)
<1>1. SameBody(S, T) /\ S \in States /\ T \in States
  BY DEF Minds, Sound
<1>2. /\ \A c : InWorld(T, c) <=> InWorld(S, c)
      /\ \A c, d : Sees(T, c, d) <=> Sees(S, c, d)
  BY <1>1, SameSight
<1>3. Held(T)
  <2> SUFFICES ASSUME NEW c \in Creature
               PROVE  /\ T.refs[c] = Refer(T.summons, c) + Refer(T.targets, c)
                           + One(InWorld(T, c)) + One(T.listed[c]) + One(T.spawned[c])
                           + T.releases[c]
                      /\ T.refs[c] > 0 => T.exists[c]
    BY DEF Held
  <2>1. /\ T.summons = S.summons /\ T.spawned[c] = S.spawned[c]
        /\ T.releases[c] = S.releases[c] /\ T.exists[c] = S.exists[c]
    BY <1>1 DEF SameBody
  <2>2. /\ S.refs[c] = Refer(S.summons, c) + Refer(S.targets, c) + One(InWorld(S, c))
                       + One(S.listed[c]) + One(S.spawned[c]) + S.releases[c]
        /\ S.refs[c] > 0 => S.exists[c]
    BY DEF Held, Sound
  <2>3. /\ Refer(S.summons, c) \in Nat /\ Refer(S.targets, c) \in Nat
        /\ Refer(T.targets, c) \in Nat
        /\ One(InWorld(S, c)) \in Nat /\ One(S.listed[c]) \in Nat
        /\ One(T.listed[c]) \in Nat /\ One(S.spawned[c]) \in Nat /\ S.releases[c] \in Nat
    BY <1>1, ReferType DEF One, States
  <2>4. T.refs[c] = S.refs[c] + (Refer(T.targets, c) - Refer(S.targets, c))
                    + (One(T.listed[c]) - One(S.listed[c]))
    BY DEF Minds
  <2>5. One(InWorld(T, c)) = One(InWorld(S, c))
    BY <1>2 DEF One
  <2>6. T.refs[c] = Refer(T.summons, c) + Refer(T.targets, c) + One(InWorld(T, c))
                    + One(T.listed[c]) + One(T.spawned[c]) + T.releases[c]
    BY <2>1, <2>2, <2>3, <2>4, <2>5
  <2>7. ASSUME ~S.exists[c] PROVE T.refs[c] = 0
    <3>1. S.refs[c] = 0
      BY <2>2, <2>3, <2>7
    <3>2. /\ Refer(S.summons, c) = 0 /\ Refer(S.targets, c) = 0 /\ One(InWorld(S, c)) = 0
          /\ One(S.listed[c]) = 0 /\ One(S.spawned[c]) = 0 /\ S.releases[c] = 0
      <4> DEFINE i == Refer(S.summons, c)
                 j == Refer(S.targets, c)
                 k == One(InWorld(S, c))
                 l == One(S.listed[c])
                 n == One(S.spawned[c])
                 r == S.releases[c]
      <4>1. /\ i \in Nat /\ j \in Nat /\ k \in Nat /\ l \in Nat /\ n \in Nat /\ r \in Nat
            /\ i + j + k + l + n + r = 0
        BY <3>1, <2>2, <2>3
      <4> HIDE DEF i, j, k, l, n, r
      <4>2. i = 0 /\ j = 0 /\ k = 0 /\ l = 0 /\ n = 0 /\ r = 0
        BY <4>1
      <4> QED BY <4>2 DEF i, j, k, l, n, r
    <3>3. ~InWorld(S, c) /\ ~S.listed[c]
      BY <3>2 DEF One
    <3>4. Refer(T.targets, c) = 0
      <4>1. \A d \in Creature : c \notin S.targets[d]
        BY <3>2, ReferType
      <4>2. \A d \in Creature : c \notin T.targets[d]
        BY <3>3, <4>1 DEF Minds
      <4> QED BY <4>2, ReferType
    <3>5. One(T.listed[c]) = 0
      BY <3>3, <1>1 DEF Minds, One, States
    <3> QED BY <2>4, <3>1, <3>2, <3>4, <3>5
  <2> QED BY <2>1, <2>6, <2>7
<1>4. Bonds(T, X)
  BY <1>1, <1>2 DEF Bonds, SameBody, Sound
<1>5. Aimed(T)
  BY <1>1, <1>2 DEF Aimed, Minds, Sound
<1>6. Blank(T)
  BY <1>1 DEF Blank, Minds, SameBody, Sound
<1>7. Replaced(T)
  BY <1>1, <1>2 DEF Replaced, Minds, SameBody, Sound
<1>8. Awaits(T, W)
  BY <1>1, <1>2 DEF Awaits, Due, Minds, SameBody, Sound
<1> QED BY <1>1, <1>3, <1>4, <1>5, <1>6, <1>7, <1>8 DEF Sound

\* Nothing of the mind but the targets.
SameMood(S, T) ==
    /\ T.idle = S.idle /\ T.checked = S.checked /\ T.listed = S.listed
    /\ T.inRange = S.inRange /\ T.event = S.event

Take(S, m, C) == [AddRef(S, C) EXCEPT !.targets[m] = @ \cup C]
DropAll(S, m, C) == [UnRef(S, C) EXCEPT !.targets[m] = @ \ C]

\* What a change of the targets of m to B, with its references, comes to.
Retargets(S, T, m, B) ==
    /\ S \in States /\ T \in States /\ m \in Creature /\ B \in SUBSET Creature
    /\ SameBody(S, T) /\ SameMood(S, T) /\ T.attacked = S.attacked
    /\ T.targets = [S.targets EXCEPT ![m] = B]
    /\ \A c \in Creature : T.refs[c] = S.refs[c] + In(c, B)
                                         - In(c, S.targets[m])
    /\ B \subseteq S.targets[m] \cup {d \in Creature : InWorld(S, d)}

LEMMA Retargeted ==
    ASSUME NEW S, NEW T, NEW m, NEW B, Retargets(S, T, m, B)
    PROVE  Minds(S, T, {m}) /\ T.targets[m] = B
<1>0. Retargets(S, T, m, B)
  OBVIOUS
<1> USE <1>0 DEF Retargets
<1>1. \A d \in Creature : T.targets[d] = IF d = m THEN B ELSE S.targets[d]
  BY DEF States
<1>2. ASSUME NEW c \in Creature
      PROVE  T.refs[c] = S.refs[c] + (Refer(T.targets, c) - Refer(S.targets, c))
                         + (One(T.listed[c]) - One(S.listed[c]))
  <2>1. Refer(T.targets, c) = Refer(S.targets, c) + In(c, B)
                                - In(c, S.targets[m])
    <3>1. ButOne(S.targets, T.targets, m) /\ T.targets[m] = B
      BY <1>1 DEF ButOne
    <3>2. Refer(T.targets, c) = Refer(S.targets, c) + In(c, T.targets[m])
                                - In(c, S.targets[m])
      BY ONLY <3>1, ReferOne, Zenon
    <3> QED BY ONLY <3>1, <3>2
  <2>2. T.listed[c] = S.listed[c]
    BY DEF SameMood
  <2>3. /\ Refer(T.targets, c) \in Nat /\ Refer(S.targets, c) \in Nat
        /\ One(S.listed[c]) \in Nat /\ S.refs[c] \in Int
          /\ In(c, B) \in Nat /\ In(c, S.targets[m]) \in Nat
    BY ReferType DEF One, In, States
  <2> QED BY <2>1, <2>2, <2>3
<1>3. \A c \in Creature : Waits(S, c) => Waits(T, c)
  BY DEF Waits, Due, InWorld, SameBody, SameMood
<1> QED BY <1>1, <1>2, <1>3 DEF Minds, SameMood

LEMMA TakeMinds ==
    ASSUME NEW S \in States, NEW m \in Creature, NEW C \in SUBSET Creature,
           \A c \in C : InWorld(S, c) /\ c \notin S.targets[m]
    PROVE  /\ Minds(S, Take(S, m, C), {m}) /\ SameMood(S, Take(S, m, C))
           /\ Take(S, m, C).targets[m] = S.targets[m] \cup C
<1> DEFINE T == Take(S, m, C)
           B == S.targets[m] \cup C
<1>1. /\ T.targets = [S.targets EXCEPT ![m] = B] /\ T.attacked = S.attacked
      /\ T.refs = [c \in Creature |-> S.refs[c] + (IF c \in C THEN 1 ELSE 0)]
      /\ SameBody(S, T) /\ SameMood(S, T)
  BY DEF Take, AddRef, States, SameBody, SameMood
<1>2. T \in States
  <2>1. /\ [S.targets EXCEPT ![m] = B] \in [Creature -> SUBSET Creature]
        /\ [c \in Creature |-> S.refs[c] + (IF c \in C THEN 1 ELSE 0)] \in [Creature -> Int]
    BY DEF States
  <2> QED BY <2>1, <1>1 DEF Take, AddRef, States
<1>3. \A c \in Creature : T.refs[c] = S.refs[c] + In(c, B)
                                              - In(c, S.targets[m])
  BY <1>1 DEF In, States
<1>4. B \in SUBSET Creature /\ B \subseteq S.targets[m] \cup {d \in Creature : InWorld(S, d)}
  BY DEF States
<1> HIDE DEF T, B
<1>5. Retargets(S, T, m, B)
  BY <1>1, <1>2, <1>3, <1>4 DEF Retargets
<1>6. Minds(S, T, {m}) /\ T.targets[m] = B
  BY <1>5, Retargeted
<1> QED BY <1>1, <1>6 DEF T, B

LEMMA DropMinds ==
    ASSUME NEW S \in States, NEW m \in Creature, NEW C \in SUBSET S.targets[m]
    PROVE  /\ Minds(S, DropAll(S, m, C), {m}) /\ SameMood(S, DropAll(S, m, C))
           /\ DropAll(S, m, C).targets[m] = S.targets[m] \ C
<1> DEFINE T == DropAll(S, m, C)
           B == S.targets[m] \ C
<1>1. /\ T.targets = [S.targets EXCEPT ![m] = B] /\ T.attacked = S.attacked
      /\ T.refs = [c \in Creature |-> S.refs[c] - (IF c \in C THEN 1 ELSE 0)]
      /\ SameBody(S, T) /\ SameMood(S, T)
  BY DEF DropAll, UnRef, States, SameBody, SameMood
<1>2. T \in States
  <2>1. /\ [S.targets EXCEPT ![m] = B] \in [Creature -> SUBSET Creature]
        /\ [c \in Creature |-> S.refs[c] - (IF c \in C THEN 1 ELSE 0)] \in [Creature -> Int]
    BY DEF States
  <2> QED BY <2>1, <1>1 DEF DropAll, UnRef, States
<1>3. \A c \in Creature : T.refs[c] = S.refs[c] + In(c, B)
                                              - In(c, S.targets[m])
  BY <1>1 DEF In, States
<1>4. B \in SUBSET Creature /\ B \subseteq S.targets[m] \cup {d \in Creature : InWorld(S, d)}
  BY DEF States
<1> HIDE DEF T, B
<1>5. Retargets(S, T, m, B)
  BY <1>1, <1>2, <1>3, <1>4 DEF Retargets
<1>6. Minds(S, T, {m}) /\ T.targets[m] = B
  BY <1>5, Retargeted
<1> QED BY <1>1, <1>6 DEF T, B

LEMMA ClearMinds ==
    ASSUME NEW S \in States, NEW m \in Creature
    PROVE  /\ Minds(S, ClearTargets(S, m), {m}) /\ SameMood(S, ClearTargets(S, m))
           /\ ClearTargets(S, m).targets[m] = {}
<1>1. ClearTargets(S, m) = DropAll(S, m, S.targets[m])
  <2>1. UnRef(S, S.targets[m]).targets[m] \ S.targets[m] = {}
    BY DEF UnRef, States
  <2> QED BY <2>1 DEF ClearTargets, DropAll
<1> DEFINE C == S.targets[m]
<1>2. C \in SUBSET S.targets[m] /\ S.targets[m] \ C = {}
  OBVIOUS
<1> HIDE DEF C
<1>3. /\ Minds(S, DropAll(S, m, C), {m}) /\ SameMood(S, DropAll(S, m, C))
      /\ DropAll(S, m, C).targets[m] = S.targets[m] \ C
  BY <1>2, DropMinds
<1> QED BY <1>1, <1>2, <1>3 DEF C

LEMMA AddCheckMinds ==
    ASSUME NEW S \in States, NEW c \in Creature
    PROVE  LET T == AddCheck(S, c)
           IN  /\ Minds(S, T, {c}) /\ T.targets = S.targets /\ T.idle = S.idle
               /\ InWorld(S, c) => T.checked[c] /\ T.listed[c]
               /\ S.checked[c] /\ S.listed[c] => T.checked[c] /\ T.listed[c]
<1> DEFINE T == AddCheck(S, c)
<1>1. CASE ~InWorld(S, c)
  BY <1>1, MindsNone DEF AddCheck
<1>2. CASE InWorld(S, c)
  <2> DEFINE R == IF S.listed[c] THEN S.refs
                  ELSE [x \in Creature |-> S.refs[x] + (IF x \in {c} THEN 1 ELSE 0)]
             U == [S EXCEPT !.refs = R]
  <2>0. R \in [Creature -> Int]
    BY DEF States
  <2>1. U = (IF S.listed[c] THEN S ELSE AddRef(S, {c})) /\ U \in States
    BY <2>0 DEF AddRef, States
  <2>2. T = [U EXCEPT !.checked[c] = TRUE, !.listed[c] = TRUE]
    BY <1>2, <2>1 DEF AddCheck
  <2>3. /\ U.refs = R /\ SameBody(S, U) /\ U.attacked = S.attacked /\ U.targets = S.targets
        /\ U.idle = S.idle /\ U.checked = S.checked /\ U.listed = S.listed
        /\ U.event = S.event
    BY DEF States, SameBody
  <2> HIDE DEF U
  <2>a. /\ T.refs = U.refs /\ SameBody(U, T) /\ T.attacked = U.attacked
        /\ T.targets = U.targets /\ T.idle = U.idle /\ T.event = U.event
        /\ T.checked = [U.checked EXCEPT ![c] = TRUE]
        /\ T.listed = [U.listed EXCEPT ![c] = TRUE]
    BY <2>1, <2>2 DEF States, SameBody
  <2>b. T \in States
    <3>1. /\ [U.checked EXCEPT ![c] = TRUE] \in [Creature -> BOOLEAN]
          /\ [U.listed EXCEPT ![c] = TRUE] \in [Creature -> BOOLEAN]
      BY <2>1 DEF States
    <3>2. T = [[U EXCEPT !.checked = [U.checked EXCEPT ![c] = TRUE]]
                    EXCEPT !.listed = [U.listed EXCEPT ![c] = TRUE]]
      BY <2>1, <2>2 DEF States
    <3> QED BY <2>1, <3>1, <3>2, SMTT(20), ZenonT(20) DEF States
  <2>4. /\ T.refs = R /\ SameBody(S, T) /\ T.attacked = S.attacked /\ T.targets = S.targets
        /\ T.idle = S.idle /\ T.checked = [S.checked EXCEPT ![c] = TRUE]
        /\ T.listed = [S.listed EXCEPT ![c] = TRUE] /\ T.event = S.event /\ T \in States
    BY <2>3, <2>a, <2>b DEF SameBody
  <2> HIDE DEF T
  <2>5. ASSUME NEW x \in Creature
        PROVE  T.refs[x] = S.refs[x] + (Refer(T.targets, x) - Refer(S.targets, x))
                           + (One(T.listed[x]) - One(S.listed[x]))
    <3>1. T.listed[x] <=> x = c \/ S.listed[x]
      BY <2>4 DEF States
    <3>2. T.refs[x] = S.refs[x] + (IF x = c /\ ~S.listed[c] THEN 1 ELSE 0)
      BY <2>4 DEF States
    <3>3. Refer(T.targets, x) = Refer(S.targets, x) /\ Refer(S.targets, x) \in Nat
      BY <2>4, ReferType
    <3> QED BY <3>1, <3>2, <3>3 DEF One, States
  <2>6. \A x \in Creature : Waits(S, x) => Waits(T, x)
    BY <2>4 DEF Waits, Due, InWorld, SameBody, States
  <2>7. \A x \in Creature : x # c => T.checked[x] = S.checked[x] /\ T.listed[x] = S.listed[x]
    BY <2>4 DEF States
  <2>8. T.checked[c] /\ T.listed[c]
    BY <2>4 DEF States
  <2> QED BY <1>2, <2>4, <2>5, <2>6, <2>7, <2>8 DEF Minds, T
<1> QED BY <1>1, <1>2

\* A mind change that touches neither targets nor references.
LEMMA MoodMinds ==
    ASSUME NEW S \in States, NEW T \in States, NEW m \in Creature,
           SameBody(S, T), T.attacked = S.attacked, T.targets = S.targets, T.refs = S.refs,
           T.listed = S.listed, S.event => T.event,
           \A d \in Creature \ {m} : T.idle[d] = S.idle[d] /\ T.checked[d] = S.checked[d],
           Waits(S, m) => T.checked[m]
    PROVE  Minds(S, T, {m})
<1>1. \A x \in Creature :
        T.refs[x] = S.refs[x] + (Refer(T.targets, x) - Refer(S.targets, x))
                    + (One(T.listed[x]) - One(S.listed[x]))
  BY ReferType DEF One, States
<1>2. \A x \in Creature : Waits(S, x) => Waits(T, x)
  BY DEF Waits, Due, InWorld, SameBody
<1> QED BY <1>1, <1>2 DEF Minds

-----------------------------------------------------------------------------
(* Each method that changes a mind.                                        *)

Attends(S, T, m) == \A d \in Creature : Watches(S, m, d) => Watches(T, m, d)

\* Nothing to see.
LEMMA Blind ==
    ASSUME NEW S, NEW m, NEW d, ~InWorld(S, m) \/ ~S.alive[m] \/ S.master[m] # None
    PROVE  Watches(S, m, d)
BY DEF Watches, Near, Sees

\* Awake and with d for a target.
LEMMA Awake ==
    ASSUME NEW S, NEW m, NEW d, d \in S.targets[m], ~S.idle[m], S.checked[m], S.listed[m]
    PROVE  Watches(S, m, d)
BY DEF Watches

LEMMA SetIdleMinds ==
    ASSUME NEW S \in States, NEW m \in Monster, NEW b \in BOOLEAN
    PROVE  LET T == SetIdle(S, m, b)
           IN  /\ Minds(S, T, {m})
               /\ ~b => \A d \in S.targets[m] : Watches(T, m, d)
               /\ b /\ (S.master[m] # None \/ S.targets[m] = {}) => Attends(S, T, m)
               /\ ~b => Attends(S, T, m)
<1> DEFINE T == SetIdle(S, m, b)
<1>0. m \in Creature
  BY CreatureFacts
<1>1. CASE ~InWorld(S, m) \/ ~S.alive[m]
  <2>1. T = S
    BY <1>1 DEF SetIdle
  <2>2. \A d : Watches(S, m, d)
    BY <1>1, Blind
  <2> QED BY <2>1, <2>2, MindsNone DEF Attends
<1>2. CASE InWorld(S, m) /\ S.alive[m] /\ b
  <2> DEFINE C == ClearTargets(S, m)
             I == [C EXCEPT !.idle[m] = TRUE]
  <2>1. T = RemoveCheck(I, m)
    BY <1>2 DEF SetIdle
  <2>2. Minds(S, C, {m}) /\ SameMood(S, C) /\ C \in States
    BY <1>0, ClearMinds DEF Minds
  <2> HIDE DEF C
  <2>3. /\ I \in States /\ SameBody(C, I) /\ I.attacked = C.attacked /\ I.targets = C.targets
        /\ I.refs = C.refs /\ I.listed = C.listed /\ I.event = C.event
        /\ I.checked = C.checked /\ I.idle = [C.idle EXCEPT ![m] = TRUE]
    <3>1. [C.idle EXCEPT ![m] = TRUE] \in [Creature -> BOOLEAN]
      BY <2>2 DEF States
    <3>2. I = [C EXCEPT !.idle = [C.idle EXCEPT ![m] = TRUE]]
      BY <2>2 DEF States
    <3> QED BY <2>2, <3>1, <3>2 DEF States, SameBody
  <2> HIDE DEF I
  <2> DEFINE K == [I.checked EXCEPT ![m] = I.checked[m] /\ ~I.listed[m]]
  <2>4. /\ T \in States /\ SameBody(I, T) /\ T.attacked = I.attacked /\ T.targets = I.targets
        /\ T.refs = I.refs /\ T.listed = I.listed /\ T.event = I.event
        /\ T.checked = K /\ T.idle = I.idle
    <3>1. K \in [Creature -> BOOLEAN]
      BY <2>3 DEF States
    <3>2. T = [I EXCEPT !.checked = K]
      BY <2>1, <2>3 DEF RemoveCheck, States
    <3> QED BY <2>3, <3>1, <3>2, SMTT(20), ZenonT(20) DEF States, SameBody
  <2> HIDE DEF T
  <2>5. /\ SameBody(C, T) /\ T.attacked = C.attacked /\ T.targets = C.targets
        /\ T.refs = C.refs /\ T.listed = C.listed /\ (C.event => T.event)
    BY <2>3, <2>4 DEF SameBody
  <2>6. \A d \in Creature \ {m} : T.idle[d] = C.idle[d] /\ T.checked[d] = C.checked[d]
    BY <1>0, <2>2, <2>3, <2>4 DEF States
  <2>7. ~Waits(C, m)
    BY <1>2, <2>2, CreatureFacts DEF Minds, SameBody, Waits, Due
  <2>8. Minds(C, T, {m})
    BY <1>0, <2>2, <2>4, <2>5, <2>6, <2>7, MoodMinds
  <2>9. Minds(S, T, {m} \cup {m}) /\ {m} \cup {m} = {m}
    BY <2>2, <2>8, MindsTwice
  <2>10. SameBody(S, T)
    BY <2>9 DEF Minds
  <2>11. ASSUME S.master[m] # None \/ S.targets[m] = {} PROVE Attends(S, T, m)
    <3>1. CASE S.master[m] # None
      BY <2>10, <3>1, Blind DEF Attends, SameBody
    <3>2. CASE S.targets[m] = {}
      <4>1. /\ T.alive = S.alive /\ T.master = S.master
            /\ \A d : (d \in Near(T, m) <=> d \in Near(S, m))
            /\ \A d : (Opponent(T, m, d) <=> Opponent(S, m, d))
        BY <2>10, SameSight DEF SameBody
      <4> QED BY <3>2, <4>1 DEF Attends, Watches
    <3> QED BY <2>11, <3>1, <3>2
  <2> QED BY <1>2, <2>9, <2>11 DEF T
<1>3. CASE InWorld(S, m) /\ S.alive[m] /\ ~b
  <2> DEFINE I == [S EXCEPT !.idle[m] = FALSE]
  <2>1. T = AddCheck(I, m)
    BY <1>3 DEF SetIdle
  <2>2. /\ I \in States /\ SameBody(S, I) /\ I.attacked = S.attacked /\ I.targets = S.targets
        /\ I.refs = S.refs /\ I.listed = S.listed /\ I.event = S.event
        /\ I.checked = S.checked /\ I.idle = [S.idle EXCEPT ![m] = FALSE]
    <3>1. [S.idle EXCEPT ![m] = FALSE] \in [Creature -> BOOLEAN]
      BY DEF States
    <3>2. I = [S EXCEPT !.idle = [S.idle EXCEPT ![m] = FALSE]]
      BY DEF States
    <3> QED BY <3>1, <3>2 DEF States, SameBody
  <2> HIDE DEF I
  <2>3. /\ \A d \in Creature \ {m} : I.idle[d] = S.idle[d] /\ I.checked[d] = S.checked[d]
        /\ Waits(S, m) => I.checked[m]
        /\ ~I.idle[m] /\ InWorld(I, m)
    BY <1>0, <1>3, <2>2 DEF States, Waits, Due, InWorld, SameBody
  <2>4. Minds(S, I, {m})
    BY <1>0, <2>2, <2>3, MoodMinds
  <2>5. /\ Minds(I, T, {m}) /\ T.targets = I.targets /\ T.idle = I.idle
        /\ T.checked[m] /\ T.listed[m]
    BY <1>0, <2>1, <2>2, <2>3, AddCheckMinds
  <2> HIDE DEF T
  <2>6. Minds(S, T, {m} \cup {m}) /\ {m} \cup {m} = {m}
    BY <2>4, <2>5, MindsTwice
  <2>7. \A d \in S.targets[m] : Watches(T, m, d)
    BY <2>2, <2>3, <2>5, Awake
  <2>8. Attends(S, T, m)
    <3>1. SameBody(S, T) /\ T.targets = S.targets /\ ~T.idle[m] /\ T.checked[m] /\ T.listed[m]
      BY <2>2, <2>3, <2>5, <2>6 DEF Minds
    <3>2. /\ T.alive = S.alive /\ T.master = S.master
          /\ \A d : (d \in Near(T, m) <=> d \in Near(S, m))
          /\ \A d : (Opponent(T, m, d) <=> Opponent(S, m, d))
      BY <3>1, SameSight DEF SameBody
    <3> QED BY <3>1, <3>2 DEF Attends, Watches
  <2> QED BY <1>3, <2>6, <2>7, <2>8 DEF T
<1> QED BY <1>1, <1>2, <1>3

LEMMA UpdateIdleMinds ==
    ASSUME NEW S \in States, NEW m \in Monster
    PROVE  LET T == UpdateIdle(S, m)
           IN  /\ Minds(S, T, {m}) /\ Attends(S, T, m)
               /\ \A d \in S.targets[m] : Watches(T, m, d)
<1> DEFINE l == S.master[m]
           b == IF l # None THEN ~S.inRange[m] \/ (l \in Monster /\ S.idle[l])
                ELSE S.targets[m] = {}
           T == SetIdle(S, m, b)
<1>0. UpdateIdle(S, m) = T
  BY DEF UpdateIdle
<1>1. b \in BOOLEAN
  BY CreatureFacts DEF States
<1>2. b => S.master[m] # None \/ S.targets[m] = {}
  OBVIOUS
<1>3. l = None => (~b <=> S.targets[m] # {})
  OBVIOUS
<1> HIDE DEF b
<1>4. /\ Minds(S, T, {m})
      /\ ~b => \A d \in S.targets[m] : Watches(T, m, d)
      /\ Attends(S, T, m)
  BY <1>1, <1>2, SetIdleMinds
<1> HIDE DEF T
<1>5. ASSUME NEW d \in S.targets[m] PROVE Watches(T, m, d)
  <2>1. CASE l = None
    BY <1>3, <1>4, <2>1
  <2>2. CASE l # None
    <3>1. T.master[m] # None
      BY <1>4, <2>2 DEF Minds, SameBody
    <3> QED BY <3>1, Blind
  <2> QED BY <2>1, <2>2
<1> QED BY <1>0, <1>4, <1>5

\* A monster that watches everything but d after one mind change watches as
\* much after another.
LEMMA AttendsTwice ==
    ASSUME NEW S, NEW T, NEW U, NEW m, Attends(S, T, m), Attends(T, U, m)
    PROVE  Attends(S, U, m)
BY DEF Attends

\* More targets, the same mood: as watchful if the monster was awake or is
\* looked after by updateIdleStatus; said of the targets kept.
LEMMA Keeps ==
    ASSUME NEW S, NEW T, NEW m, NEW d, Minds(S, T, {m}), SameMood(S, T),
           Watches(S, m, d), d \in S.targets[m] => d \in T.targets[m]
    PROVE  Watches(T, m, d)
<1>1. SameBody(S, T)
  BY DEF Minds
<1>2. /\ T.alive = S.alive /\ T.master = S.master
      /\ d \in Near(T, m) <=> d \in Near(S, m)
      /\ Opponent(T, m, d) <=> Opponent(S, m, d)
      /\ T.idle = S.idle /\ T.checked = S.checked /\ T.listed = S.listed
  BY <1>1, SameSight DEF SameBody, SameMood
<1> QED BY <1>2 DEF Watches

LEMMA FoundMinds ==
    ASSUME NEW S \in States, NEW m \in Monster, NEW c \in Creature, InWorld(S, c)
    PROVE  LET T == Found(S, m, c)
           IN  Minds(S, T, {m}) /\ Attends(S, T, m) /\ Watches(T, m, c)
<1> DEFINE T == Found(S, m, c)
           new == Opponent(S, m, c) /\ c \notin S.targets[m]
           K == Take(S, m, {c})
<1>0. m \in Creature
  BY CreatureFacts
<1>1. CASE new
  <2>1. T = UpdateIdle(K, m)
    BY <1>1 DEF Found, Take
  <2>2. {c} \in SUBSET Creature /\ \A x \in {c} : InWorld(S, x) /\ x \notin S.targets[m]
    BY <1>1
  <2>3. Minds(S, K, {m}) /\ SameMood(S, K) /\ K.targets[m] = S.targets[m] \cup {c}
    BY <1>0, <2>2, TakeMinds
  <2>4. K \in States
    BY <2>3 DEF Minds
  <2> HIDE DEF K
  <2>5. Attends(S, K, m)
    BY <2>3, Keeps DEF Attends
  <2>6. /\ Minds(K, T, {m}) /\ Attends(K, T, m) /\ Watches(T, m, c)
    BY <2>1, <2>3, <2>4, UpdateIdleMinds
  <2> HIDE DEF T
  <2>7. Minds(S, T, {m} \cup {m}) /\ {m} \cup {m} = {m}
    BY <2>3, <2>6, MindsTwice
  <2> QED BY <2>5, <2>6, <2>7, AttendsTwice DEF T
<1>2. CASE ~new
  <2>1. T = UpdateIdle(S, m)
    BY <1>2 DEF Found
  <2>2. /\ Minds(S, T, {m}) /\ Attends(S, T, m)
        /\ \A d \in S.targets[m] : Watches(T, m, d)
    BY <2>1, UpdateIdleMinds
  <2>3. Watches(T, m, c)
    <3>1. CASE c \in S.targets[m]
      BY <2>2, <3>1
    <3>2. CASE ~Opponent(S, m, c)
      <4>1. Watches(S, m, c)
        BY <3>2 DEF Watches
      <4> QED BY <2>2, <4>1 DEF Attends
    <3> QED BY <1>2, <3>1, <3>2
  <2> QED BY <2>2, <2>3
<1> QED BY <1>1, <1>2

LEMMA UpdateTargetsMinds ==
    ASSUME NEW S \in States, NEW m \in Monster
    PROVE  LET T == UpdateTargets(S, m)
           IN  Minds(S, T, {m}) /\ \A d \in Creature : Watches(T, m, d)
<1> DEFINE lost == {c \in S.targets[m] : ~S.alive[c] \/ ~Sees(S, m, c)}
           K == DropAll(S, m, lost)
           found == {c \in Near(K, m) : Opponent(K, m, c)} \ K.targets[m]
           L == Take(K, m, found)
           T == UpdateTargets(S, m)
<1>0. m \in Creature
  BY CreatureFacts
<1>1. T = IF Near(K, m) = {} THEN K ELSE UpdateIdle(L, m)
  BY DEF UpdateTargets, DropAll, Take
<1>2. lost \in SUBSET S.targets[m]
  OBVIOUS
<1> HIDE DEF lost
<1>3. Minds(S, K, {m}) /\ K \in States
  BY <1>0, <1>2, DropMinds DEF Minds
<1> HIDE DEF K
<1>4. CASE Near(K, m) = {}
  BY <1>1, <1>3, <1>4 DEF Watches
<1>5. CASE Near(K, m) # {}
  <2>1. /\ found \in SUBSET Creature
        /\ \A c \in found : InWorld(K, c) /\ c \notin K.targets[m]
    BY DEF Near, Sees, InWorld
  <2>2. \A c \in Near(K, m) : Opponent(K, m, c) => c \in K.targets[m] \cup found
    OBVIOUS
  <2> HIDE DEF found
  <2>3. Minds(K, L, {m}) /\ L.targets[m] = K.targets[m] \cup found /\ L \in States
    BY <1>0, <1>3, <2>1, TakeMinds DEF Minds
  <2> HIDE DEF L
  <2>4. T = UpdateIdle(L, m)
    BY <1>1, <1>5
  <2>5. /\ Minds(L, T, {m}) /\ \A d \in L.targets[m] : Watches(T, m, d)
    BY <2>3, <2>4, UpdateIdleMinds
  <2> HIDE DEF T
  <2>6. Minds(K, T, {m} \cup {m}) /\ {m} \cup {m} = {m}
    BY <1>3, <2>3, <2>5, MindsTwice
  <2>7. Minds(S, T, {m} \cup {m})
    BY <1>3, <2>6, MindsTwice
  <2>8. ASSUME NEW d \in Creature PROVE Watches(T, m, d)
    <3>1. CASE d \in L.targets[m]
      BY <2>5, <3>1
    <3>2. CASE d \notin L.targets[m]
      <4>1. ~(d \in Near(K, m) /\ Opponent(K, m, d))
        BY <2>2, <2>3, <3>2
      <4>2. SameBody(K, T)
        BY <2>6 DEF Minds
      <4>3. ~(d \in Near(T, m) /\ Opponent(T, m, d))
        BY <4>1, <4>2, SameSight
      <4> QED BY <4>3 DEF Watches
    <3> QED BY <3>1, <3>2
  <2> QED BY <2>6, <2>7, <2>8 DEF T
<1> QED BY <1>4, <1>5

\* isMasterInRange is set.
LEMMA InRangeMinds ==
    ASSUME NEW S \in States, NEW m \in Creature, NEW b \in BOOLEAN
    PROVE  LET T == [S EXCEPT !.inRange[m] = b]
           IN  Minds(S, T, {m}) /\ Attends(S, T, m)
<1> DEFINE T == [S EXCEPT !.inRange[m] = b]
<1>1. /\ T \in States /\ SameBody(S, T) /\ T.attacked = S.attacked /\ T.targets = S.targets
      /\ T.refs = S.refs /\ T.listed = S.listed /\ T.event = S.event
      /\ T.checked = S.checked /\ T.idle = S.idle
  <2>1. [S.inRange EXCEPT ![m] = b] \in [Creature -> BOOLEAN]
    BY DEF States
  <2>2. T = [S EXCEPT !.inRange = [S.inRange EXCEPT ![m] = b]]
    BY DEF States
  <2> QED BY <2>1, <2>2 DEF States, SameBody
<1> HIDE DEF T
<1>2. Waits(S, m) => T.checked[m]
  BY <1>1 DEF Waits
<1>3. Minds(S, T, {m})
  BY <1>1, <1>2, MoodMinds
<1>4. Attends(S, T, m)
  <2>1. /\ T.alive = S.alive /\ T.master = S.master
        /\ \A d : (d \in Near(T, m) <=> d \in Near(S, m))
        /\ \A d : (Opponent(T, m, d) <=> Opponent(S, m, d))
    BY <1>1, SameSight DEF SameBody
  <2> QED BY <1>1, <2>1 DEF Attends, Watches
<1> QED BY <1>3, <1>4 DEF T

LEMMA LookMinds ==
    ASSUME NEW S \in States, NEW m \in Creature
    PROVE  Minds(S, LookForMaster(S, m), {m})
<1>1. Sees(S, m, S.master[m]) \in BOOLEAN
  BY DEF Sees, InWorld
<1> QED BY <1>1, MindsNone, InRangeMinds DEF LookForMaster

\* c comes into sight, or leaves it, and may be the master.
Ranged(S, m, b, c) == IF S.master[m] = c THEN UpdateIdle([S EXCEPT !.inRange[m] = b], m) ELSE S

LEMMA RangeMinds ==
    ASSUME NEW S \in States, NEW m \in Monster, NEW b \in BOOLEAN, NEW c
    PROVE  Minds(S, Ranged(S, m, b, c), {m}) /\ Attends(S, Ranged(S, m, b, c), m)
<1> DEFINE K == [S EXCEPT !.inRange[m] = b]
           T == UpdateIdle(K, m)
<1>1. Minds(S, K, {m}) /\ Attends(S, K, m) /\ K \in States
  BY CreatureFacts, InRangeMinds DEF Minds
<1> HIDE DEF K
<1>2. Minds(K, T, {m}) /\ Attends(K, T, m)
  BY <1>1, UpdateIdleMinds
<1> HIDE DEF T
<1>3. Minds(S, T, {m} \cup {m}) /\ {m} \cup {m} = {m}
  BY <1>1, <1>2, MindsTwice
<1>4. Minds(S, T, {m}) /\ Attends(S, T, m)
  BY <1>1, <1>2, <1>3, AttendsTwice
<1>5. Minds(S, S, {m}) /\ Attends(S, S, m)
  BY MindsNone DEF Attends
<1> QED BY <1>4, <1>5 DEF Ranged, T, K

LEMMA EnterMinds ==
    ASSUME NEW S \in States, NEW m \in Monster, NEW c \in Creature, InWorld(S, c)
    PROVE  LET T == Enter(S, m, c)
           IN  Minds(S, T, {m}) /\ Attends(S, T, m) /\ Watches(T, m, c)
<1> DEFINE K == Ranged(S, m, TRUE, c)
           T == Found(K, m, c)
<1>1. T = Enter(S, m, c)
  BY DEF Enter, Ranged
<1>2. Minds(S, K, {m}) /\ Attends(S, K, m) /\ K \in States
  <2>1. Minds(S, K, {m}) /\ Attends(S, K, m)
    BY RangeMinds
  <2> QED BY <2>1 DEF Minds
<1> HIDE DEF K
<1>3. InWorld(K, c)
  BY <1>2 DEF Minds, SameBody, InWorld
<1>4. Minds(K, T, {m}) /\ Attends(K, T, m) /\ Watches(T, m, c)
  BY <1>2, <1>3, FoundMinds
<1> HIDE DEF T
<1>5. Minds(S, T, {m} \cup {m}) /\ {m} \cup {m} = {m}
  BY <1>2, <1>4, MindsTwice
<1>6. Minds(S, T, {m}) /\ Attends(S, T, m) /\ Watches(T, m, c)
  BY <1>2, <1>4, <1>5, AttendsTwice
<1> QED BY <1>1, <1>6

LEMMA LeaveMinds ==
    ASSUME NEW S \in States, NEW m \in Monster, NEW c \in Creature
    PROVE  LET T == Leave(S, m, c)
           IN  /\ Minds(S, T, {m})
               /\ \A d \in Creature \ {c} : Watches(S, m, d) => Watches(T, m, d)
<1> DEFINE K == Ranged(S, m, FALSE, c)
           C == {c}
           L == DropAll(K, m, C)
           T == IF ~Opponent(K, m, c) \/ c \notin K.targets[m] THEN K
                ELSE IF L.targets[m] = {} THEN UpdateIdle(L, m) ELSE L
<1>1. T = Leave(S, m, c)
  BY DEF Leave, DropAll, Ranged
<1>2. Minds(S, K, {m}) /\ Attends(S, K, m) /\ K \in States
  <2>1. Minds(S, K, {m}) /\ Attends(S, K, m)
    BY RangeMinds
  <2> QED BY <2>1 DEF Minds
<1> HIDE DEF K
<1>3. CASE ~Opponent(K, m, c) \/ c \notin K.targets[m]
  BY <1>1, <1>2, <1>3 DEF Attends
<1>4. CASE ~(~Opponent(K, m, c) \/ c \notin K.targets[m])
  <2>1. C \in SUBSET K.targets[m] /\ m \in Creature
    BY <1>4, CreatureFacts
  <2> HIDE DEF C
  <2>0. K \in States
    BY <1>2
  <2>2. Minds(K, L, {m}) /\ SameMood(K, L) /\ L.targets[m] = K.targets[m] \ C
    BY ONLY <2>0, <2>1, DropMinds, SMTT(20), ZenonT(20)
  <2>3. L \in States
    BY <2>2 DEF Minds
  <2> HIDE DEF L
  <2>4. ASSUME NEW d \in Creature \ {c}, Watches(K, m, d) PROVE Watches(L, m, d)
    BY <2>2, <2>4, Keeps DEF C
  <2>5. Minds(S, L, {m} \cup {m}) /\ {m} \cup {m} = {m}
    BY <1>2, <2>2, MindsTwice
  <2>6. Minds(L, UpdateIdle(L, m), {m}) /\ Attends(L, UpdateIdle(L, m), m)
    BY <2>3, UpdateIdleMinds
  <2> DEFINE U == UpdateIdle(L, m)
  <2>7. T = IF L.targets[m] = {} THEN U ELSE L
    BY <1>4
  <2> HIDE DEF U, T
  <2>8. Minds(S, U, {m} \cup {m})
    BY <2>5, <2>6, MindsTwice DEF U
  <2>9. /\ Minds(S, T, {m})
        /\ \A d \in Creature \ {c} : Watches(S, m, d) => Watches(T, m, d)
    BY <1>2, <2>4, <2>5, <2>6, <2>7, <2>8 DEF Attends, U
  <2> QED BY <1>1, <2>9 DEF T
<1> QED BY <1>3, <1>4

-----------------------------------------------------------------------------
(* Sound states.                                                           *)

SameMind(S, T) ==
    /\ T.targets = S.targets /\ T.idle = S.idle /\ T.checked = S.checked
    /\ T.listed = S.listed

LEMMA HeldTypes ==
    ASSUME NEW S \in States, NEW c \in Creature
    PROVE  /\ S.refs[c] \in Int /\ S.releases[c] \in Nat
           /\ Refer(S.summons, c) \in Nat /\ Refer(S.targets, c) \in Nat
           /\ One(InWorld(S, c)) \in Nat /\ One(S.listed[c]) \in Nat
           /\ One(S.spawned[c]) \in Nat
BY ReferType DEF One, States

\* What nobody refers to.
LEMMA Unreferenced ==
    ASSUME NEW S \in States, Held(S), NEW c \in Creature, S.refs[c] <= 0
    PROVE  /\ ~InWorld(S, c) /\ ~S.listed[c] /\ ~S.spawned[c] /\ S.releases[c] = 0
           /\ S.refs[c] = 0
           /\ \A d \in Creature : c \notin S.summons[d] /\ c \notin S.targets[d]
<1> DEFINE i == Refer(S.summons, c)
           j == Refer(S.targets, c)
           k == One(InWorld(S, c))
           l == One(S.listed[c])
           n == One(S.spawned[c])
           r == S.releases[c]
           s == S.refs[c]
<1>1. /\ i \in Nat /\ j \in Nat /\ k \in Nat /\ l \in Nat /\ n \in Nat /\ r \in Nat
      /\ s \in Int /\ s = i + j + k + l + n + r /\ s <= 0
  BY HeldTypes DEF Held
<1> HIDE DEF i, j, k, l, n, r, s
<1>2. i = 0 /\ j = 0 /\ k = 0 /\ l = 0 /\ n = 0 /\ r = 0 /\ s = 0
  BY <1>1
<1>3. ~InWorld(S, c) /\ ~S.listed[c] /\ ~S.spawned[c]
  BY <1>2 DEF k, l, n, One
<1>4. \A d \in Creature : c \notin S.summons[d] /\ c \notin S.targets[d]
  BY <1>2, ReferType DEF i, j
<1> QED BY <1>2, <1>3, <1>4 DEF r, s

LEMMA NotThere ==
    ASSUME NEW S \in States, Held(S), NEW c \in Creature, ~S.exists[c]
    PROVE  /\ ~InWorld(S, c) /\ ~S.listed[c] /\ ~S.spawned[c] /\ S.releases[c] = 0
           /\ S.refs[c] = 0
           /\ \A d \in Creature : c \notin S.summons[d] /\ c \notin S.targets[d]
<1>1. S.refs[c] <= 0
  BY HeldTypes DEF Held
<1> QED BY <1>1, Unreferenced

LEMMA ThereExists ==
    ASSUME NEW S \in States, Held(S), NEW c \in Creature, InWorld(S, c)
    PROVE  S.exists[c]
BY NotThere

\* Exceptions that are none.
ByOne(m) == {m} \X Creature

LEMMA SoundBlind ==
    ASSUME NEW S, NEW X, NEW Y, NEW W, NEW m, Sound(S, X, Y \cup ByOne(m), W),
           ~InWorld(S, m) \/ ~S.alive[m] \/ S.master[m] # None
    PROVE  Sound(S, X, Y, W)
<1>1. Vigil(S, Y)
  BY Blind DEF Sound, Vigil, ByOne
<1> QED BY <1>1 DEF Sound

\* The pairs of c with monsters of U, which are not aware of one another.
Unaware(c, U) == {p \in U \X Creature : p[1] = c \/ p[2] = c}

LEMMA SoundGone ==
    ASSUME NEW S, NEW X, NEW Y, NEW W, NEW c, Sound(S, X, Y \cup Unaware(c, Monster), W),
           ~InWorld(S, c)
    PROVE  Sound(S, X, Y, W)
<1>1. ASSUME NEW m \in Monster, NEW d \in Creature, <<m, d>> \notin Y
      PROVE  Watches(S, m, d)
  <2>1. CASE m = c
    BY <2>1, Blind
  <2>2. CASE d = c
    BY <2>2 DEF Watches, Near, Sees, InWorld
  <2>3. CASE m # c /\ d # c
    BY <1>1, <2>3 DEF Sound, Vigil, Unaware
  <2> QED BY <2>1, <2>2, <2>3
<1> QED BY <1>1 DEF Sound, Vigil

LEMMA SoundWeaker ==
    ASSUME NEW S, NEW X, NEW Y, NEW Z, NEW W, Sound(S, X, Y, W), Y \subseteq Z
    PROVE  Sound(S, X, Z, W)
BY DEF Sound, Vigil

-----------------------------------------------------------------------------
(* Whom creatures attack.                                                  *)

Aim(S, f) == [S EXCEPT !.attacked = f]

Aims(S, f) ==
    /\ f \in [Creature -> Creature \cup {None}]
    /\ \A d \in Creature : f[d] = None \/ f[d] = S.attacked[d] \/ Sees(S, d, f[d])

LEMMA AimSound ==
    ASSUME NEW S, NEW X, NEW Y, NEW W, NEW f, Sound(S, X, Y, W), Aims(S, f)
    PROVE  /\ Sound(Aim(S, f), X, Y, W) /\ SameBody(S, Aim(S, f)) /\ SameMind(S, Aim(S, f))
           /\ Aim(S, f).attacked = f /\ Aim(S, f).event = S.event
<1> DEFINE T == Aim(S, f)
<1>0. S \in States /\ Held(S) /\ f \in [Creature -> Creature \cup {None}]
  BY DEF Sound, Aims
<1>1. /\ T \in States /\ SameBody(S, T) /\ SameMind(S, T) /\ T.attacked = f
      /\ T.event = S.event /\ T.refs = S.refs
  BY <1>0 DEF Aim, States, SameBody, SameMind
<1> HIDE DEF T
<1>2. /\ \A c : InWorld(T, c) <=> InWorld(S, c)
      /\ \A c, d : Sees(T, c, d) <=> Sees(S, c, d)
      /\ \A c, d : d \in Near(T, c) <=> d \in Near(S, c)
      /\ \A c, d : Opponent(T, c, d) <=> Opponent(S, c, d)
  BY <1>1, SameSight
<1>3. Held(T)
  <2>1. \A c : One(InWorld(T, c)) = One(InWorld(S, c))
    BY <1>2 DEF One
  <2> QED BY <1>0, <1>1, <2>1 DEF Held, SameBody, SameMind
<1>4. Bonds(T, X)
  BY <1>1, <1>2 DEF Bonds, SameBody, Sound
<1>5. Aimed(T)
  BY <1>1, <1>2 DEF Aimed, Aims, Sound
<1>6. Blank(T)
  <2> SUFFICES ASSUME NEW c \in Creature, ~S.exists[c] PROVE f[c] = None
    BY <1>1 DEF Blank, SameBody, Sound
  <2>1. ~InWorld(S, c) /\ S.attacked[c] = None
    BY <1>0, NotThere DEF Blank, Sound
  <2> QED BY <2>1 DEF Aims, Sees
<1>7. Replaced(T)
  BY <1>1, <1>2 DEF Replaced, SameBody, Sound
<1>8. Vigil(T, Y)
  <2>1. \A m, d : Watches(S, m, d) => Watches(T, m, d)
    BY <1>1, <1>2 DEF Watches, SameBody, SameMind
  <2> QED BY <2>1 DEF Vigil, Sound
<1>9. Awaits(T, W)
  BY <1>1, <1>2 DEF Awaits, Waits, Due, SameBody, SameMind, Sound
<1> QED BY <1>1, <1>3, <1>4, <1>5, <1>6, <1>7, <1>8, <1>9 DEF Sound, T

LEMMA SetAttackedSound ==
    ASSUME NEW S, NEW X, NEW Y, NEW W, Sound(S, X, Y, W),
           NEW c \in Creature, NEW t \in Creature \cup {None}
    PROVE  LET T == SetAttacked(S, c, t)
           IN  Sound(T, X, Y, W) /\ SameBody(S, T) /\ SameMind(S, T) /\ T.event = S.event
<1> DEFINE Ordered(d) == t = None \/ Sees(S, d, t)
           f == [d \in Creature |->
                    IF d = c \/ (d \in S.summons[c] /\ Ordered(c))
                    THEN IF Ordered(d) THEN t ELSE None
                    ELSE S.attacked[d]]
<1>1. SetAttacked(S, c, t) = Aim(S, f)
  BY DEF SetAttacked, Aim
<1>2. Aims(S, f)
  BY DEF Aims, Sound, States
<1> HIDE DEF f
<1> QED BY <1>1, <1>2, AimSound

LEMMA SelectTargetSound ==
    ASSUME NEW S, NEW X, NEW Y, NEW W, Sound(S, X, Y, W), NEW m \in Creature, NEW t
    PROVE  LET T == SelectTarget(S, m, t)
           IN  Sound(T, X, Y, W) /\ SameBody(S, T) /\ SameMind(S, T) /\ T.event = S.event
<1>1. CASE t \in S.targets[m] /\ Sees(S, m, t)
  <2>1. t \in Creature
    BY <1>1 DEF Sound, States
  <2>2. SelectTarget(S, m, t) = SetAttacked(S, m, t)
    BY <1>1 DEF SelectTarget
  <2> QED BY <2>1, <2>2, SetAttackedSound
<1>2. CASE ~(t \in S.targets[m] /\ Sees(S, m, t))
  BY <1>2 DEF SelectTarget, SameBody, SameMind
<1> QED BY <1>1, <1>2

LEMMA ForgetTargetSound ==
    ASSUME NEW S, NEW X, NEW Y, NEW W, Sound(S, X, Y, W),
           NEW c \in Creature, NEW C \in SUBSET Creature
    PROVE  LET T == ForgetTarget(S, C, c)
           IN  /\ Sound(T, X, Y, W) /\ SameBody(S, T) /\ SameMind(S, T)
               /\ T.event = S.event
               /\ \A d \in C : T.attacked[d] # c
               /\ \A d \in Creature : T.attacked[d] \in {None, S.attacked[d]}
<1> DEFINE those == {d \in C : S.attacked[d] = c}
           f == [d \in Creature |->
                    IF \E l \in those : d = l \/ d \in S.summons[l] THEN None
                    ELSE S.attacked[d]]
<1>1. ForgetTarget(S, C, c) = Aim(S, f)
  BY DEF ForgetTarget, Aim
<1>2. Aims(S, f)
  BY DEF Aims, Sound, States
<1>3. \A d \in C : f[d] # c
  BY CreatureFacts
<1>4. \A d \in Creature : f[d] \in {None, S.attacked[d]}
  OBVIOUS
<1> HIDE DEF f
<1>5. Aim(S, f).attacked = f
  BY <1>2, AimSound
<1> QED BY <1>1, <1>2, <1>3, <1>4, <1>5, AimSound

-----------------------------------------------------------------------------
(* Summons.                                                                *)

\* The fields that summons have nothing to do with.
SameStanding(S, T) ==
    /\ T.exists = S.exists /\ T.place = S.place /\ T.home = S.home
    /\ T.spawned = S.spawned /\ T.releases = S.releases /\ T.event = S.event

LEMMA RemoveSummonSound ==
    ASSUME NEW S, NEW X, NEW Y, NEW W, Sound(S, X, Y, W),
           NEW l \in Creature, NEW m \in Creature
    PROVE  LET T == RemoveSummon(S, l, m)
           IN  /\ Sound(T, X, Y \cup ByOne(m), W)
               /\ SameStanding(S, T) /\ SameMind(S, T) /\ T.alive = S.alive
               /\ T.attacked = S.attacked
               /\ \A d \in Creature : T.summons[d] = IF d = l THEN S.summons[d] \ {m}
                                                     ELSE S.summons[d]
               /\ \A d \in Creature : T.master[d] = IF d = m /\ m \in S.summons[l] THEN None
                                                    ELSE S.master[d]
<1> DEFINE T == RemoveSummon(S, l, m)
           Z == Y \cup ByOne(m)
           R == [c \in Creature |-> S.refs[c] - (IF c \in {m} THEN 1 ELSE 0)]
           M == [S.master EXCEPT ![m] = None]
           L == [S.summons EXCEPT ![l] = S.summons[l] \ {m}]
<1>0. S \in States
  BY DEF Sound
<1>1. CASE m \notin S.summons[l]
  <2>1. T = S
    BY <1>1 DEF RemoveSummon
  <2>2. \A d \in Creature : S.summons[d] = IF d = l THEN S.summons[d] \ {m} ELSE S.summons[d]
    BY <1>1
  <2>3. Sound(S, X, Z, W)
    BY SoundWeaker
  <2> HIDE DEF Z
  <2> QED BY <1>1, <2>1, <2>2, <2>3 DEF SameStanding, SameMind, Z
<1>2. CASE m \in S.summons[l]
  <2>1. R \in [Creature -> Int] /\ M \in [Creature -> Creature \cup {None}]
        /\ L \in [Creature -> SUBSET Monster]
    BY <1>0 DEF States
  <2>2. T = [[[S EXCEPT !.refs = R] EXCEPT !.master = M] EXCEPT !.summons = L]
    BY <1>0, <1>2 DEF RemoveSummon, UnRef, States
  <2>3. T \in States
    BY <1>0, <2>1, <2>2 DEF States
  <2>4. /\ SameStanding(S, T) /\ SameMind(S, T) /\ T.alive = S.alive
        /\ T.attacked = S.attacked /\ T.refs = R /\ T.master = M /\ T.summons = L
    BY <1>0, <2>2 DEF States, SameStanding, SameMind
  <2>5. /\ \A d \in Creature : T.summons[d] = IF d = l THEN S.summons[d] \ {m} ELSE S.summons[d]
        /\ \A d \in Creature : T.master[d] = IF d = m THEN None ELSE S.master[d]
        /\ \A d \in Creature : T.refs[d] = S.refs[d] - In(d, {m})
    BY <1>0, <2>4 DEF States, In
  <2> HIDE DEF T, R, M, L
  <2>6. /\ \A c : InWorld(T, c) <=> InWorld(S, c)
        /\ \A c, d : Sees(T, c, d) <=> Sees(S, c, d)
        /\ \A c, d : d \in Near(T, c) <=> d \in Near(S, c)
    BY <2>4 DEF InWorld, Sees, Near, SameStanding
  <2>7. Held(T)
    <3> SUFFICES ASSUME NEW c \in Creature
                 PROVE  /\ T.refs[c] = Refer(T.summons, c) + Refer(T.targets, c)
                             + One(InWorld(T, c)) + One(T.listed[c]) + One(T.spawned[c])
                             + T.releases[c]
                        /\ T.refs[c] > 0 => T.exists[c]
      BY DEF Held
    <3>1. ButOne(S.summons, T.summons, l)
      BY <2>5 DEF ButOne
    <3>2. Refer(T.summons, c) = Refer(S.summons, c) + In(c, T.summons[l])
                                - In(c, S.summons[l])
      BY ONLY <3>1, ReferOne, Zenon
    <3>3. In(c, T.summons[l]) - In(c, S.summons[l]) = 0 - In(c, {m})
          /\ In(c, T.summons[l]) \in Nat /\ In(c, S.summons[l]) \in Nat /\ In(c, {m}) \in Nat
      <4>1. c \in T.summons[l] <=> c \in S.summons[l] /\ c # m
        BY <2>5
      <4>2. c \in {m} <=> c = m
        OBVIOUS
      <4> QED BY ONLY <1>2, <4>1, <4>2 DEF In
    <3>4. /\ S.refs[c] = Refer(S.summons, c) + Refer(S.targets, c) + One(InWorld(S, c))
                         + One(S.listed[c]) + One(S.spawned[c]) + S.releases[c]
          /\ S.refs[c] > 0 => S.exists[c]
      BY DEF Held, Sound
    <3>5. /\ T.listed[c] = S.listed[c] /\ T.spawned[c] = S.spawned[c]
          /\ T.releases[c] = S.releases[c] /\ T.exists[c] = S.exists[c]
          /\ T.targets = S.targets /\ One(InWorld(T, c)) = One(InWorld(S, c))
      BY <2>4, <2>6 DEF SameStanding, SameMind, One
    <3>6. T.refs[c] = S.refs[c] - In(c, {m})
      BY <2>5
    <3>7. /\ S.refs[c] \in Int /\ S.releases[c] \in Nat
          /\ Refer(S.summons, c) \in Nat /\ Refer(S.targets, c) \in Nat
          /\ One(InWorld(S, c)) \in Nat /\ One(S.listed[c]) \in Nat
          /\ One(S.spawned[c]) \in Nat
      BY <1>0, HeldTypes
    <3> QED BY ONLY <3>2, <3>3, <3>4, <3>5, <3>6, <3>7
  <2>8. Bonds(T, X)
    <3>1. Bonds(S, X)
      BY DEF Sound
    <3>2. S.master[m] = l
      BY <1>2, <3>1 DEF Bonds
    <3>3. ASSUME NEW c \in Creature, NEW d \in Creature
          PROVE  T.master[c] = d <=> c \in T.summons[d]
      <4>1. S.master[c] = d <=> c \in S.summons[d]
        BY <3>1 DEF Bonds
      <4>2. T.master[c] = IF c = m THEN None ELSE S.master[c]
        BY <2>5
      <4>3. c \in T.summons[d] <=> c \in S.summons[d] /\ ~(d = l /\ c = m)
        BY <2>5
      <4>4. CASE c = m
        BY <3>2, <4>1, <4>2, <4>3, <4>4, CreatureFacts
      <4>5. CASE c # m
        BY <4>1, <4>2, <4>3, <4>5
      <4> QED BY <4>4, <4>5
    <3>4. ASSUME NEW c \in Creature, T.master[c] # None
          PROVE  T.summons[c] = {} /\ (c \notin X /\ InWorld(T, c) => InWorld(T, T.master[c]))
      <4>1. c # m /\ T.master[c] = S.master[c]
        BY <2>5, <3>4
      <4>2. S.summons[c] = {} /\ (c \notin X /\ InWorld(S, c) => InWorld(S, S.master[c]))
        BY <3>1, <3>4, <4>1 DEF Bonds
      <4> QED BY <2>5, <2>6, <4>1, <4>2
    <3> QED BY <3>3, <3>4 DEF Bonds
  <2>9. Aimed(T)
    BY <2>4, <2>6 DEF Aimed, Sound
  <2>10. Blank(T)
    <3>1. Blank(S) /\ T.exists = S.exists /\ T.home = S.home
      BY <2>4 DEF Sound, SameStanding
    <3> QED BY <2>4, <2>5, <3>1 DEF Blank
  <2>11. Replaced(T)
    BY <2>4, <2>6 DEF Replaced, SameStanding, Sound
  <2>12. Vigil(T, Z)
    <3>1. ASSUME NEW x \in Monster, NEW d \in Creature, x # m, Watches(S, x, d)
          PROVE  Watches(T, x, d)
      <4>1. Opponent(T, x, d) => Opponent(S, x, d)
        BY <2>5, <3>1, CreatureFacts DEF Opponent
      <4>2. T.master[x] = S.master[x]
        BY <2>5, <3>1, CreatureFacts
      <4> QED BY <2>4, <2>6, <3>1, <4>1, <4>2 DEF Watches, SameMind
    <3> QED BY <3>1 DEF Vigil, Sound, ByOne
  <2>13. Awaits(T, W)
    BY <2>4, <2>6 DEF Awaits, Waits, Due, SameMind, Sound
  <2>14. Sound(T, X, Z, W)
    BY <2>3, <2>7, <2>8, <2>9, <2>10, <2>11, <2>12, <2>13 DEF Sound
  <2> QED BY <1>2, <2>4, <2>5, <2>14 DEF T
<1> QED BY <1>1, <1>2

LEMMA ReleaseSound ==
    ASSUME NEW S, NEW X, NEW Y, NEW W, Sound(S, X, Y, W), NEW m \in Creature
    PROVE  LET T == Release(S, m)
           IN  /\ Sound(T, X, Y \cup ByOne(m), W)
               /\ SameStanding(S, T) /\ SameMind(S, T) /\ T.alive = S.alive
               /\ T.attacked = S.attacked /\ T.master[m] = None
               /\ \A d \in Creature : d # m => T.master[d] = S.master[d]
<1>1. CASE S.master[m] = None
  <2>1. Sound(S, X, Y \cup ByOne(m), W)
    BY SoundWeaker
  <2> QED BY <1>1, <2>1 DEF Release, SameStanding, SameMind
<1>2. CASE S.master[m] # None
  <2> DEFINE l == S.master[m]
             T == RemoveSummon(S, l, m)
  <2>0. Sound(S, X, Y, W) /\ m \in Creature
    OBVIOUS
  <2>1. Release(S, m) = T
    BY <1>2 DEF Release
  <2>2. l \in Creature
    BY <1>2 DEF Sound, States
  <2>3. m \in S.summons[l]
    BY <2>2 DEF Sound, Bonds
  <2> HIDE DEF l
  <2>4. /\ Sound(T, X, Y \cup ByOne(m), W)
        /\ SameStanding(S, T) /\ SameMind(S, T) /\ T.alive = S.alive
        /\ T.attacked = S.attacked
        /\ \A d \in Creature : T.master[d] = IF d = m /\ m \in S.summons[l] THEN None
                                             ELSE S.master[d]
    BY ONLY <2>0, <2>2, RemoveSummonSound
  <2> HIDE DEF T
  <2>5. T.master[m] = None /\ \A d \in Creature : d # m => T.master[d] = S.master[d]
    BY <2>3, <2>4
  <2> QED BY <2>1, <2>4, <2>5
<1> QED BY <1>1, <1>2

\* Who wakes up when C is hurt or healed.
Woken(S, C) == {m \in C \cap Monster : InWorld(S, m) /\ S.alive[m]}

\* The fields that hurting C leaves, and the others.
SameExcept(S, T, C) ==
    /\ SameStanding(S, T) /\ T.targets = S.targets /\ T.attacked = S.attacked
    /\ T.master = S.master /\ T.summons = S.summons
    /\ \A d \in Creature \ C : T.alive[d] = S.alive[d]

LEMMA ChangeHealthSound ==
    ASSUME NEW S, NEW X, NEW Y, NEW W, Sound(S, X, Y, W), NEW C \in SUBSET Creature,
           NEW lives \in BOOLEAN
    PROVE  LET T == ChangeHealth(S, C, lives)
           IN  /\ Sound(T, X, Y, W) /\ SameExcept(S, T, C)
               /\ \A d \in C : ~lives => ~T.alive[d]
<1> DEFINE T == ChangeHealth(S, C, lives)
           woken == Woken(S, C)
           R == [d \in Creature |->
                    S.refs[d] + (IF d \in {m \in woken : ~S.listed[m]} THEN 1 ELSE 0)]
           I == [d \in Creature |-> S.idle[d] /\ d \notin woken]
           K == [d \in Creature |-> S.checked[d] \/ d \in woken]
           L == [d \in Creature |-> S.listed[d] \/ d \in woken]
           A == [d \in Creature |-> S.alive[d] /\ (d \in C => lives)]
<1>0. S \in States
  BY DEF Sound
<1>1. /\ R \in [Creature -> Int] /\ I \in [Creature -> BOOLEAN]
      /\ K \in [Creature -> BOOLEAN] /\ L \in [Creature -> BOOLEAN]
      /\ A \in [Creature -> BOOLEAN]
  BY <1>0 DEF States
<1>2. T = [[[[[S EXCEPT !.refs = R] EXCEPT !.idle = I] EXCEPT !.checked = K]
            EXCEPT !.listed = L] EXCEPT !.alive = A]
  BY <1>0 DEF ChangeHealth, Woken, AddRef, States
<1>3. \A d \in Creature :
        /\ R[d] = S.refs[d] + (IF d \in woken /\ ~S.listed[d] THEN 1 ELSE 0)
        /\ I[d] <=> S.idle[d] /\ d \notin woken
        /\ K[d] <=> S.checked[d] \/ d \in woken
        /\ L[d] <=> S.listed[d] \/ d \in woken
        /\ A[d] <=> S.alive[d] /\ (d \in C => lives)
  OBVIOUS
<1>4. \A d \in woken : d \in Monster /\ InWorld(S, d) /\ S.alive[d]
  BY DEF Woken
<1>5. \A d \in C \cap Monster : InWorld(S, d) /\ S.alive[d] => d \in woken
  BY DEF Woken
<1> HIDE DEF R, I, K, L, A, woken
<1>6. T \in States
  BY <1>0, <1>1, <1>2, SMTT(20), ZenonT(20) DEF States
<1>7. /\ SameStanding(S, T) /\ T.targets = S.targets /\ T.attacked = S.attacked
      /\ T.master = S.master /\ T.summons = S.summons /\ T.refs = R /\ T.idle = I
      /\ T.checked = K /\ T.listed = L /\ T.alive = A
  BY <1>0, <1>2 DEF States, SameStanding
<1> HIDE DEF T
<1>8. /\ \A d : InWorld(T, d) <=> InWorld(S, d)
      /\ \A d, e : Sees(T, d, e) <=> Sees(S, d, e)
      /\ \A d, e : e \in Near(T, d) <=> e \in Near(S, d)
      /\ \A d, e : Opponent(T, d, e) <=> Opponent(S, d, e)
  BY <1>7 DEF InWorld, Sees, Near, Opponent, SameStanding
<1>9. Held(T)
  <2> SUFFICES ASSUME NEW d \in Creature
               PROVE  /\ T.refs[d] = Refer(T.summons, d) + Refer(T.targets, d)
                           + One(InWorld(T, d)) + One(T.listed[d]) + One(T.spawned[d])
                           + T.releases[d]
                      /\ T.refs[d] > 0 => T.exists[d]
    BY DEF Held
  <2>1. /\ S.refs[d] = Refer(S.summons, d) + Refer(S.targets, d) + One(InWorld(S, d))
                       + One(S.listed[d]) + One(S.spawned[d]) + S.releases[d]
        /\ S.refs[d] > 0 => S.exists[d]
    BY DEF Held, Sound
  <2>2. /\ S.refs[d] \in Int /\ S.releases[d] \in Nat
        /\ Refer(S.summons, d) \in Nat /\ Refer(S.targets, d) \in Nat
        /\ One(InWorld(S, d)) \in Nat /\ One(S.listed[d]) \in Nat
        /\ One(S.spawned[d]) \in Nat
    BY <1>0, HeldTypes
  <2>3. /\ T.spawned[d] = S.spawned[d] /\ T.releases[d] = S.releases[d]
        /\ T.exists[d] = S.exists[d] /\ T.targets = S.targets /\ T.summons = S.summons
        /\ One(InWorld(T, d)) = One(InWorld(S, d))
    BY <1>7, <1>8 DEF SameStanding, One
  <2>4. CASE d \in woken /\ ~S.listed[d]
    <3>1. T.refs[d] = S.refs[d] + 1 /\ One(T.listed[d]) = 1 /\ One(S.listed[d]) = 0
      BY <1>3, <1>7, <2>4 DEF One
    <3>2. S.exists[d]
      BY <1>0, <1>4, <2>4, ThereExists DEF Sound
    <3> QED BY <2>1, <2>2, <2>3, <3>1, <3>2
  <2>5. CASE ~(d \in woken /\ ~S.listed[d])
    <3>1. T.refs[d] = S.refs[d] + 0 /\ One(T.listed[d]) = One(S.listed[d])
      BY <1>3, <1>7, <2>5 DEF One
    <3> QED BY <2>1, <2>2, <2>3, <3>1
  <2> QED BY <2>4, <2>5
<1>10. Bonds(T, X)
  BY <1>7, <1>8 DEF Bonds, Sound
<1>11. Aimed(T)
  BY <1>7, <1>8 DEF Aimed, Sound
<1>12. Blank(T)
  BY <1>7 DEF Blank, Sound, SameStanding
<1>13. Replaced(T)
  BY <1>7, <1>8 DEF Replaced, Sound, SameStanding
<1>14. Vigil(T, Y)
  <2>1. ASSUME NEW m \in Monster, NEW d \in Creature, Watches(S, m, d)
        PROVE  Watches(T, m, d)
    <3>1. m \in Creature
      BY CreatureFacts
    <3>2. /\ T.alive[m] => S.alive[m]
          /\ S.checked[m] => T.checked[m]
          /\ S.listed[m] => T.listed[m]
          /\ ~S.idle[m] => ~T.idle[m]
      BY <1>3, <1>7, <3>1
    <3> QED BY <1>7, <1>8, <2>1, <3>2 DEF Watches
  <2> QED BY <2>1 DEF Vigil, Sound
<1>15. Awaits(T, W)
  <2> SUFFICES ASSUME NEW d \in Creature \ W, Due(T, d) PROVE T.checked[d] /\ T.listed[d]
    BY DEF Awaits, Waits
  <2>1. CASE Due(S, d)
    <3>1. S.checked[d] /\ S.listed[d]
      BY <2>1 DEF Sound, Awaits, Waits
    <3> QED BY <1>3, <1>7, <3>1
  <2>2. CASE ~Due(S, d)
    <3>1. InWorld(S, d) /\ d \notin Player /\ S.alive[d] /\ ~T.alive[d]
      BY <1>8, <2>2 DEF Due
    <3>2. d \in Monster /\ d \in C
      BY <1>3, <1>7, <3>1 DEF Creature
    <3>3. d \in woken
      BY <1>5, <3>1, <3>2
    <3> QED BY <1>3, <1>7, <3>3
  <2> QED BY <2>1, <2>2
<1>16. Sound(T, X, Y, W)
  BY <1>6, <1>9, <1>10, <1>11, <1>12, <1>13, <1>14, <1>15 DEF Sound
<1>17. \A d \in Creature \ C : T.alive[d] = S.alive[d]
  BY <1>0, <1>3, <1>6, <1>7 DEF States
<1>18. \A d \in C : ~lives => ~T.alive[d]
  BY <1>3, <1>7
<1> QED BY <1>7, <1>16, <1>17, <1>18 DEF SameExcept, T

\* The summons of c, which are dead, are on their own.
Orphaned(S, c) ==
    [UnRef(S, S.summons[c]) EXCEPT
        !.attacked = [d \in Creature |-> IF d \in S.summons[c] THEN None ELSE @[d]],
        !.master = [d \in Creature |-> IF d \in S.summons[c] THEN None ELSE @[d]],
        !.summons[c] = {}]

LEMMA OrphanedSound ==
    ASSUME NEW S, NEW X, NEW Y, NEW W, Sound(S, X, Y, W), NEW c \in Creature,
           \A d \in S.summons[c] : ~S.alive[d]
    PROVE  LET T == Orphaned(S, c)
           IN  /\ Sound(T, X, Y, W)
               /\ SameStanding(S, T) /\ SameMind(S, T) /\ T.alive = S.alive
               /\ T.summons[c] = {}
               /\ \A d \in Creature : d \notin S.summons[c] => T.master[d] = S.master[d]
<1> DEFINE T == Orphaned(S, c)
           mine(d) == d \in S.summons[c]
           R == [d \in Creature |-> S.refs[d] - (IF d \in S.summons[c] THEN 1 ELSE 0)]
           F == [d \in Creature |-> IF mine(d) THEN None ELSE S.attacked[d]]
           M == [d \in Creature |-> IF mine(d) THEN None ELSE S.master[d]]
           L == [S.summons EXCEPT ![c] = {}]
<1>0. S \in States
  BY DEF Sound
<1>1. /\ R \in [Creature -> Int] /\ M \in [Creature -> Creature \cup {None}]
      /\ F \in [Creature -> Creature \cup {None}]
      /\ L \in [Creature -> SUBSET Monster]
  BY <1>0 DEF States
<1>2. T = [[[[S EXCEPT !.refs = R] EXCEPT !.attacked = F] EXCEPT !.master = M]
            EXCEPT !.summons = L]
  BY <1>0 DEF Orphaned, UnRef, States
<1> HIDE DEF R, F, M, L
<1>3. T \in States
  BY <1>0, <1>1, <1>2, SMTT(20), ZenonT(20) DEF States
<1>4. /\ SameStanding(S, T) /\ SameMind(S, T) /\ T.alive = S.alive
      /\ T.attacked = F /\ T.refs = R /\ T.master = M /\ T.summons = L
  BY <1>0, <1>2 DEF States, SameStanding, SameMind
<1>5. \A d \in Creature :
        /\ T.summons[d] = IF d = c THEN {} ELSE S.summons[d]
        /\ T.master[d] = IF mine(d) THEN None ELSE S.master[d]
        /\ T.attacked[d] = IF mine(d) THEN None ELSE S.attacked[d]
        /\ T.refs[d] = S.refs[d] - In(d, S.summons[c])
  BY <1>0, <1>4 DEF States, In, R, F, M, L
<1> HIDE DEF T
<1>6. /\ \A d : InWorld(T, d) <=> InWorld(S, d)
      /\ \A d, e : Sees(T, d, e) <=> Sees(S, d, e)
      /\ \A d, e : e \in Near(T, d) <=> e \in Near(S, d)
  BY <1>4 DEF InWorld, Sees, Near, SameStanding
<1>7. Held(T)
  <2> SUFFICES ASSUME NEW d \in Creature
               PROVE  /\ T.refs[d] = Refer(T.summons, d) + Refer(T.targets, d)
                           + One(InWorld(T, d)) + One(T.listed[d]) + One(T.spawned[d])
                           + T.releases[d]
                      /\ T.refs[d] > 0 => T.exists[d]
    BY DEF Held
  <2>1. ButOne(S.summons, T.summons, c)
    BY <1>5 DEF ButOne
  <2>2. Refer(T.summons, d) = Refer(S.summons, d) + In(d, T.summons[c]) - In(d, S.summons[c])
    BY ONLY <2>1, ReferOne, Zenon
  <2>3. In(d, T.summons[c]) = 0 /\ In(d, S.summons[c]) \in Nat
    BY <1>5 DEF In
  <2>4. /\ S.refs[d] = Refer(S.summons, d) + Refer(S.targets, d) + One(InWorld(S, d))
                       + One(S.listed[d]) + One(S.spawned[d]) + S.releases[d]
        /\ S.refs[d] > 0 => S.exists[d]
    BY DEF Held, Sound
  <2>5. /\ T.listed[d] = S.listed[d] /\ T.spawned[d] = S.spawned[d]
        /\ T.releases[d] = S.releases[d] /\ T.exists[d] = S.exists[d]
        /\ T.targets = S.targets /\ One(InWorld(T, d)) = One(InWorld(S, d))
    BY <1>4, <1>6 DEF SameStanding, SameMind, One
  <2>6. T.refs[d] = S.refs[d] - In(d, S.summons[c])
    BY <1>5
  <2>7. /\ S.refs[d] \in Int /\ S.releases[d] \in Nat
        /\ Refer(S.summons, d) \in Nat /\ Refer(S.targets, d) \in Nat
        /\ One(InWorld(S, d)) \in Nat /\ One(S.listed[d]) \in Nat
        /\ One(S.spawned[d]) \in Nat
    BY <1>0, HeldTypes
  <2> QED BY ONLY <2>2, <2>3, <2>4, <2>5, <2>6, <2>7
<1>8. Bonds(T, X)
  <2>1. Bonds(S, X)
    BY DEF Sound
  <2> QED BY <1>5, <1>6, <2>1, CreatureFacts DEF Bonds
<1>9. Aimed(T)
  BY <1>5, <1>6 DEF Aimed, Sound
<1>10. Blank(T)
  <2>1. Blank(S) /\ T.exists = S.exists /\ T.home = S.home
    BY <1>4 DEF Sound, SameStanding
  <2> QED BY <1>5, <2>1 DEF Blank
<1>11. Replaced(T)
  BY <1>4, <1>6 DEF Replaced, SameStanding, Sound
<1>12. Vigil(T, Y)
  <2>1. ASSUME NEW x \in Monster, NEW d \in Creature, Watches(S, x, d)
        PROVE  Watches(T, x, d)
    <3>0. x \in Creature
      BY CreatureFacts
    <3>1. CASE mine(x)
      BY <1>4, <3>1 DEF Watches
    <3>2. CASE ~mine(x)
      <4>1. Opponent(T, x, d) => Opponent(S, x, d)
        BY <1>5, <3>0, CreatureFacts DEF Opponent
      <4>2. T.master[x] = S.master[x] /\ T.alive = S.alive
        BY <1>4, <1>5, <3>0, <3>2
      <4> QED BY <1>4, <1>6, <2>1, <4>1, <4>2 DEF Watches, SameMind
    <3> QED BY <3>1, <3>2
  <2> QED BY <2>1 DEF Vigil, Sound
<1>13. Awaits(T, W)
  BY <1>4, <1>6 DEF Awaits, Waits, Due, SameMind, Sound
<1>14. Sound(T, X, Y, W)
  BY <1>3, <1>7, <1>8, <1>9, <1>10, <1>11, <1>12, <1>13 DEF Sound
<1>15. \A d \in Creature : d \notin S.summons[c] => T.master[d] = S.master[d]
  BY <1>5
<1> QED BY <1>4, <1>5, <1>14, <1>15 DEF T

LEMMA DestroySummonsSound ==
    ASSUME NEW S, NEW X, NEW Y, NEW W, Sound(S, X, Y, W), NEW c \in Creature
    PROVE  LET T == DestroySummons(S, c)
           IN  /\ Sound(T, X, Y, W)
               /\ SameStanding(S, T) /\ T.targets = S.targets
               /\ T.summons[c] = {}
               /\ \A d \in Creature :
                     d \notin S.summons[c] =>
                        T.alive[d] = S.alive[d] /\ T.master[d] = S.master[d]
<1> DEFINE C == S.summons[c]
           H == ChangeHealth(S, C, FALSE)
           T == Orphaned(H, c)
<1>1. C \in SUBSET Creature
  BY CreatureFacts DEF Sound, States
<1> HIDE DEF C
<1>2. /\ Sound(H, X, Y, W) /\ SameExcept(S, H, C)
      /\ \A d \in C : ~H.alive[d]
  BY <1>1, ChangeHealthSound
<1> HIDE DEF H
<1>3. H.summons[c] = C /\ H.summons = S.summons
  BY <1>2 DEF SameExcept, C
<1>4. DestroySummons(S, c) = T
  BY <1>3 DEF DestroySummons, Orphaned, H, C
<1>5. /\ Sound(T, X, Y, W)
      /\ SameStanding(H, T) /\ SameMind(H, T) /\ T.alive = H.alive
      /\ T.summons[c] = {}
      /\ \A d \in Creature : d \notin C => T.master[d] = H.master[d]
  <2>1. \A d \in H.summons[c] : ~H.alive[d]
    BY <1>2, <1>3
  <2> HIDE DEF T
  <2>2. /\ Sound(Orphaned(H, c), X, Y, W)
        /\ SameStanding(H, Orphaned(H, c)) /\ SameMind(H, Orphaned(H, c))
        /\ Orphaned(H, c).alive = H.alive
        /\ Orphaned(H, c).summons[c] = {}
        /\ \A d \in Creature : d \notin H.summons[c] =>
                                  Orphaned(H, c).master[d] = H.master[d]
    BY <1>2, <2>1, OrphanedSound
  <2> QED BY <1>3, <2>2 DEF T
<1> HIDE DEF T
<1>6. SameStanding(S, T) /\ T.targets = S.targets
  BY <1>2, <1>5 DEF SameExcept, SameStanding, SameMind
<1>7. \A d \in Creature : d \notin S.summons[c] =>
        T.alive[d] = S.alive[d] /\ T.master[d] = S.master[d]
  BY <1>2, <1>5 DEF SameExcept, C
<1> QED BY <1>4, <1>5, <1>6, <1>7

\* m can become a summon of l.
MayServe(S, l, m) ==
    /\ m \in Monster /\ l \in Creature /\ l # m /\ S.exists[m] /\ S.exists[l]
    /\ S.master[m] = None /\ S.master[l] = None /\ S.summons[m] = {}
    /\ InWorld(S, m) => InWorld(S, l)

LEMMA AddSummonSound ==
    ASSUME NEW S, NEW X, NEW Y, NEW W, NEW l, NEW m, Sound(S, X, Y, W), MayServe(S, l, m)
    PROVE  LET T == AddSummon(S, l, m)
           IN  /\ Sound(T, X, Y \cup Unaware(m, Monster), W)
               /\ SameStanding(S, T) /\ SameMind(S, T) /\ T.alive = S.alive
               /\ T.attacked = S.attacked /\ T.master[m] = l
               /\ \A d \in Creature : d # m => T.master[d] = S.master[d]
<1> DEFINE T == AddSummon(S, l, m)
           Z == Y \cup Unaware(m, Monster)
           R == [c \in Creature |-> S.refs[c] + (IF c \in {m} THEN 1 ELSE 0)]
           M == [S.master EXCEPT ![m] = l]
           L == [S.summons EXCEPT ![l] = S.summons[l] \cup {m}]
<1>0. S \in States /\ MayServe(S, l, m) /\ m \in Creature
  BY CreatureFacts DEF Sound, MayServe
<1>1. R \in [Creature -> Int] /\ M \in [Creature -> Creature \cup {None}]
      /\ L \in [Creature -> SUBSET Monster]
  BY <1>0 DEF States, MayServe
<1>2. T = [[[S EXCEPT !.refs = R] EXCEPT !.master = M] EXCEPT !.summons = L]
  BY <1>0 DEF AddSummon, AddRef, States
<1>3. T \in States
  BY <1>0, <1>1, <1>2 DEF States
<1>4. /\ SameStanding(S, T) /\ SameMind(S, T) /\ T.alive = S.alive
      /\ T.attacked = S.attacked /\ T.refs = R /\ T.master = M /\ T.summons = L
  BY <1>0, <1>2 DEF States, SameStanding, SameMind
<1>5. /\ \A d \in Creature : T.summons[d] = IF d = l THEN S.summons[d] \cup {m}
                                            ELSE S.summons[d]
      /\ \A d \in Creature : T.master[d] = IF d = m THEN l ELSE S.master[d]
      /\ \A d \in Creature : T.refs[d] = S.refs[d] + In(d, {m})
  BY <1>0, <1>4 DEF States, In
<1> HIDE DEF T, R, M, L
<1>6. /\ \A c : InWorld(T, c) <=> InWorld(S, c)
      /\ \A c, d : Sees(T, c, d) <=> Sees(S, c, d)
      /\ \A c, d : d \in Near(T, c) <=> d \in Near(S, c)
  BY <1>4 DEF InWorld, Sees, Near, SameStanding
<1>7. Bonds(S, X) /\ \A d \in Creature : m \notin S.summons[d]
  BY <1>0, CreatureFacts DEF Sound, Bonds, MayServe
<1>8. Held(T)
  <2> SUFFICES ASSUME NEW c \in Creature
               PROVE  /\ T.refs[c] = Refer(T.summons, c) + Refer(T.targets, c)
                           + One(InWorld(T, c)) + One(T.listed[c]) + One(T.spawned[c])
                           + T.releases[c]
                      /\ T.refs[c] > 0 => T.exists[c]
    BY DEF Held
  <2>1. ButOne(S.summons, T.summons, l)
    BY <1>0, <1>5 DEF ButOne, MayServe
  <2>2. Refer(T.summons, c) = Refer(S.summons, c) + In(c, T.summons[l]) - In(c, S.summons[l])
    BY ONLY <2>1, ReferOne, Zenon
  <2>3. In(c, T.summons[l]) - In(c, S.summons[l]) = In(c, {m})
        /\ In(c, T.summons[l]) \in Nat /\ In(c, S.summons[l]) \in Nat /\ In(c, {m}) \in Nat
    <3>1. /\ c \in T.summons[l] <=> c \in S.summons[l] \/ c = m
          /\ m \notin S.summons[l]
      BY <1>0, <1>5, <1>7 DEF MayServe
    <3>2. c \in {m} <=> c = m
      OBVIOUS
    <3> QED BY ONLY <3>1, <3>2 DEF In
  <2>4. /\ S.refs[c] = Refer(S.summons, c) + Refer(S.targets, c) + One(InWorld(S, c))
                       + One(S.listed[c]) + One(S.spawned[c]) + S.releases[c]
        /\ S.refs[c] > 0 => S.exists[c]
    BY DEF Held, Sound
  <2>5. /\ T.listed[c] = S.listed[c] /\ T.spawned[c] = S.spawned[c]
        /\ T.releases[c] = S.releases[c] /\ T.exists[c] = S.exists[c]
        /\ T.targets = S.targets /\ One(InWorld(T, c)) = One(InWorld(S, c))
    BY <1>4, <1>6 DEF SameStanding, SameMind, One
  <2>6. T.refs[c] = S.refs[c] + In(c, {m}) /\ (In(c, {m}) = 0 \/ S.exists[c])
    BY <1>0, <1>5 DEF MayServe, In
  <2>7. /\ S.refs[c] \in Int /\ S.releases[c] \in Nat
        /\ Refer(S.summons, c) \in Nat /\ Refer(S.targets, c) \in Nat
        /\ One(InWorld(S, c)) \in Nat /\ One(S.listed[c]) \in Nat
        /\ One(S.spawned[c]) \in Nat
    BY <1>0, HeldTypes
  <2> QED BY ONLY <2>2, <2>3, <2>4, <2>5, <2>6, <2>7
<1>9. Bonds(T, X)
  <2>1. ASSUME NEW c \in Creature, NEW d \in Creature
        PROVE  T.master[c] = d <=> c \in T.summons[d]
    <3>1. S.master[c] = d <=> c \in S.summons[d]
      BY <1>7 DEF Bonds
    <3>2. T.master[c] = IF c = m THEN l ELSE S.master[c]
      BY <1>5
    <3>3. c \in T.summons[d] <=> c \in S.summons[d] \/ (d = l /\ c = m)
      BY <1>5
    <3> QED BY <1>7, <3>1, <3>2, <3>3
  <2>2. ASSUME NEW c \in Creature, T.master[c] # None
        PROVE  T.summons[c] = {} /\ (c \notin X /\ InWorld(T, c) => InWorld(T, T.master[c]))
    <3>1. CASE c = m
      BY <1>0, <1>5, <1>6, <3>1 DEF MayServe
    <3>2. CASE c # m
      <4>1. T.master[c] = S.master[c] /\ c # l
        BY <1>0, <1>5, <2>2, <3>2 DEF MayServe
      <4>2. S.summons[c] = {} /\ (c \notin X /\ InWorld(S, c) => InWorld(S, S.master[c]))
        BY <1>7, <2>2, <4>1 DEF Bonds
      <4> QED BY <1>5, <1>6, <4>1, <4>2
    <3> QED BY <3>1, <3>2
  <2> QED BY <2>1, <2>2 DEF Bonds
<1>10. Aimed(T)
  BY <1>4, <1>6 DEF Aimed, Sound
<1>11. Blank(T)
  <2>1. Blank(S) /\ T.exists = S.exists /\ T.home = S.home
    BY <1>4 DEF Sound, SameStanding
  <2> QED BY <1>0, <1>4, <1>5, <2>1 DEF Blank, MayServe
<1>12. Replaced(T)
  BY <1>4, <1>6 DEF Replaced, SameStanding, Sound
<1>13. Vigil(T, Z)
  <2>1. ASSUME NEW x \in Monster, NEW d \in Creature, x # m, d # m, Watches(S, x, d)
        PROVE  Watches(T, x, d)
    <3>1. Opponent(T, x, d) => Opponent(S, x, d)
      BY <1>5, <2>1, CreatureFacts DEF Opponent
    <3>2. T.master[x] = S.master[x]
      BY <1>5, <2>1, CreatureFacts
    <3> QED BY <1>4, <1>6, <2>1, <3>1, <3>2 DEF Watches, SameMind
  <2> QED BY <2>1 DEF Vigil, Sound, Unaware
<1>14. Awaits(T, W)
  BY <1>4, <1>6 DEF Awaits, Waits, Due, SameMind, Sound
<1>15. Sound(T, X, Z, W)
  BY <1>3, <1>8, <1>9, <1>10, <1>11, <1>12, <1>13, <1>14 DEF Sound
<1>16. T.master[m] = l /\ \A d \in Creature : d # m => T.master[d] = S.master[d]
  BY <1>0, <1>5
<1> QED BY <1>4, <1>15, <1>16 DEF T

-----------------------------------------------------------------------------
(* Into the world and out of it.                                           *)

\* What a place has nothing to do with.
SameTies(S, T) ==
    /\ T.exists = S.exists /\ T.alive = S.alive /\ T.master = S.master
    /\ T.summons = S.summons /\ T.home = S.home /\ T.spawned = S.spawned
    /\ T.attacked = S.attacked /\ T.event = S.event /\ T.targets = S.targets

PlaceAt(S, c, q) == [AddRef(S, {c}) EXCEPT !.place[c] = q]

MayCome(S, c, q) ==
    /\ c \in Creature /\ q \in Place
    /\ S.exists[c] /\ ~InWorld(S, c) /\ S.attacked[c] = None /\ ~S.home[c]
    /\ S.master[c] # None => InWorld(S, S.master[c])

\* What placing c at q has made of S: nobody has told the monsters yet.
Placed(S, T, X, Y, W, c, q) ==
    /\ Sound(T, X, Y \cup Unaware(c, Monster), W \cup {c})
    /\ SameTies(S, T)
    /\ \A d \in Creature : T.place[d] = IF d = c THEN q ELSE S.place[d]

LEMMA PlaceSound ==
    ASSUME NEW S, NEW X, NEW Y, NEW W, NEW c, NEW q, Sound(S, X, Y, W), MayCome(S, c, q)
    PROVE  Placed(S, PlaceAt(S, c, q), X, Y, W, c, q)
<1> DEFINE T == PlaceAt(S, c, q)
           Z == Y \cup Unaware(c, Monster)
           R == [d \in Creature |-> S.refs[d] + (IF d \in {c} THEN 1 ELSE 0)]
           Q == [S.place EXCEPT ![c] = q]
<1>0. S \in States /\ MayCome(S, c, q) /\ c \in Creature /\ q # None
  BY CreatureFacts DEF Sound, MayCome
<1>1. R \in [Creature -> Int] /\ Q \in [Creature -> Place \cup {None}]
  BY <1>0 DEF States, MayCome
<1>2. T = [[S EXCEPT !.refs = R] EXCEPT !.place = Q]
  BY <1>0 DEF PlaceAt, AddRef, States
<1>3. T \in States
  <2> HIDE DEF T, R, Q
  <2> QED BY <1>0, <1>1, <1>2 DEF States
<1>4. /\ SameTies(S, T) /\ SameMind(S, T) /\ T.refs = R /\ T.place = Q
      /\ T.releases = S.releases
  BY <1>0, <1>2 DEF States, SameTies, SameMind
<1>5. /\ \A d \in Creature : T.place[d] = IF d = c THEN q ELSE S.place[d]
      /\ \A d \in Creature : T.refs[d] = S.refs[d] + In(d, {c})
  BY <1>0, <1>4 DEF States, In
<1> HIDE DEF T, R, Q
<1>6. /\ \A d \in Creature : InWorld(T, d) <=> InWorld(S, d) \/ d = c
      /\ \A d, e \in Creature : Sees(S, d, e) => Sees(T, d, e)
      /\ \A d, e \in Creature : d # c /\ e # c => (Sees(T, d, e) <=> Sees(S, d, e))
  BY <1>0, <1>5 DEF InWorld, Sees, MayCome
<1>7. Held(T)
  <2> SUFFICES ASSUME NEW d \in Creature
               PROVE  /\ T.refs[d] = Refer(T.summons, d) + Refer(T.targets, d)
                           + One(InWorld(T, d)) + One(T.listed[d]) + One(T.spawned[d])
                           + T.releases[d]
                      /\ T.refs[d] > 0 => T.exists[d]
    BY DEF Held
  <2>1. One(InWorld(T, d)) = One(InWorld(S, d)) + In(d, {c}) /\ In(d, {c}) \in Nat
    <3>1. d \in {c} <=> d = c
      OBVIOUS
    <3> QED BY <1>0, <1>6, <3>1 DEF One, In, MayCome
  <2>4. /\ S.refs[d] = Refer(S.summons, d) + Refer(S.targets, d) + One(InWorld(S, d))
                       + One(S.listed[d]) + One(S.spawned[d]) + S.releases[d]
        /\ S.refs[d] > 0 => S.exists[d]
    BY DEF Held, Sound
  <2>5. /\ T.listed[d] = S.listed[d] /\ T.spawned[d] = S.spawned[d]
        /\ T.releases[d] = S.releases[d] /\ T.exists[d] = S.exists[d]
        /\ T.targets = S.targets /\ T.summons = S.summons
    BY <1>4 DEF SameTies, SameMind
  <2>6. T.refs[d] = S.refs[d] + In(d, {c}) /\ (In(d, {c}) = 0 \/ S.exists[d])
    BY <1>0, <1>5 DEF MayCome, In
  <2>7. /\ S.refs[d] \in Int /\ S.releases[d] \in Nat
        /\ Refer(S.summons, d) \in Nat /\ Refer(S.targets, d) \in Nat
        /\ One(InWorld(S, d)) \in Nat /\ One(S.listed[d]) \in Nat
        /\ One(S.spawned[d]) \in Nat
    BY <1>0, HeldTypes
  <2> QED BY ONLY <2>1, <2>4, <2>5, <2>6, <2>7
<1>8. Bonds(T, X)
  <2>1. Bonds(S, X) /\ T.master = S.master /\ T.summons = S.summons
    BY <1>4 DEF Sound, SameTies
  <2>2. ASSUME NEW d \in Creature, T.master[d] # None, d \notin X, InWorld(T, d)
        PROVE  InWorld(T, T.master[d])
    <3>1. T.master[d] \in Creature
      BY <1>3, <2>2 DEF States
    <3>2. InWorld(S, T.master[d])
      BY <1>0, <1>6, <2>1, <2>2 DEF Bonds, MayCome
    <3> QED BY <1>6, <3>1, <3>2
  <2> QED BY <2>1, <2>2 DEF Bonds
<1>9. Aimed(T)
  <2> SUFFICES ASSUME NEW d \in Creature, InWorld(T, d), T.attacked[d] # None
               PROVE  Sees(T, d, T.attacked[d])
    BY DEF Aimed
  <2>1. T.attacked = S.attacked /\ T.attacked[d] \in Creature /\ d # c
    BY <1>0, <1>3, <1>4 DEF SameTies, States, MayCome
  <2>2. Sees(S, d, T.attacked[d])
    BY <1>6, <2>1 DEF Sound, Aimed
  <2> QED BY <1>6, <2>1, <2>2
<1>10. Blank(T)
  BY <1>4 DEF Blank, Sound, SameTies
<1>11. Replaced(T)
  BY <1>0, <1>4, <1>6, CreatureFacts DEF Replaced, SameTies, Sound, MayCome
<1>12. Vigil(T, Z)
  <2>1. ASSUME NEW x \in Monster, NEW d \in Creature, x # c, d # c, Watches(S, x, d)
        PROVE  Watches(T, x, d)
    <3>0. x \in Creature
      BY CreatureFacts
    <3>1. Opponent(T, x, d) <=> Opponent(S, x, d)
      BY <1>4 DEF Opponent, SameTies
    <3>2. d \in Near(T, x) <=> d \in Near(S, x)
      BY <1>6, <2>1, <3>0 DEF Near
    <3> QED BY <1>4, <2>1, <3>1, <3>2 DEF Watches, SameMind, SameTies
  <2> QED BY <2>1 DEF Vigil, Sound, Unaware
<1>13. Awaits(T, W \cup {c})
  <2> SUFFICES ASSUME NEW d \in Creature \ (W \cup {c}), Due(T, d) PROVE Waits(T, d)
    BY DEF Awaits
  <2>1. d # c /\ Due(S, d)
    BY <1>4, <1>6 DEF Due, SameTies
  <2>2. Waits(S, d)
    BY <2>1 DEF Awaits, Sound
  <2> QED BY <1>4, <2>2 DEF Waits, SameMind
<1>14. Sound(T, X, Z, W \cup {c})
  BY <1>3, <1>7, <1>8, <1>9, <1>10, <1>11, <1>12, <1>13 DEF Sound
<1> QED BY <1>4, <1>5, <1>14 DEF T, Placed

\* c can go: nobody attacks it, and its spawn knows.
MayGo(S, c) ==
    /\ c \in Creature /\ InWorld(S, c)
    /\ \A d \in Creature : d # c /\ InWorld(S, d) => S.attacked[d] # c
    /\ c \in Monster /\ S.spawned[c] => S.event

LEMMA TakeOutSound ==
    ASSUME NEW S, NEW X, NEW Y, NEW W, NEW c, Sound(S, X, Y \cup Unaware(c, Monster), W),
           MayGo(S, c)
    PROVE  LET T == TakeOut(S, c)
           IN  /\ Sound(T, X \cup S.summons[c], Y, W)
               /\ SameTies(S, T)
               /\ \A d \in Creature : T.place[d] = IF d = c THEN None ELSE S.place[d]
<1> DEFINE T == TakeOut(S, c)
           Z == Y \cup Unaware(c, Monster)
           Q == [S.place EXCEPT ![c] = None]
           R == [S.releases EXCEPT ![c] = S.releases[c] + 1]
           K == [S.checked EXCEPT ![c] = S.checked[c] /\ ~S.listed[c]]
<1>0. S \in States /\ MayGo(S, c) /\ c \in Creature
  BY DEF Sound, MayGo
<1>1. /\ R \in [Creature -> Nat] /\ Q \in [Creature -> Place \cup {None}]
      /\ K \in [Creature -> BOOLEAN]
  BY <1>0 DEF States
<1>2. T = [[[S EXCEPT !.place = Q] EXCEPT !.releases = R] EXCEPT !.checked = K]
  BY <1>0 DEF TakeOut, FreeThing, RemoveCheck, States
<1>3. T \in States
  BY <1>0, <1>1, <1>2, SMTT(20), ZenonT(20) DEF States
<1>4. /\ SameTies(S, T) /\ T.refs = S.refs /\ T.place = Q /\ T.idle = S.idle
      /\ T.releases = R /\ T.listed = S.listed /\ T.checked = K
  BY <1>0, <1>2 DEF States, SameTies
<1>5. /\ \A d \in Creature : T.place[d] = IF d = c THEN None ELSE S.place[d]
      /\ \A d \in Creature : T.releases[d] = S.releases[d] + In(d, {c})
      /\ \A d \in Creature : d # c => T.checked[d] = S.checked[d]
  BY <1>0, <1>4 DEF States, In
<1> HIDE DEF T, R, Q, K
<1>6. /\ \A d \in Creature : InWorld(T, d) <=> InWorld(S, d) /\ d # c
      /\ \A d, e \in Creature : d # c /\ e # c => (Sees(T, d, e) <=> Sees(S, d, e))
  BY <1>0, <1>5 DEF InWorld, Sees
<1>7. Held(T)
  <2> SUFFICES ASSUME NEW d \in Creature
               PROVE  /\ T.refs[d] = Refer(T.summons, d) + Refer(T.targets, d)
                           + One(InWorld(T, d)) + One(T.listed[d]) + One(T.spawned[d])
                           + T.releases[d]
                      /\ T.refs[d] > 0 => T.exists[d]
    BY DEF Held
  <2>1. One(InWorld(T, d)) = One(InWorld(S, d)) - In(d, {c}) /\ In(d, {c}) \in Nat
    <3>1. d \in {c} <=> d = c
      OBVIOUS
    <3> QED BY <1>0, <1>6, <3>1 DEF One, In, MayGo
  <2>4. /\ S.refs[d] = Refer(S.summons, d) + Refer(S.targets, d) + One(InWorld(S, d))
                       + One(S.listed[d]) + One(S.spawned[d]) + S.releases[d]
        /\ S.refs[d] > 0 => S.exists[d]
    BY DEF Held, Sound
  <2>5. /\ T.listed[d] = S.listed[d] /\ T.spawned[d] = S.spawned[d]
        /\ T.refs[d] = S.refs[d] /\ T.exists[d] = S.exists[d]
        /\ T.targets = S.targets /\ T.summons = S.summons
    BY <1>4 DEF SameTies
  <2>6. T.releases[d] = S.releases[d] + In(d, {c})
    BY <1>5
  <2>7. /\ S.refs[d] \in Int /\ S.releases[d] \in Nat
        /\ Refer(S.summons, d) \in Nat /\ Refer(S.targets, d) \in Nat
        /\ One(InWorld(S, d)) \in Nat /\ One(S.listed[d]) \in Nat
        /\ One(S.spawned[d]) \in Nat
    BY <1>0, HeldTypes
  <2> QED BY ONLY <2>1, <2>4, <2>5, <2>6, <2>7
<1>8. Bonds(T, X \cup S.summons[c])
  <2>1. Bonds(S, X) /\ T.master = S.master /\ T.summons = S.summons
    BY <1>4 DEF Sound, SameTies
  <2>2. ASSUME NEW d \in Creature, T.master[d] # None, d \notin X \cup S.summons[c],
               InWorld(T, d)
        PROVE  InWorld(T, T.master[d])
    <3>1. T.master[d] \in Creature
      BY <1>3, <2>2 DEF States
    <3>2. InWorld(S, T.master[d]) /\ T.master[d] # c
      BY <1>0, <1>6, <2>1, <2>2 DEF Bonds
    <3> QED BY <1>6, <3>1, <3>2
  <2> QED BY <2>1, <2>2 DEF Bonds
<1>9. Aimed(T)
  <2> SUFFICES ASSUME NEW d \in Creature, InWorld(T, d), T.attacked[d] # None
               PROVE  Sees(T, d, T.attacked[d])
    BY DEF Aimed
  <2>1. /\ T.attacked = S.attacked /\ T.attacked[d] \in Creature /\ d # c
        /\ T.attacked[d] # c /\ InWorld(S, d)
    BY <1>0, <1>3, <1>4, <1>6 DEF SameTies, States, MayGo
  <2>2. Sees(S, d, T.attacked[d])
    BY <2>1 DEF Sound, Aimed
  <2> QED BY <1>6, <2>1, <2>2
<1>10. Blank(T)
  BY <1>4 DEF Blank, Sound, SameTies
<1>11. Replaced(T)
  BY <1>0, <1>4, <1>6, CreatureFacts DEF Replaced, SameTies, Sound, MayGo
<1>12. Vigil(T, Y)
  <2>1. ASSUME NEW x \in Monster, NEW d \in Creature, <<x, d>> \notin Y
        PROVE  Watches(T, x, d)
    <3>0. x \in Creature
      BY CreatureFacts
    <3>1. CASE x = c \/ d = c
      <4>1. ~Sees(T, x, d)
        BY <1>5, <3>0, <3>1 DEF Sees, InWorld
      <4> QED BY <4>1 DEF Watches, Near
    <3>2. CASE x # c /\ d # c
      <4>1. Watches(S, x, d)
        BY <2>1, <3>2 DEF Sound, Vigil, Unaware
      <4>2. Opponent(T, x, d) <=> Opponent(S, x, d)
        BY <1>4 DEF Opponent, SameTies
      <4>3. d \in Near(T, x) <=> d \in Near(S, x)
        BY <1>6, <3>0, <3>2 DEF Near
      <4> QED BY <1>4, <1>5, <3>0, <3>2, <4>1, <4>2, <4>3 DEF Watches, SameTies
    <3> QED BY <3>1, <3>2
  <2> QED BY <2>1 DEF Vigil
<1>13. Awaits(T, W)
  <2> SUFFICES ASSUME NEW d \in Creature \ W, Due(T, d) PROVE Waits(T, d)
    BY DEF Awaits
  <2>1. d # c /\ Due(S, d)
    BY <1>4, <1>6 DEF Due, SameTies
  <2>2. Waits(S, d)
    BY <2>1 DEF Awaits, Sound
  <2> QED BY <1>4, <1>5, <2>1, <2>2 DEF Waits
<1>14. Sound(T, X \cup S.summons[c], Y, W)
  BY <1>3, <1>7, <1>8, <1>9, <1>10, <1>11, <1>12, <1>13 DEF Sound
<1> QED BY <1>4, <1>5, <1>14 DEF T

-----------------------------------------------------------------------------
(* Who is told, one after the other.                                       *)

Before == {pair \in Nat \X Nat : pair[1] < pair[2]}

\* Induction, for a set of numbers.
LEMMA SetInduction ==
    ASSUME NEW A, 0 \in A, \A n \in Nat : n \in A => n + 1 \in A
    PROVE  Nat \subseteq A
<1> DEFINE T == Nat \ A
<1> SUFFICES ASSUME T # {} PROVE FALSE
  OBVIOUS
<1>1. IsWellFoundedOn(Before, Nat)
  BY NatLessThanWellFounded DEF OpToRel, Before
<1>2. PICK x \in T : \A y \in T : <<y, x>> \notin Before
  <2>1. T \subseteq Nat
    OBVIOUS
  <2> HIDE DEF T
  <2> QED BY <1>1, <2>1, WFMin
<1>3. x - 1 \in Nat /\ x - 1 < x /\ (x - 1) + 1 = x
  OBVIOUS
<1>4. x - 1 \in T
  BY <1>3
<1>5. <<x - 1, x>> \in Before
  BY <1>3 DEF Before
<1> QED BY <1>2, <1>4, <1>5

\* One round of Tell, RemoveAll and Reap.
TellNext(T, M, order, i, e) == IF order[i] \in M THEN Hears(T, order[i], e) ELSE T
RemoveNext(T, C, order, i) == IF order[i] \in C THEN RemoveOne(T, order[i], order) ELSE T
Round(kind, T, M, order, i, e) ==
    CASE kind = "tell" -> TellNext(T, M, order, i, e)
      [] kind = "remove" -> RemoveNext(T, M, order, i)
      [] kind = "reap" -> Delete(T, Lost(T))

Rounds(kind, S, M, order, e, f, n) ==
    f = [i \in 0..n |-> IF i = 0 THEN S ELSE Round(kind, f[i - 1], M, order, i, e)]

LEMMA RoundsExist ==
    ASSUME NEW kind, NEW S, NEW M, NEW order, NEW e, NEW n \in Nat
    PROVE  \E f : Rounds(kind, S, M, order, e, f, n)
<1> DEFINE Eqn(f, k) == Rounds(kind, S, M, order, e, f, k)
           A == {k \in Nat : \E f : Eqn(f, k)}
<1>1. 0 \in A
  <2> DEFINE f == [i \in 0..0 |-> S]
  <2>1. Eqn(f, 0)
    BY DEF Rounds
  <2> QED BY <2>1
<1>2. ASSUME NEW k \in Nat, k \in A PROVE k + 1 \in A
  <2>1. PICK f : Eqn(f, k)
    BY <1>2
  <2>0. f = [i \in 0..k |-> IF i = 0 THEN S ELSE Round(kind, f[i - 1], M, order, i, e)]
    BY <2>1 DEF Rounds
  <2> DEFINE g == [i \in 0..(k + 1) |-> IF i <= k THEN f[i]
                                        ELSE Round(kind, f[k], M, order, i, e)]
  <2>2. ASSUME NEW i \in 0..(k + 1)
        PROVE  g[i] = IF i = 0 THEN S ELSE Round(kind, g[i - 1], M, order, i, e)
    <3>1. CASE i = 0
      BY <2>0, <3>1
    <3>2. CASE i # 0 /\ i <= k
      <4>1. i - 1 \in 0..(k + 1) /\ i - 1 <= k /\ i \in 0..k
        BY <3>2
      <4>2. g[i - 1] = f[i - 1] /\ g[i] = f[i]
        BY <4>1, <3>2
      <4>3. f[i] = Round(kind, f[i - 1], M, order, i, e)
        BY <2>0, <3>2, <4>1
      <4> QED BY <3>2, <4>2, <4>3
    <3>3. CASE i = k + 1
      <4>1. i - 1 = k /\ i # 0 /\ ~(i <= k) /\ k \in 0..(k + 1) /\ k <= k
        BY <3>3
      <4>2. g[k] = f[k] /\ g[i] = Round(kind, f[k], M, order, i, e)
        BY <4>1, <3>3
      <4> QED BY <4>1, <4>2
    <3> QED BY <3>1, <3>2, <3>3
  <2>3. g = [i \in 0..(k + 1) |-> g[i]]
    OBVIOUS
  <2> HIDE DEF g
  <2>4. Eqn(g, k + 1)
    BY <2>2, <2>3 DEF Rounds
  <2> QED BY <2>4
<1> HIDE DEF A
<1>3. Nat \subseteq A
  BY <1>1, <1>2, SetInduction
<1> QED BY <1>3 DEF A

LEMMA TellIs ==
    ASSUME NEW S, NEW M, NEW order, NEW e, Len(order) \in Nat
    PROVE  \E f : /\ f[0] = S
                  /\ \A i \in 1..Len(order) : f[i] = TellNext(f[i - 1], M, order, i, e)
                  /\ Tell(S, M, order, e) = f[Len(order)]
<1> DEFINE Eqn(f) == f = [i \in 0..Len(order) |->
                            IF i = 0 THEN S
                            ELSE IF order[i] \in M THEN Hears(f[i - 1], order[i], e)
                            ELSE f[i - 1]]
           told == CHOOSE f : Eqn(f)
<1>1. \E f : Eqn(f)
  <2>1. PICK f : Rounds("tell", S, M, order, e, f, Len(order))
    BY RoundsExist
  <2>2. Eqn(f)
    BY <2>1 DEF Rounds, Round, TellNext
  <2> QED BY <2>2
<1>2. Tell(S, M, order, e) = told[Len(order)]
  BY DEF Tell
<1>3. Eqn(told)
  <2> HIDE DEF Eqn
  <2> QED BY <1>1
<1> HIDE DEF told
<1>4. told[0] = S /\ \A i \in 1..Len(order) : told[i] = TellNext(told[i - 1], M, order, i, e)
  <2>1. 0 \in 0..Len(order)
    OBVIOUS
  <2>2. told[0] = S
    BY <1>3, <2>1
  <2>3. ASSUME NEW i \in 1..Len(order) PROVE told[i] = TellNext(told[i - 1], M, order, i, e)
    <3>1. i \in 0..Len(order) /\ i # 0
      OBVIOUS
    <3> QED BY <1>3, <3>1 DEF TellNext
  <2> QED BY <2>2, <2>3
<1> QED BY <1>2, <1>4

LEMMA RemoveAllIs ==
    ASSUME NEW S, NEW C, NEW order, Len(order) \in Nat
    PROVE  \E f : /\ f[0] = S
                  /\ \A i \in 1..Len(order) : f[i] = RemoveNext(f[i - 1], C, order, i)
                  /\ RemoveAll(S, C, order) = f[Len(order)]
<1> DEFINE Eqn(f) == f = [i \in 0..Len(order) |->
                            IF i = 0 THEN S
                            ELSE IF order[i] \in C THEN RemoveOne(f[i - 1], order[i], order)
                            ELSE f[i - 1]]
           left == CHOOSE f : Eqn(f)
<1>1. \E f : Eqn(f)
  <2>1. PICK f : Rounds("remove", S, C, order, 0, f, Len(order))
    BY RoundsExist
  <2>2. Eqn(f)
    BY <2>1 DEF Rounds, Round, RemoveNext
  <2> QED BY <2>2
<1>2. RemoveAll(S, C, order) = left[Len(order)]
  BY DEF RemoveAll
<1>3. Eqn(left)
  <2> HIDE DEF Eqn
  <2> QED BY <1>1
<1> HIDE DEF left
<1>4. left[0] = S /\ \A i \in 1..Len(order) : left[i] = RemoveNext(left[i - 1], C, order, i)
  <2>1. 0 \in 0..Len(order)
    OBVIOUS
  <2>2. left[0] = S
    BY <1>3, <2>1
  <2>3. ASSUME NEW i \in 1..Len(order) PROVE left[i] = RemoveNext(left[i - 1], C, order, i)
    <3>1. i \in 0..Len(order) /\ i # 0
      OBVIOUS
    <3> QED BY <1>3, <3>1 DEF RemoveNext
  <2> QED BY <2>2, <2>3
<1> QED BY <1>2, <1>4

LEMMA ReapIs ==
    ASSUME NEW S
    PROVE  \E f : /\ f[0] = S
                  /\ \A n \in 1..Cardinality(Creature) : f[n] = Delete(f[n - 1], Lost(f[n - 1]))
                  /\ Reap(S) = f[Cardinality(Creature)]
<1> DEFINE N == Cardinality(Creature)
<1>0. N \in Nat
  BY CreatureFacts, FS_CardinalityType
<1> DEFINE Eqn(f) == f = [n \in 0..N |-> IF n = 0 THEN S ELSE Delete(f[n - 1], Lost(f[n - 1]))]
           left == CHOOSE f : Eqn(f)
<1>2. Reap(S) = left[N]
  BY DEF Reap, DeleteLost
<1> HIDE DEF N
<1>1. \E f : Eqn(f)
  <2>1. PICK f : Rounds("reap", S, 0, 0, 0, f, N)
    BY <1>0, RoundsExist
  <2>2. Eqn(f)
    BY <2>1 DEF Rounds, Round
  <2> QED BY <2>2
<1>3. Eqn(left)
  <2> HIDE DEF Eqn
  <2> QED BY <1>1
<1> HIDE DEF left
<1>4. left[0] = S /\ \A n \in 1..N : left[n] = Delete(left[n - 1], Lost(left[n - 1]))
  <2>1. 0 \in 0..N
    BY <1>0
  <2>2. left[0] = S
    BY <1>3, <2>1
  <2>3. ASSUME NEW n \in 1..N PROVE left[n] = Delete(left[n - 1], Lost(left[n - 1]))
    <3>1. n \in 0..N /\ n # 0
      BY <1>0
    <3> QED BY <1>3, <3>1
  <2> QED BY <2>2, <2>3
<1> QED BY <1>2, <1>4 DEF N

\* Every monster in the world has its turn.
Covers(S, order) ==
    /\ Len(order) \in Nat
    /\ \A i \in 1..Len(order) : order[i] \in Monster
    /\ \A m \in Monster : InWorld(S, m) => \E i \in 1..Len(order) : order[i] = m

LEMMA OrdersCover ==
    ASSUME NEW x, NEW order \in Orders(x), NEW S,
           \A m \in Monster : InWorld(S, m) => InWorld(being, m) \/ m = x
    PROVE  Covers(S, order)
<1> DEFINE M == {d \in Monster : InWorld(being, d) \/ d = x}
           n == Cardinality(M)
<1>1. order \in [1..n -> M] /\ \A i, j \in DOMAIN order : order[i] = order[j] => i = j
  BY DEF Orders
<1>2. IsFiniteSet(M)
  BY CreatureFacts, FS_Subset
<1>3. \A m \in Monster : InWorld(S, m) => m \in M
  OBVIOUS
<1>4. M \subseteq Monster
  OBVIOUS
<1> HIDE DEF M
<1>5. n \in Nat
  BY <1>2, FS_CardinalityType
<1>6. order \in Injection(1..n, M)
  BY <1>1 DEF Injection, IsInjective
<1>7. Cardinality(1..n) = n
  BY <1>5, FS_Interval
<1>8. order \in Surjection(1..n, M)
  BY <1>2, <1>6, <1>7, FS_Injection
<1>9. \A m \in M : \E i \in 1..n : order[i] = m
  BY <1>8 DEF Surjection
<1>10. Len(order) = n
  BY <1>1, <1>5
<1> QED BY <1>1, <1>3, <1>4, <1>5, <1>9, <1>10 DEF Covers

-----------------------------------------------------------------------------
(* What is heard.                                                          *)

\* The minds of the others are as they were.
LEMMA OthersWatch ==
    ASSUME NEW S, NEW T, NEW M, Minds(S, T, M), NEW x \in Creature \ M, NEW d,
           Watches(S, x, d)
    PROVE  Watches(T, x, d)
<1>1. SameBody(S, T)
  BY DEF Minds
<1>2. /\ T.alive = S.alive /\ T.master = S.master
      /\ d \in Near(T, x) <=> d \in Near(S, x)
      /\ Opponent(T, x, d) <=> Opponent(S, x, d)
  BY <1>1, SameSight DEF SameBody
<1> QED BY <1>2 DEF Watches, Minds

\* m, of what it is told of c, knows c, and c knows all.
Learns(S, T, m, c) ==
    /\ Minds(S, T, {m})
    /\ \A d \in Creature :
          /\ m # c /\ d # c /\ Watches(S, m, d) => Watches(T, m, d)
          /\ m = c \/ d = c => Watches(T, m, d)

LEMMA LearnSound ==
    ASSUME NEW S, NEW T, NEW X, NEW Y, NEW U, NEW W, NEW m, NEW c, m \in Monster,
           Sound(S, X, Y \cup Unaware(c, U), W), Learns(S, T, m, c)
    PROVE  Sound(T, X, Y \cup Unaware(c, U \ {m}), W)
<1>1. Minds(S, T, {m})
  BY DEF Learns
<1>2. Vigil(T, Y \cup Unaware(c, U \ {m}))
  <2> SUFFICES ASSUME NEW x \in Monster, NEW d \in Creature,
                      <<x, d>> \notin Y \cup Unaware(c, U \ {m})
               PROVE  Watches(T, x, d)
    BY DEF Vigil
  <2>1. CASE x # m
    <3>1. <<x, d>> \notin Y \cup Unaware(c, U)
      BY <2>1 DEF Unaware
    <3>2. Watches(S, x, d)
      BY <3>1 DEF Sound, Vigil
    <3>3. x \in Creature \ {m}
      BY <2>1, CreatureFacts
    <3> QED BY <1>1, <3>2, <3>3, OthersWatch
  <2>2. CASE x = m /\ m # c /\ d # c
    <3>1. <<x, d>> \notin Y \cup Unaware(c, U)
      BY <2>2 DEF Unaware
    <3>2. Watches(S, x, d)
      BY <3>1 DEF Sound, Vigil
    <3> QED BY <2>2, <3>2 DEF Learns
  <2>3. CASE x = m /\ (m = c \/ d = c)
    BY <2>3 DEF Learns
  <2> QED BY <2>1, <2>2, <2>3
<1> QED BY <1>1, <1>2, MindsSound

\* c looks around where it is.
LEMMA LooksAround ==
    ASSUME NEW S, NEW T, NEW m, S \in States, m \in Monster, Minds(S, T, {m})
    PROVE  LET U == UpdateIdle(UpdateTargets(T, m), m)
           IN  Minds(S, U, {m}) /\ \A d \in Creature : Watches(U, m, d)
<1> DEFINE V == UpdateTargets(T, m)
           U == UpdateIdle(V, m)
<1>0. T \in States
  BY DEF Minds
<1>1. Minds(T, V, {m}) /\ (\A d \in Creature : Watches(V, m, d)) /\ V \in States
  <2>1. Minds(T, V, {m}) /\ (\A d \in Creature : Watches(V, m, d))
    BY <1>0, UpdateTargetsMinds
  <2> QED BY <2>1 DEF Minds
<1> HIDE DEF V
<1>2. Minds(V, U, {m}) /\ Attends(V, U, m)
  BY <1>1, UpdateIdleMinds
<1> HIDE DEF U
<1>3. Minds(S, V, {m} \cup {m}) /\ {m} \cup {m} = {m}
  BY <1>1, MindsTwice
<1>4. Minds(S, U, {m} \cup {m})
  BY <1>2, <1>3, MindsTwice
<1> QED BY <1>1, <1>2, <1>3, <1>4 DEF Attends, U, V

LEMMA AppearLearns ==
    ASSUME NEW S, NEW m, NEW c, S \in States, m \in Monster, c \in Creature, InWorld(S, c)
    PROVE  Learns(S, Appear(S, m, c), m, c)
<1>1. CASE m # c
  <2> DEFINE T == Enter(S, m, c)
  <2>1. Minds(S, T, {m}) /\ Attends(S, T, m) /\ Watches(T, m, c)
    BY EnterMinds
  <2>2. Appear(S, m, c) = T
    BY <1>1 DEF Appear
  <2> HIDE DEF T
  <2> QED BY <1>1, <2>1, <2>2 DEF Learns, Attends
<1>2. CASE m = c
  <2> DEFINE T == LookForMaster(S, c)
             U == UpdateIdle(UpdateTargets(T, c), c)
  <2>1. Minds(S, T, {m})
    BY <1>2, LookMinds
  <2> HIDE DEF T
  <2>2. Minds(S, U, {m}) /\ \A d \in Creature : Watches(U, m, d)
    BY <1>2, <2>1, LooksAround
  <2> HIDE DEF U
  <2>3. Appear(S, m, c) = U
    BY <1>2 DEF Appear, U, T
  <2> QED BY <1>2, <2>2, <2>3 DEF Learns
<1> QED BY <1>1, <1>2

LEMMA ConvincedLearns ==
    ASSUME NEW S, NEW m, NEW c, S \in States, m \in Monster
    PROVE  Learns(S, Convinced(S, m), m, c)
<1> DEFINE U == UpdateIdle(UpdateTargets(S, m), m)
<1>1. Minds(S, S, {m})
  BY MindsNone
<1>2. Minds(S, U, {m}) /\ \A d \in Creature : Watches(U, m, d)
  BY <1>1, LooksAround
<1> HIDE DEF U
<1>3. Convinced(S, m) = U
  BY DEF Convinced, U
<1> QED BY <1>2, <1>3 DEF Learns

\* Before it may choose a target.
Noticed(S, m, c, old) ==
    IF m = c THEN UpdateTargets(LookForMaster(S, c), c)
    ELSE IF S.place[m] = old THEN Leave(S, m, c) ELSE Enter(S, m, c)

LEMMA NoticedLearns ==
    ASSUME NEW S, NEW m, NEW c, NEW old, S \in States, m \in Monster, c \in Creature,
           InWorld(S, c), S.place[c] # old
    PROVE  Learns(S, UpdateIdle(Noticed(S, m, c, old), m), m, c)
<1> DEFINE T == Noticed(S, m, c, old)
           U == UpdateIdle(T, m)
<1>1. CASE m = c
  <2> DEFINE L == LookForMaster(S, c)
  <2>1. Minds(S, L, {m})
    BY <1>1, LookMinds
  <2>2. T = UpdateTargets(L, m)
    BY <1>1 DEF Noticed
  <2> HIDE DEF L, T
  <2>3. Minds(S, U, {m}) /\ \A d \in Creature : Watches(U, m, d)
    BY <2>1, <2>2, LooksAround
  <2> HIDE DEF U
  <2> QED BY <1>1, <2>3 DEF Learns, U, T
<1>2. CASE m # c
  <2>1. /\ Minds(S, T, {m})
        /\ \A d \in Creature \ {c} : Watches(S, m, d) => Watches(T, m, d)
        /\ Watches(T, m, c)
    <3>1. CASE S.place[m] = old
      <4> DEFINE L == Leave(S, m, c)
      <4>1. /\ Minds(S, L, {m})
            /\ \A d \in Creature \ {c} : Watches(S, m, d) => Watches(L, m, d)
        BY LeaveMinds
      <4>2. T = L
        BY <1>2, <3>1 DEF Noticed
      <4> HIDE DEF L, T
      <4>3. Watches(T, m, c)
        <5>1. T.place = S.place
          BY <4>1, <4>2 DEF Minds, SameBody
        <5> QED BY <3>1, <5>1 DEF Watches, Near, Sees
      <4> QED BY <4>1, <4>2, <4>3
    <3>2. CASE S.place[m] # old
      <4> DEFINE L == Enter(S, m, c)
      <4>1. Minds(S, L, {m}) /\ Attends(S, L, m) /\ Watches(L, m, c)
        BY EnterMinds
      <4>2. T = L
        BY <1>2, <3>2 DEF Noticed
      <4> HIDE DEF L, T
      <4> QED BY <4>1, <4>2 DEF Attends
    <3> QED BY <3>1, <3>2
  <2> HIDE DEF T
  <2>2. T \in States
    BY <2>1 DEF Minds
  <2>3. Minds(T, U, {m}) /\ Attends(T, U, m)
    BY <2>2, UpdateIdleMinds
  <2> HIDE DEF U
  <2>4. Minds(S, U, {m} \cup {m}) /\ {m} \cup {m} = {m}
    BY <2>1, <2>3, MindsTwice
  <2>5. Learns(S, U, m, c)
    BY <1>2, <2>1, <2>3, <2>4 DEF Learns, Attends
  <2> QED BY <2>5 DEF U, T
<1> QED BY <1>1, <1>2

\* e is news of c, who is in the world.
News(S, e, c) ==
    /\ c \in Creature /\ InWorld(S, c)
    /\ \/ e = [op |-> "appear", who |-> c]
       \/ e.op = "move" /\ e.who = c /\ e.from # S.place[c]
       \/ e.op = "convince"

LEMMA HearsSound ==
    ASSUME NEW S, NEW X, NEW Y, NEW U, NEW W, NEW m, NEW c, NEW e, m \in Monster,
           Sound(S, X, Y \cup Unaware(c, U), W), News(S, e, c)
    PROVE  Sound(Hears(S, m, e), X, Y \cup Unaware(c, U \ {m}), W) /\ SameBody(S, Hears(S, m, e))
<1>0. S \in States /\ c \in Creature /\ InWorld(S, c) /\ m \in Creature
  BY CreatureFacts DEF Sound, News
<1>1. CASE e = [op |-> "appear", who |-> c]
  <2> DEFINE T == Appear(S, m, c)
  <2>1. Hears(S, m, e) = T
    BY <1>1 DEF Hears
  <2>2. Learns(S, T, m, c)
    BY <1>0, AppearLearns
  <2> HIDE DEF T
  <2>3. Sound(T, X, Y \cup Unaware(c, U \ {m}), W)
    BY <2>2, LearnSound
  <2>4. SameBody(S, T)
    BY <2>2 DEF Learns, Minds
  <2> QED BY <2>1, <2>3, <2>4
<1>2. CASE e.op = "convince"
  <2> DEFINE T == Convinced(S, m)
  <2>1. Hears(S, m, e) = T
    BY <1>2 DEF Hears
  <2>2. Learns(S, T, m, c)
    BY <1>0, ConvincedLearns
  <2> HIDE DEF T
  <2>3. Sound(T, X, Y \cup Unaware(c, U \ {m}), W)
    BY <2>2, LearnSound
  <2>4. SameBody(S, T)
    BY <2>2 DEF Learns, Minds
  <2> QED BY <2>1, <2>3, <2>4
<1>3. CASE e.op = "move" /\ e.who = c /\ e.from # S.place[c]
  <2> DEFINE old == e.from
             T == UpdateIdle(Noticed(S, m, c, old), m)
             V == IF m \in e.chasers /\ T.master[m] = None /\ Opponent(T, m, c)
                  THEN SelectTarget(T, m, c) ELSE T
  <2>1. Hears(S, m, e) = V
    <3>1. Hears(S, m, e) = Moved(S, m, c, e.from, e.chasers)
      BY <1>3 DEF Hears
    <3> QED BY <3>1 DEF Moved, Chase, Noticed
  <2>0. S.place[c] # old
    BY <1>3
  <2> HIDE DEF old
  <2>2. Learns(S, T, m, c)
    BY <1>0, <2>0, NoticedLearns
  <2> HIDE DEF T
  <2> DEFINE Z == Y \cup Unaware(c, U \ {m})
  <2>3. Sound(T, X, Z, W)
    BY <2>2, LearnSound
  <2> HIDE DEF Z
  <2>4. SameBody(S, T)
    BY <2>2 DEF Learns, Minds
  <2> DEFINE K == SelectTarget(T, m, c)
  <2>5. Sound(K, X, Z, W) /\ SameBody(T, K)
    BY <1>0, <2>3, SelectTargetSound
  <2>6. SameBody(S, K)
    BY <2>4, <2>5 DEF SameBody
  <2>7. V = K \/ V = T
    OBVIOUS
  <2> HIDE DEF K, V
  <2>8. Sound(V, X, Z, W) /\ SameBody(S, V)
    BY <2>3, <2>4, <2>5, <2>6, <2>7
  <2> QED BY <2>1, <2>8 DEF Z
<1> QED BY <1>1, <1>2, <1>3 DEF News

LEMMA SameNews ==
    ASSUME NEW S, NEW T, NEW e, NEW c, News(S, e, c), SameBody(S, T)
    PROVE  News(T, e, c)
BY DEF News, SameBody, InWorld

LEMMA SameBodyTwice ==
    ASSUME NEW S, NEW T, NEW U, SameBody(S, T), SameBody(T, U)
    PROVE  SameBody(S, U)
BY DEF SameBody

\* Whoever can see c is told.
ToldOf(S, M, order, e, c) ==
    /\ Covers(S, order) /\ News(S, e, c)
    /\ \A m \in Monster : InWorld(S, m) /\ (m = c \/ c \in Near(S, m)) => m \in M

LEMMA TellSound ==
    ASSUME NEW S, NEW X, NEW Y, NEW W, NEW c, NEW M, NEW order, NEW e,
           Sound(S, X, Y \cup Unaware(c, Monster), W), ToldOf(S, M, order, e, c)
    PROVE  Sound(Tell(S, M, order, e), X, Y, W) /\ SameBody(S, Tell(S, M, order, e))
<1> DEFINE n == Len(order)
           told(i) == {order[j] : j \in {k \in 1..i : order[k] \in M}}
<1>0. Len(order) \in Nat /\ Covers(S, order) /\ News(S, e, c)
  BY DEF ToldOf, Covers
<1>1. PICK f : /\ f[0] = S
               /\ \A i \in 1..Len(order) : f[i] = TellNext(f[i - 1], M, order, i, e)
               /\ Tell(S, M, order, e) = f[Len(order)]
  BY <1>0, TellIs
<1> DEFINE Good(i) == /\ Sound(f[i], X, Y \cup Unaware(c, Monster \ told(i)), W)
                      /\ SameBody(S, f[i])
           A == {i \in Nat : i <= n => Good(i)}
<1>2. 0 \in A
  <2>1. told(0) = {}
    OBVIOUS
  <2>2. Good(0)
    BY <1>1, <2>1 DEF SameBody
  <2> QED BY <2>2
<1>3. ASSUME NEW i \in Nat, i \in A PROVE i + 1 \in A
  <2> SUFFICES ASSUME i + 1 <= n PROVE Good(i + 1)
    OBVIOUS
  <2>1. Sound(f[i], X, Y \cup Unaware(c, Monster \ told(i)), W) /\ SameBody(S, f[i])
    BY <1>0, <1>3
  <2> DEFINE m == order[i + 1]
             T == f[i]
             U == f[i + 1]
             P == Monster \ told(i)
  <2>2. m \in Monster /\ i + 1 \in 1..n
    BY <1>0 DEF Covers
  <2>3. U = IF m \in M THEN Hears(T, m, e) ELSE T
    <3>1. U = TellNext(f[(i + 1) - 1], M, order, i + 1, e)
      BY <1>1, <2>2
    <3> QED BY <3>1 DEF TellNext
  <2>4. CASE m \in M
    <3>1. told(i + 1) = told(i) \cup {m}
      <4>1. ASSUME NEW x PROVE x \in told(i + 1) <=> x \in told(i) \/ x = m
        BY <2>4
      <4> HIDE DEF told, m
      <4> QED BY <4>1
    <3>2. Monster \ told(i + 1) = P \ {m}
      <4> HIDE DEF told, m
      <4> QED BY <3>1
    <3>3. News(T, e, c)
      BY <1>0, <2>1, SameNews
    <3> HIDE DEF told, m, T, U, P
    <3>4. Sound(T, X, Y \cup Unaware(c, P), W)
      BY <2>1 DEF T, P
    <3>5. /\ Sound(Hears(T, m, e), X, Y \cup Unaware(c, P \ {m}), W)
          /\ SameBody(T, Hears(T, m, e))
      BY ONLY <2>2, <3>3, <3>4, HearsSound
    <3>6. SameBody(S, T)
      BY <2>1 DEF T
    <3>7. SameBody(S, U)
      BY <2>3, <2>4, <3>5, <3>6, SameBodyTwice
    <3> QED BY <2>3, <2>4, <3>2, <3>5, <3>7 DEF U
  <2>5. CASE m \notin M
    <3>1. told(i + 1) = told(i)
      <4>1. ASSUME NEW x PROVE x \in told(i + 1) <=> x \in told(i)
        BY <2>5
      <4> HIDE DEF told, m
      <4> QED BY <4>1
    <3> QED BY <2>1, <2>3, <2>5, <3>1
  <2> QED BY <2>4, <2>5
<1> HIDE DEF A
<1>4. Good(n)
  <2>1. Nat \subseteq A
    BY <1>2, <1>3, SetInduction
  <2> HIDE DEF Good
  <2>2. n \in A /\ n <= n
    BY <1>0, <2>1
  <2> HIDE DEF n
  <2> QED BY <2>2 DEF A
<1> DEFINE T == f[n]
<1>5. Sound(T, X, Y \cup Unaware(c, Monster \ told(n)), W) /\ SameBody(S, T)
  BY <1>4
<1>6. \A m \in Monster : InWorld(S, m) /\ (m = c \/ c \in Near(S, m)) => m \in told(n)
  <2> SUFFICES ASSUME NEW m \in Monster, InWorld(S, m), m = c \/ c \in Near(S, m)
               PROVE  m \in told(n)
    OBVIOUS
  <2>1. m \in M
    BY DEF ToldOf
  <2>2. PICK i \in 1..n : order[i] = m
    BY <1>0 DEF Covers
  <2> QED BY <2>1, <2>2
<1>7. Tell(S, M, order, e) = T
  BY <1>1
<1> HIDE DEF T, told
<1>8. Vigil(T, Y)
  <2> SUFFICES ASSUME NEW m \in Monster, NEW d \in Creature, <<m, d>> \notin Y
               PROVE  Watches(T, m, d)
    BY DEF Vigil
  <2>1. CASE <<m, d>> \notin Y \cup Unaware(c, Monster \ told(n))
    BY <1>5, <2>1 DEF Sound, Vigil
  <2>2. CASE <<m, d>> \in Y \cup Unaware(c, Monster \ told(n))
    <3>1. m \notin told(n) /\ (m = c \/ d = c)
      BY <2>2 DEF Unaware
    <3>2. ~InWorld(S, m) \/ (m # c /\ c \notin Near(S, m))
      BY <1>6, <3>1
    <3>3. ~InWorld(T, m) \/ (m # c /\ c \notin Near(T, m))
      BY <1>5, <3>2, SameSight
    <3>4. CASE ~InWorld(T, m)
      BY <3>4, Blind
    <3>5. CASE m # c /\ c \notin Near(T, m)
      BY <3>1, <3>5 DEF Watches
    <3> QED BY <3>3, <3>4, <3>5
  <2> QED BY <2>1, <2>2
<1> QED BY <1>5, <1>7, <1>8 DEF Sound

\* Before it goes to sleep.
Warns(S, c) == IF S.home[c] THEN [S EXCEPT !.event = TRUE] ELSE S

LEMMA WarnMinds ==
    ASSUME NEW S, S \in States, NEW c \in Creature
    PROVE  Minds(S, Warns(S, c), {c}) /\ (S.home[c] => Warns(S, c).event)
<1> DEFINE T == [S EXCEPT !.event = TRUE]
<1>1. /\ T \in States /\ SameBody(S, T) /\ T.attacked = S.attacked /\ T.targets = S.targets
      /\ T.refs = S.refs /\ T.listed = S.listed /\ T.event
      /\ T.checked = S.checked /\ T.idle = S.idle
  BY DEF States, SameBody
<1> HIDE DEF T
<1>2. Waits(S, c) => T.checked[c]
  BY <1>1 DEF Waits
<1>3. Minds(S, T, {c})
  BY <1>1, <1>2, MoodMinds
<1>4. Minds(S, S, {c})
  BY MindsNone
<1> QED BY <1>1, <1>3, <1>4 DEF Warns, T

\* m, of what it is told of the going of c.
LEMMA DisappearMinds ==
    ASSUME NEW S, NEW m, NEW c, S \in States, m \in Monster, c \in Creature
    PROVE  LET T == Disappear(S, m, c)
           IN  /\ Minds(S, T, {m})
               /\ m = c /\ S.home[c] => T.event
               /\ \A d \in Creature :
                     m # c /\ d # c /\ Watches(S, m, d) => Watches(T, m, d)
<1>1. CASE m # c
  <2> DEFINE L == Leave(S, m, c)
  <2>1. /\ Minds(S, L, {m})
        /\ \A d \in Creature \ {c} : Watches(S, m, d) => Watches(L, m, d)
    BY LeaveMinds
  <2>2. Disappear(S, m, c) = L
    BY <1>1 DEF Disappear
  <2> HIDE DEF L
  <2> QED BY <1>1, <2>1, <2>2
<1>2. CASE m = c
  <2> DEFINE K == Warns(S, c)
             U == SetIdle(K, c, TRUE)
  <2>1. Minds(S, K, {c}) /\ (S.home[c] => K.event) /\ K \in States
    <3>1. Minds(S, K, {c}) /\ (S.home[c] => K.event)
      BY WarnMinds
    <3> QED BY <3>1 DEF Minds
  <2> HIDE DEF K
  <2>2. Minds(K, U, {c})
    BY <1>2, <2>1, SetIdleMinds
  <2>3. Disappear(S, m, c) = U
    BY <1>2 DEF Disappear, Warns, K
  <2> HIDE DEF U
  <2>4. Minds(S, U, {c} \cup {c}) /\ {c} \cup {c} = {c}
    BY <2>1, <2>2, MindsTwice
  <2>5. S.home[c] => U.event
    BY <2>1, <2>2 DEF Minds
  <2> QED BY <1>2, <2>3, <2>4, <2>5
<1> QED BY <1>1, <1>2

\* The one that changes its mind is not aware of c anyway, or keeps watching.
LEMMA MindsUnaware ==
    ASSUME NEW S, NEW T, NEW X, NEW Y, NEW W, NEW m, NEW c, m \in Monster,
           Sound(S, X, Y \cup Unaware(c, Monster), W), Minds(S, T, {m}),
           \A d \in Creature : m # c /\ d # c /\ Watches(S, m, d) => Watches(T, m, d)
    PROVE  Sound(T, X, Y \cup Unaware(c, Monster), W)
<1> DEFINE Z == Y \cup Unaware(c, Monster)
<1>1. Vigil(T, Z)
  <2> SUFFICES ASSUME NEW x \in Monster, NEW d \in Creature, <<x, d>> \notin Z
               PROVE  Watches(T, x, d)
    BY DEF Vigil
  <2>1. Watches(S, x, d) /\ x # c /\ d # c
    BY DEF Sound, Vigil, Unaware
  <2>2. CASE x # m
    BY <2>1, <2>2, CreatureFacts, OthersWatch
  <2>3. CASE x = m
    BY <2>1, <2>3
  <2> QED BY <2>2, <2>3
<1> HIDE DEF Z
<1>2. Sound(S, X, Z, W)
  BY DEF Z
<1>3. Sound(T, X, Z, W)
  BY <1>1, <1>2, MindsSound
<1> QED BY <1>3 DEF Z

\* What is kept when the going of c is told.
KnownGone(S, T, c) == SameBody(S, T) /\ T.attacked = S.attacked /\ (S.event => T.event)

LEMMA TellGoneSound ==
    ASSUME NEW S, NEW X, NEW Y, NEW W, NEW c, NEW M, NEW order, c \in Creature, c \in M,
           Sound(S, X, Y \cup Unaware(c, Monster), W), Covers(S, order)
    PROVE  LET T == Tell(S, M, order, [op |-> "disappear", who |-> c])
           IN  /\ Sound(T, X, Y \cup Unaware(c, Monster), W) /\ KnownGone(S, T, c)
               /\ c \in Monster /\ InWorld(S, c) /\ S.home[c] => T.event
<1> DEFINE n == Len(order)
           Z == Y \cup Unaware(c, Monster)
           e == [op |-> "disappear", who |-> c]
<1>0. Len(order) \in Nat /\ Covers(S, order)
  BY DEF Covers
<1>1. PICK f : /\ f[0] = S
               /\ \A i \in 1..Len(order) : f[i] = TellNext(f[i - 1], M, order, i, e)
               /\ Tell(S, M, order, e) = f[Len(order)]
  BY <1>0, TellIs
<1> DEFINE Good(i) == /\ Sound(f[i], X, Z, W) /\ KnownGone(S, f[i], c)
                      /\ S.home[c] /\ (\E j \in 1..i : order[j] = c) => f[i].event
           A == {i \in Nat : i <= n => Good(i)}
<1>2. 0 \in A
  <2>1. Sound(f[0], X, Z, W)
    BY <1>1
  <2>2. KnownGone(S, f[0], c)
    BY <1>1 DEF KnownGone, SameBody
  <2>3. ~ \E j \in 1..0 : order[j] = c
    OBVIOUS
  <2> HIDE DEF Z
  <2> QED BY <2>1, <2>2, <2>3
<1>3. ASSUME NEW i \in Nat, i \in A PROVE i + 1 \in A
  <2> SUFFICES ASSUME i + 1 <= n PROVE Good(i + 1)
    OBVIOUS
  <2>1. Good(i)
    BY <1>0, <1>3
  <2> DEFINE m == order[i + 1]
             T == f[i]
             U == f[i + 1]
  <2>2. m \in Monster /\ i + 1 \in 1..n
    BY <1>0 DEF Covers
  <2>3. U = IF m \in M THEN Hears(T, m, e) ELSE T
    <3>1. U = TellNext(f[(i + 1) - 1], M, order, i + 1, e)
      BY <1>1, <2>2
    <3> QED BY <3>1 DEF TellNext
  <2>4. Hears(T, m, e) = Disappear(T, m, c)
    BY DEF Hears
  <2> DEFINE K == Disappear(T, m, c)
  <2>5. T \in States /\ T.home = S.home
    BY <2>1 DEF Sound, KnownGone, SameBody
  <2> HIDE DEF T, m
  <2>6. /\ Minds(T, K, {m})
        /\ m = c /\ T.home[c] => K.event
        /\ \A d \in Creature : m # c /\ d # c /\ Watches(T, m, d) => Watches(K, m, d)
    BY <2>2, <2>5, DisappearMinds
  <2> HIDE DEF K
  <2>7. Sound(T, X, Z, W)
    BY <2>1 DEF T
  <2>8. Sound(K, X, Z, W)
    BY <2>2, <2>6, <2>7, MindsUnaware
  <2> HIDE DEF Z, U, e
  <2>9. KnownGone(S, T, c) /\ (S.home[c] /\ (\E j \in 1..i : order[j] = c) => T.event)
    BY <2>1 DEF T
  <2>10. KnownGone(S, K, c) /\ (T.event => K.event)
    BY <2>6, <2>9 DEF KnownGone, Minds, SameBody
  <2>11. (\E j \in 1..(i + 1) : order[j] = c) => (\E j \in 1..i : order[j] = c) \/ m = c
    BY DEF m
  <2>12. m = c => m \in M
    OBVIOUS
  <2>13. /\ Sound(U, X, Z, W) /\ KnownGone(S, U, c)
         /\ S.home[c] /\ (\E j \in 1..(i + 1) : order[j] = c) => U.event
    BY <2>3, <2>4, <2>5, <2>6, <2>7, <2>8, <2>9, <2>10, <2>11, <2>12 DEF K
  <2> QED BY <2>13 DEF U
<1> HIDE DEF A
<1>4. Good(n)
  <2>1. Nat \subseteq A
    BY <1>2, <1>3, SetInduction
  <2> HIDE DEF Good
  <2> QED BY <1>0, <2>1 DEF A
<1>5. c \in Monster /\ InWorld(S, c) => \E j \in 1..n : order[j] = c
  BY <1>0 DEF Covers
<1> QED BY <1>1, <1>4, <1>5

-----------------------------------------------------------------------------
(* Out of the world.                                                       *)

\* The fields that leaving the world has nothing to do with.
SameLife(S, T) ==
    /\ T.exists = S.exists /\ T.alive = S.alive /\ T.home = S.home
    /\ T.spawned = S.spawned

LEMMA SameLifeTwice ==
    ASSUME NEW S, NEW T, NEW U, SameLife(S, T), SameLife(T, U)
    PROVE  SameLife(S, U)
BY DEF SameLife

LEMMA SoundMine ==
    ASSUME NEW S, NEW X, NEW Y, NEW W, NEW c,
           Sound(S, X, (Y \cup Unaware(c, Monster)) \cup ByOne(c), W)
    PROVE  Sound(S, X, Y \cup Unaware(c, Monster), W)
<1>1. Vigil(S, (Y \cup Unaware(c, Monster)) \cup ByOne(c))
  BY DEF Sound
<1>2. Vigil(S, Y \cup Unaware(c, Monster))
  BY <1>1 DEF Vigil, Unaware, ByOne
<1> QED BY <1>2 DEF Sound

LEMMA BondsLess ==
    ASSUME NEW S, NEW X, NEW Y, NEW W, NEW c, Sound(S, X, Y, W), ~InWorld(S, c)
    PROVE  Sound(S, X \ {c}, Y, W)
<1>1. Bonds(S, X \ {c})
  BY DEF Sound, Bonds
<1> QED BY <1>1 DEF Sound

LEMMA PartedSound ==
    ASSUME NEW T, NEW X, NEW Y, NEW W, NEW c, c \in Creature,
           Sound(T, X, Y \cup Unaware(c, Monster), W)
    PROVE  LET U == Parted(T, c)
           IN  /\ Sound(U, X, Y \cup Unaware(c, Monster), W)
               /\ SameStanding(T, U) /\ U.alive = T.alive /\ U.attacked = T.attacked
               /\ \A d \in Creature : U.summons[d] \subseteq T.summons[d]
               /\ U.summons[c] = T.summons[c]
<1> DEFINE l == T.master[c]
           Z == Y \cup Unaware(c, Monster)
           U == RemoveSummon(T, l, c)
<1>1. CASE l # None
  <2>1. l \in Creature /\ Bonds(T, X)
    BY <1>1 DEF Sound, States
  <2>2. T.summons[c] = {}
    BY <1>1, <2>1 DEF Bonds
  <2> HIDE DEF Z, l
  <2>3. Sound(T, X, Z, W)
    BY DEF Z
  <2>4. /\ Sound(U, X, Z \cup ByOne(c), W)
        /\ SameStanding(T, U) /\ SameMind(T, U) /\ U.alive = T.alive
        /\ U.attacked = T.attacked
        /\ \A d \in Creature : U.summons[d] = IF d = l THEN T.summons[d] \ {c}
                                              ELSE T.summons[d]
    BY <2>1, <2>3, RemoveSummonSound, SMTT(20), ZenonT(20)
  <2> HIDE DEF U
  <2>5. Sound(U, X, Z, W)
    BY <2>4, SoundMine DEF Z
  <2>6. U.summons[c] = T.summons[c] /\ \A d \in Creature : U.summons[d] \subseteq T.summons[d]
    BY <2>2, <2>4
  <2>7. Parted(T, c) = U \/ Parted(T, c) = T
    BY DEF Parted, U, l
  <2>8. SameStanding(T, T)
    BY DEF SameStanding
  <2> QED BY <2>3, <2>4, <2>5, <2>6, <2>7, <2>8 DEF Z
<1>2. CASE l = None
  <2>1. Parted(T, c) = T
    BY <1>2 DEF Parted
  <2>2. SameStanding(T, T)
    BY DEF SameStanding
  <2> QED BY <2>1, <2>2
<1> QED BY <1>1, <1>2

\* Those whose master is not in the world when c is not.
Bereft(S, X, c) == (X \ {c}) \cup (IF InWorld(S, c) THEN S.summons[c] ELSE {})

\* c has left.
Left(S, T, c) ==
    /\ SameLife(S, T)
    /\ \A d \in Creature : T.place[d] = IF d = c THEN None ELSE S.place[d]
    /\ \A d \in Creature : T.summons[d] \subseteq S.summons[d]
    /\ T.summons[c] = S.summons[c]

LEMMA RemoveOneSound ==
    ASSUME NEW S, NEW X, NEW Y, NEW W, NEW c, NEW order, c \in Creature,
           Sound(S, X, Y, W), Covers(S, order)
    PROVE  LET T == RemoveOne(S, c, order)
           IN  Sound(T, Bereft(S, X, c), Y, W) /\ Left(S, T, c)
<1>1. CASE ~InWorld(S, c)
  <2>1. RemoveOne(S, c, order) = S
    BY <1>1 DEF RemoveOne
  <2>2. Sound(S, X \ {c}, Y, W)
    BY <1>1, BondsLess
  <2>3. Bereft(S, X, c) = X \ {c}
    BY <1>1 DEF Bereft
  <2>4. Left(S, S, c)
    BY <1>1 DEF InWorld, Left, SameLife
  <2> QED BY <2>1, <2>2, <2>3, <2>4
<1>2. CASE InWorld(S, c)
  <2> DEFINE N == Near(S, c)
             F == ForgetTarget(S, N, c)
             e == [op |-> "disappear", who |-> c]
             T == Tell(F, N \cup {c}, order, e)
             U == Parted(T, c)
             V == TakeOut(U, c)
             Z == Y \cup Unaware(c, Monster)
  <2>0. N \in SUBSET Creature /\ S \in States
    BY DEF Near, Sound
  <2>1. RemoveOne(S, c, order) = V
    BY <1>2 DEF RemoveOne
  <2>2. \A d \in Creature : d # c /\ InWorld(S, d) /\ S.attacked[d] = c => d \in N
    <3>1. ASSUME NEW d \in Creature, d # c, InWorld(S, d), S.attacked[d] = c
          PROVE  d \in Near(S, c)
      <4>1. Sees(S, d, c)
        BY <3>1, CreatureFacts DEF Sound, Aimed
      <4> QED BY <1>2, <3>1, <4>1 DEF Near, Sees
    <3> QED BY <3>1
  <2> HIDE DEF N
  <2>3. /\ Sound(F, X, Y, W) /\ SameBody(S, F) /\ SameMind(S, F)
        /\ F.event = S.event
        /\ \A d \in N : F.attacked[d] # c
        /\ \A d \in Creature : F.attacked[d] \in {None, S.attacked[d]}
    BY <2>0, ForgetTargetSound
  <2> HIDE DEF F
  <2>4. Sound(F, X, Z, W)
    <3>1. Y \subseteq Z
      OBVIOUS
    <3> HIDE DEF Z
    <3> QED BY <2>3, <3>1, SoundWeaker
  <2>5. Covers(F, order)
    BY <2>3 DEF Covers, SameBody, InWorld
  <2>6. c \in N \cup {c}
    OBVIOUS
  <2>7. /\ Sound(T, X, Z, W) /\ KnownGone(F, T, c)
        /\ c \in Monster /\ InWorld(F, c) /\ F.home[c] => T.event
    BY <2>4, <2>5, <2>6, TellGoneSound
  <2> HIDE DEF T
  <2>8. /\ Sound(U, X, Z, W)
        /\ SameStanding(T, U) /\ U.alive = T.alive /\ U.attacked = T.attacked
        /\ \A d \in Creature : U.summons[d] \subseteq T.summons[d]
        /\ U.summons[c] = T.summons[c]
    BY <2>7, PartedSound
  <2> HIDE DEF U
  <2>9. MayGo(U, c)
    <3>1. U.place = S.place /\ U.attacked = F.attacked /\ U.spawned = S.spawned
      BY <2>3, <2>7, <2>8 DEF KnownGone, SameBody, SameStanding
    <3>2. \A d \in Creature : d # c /\ InWorld(U, d) => U.attacked[d] # c
      BY <2>2, <2>3, <3>1, CreatureFacts DEF InWorld
    <3>3. c \in Monster /\ U.spawned[c] => U.event
      <4>1. c \in Monster /\ S.spawned[c] => S.home[c]
        BY DEF Sound, Replaced
      <4>2. InWorld(F, c) /\ F.home = S.home /\ U.event = T.event
        BY <1>2, <2>3, <2>8 DEF SameBody, SameStanding, InWorld
      <4> QED BY <2>7, <3>1, <4>1, <4>2
    <3> QED BY <1>2, <3>1, <3>2, <3>3 DEF MayGo, InWorld
  <2>10. /\ Sound(V, X \cup U.summons[c], Y, W)
         /\ SameTies(U, V)
         /\ \A d \in Creature : V.place[d] = IF d = c THEN None ELSE U.place[d]
    <3>1. Sound(U, X, Y \cup Unaware(c, Monster), W)
      BY <2>8
    <3> HIDE DEF Z
    <3> QED BY ONLY <2>9, <3>1, TakeOutSound
  <2> HIDE DEF V
  <2>11. /\ U.summons[c] = S.summons[c] /\ U.place = S.place
         /\ \A d \in Creature : V.summons[d] \subseteq S.summons[d]
         /\ V.summons[c] = S.summons[c]
         /\ SameLife(S, V)
    BY <2>3, <2>7, <2>8, <2>10
       DEF KnownGone, SameBody, SameStanding, SameTies, SameLife
  <2>12. ~InWorld(V, c)
    BY <2>10 DEF InWorld
  <2>13. Sound(V, (X \cup S.summons[c]) \ {c}, Y, W)
    BY <2>10, <2>11, <2>12, BondsLess
  <2>14. c \notin S.summons[c]
    BY CreatureFacts DEF Sound, Bonds
  <2>15. (X \cup S.summons[c]) \ {c} = Bereft(S, X, c)
    BY <1>2, <2>14 DEF Bereft
  <2>16. Left(S, V, c)
    BY <2>10, <2>11 DEF Left
  <2> QED BY <2>1, <2>13, <2>15, <2>16 DEF V
<1> QED BY <1>1, <1>2

\* Those of C, who are nobody's masters, have been taken out.
AllOut(S, T, C) ==
    /\ SameLife(S, T)
    /\ \A d \in Creature : T.place[d] = IF d \in C THEN None ELSE S.place[d]

MayAllGo(S, C, order) ==
    /\ C \subseteq Monster /\ Covers(S, order)
    /\ \A d \in C : S.summons[d] = {}

LEMMA RemoveAllSound ==
    ASSUME NEW S, NEW X, NEW Y, NEW W, NEW C, NEW order,
           Sound(S, X, Y, W), MayAllGo(S, C, order)
    PROVE  LET T == RemoveAll(S, C, order)
           IN  Sound(T, X \ C, Y, W) /\ AllOut(S, T, C)
<1> DEFINE n == Len(order)
           gone(i) == {order[j] : j \in {k \in 1..i : order[k] \in C}}
<1>0. Len(order) \in Nat /\ Covers(S, order) /\ C \subseteq Monster /\ C \subseteq Creature
  BY CreatureFacts DEF MayAllGo, Covers
<1>1. PICK f : /\ f[0] = S
               /\ \A i \in 1..Len(order) : f[i] = RemoveNext(f[i - 1], C, order, i)
               /\ RemoveAll(S, C, order) = f[Len(order)]
  BY RemoveAllIs, <1>0
<1> DEFINE Good(i) == /\ Sound(f[i], X \ gone(i), Y, W)
                      /\ AllOut(S, f[i], gone(i))
                      /\ \A d \in C : f[i].summons[d] = {}
           A == {i \in Nat : i <= n => Good(i)}
<1>2. 0 \in A
  <2>1. gone(0) = {}
    OBVIOUS
  <2>2. Good(0)
    BY <1>1, <2>1 DEF AllOut, SameLife, MayAllGo
  <2> QED BY <2>2
<1>3. ASSUME NEW i \in Nat, i \in A PROVE i + 1 \in A
  <2> SUFFICES ASSUME i + 1 <= n PROVE Good(i + 1)
    OBVIOUS
  <2>1. Good(i)
    BY <1>0, <1>3
  <2> DEFINE m == order[i + 1]
             T == f[i]
             U == f[i + 1]
             P == gone(i)
             Q == gone(i + 1)
  <2>2. i + 1 \in 1..n
    BY <1>0
  <2>3. U = IF m \in C THEN RemoveOne(T, m, order) ELSE T
    <3>1. U = RemoveNext(f[(i + 1) - 1], C, order, i + 1)
      BY <1>1, <2>2
    <3> QED BY <3>1 DEF RemoveNext
  <2>4. /\ m \in C => Q = P \cup {m}
        /\ m \notin C => Q = P
    <3>1. ASSUME NEW x PROVE x \in Q <=> x \in P \/ (m \in C /\ x = m)
      OBVIOUS
    <3> HIDE DEF P, Q, m
    <3> QED BY <3>1
  <2>5. /\ Sound(T, X \ P, Y, W) /\ AllOut(S, T, P) /\ \A d \in C : T.summons[d] = {}
    BY <2>1
  <2> HIDE DEF m, T, U, P, Q
  <2>6. CASE m \in C
    <3>1. Covers(T, order)
      BY <1>0, <2>5, CreatureFacts DEF Covers, AllOut, InWorld
    <3> DEFINE K == RemoveOne(T, m, order)
    <3>2. m \in Creature
      BY <1>0, <2>6
    <3> DEFINE R == X \ P
    <3>3. Sound(T, R, Y, W)
      BY <2>5
    <3> HIDE DEF R
    <3>4. Sound(K, Bereft(T, R, m), Y, W) /\ Left(T, K, m)
      BY <3>1, <3>2, <3>3, RemoveOneSound
    <3> HIDE DEF K
    <3>5. Bereft(T, R, m) = X \ Q
      BY <2>4, <2>5, <2>6 DEF R, Bereft
    <3>6. AllOut(S, K, Q)
      BY <2>4, <2>5, <2>6, <3>4, SameLifeTwice DEF AllOut, Left
    <3>7. \A d \in C : K.summons[d] = {}
      BY <1>0, <2>5, <3>4 DEF Left
    <3>8. U = K
      BY <2>3, <2>6 DEF K
    <3> QED BY <3>4, <3>5, <3>6, <3>7, <3>8 DEF U, Q
  <2>7. CASE m \notin C
    BY <2>3, <2>4, <2>5, <2>7 DEF T, U, P, Q
  <2> QED BY <2>6, <2>7
<1> HIDE DEF A
<1>4. Good(n)
  <2>1. Nat \subseteq A
    BY <1>2, <1>3, SetInduction
  <2> HIDE DEF Good
  <2> QED BY <1>0, <2>1 DEF A
<1> DEFINE T == f[n]
           G == gone(n)
<1>5. G \subseteq C
  OBVIOUS
<1>6. \A m \in C : InWorld(S, m) => m \in G
  <2> SUFFICES ASSUME NEW m \in C, InWorld(S, m) PROVE m \in G
    OBVIOUS
  <2>1. PICK i \in 1..n : order[i] = m
    BY <1>0 DEF Covers
  <2> QED BY <2>1
<1>7. Sound(T, X \ G, Y, W) /\ AllOut(S, T, G) /\ RemoveAll(S, C, order) = T
  BY <1>1, <1>4
<1> HIDE DEF T, G
<1>8. \A m \in C : ~InWorld(T, m)
  BY <1>0, <1>6, <1>7 DEF AllOut, InWorld
<1>9. AllOut(S, T, C)
  BY <1>0, <1>5, <1>6, <1>7 DEF AllOut, InWorld
<1>10. Bonds(T, X \ C)
  BY <1>7, <1>8 DEF Sound, Bonds
<1> QED BY <1>7, <1>9, <1>10 DEF Sound

LEMMA RemoveCreatureSound ==
    ASSUME NEW S, NEW Y, NEW W, NEW c, NEW order, c \in Creature,
           Sound(S, {}, Y, W), Covers(S, order)
    PROVE  LET T == RemoveCreature(S, c, order)
           IN  Sound(T, {}, Y, W) /\ SameLife(S, T)
<1>1. CASE ~InWorld(S, c)
  BY <1>1 DEF RemoveCreature, SameLife
<1>2. CASE InWorld(S, c)
  <2> DEFINE X == {}
             T == RemoveOne(S, c, order)
             C == T.summons[c]
             U == RemoveAll(T, C, order)
  <2>1. Sound(T, Bereft(S, X, c), Y, W) /\ Left(S, T, c)
    <3> HIDE DEF X
    <3>1. Sound(S, X, Y, W)
      BY DEF X
    <3>2. c \in Creature /\ Covers(S, order)
      OBVIOUS
    <3> QED BY ONLY <3>1, <3>2, RemoveOneSound
  <2>2. RemoveCreature(S, c, order) = U
    BY <1>2 DEF RemoveCreature
  <2> HIDE DEF T
  <2>3. Sound(T, C, Y, W)
    <3>1. Bereft(S, X, c) = C
      BY <1>2, <2>1 DEF Bereft, Left
    <3> QED BY <2>1, <3>1
  <2>4. MayAllGo(T, C, order)
    <3>1. C \subseteq Monster
      BY <2>3 DEF Sound, States
    <3>2. Covers(T, order)
      BY <2>1, CreatureFacts DEF Covers, InWorld, Left
    <3>3. \A d \in C : T.summons[d] = {}
      BY <2>3, <3>1, CreatureFacts DEF Sound, Bonds
    <3> QED BY <3>1, <3>2, <3>3 DEF MayAllGo
  <2> HIDE DEF C
  <2>5. Sound(U, C \ C, Y, W) /\ AllOut(T, U, C)
    BY <2>3, <2>4, RemoveAllSound
  <2>6. C \ C = {}
    OBVIOUS
  <2>7. SameLife(S, U)
    BY <2>1, <2>5, SameLifeTwice DEF AllOut, Left
  <2> QED BY <2>2, <2>5, <2>6, <2>7
<1> QED BY <1>1, <1>2

-----------------------------------------------------------------------------
(* Into the world.                                                         *)

\* What a coming leaves as it was.
Arrived(S, T, c, q) ==
    /\ T.exists = S.exists /\ T.alive = S.alive /\ T.home = S.home
    /\ T.spawned = S.spawned
    /\ \A d \in Creature : T.place[d] = IF d = c THEN q ELSE S.place[d]

LEMMA PlaceCreatureSound ==
    ASSUME NEW S, NEW Y, NEW W, NEW c, NEW q, NEW order, Sound(S, {}, Y, W),
           MayCome(S, c, q), Covers(PlaceAt(S, c, q), order)
    PROVE  LET T == PlaceCreature(S, c, q, order)
           IN  Sound(T, {}, Y, W) /\ Arrived(S, T, c, q)
<1> DEFINE P == PlaceAt(S, c, q)
           X == {}
           e == [op |-> "appear", who |-> c]
           M == Near(P, c) \cup {c}
           T == Tell(P, M, order, e)
           U == AddCheck(T, c)
<1>0. c \in Creature /\ q # None
  BY CreatureFacts DEF MayCome
<1>1. U = PlaceCreature(S, c, q, order)
  BY DEF PlaceCreature, PlaceAt
<1>2. /\ Sound(P, X, Y \cup Unaware(c, Monster), W \cup {c})
      /\ SameTies(S, P)
      /\ \A d \in Creature : P.place[d] = IF d = c THEN q ELSE S.place[d]
  <2>1. Sound(S, X, Y, W)
    OBVIOUS
  <2>2. MayCome(S, c, q)
    OBVIOUS
  <2>3. Placed(S, P, X, Y, W, c, q)
    BY <2>1, <2>2, PlaceSound
  <2> QED BY <2>3 DEF Placed
<1>3. Covers(P, order)
  OBVIOUS
<1> HIDE DEF P
<1>5. ToldOf(P, M, order, e, c)
  <2>1. News(P, e, c)
    BY <1>0, <1>2 DEF News, InWorld
  <2>2. \A m \in Monster : InWorld(P, m) /\ (m = c \/ c \in Near(P, m)) => m \in M
    BY CreatureFacts DEF Near, Sees, InWorld
  <2> QED BY <1>3, <2>1, <2>2 DEF ToldOf
<1> HIDE DEF M, e
<1>6. Sound(T, X, Y, W \cup {c}) /\ SameBody(P, T)
  <2> HIDE DEF X
  <2> QED BY <1>2, <1>5, TellSound
<1> HIDE DEF T
<1>7. T \in States
  BY <1>6 DEF Sound
<1>8. /\ Minds(T, U, {c}) /\ U.targets = T.targets /\ U.idle = T.idle
      /\ T.checked[c] /\ T.listed[c] => U.checked[c] /\ U.listed[c]
      /\ InWorld(T, c) => U.checked[c] /\ U.listed[c]
  BY <1>0, <1>7, AddCheckMinds
<1> HIDE DEF U
<1>9. SameBody(T, U)
  BY <1>8 DEF Minds
<1>10. Vigil(U, Y)
  <2> SUFFICES ASSUME NEW m \in Monster, NEW d \in Creature, <<m, d>> \notin Y
               PROVE  Watches(U, m, d)
    BY DEF Vigil
  <2>1. Watches(T, m, d)
    BY <1>6 DEF Sound, Vigil
  <2>2. CASE m # c
    BY <1>8, <2>1, <2>2, CreatureFacts, OthersWatch
  <2>3. CASE m = c
    <3>1. /\ U.alive = T.alive /\ U.master = T.master
          /\ d \in Near(U, m) <=> d \in Near(T, m)
          /\ Opponent(U, m, d) <=> Opponent(T, m, d)
      BY <1>9, SameSight DEF SameBody
    <3> QED BY <1>8, <2>1, <2>3, <3>1 DEF Watches
  <2> QED BY <2>2, <2>3
<1>11. Sound(U, X, Y, W \cup {c})
  <2> HIDE DEF X
  <2> QED BY <1>6, <1>8, <1>10, MindsSound
<1>a. Awaits(U, W)
  <2>1. Awaits(U, W \cup {c})
    BY <1>11 DEF Sound
  <2>2. Due(U, c) => Waits(U, c)
    <3>1. InWorld(U, c) => InWorld(T, c)
      BY <1>9, SameSight
    <3> QED BY <1>8, <3>1 DEF Waits, Due
  <2> QED BY <2>1, <2>2 DEF Awaits
<1>b. Sound(U, X, Y, W)
  BY <1>11, <1>a DEF Sound
<1>12. Arrived(S, U, c, q)
  BY <1>2, <1>6, <1>9 DEF Arrived, SameBody, SameTies
<1> QED BY <1>1, <1>b, <1>12

\* A free address.
MayBe(S, c) == c \in Creature /\ ~S.exists[c]

LEMMA FreeFacts ==
    ASSUME NEW S, NEW X, NEW Y, NEW W, NEW c, Sound(S, X, Y, W), MayBe(S, c)
    PROVE  /\ ~InWorld(S, c) /\ ~S.spawned[c] /\ S.master[c] = None /\ S.attacked[c] = None
           /\ S.summons[c] = {} /\ ~S.home[c] /\ S.refs[c] = 0
<1>1. S \in States /\ Held(S) /\ c \in Creature /\ ~S.exists[c]
  BY DEF Sound, MayBe
<1>2. /\ ~InWorld(S, c) /\ ~S.spawned[c] /\ S.refs[c] = 0
      /\ \A d \in Creature : c \notin S.summons[d]
  BY <1>1, NotThere
<1>3. S.master[c] = None
  BY <1>1, <1>2 DEF Sound, Bonds, States
<1> QED BY <1>1, <1>2, <1>3 DEF Sound, Blank

\* Nothing but the object.
Born(S, T, c) ==
    /\ \A d \in Creature : T.exists[d] <=> S.exists[d] \/ d = c
    /\ T.place = S.place /\ T.master = S.master /\ T.summons = S.summons
    /\ T.attacked = S.attacked /\ T.home = S.home /\ T.spawned = S.spawned
    /\ T.refs = S.refs /\ T.event = S.event

LEMMA CreateSound ==
    ASSUME NEW S, NEW X, NEW Y, NEW W, NEW c, Sound(S, X, Y, W), MayBe(S, c)
    PROVE  Sound(Create(S, c), X, Y, W) /\ Born(S, Create(S, c), c)
<1> DEFINE T == Create(S, c)
           E == [S.exists EXCEPT ![c] = TRUE]
           A == [S.alive EXCEPT ![c] = TRUE]
           I == [S.idle EXCEPT ![c] = c \in Monster]
<1>0. S \in States /\ c \in Creature /\ ~InWorld(S, c)
  BY FreeFacts DEF Sound, MayBe
<1>1. /\ E \in [Creature -> BOOLEAN] /\ A \in [Creature -> BOOLEAN]
      /\ I \in [Creature -> BOOLEAN]
  BY <1>0 DEF States
<1>2. T = [[[S EXCEPT !.exists = E] EXCEPT !.alive = A] EXCEPT !.idle = I]
  BY <1>0 DEF Create, States
<1>3. /\ \A d \in Creature : E[d] <=> S.exists[d] \/ d = c
      /\ \A d \in Creature : d # c => A[d] = S.alive[d] /\ I[d] = S.idle[d]
  BY <1>0 DEF States
<1> HIDE DEF E, A, I
<1>4. T \in States
  BY <1>0, <1>1, <1>2 DEF States
<1>5. /\ T.exists = E /\ T.alive = A /\ T.idle = I
      /\ T.place = S.place /\ T.master = S.master /\ T.summons = S.summons
      /\ T.attacked = S.attacked /\ T.home = S.home /\ T.spawned = S.spawned
      /\ T.refs = S.refs /\ T.event = S.event /\ T.targets = S.targets
      /\ T.checked = S.checked /\ T.listed = S.listed /\ T.releases = S.releases
  BY <1>0, <1>2 DEF States
<1> HIDE DEF T
<1>6. /\ \A d : InWorld(T, d) <=> InWorld(S, d)
      /\ \A d, x : Sees(T, d, x) <=> Sees(S, d, x)
      /\ \A d, x : x \in Near(T, d) <=> x \in Near(S, d)
      /\ \A d, x : Opponent(T, d, x) <=> Opponent(S, d, x)
  BY <1>5 DEF InWorld, Sees, Near, Opponent
<1>7. Held(T)
  <2>1. \A d : One(InWorld(T, d)) = One(InWorld(S, d))
    BY <1>6 DEF One
  <2>2. \A d \in Creature : S.exists[d] => T.exists[d]
    BY <1>3, <1>5
  <2> QED BY <1>5, <2>1, <2>2 DEF Held, Sound
<1>8. Bonds(T, X)
  BY <1>5, <1>6 DEF Bonds, Sound
<1>9. Aimed(T)
  BY <1>5, <1>6 DEF Aimed, Sound
<1>10. Blank(T)
  BY <1>3, <1>5 DEF Blank, Sound
<1>11. Replaced(T)
  BY <1>5, <1>6 DEF Replaced, Sound
<1>12. Vigil(T, Y)
  <2>1. ASSUME NEW m \in Monster, NEW d, Watches(S, m, d) PROVE Watches(T, m, d)
    <3>1. CASE m = c
      BY <1>0, <1>6, <3>1, Blind
    <3>2. CASE m # c
      BY <1>3, <1>5, <1>6, <2>1, <3>2, CreatureFacts DEF Watches
    <3> QED BY <3>1, <3>2
  <2> QED BY <2>1 DEF Vigil, Sound
<1>13. Awaits(T, W)
  BY <1>0, <1>3, <1>5, <1>6 DEF Awaits, Waits, Due, Sound
<1>14. Born(S, T, c)
  BY <1>3, <1>5 DEF Born
<1> QED BY <1>4, <1>7, <1>8, <1>9, <1>10, <1>11, <1>12, <1>13, <1>14 DEF Sound, T

-----------------------------------------------------------------------------
(* What is released and what is deleted.                                   *)

\* Nothing but references and releases.
LEMMA CleanupSound ==
    ASSUME NEW S, NEW X, NEW Y, NEW W, Sound(S, X, Y, W)
    PROVE  Sound(Cleanup(S), X, Y, W)
<1> DEFINE T == Cleanup(S)
           R == [c \in Creature |-> S.refs[c] - S.releases[c]]
           L == [c \in Creature |-> 0]
<1>0. S \in States
  BY DEF Sound
<1>1. R \in [Creature -> Int] /\ L \in [Creature -> Nat]
  BY <1>0 DEF States
<1>2. T = [[S EXCEPT !.refs = R] EXCEPT !.releases = L]
  BY <1>0 DEF Cleanup, States
<1>3. \A c \in Creature : R[c] = S.refs[c] - S.releases[c] /\ L[c] = 0
  OBVIOUS
<1> HIDE DEF R, L
<1>4. T \in States
  BY <1>0, <1>1, <1>2 DEF States
<1>5. /\ SameMind(S, T)
      /\ T.attacked = S.attacked
      /\ T.exists = S.exists /\ T.place = S.place /\ T.alive = S.alive
      /\ T.master = S.master /\ T.summons = S.summons /\ T.home = S.home
      /\ T.spawned = S.spawned /\ T.event = S.event /\ T.refs = R /\ T.releases = L
  BY <1>0, <1>2 DEF States, SameBody, SameMind
<1> HIDE DEF T
<1>6. /\ \A d : InWorld(T, d) <=> InWorld(S, d)
      /\ \A d, x : Sees(T, d, x) <=> Sees(S, d, x)
      /\ \A d, x : x \in Near(T, d) <=> x \in Near(S, d)
      /\ \A d, x : Opponent(T, d, x) <=> Opponent(S, d, x)
  BY <1>5 DEF InWorld, Sees, Near, Opponent
<1>7. Held(T)
  <2> SUFFICES ASSUME NEW d \in Creature
               PROVE  /\ T.refs[d] = Refer(T.summons, d) + Refer(T.targets, d)
                           + One(InWorld(T, d)) + One(T.listed[d]) + One(T.spawned[d])
                           + T.releases[d]
                      /\ T.refs[d] > 0 => T.exists[d]
    BY DEF Held
  <2>1. One(InWorld(T, d)) = One(InWorld(S, d))
    BY <1>6 DEF One
  <2>2. /\ S.refs[d] = Refer(S.summons, d) + Refer(S.targets, d) + One(InWorld(S, d))
                       + One(S.listed[d]) + One(S.spawned[d]) + S.releases[d]
        /\ S.refs[d] > 0 => S.exists[d]
    BY DEF Held, Sound
  <2>3. /\ T.listed[d] = S.listed[d] /\ T.spawned[d] = S.spawned[d]
        /\ T.exists[d] = S.exists[d] /\ T.refs[d] = S.refs[d] - S.releases[d]
        /\ T.targets = S.targets /\ T.summons = S.summons /\ T.releases[d] = 0
    BY <1>3, <1>5 DEF SameMind
  <2>4. /\ S.refs[d] \in Int /\ S.releases[d] \in Nat
        /\ Refer(S.summons, d) \in Nat /\ Refer(S.targets, d) \in Nat
        /\ One(InWorld(S, d)) \in Nat /\ One(S.listed[d]) \in Nat
        /\ One(S.spawned[d]) \in Nat
    BY <1>0, HeldTypes
  <2> QED BY ONLY <2>1, <2>2, <2>3, <2>4
<1>8. Bonds(T, X)
  BY <1>5, <1>6 DEF Bonds, Sound
<1>9. Aimed(T)
  BY <1>5, <1>6 DEF Aimed, Sound
<1>10. Blank(T)
  BY <1>5 DEF Blank, Sound
<1>11. Replaced(T)
  BY <1>5, <1>6 DEF Replaced, Sound
<1>12. Vigil(T, Y)
  BY <1>5, <1>6 DEF Vigil, Watches, Sound, SameMind
<1>13. Awaits(T, W)
  BY <1>5, <1>6 DEF Awaits, Waits, Due, Sound, SameMind
<1> QED BY <1>4, <1>7, <1>8, <1>9, <1>10, <1>11, <1>12, <1>13 DEF Sound, T

\* How many references the destructors of C give back.
Freed(S, C, c) == Given(S.targets, C, c) + Given(S.summons, C, c)

Existing(S) == {c \in Creature : S.exists[c]}

\* What the destructors of C leave.
Deleted(S, T, C) ==
    \A c \in Creature :
        /\ T.exists[c] <=> S.exists[c] /\ c \notin C
        /\ T.refs[c] = S.refs[c] - Freed(S, C, c)

LEMMA DeleteSound ==
    ASSUME NEW S, NEW Y, NEW W, Sound(S, {}, Y, W)
    PROVE  /\ Sound(Delete(S, Lost(S)), {}, Y, W)
           /\ Deleted(S, Delete(S, Lost(S)), Lost(S))
<1> DEFINE C == Lost(S)
           T == Delete(S, C)
           Keep(f) == [c \in Creature |-> f[c] /\ c \notin C]
           Empty(f) == [c \in Creature |-> IF c \in C THEN {} ELSE f[c]]
           R == [c \in Creature |-> S.refs[c] - Freed(S, C, c)]
           M == [c \in Creature |->
                    IF c \in C \/ S.master[c] \in C THEN None ELSE S.master[c]]
           F == [c \in Creature |->
                    IF c \in C \/ \E d \in C : c \in S.summons[d] THEN None
                    ELSE S.attacked[c]]
           E == Keep(S.exists)
           A == Keep(S.alive)
           I == Keep(S.idle)
           N == Keep(S.inRange)
           H == Keep(S.home)
           K == Keep(S.checked)
           L == Empty(S.summons)
           G == Empty(S.targets)
<1>0. S \in States /\ Held(S) /\ C \subseteq Creature
  BY DEF Sound, Lost
<1>1. \A c \in C : /\ ~InWorld(S, c) /\ ~S.listed[c] /\ ~S.spawned[c]
                   /\ \A d \in Creature : c \notin S.summons[d] /\ c \notin S.targets[d]
  <2> SUFFICES ASSUME NEW c \in C
               PROVE  /\ ~InWorld(S, c) /\ ~S.listed[c] /\ ~S.spawned[c]
                      /\ \A d \in Creature : c \notin S.summons[d] /\ c \notin S.targets[d]
    OBVIOUS
  <2>1. c \in Creature /\ S.refs[c] <= 0
    BY DEF Lost
  <2> QED BY <1>0, <2>1, Unreferenced
<1>2. \A c \in C : S.refs[c] = 0
  BY DEF Lost
<1>a. T = [S EXCEPT
            !.exists = E, !.alive = A, !.idle = I, !.inRange = N, !.home = H, !.checked = K,
            !.refs = R, !.master = M, !.attacked = F, !.summons = L, !.targets = G]
  BY <1>0 DEF Delete, Freed, Given, States
<1> HIDE DEF C
<1>3. Emptied(S.targets, G, C) /\ Emptied(S.summons, L, C)
  BY <1>0 DEF Emptied
<1>4. ASSUME NEW c \in Creature
      PROVE  /\ Refer(G, c) = Refer(S.targets, c) - Given(S.targets, C, c)
             /\ Refer(L, c) = Refer(S.summons, c) - Given(S.summons, C, c)
             /\ Given(S.targets, C, c) \in Nat /\ Given(S.summons, C, c) \in Nat
  <2> HIDE DEF G, L
  <2> QED BY <1>3, ReferLess
<1>5. /\ E \in [Creature -> BOOLEAN] /\ A \in [Creature -> BOOLEAN]
      /\ I \in [Creature -> BOOLEAN] /\ N \in [Creature -> BOOLEAN]
      /\ H \in [Creature -> BOOLEAN] /\ K \in [Creature -> BOOLEAN]
      /\ M \in [Creature -> Creature \cup {None}]
      /\ F \in [Creature -> Creature \cup {None}]
      /\ L \in [Creature -> SUBSET Monster] /\ G \in [Creature -> SUBSET Creature]
  BY <1>0 DEF States
<1>6. R \in [Creature -> Int]
  <2>1. \A c \in Creature : Freed(S, C, c) \in Nat
    <3> SUFFICES ASSUME NEW c \in Creature PROVE Freed(S, C, c) \in Nat
      OBVIOUS
    <3>1. Given(S.targets, C, c) \in Nat /\ Given(S.summons, C, c) \in Nat
      BY <1>4
    <3> QED BY ONLY <3>1 DEF Freed
  <2> QED BY <1>0, <2>1 DEF States
<1>7. \A c \in Creature :
        /\ E[c] <=> S.exists[c] /\ c \notin C
        /\ H[c] <=> S.home[c] /\ c \notin C
        /\ A[c] <=> S.alive[c] /\ c \notin C
        /\ I[c] <=> S.idle[c] /\ c \notin C
        /\ K[c] <=> S.checked[c] /\ c \notin C
        /\ R[c] = S.refs[c] - Freed(S, C, c)
        /\ M[c] = IF c \in C \/ S.master[c] \in C THEN None ELSE S.master[c]
        /\ F[c] \in {None, S.attacked[c]} /\ (c \in C => F[c] = None)
        /\ L[c] = IF c \in C THEN {} ELSE S.summons[c]
        /\ G[c] = IF c \in C THEN {} ELSE S.targets[c]
  OBVIOUS
<1>8. /\ T.exists = E /\ T.alive = A /\ T.idle = I /\ T.home = H /\ T.checked = K
      /\ T.refs = R /\ T.master = M /\ T.attacked = F /\ T.summons = L /\ T.targets = G
      /\ T.place = S.place /\ T.listed = S.listed /\ T.spawned = S.spawned
      /\ T.releases = S.releases /\ T.event = S.event
  <2> HIDE DEF T, E, A, I, N, H, K, R, M, F, L, G
  <2> QED BY <1>0, <1>a DEF States
<1>9. T \in States
  <2> HIDE DEF T, E, A, I, N, H, K, R, M, F, L, G
  <2> DEFINE T1 == [[[[S EXCEPT !.exists = E] EXCEPT !.alive = A]
                EXCEPT !.idle = I] EXCEPT !.inRange = N]
             T2 == [[[T1 EXCEPT !.home = H] EXCEPT !.checked = K] EXCEPT !.refs = R]
             T3 == [[[[T2 EXCEPT !.master = M] EXCEPT !.attacked = F]
                EXCEPT !.summons = L] EXCEPT !.targets = G]
  <2>1. T1 \in States
    BY <1>0, <1>5 DEF States
  <2>2. T = [T1 EXCEPT !.home = H, !.checked = K, !.refs = R, !.master = M, !.attacked = F,
                       !.summons = L, !.targets = G]
    BY <1>0, <1>a DEF States
  <2> HIDE DEF T1
  <2>3. T2 \in States
    BY <1>5, <1>6, <2>1 DEF States
  <2>4. T = [T2 EXCEPT !.master = M, !.attacked = F, !.summons = L, !.targets = G]
    BY <2>1, <2>2 DEF States
  <2> HIDE DEF T2
  <2>5. T3 \in States
    BY <1>5, <2>3 DEF States
  <2>6. T = T3
    BY <2>3, <2>4 DEF States
  <2> QED BY <2>5, <2>6
<1> HIDE DEF T, E, A, I, N, H, K, R, M, F, L, G
<1>10. /\ \A d : InWorld(T, d) <=> InWorld(S, d)
       /\ \A d, x : Sees(T, d, x) <=> Sees(S, d, x)
       /\ \A d, x : x \in Near(T, d) <=> x \in Near(S, d)
  BY <1>8 DEF InWorld, Sees, Near
<1>11. Held(T)
  <2> SUFFICES ASSUME NEW c \in Creature
               PROVE  /\ T.refs[c] = Refer(T.summons, c) + Refer(T.targets, c)
                           + One(InWorld(T, c)) + One(T.listed[c]) + One(T.spawned[c])
                           + T.releases[c]
                      /\ T.refs[c] > 0 => T.exists[c]
    BY DEF Held
  <2> DEFINE i == Given(S.targets, C, c)
             j == Given(S.summons, C, c)
  <2>1. One(InWorld(T, c)) = One(InWorld(S, c))
    BY <1>10 DEF One
  <2>2. /\ S.refs[c] = Refer(S.summons, c) + Refer(S.targets, c) + One(InWorld(S, c))
                       + One(S.listed[c]) + One(S.spawned[c]) + S.releases[c]
        /\ S.refs[c] > 0 => S.exists[c]
    BY DEF Held, Sound
  <2>3. /\ T.listed[c] = S.listed[c] /\ T.spawned[c] = S.spawned[c]
        /\ T.releases[c] = S.releases[c] /\ T.refs[c] = S.refs[c] - (i + j)
    BY <1>7, <1>8 DEF Freed
  <2>4. /\ S.refs[c] \in Int /\ S.releases[c] \in Nat
        /\ Refer(S.summons, c) \in Nat /\ Refer(S.targets, c) \in Nat
        /\ One(InWorld(S, c)) \in Nat /\ One(S.listed[c]) \in Nat
        /\ One(S.spawned[c]) \in Nat
    BY <1>0, HeldTypes
  <2>5. i \in Nat /\ j \in Nat
    BY <1>4
  <2>6. /\ Refer(T.targets, c) = Refer(S.targets, c) - i
        /\ Refer(T.summons, c) = Refer(S.summons, c) - j
    BY <1>4, <1>8
  <2>7. T.exists[c] <=> S.exists[c] /\ c \notin C
    BY <1>7, <1>8
  <2>8. c \in C => S.refs[c] = 0
    BY <1>2
  <2> HIDE DEF i, j
  <2> QED BY ONLY <2>1, <2>2, <2>3, <2>4, <2>5, <2>6, <2>7, <2>8
<1>12. Bonds(S, {}) /\ None \notin C
  BY <1>0, CreatureFacts DEF Sound
<1>13. Bonds(T, {})
  <2>1. ASSUME NEW c \in Creature, NEW d \in Creature
        PROVE  T.master[c] = d <=> c \in T.summons[d]
    <3>1. S.master[c] = d <=> c \in S.summons[d]
      BY <1>12 DEF Bonds
    <3>2. T.master[c] = IF c \in C \/ S.master[c] \in C THEN None ELSE S.master[c]
      BY <1>7, <1>8
    <3>3. T.summons[d] = IF d \in C THEN {} ELSE S.summons[d]
      BY <1>7, <1>8
    <3> QED BY <1>1, <3>1, <3>2, <3>3, CreatureFacts
  <2>2. ASSUME NEW c \in Creature, T.master[c] # None
        PROVE  T.summons[c] = {} /\ (InWorld(T, c) => InWorld(T, T.master[c]))
    <3>1. T.master[c] = S.master[c]
      BY <1>7, <1>8, <2>2
    <3>2. S.summons[c] = {} /\ (InWorld(S, c) => InWorld(S, S.master[c]))
      BY <1>12, <2>2, <3>1 DEF Bonds
    <3> QED BY <1>7, <1>8, <1>10, <3>1, <3>2
  <2> QED BY <2>1, <2>2 DEF Bonds
<1>14. Aimed(T)
  <2>1. \A c \in Creature : T.attacked[c] \in {None, S.attacked[c]}
    BY <1>7, <1>8
  <2> QED BY <1>10, <2>1 DEF Sound, Aimed
<1>15. Blank(T)
  <2> SUFFICES ASSUME NEW c \in Creature, ~T.exists[c]
               PROVE  T.attacked[c] = None /\ T.summons[c] = {} /\ ~T.home[c]
    BY DEF Blank
  <2>1. c \in C \/ ~S.exists[c]
    BY <1>7, <1>8
  <2>2. CASE c \in C
    BY <1>7, <1>8, <2>2
  <2>3. CASE ~S.exists[c] /\ c \notin C
    <3>1. S.attacked[c] = None /\ S.summons[c] = {} /\ ~S.home[c]
      BY <2>3 DEF Sound, Blank
    <3> QED BY <1>7, <1>8, <2>3, <3>1
  <2> QED BY <2>1, <2>2, <2>3
<1>16. Replaced(T)
  <2>1. Replaced(S)
    BY DEF Sound
  <2>2. \A m \in Monster : T.home[m] <=> S.home[m] /\ m \notin C
    BY <1>7, <1>8, CreatureFacts
  <2> QED BY <1>1, <1>8, <1>10, <2>1, <2>2 DEF Replaced
<1>17. Vigil(T, Y)
  <2> SUFFICES ASSUME NEW m \in Monster, NEW d \in Creature, <<m, d>> \notin Y
               PROVE  Watches(T, m, d)
    BY DEF Vigil
  <2>0. m \in Creature
    BY CreatureFacts
  <2>1. CASE ~InWorld(T, m)
    BY <2>1, Blind
  <2>2. CASE d \notin Near(T, m)
    BY <2>2 DEF Watches
  <2>3. CASE InWorld(T, m) /\ d \in Near(T, m)
    <3>1. InWorld(S, m) /\ InWorld(S, d) /\ d \in Near(S, m)
      BY <1>10, <2>3 DEF Near, Sees, InWorld
    <3>2. m \notin C /\ d \notin C
      BY <1>1, <3>1
    <3>3. \A x \in {m, d} : S.master[x] \notin C
      <4> SUFFICES ASSUME NEW x \in {m, d}, S.master[x] \in C PROVE FALSE
        OBVIOUS
      <4>1. x \in Creature /\ S.master[x] \in Creature
        BY <1>0, <2>0
      <4>2. x \in S.summons[S.master[x]]
        BY <1>12, <4>1 DEF Bonds
      <4>3. S.master[x] # None
        BY <1>12
      <4>4. InWorld(S, S.master[x])
        BY <1>12, <3>1, <4>1, <4>3 DEF Bonds
      <4> QED BY <1>1, <4>4
    <3>4. T.master[m] = S.master[m] /\ T.master[d] = S.master[d]
      BY <1>7, <1>8, <2>0, <3>2, <3>3
    <3>5. Opponent(T, m, d) <=> Opponent(S, m, d)
      BY <3>4 DEF Opponent
    <3>6. /\ T.alive[m] <=> S.alive[m]
          /\ T.idle[m] <=> S.idle[m]
          /\ T.checked[m] <=> S.checked[m]
          /\ T.targets[m] = S.targets[m] /\ T.listed[m] = S.listed[m]
      BY <1>7, <1>8, <2>0, <3>2
    <3>7. Watches(S, m, d)
      BY DEF Sound, Vigil
    <3> QED BY <3>1, <3>4, <3>5, <3>6, <3>7 DEF Watches
  <2> QED BY <2>1, <2>2, <2>3
<1>18. Awaits(T, W)
  <2> SUFFICES ASSUME NEW c \in Creature \ W, Due(T, c) PROVE Waits(T, c)
    BY DEF Awaits
  <2>1. InWorld(S, c) /\ c \notin C
    BY <1>1, <1>10 DEF Due
  <2>2. T.alive[c] <=> S.alive[c]
    BY <1>7, <1>8, <2>1
  <2>3. Waits(S, c)
    BY <2>1, <2>2 DEF Sound, Awaits, Due
  <2> QED BY <1>7, <1>8, <2>1, <2>3 DEF Waits
<1>19. Deleted(S, T, C)
  BY <1>7, <1>8 DEF Deleted
<1>20. Sound(T, {}, Y, W)
  BY <1>9, <1>11, <1>13, <1>14, <1>15, <1>16, <1>17, <1>18 DEF Sound
<1> QED BY <1>19, <1>20 DEF T, C

LEMMA ReapSound ==
    ASSUME NEW S, NEW Y, NEW W, Sound(S, {}, Y, W)
    PROVE  Sound(Reap(S), {}, Y, W) /\ Kept(Reap(S))
<1> DEFINE N == Cardinality(Creature)
<1>0. N \in Nat
  BY CreatureFacts, FS_CardinalityType
<1>1. PICK f : /\ f[0] = S
               /\ \A n \in 1..Cardinality(Creature) : f[n] = Delete(f[n - 1], Lost(f[n - 1]))
               /\ Reap(S) = f[Cardinality(Creature)]
  BY ReapIs
<1>2. \A T : /\ IsFiniteSet(Existing(T)) /\ Cardinality(Existing(T)) \in Nat
             /\ Cardinality(Existing(T)) <= N
  BY CreatureFacts, FS_Subset, FS_CardinalityType DEF Existing
<1> HIDE DEF N
<1> DEFINE Good(n) == /\ Sound(f[n], {}, Y, W)
                      /\ Lost(f[n]) = {} \/ Cardinality(Existing(f[n])) + n <= N
           A == {n \in Nat : n <= N => Good(n)}
<1>3. 0 \in A
  <2>1. Cardinality(Existing(f[0])) + 0 <= N
    BY <1>0, <1>2
  <2> QED BY <1>1, <2>1
<1>4. ASSUME NEW n \in Nat, n \in A PROVE n + 1 \in A
  <2> SUFFICES ASSUME n + 1 <= N PROVE Good(n + 1)
    OBVIOUS
  <2> DEFINE T == f[n]
             C == Lost(T)
             U == f[n + 1]
  <2>1. Sound(T, {}, Y, W) /\ (C = {} \/ Cardinality(Existing(T)) + n <= N)
    BY <1>0, <1>4
  <2>2. U = Delete(T, C)
    <3>1. n + 1 \in 1..N /\ (n + 1) - 1 = n
      BY <1>0
    <3> QED BY <1>1, <3>1 DEF N
  <2> HIDE DEF T, U
  <2>3. Sound(U, {}, Y, W) /\ Deleted(T, U, C)
    BY <2>1, <2>2, DeleteSound
  <2>4. CASE C = {}
    <3>1. \A c : Freed(T, {}, c) = 0
      BY FS_EmptySet DEF Freed, Given
    <3>2. \A c \in Creature : T.refs[c] \in Int
      BY <2>1 DEF Sound, States
    <3>3. \A c \in Creature : U.refs[c] = T.refs[c] /\ (U.exists[c] <=> T.exists[c])
      BY <2>3, <2>4, <3>1, <3>2 DEF Deleted
    <3>4. Lost(U) = {}
      BY <2>4, <3>3 DEF Lost
    <3> QED BY <2>3, <3>4 DEF U
  <2>5. CASE C # {}
    <3>1. PICK c : c \in C
      BY <2>5
    <3>2. Existing(U) \subseteq Existing(T) \ {c} /\ c \in Existing(T)
      BY <2>3, <3>1 DEF Existing, Deleted, Lost
    <3>3. Cardinality(Existing(T) \ {c}) = Cardinality(Existing(T)) - 1
      BY <1>2, <3>2, FS_RemoveElement
    <3>4. Cardinality(Existing(U)) <= Cardinality(Existing(T) \ {c})
      BY <1>2, <3>2, FS_Subset, FS_RemoveElement
    <3>5. Cardinality(Existing(U)) + (n + 1) <= N
      BY <1>0, <1>2, <2>1, <2>5, <3>3, <3>4
    <3> QED BY <2>3, <3>5 DEF U
  <2> QED BY <2>4, <2>5
<1> HIDE DEF A
<1> DEFINE T == Reap(S)
<1>5. Sound(T, {}, Y, W) /\ (Lost(T) = {} \/ Cardinality(Existing(T)) + N <= N)
  <2>1. Nat \subseteq A
    BY <1>3, <1>4, SetInduction
  <2>2. Good(N)
    <3> HIDE DEF Good
    <3> QED BY <1>0, <2>1 DEF A
  <2>3. T = f[N]
    BY <1>1 DEF N
  <2> QED BY <2>2, <2>3
<1> HIDE DEF T
<1>6. Lost(T) = {}
  <2>1. CASE Cardinality(Existing(T)) + N <= N
    <3>1. Cardinality(Existing(T)) = 0
      BY <1>0, <1>2, <2>1
    <3>2. Existing(T) = {}
      BY <1>2, <3>1, FS_EmptySet
    <3> QED BY <3>2 DEF Existing, Lost
  <2> QED BY <1>5, <2>1
<1>7. Kept(T)
  <2> SUFFICES ASSUME NEW c \in Creature, T.exists[c] PROVE T.refs[c] > 0
    BY DEF Kept
  <2>1. T.refs[c] # 0
    BY <1>6 DEF Lost
  <2>2. T \in States /\ Held(T)
    BY <1>5 DEF Sound
  <2>3. ~(T.refs[c] <= 0) /\ T.refs[c] \in Int
    BY <2>1, <2>2, Unreferenced, HeldTypes
  <2> QED BY <2>3
<1> QED BY <1>5, <1>7 DEF T

-----------------------------------------------------------------------------
(* The handlers.                                                           *)

\* What a step has to come to.
Comes(Y) == Sound(being', {}, Y, {}) /\ Kept(being')

LEMMA Becoming ==
    ASSUME NEW S, NEW Y, Sound(S, {}, Y, {}), Becomes(S)
    PROVE  Comes(Y)
<1> DEFINE T == Reap(S)
<1>1. being' = T
  BY DEF Becomes
<1>2. Sound(T, {}, Y, {}) /\ Kept(T)
  BY ReapSound
<1> HIDE DEF T
<1> QED BY <1>1, <1>2 DEF Comes

\* c comes from elsewhere, or goes elsewhere: it is not seen as what it was.
LEMMA UnseenLess ==
    ASSUME NEW S, NEW X, NEW W, NEW D, NEW c, Sound(S, X, Unseen(D), W)
    PROVE  Sound(S, X, Unseen(D \ {c}) \cup Unaware(c, Monster), W)
<1>1. ASSUME NEW m \in Monster, NEW d \in Creature,
             <<m, d>> \notin Unseen(D \ {c}) \cup Unaware(c, Monster)
      PROVE  Watches(S, m, d)
  <2>1. d # c /\ d \notin D
    BY <1>1 DEF Unseen, Unaware
  <2>2. <<m, d>> \notin Unseen(D)
    BY <2>1 DEF Unseen
  <2> QED BY <2>2 DEF Sound, Vigil
<1>2. Vigil(S, Unseen(D \ {c}) \cup Unaware(c, Monster))
  BY <1>1 DEF Vigil
<1> QED BY <1>2 DEF Sound

LEMMA LoginFollows ==
    ASSUME NEW D, Sound(being, {}, Unseen(D), {}), NEW p \in Player, NEW q \in Place, Login(p, q)
    PROVE  Comes(Unseen(D \ {p}))
<1> DEFINE S == Create(being, p)
           X == {}
           Y == Unseen(D \ {p})
<1>0. p \in Creature /\ MayBe(being, p) /\ Sound(being, X, Unseen(D), {})
  BY CreatureFacts DEF Login, MayBe
<1>1. PICK order \in Orders(None) : Becomes(PlaceCreature(S, p, q, order))
  BY DEF Login
<1> HIDE DEF X, Y
<1>2. /\ ~InWorld(being, p) /\ being.master[p] = None /\ being.attacked[p] = None
      /\ ~being.home[p]
  BY <1>0, FreeFacts
<1>a. Sound(being, X, Y, {})
  <2>1. Sound(being, X, Y \cup Unaware(p, Monster), {})
    BY <1>0, UnseenLess DEF Y
  <2> QED BY <1>2, <2>1, SoundGone
<1>3. Sound(S, X, Y, {}) /\ Born(being, S, p)
  BY <1>0, <1>a, CreateSound
<1> DEFINE T == PlaceCreature(S, p, q, order)
<1>4. Becomes(T)
  BY <1>1
<1> HIDE DEF S
<1>5. MayCome(S, p, q)
  BY <1>0, <1>2, <1>3 DEF MayCome, Born, InWorld
<1>6. Covers(PlaceAt(S, p, q), order)
  <2>1. \A m \in Monster : InWorld(PlaceAt(S, p, q), m) => InWorld(being, m) \/ m = None
    <3>1. \A m \in Creature : m # p => PlaceAt(S, p, q).place[m] = being.place[m]
      <4>1. S \in States /\ S.place = being.place
        BY <1>3 DEF Sound, Born
      <4> QED BY <4>1 DEF PlaceAt, AddRef, States
    <3> QED BY <3>1, CreatureFacts DEF InWorld
  <2> QED BY <2>1, OrdersCover
<1>7. Sound(S, {}, Y, {})
  BY <1>3 DEF X
<1>8. Sound(T, {}, Y, {})
  BY <1>5, <1>6, <1>7, PlaceCreatureSound
<1> HIDE DEF T
<1> QED BY <1>4, <1>8, Becoming DEF Y

LEMMA RemoveFromWorldFollows ==
    ASSUME NEW Y, Sound(being, {}, Y, {}), NEW c \in Creature, RemoveFromWorld(c)
    PROVE  Comes(Y)
<1> DEFINE S == being
<1>1. PICK order \in Orders(None) : Becomes(RemoveCreature(being, c, order))
  BY DEF RemoveFromWorld
<1>2. Sound(S, {}, Y, {})
  OBVIOUS
<1>3. Covers(S, order)
  BY OrdersCover
<1> DEFINE T == RemoveCreature(S, c, order)
<1>4. Becomes(T)
  BY <1>1
<1> HIDE DEF S
<1>5. Sound(T, {}, Y, {})
  BY <1>2, <1>3, RemoveCreatureSound
<1> HIDE DEF T
<1> QED BY <1>4, <1>5, Becoming

LEMMA HurtFollows ==
    ASSUME NEW Y, Sound(being, {}, Y, {}), NEW c \in Creature, Hurt(c)
    PROVE  Comes(Y)
<1> DEFINE S == being
<1>1. PICK lives \in BOOLEAN : Becomes(ChangeHealth(S, {c}, lives))
  BY DEF Hurt
<1> DEFINE T == ChangeHealth(S, {c}, lives)
<1>2. Sound(S, {}, Y, {}) /\ {c} \in SUBSET Creature /\ Becomes(T)
  BY <1>1
<1> HIDE DEF S
<1>3. Sound(T, {}, Y, {})
  BY <1>2, ChangeHealthSound
<1> HIDE DEF T
<1> QED BY <1>2, <1>3, Becoming

LEMMA AttackCreatureFollows ==
    ASSUME NEW Y, Sound(being, {}, Y, {}), NEW p \in Player, NEW t \in Creature \cup {None}, AttackCreature(p, t)
    PROVE  Comes(Y)
<1> DEFINE S == being
           T == SetAttacked(S, p, t)
<1>1. Becomes(T)
  BY DEF AttackCreature
<1>2. Sound(S, {}, Y, {})
  OBVIOUS
<1> HIDE DEF S
<1>3. Sound(T, {}, Y, {})
  BY <1>2, CreatureFacts, SetAttackedSound
<1> HIDE DEF T
<1> QED BY <1>1, <1>3, Becoming

LEMMA OtherCleanupFollows ==
    ASSUME NEW Y, Sound(being, {}, Y, {}), OtherCleanup
    PROVE  Comes(Y)
<1> DEFINE S == being
           T == Cleanup(S)
<1>1. Becomes(T)
  BY DEF OtherCleanup
<1>2. Sound(S, {}, Y, {})
  OBVIOUS
<1> HIDE DEF S
<1>3. Sound(T, {}, Y, {})
  BY <1>2, CleanupSound
<1> HIDE DEF T
<1> QED BY <1>1, <1>3, Becoming

LEMMA SummonFollows ==
    ASSUME NEW Y, Sound(being, {}, Y, {}), NEW l \in Creature, NEW m \in Monster, Summon(l, m)
    PROVE  Comes(Y)
<1> DEFINE S == Create(being, m)
           T == AddSummon(S, l, m)
           q == being.place[l]
           X == {}
<1>0. /\ m \in Creature /\ MayBe(being, m) /\ Sound(being, X, Y, {})
      /\ being \in States /\ InWorld(being, l) /\ q \in Place
  <2>1. Sound(being, {}, Y, {}) /\ being \in States
    BY DEF Sound
  <2> QED BY <2>1, CreatureFacts DEF Summon, MayBe, InWorld, States
<1>1. PICK order \in Orders(m) : Becomes(PlaceCreature(T, m, q, order))
  BY DEF Summon
<1>a. being.master[l] = None
  <2>1. CASE l \in Monster
    BY <2>1 DEF Summon
  <2>2. CASE l \in Player
    <3>1. \A d \in Creature : l \notin being.summons[d]
      BY <1>0, <2>2, CreatureFacts DEF States
    <3> QED BY <1>0, <3>1 DEF Sound, Bonds, States
  <2> QED BY <2>1, <2>2 DEF Creature
<1>b. being.exists[l]
  BY <1>0, ThereExists DEF Sound
<1> HIDE DEF X, q
<1>2. /\ ~InWorld(being, m) /\ being.master[m] = None /\ being.attacked[m] = None
      /\ ~being.home[m] /\ being.summons[m] = {}
  BY <1>0, FreeFacts
<1>3. Sound(S, X, Y, {}) /\ Born(being, S, m)
  BY <1>0, CreateSound
<1> HIDE DEF S
<1>4. MayServe(S, l, m)
  BY <1>0, <1>2, <1>3, <1>a, <1>b DEF MayServe, Born, InWorld
<1>5. /\ Sound(T, X, Y \cup Unaware(m, Monster), {})
      /\ SameStanding(S, T) /\ SameMind(S, T) /\ T.alive = S.alive
      /\ T.attacked = S.attacked /\ T.master[m] = l
  BY <1>3, <1>4, AddSummonSound
<1> DEFINE U == PlaceCreature(T, m, q, order)
<1>6. Becomes(U)
  BY <1>1
<1> HIDE DEF T
<1>7. Sound(T, X, Y, {})
  <2>1. ~InWorld(T, m)
    BY <1>2, <1>3, <1>5 DEF InWorld, SameStanding, Born
  <2> QED BY <1>5, <2>1, SoundGone
<1>8. MayCome(T, m, q)
  BY <1>0, <1>2, <1>3, <1>5 DEF MayCome, Born, SameStanding, InWorld
<1>9. Covers(PlaceAt(T, m, q), order)
  <2>1. \A d \in Monster : InWorld(PlaceAt(T, m, q), d) => InWorld(being, d) \/ d = m
    <3>1. \A d \in Creature : d # m => PlaceAt(T, m, q).place[d] = being.place[d]
      <4>1. T \in States /\ T.place = being.place
        BY <1>3, <1>5 DEF Sound, Born, SameStanding
      <4> QED BY <4>1 DEF PlaceAt, AddRef, States
    <3> QED BY <3>1, CreatureFacts DEF InWorld
  <2> QED BY <2>1, OrdersCover
<1>10. Sound(T, {}, Y, {})
  BY <1>7 DEF X
<1>11. Sound(U, {}, Y, {})
  BY <1>8, <1>9, <1>10, PlaceCreatureSound
<1> HIDE DEF U
<1> QED BY <1>6, <1>11, Becoming

\* The targets of the dead are cleared.
LEMMA ClearDeadSound ==
    ASSUME NEW S, NEW X, NEW Y, NEW W, NEW c, c \in Creature, Sound(S, X, Y, W), ~S.alive[c]
    PROVE  LET T == ClearTargets(S, c)
           IN  Sound(T, X, Y, W) /\ SameBody(S, T)
<1> DEFINE T == ClearTargets(S, c)
<1>0. S \in States
  BY DEF Sound
<1>1. Minds(S, T, {c})
  BY <1>0, ClearMinds
<1> HIDE DEF T
<1>2. SameBody(S, T)
  BY <1>1 DEF Minds
<1>3. Vigil(T, Y)
  <2> SUFFICES ASSUME NEW m \in Monster, NEW d \in Creature, <<m, d>> \notin Y
               PROVE  Watches(T, m, d)
    BY DEF Vigil
  <2>1. Watches(S, m, d)
    BY DEF Sound, Vigil
  <2>2. CASE m # c
    BY <1>1, <2>1, <2>2, CreatureFacts, OthersWatch
  <2>3. CASE m = c
    <3>1. ~T.alive[m]
      BY <1>2, <2>3 DEF SameBody
    <3> QED BY <3>1, Blind
  <2> QED BY <2>2, <2>3
<1>4. Sound(T, X, Y, W)
  BY <1>1, <1>3, MindsSound
<1> QED BY <1>2, <1>4 DEF T

LEMMA DieSound ==
    ASSUME NEW S, NEW Y, NEW W, NEW c, NEW order, c \in Creature, Sound(S, {}, Y, W), ~S.alive[c],
           Covers(S, order)
    PROVE  Sound(Die(S, c, order), {}, Y, W)
<1> DEFINE X == {}
           T == Release(S, c)
           D == DestroySummons(T, c)
           C == ClearTargets(D, c)
           f == [C.attacked EXCEPT ![c] = None]
           U == Aim(C, f)
           V == [ClearTargets(DestroySummons(T, c), c) EXCEPT !.attacked[c] = None]
<1>1. Sound(S, X, Y, W)
  OBVIOUS
<1> HIDE DEF X
<1>2. /\ Sound(T, X, Y \cup ByOne(c), W)
      /\ SameStanding(S, T) /\ SameMind(S, T) /\ T.alive = S.alive
      /\ T.master[c] = None
  BY <1>1, ReleaseSound
<1> HIDE DEF T
<1>3. Sound(T, X, Y, W) /\ T.place = S.place
  BY <1>2, SoundBlind DEF SameStanding
<1>4. /\ Sound(D, X, Y, W)
      /\ SameStanding(T, D)
      /\ \A d \in Creature :
            d \notin T.summons[c] => D.alive[d] = T.alive[d] /\ D.master[d] = T.master[d]
  BY <1>3, DestroySummonsSound
<1> HIDE DEF D
<1>5. c \notin T.summons[c]
  BY <1>2, <1>3, CreatureFacts DEF Sound, Bonds
<1>6. ~D.alive[c] /\ D.place = S.place
  BY <1>2, <1>3, <1>4, <1>5 DEF SameStanding
<1>7. Sound(C, X, Y, W) /\ SameBody(D, C)
  BY <1>4, <1>6, ClearDeadSound
<1> HIDE DEF C
<1>8. C \in States
  BY <1>7 DEF Sound
<1>9. Aims(C, f)
  BY <1>8 DEF Aims, States
<1>10. U = V
  BY <1>8 DEF U, V, Aim, C, D, States
<1> HIDE DEF f
<1>11. Sound(U, X, Y, W) /\ SameBody(C, U)
  BY <1>7, <1>9, AimSound
<1> HIDE DEF U, V
<1>12. U.place = S.place
  BY <1>6, <1>7, <1>11 DEF SameBody
<1> DEFINE E == IF c \in Monster THEN U ELSE T
<1>13. Sound(E, X, Y, W) /\ E.place = S.place
  BY <1>3, <1>11, <1>12
<1>14. Die(S, c, order) = RemoveCreature(E, c, order)
  BY <1>10 DEF Die, T, V
<1> HIDE DEF E
<1>15. Covers(E, order)
  BY <1>13 DEF Covers, InWorld
<1>16. Sound(RemoveCreature(E, c, order), {}, Y, W)
  BY <1>13, <1>15, RemoveCreatureSound DEF X
<1> QED BY <1>14, <1>16

LEMMA ThinkSound ==
    ASSUME NEW S, NEW Y, NEW W, NEW m, NEW t, NEW order, m \in Monster, Sound(S, {}, Y, W),
           Covers(S, order)
    PROVE  Sound(Think(S, m, t, order), {}, Y, W)
<1> DEFINE X == {}
           T == UpdateIdle(S, m)
<1>0. m \in Creature /\ S \in States
  BY CreatureFacts DEF Sound
<1>1. Sound(S, X, Y, W)
  OBVIOUS
<1>2. Sound(RemoveCreature(S, m, order), {}, Y, W)
  BY <1>0, RemoveCreatureSound
<1>3. Minds(S, T, {m}) /\ Attends(S, T, m)
  BY <1>0, UpdateIdleMinds
<1>a. Think(S, m, t, order) \in
        {RemoveCreature(S, m, order), T, SelectTarget(T, m, t),
         SelectTarget(T, m, T.attacked[T.master[m]])}
  BY DEF Think
<1> HIDE DEF T, X
<1>4. Vigil(T, Y)
  <2> SUFFICES ASSUME NEW x \in Monster, NEW d \in Creature, <<x, d>> \notin Y
               PROVE  Watches(T, x, d)
    BY DEF Vigil
  <2>1. Watches(S, x, d)
    BY DEF Sound, Vigil
  <2>2. CASE x # m
    BY <1>3, <2>1, <2>2, CreatureFacts, OthersWatch
  <2>3. CASE x = m
    BY <1>3, <2>1, <2>3 DEF Attends
  <2> QED BY <2>2, <2>3
<1>5. Sound(T, X, Y, W)
  BY <1>1, <1>3, <1>4, MindsSound
<1>6. Sound(SelectTarget(T, m, t), X, Y, W)
  BY <1>0, <1>5, SelectTargetSound
<1>7. Sound(SelectTarget(T, m, T.attacked[T.master[m]]), X, Y, W)
  BY <1>0, <1>5, SelectTargetSound
<1> QED BY <1>2, <1>5, <1>6, <1>7, <1>a DEF X

\* It is not checked any more, and gets off the check vector.
LEMMA UnlistSound ==
    ASSUME NEW S, NEW Y, NEW W, NEW c, c \in Creature, Sound(S, {}, Y, W), S.listed[c],
           ~S.checked[c]
    PROVE  Sound(FreeThing([S EXCEPT !.listed[c] = FALSE], c), {}, Y, W)
<1> DEFINE T == FreeThing([S EXCEPT !.listed[c] = FALSE], c)
           L == [S.listed EXCEPT ![c] = FALSE]
           R == [S.releases EXCEPT ![c] = S.releases[c] + 1]
<1>0. S \in States
  BY DEF Sound
<1>1. /\ L \in [Creature -> BOOLEAN] /\ \A d \in Creature : L[d] <=> S.listed[d] /\ d # c
      /\ R \in [Creature -> Nat]
      /\ \A d \in Creature : R[d] = S.releases[d] + In(d, {c})
  BY <1>0 DEF States, In
<1>2. T = [[S EXCEPT !.listed = L] EXCEPT !.releases = R]
  BY <1>0 DEF States, FreeThing
<1> HIDE DEF L, R
<1>3. /\ T \in States /\ T.targets = S.targets /\ T.idle = S.idle /\ T.checked = S.checked
      /\ T.listed = L /\ T.attacked = S.attacked
      /\ T.exists = S.exists /\ T.place = S.place /\ T.alive = S.alive
      /\ T.master = S.master /\ T.summons = S.summons /\ T.home = S.home
      /\ T.spawned = S.spawned /\ T.event = S.event /\ T.refs = S.refs
      /\ T.releases = R
  <2> DEFINE A == [S EXCEPT !.listed = L]
  <2>a. A \in States
    BY <1>0, <1>1 DEF States
  <2>1. T \in States
    <3>1. T = [A EXCEPT !.releases = R]
      BY <1>2
    <3> HIDE DEF A
    <3> QED BY <1>1, <2>a, <3>1 DEF States
  <2>2. T.listed = L /\ T.releases = R
    BY <1>0, <1>1, <1>2 DEF States
  <2>3. /\ T.targets = S.targets /\ T.idle = S.idle /\ T.checked = S.checked
        /\ T.attacked = S.attacked /\ T.exists = S.exists /\ T.place = S.place
        /\ T.alive = S.alive /\ T.master = S.master /\ T.summons = S.summons
        /\ T.home = S.home /\ T.spawned = S.spawned /\ T.event = S.event
        /\ T.refs = S.refs
    BY <1>0, <1>2 DEF States
  <2> QED BY <2>1, <2>2, <2>3
<1> HIDE DEF T
<1>4. /\ \A d : InWorld(T, d) <=> InWorld(S, d)
      /\ \A d, x : Sees(T, d, x) <=> Sees(S, d, x)
      /\ \A d, x : x \in Near(T, d) <=> x \in Near(S, d)
      /\ \A d, x : Opponent(T, d, x) <=> Opponent(S, d, x)
  BY <1>3 DEF InWorld, Sees, Near, Opponent
<1>5. Held(T)
  <2> SUFFICES ASSUME NEW d \in Creature
               PROVE  /\ T.refs[d] = Refer(T.summons, d) + Refer(T.targets, d)
                           + One(InWorld(T, d)) + One(T.listed[d]) + One(T.spawned[d])
                           + T.releases[d]
                      /\ T.refs[d] > 0 => T.exists[d]
    BY DEF Held
  <2>1. One(InWorld(T, d)) = One(InWorld(S, d))
    BY <1>4 DEF One
  <2>2. /\ S.refs[d] = Refer(S.summons, d) + Refer(S.targets, d) + One(InWorld(S, d))
                       + One(S.listed[d]) + One(S.spawned[d]) + S.releases[d]
        /\ S.refs[d] > 0 => S.exists[d]
    BY DEF Held, Sound
  <2>3. /\ T.spawned[d] = S.spawned[d] /\ T.exists[d] = S.exists[d] /\ T.refs[d] = S.refs[d]
        /\ T.targets = S.targets /\ T.summons = S.summons
        /\ T.releases[d] = S.releases[d] + In(d, {c})
    BY <1>1, <1>3
  <2>4. One(T.listed[d]) = One(S.listed[d]) - In(d, {c}) /\ In(d, {c}) \in Nat
    <3>1. T.listed[d] <=> S.listed[d] /\ d # c
      BY <1>1, <1>3
    <3>2. d \in {c} <=> d = c
      OBVIOUS
    <3> QED BY <3>1, <3>2 DEF One, In
  <2>5. /\ S.refs[d] \in Int /\ S.releases[d] \in Nat
        /\ Refer(S.summons, d) \in Nat /\ Refer(S.targets, d) \in Nat
        /\ One(InWorld(S, d)) \in Nat /\ One(S.listed[d]) \in Nat
        /\ One(S.spawned[d]) \in Nat
    BY <1>0, HeldTypes
  <2> QED BY ONLY <2>1, <2>2, <2>3, <2>4, <2>5
<1>6. Bonds(T, {}) /\ Aimed(T) /\ Blank(T) /\ Replaced(T)
  <2>1. Bonds(T, {})
    BY <1>3, <1>4 DEF Bonds, Sound
  <2>2. Aimed(T)
    BY <1>3, <1>4 DEF Aimed, Sound
  <2>3. Blank(T)
    BY <1>3 DEF Blank, Sound
  <2>4. Replaced(T)
    BY <1>3, <1>4 DEF Replaced, Sound
  <2> QED BY <2>1, <2>2, <2>3, <2>4
<1>7. Vigil(T, Y)
  <2>1. ASSUME NEW m \in Monster, NEW d, Watches(S, m, d) PROVE Watches(T, m, d)
    <3>1. T.listed[m] <=> S.listed[m] /\ m # c
      BY <1>1, <1>3, CreatureFacts
    <3> QED BY <1>3, <1>4, <2>1, <3>1 DEF Watches
  <2> QED BY <2>1 DEF Vigil, Sound
<1>8. Awaits(T, W)
  <2> SUFFICES ASSUME NEW d \in Creature \ W, Due(T, d) PROVE Waits(T, d)
    BY DEF Awaits
  <2>1. Waits(S, d)
    BY <1>3, <1>4 DEF Sound, Awaits, Due
  <2>2. d # c
    BY <2>1 DEF Waits
  <2> QED BY <1>1, <1>3, <2>1, <2>2 DEF Waits
<1> QED BY <1>3, <1>5, <1>6, <1>7, <1>8 DEF Sound, T

LEMMA CheckCreatureFollows ==
    ASSUME NEW Y, Sound(being, {}, Y, {}), NEW c \in Creature, CheckCreature(c)
    PROVE  Comes(Y)
<1> DEFINE S == being
           W == {}
<1>0. Sound(S, {}, Y, W)
  OBVIOUS
<1>1. ASSUME NEW T, Sound(T, {}, Y, W), Becomes(Cleanup(T)) PROVE Comes(Y)
  <2>1. Sound(Cleanup(T), {}, Y, W)
    BY <1>1, CleanupSound
  <2> DEFINE U == Cleanup(T)
  <2>2. Sound(U, {}, Y, {}) /\ Becomes(U)
    BY <1>1, <2>1 DEF W
  <2> HIDE DEF U
  <2> QED BY <2>2, Becoming
<1>2. \A order \in Orders(None) : Covers(S, order)
  BY OrdersCover
<1>3. CASE \E order \in Orders(None) : ~being.alive[c] /\ Becomes(Cleanup(Die(being, c, order)))
  <2>1. PICK order \in Orders(None) : ~being.alive[c] /\ Becomes(Cleanup(Die(being, c, order)))
    BY <1>3
  <2> DEFINE T == Die(S, c, order)
  <2>2. Becomes(Cleanup(T)) /\ ~S.alive[c] /\ Covers(S, order)
    BY <1>2, <2>1
  <2> HIDE DEF S, W
  <2>3. Sound(T, {}, Y, W)
    BY <1>0, <2>2, DieSound
  <2> HIDE DEF T
  <2> QED BY <1>1, <2>2, <2>3
<1>4. CASE \E order \in Orders(None), t \in being.targets[c] \cup {None} :
              c \in Monster /\ Becomes(Cleanup(Think(being, c, t, order)))
  <2>1. PICK order \in Orders(None), t \in being.targets[c] \cup {None} :
              c \in Monster /\ Becomes(Cleanup(Think(being, c, t, order)))
    BY <1>4
  <2> DEFINE T == Think(S, c, t, order)
  <2>2. Becomes(Cleanup(T)) /\ Covers(S, order) /\ c \in Monster
    BY <1>2, <2>1
  <2> HIDE DEF S, W
  <2>3. Sound(T, {}, Y, W)
    BY <1>0, <2>2, ThinkSound
  <2> HIDE DEF T
  <2> QED BY <1>1, <2>2, <2>3
<1>5. CASE /\ ~being.checked[c] /\ being.listed[c]
           /\ Becomes(Cleanup(FreeThing([being EXCEPT !.listed[c] = FALSE], c)))
  <2> DEFINE T == FreeThing([S EXCEPT !.listed[c] = FALSE], c)
  <2>1. Becomes(Cleanup(T)) /\ ~S.checked[c] /\ S.listed[c]
    BY <1>5
  <2> HIDE DEF S, W
  <2>2. Sound(T, {}, Y, W)
    BY <1>0, <2>1, UnlistSound
  <2> HIDE DEF T
  <2> QED BY <1>1, <2>1, <2>2
<1> HIDE DEF S, W
<1> QED BY <1>3, <1>4, <1>5 DEF CheckCreature

-----------------------------------------------------------------------------
(* The spawn.                                                              *)

Gone(S) == {m \in Monster : S.spawned[m] /\ ~InWorld(S, m)}

Forgotten(S) ==
    [UnRef(S, Gone(S)) EXCEPT
        !.event = FALSE, !.spawned = [c \in Creature |-> @[c] /\ c \notin Gone(S)]]

AllThere(S) == \A m \in Monster : S.spawned[m] => InWorld(S, m)

LEMMA ForgottenSound ==
    ASSUME NEW S, NEW Y, NEW W, Sound(S, {}, Y, W)
    PROVE  LET T == Forgotten(S)
           IN  /\ Sound(T, {}, Y, W) /\ AllThere(T)
               /\ T.exists = S.exists /\ T.place = S.place
<1> DEFINE G == Gone(S)
           T == Forgotten(S)
           R == [c \in Creature |-> S.refs[c] - (IF c \in G THEN 1 ELSE 0)]
           P == [c \in Creature |-> S.spawned[c] /\ c \notin G]
<1>0. /\ S \in States /\ G \subseteq Creature
      /\ \A m \in Creature : m \in G => S.spawned[m] /\ ~InWorld(S, m)
      /\ \A m \in Monster : S.spawned[m] /\ ~InWorld(S, m) => m \in G
  BY CreatureFacts DEF Sound, Gone
<1> HIDE DEF G
<1>1. /\ R \in [Creature -> Int] /\ \A c \in Creature : R[c] = S.refs[c] - In(c, G)
      /\ P \in [Creature -> BOOLEAN]
      /\ \A c \in Creature : P[c] <=> S.spawned[c] /\ c \notin G
  <2>1. R \in [Creature -> Int] /\ \A c \in Creature : R[c] = S.refs[c] - In(c, G)
    BY <1>0 DEF States, In
  <2>2. \A c \in Creature : P[c] = (S.spawned[c] /\ c \notin G)
    OBVIOUS
  <2>3. P \in [Creature -> BOOLEAN]
    OBVIOUS
  <2> HIDE DEF P
  <2> QED BY <2>1, <2>2, <2>3
<1>2. T = [[[S EXCEPT !.refs = R] EXCEPT !.event = FALSE] EXCEPT !.spawned = P]
  BY <1>0 DEF Forgotten, UnRef, States, G
<1> HIDE DEF R, P
<1>3. /\ T \in States /\ SameMind(S, T) /\ T.attacked = S.attacked
      /\ T.exists = S.exists /\ T.place = S.place /\ T.alive = S.alive
      /\ T.master = S.master /\ T.summons = S.summons /\ T.home = S.home
      /\ T.spawned = P /\ T.event = FALSE /\ T.refs = R
      /\ T.releases = S.releases
  <2> DEFINE A == [S EXCEPT !.refs = R]
             B == [A EXCEPT !.event = FALSE]
  <2>a. A \in States
    BY <1>0, <1>1 DEF States
  <2>b. B \in States
    <3> HIDE DEF A
    <3> QED BY <1>1, <2>a DEF States
  <2>1. T \in States
    <3>1. T = [B EXCEPT !.spawned = P]
      BY <1>2
    <3> HIDE DEF A, B
    <3> QED BY <1>1, <2>b, <3>1, SMTT(20), ZenonT(20) DEF States
  <2>2. SameMind(S, T)
    BY <1>0, <1>2 DEF States, SameMind
  <2>3. T.spawned = P /\ T.event = FALSE /\ T.refs = R
    BY <1>0, <1>1, <1>2 DEF States
  <2>4. /\ T.attacked = S.attacked /\ T.exists = S.exists /\ T.place = S.place
        /\ T.alive = S.alive /\ T.master = S.master /\ T.summons = S.summons
        /\ T.home = S.home /\ T.releases = S.releases
    BY <1>0, <1>2 DEF States
  <2> QED BY <2>1, <2>2, <2>3, <2>4
<1> HIDE DEF T
<1>4. /\ \A d : InWorld(T, d) <=> InWorld(S, d)
      /\ \A d, x : Sees(T, d, x) <=> Sees(S, d, x)
      /\ \A d, x : x \in Near(T, d) <=> x \in Near(S, d)
      /\ \A d, x : Opponent(T, d, x) <=> Opponent(S, d, x)
  BY <1>3 DEF InWorld, Sees, Near, Opponent
<1>5. Held(T)
  <2> SUFFICES ASSUME NEW d \in Creature
               PROVE  /\ T.refs[d] = Refer(T.summons, d) + Refer(T.targets, d)
                           + One(InWorld(T, d)) + One(T.listed[d]) + One(T.spawned[d])
                           + T.releases[d]
                      /\ T.refs[d] > 0 => T.exists[d]
    BY DEF Held
  <2>1. One(InWorld(T, d)) = One(InWorld(S, d))
    BY <1>4 DEF One
  <2>2. /\ S.refs[d] = Refer(S.summons, d) + Refer(S.targets, d) + One(InWorld(S, d))
                       + One(S.listed[d]) + One(S.spawned[d]) + S.releases[d]
        /\ S.refs[d] > 0 => S.exists[d]
    BY DEF Held, Sound
  <2>3. /\ T.listed[d] = S.listed[d] /\ T.exists[d] = S.exists[d]
        /\ T.targets = S.targets /\ T.summons = S.summons /\ T.releases[d] = S.releases[d]
        /\ T.refs[d] = S.refs[d] - In(d, G)
    BY <1>1, <1>3 DEF SameMind
  <2>4. One(T.spawned[d]) = One(S.spawned[d]) - In(d, G) /\ In(d, G) \in Nat
    BY <1>0, <1>1, <1>3 DEF One, In
  <2>5. /\ S.refs[d] \in Int /\ S.releases[d] \in Nat
        /\ Refer(S.summons, d) \in Nat /\ Refer(S.targets, d) \in Nat
        /\ One(InWorld(S, d)) \in Nat /\ One(S.listed[d]) \in Nat
        /\ One(S.spawned[d]) \in Nat
    BY <1>0, HeldTypes
  <2> QED BY ONLY <2>1, <2>2, <2>3, <2>4, <2>5
<1>6. Bonds(T, {})
  BY <1>3, <1>4 DEF Bonds, Sound
<1>7. Aimed(T)
  BY <1>3, <1>4 DEF Aimed, Sound
<1>8. Blank(T)
  BY <1>3 DEF Blank, Sound
<1>9. AllThere(T)
  <2> SUFFICES ASSUME NEW m \in Monster, T.spawned[m] PROVE InWorld(T, m)
    BY DEF AllThere
  <2>1. m \in Creature
    BY CreatureFacts
  <2>2. S.spawned[m] /\ m \notin G
    BY <1>1, <1>3, <2>1
  <2>3. InWorld(S, m)
    BY <1>0, <2>2
  <2> QED BY <1>4, <2>3
<1>10. Replaced(T)
  <2> SUFFICES ASSUME NEW m \in Monster
               PROVE  /\ T.spawned[m] /\ ~InWorld(T, m) => T.event
                      /\ T.spawned[m] => T.home[m]
                      /\ T.home[m] /\ InWorld(T, m) => T.spawned[m]
    BY DEF Replaced
  <2>1. /\ S.spawned[m] => S.home[m]
        /\ S.home[m] /\ InWorld(S, m) => S.spawned[m]
    BY DEF Sound, Replaced
  <2> QED BY <1>0, <1>1, <1>3, <1>4, <1>9, <2>1, CreatureFacts DEF AllThere
<1>11. Vigil(T, Y)
  BY <1>3, <1>4 DEF Vigil, Watches, Sound, SameMind
<1>12. Awaits(T, W)
  BY <1>3, <1>4 DEF Awaits, Waits, Due, Sound, SameMind
<1>13. Sound(T, {}, Y, W)
  BY <1>3, <1>5, <1>6, <1>7, <1>8, <1>10, <1>11, <1>12 DEF Sound
<1> QED BY <1>3, <1>9, <1>13 DEF T

LEMMA EventSound ==
    ASSUME NEW S, NEW Y, NEW W, NEW b, b \in BOOLEAN, Sound(S, {}, Y, W), AllThere(S)
    PROVE  Sound([S EXCEPT !.event = b], {}, Y, W)
<1> DEFINE T == [S EXCEPT !.event = b]
<1>0. S \in States
  BY DEF Sound
<1>3. /\ T \in States /\ SameMind(S, T) /\ T.attacked = S.attacked
      /\ T.exists = S.exists /\ T.place = S.place /\ T.alive = S.alive
      /\ T.master = S.master /\ T.summons = S.summons /\ T.home = S.home
      /\ T.spawned = S.spawned /\ T.refs = S.refs /\ T.releases = S.releases
  BY <1>0 DEF States, SameMind
<1> HIDE DEF T
<1>4. /\ \A d : InWorld(T, d) <=> InWorld(S, d)
      /\ \A d, x : Sees(T, d, x) <=> Sees(S, d, x)
      /\ \A d, x : x \in Near(T, d) <=> x \in Near(S, d)
      /\ \A d, x : Opponent(T, d, x) <=> Opponent(S, d, x)
  BY <1>3 DEF InWorld, Sees, Near, Opponent
<1>5. Held(T)
  <2>1. \A d : One(InWorld(T, d)) = One(InWorld(S, d))
    BY <1>4 DEF One
  <2> QED BY <1>3, <2>1 DEF Held, Sound, SameMind
<1>6. Bonds(T, {})
  BY <1>3, <1>4 DEF Bonds, Sound
<1>7. Aimed(T)
  BY <1>3, <1>4 DEF Aimed, Sound
<1>8. Blank(T)
  BY <1>3 DEF Blank, Sound
<1>9. Replaced(T)
  BY <1>3, <1>4 DEF Replaced, Sound, AllThere
<1>10. Vigil(T, Y)
  BY <1>3, <1>4 DEF Vigil, Watches, Sound, SameMind
<1>11. Awaits(T, W)
  BY <1>3, <1>4 DEF Awaits, Waits, Due, Sound, SameMind
<1> QED BY <1>3, <1>5, <1>6, <1>7, <1>8, <1>9, <1>10, <1>11 DEF Sound, T

\* What was placed is the spawn's.
Settled(S, m) == [AddRef(S, {m}) EXCEPT !.home[m] = TRUE, !.spawned[m] = TRUE]

LEMMA SettledSound ==
    ASSUME NEW S, NEW Y, NEW W, NEW m, m \in Monster, Sound(S, {}, Y, W), InWorld(S, m),
           ~S.spawned[m], AllThere(S)
    PROVE  Sound(Settled(S, m), {}, Y, W) /\ AllThere(Settled(S, m))
<1> DEFINE T == Settled(S, m)
           R == [c \in Creature |-> S.refs[c] + (IF c \in {m} THEN 1 ELSE 0)]
           H == [S.home EXCEPT ![m] = TRUE]
           P == [S.spawned EXCEPT ![m] = TRUE]
<1>0. S \in States /\ m \in Creature
  BY CreatureFacts DEF Sound
<1>a. S.exists[m]
  BY <1>0, ThereExists DEF Sound
<1>1. /\ R \in [Creature -> Int] /\ \A c \in Creature : R[c] = S.refs[c] + In(c, {m})
      /\ P \in [Creature -> BOOLEAN] /\ H \in [Creature -> BOOLEAN]
      /\ \A c \in Creature : P[c] <=> S.spawned[c] \/ c = m
      /\ \A c \in Creature : H[c] <=> S.home[c] \/ c = m
  BY <1>0 DEF States, In
<1>2. T = [[[S EXCEPT !.refs = R] EXCEPT !.home = H] EXCEPT !.spawned = P]
  BY <1>0 DEF Settled, AddRef, States
<1> HIDE DEF R, P, H
<1>3. /\ T \in States /\ SameMind(S, T) /\ T.attacked = S.attacked
      /\ T.exists = S.exists /\ T.place = S.place /\ T.alive = S.alive
      /\ T.master = S.master /\ T.summons = S.summons /\ T.home = H
      /\ T.spawned = P /\ T.event = S.event /\ T.refs = R
      /\ T.releases = S.releases
  <2> DEFINE A == [S EXCEPT !.refs = R]
             B == [A EXCEPT !.home = H]
  <2>a. A \in States
    BY <1>0, <1>1 DEF States
  <2>b. B \in States
    <3> HIDE DEF A
    <3> QED BY <1>1, <2>a DEF States
  <2>1. T \in States
    <3>1. T = [B EXCEPT !.spawned = P]
      BY <1>2
    <3> HIDE DEF A, B
    <3> QED BY <1>1, <2>b, <3>1 DEF States
  <2>2. SameMind(S, T)
    BY <1>0, <1>2 DEF States, SameMind
  <2>3. T.home = H /\ T.spawned = P /\ T.refs = R
    BY <1>0, <1>1, <1>2 DEF States
  <2>4. /\ T.attacked = S.attacked /\ T.exists = S.exists /\ T.place = S.place
        /\ T.alive = S.alive /\ T.master = S.master /\ T.summons = S.summons
        /\ T.event = S.event /\ T.releases = S.releases
    BY <1>0, <1>2 DEF States
  <2> QED BY <2>1, <2>2, <2>3, <2>4
<1> HIDE DEF T
<1>4. /\ \A d : InWorld(T, d) <=> InWorld(S, d)
      /\ \A d, x : Sees(T, d, x) <=> Sees(S, d, x)
      /\ \A d, x : x \in Near(T, d) <=> x \in Near(S, d)
      /\ \A d, x : Opponent(T, d, x) <=> Opponent(S, d, x)
  BY <1>3 DEF InWorld, Sees, Near, Opponent
<1>5. Held(T)
  <2> SUFFICES ASSUME NEW d \in Creature
               PROVE  /\ T.refs[d] = Refer(T.summons, d) + Refer(T.targets, d)
                           + One(InWorld(T, d)) + One(T.listed[d]) + One(T.spawned[d])
                           + T.releases[d]
                      /\ T.refs[d] > 0 => T.exists[d]
    BY DEF Held
  <2>1. One(InWorld(T, d)) = One(InWorld(S, d))
    BY <1>4 DEF One
  <2>2. /\ S.refs[d] = Refer(S.summons, d) + Refer(S.targets, d) + One(InWorld(S, d))
                       + One(S.listed[d]) + One(S.spawned[d]) + S.releases[d]
        /\ S.refs[d] > 0 => S.exists[d]
    BY DEF Held, Sound
  <2>3. /\ T.listed[d] = S.listed[d] /\ T.exists[d] = S.exists[d]
        /\ T.targets = S.targets /\ T.summons = S.summons /\ T.releases[d] = S.releases[d]
        /\ T.refs[d] = S.refs[d] + In(d, {m})
    BY <1>1, <1>3 DEF SameMind
  <2>4. /\ One(T.spawned[d]) = One(S.spawned[d]) + In(d, {m}) /\ In(d, {m}) \in Nat
        /\ In(d, {m}) = 0 \/ S.exists[d]
    <3>1. T.spawned[d] <=> S.spawned[d] \/ d = m
      BY <1>1, <1>3
    <3>2. d \in {m} <=> d = m
      OBVIOUS
    <3> QED BY <1>a, <3>1, <3>2 DEF One, In
  <2>5. /\ S.refs[d] \in Int /\ S.releases[d] \in Nat
        /\ Refer(S.summons, d) \in Nat /\ Refer(S.targets, d) \in Nat
        /\ One(InWorld(S, d)) \in Nat /\ One(S.listed[d]) \in Nat
        /\ One(S.spawned[d]) \in Nat
    BY <1>0, HeldTypes
  <2> QED BY ONLY <2>1, <2>2, <2>3, <2>4, <2>5
<1>6. Bonds(T, {})
  BY <1>3, <1>4 DEF Bonds, Sound
<1>7. Aimed(T)
  BY <1>3, <1>4 DEF Aimed, Sound
<1>8. Blank(T)
  BY <1>1, <1>3, <1>a DEF Blank, Sound
<1>9. Replaced(T) /\ AllThere(T)
  <2>1. \A c \in Monster : /\ T.spawned[c] <=> S.spawned[c] \/ c = m
                           /\ T.home[c] <=> S.home[c] \/ c = m
    BY <1>1, <1>3, CreatureFacts
  <2>2. Replaced(S)
    BY DEF Sound
  <2>3. AllThere(T)
    BY <1>4, <2>1 DEF AllThere
  <2> QED BY <1>3, <1>4, <2>1, <2>2, <2>3 DEF Replaced, AllThere
<1>10. Vigil(T, Y)
  BY <1>3, <1>4 DEF Vigil, Watches, Sound, SameMind
<1>11. Awaits(T, W)
  BY <1>3, <1>4 DEF Awaits, Waits, Due, Sound, SameMind
<1> QED BY <1>3, <1>5, <1>6, <1>7, <1>8, <1>9, <1>10, <1>11 DEF Sound, T

LEMMA CheckSpawnFollows ==
    ASSUME NEW Y, Sound(being, {}, Y, {}), CheckSpawn
    PROVE  Comes(Y)
<1> DEFINE Q == being
           S == Forgotten(being)
           Full(T) == Cardinality({m \in Monster : T.spawned[m]}) >= SpawnSize
           Done(T) == Becomes([T EXCEPT !.event = ~Full(T)])
<1>1. Sound(Q, {}, Y, {})
  OBVIOUS
<1>2. \/ Done(S)
      \/ \E m \in Monster : \E order \in Orders(m) :
            ~being.exists[m] /\ Done(Settled(PlaceCreature(Create(S, m), m, Lair, order), m))
  BY DEF CheckSpawn, Forgotten, Gone, Settled
<1> HIDE DEF Full
<1>3. ASSUME NEW T, Sound(T, {}, Y, {}), AllThere(T), Done(T) PROVE Comes(Y)
  <2> DEFINE b == ~Full(T)
             U == [T EXCEPT !.event = b]
  <2>1. b \in BOOLEAN
    OBVIOUS
  <2> HIDE DEF b
  <2>2. Sound(U, {}, Y, {})
    BY <1>3, <2>1, EventSound
  <2>3. Becomes(U)
    BY <1>3 DEF b
  <2> HIDE DEF U
  <2> QED BY <2>2, <2>3, Becoming
<1> HIDE DEF Done, S, Q
<1>4. /\ Sound(S, {}, Y, {}) /\ AllThere(S)
      /\ S.exists = being.exists /\ S.place = being.place
  BY <1>1, ForgottenSound DEF S, Q
<1>5. CASE Done(S)
  BY <1>3, <1>4, <1>5
<1>6. CASE \E m \in Monster : \E order \in Orders(m) :
              ~being.exists[m] /\ Done(Settled(PlaceCreature(Create(S, m), m, Lair, order), m))
  <2>a. PICK m \in Monster : \E order \in Orders(m) :
              ~being.exists[m] /\ Done(Settled(PlaceCreature(Create(S, m), m, Lair, order), m))
    BY <1>6
  <2>1. PICK order \in Orders(m) :
              ~being.exists[m] /\ Done(Settled(PlaceCreature(Create(S, m), m, Lair, order), m))
    BY <2>a
  <2> DEFINE X == {}
             C == Create(S, m)
             T == PlaceCreature(C, m, Lair, order)
             U == Settled(T, m)
  <2>2. MayBe(S, m) /\ Sound(S, X, Y, {}) /\ m \in Creature
    BY <1>4, <2>1, CreatureFacts DEF MayBe
  <2> HIDE DEF X
  <2>3. /\ ~InWorld(S, m) /\ S.master[m] = None /\ S.attacked[m] = None
        /\ ~S.home[m] /\ ~S.spawned[m]
    BY <2>2, FreeFacts
  <2>4. Sound(C, X, Y, {}) /\ Born(S, C, m)
    BY <2>2, CreateSound
  <2>5. Done(U)
    BY <2>1
  <2> HIDE DEF C
  <2>6. MayCome(C, m, Lair)
    BY <2>2, <2>3, <2>4, CreaturesAssumption DEF MayCome, Born, InWorld
  <2>7. Covers(PlaceAt(C, m, Lair), order)
    <3>1. \A d \in Monster : InWorld(PlaceAt(C, m, Lair), d) => InWorld(being, d) \/ d = m
      <4>1. \A d \in Creature : d # m => PlaceAt(C, m, Lair).place[d] = being.place[d]
        <5>1. C \in States /\ C.place = being.place
          BY <1>4, <2>4 DEF Sound, Born
        <5> QED BY <5>1 DEF PlaceAt, AddRef, States
      <4> QED BY <4>1, CreatureFacts DEF InWorld
    <3> QED BY <3>1, OrdersCover
  <2>8. Sound(C, {}, Y, {})
    BY <2>4 DEF X
  <2>9. Sound(T, {}, Y, {}) /\ Arrived(C, T, m, Lair)
    BY <2>6, <2>7, <2>8, PlaceCreatureSound
  <2> HIDE DEF T
  <2>10. /\ T.spawned = S.spawned
         /\ \A d \in Creature : T.place[d] = IF d = m THEN Lair ELSE S.place[d]
    BY <2>4, <2>9 DEF Arrived, Born
  <2>11. InWorld(T, m) /\ ~T.spawned[m] /\ AllThere(T)
    BY <1>4, <2>2, <2>3, <2>10, CreatureFacts, CreaturesAssumption DEF InWorld, AllThere
  <2>12. Sound(U, {}, Y, {}) /\ AllThere(U)
    BY <2>9, <2>11, SettledSound
  <2> HIDE DEF U
  <2> QED BY <1>3, <2>5, <2>12
<1> QED BY <1>2, <1>5, <1>6

-----------------------------------------------------------------------------
(* Convincing.                                                             *)

\* The convinced one is not the spawn's any more.
Unsettled(S, m) == [UnRef(S, {m}) EXCEPT !.spawned[m] = FALSE, !.home[m] = FALSE]

LEMMA UnsettledSound ==
    ASSUME NEW S, NEW Y, NEW W, NEW m, m \in Monster, Sound(S, {}, Y, W), S.spawned[m]
    PROVE  Sound(Unsettled(S, m), {}, Y, W)
<1> DEFINE T == Unsettled(S, m)
           R == [c \in Creature |-> S.refs[c] - (IF c \in {m} THEN 1 ELSE 0)]
           H == [S.home EXCEPT ![m] = FALSE]
           P == [S.spawned EXCEPT ![m] = FALSE]
<1>0. S \in States /\ m \in Creature
  BY CreatureFacts DEF Sound
<1>1. /\ R \in [Creature -> Int] /\ \A c \in Creature : R[c] = S.refs[c] - In(c, {m})
      /\ P \in [Creature -> BOOLEAN] /\ H \in [Creature -> BOOLEAN]
      /\ \A c \in Creature : P[c] <=> S.spawned[c] /\ c # m
      /\ \A c \in Creature : H[c] <=> S.home[c] /\ c # m
  BY <1>0 DEF States, In
<1>2. T = [[[S EXCEPT !.refs = R] EXCEPT !.spawned = P] EXCEPT !.home = H]
  BY <1>0 DEF Unsettled, UnRef, States
<1> HIDE DEF R, P, H, T
<1>3. /\ T \in States /\ SameMind(S, T) /\ T.attacked = S.attacked
      /\ T.exists = S.exists /\ T.place = S.place /\ T.alive = S.alive
      /\ T.master = S.master /\ T.summons = S.summons /\ T.home = H
      /\ T.spawned = P /\ T.event = S.event /\ T.refs = R
      /\ T.releases = S.releases
  BY <1>0, <1>1, <1>2 DEF States, SameMind
<1>4. /\ \A d : InWorld(T, d) <=> InWorld(S, d)
      /\ \A d, x : Sees(T, d, x) <=> Sees(S, d, x)
      /\ \A d, x : x \in Near(T, d) <=> x \in Near(S, d)
      /\ \A d, x : Opponent(T, d, x) <=> Opponent(S, d, x)
  BY <1>3 DEF InWorld, Sees, Near, Opponent
<1>5. Held(T)
  <2> SUFFICES ASSUME NEW d \in Creature
               PROVE  /\ T.refs[d] = Refer(T.summons, d) + Refer(T.targets, d)
                           + One(InWorld(T, d)) + One(T.listed[d]) + One(T.spawned[d])
                           + T.releases[d]
                      /\ T.refs[d] > 0 => T.exists[d]
    BY DEF Held
  <2>1. One(InWorld(T, d)) = One(InWorld(S, d))
    BY <1>4 DEF One
  <2>2. /\ S.refs[d] = Refer(S.summons, d) + Refer(S.targets, d) + One(InWorld(S, d))
                       + One(S.listed[d]) + One(S.spawned[d]) + S.releases[d]
        /\ S.refs[d] > 0 => S.exists[d]
    BY DEF Held, Sound
  <2>3. /\ T.listed[d] = S.listed[d] /\ T.exists[d] = S.exists[d]
        /\ T.targets = S.targets /\ T.summons = S.summons /\ T.releases[d] = S.releases[d]
        /\ T.refs[d] = S.refs[d] - In(d, {m})
    BY <1>1, <1>3 DEF SameMind
  <2>4. One(T.spawned[d]) = One(S.spawned[d]) - In(d, {m}) /\ In(d, {m}) \in Nat
    <3>1. T.spawned[d] <=> S.spawned[d] /\ d # m
      BY <1>1, <1>3
    <3>2. d \in {m} <=> d = m
      OBVIOUS
    <3> QED BY <3>1, <3>2 DEF One, In
  <2>5. /\ S.refs[d] \in Int /\ S.releases[d] \in Nat
        /\ Refer(S.summons, d) \in Nat /\ Refer(S.targets, d) \in Nat
        /\ One(InWorld(S, d)) \in Nat /\ One(S.listed[d]) \in Nat
        /\ One(S.spawned[d]) \in Nat
    BY <1>0, HeldTypes
  <2> QED BY ONLY <2>1, <2>2, <2>3, <2>4, <2>5
<1>6. Bonds(T, {})
  BY <1>3, <1>4 DEF Bonds, Sound
<1>7. Aimed(T)
  BY <1>3, <1>4 DEF Aimed, Sound
<1>8. Blank(T)
  BY <1>1, <1>3 DEF Blank, Sound
<1>9. Replaced(T)
  <2>1. \A c \in Monster : /\ T.spawned[c] <=> S.spawned[c] /\ c # m
                           /\ T.home[c] <=> S.home[c] /\ c # m
    BY <1>1, <1>3, CreatureFacts
  <2>2. Replaced(S)
    BY DEF Sound
  <2> QED BY <1>3, <1>4, <2>1, <2>2 DEF Replaced
<1>10. Vigil(T, Y)
  BY <1>3, <1>4 DEF Vigil, Watches, Sound, SameMind
<1>11. Awaits(T, W)
  BY <1>3, <1>4 DEF Awaits, Waits, Due, Sound, SameMind
<1> QED BY <1>3, <1>5, <1>6, <1>7, <1>8, <1>9, <1>10, <1>11 DEF Sound, T

LEMMA ConvinceFollows ==
    ASSUME NEW Y, Sound(being, {}, Y, {}), NEW p \in Player, NEW m \in Monster, Convince(p, m)
    PROVE  Comes(Y)
<1> DEFINE X == {}
           A == Release(being, m)
           B == SetAttacked(A, m, None)
           S == DestroySummons(B, m)
           T == AddSummon(S, p, m)
           L == UpdateIdle(UpdateTargets(T, m), m)
           U == [L EXCEPT !.inRange[m] = TRUE]
           e == [op |-> "convince", who |-> m]
<1>0. /\ p \in Creature /\ m \in Creature /\ p # m /\ being \in States
      /\ Sound(being, {}, Y, {})
      /\ InWorld(being, p) /\ InWorld(being, m) /\ None \in Creature \cup {None}
  <2>1. Sound(being, {}, Y, {}) /\ being \in States
    BY DEF Sound
  <2> QED BY <2>1, CreatureFacts DEF Convince, Sees, InWorld
<1>1. PICK order \in Orders(None) :
          LET V == Tell(U, Near(U, m) \cup {m}, order, e)
          IN  Becomes(IF V.home[m] THEN Unsettled(V, m) ELSE V)
  BY DEF Convince, Unsettled
<1> DEFINE V == Tell(U, Near(U, m) \cup {m}, order, e)
<1>2. Becomes(IF V.home[m] THEN Unsettled(V, m) ELSE V)
  BY <1>1
<1> HIDE DEF e, V, U, L, T, S, B, A, X
<1>3. Sound(A, X, Y \cup ByOne(m), {}) /\ A.place = being.place /\ A.master[m] = None
  <2>1. Sound(being, X, Y, {})
    BY <1>0 DEF X
  <2>2. /\ Sound(A, X, Y \cup ByOne(m), {}) /\ A.master[m] = None
        /\ SameStanding(being, A)
    BY <1>0, <2>1, ReleaseSound DEF A
  <2> QED BY <2>2 DEF SameStanding
<1>4. Sound(B, X, Y \cup ByOne(m), {}) /\ B.place = being.place /\ B.master[m] = None
  <2>1. Sound(B, X, Y \cup ByOne(m), {}) /\ SameBody(A, B)
    BY <1>0, <1>3, SetAttackedSound DEF B
  <2> QED BY <1>3, <2>1 DEF SameBody
<1>5. /\ Sound(S, X, Y \cup ByOne(m), {}) /\ S.place = being.place
      /\ S.master[m] = None /\ S.summons[m] = {}
  <2>1. /\ Sound(S, X, Y \cup ByOne(m), {}) /\ SameStanding(B, S)
        /\ S.summons[m] = {}
        /\ \A d \in Creature : d \notin B.summons[m] => S.master[d] = B.master[d]
    BY <1>0, <1>4, DestroySummonsSound DEF S
  <2>2. m \notin B.summons[m]
    BY <1>0, <1>4, CreatureFacts DEF Sound, Bonds
  <2> QED BY <1>0, <1>4, <2>1, <2>2 DEF SameStanding
<1>6. MayServe(S, p, m)
  <2>1. S \in States /\ Held(S) /\ Bonds(S, X)
    BY <1>5 DEF Sound
  <2>2. InWorld(S, p) /\ InWorld(S, m)
    BY <1>0, <1>5 DEF InWorld
  <2>3. S.exists[p] /\ S.exists[m]
    BY <1>0, <2>1, <2>2, ThereExists
  <2>4. \A d \in Creature : p \notin S.summons[d]
    BY <2>1, CreatureFacts DEF States
  <2>5. S.master[p] = None
    BY <1>0, <2>1, <2>4 DEF Bonds, States
  <2> QED BY <1>0, <1>5, <2>2, <2>3, <2>5 DEF MayServe
<1>7. Sound(T, X, Y \cup Unaware(m, Monster), {}) /\ T.place = being.place
  <2> DEFINE B0 == Y \cup ByOne(m)
             Z == Unaware(m, Monster)
  <2>1. Sound(S, X, B0, {})
    BY <1>5
  <2>2. (Y \cup ByOne(m)) \cup Z = (Y \cup Z) \cup ByOne(m)
    <3> HIDE DEF Z
    <3> QED OBVIOUS
  <2> HIDE DEF B0
  <2>3. Sound(T, X, B0 \cup Unaware(m, Monster), {}) /\ SameStanding(S, T)
    BY <1>6, <2>1, AddSummonSound DEF T
  <2>4. Sound(T, X, (Y \cup Unaware(m, Monster)) \cup ByOne(m), {})
    BY <2>2, <2>3 DEF B0
  <2> QED BY <1>5, <2>3, <2>4, SoundMine DEF SameStanding
<1>8. Sound(L, X, Y \cup Unaware(m, Monster), {}) /\ L.place = being.place
  <2>1. T \in States
    BY <1>7 DEF Sound
  <2>2. Minds(T, T, {m})
    BY <2>1, MindsNone
  <2>3. Minds(T, L, {m})
    BY <2>1, <2>2, LooksAround DEF L
  <2>4. \A d \in Creature : m # m /\ d # m /\ Watches(T, m, d) => Watches(L, m, d)
    OBVIOUS
  <2>5. Sound(L, X, Y \cup Unaware(m, Monster), {})
    BY <1>7, <2>3, <2>4, MindsUnaware
  <2>6. SameBody(T, L)
    BY <2>3 DEF Minds
  <2> QED BY <1>7, <2>5, <2>6 DEF SameBody
<1>9. Sound(U, X, Y \cup Unaware(m, Monster), {}) /\ U.place = being.place
  <2>1. L \in States /\ TRUE \in BOOLEAN
    BY <1>8 DEF Sound
  <2>2. Minds(L, U, {m})
    BY <1>0, <2>1, InRangeMinds DEF U
  <2>3. \A d \in Creature : m # m /\ d # m /\ Watches(L, m, d) => Watches(U, m, d)
    OBVIOUS
  <2>4. Sound(U, X, Y \cup Unaware(m, Monster), {})
    BY <1>8, <2>2, <2>3, MindsUnaware
  <2>5. SameBody(L, U)
    BY <2>2 DEF Minds
  <2> QED BY <1>8, <2>4, <2>5 DEF SameBody
<1>11. ToldOf(U, Near(U, m) \cup {m}, order, e, m)
  <2>1. Covers(U, order)
    <3>1. \A d \in Monster : InWorld(U, d) => InWorld(being, d) \/ d = None
      BY <1>9 DEF InWorld
    <3> QED BY <3>1, OrdersCover
  <2>2. News(U, e, m)
    BY <1>0, <1>9 DEF News, InWorld, e
  <2>3. \A d \in Monster : InWorld(U, d) /\ (d = m \/ m \in Near(U, d)) =>
            d \in Near(U, m) \cup {m}
    BY <1>0, CreatureFacts DEF Near, Sees, InWorld
  <2> QED BY <2>1, <2>2, <2>3 DEF ToldOf
<1>12. Sound(V, {}, Y, {})
  BY <1>9, <1>11, TellSound DEF V, X
<1>13. SameBody(U, V)
  BY <1>9, <1>11, TellSound DEF V
<1>14. CASE ~V.home[m]
  BY <1>2, <1>12, <1>14, Becoming
<1>15. CASE V.home[m]
  <2> DEFINE K == Unsettled(V, m)
  <2>1. V.spawned[m]
    <3>1. InWorld(V, m)
      BY <1>0, <1>9, <1>13 DEF SameBody, InWorld
    <3> QED BY <1>12, <1>15, <3>1 DEF Sound, Replaced
  <2>2. Sound(K, {}, Y, {})
    BY <1>12, <2>1, UnsettledSound
  <2>3. Becomes(K)
    BY <1>2, <1>15
  <2> HIDE DEF K
  <2> QED BY <2>2, <2>3, Becoming
<1> QED BY <1>14, <1>15

-----------------------------------------------------------------------------
(* Moves.                                                                  *)

Shift(S, c, q) == [S EXCEPT !.place[c] = q]

\* At its new place c is in sight of who attacks it, and sees whom it attacks.
MayShift(S, c, q) ==
    /\ c \in Creature /\ q \in Place /\ InWorld(S, c)
    /\ \A d \in Creature : d # c /\ InWorld(S, d) /\ S.attacked[d] = c => S.place[d] = q
    /\ S.attacked[c] \notin {None, c} => S.place[S.attacked[c]] = q

Shifted(S, T, c, q) == \A d \in Creature : T.place[d] = IF d = c THEN q ELSE S.place[d]

LEMMA ShiftSound ==
    ASSUME NEW S, NEW X, NEW Y, NEW W, NEW c, NEW q, Sound(S, X, Y, W), MayShift(S, c, q)
    PROVE  /\ Sound(Shift(S, c, q), X, Y \cup Unaware(c, Monster), W)
           /\ Shifted(S, Shift(S, c, q), c, q)
<1> DEFINE T == Shift(S, c, q)
           Z == Y \cup Unaware(c, Monster)
           Q == [S.place EXCEPT ![c] = q]
<1>0. S \in States /\ MayShift(S, c, q) /\ c \in Creature /\ q # None
  BY CreatureFacts DEF Sound, MayShift
<1>1. Q \in [Creature -> Place \cup {None}]
  BY <1>0 DEF States, MayShift
<1>2. T = [S EXCEPT !.place = Q]
  BY <1>0 DEF Shift, States
<1>5. \A d \in Creature : Q[d] = IF d = c THEN q ELSE S.place[d]
  BY <1>0 DEF States
<1> HIDE DEF T, Q
<1>3. T \in States
  BY <1>0, <1>1, <1>2 DEF States
<1>4. /\ SameTies(S, T) /\ SameMind(S, T) /\ T.refs = S.refs /\ T.place = Q
      /\ T.releases = S.releases
  BY <1>0, <1>2 DEF States, SameTies, SameMind
<1>6. /\ \A d \in Creature : InWorld(T, d) <=> InWorld(S, d)
      /\ \A d, e \in Creature : d # c /\ e # c => (Sees(T, d, e) <=> Sees(S, d, e))
  BY <1>0, <1>4, <1>5 DEF InWorld, Sees, MayShift
<1>7. Held(T)
  <2>1. \A d \in Creature : One(InWorld(T, d)) = One(InWorld(S, d))
    BY <1>6 DEF One
  <2> QED BY <1>4, <2>1 DEF Held, Sound, SameTies, SameMind
<1>8. Bonds(T, X)
  <2>1. Bonds(S, X) /\ T.master = S.master /\ T.summons = S.summons
    BY <1>4 DEF Sound, SameTies
  <2>2. ASSUME NEW d \in Creature, T.master[d] # None, d \notin X, InWorld(T, d)
        PROVE  InWorld(T, T.master[d])
    <3>1. T.master[d] \in Creature
      BY <1>3, <2>2 DEF States
    <3>2. InWorld(S, T.master[d])
      BY <1>6, <2>1, <2>2 DEF Bonds
    <3> QED BY <1>6, <3>1, <3>2
  <2> QED BY <2>1, <2>2 DEF Bonds
<1>9. Aimed(T)
  <2> SUFFICES ASSUME NEW d \in Creature, InWorld(T, d), T.attacked[d] # None
               PROVE  Sees(T, d, T.attacked[d])
    BY DEF Aimed
  <2>1. T.attacked = S.attacked /\ T.attacked[d] \in Creature /\ InWorld(S, d)
    BY <1>3, <1>4, <1>6 DEF SameTies, States
  <2>2. Sees(S, d, T.attacked[d])
    BY <2>1 DEF Sound, Aimed
  <2>3. CASE d # c /\ T.attacked[d] # c
    BY <1>6, <2>1, <2>2, <2>3
  <2>4. CASE d = c
    BY <1>0, <1>4, <1>5, <2>1, <2>4 DEF MayShift, Sees, InWorld
  <2>5. CASE d # c /\ T.attacked[d] = c
    BY <1>0, <1>4, <1>5, <2>1, <2>5 DEF MayShift, Sees, InWorld
  <2> QED BY <2>3, <2>4, <2>5
<1>10. Blank(T)
  BY <1>4 DEF Blank, Sound, SameTies
<1>11. Replaced(T)
  BY <1>4, <1>6, CreatureFacts DEF Replaced, SameTies, Sound
<1>12. Vigil(T, Z)
  <2>1. ASSUME NEW x \in Monster, NEW d \in Creature, x # c, d # c, Watches(S, x, d)
        PROVE  Watches(T, x, d)
    <3>0. x \in Creature
      BY CreatureFacts
    <3>1. Opponent(T, x, d) <=> Opponent(S, x, d)
      BY <1>4 DEF Opponent, SameTies
    <3>2. d \in Near(T, x) <=> d \in Near(S, x)
      BY <1>6, <2>1, <3>0 DEF Near
    <3> QED BY <1>4, <2>1, <3>1, <3>2 DEF Watches, SameMind, SameTies
  <2> QED BY <2>1 DEF Vigil, Sound, Unaware
<1>13. Awaits(T, W)
  <2> SUFFICES ASSUME NEW d \in Creature \ W, Due(T, d) PROVE Waits(T, d)
    BY DEF Awaits
  <2>1. Due(S, d)
    BY <1>4, <1>6 DEF Due, SameTies
  <2>2. Waits(S, d)
    BY <2>1 DEF Awaits, Sound
  <2> QED BY <1>4, <2>2 DEF Waits, SameMind
<1>14. Sound(T, X, Z, W)
  BY <1>3, <1>7, <1>8, <1>9, <1>10, <1>11, <1>12, <1>13 DEF Sound
<1> QED BY <1>4, <1>5, <1>14 DEF T, Shifted

\* Whom the others attack after c has moved to q.
Quits(S, c, q) ==
    LET P == Shift(S, c, q)
        T == ForgetTarget(P, {d \in Creature : P.attacked[d] = c /\ ~Sees(P, d, c)}, c)
    IN  IF T.attacked[c] # None /\ ~Sees(T, c, T.attacked[c]) THEN SetAttacked(T, c, None)
        ELSE T

LEMMA QuitsIs ==
    ASSUME NEW S, S \in States, NEW c, c \in Creature, NEW q, q \in Place, InWorld(S, c)
    PROVE  \E g : /\ Aims(S, g) /\ MayShift(Aim(S, g), c, q)
                  /\ Quits(S, c, q) = Shift(Aim(S, g), c, q)
<1> DEFINE P == Shift(S, c, q)
           lost == {d \in Creature : P.attacked[d] = c /\ ~Sees(P, d, c)}
           T == ForgetTarget(P, lost, c)
           f == [d \in Creature |->
                    IF \E l \in {x \in lost : P.attacked[x] = c} : d = l \/ d \in P.summons[l]
                    THEN None ELSE P.attacked[d]]
           h == [d \in Creature |->
                    IF d = c \/ (d \in T.summons[c] /\ TRUE) THEN None ELSE T.attacked[d]]
           V == Quits(S, c, q)
           Q == [S.place EXCEPT ![c] = q]
<1>0. None \notin Creature /\ q # None
  BY CreatureFacts
<1>1. /\ P = [S EXCEPT !.place = Q] /\ P.attacked = S.attacked
      /\ P.place = Q /\ P.summons = S.summons
      /\ \A d \in Creature : Q[d] = IF d = c THEN q ELSE S.place[d]
  BY DEF Shift, States
<1>2. T = [P EXCEPT !.attacked = f]
  BY DEF ForgetTarget
<1>3. f \in [Creature -> Creature \cup {None}]
      /\ \A d \in Creature : f[d] \in {None, S.attacked[d]} /\ (d \in lost => f[d] = None)
  <2>1. S.attacked \in [Creature -> Creature \cup {None}]
    BY DEF States
  <2>2. \A d \in Creature : f[d] = None \/ f[d] = P.attacked[d]
    OBVIOUS
  <2>3. \A d \in lost : f[d] = None
    OBVIOUS
  <2>4. DOMAIN f = Creature /\ f = [d \in Creature |-> f[d]]
    OBVIOUS
  <2> HIDE DEF f, P, lost
  <2> QED BY <1>1, <2>1, <2>2, <2>3, <2>4
<1> HIDE DEF f
<1>4. /\ T = [[S EXCEPT !.place = Q] EXCEPT !.attacked = f]
      /\ T.attacked = f /\ T.place = Q /\ T.summons = S.summons
  BY <1>1, <1>2 DEF States
<1>5. SetAttacked(T, c, None) = [T EXCEPT !.attacked = h]
  BY DEF SetAttacked
<1>6. h \in [Creature -> Creature \cup {None}] /\ h[c] = None
      /\ \A d \in Creature : h[d] \in {None, f[d]}
  BY <1>3, <1>4
<1> HIDE DEF h
<1>7. \A d \in Creature : f[d] = c /\ InWorld(S, d) /\ d # c => S.place[d] = q
  <2> SUFFICES ASSUME NEW d \in Creature, f[d] = c, InWorld(S, d), d # c
               PROVE  S.place[d] = q
    OBVIOUS
  <2>1. d \notin lost /\ P.attacked[d] = c
    BY <1>0, <1>1, <1>3
  <2>2. Sees(P, d, c)
    BY <2>1
  <2> QED BY <1>1, <2>2 DEF Sees
<1> DEFINE g == V.attacked
<1>8. /\ V = [[S EXCEPT !.place = Q] EXCEPT !.attacked = g]
      /\ g \in {f, h} /\ (g[c] \notin {None, c} => S.place[g[c]] = q)
  <2>1. CASE f[c] # None /\ ~Sees(T, c, f[c])
    <3>1. V = [T EXCEPT !.attacked = h]
      BY <1>4, <1>5, <2>1 DEF Quits
    <3>2. V = [[S EXCEPT !.place = Q] EXCEPT !.attacked = h] /\ g = h
      <4> HIDE DEF T, Q, V
      <4> QED BY <1>4, <3>1 DEF States
    <3> QED BY <1>6, <3>2
  <2>2. CASE ~(f[c] # None /\ ~Sees(T, c, f[c]))
    <3>1. V = T
      BY <1>4, <2>2 DEF Quits
    <3>2. f[c] \notin {None, c} => S.place[f[c]] = q
      <4> HIDE DEF T, Q, V
      <4> QED BY <1>1, <1>3, <1>4, <2>2 DEF Sees
    <3> QED BY <1>4, <3>1, <3>2
  <2> QED BY <2>1, <2>2
<1> HIDE DEF V, T, P, lost, g, Q
<1>9. /\ g \in [Creature -> Creature \cup {None}]
      /\ \A d \in Creature : g[d] = None \/ g[d] = S.attacked[d]
      /\ \A d \in Creature : g[d] = c => f[d] = c
  BY <1>0, <1>3, <1>6, <1>8
<1>10. Aims(S, g)
  BY <1>9 DEF Aims
<1> DEFINE A == Aim(S, g)
<1>11. /\ A = [S EXCEPT !.attacked = g] /\ A.attacked = g /\ A.place = S.place
       /\ A \in States
  BY <1>9 DEF Aim, States
<1> HIDE DEF A
<1>12. MayShift(A, c, q)
  BY <1>7, <1>8, <1>9, <1>11 DEF MayShift, InWorld
<1>13. Shift(A, c, q) = V
  BY <1>8, <1>11 DEF Shift, States, Q
<1> QED BY <1>10, <1>12, <1>13 DEF A, V

LEMMA MoveFollows ==
    ASSUME NEW D, Sound(being, {}, Unseen(D), {}), NEW c \in Creature, NEW q \in Place, Move(c, q)
    PROVE  Comes(Unseen(D \ {c}))
<1> DEFINE old == being.place[c]
           V == Quits(being, c, q)
           News0(chasers) == [op |-> "move", who |-> c, from |-> old, chasers |-> chasers]
           X == {}
           Y == Unseen(D \ {c})
           Z == Y \cup Unaware(c, Monster)
<1>0. /\ InWorld(being, c) /\ q # old /\ being \in States
      /\ Sound(being, X, Z, {})
  BY UnseenLess DEF Move, Sound
<1>1. \E order \in Orders(None), far \in SUBSET {m \in V.summons[c] : ~Sees(V, m, c)} :
          \E chasers :
              LET U == RemoveAll(V, far, order)
                  M == {m \in Monster : U.place[m] \in {old, q}}
              IN  Becomes(Tell(U, M, order, News0(chasers)))
  BY DEF Move, Quits, Shift
<1>2. PICK g : /\ Aims(being, g) /\ MayShift(Aim(being, g), c, q)
               /\ V = Shift(Aim(being, g), c, q)
  BY <1>0, QuitsIs
<1> HIDE DEF V, X, Y, Z, News0
<1> DEFINE A == Aim(being, g)
<1>3. Sound(A, X, Z, {}) /\ A.place = being.place
  <2>1. Sound(A, X, Z, {}) /\ SameBody(being, A)
    BY <1>0, <1>2, AimSound
  <2> QED BY <2>1 DEF SameBody
<1>4. MayShift(A, c, q) /\ V = Shift(A, c, q)
  BY <1>2
<1> HIDE DEF A
<1>5. /\ Sound(V, X, Z, {})
      /\ \A d \in Creature : V.place[d] = IF d = c THEN q ELSE being.place[d]
  <2> DEFINE K == Shift(A, c, q)
  <2>1. /\ Sound(K, X, Z \cup Unaware(c, Monster), {})
        /\ Shifted(A, K, c, q)
    BY ONLY <1>3, <1>4, ShiftSound
  <2>2. V = K
    BY <1>4
  <2> HIDE DEF K
  <2>3. Z \cup Unaware(c, Monster) = Z
    BY DEF Z
  <2> QED BY <1>3, <2>1, <2>2, <2>3 DEF Shifted
<1>6. PICK order \in Orders(None) :
          \E far \in SUBSET {m \in V.summons[c] : ~Sees(V, m, c)} : \E chasers :
              LET U == RemoveAll(V, far, order)
                  M == {m \in Monster : U.place[m] \in {old, q}}
              IN  Becomes(Tell(U, M, order, News0(chasers)))
  BY <1>1
<1>7. PICK far \in SUBSET {m \in V.summons[c] : ~Sees(V, m, c)} :
          \E chasers :
              LET U == RemoveAll(V, far, order)
                  M == {m \in Monster : U.place[m] \in {old, q}}
              IN  Becomes(Tell(U, M, order, News0(chasers)))
  BY <1>6
<1> DEFINE U == RemoveAll(V, far, order)
           M == {m \in Monster : U.place[m] \in {old, q}}
<1>8. PICK chasers : Becomes(Tell(U, M, order, News0(chasers)))
  BY <1>7
<1> DEFINE e == News0(chasers)
<1> HIDE DEF U
<1>9. V \in States /\ Bonds(V, X)
  BY <1>5 DEF Sound
<1>10. far \subseteq Monster /\ c \notin far /\ \A d \in far : V.summons[d] = {}
  <2>1. far \subseteq V.summons[c]
    OBVIOUS
  <2>2. V.summons[c] \subseteq Monster
    BY <1>9 DEF States
  <2>3. ASSUME NEW d \in far PROVE V.summons[d] = {} /\ d # c
    <3>1. d \in Creature /\ V.master[d] = c
      BY <1>9, <2>1, <2>2, CreatureFacts DEF Bonds
    <3>2. V.summons[d] = {}
      BY <1>9, <3>1, CreatureFacts DEF Bonds
    <3> QED BY <2>1, <3>2
  <2> QED BY <2>1, <2>2, <2>3
<1>11. Covers(V, order)
  <2>1. \A d \in Monster : InWorld(V, d) => InWorld(being, d) \/ d = None
    BY <1>0, <1>5, CreatureFacts DEF InWorld
  <2> QED BY <2>1, OrdersCover
<1>12. MayAllGo(V, far, order)
  BY <1>10, <1>11 DEF MayAllGo
<1>13. Sound(U, X, Z, {}) /\ AllOut(V, U, far)
  <2>1. X \ far = X
    BY DEF X
  <2>2. Sound(U, X \ far, Z, {}) /\ AllOut(V, U, far)
    BY <1>5, <1>12, RemoveAllSound DEF U
  <2> QED BY <2>1, <2>2
<1>14. U.place[c] = q /\ q # None
  BY <1>5, <1>10, <1>13, CreatureFacts DEF AllOut
<1>15. ToldOf(U, M, order, e, c)
  <2>1. Covers(U, order)
    BY <1>11, <1>13, CreatureFacts DEF Covers, AllOut, InWorld
  <2>2. News(U, e, c)
    BY <1>0, <1>14 DEF News, News0, InWorld
  <2>3. \A d \in Monster : InWorld(U, d) /\ (d = c \/ c \in Near(U, d)) => d \in M
    BY <1>14 DEF Near, Sees
  <2> QED BY <2>1, <2>2, <2>3 DEF ToldOf
<1> HIDE DEF M, e
<1> DEFINE T == Tell(U, M, order, e)
<1>16. Sound(T, X, Y, {})
  <2>1. Sound(U, X, Y \cup Unaware(c, Monster), {})
    BY <1>13 DEF Z
  <2> QED BY <1>15, <2>1, TellSound
<1>17. Becomes(T)
  BY <1>8 DEF e
<1> HIDE DEF T
<1> QED BY <1>16, <1>17, Becoming DEF X, Y

-----------------------------------------------------------------------------
(* All steps.                                                              *)

LEMMA InitSound ==
    ASSUME CreaturesInit
    PROVE  CreaturesInv
<1>0. PICK m \in Monster :
        being = [Nobody EXCEPT
                    !.exists[m] = TRUE, !.alive[m] = TRUE, !.idle[m] = TRUE, !.refs[m] = 2,
                    !.place[m] = Lair, !.home[m] = TRUE, !.spawned[m] = TRUE]
  BY DEF CreaturesInit
<1>z. ignored \in SUBSET Player /\ demoted = {}
  BY DEF CreaturesInit
<1> DEFINE Only == [c \in Creature |-> c = m]
           No == [c \in Creature |-> FALSE]
           Nil == [c \in Creature |-> None]
           Empty == [c \in Creature |-> {}]
           Two == [c \in Creature |-> IF c = m THEN 2 ELSE 0]
           Zero == [c \in Creature |-> 0]
           Home == [c \in Creature |-> IF c = m THEN Lair ELSE None]
<1>1. m \in Creature /\ Lair \in Place /\ Lair # None
  BY CreatureFacts, CreaturesAssumption
<1>2. being = [exists |-> Only, refs |-> Two, place |-> Home, alive |-> Only, master |-> Nil,
               attacked |-> Nil, summons |-> Empty, targets |-> Empty, idle |-> Only,
               inRange |-> No, home |-> Only, spawned |-> Only, checked |-> No,
               listed |-> No, releases |-> Zero, event |-> FALSE]
  <2>1. /\ [No EXCEPT ![m] = TRUE] = Only /\ [Zero EXCEPT ![m] = 2] = Two
        /\ [Nil EXCEPT ![m] = Lair] = Home
    OBVIOUS
  <2>2. Nobody = [exists |-> No, refs |-> Zero, place |-> Nil, alive |-> No, master |-> Nil,
                  attacked |-> Nil, summons |-> Empty, targets |-> Empty, idle |-> No,
                  inRange |-> No, home |-> No, spawned |-> No, checked |-> No,
                  listed |-> No, releases |-> Zero, event |-> FALSE]
    BY DEF Nobody
  <2> HIDE DEF Only, No, Nil, Empty, Two, Zero, Home
  <2>3. being = [Nobody EXCEPT
                    !.exists = Only, !.alive = Only, !.idle = Only, !.refs = Two,
                    !.place = Home, !.home = Only, !.spawned = Only]
    BY <1>0, <2>1, <2>2
  <2> QED BY <2>2, <2>3
<1>3. /\ Only \in [Creature -> BOOLEAN] /\ No \in [Creature -> BOOLEAN]
      /\ Nil \in [Creature -> Creature \cup {None}]
      /\ Empty \in [Creature -> SUBSET Monster] /\ Empty \in [Creature -> SUBSET Creature]
      /\ Two \in [Creature -> Int] /\ Zero \in [Creature -> Nat]
      /\ Home \in [Creature -> Place \cup {None}]
  <2>1. Only \in [Creature -> BOOLEAN] /\ No \in [Creature -> BOOLEAN]
    OBVIOUS
  <2>2. /\ Nil \in [Creature -> Creature \cup {None}]
        /\ Empty \in [Creature -> SUBSET Monster] /\ Empty \in [Creature -> SUBSET Creature]
    OBVIOUS
  <2>3. Two \in [Creature -> Int] /\ Zero \in [Creature -> Nat]
    OBVIOUS
  <2>4. Home \in [Creature -> Place \cup {None}]
    BY <1>1
  <2> QED BY <2>1, <2>2, <2>3, <2>4
<1>4. \A c \in Creature :
        /\ Only[c] <=> c = m
        /\ ~No[c] /\ Nil[c] = None /\ Empty[c] = {} /\ Zero[c] = 0
        /\ Two[c] = IF c = m THEN 2 ELSE 0
        /\ Home[c] = IF c = m THEN Lair ELSE None
  OBVIOUS
<1> HIDE DEF Only, No, Nil, Empty, Two, Zero, Home
<1>5. being \in States
  BY <1>2, <1>3 DEF States
<1>6. /\ \A c \in Creature : InWorld(being, c) <=> c = m
      /\ \A c \in Creature : Near(being, c) = {}
  BY <1>1, <1>2, <1>4 DEF InWorld, Near, Sees
<1>7. Held(being) /\ Kept(being)
  <2> SUFFICES ASSUME NEW d \in Creature
               PROVE  /\ being.refs[d] = Refer(being.summons, d) + Refer(being.targets, d)
                           + One(InWorld(being, d)) + One(being.listed[d])
                           + One(being.spawned[d]) + being.releases[d]
                      /\ being.refs[d] > 0 <=> being.exists[d]
    BY DEF Held, Kept
  <2>1. Refer(being.summons, d) = 0 /\ Refer(being.targets, d) = 0
    <3>1. Refer(Empty, d) = 0
      BY <1>4, ReferType
    <3> QED BY <1>2, <3>1
  <2>2. /\ One(being.listed[d]) = 0 /\ being.releases[d] = 0
        /\ One(InWorld(being, d)) = IF d = m THEN 1 ELSE 0
        /\ One(being.spawned[d]) = IF d = m THEN 1 ELSE 0
    BY <1>2, <1>4, <1>6 DEF One
  <2>3. /\ being.refs[d] = IF d = m THEN 2 ELSE 0
        /\ being.exists[d] <=> d = m
    BY <1>2, <1>4
  <2> QED BY <2>1, <2>2, <2>3
<1>8. Bonds(being, {}) /\ Aimed(being) /\ Blank(being)
  <2>1. \A c \in Creature :
          /\ being.master[c] = None /\ being.attacked[c] = None /\ being.summons[c] = {}
          /\ being.home[c] <=> c = m
          /\ being.exists[c] <=> c = m
    BY <1>2, <1>4
  <2> QED BY <2>1, CreatureFacts DEF Bonds, Aimed, Blank
<1>9. Replaced(being)
  <2>1. \A c \in Creature : /\ being.home[c] <=> c = m
                            /\ being.spawned[c] <=> c = m
    BY <1>2, <1>4
  <2> QED BY <1>6, <2>1, CreatureFacts DEF Replaced
<1>10. Vigil(being, Unseen(demoted))
  BY <1>6, CreatureFacts DEF Vigil, Watches
<1>11. Awaits(being, {})
  <2>1. m \notin Player /\ being.alive[m]
    BY <1>1, <1>2, <1>4, CreatureFacts
  <2> QED BY <1>6, <2>1 DEF Awaits, Due
<1> QED BY <1>5, <1>7, <1>8, <1>9, <1>10, <1>11, <1>z DEF CreaturesInv, Sound

\* What a step comes to is the invariant of the next state, with the flags as
\* they are then: a player that is not excepted has gained no foe by it.
LEMMA Passes ==
    ASSUME NEW D, Comes(Unseen(D)), ignored' \in SUBSET Player, demoted' \in SUBSET Player,
           \A d \in Creature \ demoted' : d \notin D /\ (d \in ignored => d \in ignored')
    PROVE  CreaturesInv'
<1> DEFINE T == being'
<1>1. Sound(T, {}, Unseen(D), {}) /\ Kept(T)
  BY DEF Comes
<1>2. /\ T \in States /\ Held(T) /\ Bonds(T, {}) /\ Aimed(T) /\ Blank(T)
      /\ Replaced(T) /\ Awaits(T, {})
  BY <1>1 DEF Sound
<1>3. Vigil(being, Unseen(demoted))'
  <2> SUFFICES ASSUME NEW m \in Monster, NEW d \in Creature,
                      <<m, d>> \notin Unseen(demoted)'
               PROVE  Watches(being, m, d)'
    BY DEF Vigil
  <2>1. d \notin demoted'
    BY DEF Unseen
  <2>2. d \notin D /\ (d \in ignored => d \in ignored')
    BY <2>1
  <2>3. <<m, d>> \notin Unseen(D)
    BY <2>2 DEF Unseen
  <2>4. Watches(T, m, d)
    BY <1>1, <2>3 DEF Sound, Vigil
  <2>5. Opponent(being, m, d)' => Opponent(T, m, d)
    BY <2>2 DEF Opponent
  <2> QED BY <2>4, <2>5 DEF Watches
<1> QED BY <1>1, <1>2, <1>3 DEF CreaturesInv, Sound

LEMMA ChangeGroupFollows ==
    ASSUME CreaturesInv, NEW p \in Player, ChangeGroup(p)
    PROVE  CreaturesInv'
<1>1. Comes(Unseen(demoted))
  BY DEF CreaturesInv, ChangeGroup, Comes
<1>2. ignored' \in SUBSET Player /\ demoted' \in SUBSET Player
  BY DEF CreaturesInv, ChangeGroup
<1>3. \A d \in Creature \ demoted' : d \notin demoted /\ (d \in ignored => d \in ignored')
  BY DEF ChangeGroup
<1> QED BY <1>1, <1>2, <1>3, Passes

LEMMA NextFollows ==
    ASSUME CreaturesInv, CreaturesNext
    PROVE  CreaturesInv'
<1>0. /\ Sound(being, {}, Unseen(demoted), {}) /\ ignored \in SUBSET Player
      /\ demoted \in SUBSET Player /\ None \notin Creature /\ Player \subseteq Creature
  BY CreatureFacts DEF CreaturesInv
<1>1. CASE /\ \E c \in Creature, q \in Place :
                /\ Move(c, q) \/ (c \in Player /\ Login(c, q))
                /\ demoted' = demoted \ {c}
           /\ UNCHANGED ignored
  <2>1. PICK c \in Creature, q \in Place :
                /\ Move(c, q) \/ (c \in Player /\ Login(c, q))
                /\ demoted' = demoted \ {c}
    BY <1>1
  <2>2. Comes(Unseen(demoted \ {c}))
    BY <1>0, <2>1, MoveFollows, LoginFollows
  <2> DEFINE D == demoted \ {c}
  <2>3. demoted' = D /\ ignored' = ignored /\ D \in SUBSET Player /\ Comes(Unseen(D))
    BY <1>0, <1>1, <2>1, <2>2
  <2> HIDE DEF D
  <2> QED BY <1>0, <2>3, Passes
<1>2. ASSUME Comes(Unseen(demoted)), UNCHANGED <<ignored, demoted>> PROVE CreaturesInv'
  BY <1>0, <1>2, Passes
<1>3. CASE /\ \E p \in Player : \/ \E t \in Creature \cup {None} : AttackCreature(p, t)
                                \/ \E m \in Monster : Convince(p, m)
           /\ UNCHANGED <<ignored, demoted>>
  BY <1>0, <1>2, <1>3, AttackCreatureFollows, ConvinceFollows
<1>4. CASE /\ \E c \in Creature : \/ \E m \in Monster : Summon(c, m)
                                  \/ RemoveFromWorld(c) \/ Hurt(c) \/ CheckCreature(c)
           /\ UNCHANGED <<ignored, demoted>>
  BY <1>0, <1>2, <1>4, SummonFollows, RemoveFromWorldFollows, HurtFollows,
     CheckCreatureFollows
<1>5. CASE (CheckSpawn \/ OtherCleanup) /\ UNCHANGED <<ignored, demoted>>
  BY <1>0, <1>2, <1>5, CheckSpawnFollows, OtherCleanupFollows
<1>6. CASE \E p \in Player : ChangeGroup(p)
  BY <1>6, ChangeGroupFollows
<1> QED BY <1>1, <1>3, <1>4, <1>5, <1>6 DEF CreaturesNext

LEMMA CreaturesSound == CreaturesSpec => []CreaturesInv
<1>1. CreaturesInv /\ [CreaturesNext]_creaturesVars => CreaturesInv'
  <2> SUFFICES ASSUME CreaturesInv, [CreaturesNext]_creaturesVars PROVE CreaturesInv'
    OBVIOUS
  <2>1. CASE CreaturesNext
    BY <2>1, NextFollows
  <2>2. CASE UNCHANGED creaturesVars
    <3>1. being' = being /\ ignored' = ignored /\ demoted' = demoted
      BY <2>2 DEF creaturesVars
    <3>2. Comes(Unseen(demoted))
      BY <3>1 DEF CreaturesInv, Comes
    <3> QED BY <3>1, <3>2, Passes DEF CreaturesInv
  <2> QED BY <2>1, <2>2
<1> QED BY <1>1, InitSound, PTL DEF CreaturesSpec

-----------------------------------------------------------------------------
(* What holds.                                                             *)

\* A reference is taken for each place a creature is known at, and given back
\* exactly once, and the object lives exactly as long as there is one (addRef,
\* unRef and freeThing, in every order the handlers call them).
THEOREM AlwaysCountedExactly == CreaturesSpec => []CountedExactly
<1>1. CreaturesInv => CountedExactly
  <2> SUFFICES ASSUME CreaturesInv, NEW c \in Creature
               PROVE  /\ being.refs[c] =
                          Cardinality({d \in Creature : c \in being.summons[d]})
                          + Cardinality({d \in Creature : c \in being.targets[d]})
                          + (IF InWorld(being, c) THEN 1 ELSE 0)
                          + (IF being.listed[c] THEN 1 ELSE 0)
                          + (IF being.spawned[c] THEN 1 ELSE 0) + being.releases[c]
                      /\ being.exists[c] <=> being.refs[c] > 0
    BY DEF CountedExactly
  <2>1. /\ being.refs[c] = Refer(being.summons, c) + Refer(being.targets, c)
                           + One(InWorld(being, c)) + One(being.listed[c])
                           + One(being.spawned[c]) + being.releases[c]
        /\ being.refs[c] > 0 <=> being.exists[c]
    BY DEF CreaturesInv, Sound, Held, Kept, States
  <2> QED BY <2>1 DEF Refer, One
<1> QED BY <1>1, CreaturesSound, PTL

\* m_attackedCreature and m_master never point to who is gone, out of sight or
\* not its master any more (internalCreatureDisappear, removeSummon,
\* destroySummons and the destructor, each clears its part).
THEOREM PointersAlwaysLive == CreaturesSpec => []PointersLive
<1>1. CreaturesInv => PointersLive
  <2> SUFFICES ASSUME CreaturesInv, NEW c \in Creature, NEW d \in Creature
               PROVE  /\ InWorld(being, c) /\ being.attacked[c] = d => Sees(being, c, d)
                      /\ being.master[c] = d <=> c \in being.summons[d]
                      /\ being.master[c] = d /\ InWorld(being, c) => InWorld(being, d)
    BY DEF PointersLive
  <2>1. Bonds(being, {}) /\ Aimed(being) /\ d # None
    BY CreatureFacts DEF CreaturesInv, Sound
  <2> QED BY <2>1 DEF Bonds, Aimed
<1> QED BY <1>1, CreaturesSound, PTL

\* No wild monster sleeps, or is not being checked, while a foe is in sight,
\* whatever came, went, moved, was hurt or was convinced, and in whatever order
\* the monsters were told (updateIdleStatus at the end of each of them); but
\* setGroup tells none of them of a player that they may attack from now on.
THEOREM AlwaysVigilant == CreaturesSpec => []Vigilant
<1>1. CreaturesInv => Vigilant
  <2> SUFFICES ASSUME CreaturesInv, NEW m \in Monster, NEW c \in Near(being, m) \ demoted,
                      being.alive[m], being.master[m] = None, Opponent(being, m, c)
               PROVE  /\ c \in being.targets[m] /\ ~being.idle[m]
                      /\ being.checked[m] /\ being.listed[m]
    BY DEF Vigilant
  <2>1. c \in Creature
    BY DEF Near
  <2>2. Watches(being, m, c)
    BY <2>1 DEF CreaturesInv, Sound, Vigil, Unseen
  <2> QED BY <2>2 DEF Watches
<1> QED BY <1>1, CreaturesSound, PTL

\* A spawn that lost a monster has a check to come, so the monster's entry
\* goes and its place is filled (startEvent in onCreatureDisappear, and
\* checkSpawn that sets its event anew).
THEOREM GoneAlwaysReplaced == CreaturesSpec => []GoneIsReplaced
<1>1. CreaturesInv => GoneIsReplaced
  BY DEF CreaturesInv, Sound, Replaced, GoneIsReplaced
<1> QED BY <1>1, CreaturesSound, PTL

\* Who is dead in the world is on a check list, and checked, until that check
\* takes it out: a player is checked from its coming to its going, changeHealth
\* wakes a monster before it takes the last of its health, and setIdle does
\* nothing to the dead.
THEOREM DeadAlwaysAwaitTheirEnd == CreaturesSpec => []DeadAwaitsItsEnd
<1>1. CreaturesInv => DeadAwaitsItsEnd
  BY DEF CreaturesInv, Sound, Awaits, Due, Waits, DeadAwaitsItsEnd
<1> QED BY <1>1, CreaturesSound, PTL
=============================================================================
