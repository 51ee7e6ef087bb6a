---------------------------- MODULE TradeProofs ----------------------------
(***************************************************************************)
(* Theorems about Trade, for any number of players and items.  The two     *)
(* halves of a trade, the registry and the references are kept together,   *)
(* so they are proved together: TradeInv is inductive.  Where things are   *)
(* only decides which trades a step closes; every way of closing goes      *)
(* through Reset, with both partners.  OfferInv adds where the offers are, *)
(* which takes a theory of containment: Climb counts steps, the theory is  *)
(* about sets that are closed upwards, and one lemma, Containment, relates *)
(* the two.                                                                *)
(***************************************************************************)
EXTENDS Trade, FiniteSetTheorems, WellFoundedInduction, TLAPS

TradeInv == TradeTypeOK /\ PartnersAgree /\ RegistryExact

\* The types of the fields that Reset assigns.
FieldsOK ==
    /\ tradeState \in [Player -> TradeStates]
    /\ tradePartner \in [Player -> Player \cup {None}]
    /\ tradeItem \in [Player -> Item \cup {None}]
    /\ tradeItems \in [Item -> Player \cup {None}]
    /\ tradeRefs \in [Item -> 0..1]

LEMMA NoneApart == None \notin Player /\ None \notin Item
BY TradeAssumption

LEMMA InitTrade == TradeInit => TradeInv
<1> SUFFICES ASSUME TradeInit PROVE TradeInv
  OBVIOUS
<1>1. TradeTypeOK
  BY DEF TradeInit, TradeTypeOK, TradeStates
<1>2. PartnersAgree /\ RegistryExact
  BY NoneApart DEF TradeInit, PartnersAgree, RegistryExact
<1> QED BY <1>1, <1>2 DEF TradeInv

\* Leaving a trade on both sides leaves no trace of it.
LEMMA ResetKeeps ==
    ASSUME TradeInv, NEW D \in SUBSET Player,
           \A p \in D : tradePartner[p] \in D \cup {None}, Reset(D)
    PROVE  FieldsOK' /\ PartnersAgree' /\ RegistryExact'
<1> DEFINE R == {tradeItem[p] : p \in D} \ {None}
<1> USE NoneApart
<1>0. FieldsOK /\ PartnersAgree /\ RegistryExact
  BY DEF TradeInv, TradeTypeOK, FieldsOK
<1>1. /\ tradeState' = [p \in Player |-> IF p \in D THEN "none" ELSE tradeState[p]]
      /\ tradePartner' = [p \in Player |-> IF p \in D THEN None ELSE tradePartner[p]]
      /\ tradeItem' = [p \in Player |-> IF p \in D THEN None ELSE tradeItem[p]]
      /\ tradeItems' = [i \in Item |-> IF i \in R THEN None ELSE tradeItems[i]]
      /\ tradeRefs' = [i \in Item |-> IF i \in R /\ tradeItems[i] # None
                                      THEN tradeRefs[i] - 1 ELSE tradeRefs[i]]
  BY DEF Reset, Freed
<1>2. \A i \in Item : i \in R <=> \E p \in D : tradeItem[p] = i
  OBVIOUS
<1> HIDE DEF R
<1>3. \A i \in Item : tradeRefs[i] = IF tradeItems[i] = None THEN 0 ELSE 1
  BY <1>0 DEF RegistryExact
<1>4. \A i \in Item : tradeRefs'[i] = IF tradeItems'[i] = None THEN 0 ELSE 1
  <2> TAKE i \in Item
  <2>1. CASE i \in R /\ tradeItems[i] # None
    BY <1>1, <1>3, <2>1
  <2>2. CASE ~(i \in R /\ tradeItems[i] # None)
    BY <1>1, <1>3, <2>2
  <2> QED BY <2>1, <2>2
<1>5. FieldsOK'
  <2>1. \A i \in Item : tradeRefs'[i] \in 0..1
    BY <1>4
  <2>2. tradeRefs' = [i \in Item |-> tradeRefs'[i]]
    BY <1>1
  <2>3. tradeRefs' \in [Item -> 0..1]
    BY <2>1, <2>2
  <2> QED
    BY <1>0, <1>1, <2>3 DEF FieldsOK, TradeStates
<1>6. PartnersAgree'
  <2> SUFFICES ASSUME NEW p \in Player
               PROVE  /\ tradePartner'[p] = None <=> tradeState'[p] = "none"
                      /\ tradePartner'[p] # None =>
                           /\ tradePartner'[tradePartner'[p]] = p
                           /\ tradePartner'[p] # p
                           /\ {tradeItem'[p], tradeItem'[tradePartner'[p]]} # {None}
                      /\ tradeState'[p] = "initiated" => tradeItem'[p] # None
                      /\ tradeState'[p] \in {"none", "acknowledge"}
                            => tradeItem'[p] = None
    BY DEF PartnersAgree
  <2>1. CASE p \in D
    BY <1>1, <2>1
  <2>2. CASE p \notin D
    <3>1. /\ tradePartner'[p] = tradePartner[p] /\ tradeState'[p] = tradeState[p]
          /\ tradeItem'[p] = tradeItem[p]
      BY <1>1, <2>2
    <3>2. ASSUME tradePartner[p] # None
          PROVE  tradePartner[p] \in Player \ D
      BY <1>0, <2>2, <3>2 DEF PartnersAgree, FieldsOK
    <3>3. tradePartner[p] # None =>
             /\ tradePartner'[tradePartner[p]] = tradePartner[tradePartner[p]]
             /\ tradeItem'[tradePartner[p]] = tradeItem[tradePartner[p]]
      BY <1>1, <3>2
    <3> QED
      BY <1>0, <3>1, <3>3 DEF PartnersAgree
  <2> QED BY <2>1, <2>2
<1>7. RegistryExact'
  <2>1. ASSUME NEW i \in Item, NEW p \in Player
        PROVE  tradeItems'[i] = p <=> tradeItem'[p] = i
    <3>1. tradeItems[i] = p <=> tradeItem[p] = i
      BY <1>0 DEF RegistryExact
    <3>2. CASE p \in D
      BY <1>1, <1>2, <3>1, <3>2
    <3>3. CASE p \notin D
      <4>1. ASSUME NEW d \in D, tradeItem[d] = i PROVE tradeItems[i] # p
        BY <1>0, <3>3, <4>1 DEF RegistryExact
      <4> QED BY <1>1, <1>2, <3>1, <3>3, <4>1
    <3> QED BY <3>2, <3>3
  <2> QED BY <1>4, <2>1 DEF RegistryExact
<1> QED BY <1>5, <1>6, <1>7

\* internalCloseTrade takes the partner along.
LEMMA ClosedIsClosed ==
    ASSUME TradeInv, NEW C \in SUBSET Player
    PROVE  /\ Closed(C) \in SUBSET Player
           /\ \A p \in Closed(C) : tradePartner[p] \in Closed(C) \cup {None}
BY NoneApart DEF Closed, TradeInv, TradeTypeOK, PartnersAgree

LEMMA CloseKeeps ==
    ASSUME TradeInv, NEW C \in SUBSET Player, CloseTrades(C)
    PROVE  FieldsOK' /\ PartnersAgree' /\ RegistryExact'
BY ClosedIsClosed, ResetKeeps DEF CloseTrades

\* A request, also the counter offer of a partner.
LEMMA RequestKeeps ==
    ASSUME TradeInv, NEW p \in Player, NEW q \in Player, NEW i \in Item,
           RequestTrade(p, q, i)
    PROVE  FieldsOK' /\ PartnersAgree' /\ RegistryExact'
<1> USE NoneApart
<1>0. FieldsOK /\ PartnersAgree /\ RegistryExact
  BY DEF TradeInv, TradeTypeOK, FieldsOK
<1>1. /\ p # q
      /\ tradeState[p] = "none" \/ (tradeState[p] = "acknowledge" /\ tradePartner[p] = q)
      /\ tradeState[q] = "none" \/ tradePartner[q] = p
      /\ tradePartner' = [tradePartner EXCEPT ![p] = q, ![q] = p]
      /\ tradeItem' = [tradeItem EXCEPT ![p] = i]
      /\ tradeState' = [tradeState EXCEPT
                          ![p] = "initiated",
                          ![q] = IF @ = "none" THEN "acknowledge" ELSE @]
      /\ tradeRefs' = [tradeRefs EXCEPT ![i] = @ + 1]
      /\ tradeItems' = [tradeItems EXCEPT ![i] = p]
  BY DEF RequestTrade
<1>2. tradeItems[i] = None
  BY DEF RequestTrade, Overlap
<1>3. tradeRefs[i] = 0 /\ tradeItem[p] = None /\ \A r \in Player : tradeItem[r] # i
  BY <1>0, <1>1, <1>2 DEF RegistryExact, PartnersAgree
<1>4. FieldsOK'
  BY <1>0, <1>1, <1>3 DEF FieldsOK, TradeStates
<1>5. /\ tradePartner'[p] = q /\ tradePartner'[q] = p
      /\ tradeItem'[p] = i /\ tradeItem'[q] = tradeItem[q]
      /\ tradeState'[p] = "initiated"
      /\ tradeState'[q] = IF tradeState[q] = "none" THEN "acknowledge"
                                                    ELSE tradeState[q]
      /\ \A r \in Player \ {p, q} : /\ tradePartner'[r] = tradePartner[r]
                                    /\ tradeItem'[r] = tradeItem[r]
                                    /\ tradeState'[r] = tradeState[r]
  BY <1>0, <1>1 DEF FieldsOK
<1>6. \A r \in Player \ {p, q} : tradePartner[r] \notin {p, q}
  BY <1>0, <1>1 DEF PartnersAgree, FieldsOK
<1>7. PartnersAgree'
  <2> SUFFICES ASSUME NEW r \in Player
               PROVE  /\ tradePartner'[r] = None <=> tradeState'[r] = "none"
                      /\ tradePartner'[r] # None =>
                           /\ tradePartner'[tradePartner'[r]] = r
                           /\ tradePartner'[r] # r
                           /\ {tradeItem'[r], tradeItem'[tradePartner'[r]]} # {None}
                      /\ tradeState'[r] = "initiated" => tradeItem'[r] # None
                      /\ tradeState'[r] \in {"none", "acknowledge"}
                            => tradeItem'[r] = None
    BY DEF PartnersAgree
  <2>0. {tradeItem'[p], tradeItem'[q]} # {None}
    BY <1>5
  <2>1. CASE r = p
    <3>1. /\ tradePartner'[r] = q /\ tradePartner'[q] = r /\ q # r /\ q # None
          /\ tradeState'[r] = "initiated" /\ tradeItem'[r] = i /\ i # None
      BY <1>1, <1>5, <2>1
    <3> QED BY <2>0, <2>1, <3>1
  <2>2. CASE r = q
    <3>0. {tradeItem'[q], tradeItem'[p]} # {None}
      BY <2>0
    <3>1. tradeState[q] = "none" => tradeItem[q] = None
      BY <1>0 DEF PartnersAgree
    <3>2. /\ tradeState[q] = "initiated" => tradeItem[q] # None
          /\ tradeState[q] = "acknowledge" => tradeItem[q] = None
      BY <1>0 DEF PartnersAgree
    <3>3. /\ tradePartner'[q] # None /\ tradeState'[q] # "none"
          /\ tradeState'[q] = "initiated" => tradeItem'[q] # None
          /\ tradeState'[q] = "acknowledge" => tradeItem'[q] = None
      BY <1>5, <3>1, <3>2
    <3> QED BY <1>1, <1>5, <2>2, <3>0, <3>3
  <2>3. CASE r \notin {p, q}
    <3>1. tradePartner[r] # None => tradePartner[r] \in Player \ {p, q}
      BY <1>0, <1>6, <2>3 DEF FieldsOK
    <3> QED BY <1>0, <1>5, <2>3, <3>1 DEF PartnersAgree
  <2> QED BY <2>1, <2>2, <2>3
<1>8. RegistryExact'
  <2>1. ASSUME NEW j \in Item, NEW r \in Player
        PROVE  tradeItems'[j] = r <=> tradeItem'[r] = j
    <3>1. tradeItems[j] = r <=> tradeItem[r] = j
      BY <1>0 DEF RegistryExact
    <3>2. CASE j = i
      BY <1>0, <1>1, <1>3, <3>2 DEF FieldsOK
    <3>3. CASE j # i
      BY <1>0, <1>1, <1>3, <3>1, <3>3 DEF FieldsOK
    <3> QED BY <3>2, <3>3
  <2>2. ASSUME NEW j \in Item
        PROVE  tradeRefs'[j] = IF tradeItems'[j] = None THEN 0 ELSE 1
    <3>1. tradeRefs[j] = IF tradeItems[j] = None THEN 0 ELSE 1
      BY <1>0 DEF RegistryExact
    <3>2. CASE j = i
      BY <1>0, <1>1, <1>3, <3>2 DEF FieldsOK
    <3>3. CASE j # i
      BY <1>0, <1>1, <3>1, <3>3 DEF FieldsOK
    <3> QED BY <3>2, <3>3
  <2> QED BY <2>1, <2>2 DEF RegistryExact
<1> QED BY <1>4, <1>7, <1>8

\* The first acceptance changes one state.
LEMMA AcceptKeeps ==
    ASSUME TradeInv, NEW p \in Player, AcceptFirst(p)
    PROVE  FieldsOK' /\ PartnersAgree' /\ RegistryExact'
<1>0. FieldsOK /\ PartnersAgree /\ RegistryExact
  BY DEF TradeInv, TradeTypeOK, FieldsOK
<1>1. /\ UNCHANGED <<tradePartner, tradeItem, tradeItems, tradeRefs>>
      /\ tradeState' = [tradeState EXCEPT ![p] = "accept"]
      /\ tradePartner[p] # None
  BY DEF AcceptFirst, MayAccept
<1>2. FieldsOK' /\ RegistryExact'
  BY <1>0, <1>1 DEF FieldsOK, RegistryExact, TradeStates
<1>3. PartnersAgree'
  BY <1>0, <1>1 DEF FieldsOK, PartnersAgree
<1> QED BY <1>2, <1>3

\* The second ends the trade of the two, and of whoever the exchange touched.
LEMMA ExchangeKeeps ==
    ASSUME TradeInv, NEW p \in Player, AcceptSecond(p)
    PROVE  FieldsOK' /\ PartnersAgree' /\ RegistryExact'
<1> DEFINE q == tradePartner[p]
<1>1. q \in Player /\ tradePartner[q] = p
  BY DEF AcceptSecond, MayAccept, TradeInv, TradeTypeOK, PartnersAgree
<1>2. PICK C \in SUBSET Player : Reset({p, q} \cup Closed(C))
  <2>1. CASE Exchange(p, q)
    <3>1. PICK d, e :
             LET second == IF e = parent[tradeItem[q]] THEN {}
                           ELSE Touched(tradeItem[q], e, {p, q})
             IN  Reset({p, q} \cup Closed(Touched(tradeItem[p], d, {p, q}) \cup second))
      BY <2>1 DEF Exchange
    <3> QED BY <3>1 DEF Touched
  <2>2. CASE Reset({p, q})
    <3>1. Closed({}) = {}
      BY DEF Closed
    <3>2. {p, q} \cup Closed({}) = {p, q}
      BY <3>1
    <3> QED BY <2>2, <3>2
  <2> QED BY <2>1, <2>2 DEF AcceptSecond
<1> DEFINE D == {p, q} \cup Closed(C)
<1>3. D \in SUBSET Player /\ \A r \in D : tradePartner[r] \in D \cup {None}
  BY <1>1, ClosedIsClosed
<1> QED
  BY <1>2, <1>3, ResetKeeps

\* Things stay where things can be.
LEMMA NextParent ==
    ASSUME TradeInv, TradeNext
    PROVE  parent' \in [Item -> Player \cup Bag \cup {Ground, Gone}] /\ away' \subseteq Player
<1> USE DEF TradeInv, TradeTypeOK
<1>1. ASSUME NEW p \in Player, AcceptSecond(p)
      PROVE  parent' \in [Item -> Player \cup Bag \cup {Ground, Gone}]
  <2>1. tradePartner[p] \in Player
    BY <1>1 DEF AcceptSecond, MayAccept
  <2>2. CASE Exchange(p, tradePartner[p])
    <3>1. /\ tradeItem[p] \in Item /\ tradeItem[tradePartner[p]] \in Item
          /\ \E d \in Room(tradePartner[p], tradeItem[p]),
                e \in Room(p, tradeItem[tradePartner[p]])
                        \cup {parent[tradeItem[tradePartner[p]]]} :
                parent' = [parent EXCEPT ![tradeItem[p]] = d,
                                         ![tradeItem[tradePartner[p]]] = e]
      BY <2>1, <2>2 DEF Exchange
    <3>2. \A r \in Player, x \in Item : Room(r, x) \subseteq Player \cup Bag
      BY DEF Room
    <3> QED BY <2>1, <3>1, <3>2
  <2> QED BY <1>1, <2>2 DEF AcceptSecond
<1>2. ASSUME NEW p \in Player, NEW x \in Item, NEW d \in Player \cup Bag \cup {Ground},
             MoveItem(p, x, d)
      PROVE  parent' \in [Item -> Player \cup Bag \cup {Ground, Gone}]
  BY <1>2 DEF MoveItem
<1>3. ASSUME NEW x \in Item, DestroyItem(x)
      PROVE  parent' \in [Item -> Player \cup Bag \cup {Ground, Gone}]
  BY <1>3 DEF DestroyItem
<1> QED
  BY <1>1, <1>2, <1>3 DEF TradeNext, RequestTrade, AcceptFirst, AcceptSecond,
     CloseTrade, WalkAway, LogOut, ComeBack, MoveItem, DestroyItem, UpdateItem

\* A step that leaves the trade fields alone.
LEMMA SameTrade ==
    ASSUME TradeInv, UNCHANGED tradeVars
    PROVE  FieldsOK' /\ PartnersAgree' /\ RegistryExact'
<1>1. /\ tradeState' = tradeState /\ tradePartner' = tradePartner
      /\ tradeItem' = tradeItem /\ tradeItems' = tradeItems /\ tradeRefs' = tradeRefs
  BY DEF tradeVars
<1>2. FieldsOK'
  BY <1>1 DEF TradeInv, TradeTypeOK, FieldsOK
<1>3. PartnersAgree'
  BY <1>1 DEF TradeInv, PartnersAgree
<1>4. RegistryExact'
  BY <1>1 DEF TradeInv, RegistryExact
<1> QED BY <1>2, <1>3, <1>4

LEMMA NextTrade == TradeInv /\ [TradeNext]_tvars => TradeInv'
<1> SUFFICES ASSUME TradeInv, [TradeNext]_tvars PROVE TradeInv'
  OBVIOUS
<1>1. ASSUME TradeNext PROVE FieldsOK' /\ PartnersAgree' /\ RegistryExact'
  <2>1. ASSUME NEW p \in Player, NEW q \in Player, NEW i \in Item, RequestTrade(p, q, i)
        PROVE  FieldsOK' /\ PartnersAgree' /\ RegistryExact'
    BY <2>1, RequestKeeps
  <2>2. ASSUME NEW p \in Player, AcceptFirst(p) \/ AcceptSecond(p)
        PROVE  FieldsOK' /\ PartnersAgree' /\ RegistryExact'
    BY <2>2, AcceptKeeps, ExchangeKeeps
  <2>3. ASSUME NEW p \in Player, CloseTrade(p) \/ WalkAway(p) \/ LogOut(p)
        PROVE  FieldsOK' /\ PartnersAgree' /\ RegistryExact'
    <3>1. PICK C \in SUBSET Player : CloseTrades(C)
      BY <2>3 DEF CloseTrade, WalkAway, LogOut
    <3> QED BY <3>1, CloseKeeps
  <2>4. ASSUME NEW p \in Player, ComeBack(p)
        PROVE  FieldsOK' /\ PartnersAgree' /\ RegistryExact'
    BY <2>4, SameTrade DEF ComeBack
  <2>5. ASSUME NEW p \in Player, NEW x \in Item,
               NEW d \in Player \cup Bag \cup {Ground}, MoveItem(p, x, d)
        PROVE  FieldsOK' /\ PartnersAgree' /\ RegistryExact'
    BY <2>5, CloseKeeps DEF MoveItem, Touched
  <2>6. ASSUME NEW x \in Item, DestroyItem(x) \/ UpdateItem(x)
        PROVE  FieldsOK' /\ PartnersAgree' /\ RegistryExact'
    <3>1. PICK C \in SUBSET Player : CloseTrades(C)
      BY <2>6 DEF DestroyItem, UpdateItem, Touched
    <3> QED BY <3>1, CloseKeeps
  <2> QED BY <1>1, <2>1, <2>2, <2>3, <2>4, <2>5, <2>6 DEF TradeNext
<1>2. CASE TradeNext
  BY <1>1, <1>2, NextParent DEF TradeInv, TradeTypeOK, FieldsOK
<1>3. CASE UNCHANGED tvars
  <2>1. FieldsOK' /\ PartnersAgree' /\ RegistryExact'
    BY <1>3, SameTrade DEF tvars
  <2>2. parent' = parent /\ away' = away
    BY <1>3 DEF tvars
  <2> QED
    BY <2>1, <2>2 DEF TradeInv, TradeTypeOK, FieldsOK
<1> QED BY <1>2, <1>3

LEMMA TradeCorrect == TradeSpec => []TradeInv
BY InitTrade, NextTrade, PTL DEF TradeSpec

-----------------------------------------------------------------------------
\* Induction over the natural numbers, said of a set.
Before == {pair \in Nat \X Nat : pair[1] < pair[2]}

LEMMA SetInduction ==
    ASSUME NEW S, 0 \in S, \A n \in Nat : n \in S => n + 1 \in S
    PROVE  Nat \subseteq S
<1> DEFINE T == Nat \ S
<1> SUFFICES ASSUME T # {} PROVE FALSE
  OBVIOUS
<1>1. IsWellFoundedOn(Before, Nat)
  BY NatLessThanWellFounded DEF OpToRel, Before
<1>2. PICK x \in T : \A y \in T : <<y, x>> \notin Before
  <2>1. T \subseteq Nat
    OBVIOUS
  <2> HIDE DEF T
  <2> QED BY <1>1, <2>1, WFMin
<1>3. x - 1 \in Nat /\ x - 1 < x /\ (x - 1) + 1 = x
  OBVIOUS
<1>4. x - 1 \in T
  BY <1>3
<1>5. <<x - 1, x>> \in Before
  BY <1>3 DEF Before
<1> QED BY <1>2, <1>4, <1>5

-----------------------------------------------------------------------------
(* Containment, for any function P that says what each item is in.         *)

Place == Player \cup {Ground, Gone}
Thing == Item \cup Place

\* A set that with a thing has what the thing is in.
Upward(P, S) == \A k \in S \cap Item : P[k] \in S

\* What j is in, directly or not, and j itself.
Way(P, j) == {i \in Thing : \A S \in SUBSET Thing : j \in S /\ Upward(P, S) => i \in S}

\* Containers are not in each other: no set of items goes round in circles.
Grounded(P) == \A S \in SUBSET Item : S # {} => \E k \in S : P[k] \notin S

Tree(P) == P \in [Item -> Thing] /\ Grounded(P)

LEMMA PlacesApart == Place \cap Item = {}
  BY TradeAssumption DEF Place

LEMMA WayFacts ==
    ASSUME NEW P \in [Item -> Thing], NEW j \in Thing
    PROVE  /\ j \in Way(P, j)
           /\ Way(P, j) \subseteq Thing
           /\ Upward(P, Way(P, j))
           /\ \A S \in SUBSET Thing : j \in S /\ Upward(P, S) => Way(P, j) \subseteq S
<1>1. ASSUME NEW k \in Way(P, j) \cap Item PROVE P[k] \in Way(P, j)
  <2>1. P[k] \in Thing
    OBVIOUS
  <2>2. ASSUME NEW S \in SUBSET Thing, j \in S, Upward(P, S) PROVE P[k] \in S
    BY <1>1, <2>2 DEF Way, Upward
  <2> QED BY <2>1, <2>2 DEF Way
<1> QED BY <1>1 DEF Way, Upward

LEMMA WayOn ==
    ASSUME NEW P \in [Item -> Thing], NEW j \in Thing, NEW k \in Way(P, j)
    PROVE  k \in Thing /\ Way(P, k) \subseteq Way(P, j)
<1>1. k \in Thing
  BY DEF Way
<1> QED BY <1>1, WayFacts

LEMMA WayOfPlace ==
    ASSUME NEW P \in [Item -> Thing], NEW a \in Place
    PROVE  Way(P, a) = {a}
<1>1. a \in Thing /\ {a} \in SUBSET Thing /\ Upward(P, {a})
  BY PlacesApart DEF Thing, Upward
<1> QED BY <1>1, WayFacts

LEMMA WayOfItem ==
    ASSUME NEW P \in [Item -> Thing], NEW j \in Item
    PROVE  Way(P, j) = {j} \cup Way(P, P[j])
<1>1. j \in Thing /\ P[j] \in Thing
  BY DEF Thing
<1>2. P[j] \in Way(P, j)
  BY <1>1, WayFacts DEF Upward
<1>3. Way(P, P[j]) \subseteq Way(P, j)
  BY <1>1, <1>2, WayOn
<1>4. {j} \cup Way(P, P[j]) \in SUBSET Thing /\ Upward(P, {j} \cup Way(P, P[j]))
  BY <1>1, WayFacts DEF Upward
<1> QED BY <1>1, <1>3, <1>4, WayFacts

\* Of two things that contain a third, one contains the other.
LEMMA WayIsLinear ==
    ASSUME NEW P \in [Item -> Thing], NEW j \in Thing, NEW a \in Way(P, j),
           NEW b \in Way(P, j)
    PROVE  a \in Way(P, b) \/ b \in Way(P, a)
<1> DEFINE S == {c \in Thing : \A e \in Way(P, j) : c \in Way(P, e) \/ e \in Way(P, c)}
<1>1. j \in S
  OBVIOUS
<1>2. Upward(P, S)
  <2> SUFFICES ASSUME NEW c \in S \cap Item PROVE P[c] \in S
    BY DEF Upward
  <2>1. P[c] \in Thing
    OBVIOUS
  <2> SUFFICES ASSUME NEW e \in Way(P, j) PROVE P[c] \in Way(P, e) \/ e \in Way(P, P[c])
    BY <2>1
  <2>2. e \in Thing
    BY WayFacts
  <2>3. CASE c \in Way(P, e)
    BY <2>2, <2>3, WayFacts DEF Upward
  <2>4. CASE e \in Way(P, c) /\ e # c
    BY <2>4, WayOfItem
  <2>5. CASE e = c
    BY <2>1, <2>5, WayFacts, WayOfItem
  <2> QED BY <2>3, <2>4, <2>5
<1>3. Way(P, j) \subseteq S
  BY <1>1, <1>2, WayFacts
<1> QED BY <1>3

LEMMA NotInItself ==
    ASSUME NEW P, Tree(P), NEW k \in Item
    PROVE  k \notin Way(P, P[k])
<1> SUFFICES ASSUME k \in Way(P, P[k]) PROVE FALSE
  OBVIOUS
<1> DEFINE S == {a \in Item : k \in Way(P, a)}
<1>1. k \in S
  BY WayFacts DEF Tree, Thing
<1>2. ASSUME NEW a \in S PROVE P[a] \in S
  <2>1. k \in Way(P, P[a])
    BY WayOfItem DEF Tree
  <2>2. P[a] \in Thing
    BY DEF Tree
  <2>3. P[a] \notin Place
    BY <2>1, WayOfPlace, PlacesApart DEF Tree
  <2> QED BY <2>1, <2>2, <2>3 DEF Thing
<1> QED BY <1>1, <1>2 DEF Tree, Grounded

\* Everything is in the end at one place.
LEMMA OnePlace ==
    ASSUME NEW P \in [Item -> Thing], NEW j \in Thing, NEW a \in Way(P, j) \cap Place,
           NEW b \in Way(P, j) \cap Place
    PROVE  a = b
  BY WayIsLinear, WayOfPlace
-----------------------------------------------------------------------------
(* x is moved to d, which is not x and not in x.                           *)

Moved(P, x, d) == [P EXCEPT ![x] = d]

\* What is not in x is where it was.
LEMMA OthersStay ==
    ASSUME NEW P, Tree(P), NEW x \in Item, NEW d \in Thing, NEW j \in Thing, x \notin Way(P, j)
    PROVE  Way(Moved(P, x, d), j) = Way(P, j)
<1> DEFINE Q == Moved(P, x, d)
<1>1. Q \in [Item -> Thing] /\ \A k \in Item : k # x => Q[k] = P[k]
  BY DEF Tree, Moved
<1> HIDE DEF Q
<1>2. Upward(Q, Way(P, j))
  BY <1>1, WayFacts DEF Tree, Upward
<1>3. Way(Q, j) \subseteq Way(P, j)
  BY <1>1, <1>2, WayFacts DEF Tree
<1>4. Upward(P, Way(Q, j))
  BY <1>1, <1>3, WayFacts DEF Upward
<1>5. Way(P, j) \subseteq Way(Q, j)
  BY <1>1, <1>4, WayFacts DEF Tree
<1> QED BY <1>3, <1>5 DEF Q

LEMMA MoveGrounded ==
    ASSUME NEW P, Tree(P), NEW x \in Item, NEW d \in Thing, x \notin Way(P, d)
    PROVE  Tree(Moved(P, x, d))
<1> DEFINE Q == Moved(P, x, d)
<1>1. Q \in [Item -> Thing] /\ Q[x] = d /\ \A k \in Item : k # x => Q[k] = P[k]
  BY DEF Tree, Moved
<1> HIDE DEF Q
<1>2. ASSUME NEW S \in SUBSET Item, S # {}, \A k \in S : Q[k] \in S PROVE FALSE
  <2>1. \E k \in S : P[k] \notin S
    BY <1>2 DEF Tree, Grounded
  <2>2. x \in S /\ d \in S
    BY <1>1, <1>2, <2>1
  <2> DEFINE T == S \cap Way(P, d)
  <2>3. d \in T
    BY <2>2, WayFacts DEF Tree
  <2>4. ASSUME NEW k \in T PROVE P[k] \in T
    <3>1. P[k] = Q[k]
      BY <1>1
    <3>2. P[k] \in Way(P, d)
      BY WayFacts DEF Tree, Upward
    <3> QED BY <1>2, <3>1, <3>2
  <2>5. T \in SUBSET Item
    OBVIOUS
  <2> HIDE DEF T
  <2> QED BY <2>3, <2>4, <2>5 DEF Tree, Grounded
<1> QED BY <1>1, <1>2 DEF Tree, Grounded, Q

\* What is in x goes where d is, x with it.
LEMMA InsideFollows ==
    ASSUME NEW P, Tree(P), NEW x \in Item, NEW d \in Thing, x \notin Way(P, d),
           NEW j \in Thing, x \in Way(P, j)
    PROVE  Way(Moved(P, x, d), j)
             = {k \in Way(P, j) : x \in Way(P, k)} \cup Way(P, d)
<1> DEFINE Q == Moved(P, x, d)
           In == {k \in Way(P, j) : x \in Way(P, k)}
<1>1. Q \in [Item -> Thing] /\ Q[x] = d /\ \A k \in Item : k # x => Q[k] = P[k]
  BY DEF Tree, Moved
<1>2. P \in [Item -> Thing] /\ x \in Thing
  BY DEF Tree, Thing
<1>3. Way(Q, d) = Way(P, d)
  BY OthersStay
<1>4. j \in In
  BY <1>2, WayFacts
<1> HIDE DEF Q
<1>5. Upward(Q, In \cup Way(P, d))
  <2> SUFFICES ASSUME NEW k \in Item, k \in In \cup Way(P, d)
               PROVE  Q[k] \in In \cup Way(P, d)
    BY DEF Upward
  <2>1. CASE k \in Way(P, d)
    <3>1. k # x
      BY <2>1
    <3> QED BY <1>1, <1>2, <2>1, <3>1, WayFacts DEF Upward
  <2>2. CASE k \in In /\ k = x
    BY <1>1, <1>2, <2>2, WayFacts
  <2>3. CASE k \in In /\ k # x
    <3>1. P[k] \in Way(P, j)
      BY <1>2, <2>3, WayFacts DEF Upward
    <3>2. x \in Way(P, P[k])
      BY <1>2, <2>3, WayOfItem
    <3> QED BY <1>1, <2>3, <3>1, <3>2
  <2> QED BY <2>1, <2>2, <2>3
<1>6. Way(Q, j) \subseteq In \cup Way(P, d)
  <2>1. In \cup Way(P, d) \in SUBSET Thing
    BY <1>2, WayFacts
  <2> HIDE DEF In
  <2> QED BY <1>1, <1>4, <1>5, <2>1, WayFacts
<1>7. In \subseteq Way(Q, j)
  <2> DEFINE U == Way(Q, j) \cup {k \in Thing : x \notin Way(P, k)}
  <2>1. ASSUME NEW k \in U \cap Item PROVE P[k] \in U
    <3>0. P[k] \in Thing
      BY <1>2
    <3>1. CASE x \notin Way(P, k)
      BY <1>2, <3>0, <3>1, WayOfItem
    <3>2. CASE k = x
      BY <3>0, <3>2, NotInItself
    <3>3. CASE k \in Way(Q, j) /\ k # x
      BY <1>1, <3>3, WayFacts DEF Upward
    <3> QED BY <3>1, <3>2, <3>3
  <2>2. j \in U /\ U \in SUBSET Thing
    BY <1>1, WayFacts
  <2> HIDE DEF U
  <2>3. Way(P, j) \subseteq U
    BY <1>2, <2>1, <2>2, WayFacts DEF Upward
  <2> QED BY <2>3 DEF U
<1>8. Way(P, d) \subseteq Way(Q, j)
  <2>1. x \in Way(Q, j)
    BY <1>2, <1>7, WayFacts
  <2>2. d \in Way(Q, j)
    BY <1>1, <2>1, WayFacts DEF Upward
  <2> QED BY <1>1, <1>3, <2>2, WayOn
<1> QED BY <1>6, <1>7, <1>8 DEF Q

\* A move outside of k: neither is x in k, nor k in x, nor does x go to k.
LEMMA MoveBeside ==
    ASSUME NEW P, Tree(P), NEW x \in Item, NEW d \in Thing, x \notin Way(P, d),
           NEW k \in Item, k \notin Way(P, x), x \notin Way(P, k), k \notin Way(P, d)
    PROVE  /\ Way(Moved(P, x, d), k) = Way(P, k)
           /\ \A j \in Thing : k \in Way(Moved(P, x, d), j) <=> k \in Way(P, j)
<1>1. P \in [Item -> Thing] /\ x \in Thing /\ k \in Thing
  BY DEF Tree, Thing
<1>2. ASSUME NEW j \in Thing PROVE k \in Way(Moved(P, x, d), j) <=> k \in Way(P, j)
  <2>1. CASE x \notin Way(P, j)
    BY <2>1, OthersStay
  <2>2. CASE x \in Way(P, j)
    <3>1. k \notin Way(P, j)
      BY <1>1, <2>2, WayIsLinear
    <3> QED BY <2>2, <3>1, InsideFollows
  <2> QED BY <2>1, <2>2
<1> QED BY <1>1, <1>2, OthersStay
-----------------------------------------------------------------------------
(* What Climb computes.                                                    *)

Top == Cardinality(Item)

LEMMA TopIsNat == Top \in Nat
  BY TradeAssumption, FS_CardinalityType DEF Top

\* One step up, or none.
Up(k) == IF k \in Item THEN parent[k] ELSE k

\* There is a function that fulfils the equations of Climb.
LEMMA ClimbIs ==
    Climb = [n \in 0..Top |-> IF n = 0 THEN [i \in Item |-> i]
                              ELSE [i \in Item |-> Up(Climb[n - 1][i])]]
<1> DEFINE Eqn(f, m) ==
             f = [n \in 0..m |-> IF n = 0 THEN [i \in Item |-> i]
                                 ELSE [i \in Item |-> Up(f[n - 1][i])]]
           S == {m \in Nat : \E f : Eqn(f, m)}
<1>1. 0 \in S
  <2> DEFINE f == [n \in 0..0 |-> [i \in Item |-> i]]
  <2>1. Eqn(f, 0)
    OBVIOUS
  <2> QED BY <2>1
<1>2. ASSUME NEW m \in Nat, m \in S PROVE m + 1 \in S
  <2>1. PICK f : Eqn(f, m)
    BY <1>2
  <2> DEFINE g == [n \in 0..(m + 1) |-> IF n <= m THEN f[n]
                                        ELSE [i \in Item |-> Up(f[m][i])]]
  <2>2. ASSUME NEW n \in 0..(m + 1)
        PROVE  g[n] = IF n = 0 THEN [i \in Item |-> i]
                      ELSE [i \in Item |-> Up(g[n - 1][i])]
    <3>1. CASE n = 0
      BY <2>1, <3>1
    <3>2. CASE n # 0 /\ n <= m
      <4>1. n - 1 \in 0..(m + 1) /\ n - 1 <= m /\ n \in 0..m
        BY <3>2
      <4> HIDE DEF Up
      <4>2. g[n - 1] = f[n - 1] /\ g[n] = f[n]
        BY <4>1, <3>2
      <4>3. f[n] = [i \in Item |-> Up(f[n - 1][i])]
        BY <2>1, <3>2, <4>1
      <4> QED BY <3>2, <4>2, <4>3
    <3>3. CASE n = m + 1
      <4>1. n - 1 = m /\ n # 0 /\ ~(n <= m) /\ m \in 0..(m + 1) /\ m <= m
        BY <3>3
      <4>2. g[m] = f[m] /\ g[n] = [i \in Item |-> Up(f[m][i])]
        BY <4>1, <3>3
      <4> QED BY <4>1, <4>2
    <3> QED BY <3>1, <3>2, <3>3
  <2>3. g = [n \in 0..(m + 1) |-> g[n]]
    OBVIOUS
  <2> HIDE DEF g
  <2>4. Eqn(g, m + 1)
    BY <2>2, <2>3
  <2> QED BY <2>4
<1> HIDE DEF S
<1>3. Nat \subseteq S
  BY <1>1, <1>2, SetInduction
<1>4. \E f : Eqn(f, Top)
  BY <1>3, TopIsNat DEF S
<1>5. Climb = CHOOSE f : Eqn(f, Top)
  BY DEF Climb, Top, Up
<1>6. Eqn(Climb, Top)
  <2> HIDE DEF Eqn
  <2>1. Eqn(CHOOSE f : Eqn(f, Top), Top)
    BY <1>4
  <2> QED BY <1>5, <2>1
<1> QED BY <1>6

LEMMA ClimbSteps ==
    ASSUME NEW j \in Item
    PROVE  /\ Climb[0][j] = j
           /\ \A n \in 0..(Top - 1) : Climb[n + 1][j] = Up(Climb[n][j])
<1>1. 0 \in 0..Top /\ Climb[0] = [i \in Item |-> i]
  BY ClimbIs, TopIsNat
<1>2. ASSUME NEW n \in 0..(Top - 1) PROVE Climb[n + 1][j] = Up(Climb[n][j])
  <2>1. n + 1 \in 0..Top /\ n + 1 # 0 /\ (n + 1) - 1 = n
    BY TopIsNat
  <2>2. Climb[n + 1] = [i \in Item |-> Up(Climb[n][i])]
    BY ClimbIs, <2>1
  <2> QED BY <2>2
<1> QED BY <1>1, <1>2

\* Climbing stays on the way up.
LEMMA ClimbInWay ==
    ASSUME parent \in [Item -> Thing], NEW j \in Item
    PROVE  /\ \A n \in 0..Top : Climb[n][j] \in Way(parent, j)
           /\ \A n \in 1..Top : Climb[n][j] \in Way(parent, parent[j])
<1> DEFINE A == {n \in Nat : n <= Top => Climb[n][j] \in Way(parent, j)}
           B == {n \in Nat : n + 1 <= Top => Climb[n + 1][j] \in Way(parent, parent[j])}
<1>0. j \in Thing /\ parent[j] \in Thing
  BY DEF Thing
<1>a. ASSUME NEW k \in Thing, NEW a \in Way(parent, k) PROVE Up(a) \in Way(parent, k)
  BY <1>a, WayFacts DEF Up, Upward
<1>1. 0 \in A /\ 0 \in B
  <2>1. Climb[0][j] \in Way(parent, j)
    BY <1>0, ClimbSteps, WayFacts
  <2>2. 1 <= Top => Climb[1][j] \in Way(parent, parent[j])
    <3>1. 1 <= Top => 0 \in 0..(Top - 1) /\ 0 + 1 = 1
      BY TopIsNat
    <3>2. 1 <= Top => Climb[1][j] = Up(Climb[0][j])
      BY <3>1, ClimbSteps
    <3> QED BY <1>0, <3>2, ClimbSteps, WayFacts DEF Up
  <2> QED BY <2>1, <2>2
<1>2. ASSUME NEW n \in Nat, n \in A PROVE n + 1 \in A
  <2> SUFFICES ASSUME n + 1 <= Top PROVE Climb[n + 1][j] \in Way(parent, j)
    OBVIOUS
  <2>1. n \in 0..(Top - 1) /\ n <= Top
    BY TopIsNat
  <2> QED BY <1>0, <1>2, <1>a, <2>1, ClimbSteps
<1>3. ASSUME NEW n \in Nat, n \in B PROVE n + 1 \in B
  <2> SUFFICES ASSUME (n + 1) + 1 <= Top
               PROVE  Climb[(n + 1) + 1][j] \in Way(parent, parent[j])
    OBVIOUS
  <2>1. n + 1 \in 0..(Top - 1) /\ n + 1 <= Top
    BY TopIsNat
  <2> QED BY <1>0, <1>3, <1>a, <2>1, ClimbSteps
<1> HIDE DEF A, B
<1>4. Nat \subseteq A /\ Nat \subseteq B
  <2>1. Nat \subseteq A
    BY <1>1, <1>2, SetInduction
  <2>2. Nat \subseteq B
    BY <1>1, <1>3, SetInduction
  <2> QED BY <2>1, <2>2
<1>5. ASSUME NEW n \in 0..Top PROVE Climb[n][j] \in Way(parent, j)
  BY <1>4, TopIsNat DEF A
<1>6. ASSUME NEW n \in 1..Top PROVE Climb[n][j] \in Way(parent, parent[j])
  <2>1. n - 1 \in B /\ (n - 1) + 1 = n
    BY <1>4, TopIsNat
  <2> QED BY <2>1, TopIsNat DEF B
<1> QED BY <1>5, <1>6

\* As many steps as there are items lead out of all of them.
LEMMA RootIsPlace ==
    ASSUME Tree(parent), NEW j \in Item
    PROVE  Climb[Top][j] \in Place
<1> DEFINE f == [n \in 0..Top |-> Climb[n][j]]
<1>0. parent \in [Item -> Thing]
  BY DEF Tree
<1>1. \A n \in 0..Top : Climb[n][j] \in Thing
  BY <1>0, ClimbInWay DEF Way
<1> SUFFICES ASSUME Climb[Top][j] \in Item PROVE FALSE
  BY <1>1, TopIsNat DEF Thing
<1>2. \A n \in 0..Top : Climb[n][j] \in Item
  <2> DEFINE A == {n \in Nat : n <= Top => Climb[Top - n][j] \in Item}
  <2>1. 0 \in A
    BY TopIsNat
  <2>2. ASSUME NEW n \in Nat, n \in A PROVE n + 1 \in A
    <3> SUFFICES ASSUME n + 1 <= Top PROVE Climb[Top - (n + 1)][j] \in Item
      OBVIOUS
    <3>1. Top - (n + 1) \in 0..(Top - 1) /\ (Top - (n + 1)) + 1 = Top - n /\ n <= Top
      BY TopIsNat
    <3>2. Climb[Top - n][j] = Up(Climb[Top - (n + 1)][j])
      BY <3>1, ClimbSteps
    <3> QED BY <2>2, <3>1, <3>2 DEF Up
  <2> HIDE DEF A
  <2>3. Nat \subseteq A
    BY <2>1, <2>2, SetInduction
  <2> SUFFICES ASSUME NEW n \in 0..Top PROVE Climb[n][j] \in Item
    OBVIOUS
  <2>4. Top - n \in A /\ Top - (Top - n) = n /\ Top - n <= Top
    BY <2>3, TopIsNat
  <2> QED BY <2>4 DEF A
<1>3. \E a, b \in 0..Top : a # b /\ f[a] = f[b]
  <2>1. f \in [0..Top -> Item]
    BY <1>2
  <2>2. IsFiniteSet(0..Top) /\ Cardinality(0..Top) = Top + 1
    <3>1. 0 \in Int /\ Top \in Int /\ ~(0 > Top) /\ (Top - 0) + 1 = Top + 1
      BY TopIsNat
    <3> QED BY <3>1, FS_Interval
  <2>3. IsFiniteSet(Item) /\ Cardinality(Item) < Cardinality(0..Top)
    BY <2>2, TopIsNat, TradeAssumption DEF Top
  <2> HIDE DEF f
  <2> QED BY <2>1, <2>2, <2>3, FS_PigeonHole
<1>4. PICK a \in 0..Top, b \in 0..Top : a < b /\ Climb[a][j] = Climb[b][j]
  <2>1. PICK a \in 0..Top, b \in 0..Top : a # b /\ Climb[a][j] = Climb[b][j]
    BY <1>3
  <2>2. a < b \/ b < a
    BY <2>1, TopIsNat
  <2> QED BY <2>1, <2>2
<1> DEFINE S == {Climb[n][j] : n \in 0..(b - 1)}
<1>5. S \in SUBSET Item /\ S # {}
  <2>1. 0 \in 0..(b - 1) /\ \A n \in 0..(b - 1) : n \in 0..Top
    BY <1>4, TopIsNat
  <2> QED BY <1>2, <2>1
<1>6. ASSUME NEW k \in S PROVE parent[k] \in S
  <2>1. PICK n \in 0..(b - 1) : k = Climb[n][j]
    OBVIOUS
  <2>2. n \in 0..(Top - 1)
    BY TopIsNat
  <2>3. Climb[n + 1][j] = parent[k]
    BY <1>5, <2>1, <2>2, ClimbSteps DEF Up
  <2>4. CASE n + 1 <= b - 1
    <3>1. n + 1 \in 0..(b - 1)
      BY <2>4, TopIsNat
    <3> QED BY <2>3, <3>1
  <2>5. CASE n + 1 = b
    <3>1. a \in 0..(b - 1)
      BY <1>4, TopIsNat
    <3> QED BY <1>4, <2>3, <2>5, <3>1
  <2> QED BY <2>4, <2>5, TopIsNat
<1> HIDE DEF S
<1> QED BY <1>5, <1>6 DEF Tree, Grounded

\* Contents, Inside and Root, said of ways.
LEMMA Containment ==
    Tree(parent) =>
      \A j \in Item :
         /\ \A i \in Item : /\ j \in Contents(i) <=> i \in Way(parent, j)
                            /\ Inside(j, i) <=> i \in Way(parent, parent[j])
         /\ Root(j) \in Place /\ Root(j) \in Way(parent, j)
<1> SUFFICES ASSUME Tree(parent), NEW j \in Item
             PROVE  /\ \A i \in Item : /\ j \in Contents(i) <=> i \in Way(parent, j)
                                       /\ Inside(j, i) <=> i \in Way(parent, parent[j])
                    /\ Root(j) \in Place /\ Root(j) \in Way(parent, j)
  OBVIOUS
<1>0. parent \in [Item -> Thing] /\ j \in Thing /\ parent[j] \in Thing
  BY DEF Tree, Thing
<1>1. Root(j) \in Place /\ Root(j) \in Way(parent, j)
  BY <1>0, RootIsPlace, ClimbInWay, TopIsNat DEF Root, Top
<1>2. ASSUME NEW i \in Item, Inside(j, i) PROVE i \in Way(parent, parent[j])
  BY <1>0, <1>2, ClimbInWay DEF Inside, Top
<1>3. ASSUME NEW i \in Item, i \in Way(parent, parent[j]) PROVE Inside(j, i)
  <2> DEFINE S == {Climb[n][j] : n \in 0..Top}
  <2>1. Way(parent, j) \subseteq S
    <3>1. S \in SUBSET Thing
      BY <1>0, ClimbInWay DEF Way
    <3>2. j \in S
      <4>1. 0 \in 0..Top
        BY TopIsNat
      <4> QED BY <4>1, ClimbSteps
    <3>3. ASSUME NEW k \in S \cap Item PROVE parent[k] \in S
      <4>1. PICK n \in 0..Top : k = Climb[n][j]
        OBVIOUS
      <4>2. n # Top
        BY <4>1, RootIsPlace, PlacesApart
      <4>3. n \in 0..(Top - 1) /\ n + 1 \in 0..Top
        BY <4>2, TopIsNat
      <4> QED BY <4>1, <4>3, ClimbSteps DEF Up
    <3> HIDE DEF S
    <3> QED BY <1>0, <3>1, <3>2, <3>3, WayFacts DEF Upward
  <2>2. i \in Way(parent, j)
    BY <1>0, <1>3, WayOfItem
  <2>3. PICK n \in 0..Top : i = Climb[n][j]
    BY <2>1, <2>2
  <2>4. i # j
    BY <1>3, NotInItself
  <2>5. n \in 1..Top
    BY <2>3, <2>4, ClimbSteps, TopIsNat
  <2> QED BY <2>3, <2>5 DEF Inside, Top
<1>4. ASSUME NEW i \in Item PROVE j \in Contents(i) <=> i \in Way(parent, j)
  BY <1>0, <1>2, <1>3, WayOfItem DEF Contents
<1> QED BY <1>1, <1>2, <1>3, <1>4

-----------------------------------------------------------------------------
(* What is on offer, and where it is.                                      *)

\* No thing is in two offers.
Apart ==
    \A p, q \in Player :
       p # q /\ tradeItem[p] # None /\ tradeItem[q] # None
          => \A j \in Item :
                ~(tradeItem[p] \in Way(parent, j) /\ tradeItem[q] \in Way(parent, j))

\* What is on offer is with its owner, who is here, or on the ground.
AtHand ==
    \A p \in Player :
       tradeItem[p] # None =>
          p \notin away /\ {p, Ground} \cap Way(parent, tradeItem[p]) # {}

OfferInv == TradeInv /\ Grounded(parent) /\ Apart /\ AtHand

\* Nothing about k changes in a step: what it is in, and what is in it.
Same(k) ==
    /\ Way(parent', k) = Way(parent, k)
    /\ \A j \in Thing : k \in Way(parent', j) <=> k \in Way(parent, j)
    /\ parent'[k] = parent[k]

LEMMA OfferTree == TradeTypeOK /\ Grounded(parent) => Tree(parent)
  BY TradeAssumption DEF TradeTypeOK, Tree, Thing, Place

\* Root is the only place on the way up.
LEMMA RootIs ==
    Tree(parent) => \A j \in Item, a \in Place : Root(j) = a <=> a \in Way(parent, j)
  BY Containment, OnePlace DEF Tree, Thing

LEMMA OffersAre == Tree(parent) => (TradeTypeOK => (Apart <=> OffersDisjoint))
<1> SUFFICES ASSUME Tree(parent), TradeTypeOK PROVE Apart <=> OffersDisjoint
  OBVIOUS
<1>1. ASSUME NEW p \in Player, NEW q \in Player, tradeItem[p] # None, tradeItem[q] # None
      PROVE  Contents(tradeItem[p]) \cap Contents(tradeItem[q]) = {}
               <=> \A j \in Item : ~(/\ tradeItem[p] \in Way(parent, j)
                                     /\ tradeItem[q] \in Way(parent, j))
  <2>1. tradeItem[p] \in Item /\ tradeItem[q] \in Item
    BY <1>1 DEF TradeTypeOK
  <2>2. /\ \A j \in Item : j \in Contents(tradeItem[p]) <=> tradeItem[p] \in Way(parent, j)
        /\ \A j \in Item : j \in Contents(tradeItem[q]) <=> tradeItem[q] \in Way(parent, j)
    BY <2>1, Containment
  <2>3. Contents(tradeItem[p]) \subseteq Item
    BY DEF Contents
  <2> QED BY <2>2, <2>3
<1> QED BY <1>1 DEF Apart, OffersDisjoint

LEMMA AtHandIs == Tree(parent) => (TradeTypeOK => (AtHand <=> OfferAtHand))
<1> SUFFICES ASSUME Tree(parent), TradeTypeOK, NEW p \in Player, tradeItem[p] # None
             PROVE  {p, Ground} \cap Way(parent, tradeItem[p]) # {}
                      <=> Root(tradeItem[p]) \in {p, Ground}
  BY DEF AtHand, OfferAtHand
<1>1. tradeItem[p] \in Item /\ p \in Place /\ Ground \in Place
  BY DEF TradeTypeOK, Place
<1> QED BY <1>1, RootIs

-----------------------------------------------------------------------------
(* A move that leaves a trade open does not concern its offer: that is     *)
(* what the hooks are for.                                                 *)

LEMMA UntouchedIsBeside ==
    ASSUME OfferInv, NEW p \in Player, NEW x \in Item, NEW d \in Thing, NEW T,
           tradeItem[p] # None, p \notin T, p \notin Touched(x, d, T)
    PROVE  /\ tradeItem[p] \notin Way(parent, x)
           /\ x \notin Way(parent, tradeItem[p])
           /\ tradeItem[p] \notin Way(parent, d)
<1> DEFINE k == tradeItem[p]
<1>0. Tree(parent) /\ parent \in [Item -> Thing]
  BY OfferTree DEF OfferInv, TradeInv, Tree
<1>1. k \in Item /\ k \in Thing /\ x \in Thing /\ p \in Place /\ Ground \in Place
  BY DEF OfferInv, TradeInv, TradeTypeOK, Thing, Place
<1>2. p \notin away /\ {p, Ground} \cap Way(parent, k) # {}
  BY DEF OfferInv, AtHand
<1>3. ~RemoveTouches(p, x) /\ ~AddTouches(p, d)
  BY <1>2 DEF Touched
<1>4. Offered(p, x) <=> k \in Way(parent, x)
  BY <1>0, <1>1, Containment, WayOfItem DEF Offered
<1>5. k \notin Way(parent, x)
  <2> SUFFICES ASSUME k \in Way(parent, x) PROVE FALSE
    OBVIOUS
  <2>1. parent[x] \in Player \ {p}
    BY <1>3, <1>4 DEF RemoveTouches
  <2>2. Way(parent, parent[x]) = {parent[x]}
    BY <1>0, <2>1, WayOfPlace DEF Place
  <2>3. k = x
    BY <1>0, <1>1, <2>1, <2>2, PlacesApart, WayOfItem DEF Place
  <2>4. parent[x] \in Way(parent, k) \cap Place
    BY <1>0, <1>1, <2>1, <2>3, WayFacts DEF Upward, Place
  <2>5. Ground \notin Player
    BY TradeAssumption
  <2> QED BY <1>0, <1>1, <1>2, <2>1, <2>4, <2>5, OnePlace
<1>6. k \notin Way(parent, d)
  <2>1. CASE d \in Place
    BY <1>0, <1>1, <2>1, WayOfPlace, PlacesApart
  <2>2. CASE d \in Item
    BY <1>0, <1>1, <1>3, <2>2, Containment DEF AddTouches
  <2> QED BY <2>1, <2>2 DEF Thing
<1>7. x \notin Way(parent, k)
  <2> SUFFICES ASSUME x \in Way(parent, k) PROVE FALSE
    OBVIOUS
  <2>1. x # k
    BY <1>0, <1>1, <1>5, WayFacts
  <2>2. x \in Way(parent, parent[k]) /\ parent[k] \in Thing
    BY <1>0, <1>1, <2>1, WayOfItem
  <2>3. parent[x] \in Way(parent, k) /\ parent[x] \in Way(parent, parent[k])
    BY <1>0, <1>1, <2>2, WayFacts DEF Upward
  <2>4. Inside(k, x)
    BY <1>0, <1>1, <2>2, Containment
  <2>5. parent[x] \notin {p, Ground}
    BY <1>3, <2>4 DEF RemoveTouches
  <2>6. parent[x] \in Item
    BY <1>0, <1>1, <1>2, <2>3, <2>5, OnePlace DEF Thing
  <2>7. Inside(k, parent[x])
    BY <1>0, <1>1, <2>3, <2>6, Containment
  <2>8. parent[k] = parent[x]
    BY <1>3, <2>6, <2>7 DEF RemoveTouches
  <2> QED BY <1>0, <2>2, <2>8, NotInItself
<1> QED BY <1>5, <1>6, <1>7

\* So it stays as it was.
LEMMA UntouchedStays ==
    ASSUME OfferInv, NEW p \in Player, NEW x \in Item, NEW d \in Thing, NEW T,
           tradeItem[p] # None, p \notin T, p \notin Touched(x, d, T),
           x \notin Way(parent, d), parent' = Moved(parent, x, d)
    PROVE  Same(tradeItem[p])
<1>1. Tree(parent) /\ tradeItem[p] \in Item /\ x \in Thing
  BY OfferTree DEF OfferInv, TradeInv, TradeTypeOK, Thing
<1>2. /\ tradeItem[p] \notin Way(parent, x) /\ x \notin Way(parent, tradeItem[p])
      /\ tradeItem[p] \notin Way(parent, d)
  BY UntouchedIsBeside
<1>3. tradeItem[p] # x
  BY <1>1, <1>2, WayFacts DEF Tree
<1>4. parent'[tradeItem[p]] = parent[tradeItem[p]]
  BY <1>1, <1>3 DEF Moved, Tree
<1>5. /\ Way(parent', tradeItem[p]) = Way(parent, tradeItem[p])
      /\ \A j \in Thing : tradeItem[p] \in Way(parent', j) <=> tradeItem[p] \in Way(parent, j)
  BY <1>1, <1>2, MoveBeside
<1> QED BY <1>4, <1>5 DEF Same

-----------------------------------------------------------------------------
(* The steps.  Each keeps the containers a tree, and a trade that goes on  *)
(* through it keeps its offer as it is.                                    *)

\* Of each offer that is still made the step changes nothing.
KeepsOffers ==
    \A p \in Player :
       tradeItem'[p] # None /\ tradeItem'[p] = tradeItem[p] => Same(tradeItem[p])

\* Only offers that were made before, by players who do not go away.
NoNewOffers ==
    \A p \in Player : tradeItem'[p] # None => tradeItem'[p] = tradeItem[p] /\ p \notin away'

LEMMA OffersStay ==
    ASSUME OfferInv, KeepsOffers, NoNewOffers
    PROVE  Apart' /\ AtHand'
<1>1. \A p \in Player : tradeItem'[p] # None =>
         /\ tradeItem'[p] = tradeItem[p] /\ p \notin away'
         /\ Same(tradeItem[p])
  BY DEF KeepsOffers, NoNewOffers
<1>2. Apart'
  BY <1>1 DEF OfferInv, Apart, Same, Thing
<1>3. AtHand'
  BY <1>1 DEF OfferInv, AtHand, Same
<1> QED BY <1>2, <1>3

LEMMA UnmovedKeeps ==
    ASSUME OfferInv, parent' = parent
    PROVE  KeepsOffers /\ Grounded(parent')
  BY DEF KeepsOffers, Same, OfferInv

\* A move, or the loss of a thing, with the trades it closes.
LEMMA MoveKeepsOffers ==
    ASSUME OfferInv, NEW x \in Item, NEW d \in Thing, x \notin Way(parent, d),
           parent' = [parent EXCEPT ![x] = d], CloseTrades(Touched(x, d, {})), away' = away
    PROVE  KeepsOffers /\ NoNewOffers /\ Grounded(parent')
<1>1. Tree(parent) /\ parent' = Moved(parent, x, d)
  BY OfferTree DEF OfferInv, TradeInv, Moved
<1>2. Tree(parent')
  <2>1. Tree(Moved(parent, x, d))
    BY <1>1, MoveGrounded
  <2> QED BY <1>1, <2>1
<1>3. ASSUME NEW p \in Player, tradeItem'[p] # None
      PROVE  p \notin Touched(x, d, {}) /\ tradeItem'[p] = tradeItem[p]
    BY <1>3 DEF CloseTrades, Reset, Closed
<1>4. NoNewOffers
  BY <1>3 DEF NoNewOffers, OfferInv, AtHand
<1>5. ASSUME NEW p \in Player, tradeItem'[p] # None PROVE Same(tradeItem[p])
  BY <1>1, <1>3, <1>5, UntouchedStays
<1> QED BY <1>2, <1>4, <1>5 DEF KeepsOffers, Tree

\* An exchange is two moves: what goes one way does not go into what goes the
\* other way, since neither is put where the other is.
LEMMA ExchangeIsTwoMoves ==
    ASSUME OfferInv, NEW p \in Player, NEW q \in Player, p # q,
           tradeItem[p] # None, tradeItem[q] # None,
           NEW d \in Room(q, tradeItem[p]),
           NEW e \in Room(p, tradeItem[q]) \cup {parent[tradeItem[q]]}
    PROVE  /\ d \in Thing /\ e \in Thing
           /\ tradeItem[p] \notin Way(parent, d) /\ tradeItem[q] \notin Way(parent, d)
           /\ tradeItem[p] \notin Way(parent, e) /\ tradeItem[q] \notin Way(parent, e)
           /\ tradeItem[p] \notin Way(parent, tradeItem[q])
           /\ tradeItem[q] \notin Way(parent, tradeItem[p])
<1> DEFINE i == tradeItem[p]
           j == tradeItem[q]
<1>1. /\ Tree(parent) /\ parent \in [Item -> Thing]
      /\ i \in Item /\ j \in Item /\ i \in Thing /\ j \in Thing /\ Bag \subseteq Item
  BY OfferTree, TradeAssumption DEF OfferInv, TradeInv, TradeTypeOK, Tree, Thing
<1>2. \A k \in Item : ~(i \in Way(parent, k) /\ j \in Way(parent, k))
  BY DEF OfferInv, Apart
<1>3. i \notin Way(parent, j) /\ j \notin Way(parent, i)
  BY <1>1, <1>2, WayFacts
<1>4. ASSUME NEW r \in Player, NEW y \in Item, tradeItem[r] \in Item, NEW c \in Room(r, y)
      PROVE  /\ c \in Thing
             /\ y \notin Way(parent, c) /\ tradeItem[r] \notin Way(parent, c)
  <2>1. CASE c = r
    BY <1>1, <1>4, <2>1, WayOfPlace, PlacesApart DEF Thing, Place
  <2>2. CASE c # r
    <3>1. c \in Bag /\ c \notin Contents(y) /\ c \notin Contents(tradeItem[r])
      BY <1>4, <2>2, NoneApart DEF Room
    <3> QED BY <1>1, <1>4, <3>1, Containment DEF Thing
  <2> QED BY <2>1, <2>2
<1>5. d \in Thing /\ i \notin Way(parent, d) /\ j \notin Way(parent, d)
  BY <1>1, <1>4
<1>6. e \in Thing /\ i \notin Way(parent, e) /\ j \notin Way(parent, e)
  <2>1. CASE e \in Room(p, j)
    BY <1>1, <1>4, <2>1
  <2>2. CASE e = parent[j]
    <3>1. e \in Thing
      BY <1>1, <2>2
    <3> QED BY <1>1, <1>3, <2>2, <3>1, NotInItself, WayOfItem
  <2> QED BY <2>1, <2>2
<1> QED BY <1>3, <1>5, <1>6

LEMMA ExchangeKeepsOffers ==
    ASSUME OfferInv, NEW p \in Player, NEW q \in Player, p # q, Exchange(p, q), away' = away
    PROVE  KeepsOffers /\ NoNewOffers /\ Grounded(parent')
<1> DEFINE i == tradeItem[p]
           j == tradeItem[q]
<1>1. i # None /\ j # None
  BY DEF Exchange
<1>2. PICK d \in Room(q, i), e \in Room(p, j) \cup {parent[j]} :
          /\ parent' = [parent EXCEPT ![i] = d, ![j] = e]
          /\ LET second == IF e = parent[j] THEN {} ELSE Touched(j, e, {p, q})
             IN  Reset({p, q} \cup Closed(Touched(i, d, {p, q}) \cup second))
  BY DEF Exchange
<1>3. /\ Tree(parent) /\ parent \in [Item -> Thing]
      /\ i \in Item /\ j \in Item /\ i \in Thing /\ j \in Thing
  BY <1>1, OfferTree DEF OfferInv, TradeInv, TradeTypeOK, Tree, Thing
<1>4. /\ d \in Thing /\ e \in Thing
      /\ i \notin Way(parent, d) /\ j \notin Way(parent, d)
      /\ i \notin Way(parent, e) /\ j \notin Way(parent, e)
      /\ i \notin Way(parent, j) /\ j \notin Way(parent, i)
  BY <1>1, ExchangeIsTwoMoves
<1> DEFINE P == Moved(parent, i, d)
<1>5. i # j
  BY <1>3, <1>4, WayFacts
<1>6. parent' = Moved(P, j, e)
  BY <1>2, <1>3, <1>5 DEF Moved
<1>7. Tree(P)
  BY <1>3, <1>4, MoveGrounded
<1>8. /\ Way(P, j) = Way(parent, j)
      /\ \A k \in Thing : j \in Way(P, k) <=> j \in Way(parent, k)
  BY <1>3, <1>4, MoveBeside
<1>9. Tree(parent')
  BY <1>3, <1>4, <1>6, <1>7, <1>8, MoveGrounded
<1>10. ASSUME NEW r \in Player, tradeItem'[r] # None
       PROVE  /\ r \notin {p, q} /\ tradeItem'[r] = tradeItem[r]
              /\ r \notin Touched(i, d, {p, q})
              /\ e = parent[j] \/ r \notin Touched(j, e, {p, q})
  BY <1>2, <1>10 DEF Reset, Closed
<1>11. NoNewOffers
  BY <1>10 DEF NoNewOffers, OfferInv, AtHand
<1>12. ASSUME NEW r \in Player, tradeItem'[r] # None PROVE Same(tradeItem[r])
  <2> DEFINE k == tradeItem[r]
  <2>1. k \in Item /\ k \in Thing /\ k # None
    BY <1>10, <1>12 DEF OfferInv, TradeInv, TradeTypeOK, Thing
  <2>2. k \notin Way(parent, i) /\ i \notin Way(parent, k) /\ k \notin Way(parent, d)
    BY <1>3, <1>4, <1>10, <1>12, <2>1, UntouchedIsBeside
  <2>3. /\ Way(P, k) = Way(parent, k)
        /\ \A x \in Thing : k \in Way(P, x) <=> k \in Way(parent, x)
    BY <1>3, <1>4, <2>1, <2>2, MoveBeside
  <2>4. j \notin Way(P, e)
    BY <1>4, <1>8
  <2>5. k # i
    BY <1>3, <2>2, WayFacts
  <2>6. CASE e = parent[j]
    <3>1. parent' = P
      BY <1>2, <1>3, <1>5, <2>6 DEF Moved
    <3>2. parent'[k] = parent[k]
      BY <1>2, <1>3, <2>1, <2>5, <2>6
    <3> QED BY <2>3, <3>1, <3>2 DEF Same
  <2>7. CASE e # parent[j]
    <3>1. k \notin Way(parent, j) /\ j \notin Way(parent, k) /\ k \notin Way(parent, e)
      BY <1>3, <1>4, <1>10, <1>12, <2>1, <2>7, UntouchedIsBeside
    <3>2. k \notin Way(P, j) /\ j \notin Way(P, k) /\ k \notin Way(P, e)
      BY <1>3, <1>4, <2>3, <3>1
    <3> HIDE DEF P
    <3>3. /\ Way(parent', k) = Way(P, k)
          /\ \A x \in Thing : k \in Way(parent', x) <=> k \in Way(P, x)
      BY <1>3, <1>4, <1>6, <1>7, <2>1, <2>4, <3>2, MoveBeside
    <3>4. k # j
      BY <1>3, <3>1, WayFacts
    <3>5. parent'[k] = parent[k]
      BY <1>2, <1>3, <2>1, <2>5, <3>4
    <3> QED BY <2>3, <3>3, <3>5 DEF Same
  <2> QED BY <2>6, <2>7
<1> QED BY <1>9, <1>11, <1>12 DEF KeepsOffers, Tree

\* A new offer shares nothing with those that are made already: the test is
\* about one being in the other, which is enough, since containers nest.
LEMMA RequestKeepsOffers ==
    ASSUME OfferInv, NEW p \in Player, NEW q \in Player, NEW i \in Item,
           RequestTrade(p, q, i)
    PROVE  KeepsOffers /\ Grounded(parent') /\ Apart' /\ AtHand'
<1>1. /\ Tree(parent) /\ parent \in [Item -> Thing] /\ i \in Thing
      /\ parent' = parent /\ away' = away /\ p \notin away
      /\ Root(i) \in {p, Ground}
      /\ tradeItem' = [tradeItem EXCEPT ![p] = i] /\ tradeItem \in [Player -> Item \cup {None}]
  BY OfferTree DEF OfferInv, TradeInv, TradeTypeOK, RequestTrade, Tree, Thing
<1>2. KeepsOffers /\ Grounded(parent')
  BY <1>1, UnmovedKeeps
<1>3. ASSUME NEW r \in Player, tradeItem[r] # None, NEW j \in Item,
             i \in Way(parent, j), tradeItem[r] \in Way(parent, j)
      PROVE  FALSE
  <2> DEFINE k == tradeItem[r]
  <2>1. k \in Item /\ k \in Thing
    BY <1>1, <1>3 DEF Thing
  <2>2. tradeItems[k] # None
    BY <1>3, <2>1, NoneApart DEF OfferInv, TradeInv, RegistryExact
  <2>3. ~Overlap(i, k)
    BY <2>1, <2>2 DEF RequestTrade
  <2>4. i \in Way(parent, k) \/ k \in Way(parent, i)
    BY <1>1, <1>3, WayIsLinear DEF Thing
  <2>5. i = k \/ Inside(k, i) \/ Inside(i, k)
    BY <1>1, <2>1, <2>4, Containment, WayOfItem
  <2> QED BY <2>3, <2>5 DEF Overlap
<1>4. Apart'
  BY <1>1, <1>3 DEF OfferInv, Apart
<1>5. {p, Ground} \cap Way(parent, i) # {}
  BY <1>1, Containment
<1>6. AtHand'
  BY <1>1, <1>5 DEF OfferInv, AtHand
<1> QED BY <1>2, <1>4, <1>6

\* Where a thing may be put is not in it.
LEMMA NotIntoItself ==
    ASSUME Tree(parent), NEW x \in Item, NEW d \in Thing, d \notin Contents(x)
    PROVE  x \notin Way(parent, d)
<1>1. CASE d \in Item
  BY <1>1, Containment
<1>2. CASE d \in Place
  BY <1>2, WayOfPlace, PlacesApart DEF Tree
<1> QED BY <1>1, <1>2 DEF Thing

LEMMA ResetTakesOffers ==
    ASSUME TradeInv, NEW D, Reset(D)
    PROVE  \A p \in Player : tradeItem'[p] # None => tradeItem'[p] = tradeItem[p] /\ p \notin D
  BY DEF Reset

\* Who offers something has a partner, so the trade ends with a walk.
LEMMA AwayKeepsOffers ==
    ASSUME OfferInv, NEW p \in Player, WalkAway(p) \/ LogOut(p)
    PROVE  KeepsOffers /\ NoNewOffers /\ Grounded(parent')
<1>1. parent' = parent /\ away' = away \cup {p}
  BY DEF WalkAway, LogOut
<1>2. tradeItem[p] # None => tradePartner[p] # None
  BY DEF OfferInv, TradeInv, PartnersAgree
<1>3. PICK C : CloseTrades(C) /\ (tradeItem[p] # None => p \in C)
  BY <1>2 DEF WalkAway, LogOut, WalkBreaks
<1>4. \A r \in Player : tradeItem'[r] # None => tradeItem'[r] = tradeItem[r] /\ r \notin C
  BY <1>3, ResetTakesOffers DEF OfferInv, CloseTrades, Closed
<1>5. NoNewOffers
  BY <1>1, <1>3, <1>4 DEF NoNewOffers, OfferInv, AtHand
<1> QED BY <1>1, <1>5, UnmovedKeeps

LEMMA NextOffers ==
    ASSUME OfferInv, TradeNext
    PROVE  KeepsOffers /\ Grounded(parent') /\ Apart' /\ AtHand'
<1> DEFINE Goal == KeepsOffers /\ Grounded(parent') /\ Apart' /\ AtHand'
<1>1. Tree(parent) /\ Bag \subseteq Item
  BY OfferTree, TradeAssumption DEF OfferInv, TradeInv
<1>2. ASSUME NoNewOffers, parent' = parent PROVE Goal
  BY <1>2, UnmovedKeeps, OffersStay
<1>3. ASSUME NEW p \in Player, NEW q \in Player, NEW i \in Item, RequestTrade(p, q, i)
      PROVE  Goal
  BY <1>3, RequestKeepsOffers
<1>4. ASSUME NEW p \in Player, AcceptFirst(p) \/ ComeBack(p) PROVE Goal
  <2>1. NoNewOffers /\ parent' = parent
    BY <1>4 DEF AcceptFirst, ComeBack, tradeVars, NoNewOffers, OfferInv, AtHand
  <2> QED BY <1>2, <2>1
<1>5. ASSUME NEW p \in Player, AcceptSecond(p) PROVE Goal
  <2>1. tradePartner[p] \in Player /\ tradePartner[p] # p /\ away' = away
    BY <1>5 DEF AcceptSecond, MayAccept, OfferInv, TradeInv, TradeTypeOK, PartnersAgree
  <2>2. CASE Exchange(p, tradePartner[p])
    BY <2>1, <2>2, ExchangeKeepsOffers, OffersStay
  <2>3. CASE UNCHANGED parent /\ Reset({p, tradePartner[p]})
    <3>1. NoNewOffers
      BY <2>1, <2>3, ResetTakesOffers DEF NoNewOffers, OfferInv, AtHand
    <3> QED BY <1>2, <2>3, <3>1
  <2> QED BY <1>5, <2>2, <2>3 DEF AcceptSecond
<1>6. ASSUME NEW C, CloseTrades(C), parent' = parent, away' = away PROVE Goal
  <2>1. NoNewOffers
    BY <1>6, ResetTakesOffers DEF CloseTrades, NoNewOffers, OfferInv, AtHand
  <2> QED BY <1>2, <1>6, <2>1
<1>7. ASSUME NEW p \in Player, CloseTrade(p) PROVE Goal
  BY <1>6, <1>7 DEF CloseTrade
<1>8. ASSUME NEW p \in Player, WalkAway(p) \/ LogOut(p) PROVE Goal
  BY <1>8, AwayKeepsOffers, OffersStay
<1>9. ASSUME NEW p \in Player, NEW x \in Item, NEW d \in Player \cup Bag \cup {Ground},
             MoveItem(p, x, d)
      PROVE  Goal
  <2>1. d \in Thing /\ d \notin Contents(x)
    BY <1>1, <1>9 DEF MoveItem, Thing, Place
  <2>2. x \notin Way(parent, d)
    BY <1>1, <2>1, NotIntoItself
  <2> QED BY <1>9, <2>1, <2>2, MoveKeepsOffers, OffersStay DEF MoveItem
<1>10. ASSUME NEW x \in Item, DestroyItem(x) PROVE Goal
  <2>1. Gone \in Thing /\ Gone \notin Contents(x)
    BY TradeAssumption DEF Contents, Thing, Place
  <2>2. x \notin Way(parent, Gone)
    BY <1>1, <2>1, NotIntoItself
  <2> QED BY <1>10, <2>1, <2>2, MoveKeepsOffers, OffersStay DEF DestroyItem
<1>11. ASSUME NEW x \in Item, UpdateItem(x) PROVE Goal
  BY <1>6, <1>11 DEF UpdateItem
<1> HIDE DEF Goal
<1>12. Goal
  BY <1>3, <1>4, <1>5, <1>7, <1>8, <1>9, <1>10, <1>11 DEF TradeNext
<1> QED BY <1>12 DEF Goal

LEMMA InitOffers == TradeInit => OfferInv
<1> SUFFICES ASSUME TradeInit PROVE OfferInv
  OBVIOUS
<1>1. TradeInv
  BY InitTrade
<1>2. Grounded(parent)
  BY TradeAssumption DEF TradeInit, Grounded
<1>3. Apart /\ AtHand
  BY DEF TradeInit, Apart, AtHand
<1> QED BY <1>1, <1>2, <1>3 DEF OfferInv

LEMMA OffersCorrect == TradeSpec => []OfferInv
<1>1. OfferInv /\ [TradeNext]_tvars => OfferInv'
  <2> SUFFICES ASSUME OfferInv, [TradeNext]_tvars PROVE OfferInv'
    OBVIOUS
  <2>1. TradeInv'
    BY NextTrade DEF OfferInv
  <2>2. CASE TradeNext
    BY <2>1, <2>2, NextOffers DEF OfferInv
  <2>3. CASE UNCHANGED tvars
    BY <2>1, <2>3 DEF OfferInv, Apart, AtHand, tvars, tradeVars
  <2> QED BY <2>2, <2>3
<1> QED BY <1>1, InitOffers, PTL DEF TradeSpec

\* Containment and the place of a thing, after a step.
LEMMA ContainmentNext ==
    Tree(parent)' =>
      (\A j \in Item :
         /\ \A i \in Item : /\ j \in Contents(i) <=> i \in Way(parent, j)
                            /\ Inside(j, i) <=> i \in Way(parent, parent[j])
         /\ Root(j) \in Place /\ Root(j) \in Way(parent, j))'
  BY Containment, PTL

LEMMA RootIsNext ==
    Tree(parent)' => (\A j \in Item, a \in Place : Root(j) = a <=> a \in Way(parent, j))'
  BY RootIs, PTL

\* A step that keeps an offer keeps what is in it and where it is.
LEMMA StepLeavesOffer ==
    ASSUME OfferInv, OfferInv', TradeNext, NEW p \in Player, tradeItem[p] # None,
           tradeItem'[p] = tradeItem[p]
    PROVE  /\ Contents(tradeItem[p])' = Contents(tradeItem[p])
           /\ parent'[tradeItem[p]] = parent[tradeItem[p]]
<1>1. Tree(parent) /\ Tree(parent')
  <2>1. (TradeTypeOK /\ Grounded(parent))' => Tree(parent)'
    BY OfferTree, PTL
  <2> QED BY <2>1, OfferTree DEF OfferInv, TradeInv
<1>2. tradeItem[p] \in Item /\ tradeItem'[p] \in Item
  BY DEF OfferInv, TradeInv, TradeTypeOK
<1>3. Same(tradeItem[p])
  BY NextOffers DEF KeepsOffers
<1>4. \A j \in Item : j \in Contents(tradeItem[p]) <=> tradeItem[p] \in Way(parent, j)
  BY <1>1, <1>2, Containment
<1>5. \A j \in Item : j \in Contents(tradeItem[p])' <=> tradeItem'[p] \in Way(parent', j)
  BY <1>1, <1>2, ContainmentNext
<1>6. Contents(tradeItem[p]) \subseteq Item /\ Contents(tradeItem[p])' \subseteq Item
  BY DEF Contents
<1> QED BY <1>3, <1>4, <1>5, <1>6 DEF Same, Thing

-----------------------------------------------------------------------------
(* Who gets what.                                                          *)

\* Where a thing is after a move.
LEMMA PlaceAfterMove ==
    ASSUME NEW P, Tree(P), NEW x \in Item, NEW d \in Thing, x \notin Way(P, d),
           NEW y \in Thing, NEW b \in Way(Moved(P, x, d), y) \cap Place
    PROVE  b \in Way(P, IF x \in Way(P, y) THEN d ELSE y)
<1>1. Way(P, b) = {b} /\ x \notin Place
  BY WayOfPlace, PlacesApart DEF Tree
<1>2. CASE x \in Way(P, y)
  BY <1>1, <1>2, InsideFollows
<1>3. CASE x \notin Way(P, y)
  BY <1>3, OthersStay
<1> QED BY <1>2, <1>3

\* What is in something is where that is.
LEMMA SamePlace ==
    ASSUME NEW P, Tree(P), NEW y \in Thing, NEW x \in Way(P, y),
           NEW a \in Way(P, y) \cap Place, NEW b \in Way(P, x) \cap Place
    PROVE  a = b
  BY WayOn, OnePlace DEF Tree

\* Room is found with the player who is to get the thing.
LEMMA RoomIsTheirs ==
    ASSUME Tree(parent), NEW r \in Player, NEW x \in Item, NEW d \in Room(r, x),
           NEW b \in Way(parent, d) \cap Place
    PROVE  b = r
<1>1. CASE d = r
  BY <1>1, WayOfPlace DEF Tree, Place
<1>2. CASE d \in Bag /\ Root(d) = r
  <2>1. d \in Item /\ r \in Place
    BY <1>2, TradeAssumption DEF Place
  <2> QED BY <1>2, <2>1, RootIs, OnePlace DEF Tree, Thing
<1> QED BY <1>1, <1>2 DEF Room

\* A thing that a player puts somewhere does not reach another player.
LEMMA MoveHandsNothing ==
    ASSUME OfferInv, NEW p \in Player, NEW x \in Item,
           NEW d \in Player \cup Bag \cup {Ground}, MoveItem(p, x, d),
           NEW y \in Item, NEW a \in Way(parent, y) \cap Player,
           NEW b \in Way(parent', y) \cap Player
    PROVE  a = b
<1>1. Tree(parent) /\ Bag \subseteq Item /\ Ground \notin Player
  BY OfferTree, TradeAssumption DEF OfferInv, TradeInv
<1>2. /\ d \in Thing /\ d \notin Contents(x) /\ parent' = Moved(parent, x, d)
      /\ Root(x) \in {Ground, p}
      /\ d \in {Ground, p} \/ (d \in Item /\ Root(d) \in {Ground, p})
      /\ d \in Place \/ d \in Item
  BY <1>1 DEF MoveItem, Reach, Moved, Thing, Place
<1>3. x \notin Way(parent, d)
  BY <1>1, <1>2, NotIntoItself
<1>4. a \in Place /\ b \in Place /\ y \in Thing
  BY DEF Place, Thing
<1>5. b \in Way(parent, IF x \in Way(parent, y) THEN d ELSE y)
  BY <1>1, <1>2, <1>3, <1>4, PlaceAfterMove
<1>6. CASE x \notin Way(parent, y)
  BY <1>1, <1>4, <1>5, <1>6, OnePlace DEF Tree
<1>7. CASE x \in Way(parent, y)
  <2>1. Root(x) \in Way(parent, x) \cap Place
    BY <1>1, Containment
  <2>2. a = p
    BY <1>1, <1>2, <1>4, <1>7, <2>1, SamePlace
  <2>3. CASE d \in Place
    <3>1. b = d
      BY <1>1, <1>5, <1>7, <2>3, WayOfPlace DEF Tree
    <3>2. d \in {Ground, p}
      BY <1>2, <2>3, PlacesApart
    <3> QED BY <1>1, <2>2, <3>1, <3>2
  <2>4. CASE d \in Item
    <3>1. d \notin {Ground, p}
      BY <2>4, PlacesApart DEF Place
    <3>2. Root(d) = b
      BY <1>1, <1>4, <1>5, <1>7, <2>4, RootIs
    <3> QED BY <1>1, <1>2, <2>2, <3>1, <3>2
  <2> QED BY <1>2, <2>3, <2>4
<1> QED BY <1>6, <1>7

\* An exchange gives each of two players what the other offers, or leaves it.
LEMMA ExchangeHands ==
    ASSUME OfferInv, NEW p \in Player, NEW q \in Player, p # q, Exchange(p, q),
           NEW y \in Item, NEW a \in Way(parent, y) \cap Player,
           NEW b \in Way(parent', y) \cap Player, a # b
    PROVE  /\ tradeItem[p] # None /\ tradeItem[q] # None
           /\ \/ a = p /\ b = q /\ tradeItem[p] \in Way(parent, y)
              \/ a = q /\ b = p /\ tradeItem[q] \in Way(parent, y)
<1> DEFINE i == tradeItem[p]
           j == tradeItem[q]
<1>1. i # None /\ j # None
  BY DEF Exchange
<1>2. PICK d \in Room(q, i), e \in Room(p, j) \cup {parent[j]} :
          parent' = [parent EXCEPT ![i] = d, ![j] = e]
  BY DEF Exchange
<1>3. /\ Tree(parent) /\ parent \in [Item -> Thing] /\ y \in Thing
      /\ i \in Item /\ j \in Item /\ i \in Thing /\ j \in Thing
      /\ a \in Place /\ b \in Place /\ p \in Place /\ q \in Place /\ Ground \in Place
      /\ Ground \notin Player
  BY <1>1, OfferTree, TradeAssumption
  DEF OfferInv, TradeInv, TradeTypeOK, Tree, Thing, Place
<1>4. /\ d \in Thing /\ e \in Thing
      /\ i \notin Way(parent, d) /\ j \notin Way(parent, d)
      /\ i \notin Way(parent, e) /\ j \notin Way(parent, e)
      /\ i \notin Way(parent, j) /\ j \notin Way(parent, i)
  BY <1>1, ExchangeIsTwoMoves
<1> DEFINE P == Moved(parent, i, d)
<1>5. i # j
  BY <1>3, <1>4, WayFacts
<1>6. parent' = Moved(P, j, e)
  BY <1>2, <1>3, <1>5 DEF Moved
<1>7. Tree(P)
  BY <1>3, <1>4, MoveGrounded
<1>8. \A k \in Thing : j \in Way(P, k) <=> j \in Way(parent, k)
  BY <1>3, <1>4, MoveBeside
<1>9. Way(P, e) = Way(parent, e)
  BY <1>3, <1>4, OthersStay
<1>10. b \in Way(P, IF j \in Way(parent, y) THEN e ELSE y)
  <2> HIDE DEF P
  <2>1. j \notin Way(P, e)
    BY <1>4, <1>9
  <2> QED BY <1>3, <1>4, <1>6, <1>7, <1>8, <2>1, PlaceAfterMove
<1>11. \A r \in {p, q} : {r, Ground} \cap Way(parent, tradeItem[r]) # {}
  BY <1>1 DEF OfferInv, AtHand
<1>12. CASE j \in Way(parent, y)
  <2>1. b \in Way(parent, e) \cap Place
    BY <1>3, <1>9, <1>10, <1>12
  <2>2. a = q
    BY <1>3, <1>11, <1>12, SamePlace
  <2>3. CASE e \in Room(p, j)
    BY <1>1, <1>3, <1>12, <2>1, <2>2, <2>3, RoomIsTheirs
  <2>4. CASE e = parent[j]
    <3>1. e \in Way(parent, y)
      BY <1>3, <1>12, <2>4, WayFacts DEF Upward
    <3> QED BY <1>3, <2>1, <3>1, SamePlace
  <2> QED BY <2>3, <2>4
<1>13. CASE j \notin Way(parent, y)
  <2>1. b \in Way(P, y) \cap Place
    BY <1>3, <1>10, <1>13
  <2>2. b \in Way(parent, IF i \in Way(parent, y) THEN d ELSE y)
    BY <1>3, <1>4, <2>1, PlaceAfterMove
  <2>3. CASE i \in Way(parent, y)
    <3>1. a = p
      BY <1>3, <1>11, <2>3, SamePlace
    <3>2. b = q
      BY <1>3, <2>2, <2>3, RoomIsTheirs
    <3> QED BY <1>1, <2>3, <3>1, <3>2
  <2>4. CASE i \notin Way(parent, y)
    BY <1>3, <2>2, <2>4, OnePlace
  <2> QED BY <2>3, <2>4
<1> QED BY <1>12, <1>13

LEMMA StepHands ==
    ASSUME OfferInv, TradeNext, NEW y \in Item, NEW a \in Way(parent, y) \cap Player,
           NEW b \in Way(parent', y) \cap Player, a # b
    PROVE  /\ tradePartner[a] = b /\ "accept" \in {tradeState[a], tradeState[b]}
           /\ tradeItem[a] # None /\ tradeItem[b] # None
           /\ tradeItem[a] \in Way(parent, y)
<1>1. Tree(parent) /\ y \in Thing /\ a \in Place /\ b \in Place
  BY OfferTree DEF OfferInv, TradeInv, Thing, Place
<1>2. parent' # parent
  BY <1>1, OnePlace DEF Tree
<1>3. CASE \E p \in Player : AcceptSecond(p)
  <2>1. PICK p \in Player : AcceptSecond(p)
    BY <1>3
  <2> DEFINE q == tradePartner[p]
  <2>2. q \in Player /\ q # p /\ tradePartner[q] = p /\ tradeState[q] = "accept"
    BY <2>1 DEF AcceptSecond, BothAccepted, MayAccept, OfferInv, TradeInv, TradeTypeOK,
                PartnersAgree
  <2>3. Exchange(p, q)
    BY <1>2, <2>1 DEF AcceptSecond
  <2> QED BY <2>2, <2>3, ExchangeHands
<1>4. CASE \E p \in Player, x \in Item, d \in Player \cup Bag \cup {Ground} : MoveItem(p, x, d)
  BY <1>4, MoveHandsNothing
<1>5. CASE \E x \in Item : DestroyItem(x)
  <2>1. PICK x \in Item : DestroyItem(x)
    BY <1>5
  <2>2. Gone \in Thing /\ Gone \in Place /\ Gone \notin Contents(x) /\ Gone \notin Player
    BY TradeAssumption DEF Contents, Thing, Place
  <2>3. x \notin Way(parent, Gone) /\ parent' = Moved(parent, x, Gone)
    BY <1>1, <2>1, <2>2, NotIntoItself DEF DestroyItem, Moved
  <2>4. b \in Way(parent, IF x \in Way(parent, y) THEN Gone ELSE y)
    BY <1>1, <2>2, <2>3, PlaceAfterMove
  <2>5. Way(parent, Gone) = {Gone}
    BY <1>1, <2>2, WayOfPlace DEF Tree
  <2> QED BY <1>1, <2>2, <2>4, <2>5, OnePlace DEF Tree
<1> QED
  BY <1>2, <1>3, <1>4, <1>5
  DEF TradeNext, RequestTrade, AcceptFirst, CloseTrade, WalkAway, LogOut, ComeBack, UpdateItem

-----------------------------------------------------------------------------
(* The theorems.                                                           *)

\* The fields of a trade keep their types, and no item is referenced for two
\* trades.
THEOREM TradeTypeCorrect == TradeSpec => []TradeTypeOK
BY TradeCorrect, PTL DEF TradeInv

\* However a trade begins and ends, both players leave it, and they agree on
\* its stage while it lasts.
THEOREM TradePartnersAgree == TradeSpec => []PartnersAgree
BY TradeCorrect, PTL DEF TradeInv

\* The registry and the references follow the offers exactly.
THEOREM TradeRegistryExact == TradeSpec => []RegistryExact
BY TradeCorrect, PTL DEF TradeInv

\* No thing is on offer twice, be it directly or in a bag on offer.
THEOREM OffersAlwaysDisjoint == TradeSpec => []OffersDisjoint
<1>1. OfferInv => OffersDisjoint
  BY OfferTree, OffersAre DEF OfferInv, TradeInv
<1> QED BY <1>1, OffersCorrect, PTL

\* Whoever offers something is here, and has it or stands next to it.
THEOREM OfferAlwaysAtHand == TradeSpec => []OfferAtHand
<1>1. OfferInv => OfferAtHand
  BY OfferTree, AtHandIs DEF OfferInv, TradeInv
<1> QED BY <1>1, OffersCorrect, PTL

\* Who accepts gets what was shown: whatever is done to an offered thing, to
\* what is in it or to what it is in, ends the trade.
THEOREM OfferNeverTouched == TradeSpec => OfferUntouched
<1>1. OfferInv /\ OfferInv' /\ [TradeNext]_tvars =>
        [\A p \in Player :
           LET i == tradeItem[p]
           IN  i # None /\ tradeItem'[p] = i
                  => Contents(i)' = Contents(i) /\ parent'[i] = parent[i]]_tvars
  BY StepLeavesOffer
<1> QED BY <1>1, OffersCorrect, PTL DEF TradeSpec, OfferUntouched

\* Nothing passes from one player to another but what the one offers to the
\* other, when one of them accepted already: there is no way to it but the
\* second acceptance.
THEOREM HandedOverOnlyByConsent == TradeSpec => HandedOverByConsent
<1> DEFINE Consent ==
        \A i \in Item :
          Root(i) \in Player /\ Root(i)' \in Player /\ Root(i)' # Root(i)
             => LET p == Root(i)
                    q == Root(i)'
                IN  /\ tradePartner[p] = q
                    /\ "accept" \in {tradeState[p], tradeState[q]}
                    /\ tradeItem[p] # None /\ tradeItem[q] # None
                    /\ i \in Contents(tradeItem[p])
<1>1. OfferInv /\ OfferInv' /\ [TradeNext]_tvars => [Consent]_tvars
  <2> SUFFICES ASSUME OfferInv, OfferInv', TradeNext, NEW i \in Item,
                      Root(i) \in Player, Root(i)' \in Player, Root(i)' # Root(i)
               PROVE  /\ tradePartner[Root(i)] = Root(i)'
                      /\ "accept" \in {tradeState[Root(i)], tradeState[Root(i)']}
                      /\ tradeItem[Root(i)] # None /\ tradeItem[Root(i)'] # None
                      /\ i \in Contents(tradeItem[Root(i)])
    OBVIOUS
  <2>1. Tree(parent) /\ Tree(parent)'
    <3>1. (TradeTypeOK /\ Grounded(parent))' => Tree(parent)'
      BY OfferTree, PTL
    <3> QED BY <3>1, OfferTree DEF OfferInv, TradeInv
  <2>2. Root(i) \in Way(parent, i)
    BY <2>1, Containment
  <2>3. Root(i)' \in Way(parent', i)
    BY <2>1, ContainmentNext
  <2>4. /\ tradePartner[Root(i)] = Root(i)'
        /\ "accept" \in {tradeState[Root(i)], tradeState[Root(i)']}
        /\ tradeItem[Root(i)] # None /\ tradeItem[Root(i)'] # None
        /\ tradeItem[Root(i)] \in Way(parent, i)
    BY <2>2, <2>3, StepHands
  <2>5. tradeItem[Root(i)] \in Item
    BY <2>4 DEF OfferInv, TradeInv, TradeTypeOK
  <2> QED BY <2>1, <2>4, <2>5, Containment
<1> QED BY <1>1, OffersCorrect, PTL DEF TradeSpec, HandedOverByConsent
=============================================================================
