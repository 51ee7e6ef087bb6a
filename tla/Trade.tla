------------------------------- MODULE Trade -------------------------------
(***************************************************************************)
(* Trading between players (game.cpp playerRequestTrade ...                *)
(* internalCloseTrade, player.cpp and container.cpp for the hooks).  A     *)
(* trade is kept in three places that must agree: the fields of both       *)
(* players, the registry Game::tradeItems, and the references held on the  *)
(* offered items.  Whatever happens to an offered item, or to what is in   *)
(* it, reaches the trade through hooks called while things are removed     *)
(* from and added to tiles, containers and inventories.                    *)
(*                                                                         *)
(* All of it runs on the dispatcher; a step is one task or one script call *)
(* with every hook it triggers, so TRADE_TRANSFER is never seen between    *)
(* two steps.  Abstracted: positions (a player is near the others and the  *)
(* ground, or away), item counts, room and weight (whether a thing fits is *)
(* a choice), house transfer items, and the lines told to the players.     *)
(***************************************************************************)
EXTENDS Naturals, FiniteSets

CONSTANTS
    Player,
    Item,
    Bag,      \* the items that are containers
    Ground,   \* every tile within reach of the players that are not away
    Gone,     \* where items end that were used up
    None

ASSUME TradeAssumption ==
    /\ Bag \subseteq Item
    /\ IsFiniteSet(Item)
    /\ Player \cap Item = {}
    /\ {Ground, Gone, None} \cap (Player \cup Item) = {}
    /\ Ground # Gone

VARIABLES
    parent,        \* Item::getParent: a player, a bag, Ground or Gone
    away,          \* players out of reach of everything, or logged out
    tradeState,    \* Player::m_tradeState
    tradePartner,  \* Player::m_tradePartner
    tradeItem,     \* Player::m_tradeItem
    tradeItems,    \* Game::tradeItems, None where the map has no entry
    tradeRefs      \* references taken for trades, not yet given to freeThing

tradeVars == <<tradeState, tradePartner, tradeItem, tradeItems, tradeRefs>>
tvars == <<parent, away, tradeVars>>

\* Where n steps up from each item lead.
Climb[n \in 0..Cardinality(Item)] ==
    IF n = 0 THEN [i \in Item |-> i]
    ELSE [i \in Item |-> IF Climb[n - 1][i] \in Item THEN parent[Climb[n - 1][i]]
                                                      ELSE Climb[n - 1][i]]

\* getTopParent.
Root(i) == Climb[Cardinality(Item)][i]

\* isHoldingItem: j is in the bag i or in a bag in it.
Inside(j, i) == \E n \in 1..Cardinality(Item) : Climb[n][j] = i

Contents(i) == {j \in Item : j = i \/ Inside(j, i)}

\* Everything starts somewhere, nothing is offered, nobody is away.
TradeInit ==
    /\ parent \in [Item -> Player \cup {Ground}]
    /\ away = {}
    /\ tradeState = [p \in Player |-> "none"]
    /\ tradePartner = [p \in Player |-> None]
    /\ tradeItem = [p \in Player |-> None]
    /\ tradeItems = [i \in Item |-> None]
    /\ tradeRefs = [i \in Item |-> 0]

-----------------------------------------------------------------------------
(* Mutated forms, one per plausible slip.                                  *)

\* The partner's half of a closed trade is left as it was.
MUTClosed(C) == C

\* An entry of the registry is erased, its reference is not given back.
MUTFreed(R) == [i \in Item |-> tradeRefs[i]]

\* Only the very same item counts as being in a trade already.
MUTOverlap(i, j) == i = j

\* onAddContainerItem does not look at the trade.
MUTAddTouches(p, c) == FALSE

\* onCreatureMove does not look at the trade.
MUTWalkBreaks(p) == FALSE

\* The second offer needs no acceptance.
MUTBothAccepted(p) == tradeState[tradePartner[p]] # "acknowledge"

-----------------------------------------------------------------------------
(* internalCloseTrade.                                                     *)

Closed(C) == C \cup ({tradePartner[p] : p \in C} \ {None})

\* freeThing for every item of R that the registry has.
Freed(R) == [i \in Item |-> IF i \in R /\ tradeItems[i] # None
                            THEN tradeRefs[i] - 1 ELSE tradeRefs[i]]

\* The players of D leave their trades.
Reset(D) ==
    LET R == {tradeItem[p] : p \in D} \ {None}
    IN  /\ tradeState' = [p \in Player |-> IF p \in D THEN "none" ELSE tradeState[p]]
        /\ tradePartner' = [p \in Player |-> IF p \in D THEN None ELSE tradePartner[p]]
        /\ tradeItem' = [p \in Player |-> IF p \in D THEN None ELSE tradeItem[p]]
        /\ tradeItems' = [i \in Item |-> IF i \in R THEN None ELSE tradeItems[i]]
        /\ tradeRefs' = Freed(R)

\* internalCloseTrade for each player of C.
CloseTrades(C) == Reset(Closed(C))

-----------------------------------------------------------------------------
(* The hooks, called before the thing leaves and after it arrived.  A slot *)
(* of a player tells that player, a container or a tile tells everybody    *)
(* next to it.                                                             *)

\* checkTradeState: the thing is the offer, or is in it.
Offered(p, x) == x = tradeItem[p] \/ Inside(x, tradeItem[p])

\* onRemoveInventoryItem, onRemoveTileItem, onRemoveContainerItem.
RemoveTouches(p, x) ==
    /\ tradeItem[p] # None
    /\ \/ Offered(p, x) /\ parent[x] \notin Player
       \/ Offered(p, x) /\ parent[x] = p
       \/ parent[x] \in {p, Ground} /\ Inside(tradeItem[p], x)
       \/ /\ parent[x] \in Item
          /\ parent[tradeItem[p]] # parent[x]
          /\ Inside(tradeItem[p], parent[x])

\* onAddContainerItem: something arrives in the container c.
AddTouches(p, c) ==
    /\ c \in Item
    /\ tradeItem[p] # None
    /\ c \in Contents(tradeItem[p])

\* The players, except those of T (in TRADE_TRANSFER), whose trade is closed
\* when x is moved to the place d.
Touched(x, d, T) ==
    {p \in Player \ (away \cup T) : RemoveTouches(p, x) \/ AddTouches(p, d)}

-----------------------------------------------------------------------------
(* What players ask for.                                                   *)

\* One of two items is, or is in, the other.
Overlap(i, j) == i = j \/ Inside(i, j) \/ Inside(j, i)

\* playerRequestTrade and internalStartTrade; what they refuse changes
\* nothing.
RequestTrade(p, q, i) ==
    /\ p # q
    /\ {p, q} \cap away = {}
    /\ Root(i) \in {p, Ground}
    /\ \A j \in Item : tradeItems[j] # None => ~Overlap(i, j)
    /\ \/ tradeState[p] = "none"
       \/ tradeState[p] = "acknowledge" /\ tradePartner[p] = q
    /\ tradeState[q] = "none" \/ tradePartner[q] = p
    /\ tradePartner' = [tradePartner EXCEPT ![p] = q, ![q] = p]
    /\ tradeItem' = [tradeItem EXCEPT ![p] = i]
    /\ tradeState' = [tradeState EXCEPT
                        ![p] = "initiated",
                        ![q] = IF @ = "none" THEN "acknowledge" ELSE @]
    /\ tradeRefs' = [tradeRefs EXCEPT ![i] = @ + 1]
    /\ tradeItems' = [tradeItems EXCEPT ![i] = p]
    /\ UNCHANGED <<parent, away>>

MayAccept(p) ==
    /\ tradeState[p] \in {"acknowledge", "initiated"}
    /\ tradePartner[p] # None

\* The player is the second to accept.
BothAccepted(p) == tradeState[tradePartner[p]] = "accept"

\* playerAcceptTrade, the first of the two, or a script denies the second.
AcceptFirst(p) ==
    /\ MayAccept(p)
    /\ tradeState' = [tradeState EXCEPT ![p] = "accept"]
    /\ UNCHANGED <<parent, away, tradePartner, tradeItem, tradeItems, tradeRefs>>

\* Where __queryDestination finds room for the item of a trade: a slot or a
\* bag of p, but not the bag that p gives away.
Room(p, x) ==
    {p} \cup {c \in Bag : /\ Root(c) = p
                          /\ c \notin Contents(x)
                          /\ tradeItem[p] # None => c \notin Contents(tradeItem[p])}

\* The exchange: the item of p goes to its partner q, and that of q to p,
\* unless it turns out not to fit any more, which nobody looks at.
Exchange(p, q) ==
    LET i == tradeItem[p]
        j == tradeItem[q]
    IN  /\ i # None
        /\ j # None
        /\ \E d \in Room(q, i), e \in Room(p, j) \cup {parent[j]} :
              /\ parent' = [parent EXCEPT ![i] = d, ![j] = e]
              /\ LET second == IF e = parent[j] THEN {} ELSE Touched(j, e, {p, q})
                 IN  Reset({p, q} \cup Closed(Touched(i, d, {p, q}) \cup second))

\* playerAcceptTrade, the second: the exchange, or nothing when a test or the
\* first move fails; either way the trade is over.
AcceptSecond(p) ==
    /\ MayAccept(p)
    /\ BothAccepted(p)
    /\ \/ Exchange(p, tradePartner[p])
       \/ UNCHANGED parent /\ Reset({p, tradePartner[p]})
    /\ UNCHANGED away

\* playerCloseTrade, also for a player who is not trading.
CloseTrade(p) ==
    /\ p \notin away
    /\ CloseTrades({p})
    /\ UNCHANGED <<parent, away>>

-----------------------------------------------------------------------------
(* What happens to the players and to the items.                           *)

\* onCreatureMove: the offer, or the partner, is out of reach.
WalkBreaks(p) ==
    \/ tradeItem[p] # None /\ Root(tradeItem[p]) = Ground
    \/ tradePartner[p] # None

WalkAway(p) ==
    /\ p \notin away
    /\ away' = away \cup {p}
    /\ CloseTrades({x \in {p} : WalkBreaks(x)})
    /\ UNCHANGED parent

\* onCreatureDisappear: logout, kick or death.
LogOut(p) ==
    /\ p \notin away
    /\ away' = away \cup {p}
    /\ CloseTrades({x \in {p} : tradePartner[x] # None})
    /\ UNCHANGED parent

ComeBack(p) ==
    /\ p \in away
    /\ away' = away \ {p}
    /\ UNCHANGED <<parent, tradeVars>>

\* Things a player can get at, and where they can be put: on the ground, in
\* a bag, or with the player.
Reach(p) == {Ground, p}

\* internalMoveItem by a player, with the hooks of both cylinders.
MoveItem(p, x, d) ==
    /\ p \notin away
    /\ Root(x) \in Reach(p)
    /\ d \in Reach(p) \cup {c \in Bag : Root(c) \in Reach(p)}
    /\ d \notin Contents(x)
    /\ d # parent[x]
    /\ parent' = [parent EXCEPT ![x] = d]
    /\ CloseTrades(Touched(x, d, {}))
    /\ UNCHANGED away

\* internalRemoveItem: something is used up, decays or is sold.
DestroyItem(x) ==
    /\ Root(x) \notin away \cup {Gone}
    /\ parent' = [parent EXCEPT ![x] = Gone]
    /\ CloseTrades(Touched(x, Gone, {}))
    /\ UNCHANGED away

\* __updateThing: a count or a type changes where the thing is.
UpdateItem(x) ==
    /\ Root(x) \notin away \cup {Gone}
    /\ CloseTrades({p \in Player \ away : tradeItem[p] # None /\ Offered(p, x)})
    /\ UNCHANGED <<parent, away>>

-----------------------------------------------------------------------------
TradeNext ==
    \/ \E p, q \in Player, i \in Item : RequestTrade(p, q, i)
    \/ \E p \in Player : AcceptFirst(p) \/ AcceptSecond(p) \/ CloseTrade(p)
    \/ \E p \in Player : WalkAway(p) \/ LogOut(p) \/ ComeBack(p)
    \/ \E p \in Player, x \in Item, d \in Player \cup Bag \cup {Ground} :
          MoveItem(p, x, d)
    \/ \E x \in Item : DestroyItem(x) \/ UpdateItem(x)

TradeSpec == TradeInit /\ [][TradeNext]_tvars
-----------------------------------------------------------------------------
(* Properties.                                                             *)

TradeStates == {"none", "initiated", "acknowledge", "accept"}

\* The types of the trade fields; an item is referenced for one trade at most.
TradeTypeOK ==
    /\ parent \in [Item -> Player \cup Bag \cup {Ground, Gone}]
    /\ away \subseteq Player
    /\ tradeState \in [Player -> TradeStates]
    /\ tradePartner \in [Player -> Player \cup {None}]
    /\ tradeItem \in [Player -> Item \cup {None}]
    /\ tradeItems \in [Item -> Player \cup {None}]
    /\ tradeRefs \in [Item -> 0..1]

\* The two halves of a trade agree: partners point at each other, a player
\* without a partner has no state and no offer, an offer was made by who
\* initiated or accepted, and at least one of two partners offers something.
\* One forgotten field in one of the ways a trade ends breaks this.
PartnersAgree ==
    \A p \in Player :
       LET q == tradePartner[p]
       IN  /\ q = None <=> tradeState[p] = "none"
           /\ q # None => /\ tradePartner[q] = p
                          /\ q # p
                          /\ {tradeItem[p], tradeItem[q]} # {None}
           /\ tradeState[p] = "initiated" => tradeItem[p] # None
           /\ tradeState[p] \in {"none", "acknowledge"} => tradeItem[p] = None

\* Game::tradeItems lists exactly what is on offer and by whom, and each
\* entry holds one reference (addRef in internalStartTrade, freeThing in the
\* two places that end a trade): nothing leaks, nothing is freed twice.
RegistryExact ==
    \A i \in Item :
       /\ \A p \in Player : tradeItems[i] = p <=> tradeItem[p] = i
       /\ tradeRefs[i] = IF tradeItems[i] = None THEN 0 ELSE 1

\* No thing is on offer twice, be it directly and in a bag, or in two bags,
\* however the bags were filled and moved since the offers were made.
OffersDisjoint ==
    \A p, q \in Player :
       p # q /\ tradeItem[p] # None /\ tradeItem[q] # None
          => Contents(tradeItem[p]) \cap Contents(tradeItem[q]) = {}

\* What is on offer can be handed over: it exists, its owner is here and
\* carries it or stands next to it, and nobody else has got hold of it.
OfferAtHand ==
    \A p \in Player :
       tradeItem[p] # None => p \notin away /\ Root(tradeItem[p]) \in {p, Ground}

\* As long as a trade goes on, nothing is put into, taken out of or taken
\* from below an offered thing: who accepts gets what was shown (the hooks
\* of tiles, containers and inventories).
OfferUntouched ==
    [][\A p \in Player :
          LET i == tradeItem[p]
          IN  i # None /\ tradeItem'[p] = i
                 => Contents(i)' = Contents(i) /\ parent'[i] = parent[i]]_tvars

\* Things pass from one player to another only as the offer of a trade that
\* the giver's partner accepted before, or accepts in this step while the
\* giver accepted before.
HandedOverByConsent ==
    [][\A i \in Item :
          Root(i) \in Player /\ Root(i)' \in Player /\ Root(i)' # Root(i)
             => LET p == Root(i)
                    q == Root(i)'
                IN  /\ tradePartner[p] = q
                    /\ "accept" \in {tradeState[p], tradeState[q]}
                    /\ tradeItem[p] # None /\ tradeItem[q] # None
                    /\ i \in Contents(tradeItem[p])]_tvars
=============================================================================
