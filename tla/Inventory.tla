----------------------------- MODULE Inventory -----------------------------
(***************************************************************************)
(* Things a player carries (internalMoveItem, internalAddItem,             *)
(* internalPlayerAddItem, removeItemOfType, removeMoney and addMoney of    *)
(* game.cpp, with the query methods of Player, Container and Tile they are *)
(* built on).  Every operation asks first (queryDestination, queryAdd,     *)
(* queryMaxCount, queryRemove) and then acts, on answers that come from    *)
(* different searches of the same bags.                                    *)
(*                                                                         *)
(* A thing is told by its kind and count, a bag by its name; what lies in  *)
(* a cylinder is a sequence, whose first element is the top of the ground, *)
(* and the player's is as long as there are slots.  Indices count from 1,  *)
(* 0 is INDEX_WHEREEVER and Up the arrow of a container's window.          *)
(*                                                                         *)
(* Abstracted: weight, which may only refuse a move before anything is     *)
(* changed or between the halves of an exchange; the rules for two hands;  *)
(* distance, scripts, things that may not be moved; notifications (Trade   *)
(* has those that matter) but for the end of a trade while coins are paid; *)
(* PLAYER_DEEPNESS, which unless configured bounds no search.  The ground  *)
(* has room for everything.                                                *)
(***************************************************************************)
EXTENDS Integers, FiniteSets, Sequences, SequencesExt

CONSTANTS
    Bag,
    Plain,       \* kinds that do not stack, bags aside
    Coins,       \* kinds that stack: the money map, the most valuable first
    Worth,       \* [kind of coin -> 1 or more], the last is worth 1
    StackSize,         \* 100
    Capacity,    \* of each bag
    Slots,       \* how many a player has
    Fits(_, _),  \* a kind may be worn in a slot
    Start,       \* worlds to begin with
    Savings,     \* balances to begin with
    Prices,      \* the amounts of money paid
    Things       \* bound: how many stacks and other things there are

VARIABLES
    world,       \* [Cylinder -> sequence of things]
    balance      \* Player::m_balance

inventoryVars == <<world, balance>>

Player == "player"
Ground == "ground"
Up == -1

Cylinder == {Player, Ground} \cup Bag
Stackable == ToSet(Coins)
Kind == Bag \cup Plain \cup Stackable
AnyKind == Kind \cup {"nothing"}
Thing(k, n) == [kind |-> k, n |-> n]
Nothing == Thing("nothing", 0)
Worlds == [Cylinder -> Seq([kind : AnyKind, n : Nat])]

\* Kinds are told apart, and some coin is worth one (items.xml, currencyMap).
ASSUME InventoryAssumption ==
    /\ IsFiniteSet(Bag)
    /\ Bag \cap Plain = {} /\ Bag \cap Stackable = {} /\ Plain \cap Stackable = {}
    /\ {Player, Ground, "nothing"} \cap Kind = {}
    /\ Coins \in Seq(Stackable) /\ Coins # <<>>
    /\ Worth \in [Stackable -> Nat \ {0}] /\ Worth[Coins[Len(Coins)]] = 1
    /\ StackSize \in Nat \ {0}
    /\ Capacity \in Nat /\ Slots \in Nat
    /\ Savings \subseteq Nat /\ Prices \subseteq Nat

\* Numbers of coins fit in the 16 bits that addMoney compares them in
\* (std::min<uint16_t>(100, tmp)): no coin is worth 65536 of the next, and no price
\* is as high as 65536 of the first.
ASSUME CoinAssumption ==
    /\ \A j \in 2..Len(Coins) :
        /\ Worth[Coins[j]] < Worth[Coins[j - 1]]
        /\ Worth[Coins[j - 1]] <= 65536 * Worth[Coins[j]]
    /\ \A money \in Prices : money < 65536 * Worth[Coins[1]]

InventoryInit == world \in Start /\ balance \in Savings

Least(a, b) == IF a < b THEN a ELSE b

-----------------------------------------------------------------------------
(* Where things are.  S is a world, a position <<cylinder, index>>.        *)

Positions(S) == UNION {{<<c, i>> : i \in DOMAIN S[c]} : c \in Cylinder}

\* E and what the members of E lie in.
Around(S, E) == E \cup {d \in Cylinder : \E i \in DOMAIN S[d] : S[d][i].kind \in E}

\* The cylinder c and all that are around it: getParent again and again.
Enclosing(S, c) ==
    LET within[n \in 0..Cardinality(Bag)] ==
            IF n = 0 THEN {c} ELSE Around(S, within[n - 1])
    IN  within[Cardinality(Bag)]

Carried(S, c) == Player \in Enclosing(S, c)

CarriedIn(S) == {c \in Cylinder : Carried(S, c)}

\* What things may count for: one if they are of the kind k, their worth.
Only(k) == [x \in AnyKind |-> IF x = k THEN 1 ELSE 0]
Money == [x \in AnyKind |-> IF x \in Stackable THEN Worth[x] ELSE 0]

\* What the things of s, and those in the cylinders of C, count for.
Weight(s, w) == SumFunction([i \in DOMAIN s |-> w[s[i].kind] * s[i].n])
Amount(S, C, w) == SumFunctionOnSet([c \in Cylinder |-> Weight(S[c], w)], C)

Total(S, k) == Amount(S, Cylinder, Only(k))

\* getMoney without the balance.
Purse(S) == Amount(S, CarriedIn(S), Money)

\* How many more of k the thing e can take.
Room(e, k) == IF e.kind = k /\ k \in Stackable THEN StackSize - e.n ELSE 0

\* The thing on offer in a trade (m_tradeItem) is told by its cylinder and the
\* number of things behind it, which is the same when things come to a bag: they
\* come first.  With <<>> nothing is on offer.
OnOffer(S, c, i, offered) == offered = <<c, Len(S[c]) - i>>

-----------------------------------------------------------------------------
(* The queries.                                                            *)

Free(S, b) == IF Len(S[b]) < Capacity THEN Capacity - Len(S[b]) ELSE 0

SameStack(S, i, k) == k \in Stackable /\ S[Player][i].kind = k

\* A mutated form: a bag is not looked for around the bag it is put into.
MUTAccepts(S, c, i, k) ==
    \/ c = Ground
    \/ c \in Bag /\ k # c /\ (i = 0 => Free(S, c) > 0)
    \/ /\ c = Player /\ i \in DOMAIN S[Player] /\ Fits(k, i)
       /\ S[Player][i] = Nothing \/ SameStack(S, i, k)

\* queryAdd.
Accepts(S, c, i, k) ==
    \/ c = Ground
    \/ c \in Bag /\ (k \in Bag => k \notin Enclosing(S, c)) /\ (i = 0 => Free(S, c) > 0)
    \/ /\ c = Player /\ i \in DOMAIN S[Player] /\ Fits(k, i)
       /\ S[Player][i] = Nothing \/ SameStack(S, i, k)

\* RET_NEEDEXCHANGE.
NeedsExchange(S, c, i, k) ==
    /\ c = Player /\ i \in DOMAIN S[Player] /\ Fits(k, i)
    /\ S[Player][i] # Nothing
    /\ ~SameStack(S, i, k)

Most(k) == IF k \in Stackable THEN StackSize ELSE 1

\* queryMaxCount; self is the position of the thing itself, n its count.
MaxCount(S, c, i, k, n, self) ==
    CASE c = Ground -> n
      [] c \in Bag ->
            LET others == {j \in DOMAIN S[c] : <<c, j>> # self /\ i \in {0, j}}
            IN  Free(S, c) * Most(k)
                + SumFunctionOnSet([j \in DOMAIN S[c] |-> Room(S[c][j], k)], others)
      [] OTHER ->
            IF S[Player][i] # Nothing THEN Room(S[Player][i], k)
            ELSE IF Accepts(S, Player, i, k) THEN Most(k) ELSE 0

\* Player::__queryMaxCount of INDEX_WHEREEVER: all that is carried is counted.
CountedRoom(S, k, n) ==
    SumFunction([i \in DOMAIN S[Player] |->
        IF Fits(k, i) THEN MaxCount(S, Player, i, k, n, <<>>) ELSE 0])
    + SumFunctionOnSet([b \in Bag |-> MaxCount(S, b, 0, k, n, <<>>)],
                       {b \in Bag : Carried(S, b)})

\* getItemByIndex for each index below the capacity.
Visible(S, c) == {i \in DOMAIN S[c] : c \in Bag => i <= Capacity}

\* Pairs <<j, i>>, for the place i in the cylinder q[j].
PlacesIn(S, q) == UNION {{<<j, i>> : i \in Visible(S, q[j])} : j \in DOMAIN q}
At(S, q, p) == S[q[p[1]]][p[2]]
First(P) == CHOOSE p \in P : \A o \in P : p[1] < o[1] \/ (p[1] = o[1] /\ p[2] <= o[2])

\* The next bag comes into the queue, if there is one; neither the thing itself
\* nor what is on offer in a trade does.
Queued(S, q, k, offered) ==
    LET next == {p \in PlacesIn(S, q) :
                    /\ At(S, q, p).kind \in Bag \ (ToSet(q) \cup {k})
                    /\ ~OnOffer(S, q[p[1]], p[2], offered)}
    IN  IF next = {} THEN q ELSE Append(q, At(S, q, First(next)).kind)

\* Where Player::__queryDestination looks: on the player, then in the bags, in
\* the order in which it comes upon them.
Searched(S, k, offered) ==
    LET queue[n \in 0..Cardinality(Bag)] ==
            IF n = 0 THEN <<Player>> ELSE Queued(S, queue[n - 1], k, offered)
    IN  queue[Cardinality(Bag)]

\* Player::__queryDestination of INDEX_WHEREEVER: a stack that is not on offer,
\* else a free place.  Player::__queryMaxCount counts what is on offer too.
Stacks(S, q, k, self, offered) ==
    {p \in PlacesIn(S, q) :
        /\ <<q[p[1]], p[2]>> # self
        /\ ~OnOffer(S, q[p[1]], p[2], offered)
        /\ Room(At(S, q, p), k) > 0
        /\ q[p[1]] = Player => Fits(k, p[2])}

FreePlaces(S, q, k) ==
    LET empty(c) == IF c = Player THEN {i \in DOMAIN S[Player] : S[Player][i] = Nothing}
                    ELSE {i \in {Len(S[c]) + 1} : Free(S, c) > 0}
    IN  {p \in UNION {{<<j, i>> : i \in empty(q[j])} : j \in DOMAIN q} :
            Accepts(S, q[p[1]], p[2], k)}

Found(q, p, target) == [c |-> q[p[1]], i |-> p[2], target |-> target]

Best(q, stacks, places) ==
    IF stacks # {} THEN Found(q, First(stacks), First(stacks)[2])
    ELSE IF places # {} THEN Found(q, First(places), 0)
    ELSE [c |-> Player, i |-> 0, target |-> 0]

Search(S, k, self, offered) ==
    LET q == Searched(S, k, offered)
    IN  Best(q, Stacks(S, q, k, self, offered), FreePlaces(S, q, k))

Into(c) == [c |-> c, i |-> 0, target |-> 0]

\* queryDestination of the cylinder c.
QueryDestination(S, c, i, k, self, offered) ==
    LET here == IF i \in DOMAIN S[c] /\ S[c][i] # Nothing THEN i ELSE 0
        stacks == {j \in DOMAIN S[c] : <<c, j>> # self /\ Room(S[c][j], k) > 0}
        parent == CHOOSE d \in Cylinder : \E j \in DOMAIN S[d] : S[d][j].kind = c
    IN  IF c = Ground
        THEN [c |-> c, i |-> i, target |-> IF S[Ground] = <<>> THEN 0 ELSE 1]
        ELSE IF c = Player /\ i = 0 THEN Search(S, k, self, offered)
        ELSE IF i = Up THEN Into(IF parent \in Bag THEN parent ELSE c)
        ELSE IF here # 0 /\ S[c][here].kind \in Bag THEN Into(S[c][here].kind)
        ELSE IF c \in Bag /\ self[1] # c /\ here \notin stacks /\ stacks # {}
        THEN [c |-> c, i |-> Min(stacks), target |-> Min(stacks)]
        ELSE [c |-> c, i |-> i, target |-> here]

\* Asked until a cylinder answers itself.
Answer(d, e) == [c |-> e.c, i |-> e.i, target |-> e.target, found |-> e.c = d.c]

Ask(S, d, k, self, offered) ==
    IF d.found THEN d ELSE Answer(d, QueryDestination(S, d.c, d.i, k, self, offered))

Destination(S, c, i, k, self, offered) ==
    LET asked[n \in 0..Cardinality(Bag) + 3] ==
            IF n = 0 THEN [c |-> c, i |-> i, target |-> 0, found |-> FALSE]
            ELSE Ask(S, asked[n - 1], k, self, offered)
    IN  asked[Cardinality(Bag) + 3]

-----------------------------------------------------------------------------
(* The changes.                                                            *)

\* The stack at i has m more than before.
Grown(S, c, i, m) == [S EXCEPT ![c][i].n = @ + m]

\* removeThing of n of what is at i; a removed thing leaves a slot empty.
TakeOut(S, c, i, n) ==
    IF S[c][i].kind \in Stackable /\ n # S[c][i].n THEN Grown(S, c, i, -n)
    ELSE IF c = Player THEN [S EXCEPT ![c][i] = Nothing]
    ELSE [S EXCEPT ![c] = RemoveAt(@, i)]

\* addThing, where the index is only looked at for a slot.
Insert(S, c, i, e) ==
    IF c # Player THEN [S EXCEPT ![c] = <<e>> \o @]
    ELSE IF i \in DOMAIN S[c] THEN [S EXCEPT ![c][i] = e]
    ELSE S

\* How much of m of k goes onto the stack at the target.
Merged(S, c, target, k, m) ==
    IF target = 0 THEN 0 ELSE Least(Room(S[c][target], k), m)

\* The stack at the target d, when a thing has gone from the place at.
Target(S, from, at, whole, d) ==
    IF whole /\ from = d.c /\ at < d.target /\ d.c # Player THEN d.target - 1 ELSE d.target

\* A mutated form: what the stack cannot take is forgotten.
MUTTransfer(S, from, at, m, d) ==
    LET e == S[from][at]
        merged == Merged(S, d.c, d.target, e.kind, m)
        T == TakeOut(S, from, at, m)
    IN  IF merged > 0
        THEN Grown(T, d.c, Target(S, from, at, e.kind \notin Stackable \/ m = e.n, d), merged)
        ELSE Insert(T, d.c, d.i, Thing(e.kind, IF e.kind \in Stackable THEN m ELSE 1))

\* The end of internalMoveItem: out of one cylinder, onto the stack at the
\* destination d as far as there is room, the rest beside it.
Transfer(S, from, at, m, d) ==
    LET e == S[from][at]
        merged == Merged(S, d.c, d.target, e.kind, m)
        target == Target(S, from, at, e.kind \notin Stackable \/ m = e.n, d)
        rest == IF e.kind \in Stackable THEN m - merged ELSE 1
        T == TakeOut(S, from, at, m)
        U == IF merged > 0 THEN Grown(T, d.c, target, merged) ELSE T
    IN  IF rest > 0 THEN Insert(U, d.c, d.i, Thing(e.kind, rest)) ELSE U

\* The second half of internalMoveItem: what can be moved, is.
MoveUpTo(S, from, at, n, most, d) ==
    LET k == S[from][at].kind
        m == IF k \in Stackable THEN Least(n, most) ELSE most
    IN  IF Accepts(S, d.c, d.i, k) /\ m > 0 /\ (k \in Stackable => m <= S[from][at].n)
        THEN Transfer(S, from, at, m, d) ELSE S

MoveOn(S, from, at, n, d) ==
    MoveUpTo(S, from, at, n, MaxCount(S, d.c, d.i, S[from][at].kind, n, <<from, at>>), d)

\* What lies at the destination d comes to where the other came from.
Exchanged(S, from, d) ==
    Insert(TakeOut(S, d.c, d.i, S[d.c][d.i].n), from, 0, S[d.c][d.i])

\* internalMoveItem to the destination d: the exchange, if one is needed, and
\* what comes of it; strong tells whether the player can carry the thing once
\* the other is out of the way.
Moved(S, from, at, n, d, strong) ==
    LET other == S[d.c][d.i]
        exchangeable ==
            /\ Accepts(S, from, at, other.kind)
            /\ MaxCount(S, from, 0, other.kind, other.n, <<>>) > 0
    IN  IF d.c = from /\ d.target = at THEN S
        ELSE IF ~NeedsExchange(S, d.c, d.i, S[from][at].kind) THEN MoveOn(S, from, at, n, d)
        ELSE IF ~exchangeable THEN S
        ELSE IF ~strong THEN Exchanged(S, from, d)
        ELSE MoveOn(Exchanged(S, from, d), from, at + 1, n, [d EXCEPT !.target = 0])

\* internalAddItem to the ground.
Dropped(S, k, n) ==
    LET merged == IF S[Ground] = <<>> THEN 0 ELSE Merged(S, Ground, 1, k, n)
        T == IF merged > 0 THEN Grown(S, Ground, 1, merged) ELSE S
    IN  IF n > merged THEN Insert(T, Ground, 0, Thing(k, n - merged)) ELSE T

\* internalAddItem to the player of what is left: onto a stack, as much as it
\* takes, or all to a free place.
FillAt(a, k, d) ==
    LET m == Merged(a.S, d.c, d.target, k, a.left)
    IN  IF ~Accepts(a.S, d.c, d.i, k) \/ CountedRoom(a.S, k, a.left) < a.left
        THEN [a EXCEPT !.stuck = TRUE]
        ELSE IF d.target = 0
        THEN [a EXCEPT !.S = Insert(@, d.c, d.i, Thing(k, a.left)), !.left = 0]
        ELSE [a EXCEPT !.S = Grown(@, d.c, d.i, m), !.left = @ - m,
                       !.first = IF @.n = 0 THEN [c |-> d.c, i |-> d.i, n |-> m] ELSE @]

Fill(a, k, offered) ==
    IF a.left = 0 \/ a.stuck THEN a ELSE FillAt(a, k, Search(a.S, k, <<>>, offered))

\* internalAddItem calls itself for what is left after a stack was filled: what
\* becomes of the world, what is left over, and what the first stack took.
Added(S, k, n, offered) ==
    LET nowhere == [c |-> Player, i |-> 0, n |-> 0]
        added[x \in 0..n] ==
            IF x = 0 THEN [S |-> S, left |-> n, stuck |-> FALSE, first |-> nowhere]
            ELSE Fill(added[x - 1], k, offered)
    IN  added[n]

\* internalPlayerAddItem: what was not added is dropped, or the first stack is
\* what it was.
Finished(a, k, n, drop) ==
    IF ~a.stuck THEN [S |-> a.S, done |-> TRUE]
    ELSE IF drop THEN [S |-> Dropped(a.S, k, n - a.first.n), done |-> TRUE]
    ELSE IF a.first.n = 0 THEN [S |-> a.S, done |-> FALSE]
    ELSE [S |-> Grown(a.S, a.first.c, a.first.i, -a.first.n), done |-> FALSE]

PlayerAdded(S, k, n, drop, offered) == Finished(Added(S, k, n, offered), k, n, drop)

-----------------------------------------------------------------------------
(* Money.                                                                  *)

\* The most valuable coins there are for what is owed, and how many go at once.
Coin(owed) ==
    Coins[CHOOSE j \in DOMAIN Coins :
            /\ Worth[Coins[j]] <= owed
            /\ \A i \in 1..(j - 1) : Worth[Coins[i]] > owed]
Number(owed) == Least(StackSize, owed \div Worth[Coin(owed)])

Handed(r, a, drop) ==
    LET k == Coin(r.owed)
        n == Number(r.owed)
        given(S) == [r EXCEPT !.S = S, !.owed = @ - n * Worth[k]]
    IN  IF ~a.stuck THEN given(a.S)
        ELSE IF drop THEN given(Dropped(a.S, k, n - a.first.n))
        ELSE [r EXCEPT !.S = a.S, !.done = FALSE]

\* One stack of coins is given.
Give(r, drop, offered) ==
    IF r.owed = 0 \/ ~r.done THEN r
    ELSE Handed(r, Added(r.S, Coin(r.owed), Number(r.owed), offered), drop)

\* addMoney.
MoneyAdded(S, money, drop, offered) ==
    LET given[x \in 0..money] ==
            IF x = 0 THEN [S |-> S, owed |-> money, done |-> TRUE]
            ELSE Give(given[x - 1], drop, offered)
    IN  given[money]

\* What removeMoney does when there is no room for the change.
GivenBack(S, money, drop, offered) ==
    IF money = 0 THEN S ELSE MoneyAdded(S, money, drop, offered).S

\* The coins at p, and all that are carried.
CoinsAt(S, p) == Worth[S[p[1]][p[2]].kind] * S[p[1]][p[2]].n
Coffers(S) == {p \in Positions(S) : Carried(S, p[1]) /\ S[p[1]][p[2]].kind \in Stackable}

\* A mutated form: nothing is owed any more, and it is still paid.
MUTChanged(a, owed, purse, drop, offered) ==
    [S |-> IF a.done THEN a.S ELSE GivenBack(a.S, purse - Purse(a.S), drop, offered),
     offered |-> offered, owed |-> owed, done |-> a.done]

\* A stack is taken, of those that are worth least; if it is worth more than is
\* owed, there is change.
Changed(a, owed, purse, drop, offered) ==
    [S |-> IF a.done THEN a.S ELSE GivenBack(a.S, purse - Purse(a.S), drop, offered),
     offered |-> offered, owed |-> IF a.done THEN 0 ELSE owed, done |-> a.done]

\* What is on offer once the thing at p is gone: the trade ends if that is on
\* offer or in what is on offer, or was beside a bag with what is on offer in it
\* (checkTradeState, onRemoveContainerItem).
StillOffered(S, p, offered) ==
    LET c == offered[1]
        i == Len(S[c]) - offered[2]
        ended == \/ p = <<c, i>>
                 \/ S[c][i].kind \in Enclosing(S, p[1])
                 \/ p[1] \in Bag \ {c} /\ p[1] \in Enclosing(S, c)
    IN  IF offered = <<>> \/ ended THEN <<>>
        ELSE IF p[1] = c /\ c # Player /\ i < p[2] THEN <<c, offered[2] - 1>>
        ELSE offered

Pay(r, purse, drop) ==
    LET cheapest ==
            {p \in Coffers(r.S) : \A o \in Coffers(r.S) : CoinsAt(r.S, p) <= CoinsAt(r.S, o)}
        Without(p) ==
            LET T == TakeOut(r.S, p[1], p[2], r.S[p[1]][p[2]].n)
                v == CoinsAt(r.S, p)
                left == StillOffered(r.S, p, r.offered)
            IN  IF v <= r.owed THEN [r EXCEPT !.S = T, !.offered = left, !.owed = @ - v]
                ELSE Changed(MoneyAdded(T, v - r.owed, drop, left), r.owed, purse, drop, left)
    IN  IF r.owed = 0 \/ ~r.done \/ Coffers(r.S) = {} THEN {r} ELSE {Without(p) : p \in cheapest}

\* removeMoney: coins go, and what is missing is paid from the bank.
MoneyRemoved(S, savings, money, drop, offered) ==
    LET paid[x \in 0..money] ==
            IF x = 0 THEN {[S |-> S, offered |-> offered, owed |-> money, done |-> TRUE]}
            ELSE UNION {Pay(r, Purse(S), drop) : r \in paid[x - 1]}
    IN  IF Purse(S) + savings < money THEN {[S |-> S, savings |-> savings, done |-> FALSE]}
        ELSE {[S |-> r.S, done |-> r.done,
               savings |-> IF r.done THEN savings - r.owed ELSE savings] : r \in paid[money]}

\* Where things of the kind k are carried.
Of(S, k) == {p \in Positions(S) : Carried(S, p[1]) /\ S[p[1]][p[2]].kind = k}

\* A mutated form: what lies on the ground is counted too.
MUTTypeCount(S, k) == Total(S, k)

\* Player::__getItemTypeCount.
TypeCount(S, k) == Amount(S, CarriedIn(S), Only(k))

\* One of these is taken, or as much of it as is still wanted.
Take(r, k, onlyContainers) ==
    LET there == {p \in Of(r.S, k) : onlyContainers => p[1] # Player}
        Without(p) ==
            LET m == Least(r.left, r.S[p[1]][p[2]].n)
            IN  [S |-> TakeOut(r.S, p[1], p[2], m), left |-> r.left - m]
    IN  IF r.left = 0 \/ there = {} THEN {r} ELSE {Without(p) : p \in there}

\* removeItemOfType, in any order; equipped things count even if they are not
\* taken.
TypeRemoved(S, k, n, onlyContainers) ==
    LET taken[x \in 0..n] ==
            IF x = 0 THEN {[S |-> S, left |-> n]}
            ELSE UNION {Take(r, k, onlyContainers) : r \in taken[x - 1]}
    IN  IF TypeCount(S, k) < n THEN {[S |-> S, done |-> FALSE]}
        ELSE {[S |-> r.S, done |-> r.left = 0] : r \in taken[n]}

-----------------------------------------------------------------------------
(* What players and scripts do.                                            *)

\* What may be on offer in a trade, of the things whose place a search passes
\* over if they are: a bag with all that is in it, and a stack.
Offers(S) ==
    LET hiding == {p \in Positions(S) :
                    Carried(S, p[1]) /\ S[p[1]][p[2]].kind \in Bag \cup Stackable}
    IN  {<<>>} \cup {<<p[1], Len(S[p[1]]) - p[2]>> : p \in hiding}

Counts(k) == 1..Most(k)

\* The indices a client may name.
IndicesOf(c) ==
    CASE c = Player -> 0..Slots
      [] c = Ground -> {0}
      [] OTHER -> {Up} \cup 0..Capacity

\* Only the top of the ground can be moved.
Movable(S) ==
    {p \in Positions(S) : S[p[1]][p[2]] # Nothing /\ (p[1] = Ground => p[2] = 1)}

\* What a move to the index i of c may come to: n things are asked for, and
\* what is on offer and what can be carried matter to a player only.
Moves(S, p, c, i) ==
    LET k == S[p[1]][p[2]].kind
        offers == IF c = Player /\ i = 0 THEN Offers(S) ELSE {<<>>}
        strengths == {s \in BOOLEAN : s \/ (c = Player /\ i # 0)}
    IN  {Moved(S, p[1], p[2], n, d, strong) :
            n \in Counts(k), strong \in strengths,
            d \in {Destination(S, c, i, k, p, offered) : offered \in offers}}

\* playerMoveItem, of a thing in reach.
MoveItem(p, c, i) ==
    /\ world' \in Moves(world, p, c, i)
    /\ UNCHANGED balance

\* doPlayerAddItem; no other slot than SLOT_WHEREEVER is asked for.
AddItem(k, n) ==
    /\ \E drop \in BOOLEAN, offered \in Offers(world) :
        world' = PlayerAdded(world, k, n, drop, offered).S
    /\ UNCHANGED balance

\* doPlayerRemoveItem.
RemoveItem(k, n) ==
    /\ \E onlyContainers \in BOOLEAN :
        \E r \in TypeRemoved(world, k, n, onlyContainers) : world' = r.S
    /\ UNCHANGED balance

\* doPlayerAddMoney.
AddMoney(money) ==
    /\ \E offered \in Offers(world) :
        world' = MoneyAdded(world, money, TRUE, offered).S
    /\ UNCHANGED balance

\* doPlayerRemoveMoney and all who sell something.
RemoveMoney(money) ==
    \E drop \in BOOLEAN, offered \in Offers(world) :
        \E r \in MoneyRemoved(world, balance, money, drop, offered) :
            world' = r.S /\ balance' = r.savings

Handled ==
    \/ \E p \in Movable(world), c \in Cylinder : \E i \in IndicesOf(c) : MoveItem(p, c, i)
    \/ \E k \in Stackable \cup Plain : \E n \in Counts(k) : AddItem(k, n) \/ RemoveItem(k, n)
    \/ \E money \in Prices : AddMoney(money) \/ RemoveMoney(money)

Bounded == Cardinality({p \in Positions(world) : world[p[1]][p[2]] # Nothing}) <= Things

InventoryNext == Handled /\ Bounded'

InventorySpec == InventoryInit /\ [][InventoryNext]_inventoryVars

-----------------------------------------------------------------------------
(* What must hold.                                                         *)

\* Every bag is in one place, which is at last the player or the ground, so
\* that none is inside itself; stacks are neither empty nor too high, and a
\* player has as many slots as ever (queryAdd before each addThing).
InPlace(S) ==
    /\ \A b \in Bag :
        /\ Cardinality({p \in Positions(S) : S[p[1]][p[2]].kind = b}) = 1
        /\ {Player, Ground} \cap Enclosing(S, b) # {}
    /\ \A p \in Positions(S) :
        LET e == S[p[1]][p[2]]
        IN  IF e = Nothing THEN p[1] = Player ELSE e.kind \in Kind /\ e.n \in Counts(e.kind)
    /\ Len(S[Player]) = Slots

\* Players are loaded with things in their places (iologindata.cpp).
ASSUME StartAssumption == \A S \in Start : S \in Worlds /\ InPlace(S)

EachInItsPlace == InPlace(world)

\* Nothing hides room for things of the kinds K: neither a bag nor any of these
\* is on offer, and no bag holds more than it can, which only an exchange brings
\* about.
Plainly(S, offered, K) ==
    /\ \A p \in Positions(S) :
            OnOffer(S, p[1], p[2], offered) => S[p[1]][p[2]].kind \notin Bag \cup K
    /\ \A b \in Bag : Carried(S, b) => Len(S[b]) <= Capacity

\* However a thing is moved, nothing comes or goes with it (internalMoveItem
\* splits, merges and exchanges).
MovesKeepAll ==
    LET total == [k \in Kind |-> Total(world, k)]
        moved(p, c) == UNION {Moves(world, p, c, i) : i \in IndicesOf(c)}
    IN  \A S \in UNION {moved(p, c) : p \in Movable(world), c \in Cylinder} :
            \A k \in Kind : Total(S, k) = total[k]

\* Who is told that things were added has them added, all of them, and who is
\* told that they were not has nothing added; only where room is hidden may
\* more be there than was said (remainderCount of internalAddItem and
\* internalPlayerAddItem).
AddedAsTold(k, n, drop, offered) ==
    LET r == PlayerAdded(world, k, n, drop, offered)
        more == Total(r.S, k) - Total(world, k)
        said == IF r.done THEN n ELSE 0
    IN  more >= said /\ (Plainly(world, offered, {k}) => more = said)

\* The same for things removed; some may be gone although it is denied only if
\* equipped things are spared (removeItemOfType).
RemovedAsTold(k, n, onlyContainers) ==
    \A r \in TypeRemoved(world, k, n, onlyContainers) :
        LET gone == Total(world, k) - Total(r.S, k)
        IN  IF r.done THEN gone = n ELSE gone = 0 \/ (onlyContainers /\ gone < n)

AnswersAreTrue ==
    \A k \in Stackable \cup Plain : \A n \in Counts(k) :
        /\ \A drop \in BOOLEAN, offered \in Offers(world) : AddedAsTold(k, n, drop, offered)
        /\ \A onlyContainers \in BOOLEAN : RemovedAsTold(k, n, onlyContainers)

\* All the money there is.
Riches(S) == Amount(S, Cylinder, Money)

\* Who is given money has that much more of it, and no more unless room for
\* coins is hidden (addMoney).
GivenExactly(money, offered) ==
    LET more == Riches(MoneyAdded(world, money, TRUE, offered).S) - Riches(world)
    IN  more >= money /\ (Plainly(world, offered, Stackable) => more = money)

\* Who pays has not paid more than the price, nor less unless room for the change
\* is hidden, and not more from the bank than there is; who is refused is no
\* richer for it, and who can pay and may drop the change is not refused
\* (removeMoney).
PriceIsPaid(money, offered) ==
    \A drop \in BOOLEAN : \A r \in MoneyRemoved(world, balance, money, drop, offered) :
        LET paid == Riches(world) + balance - (Riches(r.S) + r.savings)
        IN  /\ r.done => paid <= money /\ (Plainly(world, offered, Stackable) => paid = money)
            /\ ~r.done => Purse(r.S) <= Purse(world) /\ r.savings = balance
            /\ r.savings >= 0
            /\ drop => (r.done <=> Purse(world) + balance >= money)

\* Money is never lost where it is given and taken, and where no room is hidden
\* none is made: what addMoney breaks into coins, and what removeMoney takes from
\* coins and from the bank.
PaidExactly ==
    \A money \in Prices, offered \in Offers(world) :
        GivenExactly(money, offered) /\ PriceIsPaid(money, offered)
=============================================================================
