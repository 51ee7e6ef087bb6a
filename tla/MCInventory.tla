--------------------------- MODULE MCInventory ---------------------------
(***************************************************************************)
(* The instance of Inventory that TLC checks: a backpack that may hold a   *)
(* bag, a sword and coins of two values in a world of few things.          *)
(***************************************************************************)
EXTENDS Inventory

MCCoins == <<"platinum", "gold">>
MCWorth == [platinum |-> 4, gold |-> 1]

\* The first slot is for bags, the second is a hand.
MCFits(k, i) == i = 2 \/ k \in Bag

Begin(held, packed, bagged) ==
    [c \in Cylinder |->
        CASE c = Player -> <<Thing("backpack", 1), held>>
          [] c = "backpack" -> packed
          [] c = "bag" -> bagged
          [] OTHER -> IF Thing("bag", 1) \in ToSet(packed) THEN <<>> ELSE <<Thing("bag", 1)>>]

\* With nothing but the bags; with gold in each place, some of it in a bag that
\* may be on offer; and with gold in every place there is, any of it on offer.
MCStart ==
    {Begin(Nothing, <<>>, <<>>),
     Begin(Thing("gold", 2), <<Thing("gold", 2), Thing("bag", 1)>>, <<Thing("gold", 2)>>),
     Begin(Thing("gold", 2), <<Thing("gold", 2), Thing("gold", 2)>>, <<>>)}
==========================================================================
