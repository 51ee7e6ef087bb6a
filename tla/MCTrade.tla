------------------------------ MODULE MCTrade ------------------------------
(* The instance of Trade that TLC checks: three players, so that a trade   *)
(* can meet an outsider's, and two bags that nest.  Players, bags and      *)
(* plain items are interchangeable.                                        *)
EXTENDS Trade, TLC

TradeSymmetry == Permutations(Player) \cup Permutations(Bag)
                 \cup Permutations(Item \ Bag)
=============================================================================
