---------------------------- MODULE MCCreatures ----------------------------
(***************************************************************************)
(* The instance of Creatures that TLC checks.  All that two monsters and a *)
(* player without the flag may do is explored; with it, or after it was    *)
(* lost, one of the three is in the lair and alive.  While a third monster *)
(* exists, all but one are, and the player has not got the flag.           *)
(***************************************************************************)
EXTENDS Creatures, TLC

CreaturesSymmetry == Permutations(Monster)

Away == Cardinality({c \in Creature : being.exists[c] /\ (being.place[c] # Lair \/ ~being.alive[c])})

MostlyAtRest ==
    IF \E c \in Creature : ~being.exists[c]
    THEN ignored \cup demoted = {} \/ Away <= 2
    ELSE ignored \cup demoted = {} /\ Away <= 1
============================================================================
