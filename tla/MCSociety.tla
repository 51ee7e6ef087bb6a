---------------------------- MODULE MCSociety ----------------------------
(***************************************************************************)
(* The instance of Society that TLC checks: three players, any of them a   *)
(* gamemaster, and two addresses for parties and for private channels, so  *)
(* that an object may outlive another, be taken for it or come after it.   *)
(* All there is to parties is explored while nobody is a gamemaster, uses  *)
(* channels, guilds or reports; else Crowd bounds how many gamemasters and *)
(* memberships there are at a time.                                        *)
(***************************************************************************)
EXTENDS Society, Integers, FiniteSets, TLC

CONSTANT Crowd

Size(S) == Cardinality(S)

\* Memberships of parties, and all others.
InParties ==
    Size({<<p, X>> \in Player \X PartyId :
        p \in parties.members[X] \cup parties.points[X] \cup parties.invites[X]})

Elsewhere ==
    Size({<<p, c>> \in Player \X Channel : p \in users[c]})
    + Size({<<p, c>> \in Player \X PrivateId : p \in guests[c]})
    + Size({p \in Player : guild[p] # None})
    + Size({p \in Player : report[p] # None})
    + Size(gamemaster)
    + Size(mapped)

AtMostACrowd == Elsewhere = 0 \/ InParties + Elsewhere <= Crowd

SocietySymmetry ==
    Permutations(Player) \cup Permutations(PartyId)
    \cup Permutations(PrivateId)
===========================================================================
