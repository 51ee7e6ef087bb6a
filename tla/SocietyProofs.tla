--------------------------- MODULE SocietyProofs ---------------------------
(***************************************************************************)
(* Theorems about Party and Society, for any number of players, parties,   *)
(* guilds and channels.  The properties of parties are stated of the       *)
(* methods' state S: what each method does to a sound state is a lemma,    *)
(* and each command is one or two methods.  What happens to parties in     *)
(* Society is what may happen in Party, so its theorems hold here too; a   *)
(* channel only gets users whom Finds lets in or who make it, and          *)
(* everything else takes users away.                                       *)
(***************************************************************************)
EXTENDS Society, TLAPS

-----------------------------------------------------------------------------
(* Parties.                                                                *)

\* PartiesAgree of a state S, but that parties of D may list players who do not
\* point to them any more; and nobody is invited where it is already.
Mutual(S, D) ==
    \A X \in PartyId :
        /\ \A p \in Player :
            LET listed == p = S.leader[X] \/ p \in S.members[X]
            IN  /\ S.party[p] = X => listed
                /\ listed => S.party[p] = X \/ (X \in D /\ S.party[p] = None)
                /\ X \in S.invitations[p] <=> p \in S.invites[X]
                /\ listed => p \notin S.invites[X]
        /\ S.leader[X] \notin S.members[X]
        /\ S.leader[X] = None => Deserted(S, X)

\* Whoever lives is not deserted, but for the parties of D.
InUse(S, D) == \A X \in PartyId \ D : Deserted(S, X) => S.leader[X] = None

\* SharingIsEarned of a state S, where parties of D may have to be reconsidered.
Earned(S, D) ==
    \A X \in PartyId :
        /\ S.points[X] \subseteq {S.leader[X]} \cup S.members[X]
        /\ S.active[X] /\ S.enabled[X] /\ X \notin D => CanEnable(S, X)

Sound(S) == S \in PartyState /\ Mutual(S, {}) /\ InUse(S, {}) /\ Earned(S, {})

\* Nobody but the players of P is newly listed.
Listed(S, X) == ({S.leader[X]} \cup S.members[X] \cup S.invites[X]) \ {None}
NoneNew(S, T, P) == \A X \in PartyId : Listed(T, X) \subseteq Listed(S, X) \cup P

PartyInv == Sound(parties) /\ online \subseteq Player /\ NobodyGone

LEMMA NoneApart == None \notin Player /\ None \notin PartyId
BY PartyAssumption

LEMMA InitParty == PartyInit => PartyInv
<1> SUFFICES ASSUME PartyInit PROVE PartyInv
  OBVIOUS
<1>1. parties \in PartyState /\ online \subseteq Player
  BY DEF PartyInit, NoParties, PartyState
<1>2. Mutual(parties, {}) /\ InUse(parties, {})
  BY NoneApart DEF PartyInit, NoParties, Mutual, InUse, Deserted
<1>3. Earned(parties, {}) /\ NobodyGone
  BY DEF PartyInit, NoParties, Earned, NobodyGone
<1> QED BY <1>1, <1>2, <1>3 DEF PartyInv, Sound

-----------------------------------------------------------------------------
(* The methods.                                                            *)

\* disband tells everybody who knew of a party of D, and nobody else.
LEMMA DisbandKeeps ==
    ASSUME NEW S \in PartyState, NEW D \in SUBSET PartyId,
           Mutual(S, D), InUse(S, D), Earned(S, D)
    PROVE  Sound(Disband(S, D)) /\ NoneNew(S, Disband(S, D), {})
<1> DEFINE T == Disband(S, D)
<1> USE NoneApart
<1>1. /\ T \in PartyState
      /\ T.leader = [X \in PartyId |-> IF X \in D THEN None ELSE S.leader[X]]
      /\ T.members = [X \in PartyId |-> IF X \in D THEN {} ELSE S.members[X]]
      /\ T.invites = [X \in PartyId |-> IF X \in D THEN {} ELSE S.invites[X]]
      /\ T.points = [X \in PartyId |-> IF X \in D THEN {} ELSE S.points[X]]
      /\ T.active = [X \in PartyId |-> X \notin D /\ S.active[X]]
      /\ T.enabled = [X \in PartyId |-> X \notin D /\ S.enabled[X]]
      /\ T.party = [p \in Player |->
            IF \E X \in D : p = S.leader[X] \/ p \in S.members[X] THEN None ELSE S.party[p]]
      /\ T.invitations = [p \in Player |->
            S.invitations[p] \ {X \in D : p \in S.invites[X]}]
  BY DEF Disband, PartyState
<1> HIDE DEF T
<1>2. Mutual(T, {})
  BY <1>1 DEF Mutual, Deserted, PartyState
<1>3. InUse(T, {})
  BY <1>1 DEF InUse, Deserted
<1>4. Earned(T, {})
  <2> SUFFICES ASSUME NEW X \in PartyId
               PROVE  /\ T.points[X] \subseteq {T.leader[X]} \cup T.members[X]
                      /\ T.active[X] /\ T.enabled[X] => CanEnable(T, X)
    BY DEF Earned
  <2>1. CASE X \in D
    <3>1. ~T.active[X] /\ T.points[X] = {}
      BY <1>1, <2>1
    <3> QED BY <3>1
  <2>2. CASE X \notin D
    <3>1. /\ T.leader[X] = S.leader[X] /\ T.members[X] = S.members[X]
          /\ T.points[X] = S.points[X]
      BY <1>1, <2>2
    <3>2. (T.active[X] => S.active[X]) /\ (T.enabled[X] => S.enabled[X])
      BY <1>1
    <3> QED BY <2>2, <3>1, <3>2 DEF Earned, CanEnable
  <2> QED BY <2>1, <2>2
<1>5. NoneNew(S, T, {})
  BY <1>1 DEF NoneNew, Listed
<1> QED BY <1>1, <1>2, <1>3, <1>4, <1>5 DEF Sound, T

\* updateSharedExperience decides anew for one party.
LEMMA ReconsiderKeeps ==
    ASSUME NEW S \in PartyState, NEW X \in PartyId, NEW on \in BOOLEAN,
           NEW D \in SUBSET PartyId,
           Mutual(S, D), InUse(S, D), Earned(S, {X})
    PROVE  LET T == Reconsider(S, X, on)
           IN  /\ T \in PartyState
               /\ Mutual(T, D) /\ InUse(T, D) /\ Earned(T, {})
               /\ NoneNew(S, T, {})
               /\ T.leader = S.leader /\ T.members = S.members /\ T.invites = S.invites
               /\ T.party = S.party
<1> DEFINE e == IF S.active[X] THEN on /\ CanEnable(S, X) ELSE S.enabled[X]
           T == Reconsider(S, X, on)
<1>1. e \in BOOLEAN
  BY Zenon DEF PartyState, CanEnable
<1>2. T = [S EXCEPT !.enabled[X] = e]
  BY DEF Reconsider
<1>3. e /\ S.active[X] => CanEnable(S, X)
  OBVIOUS
<1> HIDE DEF e
<1>4. /\ T \in PartyState
      /\ T.leader = S.leader /\ T.members = S.members /\ T.invites = S.invites
      /\ T.points = S.points /\ T.active = S.active
      /\ T.party = S.party /\ T.invitations = S.invitations
      /\ T.enabled = [S.enabled EXCEPT ![X] = e]
  <2>1. /\ T.leader = S.leader /\ T.members = S.members /\ T.invites = S.invites
        /\ T.points = S.points /\ T.active = S.active
        /\ T.party = S.party /\ T.invitations = S.invitations
        /\ T.enabled = [S.enabled EXCEPT ![X] = e]
    BY <1>2 DEF PartyState
  <2>2. [S.enabled EXCEPT ![X] = e] \in [PartyId -> BOOLEAN]
    BY <1>1 DEF PartyState
  <2>3. T \in PartyState
    BY <1>2, <2>2 DEF PartyState
  <2> QED BY <2>1, <2>3
<1> HIDE DEF T
<1>5. Mutual(T, D) /\ InUse(T, D) /\ NoneNew(S, T, {})
  BY <1>4 DEF Mutual, InUse, NoneNew, Listed, Deserted
<1>6. Earned(T, {})
  <2> SUFFICES ASSUME NEW Y \in PartyId, T.active[Y] /\ T.enabled[Y]
               PROVE  CanEnable(T, Y)
    BY <1>4 DEF Earned
  <2>1. CanEnable(S, Y)
    <3>1. CASE Y = X
      BY <1>3, <1>4, <3>1 DEF PartyState
    <3>2. CASE Y # X
      BY <1>4, <3>2 DEF Earned, PartyState
    <3> QED BY <3>1, <3>2
  <2> QED BY <1>4, <2>1 DEF CanEnable
<1> QED BY <1>4, <1>5, <1>6 DEF T

\* invitePlayer, by the leader or by whoever founds the party with it.
LEMMA InvitedKeeps ==
    ASSUME NEW S, Sound(S), NEW p \in Player, NEW q \in Player, NEW X \in PartyId,
           p # q, S.party[q] = None,
           \/ S.party[p] = X /\ S.leader[X] = p
           \/ S.party[p] = None /\ S.leader[X] = None
    PROVE  Sound(Invited(S, p, q, X)) /\ NoneNew(S, Invited(S, p, q, X), {p, q})
<1> DEFINE T == Invited(S, p, q, X)
<1> USE NoneApart
<1>0. S \in PartyState /\ Mutual(S, {}) /\ InUse(S, {}) /\ Earned(S, {})
  BY DEF Sound
<1>1. /\ T \in PartyState
      /\ T.leader = [S.leader EXCEPT ![X] = p]
      /\ T.members = S.members /\ T.points = S.points
      /\ T.active = S.active /\ T.enabled = S.enabled
      /\ T.invites = [S.invites EXCEPT ![X] = @ \cup {q}]
      /\ T.party = [S.party EXCEPT ![p] = X]
      /\ T.invitations = [S.invitations EXCEPT ![q] = @ \cup {X}]
  BY <1>0, ZenonT(40) DEF Invited, PartyState
<1> HIDE DEF T
<1>2. S.leader[X] = None => S.members[X] = {} /\ S.points[X] = {}
  BY <1>0 DEF Mutual, Earned, Deserted, PartyState
<1>3. Mutual(T, {})
  BY <1>0, <1>1, <1>2 DEF Mutual, Deserted, PartyState
<1>4. InUse(T, {})
  <2>1. q \in T.invites[X]
    BY <1>0, <1>1 DEF PartyState
  <2>2. \A Y \in PartyId \ {X} : /\ T.leader[Y] = S.leader[Y]
                                 /\ T.invites[Y] = S.invites[Y]
    BY <1>0, <1>1 DEF PartyState
  <2> QED BY <1>0, <1>1, <2>1, <2>2 DEF InUse, Deserted
<1>5. Earned(T, {})
  <2> SUFFICES ASSUME NEW Y \in PartyId
               PROVE  /\ T.points[Y] \subseteq {T.leader[Y]} \cup T.members[Y]
                      /\ T.active[Y] /\ T.enabled[Y] => CanEnable(T, Y)
    BY DEF Earned
  <2>1. /\ S.points[Y] \subseteq {S.leader[Y]} \cup S.members[Y]
        /\ S.active[Y] /\ S.enabled[Y] => CanEnable(S, Y)
    BY <1>0 DEF Earned
  <2>2. CASE T.leader[Y] = S.leader[Y]
    BY <1>1, <2>1, <2>2 DEF CanEnable
  <2>3. CASE T.leader[Y] # S.leader[Y]
    <3>1. Y = X /\ S.members[Y] = {} /\ S.points[Y] = {}
      BY <1>0, <1>1, <1>2, <2>3 DEF PartyState
    <3> QED BY <1>1, <2>1, <3>1 DEF CanEnable
  <2> QED BY <2>2, <2>3
<1>6. NoneNew(S, T, {p, q})
  BY <1>0, <1>1 DEF NoneNew, Listed, PartyState
<1> QED BY <1>1, <1>3, <1>4, <1>5, <1>6 DEF Sound, T

\* join, of a player without a party who is invited.
LEMMA JoinedKeeps ==
    ASSUME NEW S, Sound(S), NEW p \in Player, NEW X \in PartyId, NEW on \in BOOLEAN,
           S.party[p] = None, p \in S.invites[X]
    PROVE  Sound(Joined(S, p, X, on)) /\ NoneNew(S, Joined(S, p, X, on), {})
<1> DEFINE R == [S EXCEPT !.members[X] = @ \cup {p}, !.party[p] = X,
                          !.invitations[p] = @ \ {X}, !.invites[X] = @ \ {p}]
<1> USE NoneApart
<1>0. S \in PartyState /\ Mutual(S, {}) /\ InUse(S, {}) /\ Earned(S, {})
  BY DEF Sound
<1>1. /\ R \in PartyState
      /\ R.members = [S.members EXCEPT ![X] = @ \cup {p}]
      /\ R.leader = S.leader /\ R.points = S.points
      /\ R.active = S.active /\ R.enabled = S.enabled
      /\ R.invites = [S.invites EXCEPT ![X] = @ \ {p}]
      /\ R.party = [S.party EXCEPT ![p] = X]
      /\ R.invitations = [S.invitations EXCEPT ![p] = @ \ {X}]
  BY <1>0, ZenonT(40) DEF PartyState
<1>2. Joined(S, p, X, on) = Reconsider(R, X, on)
  BY DEF Joined
<1> HIDE DEF R
<1>3. S.leader[X] \notin {None, p}
  BY <1>0 DEF Mutual, Deserted
<1>4. Mutual(R, {})
  BY <1>0, <1>1, <1>3 DEF Mutual, Deserted, PartyState
<1>5. InUse(R, {})
  <2>1. p \in R.members[X]
    BY <1>0, <1>1 DEF PartyState
  <2>2. \A Y \in PartyId \ {X} : /\ R.members[Y] = S.members[Y]
                                 /\ R.invites[Y] = S.invites[Y]
    BY <1>0, <1>1 DEF PartyState
  <2> QED BY <1>0, <1>1, <2>1, <2>2 DEF InUse, Deserted
<1>6. Earned(R, {X})
  BY <1>0, <1>1 DEF Earned, CanEnable, PartyState
<1>7. NoneNew(S, R, {})
  BY <1>0, <1>1 DEF NoneNew, Listed, PartyState
<1>8. Sound(Reconsider(R, X, on)) /\ NoneNew(R, Reconsider(R, X, on), {})
  BY <1>1, <1>4, <1>5, <1>6, ReconsiderKeeps DEF Sound
<1> QED BY <1>2, <1>7, <1>8 DEF NoneNew

\* removeInvite, with the disbanding of parties that nothing is left of.
LEMMA UninvitedKeeps ==
    ASSUME NEW S, Sound(S), NEW p \in Player, NEW W \in SUBSET PartyId
    PROVE  LET T == Uninvited(S, p, W)
           IN  /\ Sound(T) /\ NoneNew(S, T, {})
               /\ T.members = S.members
               /\ T.party[p] \in {S.party[p], None}
               /\ \A X \in W : p \notin T.invites[X]
               /\ \A X \in PartyId : T.invites[X] \subseteq S.invites[X]
<1> DEFINE R == [S EXCEPT
                    !.invites = [X \in PartyId |-> IF X \in W THEN @[X] \ {p} ELSE @[X]],
                    !.invitations[p] = @ \ W]
           D == {X \in W : Deserted(R, X)}
           T == Uninvited(S, p, W)
<1> USE NoneApart
<1>0. S \in PartyState /\ Mutual(S, {}) /\ InUse(S, {}) /\ Earned(S, {})
  BY DEF Sound
<1>1. /\ R \in PartyState
      /\ R.invites = [X \in PartyId |-> IF X \in W THEN S.invites[X] \ {p} ELSE S.invites[X]]
      /\ R.invitations = [S.invitations EXCEPT ![p] = @ \ W]
      /\ R.leader = S.leader /\ R.members = S.members /\ R.points = S.points
      /\ R.active = S.active /\ R.enabled = S.enabled /\ R.party = S.party
  BY <1>0 DEF PartyState
<1>2. T = Disband(R, D)
  BY DEF Uninvited
<1>3. \A X \in D : R.members[X] = {}
  BY DEF Deserted
<1> HIDE DEF R, T
<1>4. Mutual(R, D)
  BY <1>0, <1>1 DEF Mutual, Deserted, PartyState
<1>5. InUse(R, D)
  BY <1>0, <1>1 DEF InUse, Deserted
<1>6. Earned(R, D)
  BY <1>0, <1>1 DEF Earned, CanEnable
<1>7. NoneNew(S, R, {})
  BY <1>1 DEF NoneNew, Listed
<1>8. Sound(T) /\ NoneNew(R, T, {})
  BY <1>1, <1>2, <1>4, <1>5, <1>6, DisbandKeeps
<1>9. /\ T.members = [X \in PartyId |-> IF X \in D THEN {} ELSE R.members[X]]
      /\ T.invites = [X \in PartyId |-> IF X \in D THEN {} ELSE R.invites[X]]
      /\ T.party[p] \in {R.party[p], None}
  BY <1>1, <1>2 DEF Disband, PartyState
<1>10. T.members = S.members
  BY <1>0, <1>1, <1>3, <1>9 DEF PartyState
<1>11. \A X \in PartyId : T.invites[X] \subseteq R.invites[X]
  BY <1>9
<1> QED BY <1>1, <1>7, <1>8, <1>9, <1>10, <1>11 DEF NoneNew, T

\* passLeadership to a member.
LEMMA PassedKeeps ==
    ASSUME NEW S, Sound(S), NEW p \in Player, NEW q \in Player, NEW on \in BOOLEAN,
           S.party[p] # None, S.leader[S.party[p]] = p, q \in S.members[S.party[p]]
    PROVE  Sound(Passed(S, p, q, on)) /\ NoneNew(S, Passed(S, p, q, on), {})
<1> DEFINE X == S.party[p]
           R == [S EXCEPT !.leader[X] = q, !.members[X] = (@ \ {q}) \cup {p}]
<1> USE NoneApart
<1>0. S \in PartyState /\ Mutual(S, {}) /\ InUse(S, {}) /\ Earned(S, {})
  BY DEF Sound
<1>a. X \in PartyId
  BY <1>0 DEF PartyState
<1>1. /\ R \in PartyState
      /\ R.leader = [S.leader EXCEPT ![X] = q]
      /\ R.members = [S.members EXCEPT ![X] = (@ \ {q}) \cup {p}]
      /\ R.invites = S.invites /\ R.points = S.points
      /\ R.active = S.active /\ R.enabled = S.enabled
      /\ R.party = S.party /\ R.invitations = S.invitations
  BY <1>0, <1>a DEF PartyState
<1>2. Passed(S, p, q, on) = Reconsider(R, X, on)
  BY DEF Passed
<1> HIDE DEF R
<1>3. q # p /\ p \notin S.members[X]
  BY <1>0, <1>a DEF Mutual
<1> HIDE DEF X
<1>4. /\ R.leader[X] = q /\ R.members[X] = (S.members[X] \ {q}) \cup {p}
      /\ \A Y \in PartyId \ {X} : R.leader[Y] = S.leader[Y] /\ R.members[Y] = S.members[Y]
  BY <1>0, <1>1, <1>a DEF PartyState
<1>5. S.leader[X] = p /\ q \in S.members[X]
  BY DEF X
<1>6. Mutual(R, {})
  BY <1>0, <1>1, <1>3, <1>4, <1>5 DEF Mutual, Deserted
<1>7. InUse(R, {})
  BY <1>0, <1>1, <1>4 DEF InUse, Deserted
<1>8. Earned(R, {X})
  BY <1>0, <1>1, <1>4, <1>5 DEF Earned, CanEnable
<1>9. NoneNew(S, R, {})
  BY <1>1, <1>4, <1>5 DEF NoneNew, Listed
<1>10. Sound(Reconsider(R, X, on)) /\ NoneNew(R, Reconsider(R, X, on), {})
  BY <1>1, <1>a, <1>6, <1>7, <1>8, ReconsiderKeeps DEF Sound
<1> QED BY <1>2, <1>9, <1>10 DEF NoneNew

\* leave, where q is a member if there is one.
LEMMA LeftKeeps ==
    ASSUME NEW S, Sound(S), NEW p \in Player, NEW q \in Player, NEW on \in BOOLEAN,
           S.party[p] # None,
           q \in S.members[S.party[p]] \/ S.members[S.party[p]] = {}
    PROVE  LET T == Left(S, p, q, on)
           IN  /\ Sound(T) /\ NoneNew(S, T, {})
               /\ T.party[p] = None
               /\ \A X \in PartyId : T.invites[X] \subseteq S.invites[X]
<1> DEFINE X == S.party[p]
           inherits == S.leader[X] = p /\ ~MissingLeader(S, p)
           heir == IF inherits THEN q ELSE S.leader[X]
           staying == S.members[X] \ (IF inherits THEN {p, q} ELSE {p})
           R == [S EXCEPT !.leader[X] = IF inherits THEN q ELSE @,
                          !.members[X] = @ \ (IF inherits THEN {p, q} ELSE {p}),
                          !.invites[X] = @ \ {p},
                          !.party[p] = None,
                          !.points[X] = @ \ {p}]
           U == Reconsider(R, X, on)
           T == Left(S, p, q, on)
<1> USE NoneApart
<1>0. S \in PartyState /\ Mutual(S, {}) /\ InUse(S, {}) /\ Earned(S, {})
  BY DEF Sound
<1>a. X \in PartyId
  BY <1>0 DEF PartyState
<1>b. T = IF MissingLeader(S, p) \/ Deserted(U, X) THEN Disband(U, {X}) ELSE U
  BY DEF Left
<1>c. /\ p = S.leader[X] \/ p \in S.members[X]
      /\ S.leader[X] \notin S.members[X] /\ S.leader[X] # None
      /\ S.points[X] \subseteq {S.leader[X]} \cup S.members[X]
      /\ S.leader[X] \in Player
  BY <1>0, <1>a DEF Mutual, Earned, Deserted, PartyState
<1>d. MissingLeader(S, p) => S.leader[X] = p
  BY DEF MissingLeader
<1>e. inherits => q \in S.members[X]
  BY DEF MissingLeader
<1>1. /\ R.leader = [S.leader EXCEPT ![X] = heir]
      /\ R.members = [S.members EXCEPT ![X] = staying]
      /\ R.invites = [S.invites EXCEPT ![X] = S.invites[X] \ {p}]
      /\ R.points = [S.points EXCEPT ![X] = S.points[X] \ {p}]
      /\ R.active = S.active /\ R.enabled = S.enabled
      /\ R.party = [S.party EXCEPT ![p] = None] /\ R.invitations = S.invitations
      /\ R \in PartyState
  BY <1>0, <1>a, ZenonT(40) DEF PartyState
<1> HIDE DEF R, U, T
<1>2. /\ R.leader[X] = heir /\ R.members[X] = staying
      /\ R.invites[X] = S.invites[X] \ {p} /\ R.points[X] = S.points[X] \ {p}
      /\ \A Y \in PartyId \ {X} :
            /\ R.leader[Y] = S.leader[Y] /\ R.members[Y] = S.members[Y]
            /\ R.invites[Y] = S.invites[Y] /\ R.points[Y] = S.points[Y]
      /\ R.party[p] = None
      /\ \A r \in Player \ {p} : R.party[r] = S.party[r]
  BY <1>0, <1>1, <1>a DEF PartyState
<1>3. /\ heir \in {S.leader[X]} \cup S.members[X]
      /\ heir \notin staying
      /\ {heir} \cup staying \subseteq {S.leader[X]} \cup S.members[X]
      /\ ({S.leader[X]} \cup S.members[X]) \ {p} \subseteq {heir} \cup staying
      /\ ~MissingLeader(S, p) => p \notin {heir} \cup staying
  BY <1>c, <1>d, <1>e
<1>4. S.party[p] = X
  OBVIOUS
<1> HIDE DEF heir, staying, inherits, X
<1>5. Mutual(R, {X}) /\ (~MissingLeader(S, p) => Mutual(R, {}))
  <2> SUFFICES ASSUME NEW D \in {{}, {X}}, D = {} => ~MissingLeader(S, p)
               PROVE  Mutual(R, D)
    OBVIOUS
  <2> SUFFICES ASSUME NEW Y \in PartyId
               PROVE  /\ \A r \in Player :
                        LET listed == r = R.leader[Y] \/ r \in R.members[Y]
                        IN  /\ R.party[r] = Y => listed
                            /\ listed => R.party[r] = Y \/ (Y \in D /\ R.party[r] = None)
                            /\ Y \in R.invitations[r] <=> r \in R.invites[Y]
                            /\ listed => r \notin R.invites[Y]
                      /\ R.leader[Y] \notin R.members[Y]
                      /\ R.leader[Y] = None => Deserted(R, Y)
    BY DEF Mutual
  <2>1. CASE Y = X
    <3>1. R.leader[X] # None /\ R.leader[X] \notin R.members[X]
      BY <1>2, <1>3, <1>c, <1>0, <1>a DEF PartyState
    <3>2. ASSUME NEW r \in Player
          PROVE  LET listed == r = R.leader[X] \/ r \in R.members[X]
                 IN  /\ R.party[r] = X => listed
                     /\ listed => R.party[r] = X \/ (X \in D /\ R.party[r] = None)
                     /\ X \in R.invitations[r] <=> r \in R.invites[X]
                     /\ listed => r \notin R.invites[X]
      <4>1. CASE r = p
        <5>1. p \notin S.invites[X]
          BY <1>0, <1>a, <1>c DEF Mutual
        <5> QED BY <1>0, <1>1, <1>2, <1>3, <1>a, <4>1, <5>1 DEF Mutual
      <4>2. CASE r # p
        BY <1>0, <1>1, <1>2, <1>3, <1>a, <4>2 DEF Mutual
      <4> QED BY <4>1, <4>2
    <3> QED BY <2>1, <3>1, <3>2
  <2>2. CASE Y # X
    BY <1>0, <1>1, <1>2, <1>4, <2>2 DEF Mutual, Deserted
  <2> QED BY <2>1, <2>2
<1>6. Earned(R, {X})
  BY <1>0, <1>1, <1>2, <1>3, <1>a DEF Earned, CanEnable
<1>7. InUse(R, {X}) /\ (~Deserted(R, X) => InUse(R, {}))
  BY <1>0, <1>2 DEF InUse, Deserted
<1>8. NoneNew(S, R, {}) /\ \A Y \in PartyId : R.invites[Y] \subseteq S.invites[Y]
  BY <1>2, <1>3 DEF NoneNew, Listed
<1>9. /\ U \in PartyState /\ Earned(U, {}) /\ NoneNew(R, U, {})
      /\ Mutual(U, {X}) /\ InUse(U, {X})
      /\ U.members = R.members /\ U.invites = R.invites /\ U.party = R.party
  BY <1>1, <1>5, <1>6, <1>7, <1>a, ReconsiderKeeps DEF U
<1>10. CASE MissingLeader(S, p) \/ Deserted(U, X)
  <2>1. T = Disband(U, {X})
    BY <1>b, <1>10
  <2>2. Earned(U, {X})
    BY <1>9 DEF Earned
  <2>3. Sound(T) /\ NoneNew(U, T, {})
    BY <1>9, <1>a, <2>1, <2>2, DisbandKeeps
  <2>4. \A Y \in PartyId : T.invites[Y] \subseteq U.invites[Y]
    BY <1>9, <2>1 DEF Disband, PartyState
  <2>5. T.party[p] = None
    BY <1>2, <1>9, <2>1 DEF Disband, PartyState
  <2> QED BY <1>8, <1>9, <2>3, <2>4, <2>5 DEF NoneNew, T
<1>11. CASE ~MissingLeader(S, p) /\ ~Deserted(U, X)
  <2>1. T = U
    BY <1>b, <1>11
  <2>2. Mutual(R, {}) /\ InUse(R, {})
    BY <1>5, <1>7, <1>9, <1>11 DEF Deserted
  <2>3. Mutual(U, {}) /\ InUse(U, {})
    BY <1>1, <1>6, <1>a, <2>2, ReconsiderKeeps DEF U
  <2> QED BY <1>2, <1>8, <1>9, <2>1, <2>3 DEF NoneNew, Sound, T
<1> QED BY <1>10, <1>11

\* A player who disappears or hides leaves nothing behind.
LEMMA DisappearedKeeps ==
    ASSUME Sound(parties), NEW p \in Player, NEW q \in Heirs(p), NEW on \in BOOLEAN
    PROVE  LET T == Disappeared(parties, p, q, on)
           IN  Sound(T) /\ NoneNew(parties, T, {}) /\ \A X \in PartyId : p \notin Listed(T, X)
<1> DEFINE U == Uninvited(parties, p, parties.invitations[p])
           T == Disappeared(parties, p, q, on)
<1> USE NoneApart
<1>0. /\ parties \in PartyState /\ Mutual(parties, {})
      /\ q \in Player /\ parties.invitations[p] \in SUBSET PartyId
  BY DEF Sound, Heirs, PartyState
<1>1. /\ Sound(U) /\ NoneNew(parties, U, {})
      /\ U.members = parties.members
      /\ U.party[p] \in {parties.party[p], None}
      /\ \A X \in parties.invitations[p] : p \notin U.invites[X]
      /\ \A X \in PartyId : U.invites[X] \subseteq parties.invites[X]
  BY <1>0, UninvitedKeeps
<1>2. T = IF U.party[p] = None THEN U ELSE Left(U, p, q, on)
  BY DEF Disappeared
<1> HIDE DEF U, T
<1>3. \A X \in PartyId : p \notin U.invites[X]
  BY <1>0, <1>1 DEF Mutual
<1>4. Sound(T) /\ NoneNew(U, T, {}) /\ T.party[p] = None
      /\ \A X \in PartyId : T.invites[X] \subseteq U.invites[X]
  <2>1. CASE U.party[p] = None
    BY <1>1, <1>2, <2>1 DEF NoneNew
  <2>2. CASE U.party[p] # None
    <3>1. q \in U.members[U.party[p]] \/ U.members[U.party[p]] = {}
      BY <1>1, <2>2 DEF Heirs
    <3> QED BY <1>0, <1>1, <1>2, <2>2, <3>1, LeftKeeps
  <2> QED BY <2>1, <2>2
<1>5. \A X \in PartyId : p \notin Listed(T, X)
  BY <1>3, <1>4 DEF Sound, Mutual, Listed
<1> QED BY <1>1, <1>4, <1>5 DEF NoneNew, T

-----------------------------------------------------------------------------
(* The commands.                                                           *)

\* Who is listed anew is in the world, so that nobody listed is not.
LEMMA ListedAreOnline ==
    ASSUME PartyInv, Sound(parties'), NEW P \in SUBSET online,
           NoneNew(parties, parties', P), online' = online
    PROVE  PartyInv'
<1>1. \A X \in PartyId : Listed(parties, X) \subseteq online
  BY DEF PartyInv, NobodyGone, Listed
<1>2. \A X \in PartyId : Listed(parties', X) \subseteq online
  BY <1>1 DEF NoneNew
<1>3. NobodyGone'
  BY <1>2 DEF NobodyGone, Listed
<1> QED BY <1>3 DEF PartyInv

\* A change of points, then updateSharedExperience.
LEMMA PointsKeep ==
    ASSUME NEW S, Sound(S), NEW X \in PartyId, NEW on \in BOOLEAN,
           NEW P \in SUBSET Player, P \subseteq {S.leader[X]} \cup S.members[X]
    PROVE  LET T == Reconsider([S EXCEPT !.points[X] = P], X, on)
           IN  Sound(T) /\ NoneNew(S, T, {})
<1> DEFINE R == [S EXCEPT !.points[X] = P]
<1>0. S \in PartyState /\ Mutual(S, {}) /\ InUse(S, {}) /\ Earned(S, {})
  BY DEF Sound
<1>1. /\ R \in PartyState
      /\ R.leader = S.leader /\ R.members = S.members /\ R.invites = S.invites
      /\ R.active = S.active /\ R.enabled = S.enabled
      /\ R.party = S.party /\ R.invitations = S.invitations
      /\ R.points = [S.points EXCEPT ![X] = P]
  BY <1>0 DEF PartyState
<1> HIDE DEF R
<1>2. Mutual(R, {}) /\ InUse(R, {}) /\ NoneNew(S, R, {})
  BY <1>0, <1>1 DEF Mutual, InUse, Deserted, NoneNew, Listed
<1>3. Earned(R, {X})
  BY <1>0, <1>1 DEF Earned, CanEnable, PartyState
<1>4. LET T == Reconsider(R, X, on) IN Sound(T) /\ NoneNew(R, T, {})
  BY <1>1, <1>2, <1>3, ReconsiderKeeps DEF Sound
<1> QED BY <1>2, <1>4 DEF NoneNew, R

\* The leader turns sharing on or off.
LEMMA SharedKeeps ==
    ASSUME NEW S, Sound(S), NEW X \in PartyId, NEW on \in BOOLEAN, NEW e \in BOOLEAN,
           on # S.active[X]
    PROVE  LET T == [S EXCEPT !.active[X] = on,
                              !.enabled[X] = IF on THEN e /\ CanEnable(S, X) ELSE @]
           IN  Sound(T) /\ NoneNew(S, T, {})
<1> DEFINE enabled == IF on THEN e /\ CanEnable(S, X) ELSE S.enabled[X]
           T == [S EXCEPT !.active[X] = on,
                          !.enabled[X] = IF on THEN e /\ CanEnable(S, X) ELSE @]
<1>0. S \in PartyState /\ Mutual(S, {}) /\ InUse(S, {}) /\ Earned(S, {})
  BY DEF Sound
<1>1. enabled \in BOOLEAN /\ (on /\ enabled => CanEnable(S, X))
  BY <1>0, Zenon DEF PartyState, CanEnable
<1>2. T = [S EXCEPT !.active[X] = on, !.enabled[X] = enabled]
  BY <1>0 DEF PartyState
<1> HIDE DEF enabled, T
<1>3. /\ T.leader = S.leader /\ T.members = S.members /\ T.invites = S.invites
      /\ T.points = S.points /\ T.party = S.party /\ T.invitations = S.invitations
      /\ T.active = [S.active EXCEPT ![X] = on]
      /\ T.enabled = [S.enabled EXCEPT ![X] = enabled]
  BY <1>0, <1>2 DEF PartyState
<1>4. T \in PartyState
  <2>1. /\ [S.active EXCEPT ![X] = on] \in [PartyId -> BOOLEAN]
        /\ [S.enabled EXCEPT ![X] = enabled] \in [PartyId -> BOOLEAN]
    BY <1>0, <1>1 DEF PartyState
  <2> QED BY <1>0, <1>2, <2>1 DEF PartyState
<1>5. Mutual(T, {}) /\ InUse(T, {}) /\ NoneNew(S, T, {})
  BY <1>0, <1>3 DEF Mutual, InUse, Deserted, NoneNew, Listed
<1>6. Earned(T, {})
  <2> SUFFICES ASSUME NEW Y \in PartyId, T.active[Y] /\ T.enabled[Y]
               PROVE  CanEnable(T, Y)
    BY <1>0, <1>3 DEF Earned
  <2>1. CASE Y = X
    <3>1. on /\ enabled
      BY <1>0, <1>3, <2>1 DEF PartyState
    <3> QED BY <1>1, <1>3, <2>1, <3>1 DEF CanEnable
  <2>2. CASE Y # X
    <3>1. S.active[Y] /\ S.enabled[Y]
      BY <1>0, <1>3, <2>2 DEF PartyState
    <3> QED BY <1>0, <1>3, <3>1 DEF Earned, CanEnable
  <2> QED BY <2>1, <2>2
<1> QED BY <1>4, <1>5, <1>6 DEF Sound, T

LEMMA NextParty == PartyInv /\ [PartyNext]_partyVars => PartyInv'
<1> SUFFICES ASSUME PartyInv, [PartyNext]_partyVars
             PROVE  PartyInv'
  OBVIOUS
<1> USE NoneApart
<1>0. /\ Sound(parties) /\ online \subseteq Player /\ NobodyGone
      /\ parties \in PartyState /\ Mutual(parties, {})
  BY DEF PartyInv, Sound
<1>a. \A p \in Player : parties.party[p] # None => parties.party[p] \in PartyId
  BY <1>0 DEF PartyState
<1>1. ASSUME NEW p \in Player, NEW q \in Player, InviteToParty(p, q)
      PROVE  PartyInv'
  <2>1. PICK X \in PartyId :
            /\ \/ parties.party[p] = X /\ parties.leader[X] = p
               \/ parties.party[p] = None /\ parties.leader[X] = None
            /\ parties' = Invited(parties, p, q, X)
    BY <1>1, <1>a DEF InviteToParty
  <2>2. p # q /\ parties.party[q] = None /\ {p, q} \subseteq online /\ online' = online
    BY <1>1 DEF InviteToParty
  <2>3. Sound(parties') /\ NoneNew(parties, parties', {p, q})
    BY <1>0, <2>1, <2>2, InvitedKeeps
  <2> QED BY <2>2, <2>3, ListedAreOnline
<1>2. ASSUME NEW p \in Player, NEW l \in Player, JoinParty(p, l)
      PROVE  PartyInv'
  <2>1. PICK on \in BOOLEAN : parties' = Joined(parties, p, parties.party[l], on)
    BY <1>2 DEF JoinParty
  <2>2. /\ parties.party[p] = None /\ parties.party[l] \in PartyId
        /\ p \in parties.invites[parties.party[l]] /\ online' = online
    BY <1>2, <1>a DEF JoinParty, Inviting
  <2>3. Sound(parties') /\ NoneNew(parties, parties', {})
    BY <1>0, <2>1, <2>2, JoinedKeeps
  <2> QED BY <2>2, <2>3, ListedAreOnline
<1>3. ASSUME NEW p \in Player, NEW q \in Player, RevokeInvitation(p, q)
      PROVE  PartyInv'
  <2>1. /\ parties' = Uninvited(parties, q, {parties.party[p]})
        /\ parties.party[p] \in PartyId /\ online' = online
    BY <1>3, <1>a DEF RevokeInvitation, Inviting
  <2>2. Sound(parties') /\ NoneNew(parties, parties', {})
    BY <1>0, <2>1, UninvitedKeeps
  <2> QED BY <2>1, <2>2, ListedAreOnline
<1>4. ASSUME NEW p \in Player, NEW q \in Player, PassLeadership(p, q)
      PROVE  PartyInv'
  <2>1. PICK on \in BOOLEAN : parties' = Passed(parties, p, q, on)
    BY <1>4 DEF PassLeadership
  <2>2. /\ parties.party[p] # None /\ parties.leader[parties.party[p]] = p
        /\ q \in parties.members[parties.party[p]] /\ online' = online
    BY <1>4 DEF PassLeadership
  <2>3. Sound(parties') /\ NoneNew(parties, parties', {})
    BY <1>0, <2>1, <2>2, PassedKeeps
  <2> QED BY <2>2, <2>3, ListedAreOnline
<1>5. ASSUME NEW p \in Player, NEW on \in BOOLEAN, ShareExperience(p, on)
      PROVE  PartyInv'
  <2>1. /\ parties.party[p] \in PartyId /\ online' = online
        /\ on # parties.active[parties.party[p]]
    BY <1>5, <1>a DEF ShareExperience
  <2> DEFINE X == parties.party[p]
             Turned(e) ==
                [parties EXCEPT
                    !.active[X] = on,
                    !.enabled[X] = IF on THEN e /\ CanEnable(parties, X) ELSE @]
  <2>a. PICK e \in BOOLEAN : parties' = Turned(e)
    BY <1>5 DEF ShareExperience
  <2>b. Sound(Turned(e)) /\ NoneNew(parties, Turned(e), {})
    <3> HIDE DEF X
    <3>1. X \in PartyId /\ on # parties.active[X]
      BY <2>1 DEF X
    <3> QED BY <1>0, <3>1, SharedKeeps
  <2>2. Sound(parties') /\ NoneNew(parties, parties', {})
    BY <2>a, <2>b
  <2> QED BY <2>1, <2>2, ListedAreOnline
<1>6. ASSUME NEW p \in Player, LeaveParty(p)
      PROVE  PartyInv'
  <2>1. PICK q \in Heirs(p), on \in BOOLEAN : parties' = Left(parties, p, q, on)
    BY <1>6 DEF LeaveParty
  <2>2. parties.party[p] # None /\ online' = online
    BY <1>6 DEF LeaveParty
  <2>3. /\ q \in Player
        /\ q \in parties.members[parties.party[p]] \/ parties.members[parties.party[p]] = {}
    BY <1>0, <1>a, <2>2 DEF Heirs, PartyState
  <2>4. Sound(parties') /\ NoneNew(parties, parties', {})
    BY <1>0, <2>1, <2>2, <2>3, LeftKeeps
  <2> QED BY <2>2, <2>4, ListedAreOnline
<1>7. ASSUME NEW p \in Player, EarnPoints(p) \/ LosePoints(p) \/ Advance(p)
      PROVE  PartyInv'
  <2> DEFINE X == parties.party[p]
             points == parties.points[X]
  <2>1. X \in PartyId /\ online' = online
    BY <1>7, <1>a DEF EarnPoints, LosePoints, Advance
  <2>2. PICK on \in BOOLEAN, P \in {points \cup {p}, points \ {p}, points} :
            parties' = Reconsider([parties EXCEPT !.points[X] = P], X, on)
    <3>1. parties = [parties EXCEPT !.points[X] = points]
      BY <1>0, <2>1 DEF PartyState
    <3>2. CASE EarnPoints(p)
      BY <3>2 DEF EarnPoints
    <3>3. CASE LosePoints(p)
      BY <3>3 DEF LosePoints
    <3>4. CASE Advance(p)
      BY <3>1, <3>4 DEF Advance
    <3> QED BY <1>7, <3>2, <3>3, <3>4
  <2>3. P \subseteq {parties.leader[X]} \cup parties.members[X] /\ P \in SUBSET Player
    BY <1>0, <2>1 DEF Sound, Mutual, Earned, PartyState
  <2> HIDE DEF X, points
  <2>4. Sound(parties') /\ NoneNew(parties, parties', {})
    BY <1>0, <2>1, <2>2, <2>3, PointsKeep
  <2> QED BY <2>1, <2>4, ListedAreOnline
<1>8. ASSUME NEW p \in Player, Ghost(p)
      PROVE  PartyInv'
  <2>1. PICK q \in Heirs(p), on \in BOOLEAN : parties' = Disappeared(parties, p, q, on)
    BY <1>8 DEF Ghost
  <2>2. Sound(parties') /\ NoneNew(parties, parties', {}) /\ online' = online
    BY <1>0, <1>8, <2>1, DisappearedKeeps DEF Ghost
  <2> QED BY <2>2, ListedAreOnline
<1>9. ASSUME NEW p \in Player, Appear(p)
      PROVE  PartyInv'
  BY <1>0, <1>9 DEF Appear, PartyInv, NobodyGone
<1>10. ASSUME NEW p \in Player, Disappear(p)
       PROVE  PartyInv'
  <2>1. PICK q \in Heirs(p), on \in BOOLEAN : parties' = Disappeared(parties, p, q, on)
    BY <1>10 DEF Disappear
  <2>2. /\ Sound(parties') /\ NoneNew(parties, parties', {})
        /\ \A X \in PartyId : p \notin Listed(parties', X)
    BY <1>0, <2>1, DisappearedKeeps
  <2>3. \A X \in PartyId : Listed(parties, X) \subseteq online
    BY <1>0 DEF NobodyGone, Listed
  <2>4. online' = online \ {p}
    BY <1>10 DEF Disappear
  <2>5. \A X \in PartyId : Listed(parties', X) \subseteq online'
    BY <2>2, <2>3, <2>4 DEF NoneNew
  <2>6. NobodyGone'
    BY <2>5 DEF NobodyGone, Listed
  <2> QED BY <1>0, <2>2, <2>4, <2>6 DEF PartyInv
<1>11. CASE UNCHANGED partyVars
  BY <1>0, <1>11 DEF partyVars, PartyInv, NobodyGone
<1> QED
  BY <1>1, <1>2, <1>3, <1>4, <1>5, <1>6, <1>7, <1>8, <1>9, <1>10, <1>11 DEF PartyNext

-----------------------------------------------------------------------------
(* The theorems.                                                           *)

LEMMA PartySound == PartySpec => []PartyInv
BY InitParty, NextParty, PTL DEF PartySpec

\* The party keeps its types: nobody who is no player leads, joins or waits.
THEOREM PartyTypeCorrect == PartySpec => []PartyTypeOK
<1>1. PartyInv => PartyTypeOK
  BY DEF PartyInv, Sound, PartyTypeOK
<1> QED BY <1>1, PartySound, PTL

\* The lists of a party and the pointers of players agree, whatever commands
\* players give and whenever they disappear (party.cpp against player.cpp).
LEMMA InvAgree == PartyInv => PartiesAgree
BY DEF PartyInv, Sound, Mutual, InUse, PartiesAgree

THEOREM PartiesAlwaysAgree == PartySpec => []PartiesAgree
BY InvAgree, PartySound, PTL

\* Experience is shared only with those who earned it (updateSharedExperience
\* after every change).
LEMMA InvEarned == PartyInv => SharingIsEarned
BY DEF PartyInv, Sound, Earned, SharingIsEarned

THEOREM SharingAlwaysEarned == PartySpec => []SharingIsEarned
BY InvEarned, PartySound, PTL

\* No party lists a player who is not in the world (onCreatureDisappear).
THEOREM NobodyEverGone == PartySpec => []NobodyGone
<1>1. PartyInv => NobodyGone
  BY DEF PartyInv
<1> QED BY <1>1, PartySound, PTL

-----------------------------------------------------------------------------
(* Channels and reports.                                                   *)

ChannelsOK ==
    /\ guild \in [Player -> Guild \cup {None}]
    /\ users \in [Channel -> SUBSET Player]
    /\ owner \in [PrivateId -> Player \cup {None}]
    /\ guests \in [PrivateId -> SUBSET Player]
    /\ gamemaster \in SUBSET Player
    /\ report \in [Player -> {None, "open", "gone"} \cup Player]

\* The parts of GoneLeavesNothing about channels and reports.
UsersOnline == \A c \in Channel : users[c] \subseteq online
ReportsOnline ==
    \A p \in Player : report[p] # None =>
        /\ p \in online
        /\ \/ report[p] \in {"open"} \cup (online \cap gamemaster)
           \/ p \in relieved /\ report[p] \in {"gone"} \cup online

SocietyInv ==
    /\ PartyInv /\ ChannelsOK
    /\ UsersOnline /\ ReportsOnline /\ PrivateStaysPrivate

LEMMA Private ==
    /\ PrivateId \subseteq Channel
    /\ \A c \in PrivateId : c \notin PartyId \cup Guild \cup Public
BY SocietyAssumption DEF Channel

LEMMA InitSociety == SocietyInit => SocietyInv
<1> SUFFICES ASSUME SocietyInit PROVE SocietyInv
  OBVIOUS
<1>1. PartyInv
  BY InitParty DEF SocietyInit
<1>2. ChannelsOK
  BY DEF SocietyInit, ChannelsOK
<1>3. UsersOnline /\ ReportsOnline /\ PrivateStaysPrivate
  BY Private DEF SocietyInit, UsersOnline, ReportsOnline, PrivateStaysPrivate
<1> QED BY <1>1, <1>2, <1>3 DEF SocietyInv

-----------------------------------------------------------------------------
(* Parties.                                                                *)

\* A command leaves everybody in the world.
LEMMA CommandKeepsOnline ==
    ASSUME NEW p \in Player, PartyCommand(p)
    PROVE  PartyNext /\ online' = online
  BY DEF PartyCommand, PartyNext, InviteToParty, JoinParty, PassLeadership, RevokeInvitation,
         ShareExperience, EarnPoints, LosePoints, Advance, LeaveParty, Ghost

LEMMA SocietyIsParty == SocietyNext => [PartyNext]_partyVars
<1> SUFFICES ASSUME SocietyNext PROVE [PartyNext]_partyVars
  OBVIOUS
<1>1. ASSUME NEW p \in Player, PartyCommand(p)
      PROVE  PartyNext
  BY <1>1, CommandKeepsOnline
<1>2. ASSUME NEW p \in Player, Login(p)
      PROVE  PartyNext
  BY <1>2 DEF Login, PartyNext
<1>3. ASSUME NEW p \in Player, Logout(p)
      PROVE  PartyNext
  BY <1>3 DEF Logout, PartyNext
<1>4. ASSUME NEW p \in Player, NEW q \in Player,
             \/ RequestChannels(p) \/ CreatePrivateChannel(p)
             \/ \E c \in Channel : OpenChannel(p, c) \/ CloseChannel(p, c)
             \/ ChannelInvite(p, q) \/ ChannelExclude(p, q) \/ ProcessRuleViolation(p, q)
             \/ \E g \in Guild : JoinGuild(p, g)
             \/ LeaveGuild(p) \/ ReportRuleViolation(p) \/ CloseRuleViolation(p)
             \/ ChangeGroup(p) \/ ChangeClient(p)
      PROVE  UNCHANGED partyVars
  BY <1>4 DEF RequestChannels, CreatePrivateChannel, OpenChannel, CloseChannel, ChannelInvite,
              ChannelExclude, ProcessRuleViolation, JoinGuild, LeaveGuild, ReportRuleViolation,
              CloseRuleViolation, ChangeGroup, Reported, ChangeClient
<1>5. ASSUME ReloadChannels
      PROVE  UNCHANGED partyVars
  BY <1>5 DEF ReloadChannels
<1> QED BY <1>1, <1>2, <1>3, <1>4, <1>5 DEF SocietyNext

-----------------------------------------------------------------------------
(* Channels.                                                               *)

\* Taking users away breaks nothing.
LEMMA FewerUsers ==
    ASSUME SocietyInv, users' \in [Channel -> SUBSET Player],
           \A c \in Channel : users'[c] \subseteq users[c],
           UNCHANGED <<online, owner, guests>>
    PROVE  UsersOnline' /\ PrivateStaysPrivate'
<1>1. UsersOnline'
  BY DEF SocietyInv, UsersOnline
<1>2. PrivateStaysPrivate'
  BY Private DEF SocietyInv, PrivateStaysPrivate
<1> QED BY <1>1, <1>2

LEMMA DismissedAreFewer ==
    ASSUME SocietyInv, NEW leaving
    PROVE  /\ Dismissed(leaving) \in [Channel -> SUBSET Player]
           /\ \A c \in Channel : Dismissed(leaving)[c] \subseteq users[c]
  BY DEF SocietyInv, ChannelsOK, Dismissed

\* Channels of C are deleted, and users of others leave.
LEMMA DeleteKeeps ==
    ASSUME SocietyInv, NEW C \in SUBSET Channel, NEW W \in [Channel -> SUBSET Player],
           \A c \in Channel : W[c] \subseteq users[c], Delete(C, W),
           \A c \in Channel \ C : W[c] \subseteq online',
           \A c \in PrivateId \ C : owner[c] # None => owner[c] \in online'
    PROVE  /\ users' \in [Channel -> SUBSET Player]
           /\ owner' \in [PrivateId -> Player \cup {None}]
           /\ guests' \in [PrivateId -> SUBSET Player]
           /\ UsersOnline' /\ PrivateStaysPrivate'
<1>0. ChannelsOK /\ PrivateStaysPrivate
  BY DEF SocietyInv
<1>1. /\ users' = [c \in Channel |-> IF c \in C THEN {} ELSE W[c]]
      /\ owner' = [c \in PrivateId |-> IF c \in C THEN None ELSE owner[c]]
      /\ guests' = [c \in PrivateId |-> IF c \in C THEN {} ELSE guests[c]]
  BY DEF Delete
<1>2. /\ users' \in [Channel -> SUBSET Player]
      /\ owner' \in [PrivateId -> Player \cup {None}]
      /\ guests' \in [PrivateId -> SUBSET Player]
  BY <1>0, <1>1 DEF ChannelsOK
<1>3. UsersOnline'
  BY <1>1 DEF UsersOnline
<1>4. PrivateStaysPrivate'
  <2> SUFFICES ASSUME NEW c \in PrivateId
               PROVE  /\ owner'[c] = None => users'[c] = {} /\ guests'[c] = {}
                      /\ owner'[c] # None =>
                            /\ owner'[c] \in online'
                            /\ users'[c] \subseteq {owner'[c]} \cup guests'[c]
                      /\ \A d \in PrivateId \ {c} : owner'[c] = owner'[d] => owner'[c] = None
    BY DEF PrivateStaysPrivate
  <2>1. CASE c \in C
    BY <1>1, <2>1, Private
  <2>2. CASE c \notin C
    <3>1. /\ owner'[c] = owner[c] /\ guests'[c] = guests[c] /\ users'[c] \subseteq users[c]
      BY <1>1, <2>2, Private
    <3>2. \A d \in PrivateId : owner'[d] \in {owner[d], None}
      BY <1>1
    <3> QED BY <1>0, <2>2, <3>1, <3>2 DEF PrivateStaysPrivate
  <2> QED BY <2>1, <2>2
<1> QED BY <1>2, <1>3, <1>4

\* The steps that leave parties and the world alone.
LEMMA NextChannels ==
    ASSUME SocietyInv, NEW p \in Player, NEW q \in Player,
           \/ RequestChannels(p) \/ CreatePrivateChannel(p)
           \/ \E c \in Channel : OpenChannel(p, c) \/ CloseChannel(p, c)
           \/ ChannelInvite(p, q) \/ ChannelExclude(p, q)
    PROVE  ChannelsOK' /\ UsersOnline' /\ ReportsOnline' /\ PrivateStaysPrivate'
<1>0. /\ ChannelsOK /\ UsersOnline /\ ReportsOnline /\ PrivateStaysPrivate
      /\ online \subseteq Player
  BY DEF SocietyInv, PartyInv
<1> USE Private, NoneApart
<1>1. UNCHANGED <<online, parties, client, guild, gamemaster, report, relieved>>
  BY DEF RequestChannels, CreatePrivateChannel, OpenChannel, CloseChannel, ChannelInvite,
         ChannelExclude, partyVars, reportVars
<1>2. ReportsOnline'
  BY <1>0, <1>1 DEF ReportsOnline
<1>3. CASE RequestChannels(p)
  BY <1>0, <1>1, <1>2, <1>3
     DEF RequestChannels, ChannelsOK, UsersOnline, PrivateStaysPrivate
<1>4. CASE CreatePrivateChannel(p)
  <2>1. PICK c \in PrivateId :
            /\ owner[c] = None
            /\ owner' = [owner EXCEPT ![c] = p]
            /\ users' = [users EXCEPT ![c] = {p}]
    BY <1>4 DEF CreatePrivateChannel
  <2>2. p \in online /\ guests' = guests /\ \A d \in PrivateId : owner[d] # p
    BY <1>4 DEF CreatePrivateChannel
  <2>3. ChannelsOK'
    BY <1>0, <1>1, <2>1, <2>2 DEF ChannelsOK
  <2>4. UsersOnline'
    BY <1>0, <1>1, <2>1, <2>2 DEF ChannelsOK, UsersOnline
  <2>5. /\ owner'[c] = p /\ users'[c] = {p} /\ guests'[c] = {}
        /\ \A d \in PrivateId \ {c} : owner'[d] = owner[d] /\ users'[d] = users[d]
    BY <1>0, <2>1, <2>2 DEF ChannelsOK, PrivateStaysPrivate
  <2>6. PrivateStaysPrivate'
    BY <1>0, <1>1, <2>2, <2>5 DEF PrivateStaysPrivate
  <2> QED BY <1>2, <2>3, <2>4, <2>6
<1>5. ASSUME NEW c \in Channel, OpenChannel(p, c)
      PROVE  ChannelsOK' /\ UsersOnline' /\ PrivateStaysPrivate'
  <2>1. /\ users' = [users EXCEPT ![c] = @ \cup {p}] /\ p \in online
        /\ UNCHANGED <<owner, guests>>
    BY <1>5 DEF OpenChannel
  <2>2. c \in PrivateId => owner[c] # None /\ (p = owner[c] \/ p \in guests[c])
    BY <1>5 DEF OpenChannel, Finds
  <2>3. ChannelsOK' /\ UsersOnline'
    BY <1>0, <1>1, <2>1 DEF ChannelsOK, UsersOnline
  <2>4. \A d \in PrivateId : users'[d] \subseteq users[d] \cup (IF d = c THEN {p} ELSE {})
    BY <1>0, <2>1 DEF ChannelsOK
  <2>5. PrivateStaysPrivate'
    BY <1>0, <1>1, <2>1, <2>2, <2>4 DEF PrivateStaysPrivate
  <2> QED BY <2>3, <2>5
<1>6. ASSUME NEW c \in Channel, CloseChannel(p, c)
      PROVE  ChannelsOK' /\ UsersOnline' /\ PrivateStaysPrivate'
  <2> DEFINE C == IF c \in PrivateId /\ owner[c] = p THEN {c} ELSE {}
             W == [users EXCEPT ![c] = @ \ {p}]
  <2>1. Delete(C, W)
    BY <1>6 DEF CloseChannel
  <2>2. /\ C \in SUBSET Channel /\ W \in [Channel -> SUBSET Player]
        /\ \A d \in Channel : W[d] \subseteq users[d]
    BY <1>0 DEF ChannelsOK
  <2> HIDE DEF C, W
  <2>3. /\ \A d \in Channel \ C : W[d] \subseteq online'
        /\ \A d \in PrivateId \ C : owner[d] # None => owner[d] \in online'
    BY <1>0, <1>1, <2>2 DEF UsersOnline, PrivateStaysPrivate
  <2> QED BY <1>0, <1>1, <2>1, <2>2, <2>3, DeleteKeeps DEF ChannelsOK
<1>7. CASE ChannelInvite(p, q)
  <2>1. PICK c \in PrivateId : owner[c] = p /\ guests' = [guests EXCEPT ![c] = @ \cup {q}]
    BY <1>7 DEF ChannelInvite
  <2>2. UNCHANGED <<users, owner>>
    BY <1>7 DEF ChannelInvite
  <2>3. ChannelsOK' /\ UsersOnline'
    BY <1>0, <1>1, <2>1, <2>2 DEF ChannelsOK, UsersOnline
  <2>4. /\ owner[c] # None
        /\ \A d \in PrivateId : guests[d] \subseteq guests'[d]
        /\ \A d \in PrivateId \ {c} : guests'[d] = guests[d]
    BY <1>0, <2>1 DEF ChannelsOK
  <2>5. PrivateStaysPrivate'
    <3> SUFFICES ASSUME NEW d \in PrivateId
                 PROVE  /\ owner[d] = None => users[d] = {} /\ guests'[d] = {}
                        /\ owner[d] # None =>
                              /\ owner[d] \in online
                              /\ users[d] \subseteq {owner[d]} \cup guests'[d]
                        /\ \A e \in PrivateId \ {d} : owner[d] = owner[e] => owner[d] = None
      BY <1>1, <2>2 DEF PrivateStaysPrivate
    <3>1. /\ owner[d] = None => users[d] = {} /\ guests[d] = {}
          /\ owner[d] # None => owner[d] \in online /\ users[d] \subseteq {owner[d]} \cup guests[d]
          /\ \A e \in PrivateId \ {d} : owner[d] = owner[e] => owner[d] = None
      BY <1>0 DEF PrivateStaysPrivate
    <3>2. CASE owner[d] = None
      BY <2>4, <3>1, <3>2
    <3>3. CASE owner[d] # None
      BY <2>4, <3>1, <3>3
    <3> QED BY <3>2, <3>3
  <2> QED BY <1>2, <2>3, <2>5
<1>8. CASE ChannelExclude(p, q)
  <2>1. PICK c \in PrivateId :
            /\ owner[c] = p /\ q \in guests[c]
            /\ guests' = [guests EXCEPT ![c] = @ \ {q}]
            /\ users' = [users EXCEPT ![c] = users[c] \ {q}]
    BY <1>8 DEF ChannelExclude, ShownOut
  <2>2. UNCHANGED owner
    BY <1>8 DEF ChannelExclude
  <2>3. ChannelsOK' /\ UsersOnline'
    BY <1>0, <1>1, <2>1, <2>2 DEF ChannelsOK, UsersOnline
  <2>4. /\ guests'[c] = guests[c] \ {q} /\ users'[c] = users[c] \ {q} /\ owner[c] # None
        /\ \A d \in PrivateId \ {c} : guests'[d] = guests[d] /\ users'[d] = users[d]
    BY <1>0, <2>1 DEF ChannelsOK
  <2>5. PrivateStaysPrivate'
    BY <1>0, <1>1, <2>2, <2>4 DEF PrivateStaysPrivate
  <2> QED BY <1>2, <2>3, <2>5
<1> QED BY <1>2, <1>3, <1>4, <1>5, <1>6, <1>7, <1>8

\* The steps about guilds, reports, groups and clients.
LEMMA NextOthers ==
    ASSUME SocietyInv, NEW p \in Player, NEW q \in Player,
           \/ \E g \in Guild : JoinGuild(p, g)
           \/ LeaveGuild(p) \/ ChangeClient(p) \/ ChangeGroup(p)
           \/ ReportRuleViolation(p) \/ ProcessRuleViolation(p, q) \/ CloseRuleViolation(p)
    PROVE  ChannelsOK' /\ UsersOnline' /\ ReportsOnline' /\ PrivateStaysPrivate'
<1>0. /\ ChannelsOK /\ UsersOnline /\ ReportsOnline /\ PrivateStaysPrivate
      /\ online \subseteq Player
  BY DEF SocietyInv, PartyInv
<1> USE Private, NoneApart
<1>1. UNCHANGED <<online, owner, guests>>
  BY DEF JoinGuild, LeaveGuild, ChangeClient, ChangeGroup, ReportRuleViolation,
         ProcessRuleViolation, CloseRuleViolation, Reported, partyVars, chatVars
<1>2. users' \in [Channel -> SUBSET Player] /\ \A c \in Channel : users'[c] \subseteq users[c]
  BY <1>0 DEF JoinGuild, LeaveGuild, ChangeClient, ChangeGroup, ReportRuleViolation,
              ProcessRuleViolation, CloseRuleViolation, Reported, chatVars, ChannelsOK
<1>3. guild' \in [Player -> Guild \cup {None}]
  BY <1>0 DEF JoinGuild, LeaveGuild, ChangeClient, ChangeGroup, ReportRuleViolation,
              ProcessRuleViolation, CloseRuleViolation, Reported, ChannelsOK
<1>4. /\ gamemaster' \in SUBSET Player
      /\ report' \in [Player -> {None, "open", "gone"} \cup Player]
      /\ ReportsOnline'
  <2>1. CASE UNCHANGED reportVars
    BY <1>0, <1>1, <2>1 DEF reportVars, ChannelsOK, ReportsOnline
  <2>2. ASSUME NEW r \in {None, "open"} \cup (online \cap gamemaster), NEW o \in online,
               Reported(o, r)
        PROVE  /\ gamemaster' \in SUBSET Player
               /\ report' \in [Player -> {None, "open", "gone"} \cup Player]
               /\ ReportsOnline'
    <3>1. /\ report' = [report EXCEPT ![o] = r] /\ relieved' = relieved \ {o}
          /\ gamemaster' = gamemaster
      BY <2>2 DEF Reported
    <3>2. o \in Player /\ r \in {None, "open", "gone"} \cup Player
      BY <1>0 DEF ChannelsOK
    <3>3. report' \in [Player -> {None, "open", "gone"} \cup Player] /\ report'[o] = r
      BY <1>0, <3>1, <3>2 DEF ChannelsOK
    <3>4. \A d \in Player \ {o} : report'[d] = report[d] /\ (d \in relieved' <=> d \in relieved)
      BY <1>0, <3>1 DEF ChannelsOK
    <3>5. ReportsOnline'
      <4> SUFFICES ASSUME NEW d \in Player, report'[d] # None
                   PROVE  /\ d \in online
                          /\ \/ report'[d] \in {"open"} \cup (online \cap gamemaster)
                             \/ d \in relieved' /\ report'[d] \in {"gone"} \cup online
        BY <1>1, <3>1 DEF ReportsOnline
      <4>1. CASE d = o
        BY <3>3, <4>1
      <4>2. CASE d # o
        BY <1>0, <3>4, <4>2 DEF ReportsOnline
      <4> QED BY <4>1, <4>2
    <3> QED BY <1>0, <3>1, <3>3, <3>5 DEF ChannelsOK
  <2>3. CASE ReportRuleViolation(p)
    BY <2>2, <2>3 DEF ReportRuleViolation
  <2>4. CASE ProcessRuleViolation(p, q)
    BY <2>2, <2>4 DEF ProcessRuleViolation
  <2>5. CASE CloseRuleViolation(p)
    BY <2>2, <2>5 DEF CloseRuleViolation
  <2>6. CASE ChangeGroup(p)
    <3>1. report' = report
      BY <2>6 DEF ChangeGroup
    <3>2. gamemaster' \in SUBSET Player
      BY <1>0, <2>6 DEF ChangeGroup, ChannelsOK
    <3>3. ReportsOnline'
      <4>1. CASE p \in gamemaster
        <5>1. /\ gamemaster' = gamemaster \ {p}
              /\ relieved' = relieved \cup {d \in Player : report[d] = p}
          BY <2>6, <4>1 DEF ChangeGroup
        <5> QED BY <1>0, <1>1, <3>1, <5>1 DEF ReportsOnline
      <4>2. CASE p \notin gamemaster
        <5>1. gamemaster' = gamemaster \cup {p} /\ relieved' = relieved
          BY <2>6, <4>2 DEF ChangeGroup
        <5> QED BY <1>0, <1>1, <3>1, <5>1 DEF ReportsOnline
      <4> QED BY <4>1, <4>2
    <3> QED BY <1>0, <3>1, <3>2, <3>3 DEF ChannelsOK
  <2> QED BY <2>1, <2>3, <2>4, <2>5, <2>6 DEF JoinGuild, LeaveGuild, ChangeClient
<1> QED BY <1>0, <1>1, <1>2, <1>3, <1>4, FewerUsers DEF ChannelsOK

\* A player who logs out is forgotten everywhere.
LEMMA NextLogout ==
    ASSUME SocietyInv, NEW p \in Player, Logout(p)
    PROVE  ChannelsOK' /\ UsersOnline' /\ ReportsOnline' /\ PrivateStaysPrivate'
<1> DEFINE C == ForgottenBy(p)
           W == [c \in Channel |-> Dismissed(p)[c] \ {p}]
<1>0. ChannelsOK /\ UsersOnline /\ ReportsOnline /\ PrivateStaysPrivate
  BY DEF SocietyInv
<1> USE Private, NoneApart
<1>1. /\ online' = online \ {p} /\ guild' = guild /\ Delete(C, W)
      /\ gamemaster' = gamemaster
      /\ report' = [q \in Player |-> LeftBy(p, q)]
      /\ relieved' = {q \in relieved : LeftBy(p, q) # None}
  BY DEF Logout, Disappear
<1>2. /\ C \in SUBSET Channel /\ W \in [Channel -> SUBSET Player]
      /\ \A c \in Channel : W[c] \subseteq users[c] \ {p}
      /\ \A c \in PrivateId \ C : owner[c] # p
  BY DismissedAreFewer DEF ForgottenBy
<1> HIDE DEF C, W
<1>3. /\ \A c \in Channel \ C : W[c] \subseteq online'
      /\ \A c \in PrivateId \ C : owner[c] # None => owner[c] \in online'
  BY <1>0, <1>1, <1>2 DEF UsersOnline, PrivateStaysPrivate
<1>4. /\ users' \in [Channel -> SUBSET Player]
      /\ owner' \in [PrivateId -> Player \cup {None}]
      /\ guests' \in [PrivateId -> SUBSET Player]
      /\ UsersOnline' /\ PrivateStaysPrivate'
  BY <1>1, <1>2, <1>3, DeleteKeeps
<1>5. /\ report' \in [Player -> {None, "open", "gone"} \cup Player]
      /\ ReportsOnline'
  <2>1. \A q \in Player : LeftBy(p, q) \in {None, "gone", report[q]}
    BY DEF LeftBy
  <2>2. report' \in [Player -> {None, "open", "gone"} \cup Player]
    BY <1>0, <1>1, <2>1 DEF ChannelsOK
  <2>3. ReportsOnline'
    <3> SUFFICES ASSUME NEW q \in Player, LeftBy(p, q) # None
                 PROVE  /\ q \in online'
                        /\ \/ LeftBy(p, q) \in {"open"} \cup (online' \cap gamemaster)
                           \/ q \in relieved' /\ LeftBy(p, q) \in {"gone"} \cup online'
      BY <1>1 DEF ReportsOnline
    <3>1. q # p
      BY DEF LeftBy
    <3>2. CASE report[q] = p
      <4>1. p \notin gamemaster /\ LeftBy(p, q) = "gone"
        BY <3>1, <3>2 DEF LeftBy
      <4>2. q \in online /\ (q \in relieved \/ p = "open")
        BY <1>0, <3>2, <4>1 DEF ReportsOnline
      <4>3. p # "open"
        BY SocietyAssumption
      <4> QED BY <1>1, <3>1, <4>1, <4>2, <4>3
    <3>3. CASE report[q] # p
      <4>1. LeftBy(p, q) = report[q]
        BY <3>1, <3>3 DEF LeftBy
      <4> QED BY <1>0, <1>1, <3>1, <3>3, <4>1 DEF ReportsOnline
    <3> QED BY <3>2, <3>3
  <2> QED BY <2>2, <2>3
<1> QED BY <1>0, <1>1, <1>4, <1>5 DEF ChannelsOK

LEMMA NextSociety == SocietyInv /\ [SocietyNext]_societyVars => SocietyInv'
<1> SUFFICES ASSUME SocietyInv, [SocietyNext]_societyVars PROVE SocietyInv'
  OBVIOUS
<1>0. /\ ChannelsOK /\ UsersOnline /\ ReportsOnline /\ PrivateStaysPrivate /\ PartyInv
  BY DEF SocietyInv
<1>1. PartyInv'
  BY <1>0, SocietyIsParty, NextParty DEF societyVars, partyVars
<1>2. ASSUME NEW p \in Player,
             PartyCommand(p), UNCHANGED <<client, guild, mapped, owner, guests, reportVars>>
      PROVE  ChannelsOK' /\ UsersOnline' /\ ReportsOnline' /\ PrivateStaysPrivate'
  <2>1. users' = users \/ \E r \in {None, p} : users' = Dismissed(r)
    BY <1>2 DEF PartyCommand
  <2>2. /\ users' \in [Channel -> SUBSET Player]
        /\ \A c \in Channel : users'[c] \subseteq users[c]
    BY <1>0, <2>1, DismissedAreFewer DEF ChannelsOK
  <2>3. online' = online
    BY <1>2, CommandKeepsOnline
  <2>4. UsersOnline' /\ PrivateStaysPrivate'
    BY <1>2, <2>2, <2>3, FewerUsers
  <2> QED BY <1>0, <1>2, <2>2, <2>3, <2>4 DEF ChannelsOK, ReportsOnline, reportVars
<1>3. ASSUME NEW p \in Player, Login(p)
      PROVE  ChannelsOK' /\ UsersOnline' /\ ReportsOnline' /\ PrivateStaysPrivate'
  <2>1. /\ online \subseteq online'
        /\ UNCHANGED <<guild, users, owner, guests, gamemaster, report, relieved>>
    BY <1>3 DEF Login, Appear, chatVars, reportVars
  <2> QED BY <1>0, <2>1 DEF ChannelsOK, UsersOnline, ReportsOnline, PrivateStaysPrivate
<1>4. ASSUME ReloadChannels
      PROVE  ChannelsOK' /\ UsersOnline' /\ ReportsOnline' /\ PrivateStaysPrivate'
  <2> DEFINE C == Channel \ Guild
  <2>1. Delete(C, users) /\ UNCHANGED <<online, guild, gamemaster, report, relieved>>
    BY <1>4 DEF ReloadChannels, partyVars, reportVars
  <2>2. C \in SUBSET Channel /\ PrivateId \subseteq C
    BY Private
  <2> HIDE DEF C
  <2>3. /\ users' \in [Channel -> SUBSET Player]
        /\ owner' \in [PrivateId -> Player \cup {None}]
        /\ guests' \in [PrivateId -> SUBSET Player]
        /\ UsersOnline' /\ PrivateStaysPrivate'
    <3>1. \A c \in Channel \ C : users[c] \subseteq online'
      BY <1>0, <2>1 DEF UsersOnline
    <3> QED BY <1>0, <2>1, <2>2, <3>1, DeleteKeeps DEF ChannelsOK
  <2> QED BY <1>0, <2>1, <2>3 DEF ChannelsOK, ReportsOnline
<1>5. ASSUME UNCHANGED societyVars
      PROVE  ChannelsOK' /\ UsersOnline' /\ ReportsOnline' /\ PrivateStaysPrivate'
  BY <1>0, <1>5 DEF societyVars, partyVars, chatVars, reportVars, ChannelsOK, UsersOnline,
                    ReportsOnline, PrivateStaysPrivate
<1>6. ChannelsOK' /\ UsersOnline' /\ ReportsOnline' /\ PrivateStaysPrivate'
  BY <1>2, <1>3, <1>4, <1>5, NextChannels, NextOthers, NextLogout DEF SocietyNext
<1> QED BY <1>1, <1>6 DEF SocietyInv

-----------------------------------------------------------------------------
(* The theorems.                                                           *)

LEMMA SocietySound == SocietySpec => []SocietyInv
BY InitSociety, NextSociety, PTL DEF SocietySpec

\* Beside channels, guilds and reports, parties do what Party allows.
THEOREM SocietyImplementsParty == SocietySpec => PartySpec
<1>1. SocietyInit => PartyInit
  BY DEF SocietyInit
<1>2. [SocietyNext]_societyVars => [PartyNext]_partyVars
  BY SocietyIsParty DEF societyVars
<1> QED BY <1>1, <1>2, PTL DEF SocietySpec, PartySpec

\* A player who is not in the world is in no party, channel or report
\* (Player::onCreatureDisappear).
THEOREM GoneAlwaysLeavesNothing == SocietySpec => []GoneLeavesNothing
<1>1. SocietyInv => GoneLeavesNothing
  BY DEF SocietyInv, PartyInv, UsersOnline, ReportsOnline, GoneLeavesNothing
<1> QED BY <1>1, SocietySound, PTL

\* Only owners and invited players are in private channels (excludePlayer,
\* removeUserFromChannels).
THEOREM PrivateAlwaysStaysPrivate == SocietySpec => []PrivateStaysPrivate
<1>1. SocietyInv => PrivateStaysPrivate
  BY DEF SocietyInv
<1> QED BY <1>1, SocietySound, PTL
=============================================================================
