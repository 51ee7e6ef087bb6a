------------------------------- MODULE Party -------------------------------
(***************************************************************************)
(* Parties (party.cpp, the party commands of game.cpp, the hooks of        *)
(* player.cpp).  A party is told twice: by the lists of the Party object,  *)
(* and by the party pointer and the list of invitations of each player.    *)
(* The object deletes itself in disband(), so a pointer that was forgotten *)
(* points to freed memory, which a later party may be given again.         *)
(*                                                                         *)
(* The operators on a state S are the methods of Party; the actions are    *)
(* the commands.  Abstracted: the order of memberList, which only decides  *)
(* which member inherits the party; levels, distance and the age of        *)
(* points, which may make a test of shared experience fail at any time;    *)
(* the exhaustion that slows the commands down; icons and messages.        *)
(***************************************************************************)

CONSTANTS
    Player,
    PartyId,   \* addresses a Party object may have
    None

ASSUME PartyAssumption == None \notin Player \cup PartyId

VARIABLES
    online,    \* players in the world, not removed
    parties    \* the parties and what players know of them, see PartyState

partyVars == <<online, parties>>

PartyState ==
    [leader : [PartyId -> Player \cup {None}],   \* None where no object lives
     members : [PartyId -> SUBSET Player],
     invites : [PartyId -> SUBSET Player],
     points : [PartyId -> SUBSET Player],        \* who has an entry of pointMap
     active : [PartyId -> BOOLEAN],              \* sharedExpActive
     enabled : [PartyId -> BOOLEAN],             \* sharedExpEnabled
     party : [Player -> PartyId \cup {None}],    \* Player::m_party
     invitations : [Player -> SUBSET PartyId]]   \* Player::m_invitePartyList

NoParties ==
    [leader |-> [X \in PartyId |-> None],
     members |-> [X \in PartyId |-> {}],
     invites |-> [X \in PartyId |-> {}],
     points |-> [X \in PartyId |-> {}],
     active |-> [X \in PartyId |-> FALSE],
     enabled |-> [X \in PartyId |-> FALSE],
     party |-> [p \in Player |-> None],
     invitations |-> [p \in Player |-> {}]]

PartyInit == online = {} /\ parties = NoParties

-----------------------------------------------------------------------------
(* Mutated forms, one per plausible slip.                                  *)

\* disband() tells the leader and the members, not those it invited.
MUTDisband(S, D) ==
    [S EXCEPT
        !.leader = [X \in PartyId |-> IF X \in D THEN None ELSE @[X]],
        !.members = [X \in PartyId |-> IF X \in D THEN {} ELSE @[X]],
        !.invites = [X \in PartyId |-> IF X \in D THEN {} ELSE @[X]],
        !.points = [X \in PartyId |-> IF X \in D THEN {} ELSE @[X]],
        !.active = [X \in PartyId |-> X \notin D /\ @[X]],
        !.enabled = [X \in PartyId |-> X \notin D /\ @[X]],
        !.party = [p \in Player |-> IF @[p] \in D THEN None ELSE @[p]]]

\* A player who joins is not looked at for shared experience.
MUTJoined(S, p, X, on) ==
    [S EXCEPT !.members[X] = @ \cup {p}, !.party[p] = X,
              !.invitations[p] = @ \ {X}, !.invites[X] = @ \ {p}]

\* A player who disappears leaves its party, not the invitations it has.
MUTDisappeared(S, p, q, on) == S

-----------------------------------------------------------------------------
(* The methods of Party.                                                   *)

\* isInviting: p leads a party that q is invited to.
Inviting(S, p, q) ==
    /\ S.party[p] # None
    /\ S.leader[S.party[p]] = p
    /\ q \in S.invites[S.party[p]]

\* canDisband.
Deserted(S, X) == S.members[X] = {} /\ S.invites[X] = {}

\* disband, of each party in D: everybody in its lists is told, and the
\* object is gone.
Disband(S, D) ==
    LET Told(p, X) == p = S.leader[X] \/ p \in S.members[X]
    IN  [S EXCEPT
            !.leader = [X \in PartyId |-> IF X \in D THEN None ELSE @[X]],
            !.members = [X \in PartyId |-> IF X \in D THEN {} ELSE @[X]],
            !.invites = [X \in PartyId |-> IF X \in D THEN {} ELSE @[X]],
            !.points = [X \in PartyId |-> IF X \in D THEN {} ELSE @[X]],
            !.active = [X \in PartyId |-> X \notin D /\ @[X]],
            !.enabled = [X \in PartyId |-> X \notin D /\ @[X]],
            !.party = [p \in Player |-> IF \E X \in D : Told(p, X) THEN None ELSE @[p]],
            !.invitations = [p \in Player |-> @[p] \ {X \in D : p \in S.invites[X]}]]

\* canEnableSharedExperience and canUseSharedExperience, as far as they are
\* about the lists.
CanEnable(S, X) ==
    /\ S.members[X] # {}
    /\ {S.leader[X]} \cup S.members[X] \subseteq S.points[X]

\* updateSharedExperience; on stands for what is abstracted.
Reconsider(S, X, on) ==
    [S EXCEPT !.enabled[X] = IF S.active[X] THEN on /\ CanEnable(S, X) ELSE @]

\* invitePlayer, with the object if the party is a new one.
Invited(S, p, q, X) ==
    [S EXCEPT !.leader[X] = p, !.party[p] = X,
              !.invites[X] = @ \cup {q}, !.invitations[q] = @ \cup {X}]

\* join.
Joined(S, p, X, on) ==
    Reconsider([S EXCEPT !.members[X] = @ \cup {p}, !.party[p] = X,
                         !.invitations[p] = @ \ {X}, !.invites[X] = @ \ {p}], X, on)

\* removeInvite, in each party of W.
Uninvited(S, p, W) ==
    LET T == [S EXCEPT !.invites = [X \in PartyId |-> IF X \in W THEN @[X] \ {p} ELSE @[X]],
                       !.invitations[p] = @ \ W]
    IN  Disband(T, {X \in W : Deserted(T, X)})

\* passLeadership.
Passed(S, p, q, on) ==
    LET X == S.party[p]
    IN  Reconsider([S EXCEPT !.leader[X] = q, !.members[X] = (@ \ {q}) \cup {p}], X, on)

\* There is nobody to pass the party of p to, or nothing would be left.
MissingLeader(S, p) ==
    LET X == S.party[p]
    IN  /\ S.leader[X] = p
        /\ \/ S.members[X] = {}
           \/ S.invites[X] = {} /\ \E m \in Player : S.members[X] = {m}

\* leave; q is the member that inherits the party, if one must.
Left(S, p, q, on) ==
    LET X == S.party[p]
        inherits == S.leader[X] = p /\ ~MissingLeader(S, p)
        T == [S EXCEPT !.leader[X] = IF inherits THEN q ELSE @,
                       !.members[X] = @ \ (IF inherits THEN {p, q} ELSE {p}),
                       !.invites[X] = @ \ {p},
                       !.party[p] = None,
                       !.points[X] = @ \ {p}]
        U == Reconsider(T, X, on)
    IN  IF MissingLeader(S, p) \/ Deserted(U, X) THEN Disband(U, {X}) ELSE U

\* onCreatureDisappear: the invitations first, then the party.
Disappeared(S, p, q, on) ==
    LET T == Uninvited(S, p, S.invitations[p])
    IN  IF T.party[p] = None THEN T ELSE Left(T, p, q, on)

\* Who may inherit the party of p: memberList.front().
Heirs(p) ==
    IF parties.party[p] = None \/ parties.members[parties.party[p]] = {} THEN {p}
    ELSE parties.members[parties.party[p]]

-----------------------------------------------------------------------------
(* The commands.                                                           *)

\* playerInviteToParty; p may have no party yet.
InviteToParty(p, q) ==
    /\ {p, q} \subseteq online
    /\ p # q
    /\ ~Inviting(parties, q, p)
    /\ parties.party[q] = None
    /\ \/ /\ parties.party[p] # None
          /\ parties.leader[parties.party[p]] = p
          /\ q \notin parties.invites[parties.party[p]]
          /\ parties' = Invited(parties, p, q, parties.party[p])
       \/ /\ parties.party[p] = None
          /\ \E X \in PartyId :
                /\ parties.leader[X] = None
                /\ parties' = Invited(parties, p, q, X)
    /\ UNCHANGED online

\* playerJoinParty.
JoinParty(p, l) ==
    /\ {p, l} \subseteq online
    /\ Inviting(parties, l, p)
    /\ parties.party[p] = None
    /\ \E on \in BOOLEAN : parties' = Joined(parties, p, parties.party[l], on)
    /\ UNCHANGED online

\* playerRevokePartyInvitation.
RevokeInvitation(p, q) ==
    /\ {p, q} \subseteq online
    /\ Inviting(parties, p, q)
    /\ parties' = Uninvited(parties, q, {parties.party[p]})
    /\ UNCHANGED online

\* playerPassPartyLeadership.
PassLeadership(p, q) ==
    /\ {p, q} \subseteq online
    /\ parties.party[p] # None
    /\ parties.leader[parties.party[p]] = p
    /\ q \in parties.members[parties.party[p]]
    /\ \E on \in BOOLEAN : parties' = Passed(parties, p, q, on)
    /\ UNCHANGED online

\* playerLeaveParty.
LeaveParty(p) ==
    /\ p \in online
    /\ parties.party[p] # None
    /\ \E q \in Heirs(p), on \in BOOLEAN : parties' = Left(parties, p, q, on)
    /\ UNCHANGED online

\* playerSharePartyExperience: setSharedExperience, by the leader.
ShareExperience(p, on) ==
    LET X == parties.party[p]
    IN  /\ p \in online
        /\ X # None
        /\ parties.leader[X] = p
        /\ on # parties.active[X]
        /\ \E e \in BOOLEAN :
            parties' = [parties EXCEPT !.active[X] = on,
                                       !.enabled[X] = IF on THEN e /\ CanEnable(parties, X) ELSE @]
        /\ UNCHANGED online

\* addPlayerHealedMember, addPlayerDamageMonster.
EarnPoints(p) ==
    LET X == parties.party[p]
    IN  /\ p \in online
        /\ X # None
        /\ \E on \in BOOLEAN :
            parties' = Reconsider([parties EXCEPT !.points[X] = @ \cup {p}], X, on)
        /\ UNCHANGED online

\* onIdleStatus: clearPlayerPoints.
LosePoints(p) ==
    LET X == parties.party[p]
    IN  /\ p \in online
        /\ X # None
        /\ p \in parties.points[X]
        /\ \E on \in BOOLEAN :
            parties' = Reconsider([parties EXCEPT !.points[X] = @ \ {p}], X, on)
        /\ UNCHANGED online

\* A level gained or a step taken: updateSharedExperience.
Advance(p) ==
    LET X == parties.party[p]
    IN  /\ p \in online
        /\ X # None
        /\ \E on \in BOOLEAN : parties' = Reconsider(parties, X, on)
        /\ UNCHANGED online

\* A player goes into hiding (talkaction ghost): as if it disappeared.
Ghost(p) ==
    /\ p \in online
    /\ \E q \in Heirs(p), on \in BOOLEAN : parties' = Disappeared(parties, p, q, on)
    /\ UNCHANGED online

\* The player object is new.
Appear(p) ==
    /\ p \notin online
    /\ online' = online \cup {p}
    /\ UNCHANGED parties

\* Game::removeCreature of a player.
Disappear(p) ==
    /\ p \in online
    /\ online' = online \ {p}
    /\ \E q \in Heirs(p), on \in BOOLEAN : parties' = Disappeared(parties, p, q, on)

PartyNext ==
    \E p \in Player :
        \/ \E q \in Player : InviteToParty(p, q) \/ JoinParty(p, q)
                             \/ RevokeInvitation(p, q) \/ PassLeadership(p, q)
        \/ \E on \in BOOLEAN : ShareExperience(p, on)
        \/ LeaveParty(p)
        \/ EarnPoints(p) \/ LosePoints(p) \/ Advance(p)
        \/ Ghost(p) \/ Appear(p) \/ Disappear(p)

PartySpec == PartyInit /\ [][PartyNext]_partyVars

-----------------------------------------------------------------------------
(* What must hold.                                                         *)

\* Types.
PartyTypeOK == online \subseteq Player /\ parties \in PartyState

\* A player points to a party exactly when the party lists it as leader or
\* member, and has an invitation exactly when the party lists it as invited
\* (setParty, addPartyInvitation and removePartyInvitation against memberList
\* and inviteList).  No list survives its object, no party is left without
\* anybody to lead or to wait for, and a leader is not also a member.
PartiesAgree ==
    \A X \in PartyId :
        /\ \A p \in Player :
            /\ parties.party[p] = X <=> p = parties.leader[X] \/ p \in parties.members[X]
            /\ X \in parties.invitations[p] <=> p \in parties.invites[X]
        /\ parties.leader[X] \notin parties.members[X]
        /\ parties.leader[X] = None <=> Deserted(parties, X)

\* Experience is shared only while there is somebody to share it with and
\* everybody in the party has earned points since it joined; who left left its
\* points behind (onGainExperience asks isSharedExperienceEnabled and
\* isSharedExperienceActive and nothing else).
SharingIsEarned ==
    \A X \in PartyId :
        /\ parties.points[X] \subseteq {parties.leader[X]} \cup parties.members[X]
        /\ parties.active[X] /\ parties.enabled[X] => CanEnable(parties, X)

\* A player who is not in the world is in no list of a party: the lists hold
\* plain pointers.
NobodyGone ==
    \A X \in PartyId :
        {parties.leader[X]} \cup parties.members[X] \cup parties.invites[X]
            \subseteq online \cup {None}
===========================================================================
